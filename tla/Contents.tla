------------------------------ MODULE Contents ------------------------------
(***************************************************************************)
(* Encrypted content objects and the documents that refer to them: uploads *)
(* (StorageService::upload_file_chunk) and emptyings of the trash          *)
(* (StorageService::empty_trash) running as concurrent requests.           *)
(*                                                                         *)
(* An object is the file LocalStorage keeps for one user and one content   *)
(* hash, shared by every document of that user with that hash.  No lock    *)
(* and no transaction spans the collection and the directory: between any  *)
(* two awaits of a handler another request may take its steps, and one     *)
(* step here is what a handler does from one await to the next.            *)
(* Storing an object is one step: the file is written under a temporary    *)
(* name and renamed.                                                       *)
(*                                                                         *)
(* The requests on the folder tree (module Tree) appear here as edits of   *)
(* one document, TreeEdit.                                                 *)
(***************************************************************************)
EXTENDS StorageRepo, Integers

CONSTANTS
    Uploads,    \* slots for concurrent upload requests
    Sweeps,     \* slots for concurrent empty-trash requests
    Idle,       \* a slot without a request
    Pictures,   \* hashes of contents that decode as an image
    ThumbOf,    \* the hash of the thumbnail generated from a picture
    TreeOps     \* which edits of the tree a run explores

VARIABLES
    objects,    \* <<user, hash>> pairs whose object is in the directory
    upload,     \* slot -> upload in progress
    sweep,      \* slot -> empty-trash in progress
    raced,      \* history: objects an upload relied on while a sweep,
                \* having counted no references, had yet to unlink them
    faulted     \* history: users one of whose requests was cut short

vars == <<docs, objects, upload, sweep, raced, faulted>>

Objects == Users \X Hashes

UploadPCs == {"validate", "dedup", "exists", "thumb", "storeThumb", "store",
              "insertThumb", "insertFile", "rollback"}

UploadReq == [pc : UploadPCs, user : Users, parent : Ids \cup {Root},
              spelling : Spellings,         \* how parent_id spells it
              hash : Hashes,
              image : BOOLEAN,              \* is_raster_image, by its mime type
              need : SUBSET Hashes,         \* need_store, thumb_need_store
              thumbId : Ids \cup {NoId}]    \* the inserted thumbnail

SweepPCs == {"list", "delete", "count", "remove", "unlink"}

SweepReq == [pc : SweepPCs, user : Users,
             ids : SUBSET Ids,              \* listed, not yet deleted
             hashes : SUBSET Hashes,        \* not yet looked at
             doomed : Hashes \cup {NoHash}] \* counted without references

ASSUME IdleAssumption == Idle \notin UploadReq /\ Idle \notin SweepReq

ASSUME PictureAssumption ==
    Pictures \subseteq Hashes /\ ThumbOf \in [Pictures -> Hashes]

UploadAt(w, pc) == upload[w] # Idle /\ upload[w].pc = pc
SweepAt(s, pc) == sweep[s] # Idle /\ sweep[s].pc = pc

-----------------------------------------------------------------------------
(* Which objects the documents, the uploads and the sweeps are about       *)

\* objects a document refers to, trashed or not
Referenced == {o \in Objects : References(o[1], o[2]) # {}}

\* w has stored h, or need not, and will insert a document that refers to it
Holds(w, u, h) ==
    /\ upload[w] # Idle /\ u = upload[w].user
    /\ \/ h = upload[w].hash /\ upload[w].pc \in {"insertThumb", "insertFile"}
       \/ /\ upload[w].image /\ upload[w].hash \in Pictures
          /\ h = ThumbOf[upload[w].hash]
          /\ upload[w].pc \in {"store", "insertThumb"}

Held == {o \in Objects : \E w \in Uploads : Holds(w, o[1], o[2])}

\* w holds h, or has found it and will go on without storing it
Relies(w, u, h) ==
    \/ Holds(w, u, h)
    \/ /\ upload[w] # Idle /\ u = upload[w].user /\ h \notin upload[w].need
       /\ \/ /\ h = upload[w].hash
             /\ upload[w].pc \in {"thumb", "storeThumb", "store"}
          \/ /\ upload[w].pc = "storeThumb" /\ upload[w].hash \in Pictures
             /\ h = ThumbOf[upload[w].hash]

Relied == {o \in Objects : \E w \in Uploads : Relies(w, o[1], o[2])}

\* s has counted no reference to h and not yet removed it
Dooms(s, u, h) ==
    /\ SweepAt(s, "remove") \/ SweepAt(s, "unlink")
    /\ u = sweep[s].user /\ h = sweep[s].doomed

Doomed == {o \in Objects : \E s \in Sweeps : Dooms(s, o[1], o[2])}

\* a sweep has yet to deal with the hash
Pending ==
    {o \in Objects : \E s \in Sweeps :
        sweep[s] # Idle /\ o[1] = sweep[s].user /\ o[2] \in sweep[s].hashes}

NoteRaces == raced' = raced \cup (Relied' \cap Doomed')

-----------------------------------------------------------------------------
(* Uploads                                                                 *)

\* the documents that uploads in progress may still insert
Owing ==
    {d \in Uploads \X {"file", "thumbnail"} :
        /\ upload[d[1]] # Idle
        /\ d[2] = "thumbnail" =>
              upload[d[1]].image /\ upload[d[1]].thumbId = NoId}

\* BOUND: a request that inserts is taken on only if every request in
\* progress, and it, can be given its ids.
EnoughIds == Cardinality(Owing) <= Cardinality(UnbornIds)

StartUpload(w) ==
    /\ upload[w] = Idle
    /\ \E u \in Users, p \in Ids \cup {Root}, s \in Spellings, h \in Hashes,
          image \in BOOLEAN :
          /\ p # Root => docs[p] # Unborn
          /\ s \in SpellingsOf(p)
          /\ upload' = [upload EXCEPT ![w] =
                [pc |-> "validate", user |-> u, parent |-> p, spelling |-> s,
                 hash |-> h, image |-> image, need |-> {}, thumbId |-> NoId]]
    /\ UNCHANGED <<docs, objects, sweep, faulted>>
    /\ EnoughIds'

Advance(w, pc) == upload' = [upload EXCEPT ![w].pc = pc]
Answer(w) == upload' = [upload EXCEPT ![w] = Idle]

\* the parent is read once, long before the insert
Validate(w) ==
    /\ UploadAt(w, "validate")
    /\ IF ValidParent(upload[w].parent, upload[w].user)
       THEN Advance(w, "dedup") ELSE Answer(w)
    /\ UNCHANGED <<docs, objects, sweep, faulted>>

\* an active file with this content in this folder is the answer
Dedup(w) ==
    /\ UploadAt(w, "dedup")
    /\ IF SameUpload(upload[w].user, upload[w].parent, upload[w].spelling,
                     upload[w].hash) = {}
       THEN Advance(w, "exists") ELSE Answer(w)
    /\ UNCHANGED <<docs, objects, sweep, faulted>>

\* h joins need unless the object is there
Check(w, h, pc) ==
    upload' = [upload EXCEPT
        ![w].pc = pc,
        ![w].need = @ \cup (IF <<upload[w].user, h>> \in objects
                            THEN {} ELSE {h})]

CheckObject(w) ==
    /\ UploadAt(w, "exists")
    /\ Check(w, upload[w].hash,
             IF upload[w].image THEN "thumb" ELSE "store")
    /\ UNCHANGED <<docs, objects, sweep, faulted>>

\* what does not decode as an image is refused here
CheckThumb(w) ==
    /\ UploadAt(w, "thumb")
    /\ IF upload[w].hash \in Pictures
       THEN Check(w, ThumbOf[upload[w].hash], "storeThumb") ELSE Answer(w)
    /\ UNCHANGED <<docs, objects, sweep, faulted>>

StoreIfNeeded(w, h) ==
    objects' = objects \cup
        (IF h \in upload[w].need THEN {<<upload[w].user, h>>} ELSE {})

StoreThumb(w) ==
    /\ UploadAt(w, "storeThumb")
    /\ StoreIfNeeded(w, ThumbOf[upload[w].hash])
    /\ Advance(w, "store")
    /\ UNCHANGED <<docs, sweep, faulted>>

Store(w) ==
    /\ UploadAt(w, "store")
    /\ StoreIfNeeded(w, upload[w].hash)
    /\ Advance(w, IF upload[w].image THEN "insertThumb" ELSE "insertFile")
    /\ UNCHANGED <<docs, sweep, faulted>>

NewDoc(w, type, h, thumb) ==
    [type |-> type, user |-> upload[w].user, name |-> NoName,
     parent |-> upload[w].parent, spelling |-> upload[w].spelling,
     hash |-> h, thumb |-> thumb, trashed |-> FALSE]

\* mutation of InsertThumb: the thumbnail's id is not kept for the file
InsertThumbForgotten(w) ==
    /\ UploadAt(w, "insertThumb")
    /\ \E i \in Ids :
          Insert(i, NewDoc(w, "thumbnail", ThumbOf[upload[w].hash], NoId))
    /\ Advance(w, "insertFile")
    /\ UNCHANGED <<objects, sweep, faulted>>

InsertThumb(w) ==
    /\ UploadAt(w, "insertThumb")
    /\ \E i \in Ids :
          /\ Insert(i, NewDoc(w, "thumbnail", ThumbOf[upload[w].hash], NoId))
          /\ upload' = [upload EXCEPT ![w].pc = "insertFile", ![w].thumbId = i]
    /\ UNCHANGED <<objects, sweep, faulted>>

InsertFile(w) ==
    /\ UploadAt(w, "insertFile")
    /\ \E i \in Ids :
          Insert(i, NewDoc(w, "file", upload[w].hash, upload[w].thumbId))
    /\ Answer(w)
    /\ UNCHANGED <<objects, sweep, faulted>>

\* the inserted thumbnail is deleted when the file's insert has failed
Rollback(w) ==
    /\ UploadAt(w, "rollback")
    /\ IF Owned(upload[w].thumbId, upload[w].user)
       THEN Erase(upload[w].thumbId) ELSE UNCHANGED docs
    /\ Answer(w)
    /\ UNCHANGED <<objects, sweep, faulted>>

\* the insert of the file is refused by the database
InsertFileFails(w) ==
    /\ UploadAt(w, "insertFile")
    /\ IF upload[w].thumbId = NoId THEN Answer(w) ELSE Advance(w, "rollback")
    /\ faulted' = faulted \cup {upload[w].user}
    /\ UNCHANGED <<docs, objects, sweep>>

\* An await returns an error, or the client hangs up and the handler is
\* dropped at an await, or the server stops: nothing is undone.
UploadCut(w) ==
    /\ upload[w] # Idle
    /\ Answer(w)
    /\ faulted' = faulted \cup {upload[w].user}
    /\ UNCHANGED <<docs, objects, sweep>>

-----------------------------------------------------------------------------
(* Emptying the trash                                                      *)

StartSweep(s) ==
    /\ sweep[s] = Idle
    /\ \E u \in Users :
          sweep' = [sweep EXCEPT ![s] =
              [pc |-> "list", user |-> u, ids |-> {}, hashes |-> {},
               doomed |-> NoHash]]
    /\ UNCHANGED <<docs, objects, upload, faulted>>

Done(s) == sweep' = [sweep EXCEPT ![s] = Idle]

\* mutation of ContentsOf: thumbnails are left out
ContentsOfFiles(S) ==
    {docs[i].hash : i \in {j \in S : docs[j].type = "file"}}

ContentsOf(S) == {docs[i].hash : i \in S} \ {NoHash}

\* mutation of List: trashed or not
ListAll(s) ==
    /\ SweepAt(s, "list")
    /\ sweep' = [sweep EXCEPT
            ![s].pc = "delete",
            ![s].ids = {i \in Ids : Owned(i, sweep[s].user)}]
    /\ UNCHANGED <<docs, objects, upload, faulted>>

\* the ids and the distinct content hashes of what is trashed now
List(s) ==
    /\ SweepAt(s, "list")
    /\ LET trash == TrashedBy(sweep[s].user) IN
       IF trash = {} THEN Done(s)
       ELSE sweep' = [sweep EXCEPT
                ![s].pc = "delete",
                ![s].ids = trash,
                ![s].hashes = ContentsOf(trash)]
    /\ UNCHANGED <<docs, objects, upload, faulted>>

\* delete_many, one document: by id and user only, trashed or not by now
DeleteListed(s) ==
    /\ SweepAt(s, "delete")
    /\ \E i \in sweep[s].ids :
          /\ IF Owned(i, sweep[s].user) THEN Erase(i) ELSE UNCHANGED docs
          /\ sweep' = [sweep EXCEPT
                ![s].ids = @ \ {i},
                ![s].pc = IF sweep[s].ids = {i} THEN "count" ELSE "delete"]
    /\ UNCHANGED <<objects, upload, faulted>>

\* mutation of Unreferenced: trashed documents do not count
NoneActive(u, h) == \A i \in References(u, h) : docs[i].trashed

\* the count of the remaining references is zero
Unreferenced(u, h) == References(u, h) = {}

Count(s) ==
    /\ SweepAt(s, "count")
    /\ \E h \in sweep[s].hashes :
          IF Unreferenced(sweep[s].user, h)
          THEN sweep' = [sweep EXCEPT ![s].pc = "remove", ![s].doomed = h]
          ELSE sweep' = [sweep EXCEPT ![s].hashes = @ \ {h}]
    /\ UNCHANGED <<docs, objects, upload, faulted>>

\* mutation of SweepAnswers: the loop over the hashes is left early
SweepAnswersEarly(s) ==
    /\ SweepAt(s, "count")
    /\ Done(s)
    /\ UNCHANGED <<docs, objects, upload, faulted>>

SweepAnswers(s) ==
    /\ SweepAt(s, "count") /\ sweep[s].hashes = {}
    /\ Done(s)
    /\ UNCHANGED <<docs, objects, upload, faulted>>

DoomedObject(s) == <<sweep[s].user, sweep[s].doomed>>

NextHash(s) ==
    sweep' = [sweep EXCEPT ![s].pc = "count",
                           ![s].hashes = @ \ {sweep[s].doomed},
                           ![s].doomed = NoHash]

\* LocalStorage::remove: first the test that the object is there ...
Remove(s) ==
    /\ SweepAt(s, "remove")
    /\ IF DoomedObject(s) \in objects
       THEN sweep' = [sweep EXCEPT ![s].pc = "unlink"] ELSE NextHash(s)
    /\ UNCHANGED <<docs, objects, upload, faulted>>

\* ... then the unlink, an error if another sweep has been quicker
Unlink(s) ==
    /\ SweepAt(s, "unlink")
    /\ \/ /\ DoomedObject(s) \in objects
          /\ objects' = objects \ {DoomedObject(s)}
          /\ NextHash(s)
          /\ UNCHANGED faulted
       \/ /\ DoomedObject(s) \notin objects
          /\ Done(s)
          /\ faulted' = faulted \cup {sweep[s].user}
          /\ UNCHANGED objects
    /\ UNCHANGED <<docs, upload>>

SweepCut(s) ==
    /\ sweep[s] # Idle
    /\ Done(s)
    /\ faulted' = faulted \cup {sweep[s].user}
    /\ UNCHANGED <<docs, objects, upload>>

-----------------------------------------------------------------------------
(* The requests of module Tree, one document at a time                     *)

Edit(op, i, d) ==
    /\ op \in TreeOps
    /\ Put(i, d)
    /\ UNCHANGED <<objects, upload, sweep, faulted>>

SetTrashed(i) ==
    \E b \in BOOLEAN : Edit("trash", i, [docs[i] EXCEPT !.trashed = b])

Move(i) ==
    \E p \in Ids \cup {Root}, s \in Spellings :
        /\ p # Root => docs[p] = Gone \/ (Exists(p) /\ docs[p].type = "folder")
        /\ s \in SpellingsOf(p)
        /\ Edit("move", i, [docs[i] EXCEPT !.parent = p, !.spelling = s])

Rename(i) == \E n \in Names : Edit("rename", i, [docs[i] EXCEPT !.name = n])

NewFolder(i) ==
    /\ "create" \in TreeOps
    /\ \E u \in Users, n \in Names, p \in Ids \cup {Root}, s \in Spellings :
          /\ p # Root => docs[p] # Unborn
          /\ s \in SpellingsOf(p)
          /\ Insert(i, [type |-> "folder", user |-> u, name |-> n,
                        parent |-> p, spelling |-> s, hash |-> NoHash,
                        thumb |-> NoId, trashed |-> FALSE])
    /\ UNCHANGED <<objects, upload, sweep, faulted>>
    /\ EnoughIds'

TreeEdit ==
    \E i \in Ids :
        \/ Exists(i) /\ (SetTrashed(i) \/ Move(i) \/ Rename(i))
        \/ NewFolder(i)

-----------------------------------------------------------------------------
Init ==
    /\ docs = Seeded
    /\ objects = {<<docs[i].user, docs[i].hash>> :
                    i \in {j \in Ids : Exists(j) /\ docs[j].hash # NoHash}}
    /\ upload = [w \in Uploads |-> Idle]
    /\ sweep = [s \in Sweeps |-> Idle]
    /\ raced = {}
    /\ faulted = {}

\* what the handler does when nothing interrupts it
UploadStep(w) ==
    \/ Validate(w) \/ Dedup(w) \/ CheckObject(w) \/ CheckThumb(w)
    \/ StoreThumb(w) \/ Store(w) \/ InsertThumb(w) \/ InsertFile(w)
    \/ Rollback(w)

SweepStep(s) ==
    \/ List(s) \/ DeleteListed(s) \/ Count(s) \/ SweepAnswers(s)
    \/ Remove(s) \/ Unlink(s)

Upload(w) == (StartUpload(w) \/ UploadStep(w)
                \/ InsertFileFails(w) \/ UploadCut(w)) /\ NoteRaces
Sweep(s) == (StartSweep(s) \/ SweepStep(s) \/ SweepCut(s)) /\ NoteRaces

Next == \/ \E w \in Uploads : Upload(w)
        \/ \E s \in Sweeps : Sweep(s)
        \/ TreeEdit /\ NoteRaces

Spec == Init /\ [][Next]_vars

\* the runtime polls every request it has accepted until it is answered
Fairness ==
    /\ \A w \in Uploads : WF_vars(UploadStep(w) /\ NoteRaces)
    /\ \A s \in Sweeps : WF_vars(SweepStep(s) /\ NoteRaces)

FairSpec == Spec /\ Fairness

-----------------------------------------------------------------------------
(* Properties                                                              *)

\* Every variable has its type, and a request's record fits the place its
\* handler has reached: the thumbnail id is known exactly from the insert of
\* the thumbnail on, and only a listed hash is about to be unlinked.
TypeOK ==
    /\ docs \in [Ids -> Doc \cup {Unborn, Gone}]
    /\ objects \subseteq Objects
    /\ upload \in [Uploads -> UploadReq \cup {Idle}]
    /\ sweep \in [Sweeps -> SweepReq \cup {Idle}]
    /\ raced \subseteq Objects
    /\ faulted \subseteq Users
    /\ \A w \in Uploads : upload[w] # Idle =>
          /\ upload[w].pc \in {"thumb", "storeThumb", "insertThumb", "rollback"}
                => upload[w].image
          /\ (upload[w].image /\ upload[w].pc \in {"storeThumb", "store",
                                "insertThumb", "insertFile", "rollback"})
                => upload[w].hash \in Pictures
          /\ upload[w].thumbId # NoId
                <=> /\ upload[w].image
                    /\ upload[w].pc \in {"insertFile", "rollback"}
    /\ \A s \in Sweeps : sweep[s] # Idle =>
          IF sweep[s].pc \in {"remove", "unlink"}
          THEN sweep[s].doomed \in sweep[s].hashes
          ELSE sweep[s].doomed = NoHash

\* A document's content is there for as long as the document is, trashed or
\* not, however uploads, sweeps and edits interleave -- unless an upload
\* relied on the object between a sweep's count and its unlink
\* (empty_trash:744-746 against upload_file_chunk:288-397).
ContentKept == Referenced \subseteq objects \cup raced

\* An object that no document refers to is still in some request's hands: an
\* upload is about to refer to it, or a sweep is yet to look at its hash.
\* Only a request cut short leaves an object nobody will ever remove.
NoLeak ==
    objects \subseteq Referenced \cup Held \cup Pending \cup (faulted \X Hashes)

\* Orphaned content does go away: an object without references is removed, or
\* referred to again, or one of its owner's requests was cut short.
OrphansCollected ==
    \A o \in Objects :
        o \in objects \ Referenced
            ~> (o \notin objects \/ o \in Referenced \/ o[1] \in faulted)

\* What the test empty_trash_deletes_docs_and_gc_only_orphaned_files says of
\* empty_trash, in every interleaving with uploads: content is removed only
\* when no document refers to it.
GcOnlyOrphans == Referenced \subseteq objects
=============================================================================
