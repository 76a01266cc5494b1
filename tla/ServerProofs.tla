---------------------------- MODULE ServerProofs ----------------------------
(***************************************************************************)
(* The storage service implements Contents and Tree, for every number of   *)
(* users, documents, contents and concurrent requests: what is proved of   *)
(* either half is so of the whole.                                         *)
(***************************************************************************)
EXTENDS StorageServer, FiniteSetTheorems, TLAPS

\* the halves, with what is proved about them
CP == INSTANCE ContentsProofs
        WITH TreeOps <- {"trash", "move", "rename", "create"}
TP == INSTANCE TreeSerialProofs
        WITH purging <- Purging, TrashOps <- {"upload", "purge"}

-----------------------------------------------------------------------------
(* What the halves assume of their constants                               *)

LEMMA ContentsAssumptions ==
  /\ Unborn # Gone /\ Unborn \notin CP!Doc /\ Gone \notin CP!Doc
  /\ Root \notin Ids /\ NoId \notin Ids /\ NoHash \notin Hashes
  /\ Canonical \in Spellings
  /\ Seeded \in [Ids -> CP!Doc \cup {Unborn, Gone}]
  /\ Idle \notin CP!UploadReq /\ Idle \notin CP!SweepReq
  /\ Pictures \subseteq Hashes /\ ThumbOf \in [Pictures -> Hashes]
<1>1. CP!Doc = Doc
  BY DEF CP!Doc, Doc, CP!Types, Types
<1>2. CP!UploadReq = C!UploadReq /\ CP!SweepReq = C!SweepReq
  BY DEF CP!UploadReq, C!UploadReq, CP!UploadPCs, C!UploadPCs,
         CP!SweepReq, C!SweepReq, CP!SweepPCs, C!SweepPCs
<1> QED
  BY <1>1, <1>2, MarkerAssumption, SpellingAssumption, SeedAssumption,
     IdleAssumption, PictureAssumption

LEMMA TreeAssumptions ==
  /\ Unborn # Gone /\ Unborn \notin TP!Doc /\ Gone \notin TP!Doc
  /\ Root \notin Ids /\ NoId \notin Ids /\ NoHash \notin Hashes
  /\ Canonical \in Spellings
  /\ Seeded \in [Ids -> TP!Doc \cup {Unborn, Gone}]
  /\ NoTask \notin TP!Request /\ Ops \subseteq TP!AllOps
  /\ TP!SoundSeeds
<1>1. TP!Doc = Doc
  BY DEF TP!Doc, Doc, TP!Types, Types
<1>2. TP!Request = T!Request /\ TP!AllOps = T!AllOps
  BY DEF TP!Request, T!Request, TP!AllOps, T!AllOps, TP!PCs, T!PCs
<1>3. TP!SoundSeeds <=> T!SoundSeeds
  BY DEF TP!SoundSeeds, T!SoundSeeds
<1> QED
  BY <1>1, <1>2, <1>3, MarkerAssumption, SpellingAssumption, SeedAssumption,
     TaskAssumption, SeedTreeAssumption

-----------------------------------------------------------------------------
(* The service is made of the actions of C and T, the proofs are about     *)
(* those of CP and TP: they are the same, definition by definition.        *)

LEMMA SameContentsActions ==
  /\ C!Init <=> CP!Init
  /\ UNCHANGED C!vars <=> UNCHANGED CP!vars
  /\ C!ContentKept /\ C!NoLeak <=> CP!ContentKept /\ CP!NoLeak
  /\ \A w \in Uploads : C!Upload(w) <=> CP!Upload(w)
  /\ \A s \in Sweeps : C!Sweep(s) <=> CP!Sweep(s)
  /\ C!TreeEdit /\ C!NoteRaces <=> CP!TreeEdit /\ CP!NoteRaces
<1> USE DEF
      C!Types, CP!Types, C!Doc, CP!Doc, C!Exists, CP!Exists, C!Owned,
      CP!Owned, C!UnbornIds, CP!UnbornIds, C!SpellingsOf, CP!SpellingsOf,
      C!ChildrenOf, CP!ChildrenOf,
      C!TrashedBy, CP!TrashedBy, C!References, CP!References,
      C!ActiveFolder, CP!ActiveFolder, C!ValidParent, CP!ValidParent,
      C!SameUpload, CP!SameUpload, C!SameFolder, CP!SameFolder,
      C!IndexAllows, CP!IndexAllows, C!Insert, CP!Insert, C!Put, CP!Put,
      C!Erase, CP!Erase, C!vars, CP!vars, C!Objects, CP!Objects,
      C!UploadPCs, CP!UploadPCs, C!UploadReq, CP!UploadReq, C!SweepPCs,
      CP!SweepPCs, C!SweepReq, CP!SweepReq, C!UploadAt, CP!UploadAt,
      C!SweepAt, CP!SweepAt, C!Referenced, CP!Referenced, C!Holds,
      CP!Holds, C!Held, CP!Held, C!Relies, CP!Relies, C!Relied, CP!Relied,
      C!Dooms, CP!Dooms, C!Doomed, CP!Doomed, C!Pending, CP!Pending,
      C!NoteRaces, CP!NoteRaces, C!Owing, CP!Owing, C!EnoughIds,
      CP!EnoughIds, C!StartUpload, CP!StartUpload, C!Advance, CP!Advance,
      C!Answer, CP!Answer, C!Validate, CP!Validate, C!Dedup, CP!Dedup,
      C!Check, CP!Check, C!CheckObject, CP!CheckObject, C!CheckThumb,
      CP!CheckThumb, C!StoreIfNeeded, CP!StoreIfNeeded, C!StoreThumb,
      CP!StoreThumb, C!Store, CP!Store, C!NewDoc, CP!NewDoc, C!InsertThumb,
      CP!InsertThumb, C!InsertFile, CP!InsertFile, C!Rollback, CP!Rollback,
      C!InsertFileFails, CP!InsertFileFails, C!UploadCut, CP!UploadCut,
      C!StartSweep, CP!StartSweep, C!Done, CP!Done, C!ContentsOf,
      CP!ContentsOf, C!List, CP!List, C!DeleteListed, CP!DeleteListed,
      C!Unreferenced, CP!Unreferenced, C!Count, CP!Count, C!SweepAnswers,
      CP!SweepAnswers, C!DoomedObject, CP!DoomedObject, C!NextHash,
      CP!NextHash, C!Remove, CP!Remove, C!Unlink, CP!Unlink, C!SweepCut,
      CP!SweepCut, C!Edit, CP!Edit, C!SetTrashed, CP!SetTrashed, C!Move,
      CP!Move, C!Rename, CP!Rename, C!NewFolder, CP!NewFolder, C!TreeEdit,
      CP!TreeEdit, C!Init, CP!Init, C!UploadStep, CP!UploadStep,
      C!SweepStep, CP!SweepStep, C!Upload, CP!Upload, C!Sweep, CP!Sweep,
      C!Next, CP!Next, C!TypeOK, CP!TypeOK, C!ContentKept, CP!ContentKept,
      C!NoLeak, CP!NoLeak, C!Cardinality, CP!Cardinality
<1>1. C!Init <=> CP!Init
  OBVIOUS
<1>2. UNCHANGED C!vars <=> UNCHANGED CP!vars
  OBVIOUS
<1>3. C!ContentKept /\ C!NoLeak <=> CP!ContentKept /\ CP!NoLeak
  OBVIOUS
<1>4. \A w \in Uploads : C!Upload(w) <=> CP!Upload(w)
  OBVIOUS
<1>5. \A s \in Sweeps : C!Sweep(s) <=> CP!Sweep(s)
  OBVIOUS
<1>6. C!TreeEdit /\ C!NoteRaces <=> CP!TreeEdit /\ CP!NoteRaces
  OBVIOUS
<1> QED
  BY <1>1, <1>2, <1>3, <1>4, <1>5, <1>6

LEMMA SameContentsNext == C!Next <=> CP!Next
  BY SameContentsActions DEF C!Next, CP!Next

LEMMA SameTreeActions ==
  /\ T!Init <=> TP!Init
  /\ UNCHANGED T!vars <=> UNCHANGED TP!vars
  /\ T!ParentIsOwnFolder /\ T!AcyclicUnlessRaced
       <=> TP!ParentIsOwnFolder /\ TP!AcyclicUnlessRaced
  /\ T!SerialTreeSound /\ T!RestoreIsWhole /\ T!ThumbnailFollows
       <=> TP!SerialTreeSound /\ TP!RestoreIsWhole /\ TP!ThumbnailFollows
  /\ \A t \in Tasks : T!TaskStep(t) <=> TP!TaskStep(t)
  /\ \A t \in Tasks : T!AskTask(t) <=> TP!AskTask(t)
  /\ \A t \in Tasks : T!Cut(t) <=> TP!Cut(t)
  /\ T!TrashStep <=> TP!TrashStep
<1> USE DEF
      T!Types, TP!Types, T!Doc, TP!Doc, T!Exists, TP!Exists, T!Owned,
      TP!Owned, T!UnbornIds, TP!UnbornIds, T!SpellingsOf, TP!SpellingsOf,
      T!ChildrenOf, TP!ChildrenOf,
      T!TrashedBy, TP!TrashedBy, T!References, TP!References,
      T!ActiveFolder, TP!ActiveFolder, T!ValidParent, TP!ValidParent,
      T!SameUpload, TP!SameUpload, T!SameFolder, TP!SameFolder,
      T!IndexAllows, TP!IndexAllows, T!Insert, TP!Insert, T!Put, TP!Put,
      T!Erase, TP!Erase, T!vars, TP!vars, T!AllOps, TP!AllOps, T!PCs,
      TP!PCs, T!Request, TP!Request, T!TaskAt, TP!TaskAt, T!Busy, TP!Busy,
      T!Disturb, TP!Disturb, T!Born, TP!Born, T!Ask, TP!Ask, T!Creates,
      TP!Creates, T!AskCreate, TP!AskCreate, T!AskMove, TP!AskMove,
      T!AskRename, TP!AskRename, T!AskOne, TP!AskOne, T!AskBatch,
      TP!AskBatch, T!AnswerTask, TP!AnswerTask, T!Goto, TP!Goto,
      T!OnlyTask, TP!OnlyTask, T!Cut, TP!Cut, T!Validate, TP!Validate,
      T!Look, TP!Look, T!Folder, TP!Folder, T!InsertFolder,
      TP!InsertFolder, T!LoadMove, TP!LoadMove, T!ValidateTarget,
      TP!ValidateTarget, T!WalkRefused, TP!WalkRefused, T!Walk, TP!Walk,
      T!Written, TP!Written, T!FolderMoving, TP!FolderMoving, T!Write,
      TP!Write, T!Thumb, TP!Thumb, T!LoadRoot, TP!LoadRoot, T!Restorable,
      TP!Restorable, T!CheckParent, TP!CheckParent, T!InTrash, TP!InTrash,
      T!Select, TP!Select, T!CheckRoots, TP!CheckRoots, T!NextFront,
      TP!NextFront, T!Collect, TP!Collect, T!NextRoot, TP!NextRoot,
      T!Retrashed, TP!Retrashed, T!Wrote, TP!Wrote, T!Update, TP!Update,
      T!UpdateConflicts, TP!UpdateConflicts, T!Reread, TP!Reread, T!Climb,
      TP!Climb, T!LoadPath, TP!LoadPath, T!PathEnds, TP!PathEnds, T!PathUp,
      TP!PathUp, T!Unused, TP!Unused, T!UploadedAs, TP!UploadedAs,
      T!Uploaded, TP!Uploaded, T!ListTrash, TP!ListTrash, T!Purge,
      TP!Purge, T!StopPurge, TP!StopPurge, T!TakenBack, TP!TakenBack,
      T!Settled, TP!Settled, T!Init, TP!Init, T!TaskStep, TP!TaskStep,
      T!AskTask, TP!AskTask, T!TrashStep, TP!TrashStep, T!Next, TP!Next,
      T!TypeOK, TP!TypeOK, T!ParentIsOwnFolder, TP!ParentIsOwnFolder,
      T!AcyclicFor, TP!AcyclicFor, T!Stray, TP!Stray, T!AcyclicUnlessRaced,
      TP!AcyclicUnlessRaced, T!SerialTreeSound, TP!SerialTreeSound,
      T!ThumbnailFollows, TP!ThumbnailFollows, T!Below, TP!Below,
      T!RestoreIsWhole, TP!RestoreIsWhole, T!Cardinality, TP!Cardinality
<1>1. T!Init <=> TP!Init
  OBVIOUS
<1>2. UNCHANGED T!vars <=> UNCHANGED TP!vars
  OBVIOUS
<1>3. T!ParentIsOwnFolder /\ T!AcyclicUnlessRaced
        <=> TP!ParentIsOwnFolder /\ TP!AcyclicUnlessRaced
  OBVIOUS
<1>4. T!SerialTreeSound /\ T!RestoreIsWhole /\ T!ThumbnailFollows
        <=> TP!SerialTreeSound /\ TP!RestoreIsWhole /\ TP!ThumbnailFollows
  OBVIOUS
<1>5. \A t \in Tasks : T!TaskStep(t) <=> TP!TaskStep(t)
  OBVIOUS
<1>6. ASSUME NEW t \in Tasks
      PROVE  T!AskTask(t) <=> TP!AskTask(t)
  <2>1. T!AskCreate(t) <=> TP!AskCreate(t)
    OBVIOUS
  <2>2. T!AskMove(t) <=> TP!AskMove(t)
    OBVIOUS
  <2>3. T!AskRename(t) <=> TP!AskRename(t)
    OBVIOUS
  <2>4. T!AskOne(t) <=> TP!AskOne(t)
    OBVIOUS
  <2>5. T!AskBatch(t) <=> TP!AskBatch(t)
    OBVIOUS
  <2> QED
    BY <2>1, <2>2, <2>3, <2>4, <2>5
<1>7. \A t \in Tasks : T!Cut(t) <=> TP!Cut(t)
  OBVIOUS
<1>8. T!TrashStep <=> TP!TrashStep
  OBVIOUS
<1> QED
  BY <1>1, <1>2, <1>3, <1>4, <1>5, <1>6, <1>7, <1>8

LEMMA SameTreeNext == T!Next <=> TP!Next
  BY SameTreeActions DEF T!Next, TP!Next

-----------------------------------------------------------------------------
(* What the halves keep                                                    *)

LEMMA ContentsTypes ==
  CP!TypeOK /\ (C!Next \/ UNCHANGED C!vars) => CP!TypeOK'
<1>1. CP!TypeOK /\ [CP!Next]_CP!vars => CP!TypeOK'
  BY CP!StepTypes, ContentsAssumptions
<1> QED
  BY <1>1, SameContentsNext, SameContentsActions

LEMMA TreeKept ==
  TP!TreeInv /\ (T!Next \/ UNCHANGED T!vars) => TP!TreeInv'
<1>1. TP!TreeInv /\ [TP!Next]_TP!vars => TP!TreeInv'
  BY TP!StepTree, TreeAssumptions
<1> QED
  BY <1>1, SameTreeNext, SameTreeActions

-----------------------------------------------------------------------------
(* What only the whole keeps                                               *)

\* p can be the parent of u's documents: a folder of u's, or one that was
GoodParent(p, u) ==
    \/ p = Root
    \/ /\ p \in Ids /\ docs[p] # Unborn
       /\ Exists(p) => docs[p].type = "folder" /\ docs[p].user = u

\* uploads spell their parents in a way that there is
Spelt ==
    \A w \in Uploads :
        upload[w] # Idle => upload[w].spelling \in SpellingsOf(upload[w].parent)

\* an upload that has checked its parent can still insert there
Uploading ==
    /\ Spelt
    /\ \A w \in Uploads :
          (upload[w] # Idle /\ upload[w].pc # "validate")
              => GoodParent(upload[w].parent, upload[w].user)

HasThumb(w) == upload[w] # Idle /\ upload[w].thumbId # NoId

\* a thumbnail of u's that no file refers to yet
Free(th, u) ==
    /\ docs[th] # Unborn
    /\ Exists(th) => docs[th].type = "thumbnail" /\ docs[th].user = u
    /\ \A i \in Ids : Exists(i) => docs[i].thumb # th

\* the thumbnail that an upload has inserted is for the file it will insert
Thumbs ==
    /\ \A i \in Ids :
          (Exists(i) /\ docs[i].thumb # NoId) => docs[docs[i].thumb] # Unborn
    /\ \A w \in Uploads :
          HasThumb(w) => Free(upload[w].thumbId, upload[w].user)
    /\ \A v, w \in Uploads :
          (HasThumb(v) /\ HasThumb(w) /\ v # w)
              => upload[v].thumbId # upload[w].thumbId

\* a sweep has listed ids that were given out, all of them at once
Sweeping ==
    \A s \in Sweeps : sweep[s] # Idle =>
        /\ \A i \in sweep[s].ids : docs[i] # Unborn
        /\ sweep[s].pc = "list" => sweep[s].ids = {}

\* what a request writes with, where it writes
Placed(q) ==
    /\ q.op \in {"create", "rename"} => q.name \in Names
    /\ q.op = "create" => ~q.folder
    /\ q.op \in {"create", "move"} => q.spelling \in SpellingsOf(q.parent)
    /\ q.pc = "validate" => q.op \in {"create", "move"}
    /\ q.pc \in {"look", "insert"} => q.op = "create"
    /\ q.pc = "walk" => q.op = "move"
    /\ q.pc = "write" => q.op \in {"move", "rename"}

TasksPlaced == \A t \in Tasks : task[t] # NoTask => Placed(task[t])

RacesNoted == C!Relied \cap C!Doomed \subseteq raced

Local ==
    /\ Uploading /\ Thumbs /\ Sweeping /\ TasksPlaced /\ RacesNoted
    /\ EnoughIds

ServerInv == CP!TypeOK /\ TP!TreeInv /\ Local

-----------------------------------------------------------------------------
(* What a write leaves as it was                                           *)

DocsTyped == docs \in [Ids -> Doc \cup {Unborn, Gone}]

\* ids stay given out, and documents keep type, owner and thumbnail
Keeps ==
    \A i \in Ids : docs[i] # Unborn =>
        /\ docs'[i] # Unborn
        /\ docs'[i] # Gone => /\ docs[i] # Gone
                              /\ docs'[i].type = docs[i].type
                              /\ docs'[i].user = docs[i].user
                              /\ docs'[i].thumb = docs[i].thumb

NothingNew == \A i \in Ids : docs[i] = Unborn => docs'[i] = Unborn

NoNewThumb ==
    \A i \in Ids :
        (docs[i] = Unborn /\ docs'[i] # Unborn) => docs'[i].thumb = NoId

\* i is given out, to d
Adds(i, d) ==
    /\ i \in Ids /\ docs[i] = Unborn /\ d \in Doc
    /\ docs' = [docs EXCEPT ![i] = d]

LEMMA SameKeeps ==
  ASSUME docs' = docs
  PROVE  Keeps /\ NothingNew
  BY DEF Keeps, NothingNew

LEMMA PutKeeps ==
  ASSUME DocsTyped, NEW i \in Ids, Exists(i), NEW d,
         docs' = [docs EXCEPT ![i] = d],
         d \notin {Unborn, Gone}, d.type = docs[i].type,
         d.user = docs[i].user, d.thumb = docs[i].thumb
  PROVE  Keeps /\ NothingNew
  BY DEF DocsTyped, Keeps, NothingNew, Exists

LEMMA EraseKeeps ==
  ASSUME DocsTyped, NEW i \in Ids, Exists(i), docs' = [docs EXCEPT ![i] = Gone]
  PROVE  Keeps /\ NothingNew
  BY MarkerAssumption DEF DocsTyped, Keeps, NothingNew, Exists

LEMMA AddKeeps ==
  ASSUME DocsTyped, NEW i, NEW d, Adds(i, d)
  PROVE  /\ Keeps
         /\ docs'[i] = d /\ d \notin {Unborn, Gone}
         /\ \A j \in Ids \ {i} : docs'[j] = docs[j]
         /\ UnbornIds' = UnbornIds \ {i}
  BY MarkerAssumption DEF DocsTyped, Keeps, Adds, UnbornIds

LEMMA ParentKept ==
  ASSUME Keeps, NEW p, NEW u, GoodParent(p, u)
  PROVE  GoodParent(p, u)'
  BY DEF Keeps, GoodParent, Exists

LEMMA FreeKept ==
  ASSUME Keeps, NEW th \in Ids, NEW u, Free(th, u),
         \A i \in Ids : (docs[i] = Unborn /\ docs'[i] # Unborn)
                            => docs'[i].thumb # th
  PROVE  Free(th, u)'
  BY DEF Keeps, Free, Exists

-----------------------------------------------------------------------------
(* What the steps of the slots leave as it was                             *)

\* uploads go on only where they had checked their parent
LEMMA UploadingKept ==
  ASSUME Uploading, Spelt', Keeps,
         \A w \in Uploads : (upload'[w] # Idle /\ upload'[w].pc # "validate")
            => /\ upload[w] # Idle
               /\ upload'[w].parent = upload[w].parent
               /\ upload'[w].user = upload[w].user
               /\ \/ upload[w].pc # "validate"
                  \/ GoodParent(upload[w].parent, upload[w].user)
  PROVE  Uploading'
<1> SUFFICES ASSUME NEW w \in Uploads,
                    upload'[w] # Idle /\ upload'[w].pc # "validate"
             PROVE  GoodParent(upload[w].parent, upload[w].user)'
  BY DEF Uploading
<1>1. PICK p, u : p = upload[w].parent /\ u = upload[w].user
  OBVIOUS
<1>2. GoodParent(p, u)
  BY <1>1 DEF Uploading
<1>3. GoodParent(p, u)'
  BY <1>2, ParentKept
<1>4. p = upload'[w].parent /\ u = upload'[w].user
  BY <1>1
<1> QED
  BY <1>3, <1>4 DEF GoodParent, Exists

\* new documents have the thumbnail th, that is no longer an upload's, or none
LEMMA ThumbsKept ==
  ASSUME CP!TypeOK, Thumbs, Keeps, DocsTyped, DocsTyped', NEW th0,
         \A i \in Ids : (docs[i] = Unborn /\ docs'[i] # Unborn)
                            => docs'[i].thumb \in {NoId, th0},
         th0 # NoId => docs[th0] # Unborn,
         \A w \in Uploads : HasThumb(w)' => upload'[w].thumbId # th0,
         \A w \in Uploads : HasThumb(w)' =>
            /\ HasThumb(w)
            /\ upload'[w].thumbId = upload[w].thumbId
            /\ upload'[w].user = upload[w].user
  PROVE  Thumbs'
<1>1. ASSUME NEW w \in Uploads, HasThumb(w)'
      PROVE  Free(upload[w].thumbId, upload[w].user)'
  <2>1. PICK th, u : th = upload[w].thumbId /\ u = upload[w].user
    OBVIOUS
  <2>2. th \in Ids /\ Free(th, u)
    BY <1>1, <2>1 DEF Thumbs, HasThumb, CP!TypeOK, CP!UploadReq
  <2>3. NoId # th
    BY <2>2, MarkerAssumption
  <2>4. Free(th, u)'
    BY <1>1, <2>1, <2>2, <2>3, FreeKept
  <2>5. th = upload'[w].thumbId /\ u = upload'[w].user
    BY <1>1, <2>1
  <2> QED
    BY <2>4, <2>5 DEF Free, Exists
<1>2. ASSUME NEW i \in Ids, Exists(i)', docs'[i].thumb # NoId
      PROVE  docs'[docs'[i].thumb] # Unborn
  <2>1. docs'[i] \in Doc /\ docs'[i].thumb \in Ids
    BY <1>2 DEF DocsTyped, Exists, Doc
  <2>2. CASE docs[i] = Unborn
    <3>1. docs'[i].thumb = th0 /\ docs[th0] # Unborn
      BY <1>2, <2>2 DEF Exists
    <3> QED
      BY <2>1, <3>1 DEF Keeps
  <2>3. CASE docs[i] # Unborn
    <3>1. Exists(i) /\ docs[i].thumb = docs'[i].thumb
      BY <1>2, <2>3 DEF Keeps, Exists
    <3> QED
      BY <1>2, <2>1, <3>1 DEF Thumbs, Keeps
  <2> QED
    BY <2>2, <2>3
<1>3. \A v, w \in Uploads :
         (HasThumb(v)' /\ HasThumb(w)' /\ v # w)
             => upload'[v].thumbId # upload'[w].thumbId
  BY DEF Thumbs
<1> QED
  BY <1>1, <1>2, <1>3 DEF Thumbs

\* sweeps forget what they have listed, or list what is there
LEMMA SweepingKept ==
  ASSUME Keeps,
         \A s \in Sweeps : sweep'[s] # Idle =>
            /\ sweep'[s].ids \subseteq Ids
            /\ \A i \in sweep'[s].ids : docs[i] # Unborn
            /\ sweep'[s].pc = "list" => sweep'[s].ids = {}
  PROVE  Sweeping'
  BY DEF Keeps, Sweeping

LEMMA RacesKept ==
  ASSUME RacesNoted, UNCHANGED <<upload, sweep, raced>>
  PROVE  RacesNoted'
  BY DEF RacesNoted, C!Relied, C!Doomed, C!Objects, C!Relies, C!Holds,
         C!Dooms, C!SweepAt

-----------------------------------------------------------------------------
(* The ids that are left                                                   *)

LEMMA Counted ==
  ASSUME NEW S
  PROVE  C!Cardinality(S) = Cardinality(S) /\ T!Cardinality(S) = Cardinality(S)
  BY DEF C!Cardinality, T!Cardinality, Cardinality

LEMMA FiniteSlots == IsFiniteSet(Uploads \X {"file", "thumbnail"})
<1>1. IsFiniteSet(({} \cup {"file"}) \cup {"thumbnail"})
  BY FS_EmptySet, FS_AddElement
<1>2. ({} \cup {"file"}) \cup {"thumbnail"} = {"file", "thumbnail"}
  OBVIOUS
<1> QED
  BY <1>1, <1>2, FiniteAssumption, FS_Product

LEMMA Finite ==
  /\ IsFiniteSet(UnbornIds) /\ IsFiniteSet(C!Owing) /\ IsFiniteSet(T!Creates)
  BY FiniteSlots, FiniteAssumption, FS_Subset
     DEF UnbornIds, C!Owing, T!Creates

LEMMA FiniteNext ==
  /\ IsFiniteSet(UnbornIds') /\ IsFiniteSet(C!Owing')
  /\ IsFiniteSet(T!Creates')
  BY FiniteSlots, FiniteAssumption, FS_Subset
     DEF UnbornIds, C!Owing, T!Creates

LEMMA Fewer ==
  ASSUME NEW S, IsFiniteSet(S), NEW U, U \subseteq S
  PROVE  Cardinality(U) \in Nat /\ Cardinality(U) <= Cardinality(S)
  BY FS_Subset, FS_CardinalityType

LEMMA OneFewer ==
  ASSUME NEW S, IsFiniteSet(S), NEW x \in S, NEW U, U \subseteq S \ {x}
  PROVE  Cardinality(U) \in Nat /\ Cardinality(U) <= Cardinality(S) - 1
<1>1. IsFiniteSet(S \ {x}) /\ Cardinality(S \ {x}) = Cardinality(S) - 1
  BY FS_RemoveElement
<1> QED
  BY <1>1, Fewer, FS_CardinalityType

\* nobody asks for more, and none is taken
LEMMA EnoughKept ==
  ASSUME EnoughIds, UnbornIds' = UnbornIds,
         C!Owing' \subseteq C!Owing, T!Creates' \subseteq T!Creates
  PROVE  EnoughIds'
<1>1. EnoughIds <=> Cardinality(C!Owing) + Cardinality(T!Creates)
                        <= Cardinality(UnbornIds)
  BY DEF EnoughIds
<1>2. EnoughIds' <=> Cardinality(C!Owing') + Cardinality(T!Creates')
                        <= Cardinality(UnbornIds')
  BY DEF EnoughIds
<1>3. /\ Cardinality(C!Owing') \in Nat /\ Cardinality(T!Creates') \in Nat
      /\ Cardinality(C!Owing') <= Cardinality(C!Owing)
      /\ Cardinality(T!Creates') <= Cardinality(T!Creates)
  BY Finite, Fewer
<1>4. /\ Cardinality(UnbornIds) \in Nat /\ Cardinality(C!Owing) \in Nat
      /\ Cardinality(T!Creates) \in Nat
  BY Finite, FS_CardinalityType
<1> QED
  BY <1>1, <1>2, <1>3, <1>4

\* an id is taken by a request that it was kept for
LEMMA EnoughLeft ==
  ASSUME EnoughIds, NEW i \in UnbornIds, UnbornIds' = UnbornIds \ {i},
         \/ /\ \E o \in C!Owing : C!Owing' \subseteq C!Owing \ {o}
            /\ T!Creates' \subseteq T!Creates
         \/ /\ \E t \in T!Creates : T!Creates' \subseteq T!Creates \ {t}
            /\ C!Owing' \subseteq C!Owing
  PROVE  EnoughIds'
<1>1. EnoughIds <=> Cardinality(C!Owing) + Cardinality(T!Creates)
                        <= Cardinality(UnbornIds)
  BY DEF EnoughIds
<1>2. EnoughIds' <=> Cardinality(C!Owing') + Cardinality(T!Creates')
                        <= Cardinality(UnbornIds')
  BY DEF EnoughIds
<1>3. /\ Cardinality(UnbornIds) \in Nat /\ Cardinality(C!Owing) \in Nat
      /\ Cardinality(T!Creates) \in Nat
  BY Finite, FS_CardinalityType
<1>4. Cardinality(UnbornIds') = Cardinality(UnbornIds) - 1
  BY Finite, FS_RemoveElement
<1>5. CASE /\ \E o \in C!Owing : C!Owing' \subseteq C!Owing \ {o}
           /\ T!Creates' \subseteq T!Creates
  <2>1. /\ Cardinality(C!Owing') \in Nat /\ Cardinality(T!Creates') \in Nat
        /\ Cardinality(C!Owing') <= Cardinality(C!Owing) - 1
        /\ Cardinality(T!Creates') <= Cardinality(T!Creates)
    BY <1>5, Finite, Fewer, OneFewer
  <2> QED
    BY <1>1, <1>2, <1>3, <1>4, <2>1
<1>6. CASE /\ \E t \in T!Creates : T!Creates' \subseteq T!Creates \ {t}
           /\ C!Owing' \subseteq C!Owing
  <2>1. /\ Cardinality(C!Owing') \in Nat /\ Cardinality(T!Creates') \in Nat
        /\ Cardinality(C!Owing') <= Cardinality(C!Owing)
        /\ Cardinality(T!Creates') <= Cardinality(T!Creates) - 1
    BY <1>6, Finite, Fewer, OneFewer
  <2> QED
    BY <1>1, <1>2, <1>3, <1>4, <2>1
<1> QED
  BY <1>5, <1>6

\* there are then enough for the uploads alone
LEMMA EnoughForUploads == EnoughIds' => C!EnoughIds'
<1>1. EnoughIds' <=> Cardinality(C!Owing') + Cardinality(T!Creates')
                        <= Cardinality(UnbornIds')
  BY DEF EnoughIds
<1>2. C!EnoughIds' <=> C!Cardinality(C!Owing') <= C!Cardinality(C!UnbornIds')
  BY DEF C!EnoughIds, C!Cardinality
<1>3. C!UnbornIds' = UnbornIds'
  BY DEF C!UnbornIds, UnbornIds
<1>4. /\ Cardinality(UnbornIds') \in Nat /\ Cardinality(C!Owing') \in Nat
      /\ Cardinality(T!Creates') \in Nat
  BY FiniteNext, FS_CardinalityType
<1> QED
  BY <1>1, <1>2, <1>3, <1>4, Counted

-----------------------------------------------------------------------------
(* Requests on the tree                                                    *)

LEMMA TreeTyped ==
  ASSUME ServerInv
  PROVE  /\ DocsTyped /\ TP!TypeOK
         /\ task \in [Tasks -> T!Request \cup {NoTask}]
         /\ upload \in [Uploads -> C!UploadReq \cup {Idle}]
         /\ sweep \in [Sweeps -> C!SweepReq \cup {Idle}]
<1>1. CP!TypeOK /\ TP!TypeOK
  BY DEF ServerInv, TP!TreeInv
<1>2. CP!Doc = Doc
  BY DEF CP!Doc, Doc, CP!Types, Types
<1>3. CP!UploadReq = C!UploadReq /\ CP!SweepReq = C!SweepReq
  BY DEF CP!UploadReq, C!UploadReq, CP!UploadPCs, C!UploadPCs,
         CP!SweepReq, C!SweepReq, CP!SweepPCs, C!SweepPCs
<1>4. TP!Request = T!Request
  BY DEF TP!Request, T!Request, TP!AllOps, T!AllOps, TP!PCs, T!PCs
<1> QED
  BY <1>1, <1>2, <1>3, <1>4 DEF CP!TypeOK, TP!TypeOK, DocsTyped

\* where a request may be from one step to the next
Follows(q, r) ==
    /\ r.op = q.op /\ r.name = q.name
    /\ r.folder # q.folder => q.op = "move"
    /\ q.op \in {"create", "move"} =>
          r.parent = q.parent /\ r.spelling = q.spelling
    /\ \/ r.pc \notin {"validate", "look", "insert", "walk", "write"}
       \/ r.pc = q.pc
       \/ r.pc = "validate" /\ q.op = "move"
       \/ r.pc = "look" /\ q.op = "create"
       \/ r.pc = "insert" /\ q.op = "create"
       \/ r.pc \in {"walk", "write"} /\ q.op = "move"

\* one request goes on or is answered
Onward(t) ==
    /\ \A s \in Tasks \ {t} : task'[s] = task[s]
    /\ task'[t] # NoTask => Follows(task[t], task'[t])

LEMMA OnwardPlaced ==
  ASSUME ServerInv, NEW t \in Tasks, task[t] # NoTask, Onward(t)
  PROVE  TasksPlaced'
<1>1. ASSUME NEW s \in Tasks, task'[s] # NoTask
      PROVE  Placed(task'[s])
  <2>1. PICK q, r : q = task[s] /\ r = task'[s]
    OBVIOUS
  <2>2. q # NoTask /\ Placed(q)
    BY <1>1, <2>1 DEF ServerInv, Local, TasksPlaced, Onward
  <2>3. r = q \/ Follows(q, r)
    BY <1>1, <2>1 DEF Onward
  <2>4. Placed(r)
    BY <2>2, <2>3 DEF Placed, Follows
  <2> QED
    BY <2>1, <2>4 DEF Placed
<1> QED
  BY <1>1 DEF TasksPlaced, Placed

LEMMA OnwardCreates ==
  ASSUME NEW t \in Tasks, task[t] # NoTask, Onward(t)
  PROVE  /\ T!Creates' \subseteq T!Creates
         /\ task'[t] = NoTask => T!Creates' \subseteq T!Creates \ {t}
  BY DEF T!Creates, Onward, Follows

LEMMA TaskOnward ==
  ASSUME ServerInv, NEW t \in Tasks, T!TaskStep(t) \/ T!Cut(t)
  PROVE  task[t] # NoTask /\ Onward(t)
<1> DEFINE q == task[t]
<1>0. task \in [Tasks -> T!Request \cup {NoTask}]
  BY TreeTyped
<1>1. q # NoTask
  BY DEF T!TaskStep, T!Validate, T!Look, T!InsertFolder, T!LoadMove,
         T!ValidateTarget, T!Walk, T!Write, T!LoadRoot, T!CheckParent,
         T!Select, T!CheckRoots, T!Collect, T!NextRoot, T!Update,
         T!UpdateConflicts, T!Reread, T!LoadPath, T!PathUp, T!TaskAt, T!Cut
<1>2. q \in T!Request /\ Placed(q)
  BY <1>0, <1>1 DEF ServerInv, Local, TasksPlaced
<1>3. CASE T!AnswerTask(t)
  <2>1. task' = [task EXCEPT ![t] = NoTask]
    BY <1>3 DEF T!AnswerTask
  <2>2. task'[t] = NoTask /\ \A s \in Tasks \ {t} : task'[s] = task[s]
    BY <1>0, <2>1
  <2> QED
    BY <1>1, <2>2 DEF Onward
<1>4. CASE T!Validate(t)
  BY <1>0, <1>1, <1>2, <1>3, <1>4
     DEF T!Validate, T!TaskAt, T!Goto, T!Request, Placed, Follows, Onward
<1>5. CASE T!Look(t)
  BY <1>0, <1>1, <1>2, <1>3, <1>5
     DEF T!Look, T!TaskAt, T!Goto, T!Request, Placed, Follows, Onward
<1>6. CASE T!LoadMove(t)
  BY <1>0, <1>1, <1>2, <1>3, <1>6
     DEF T!LoadMove, T!TaskAt, T!Request, Placed, Follows, Onward
<1>7. CASE T!ValidateTarget(t)
  <2>1. q.pc = "validate" /\ q.folder
    BY <1>7 DEF T!ValidateTarget, T!TaskAt
  <2>2. q.op = "move"
    BY <1>2, <2>1 DEF Placed
  <2>3. \/ T!AnswerTask(t)
        \/ task' = [task EXCEPT ![t].pc = "write"]
        \/ task' = [task EXCEPT ![t].pc = "walk", ![t].cur = q.parent]
    BY <1>7 DEF T!ValidateTarget, T!Goto
  <2> QED
    BY <1>0, <1>1, <1>2, <1>3, <2>2, <2>3 DEF T!Request, Follows, Onward
<1>8. CASE T!Walk(t)
  BY <1>0, <1>1, <1>2, <1>3, <1>8
     DEF T!Walk, T!TaskAt, T!Request, Placed, Follows, Onward
<1>9. CASE T!LoadRoot(t)
  BY <1>0, <1>1, <1>2, <1>3, <1>9
     DEF T!LoadRoot, T!TaskAt, T!Request, Placed, Follows, Onward
<1>10. CASE T!CheckParent(t)
  BY <1>0, <1>1, <1>2, <1>3, <1>10
     DEF T!CheckParent, T!TaskAt, T!Goto, T!Request, Placed, Follows, Onward
<1>11. CASE T!Select(t)
  <2>1. \/ T!AnswerTask(t)
        \/ \E R, K, D : task' = [task EXCEPT ![t].pc = "checks",
               ![t].roots = R, ![t].checks = K, ![t].ids = D]
    BY <1>11 DEF T!Select
  <2>2. ASSUME NEW R, NEW K, NEW D,
               task' = [task EXCEPT ![t].pc = "checks", ![t].roots = R,
                                    ![t].checks = K, ![t].ids = D]
        PROVE  Onward(t)
    BY <1>0, <1>1, <1>2, <2>2 DEF T!Request, Follows, Onward
  <2> QED
    BY <1>1, <1>3, <2>1, <2>2
<1>12. CASE T!CheckRoots(t)
  BY <1>0, <1>1, <1>2, <1>3, <1>12
     DEF T!CheckRoots, T!TaskAt, T!Goto, T!Request, Placed, Follows, Onward
<1>13. CASE T!Collect(t)
  BY <1>0, <1>1, <1>2, <1>13
     DEF T!Collect, T!TaskAt, T!Request, Placed, Follows, Onward
<1>14. CASE T!NextRoot(t)
  BY <1>0, <1>1, <1>2, <1>14
     DEF T!NextRoot, T!TaskAt, T!Request, Placed, Follows, Onward
<1>15. CASE T!Update(t)
  BY <1>0, <1>1, <1>2, <1>15
     DEF T!Update, T!Wrote, T!TaskAt, T!Request, Placed, Follows, Onward
<1>16. CASE T!LoadPath(t) \/ T!PathUp(t)
  BY <1>0, <1>1, <1>2, <1>3, <1>16
     DEF T!LoadPath, T!PathUp, T!Climb, T!TaskAt, T!Request, Placed, Follows,
         Onward
<1> QED
  BY <1>1, <1>3, <1>4, <1>5, <1>6, <1>7, <1>8, <1>9, <1>10, <1>11, <1>12,
     <1>13, <1>14, <1>15, <1>16
     DEF T!TaskStep, T!Cut, T!InsertFolder, T!Write, T!UpdateConflicts,
         T!Reread

\* every request but create_folder
AsksNoId(t) ==
    T!AskMove(t) \/ T!AskRename(t) \/ T!AskOne(t) \/ T!AskBatch(t)

LEMMA AskPlaced ==
  ASSUME ServerInv, NEW t \in Tasks, T!AskTask(t)
  PROVE  /\ docs' = docs /\ TasksPlaced'
         /\ AsksNoId(t) => T!Creates' \subseteq T!Creates
<1>0. task \in [Tasks -> T!Request \cup {NoTask}]
  BY TreeTyped
<1>1. ASSUME NEW op, NEW pc, NEW u, NEW i, NEW p, NEW s,
             NEW n, NEW R, T!Ask(t, op, pc, u, i, p, s, n, R),
             pc \notin {"insert", "look", "walk"},
             pc = "validate" => op \in {"create", "move"},
             pc = "write" => op \in {"move", "rename"},
             op \in {"create", "rename"} => n \in Names,
             op \in {"create", "move"} => s \in SpellingsOf(p)
      PROVE  /\ docs' = docs /\ TasksPlaced'
             /\ op # "create" => T!Creates' \subseteq T!Creates
  <2> DEFINE r == [op |-> op, pc |-> pc, user |-> u, item |-> i, parent |-> p,
                   spelling |-> s, name |-> n, folder |-> FALSE, cur |-> NoId, seen |-> {},
                   roots |-> R, checks |-> {}, front |-> {}, ids |-> {},
                   changed |-> FALSE]
  <2>1. docs' = docs /\ task' = [task EXCEPT ![t] = r]
    BY <1>1 DEF T!Ask
  <2>2. /\ r.op = op /\ r.name = n /\ r.folder = FALSE /\ r.pc = pc
        /\ r.parent = p /\ r.spelling = s
    OBVIOUS
  <2> HIDE DEF r
  <2>3. task'[t] = r /\ \A a \in Tasks \ {t} : task'[a] = task[a]
    BY <1>0, <2>1
  <2>4. Placed(r)
    BY <1>1, <2>2 DEF Placed
  <2>5. ASSUME NEW a \in Tasks, task'[a] # NoTask
        PROVE  Placed(task'[a])
    <3>1. PICK q : q = task'[a]
      OBVIOUS
    <3>2. Placed(q)
      BY <2>3, <2>4, <2>5, <3>1 DEF ServerInv, Local, TasksPlaced
    <3> QED
      BY <3>1, <3>2 DEF Placed
  <2>6. TasksPlaced'
    BY <2>5 DEF TasksPlaced, Placed
  <2>7. op # "create" => T!Creates' \subseteq T!Creates
    BY <2>2, <2>3 DEF T!Creates
  <2> QED
    BY <2>1, <2>6, <2>7
<1>2. T!AskCreate(t) => docs' = docs /\ TasksPlaced'
  BY <1>1 DEF T!AskCreate, SpellingsOf, T!SpellingsOf
<1>3. T!AskMove(t) =>
         docs' = docs /\ TasksPlaced' /\ T!Creates' \subseteq T!Creates
  BY <1>1 DEF T!AskMove, SpellingsOf, T!SpellingsOf
<1>4. T!AskRename(t) =>
         docs' = docs /\ TasksPlaced' /\ T!Creates' \subseteq T!Creates
  BY <1>1 DEF T!AskRename
<1>5. T!AskOne(t) =>
         docs' = docs /\ TasksPlaced' /\ T!Creates' \subseteq T!Creates
  BY <1>1 DEF T!AskOne
<1>6. T!AskBatch(t) =>
         docs' = docs /\ TasksPlaced' /\ T!Creates' \subseteq T!Creates
  BY <1>1 DEF T!AskBatch
<1> QED
  BY <1>2, <1>3, <1>4, <1>5, <1>6 DEF T!AskTask, AsksNoId

\* i is written anew, but for what it is
Rewrites(i, d) ==
    /\ i \in Ids /\ Exists(i) /\ docs' = [docs EXCEPT ![i] = d]
    /\ d \in Doc /\ d.type = docs[i].type /\ d.user = docs[i].user
    /\ d.thumb = docs[i].thumb

LEMMA RewritesKeeps ==
  ASSUME DocsTyped, NEW i, NEW d, Rewrites(i, d)
  PROVE  Keeps /\ NothingNew
  BY PutKeeps, MarkerAssumption DEF Rewrites

\* update_many writes one document
LEMMA UpdateWrites ==
  ASSUME ServerInv, NEW t \in Tasks, T!Update(t)
  PROVE  \/ docs' = docs
         \/ \E i, b : /\ Rewrites(i, [docs[i] EXCEPT !.trashed = b])
                      /\ b \in BOOLEAN
<1>1. ASSUME NEW i \in Ids, T!Owned(i, task[t].user),
             T!Put(i, T!Retrashed(t, i))
      PROVE  \E b : /\ Rewrites(i, [docs[i] EXCEPT !.trashed = b])
                    /\ b \in BOOLEAN
  <2>1. PICK b : b = (task[t].op = "remove")
    OBVIOUS
  <2>2. b \in BOOLEAN
    BY <2>1
  <2>3. Exists(i) /\ docs[i] \in Doc
    BY <1>1, TreeTyped DEF DocsTyped, Exists, T!Owned, T!Exists
  <2>4. [docs[i] EXCEPT !.trashed = b] \in Doc
    BY <2>2, <2>3 DEF Doc
  <2>5. docs' = [docs EXCEPT ![i] = [docs[i] EXCEPT !.trashed = b]]
    BY <1>1, <2>1 DEF T!Put, T!Retrashed
  <2>6. Rewrites(i, [docs[i] EXCEPT !.trashed = b])
    BY <2>3, <2>4, <2>5 DEF Rewrites, Doc
  <2> QED
    BY <2>2, <2>6
<1>2. task[t] \in T!Request
  BY TreeTyped DEF T!Update, T!TaskAt
<1>3. task[t].ids \subseteq Ids
  BY <1>2 DEF T!Request
<1> QED
  BY <1>1, <1>3 DEF T!Update

\* where a document may be moved to, and how that may be spelled
Target(p, s) ==
    /\ p \in Ids \cup {Root} /\ s \in Spellings /\ s \in SpellingsOf(p)
    /\ p # Root => docs[p] = Gone \/ (Exists(p) /\ docs[p].type = "folder")

\* update_one of a move or a rename
LEMMA WriteWrites ==
  ASSUME ServerInv, NEW t \in Tasks, T!Write(t)
  PROVE  \/ docs' = docs
         \/ \E i, p, s : /\ Rewrites(i, [docs[i] EXCEPT !.parent = p,
                                                        !.spelling = s])
                         /\ Target(p, s)
         \/ \E i, n : /\ Rewrites(i, [docs[i] EXCEPT !.name = n])
                      /\ n \in Names
<1> DEFINE q == task[t]
           i == q.item
<1>1. q # NoTask /\ q.pc = "write"
  BY DEF T!Write, T!TaskAt
<1>2. q \in T!Request /\ Placed(q)
  BY <1>1, TreeTyped DEF ServerInv, Local, TasksPlaced
<1>3. q.op \in {"move", "rename"} /\ (q.op = "rename" => q.name \in Names)
  BY <1>1, <1>2 DEF Placed
<1>4. SUFFICES ASSUME T!Owned(i, q.user), T!Put(i, T!Written(t))
               PROVE  \/ docs' = docs
                      \/ \E p, s : /\ Rewrites(i, [docs[i] EXCEPT !.parent = p,
                                                               !.spelling = s])
                                   /\ Target(p, s)
                      \/ \E n : /\ Rewrites(i, [docs[i] EXCEPT !.name = n])
                                /\ n \in Names
  BY DEF T!Write
<1>5. i \in Ids \cup {NoId}
  BY <1>2 DEF T!Request
<1>6. TP!TypeOK /\ TP!TreeShape
  BY DEF ServerInv, TP!TreeInv
<1>7. i \in Ids
  BY <1>1, <1>3, <1>5, <1>6 DEF TP!TypeOK
<1>8. Exists(i) /\ docs[i] \in Doc
  BY <1>4, <1>7, TreeTyped DEF DocsTyped, Exists, T!Owned, T!Exists
<1>9. CASE q.op = "move"
  <2> DEFINE p == q.parent
             s == q.spelling
  <2>1. /\ p \in Ids \cup {Root} /\ s \in Spellings
        /\ s \in SpellingsOf(p)
    BY <1>2, <1>9 DEF T!Request, Placed
  <2>2. TP!GoodParent(p, q.user)
    BY <1>1, <1>6, <1>9 DEF TP!TreeShape, TP!TasksSound, TP!Sound, TP!MoveSound
  <2>3. Target(p, s)
    BY <2>1, <2>2
       DEF Target, TP!GoodParent, TP!GoodFolder, TP!Exists, Exists
  <2>4. docs' = [docs EXCEPT ![i] = [docs[i] EXCEPT !.parent = p,
                                                    !.spelling = s]]
    BY <1>4, <1>9 DEF T!Put, T!Written
  <2> HIDE DEF p, s
  <2>5. [docs[i] EXCEPT !.parent = p, !.spelling = s] \in Doc
    BY <1>8, <2>1 DEF Doc
  <2>6. Rewrites(i, [docs[i] EXCEPT !.parent = p, !.spelling = s])
    BY <1>7, <1>8, <2>4, <2>5 DEF Rewrites, Doc
  <2> QED
    BY <2>3, <2>6
<1>10. CASE q.op = "rename" /\ docs[i].type = "folder"
  <2> DEFINE n == q.name
  <2>1. n \in Names
    BY <1>3, <1>10
  <2>2. docs' = [docs EXCEPT ![i] = [docs[i] EXCEPT !.name = n]]
    BY <1>4, <1>10 DEF T!Put, T!Written
  <2> HIDE DEF n
  <2>3. [docs[i] EXCEPT !.name = n] \in Doc
    BY <1>8, <2>1 DEF Doc
  <2>4. Rewrites(i, [docs[i] EXCEPT !.name = n])
    BY <1>7, <1>8, <2>2, <2>3 DEF Rewrites, Doc
  <2> QED
    BY <2>1, <2>4
<1>11. CASE q.op = "rename" /\ docs[i].type # "folder"
  <2>1. docs' = [docs EXCEPT ![i] = docs[i]]
    BY <1>4, <1>11 DEF T!Put, T!Written
  <2> QED
    BY <1>7, <2>1, TreeTyped DEF DocsTyped
<1> QED
  BY <1>3, <1>9, <1>10, <1>11

\* a new folder
IsFolder(d) ==
    /\ d.user \in Users /\ d.name \in Names /\ d.parent \in Ids \cup {Root}
    /\ d.spelling \in Spellings /\ d.spelling \in SpellingsOf(d.parent)
    /\ d.parent # Root => docs[d.parent] # Unborn
    /\ d = [type |-> "folder", user |-> d.user, name |-> d.name,
            parent |-> d.parent, spelling |-> d.spelling, hash |-> NoHash,
            thumb |-> NoId, trashed |-> FALSE]

LEMMA FolderWrites ==
  ASSUME ServerInv, NEW t \in Tasks, T!InsertFolder(t)
  PROVE  /\ t \in T!Creates /\ T!Creates' \subseteq T!Creates \ {t}
         /\ \/ docs' = docs
            \/ \E i, d : Adds(i, d) /\ IsFolder(d)
<1> DEFINE q == task[t]
           d == T!Folder(t)
<1>1. q # NoTask /\ q.pc = "insert"
  BY DEF T!InsertFolder, T!TaskAt
<1>2. q \in T!Request /\ Placed(q)
  BY <1>1, TreeTyped DEF ServerInv, Local, TasksPlaced
<1>3. /\ q.op = "create" /\ q.name \in Names
      /\ q.spelling \in SpellingsOf(q.parent)
  BY <1>1, <1>2 DEF Placed
<1>4. t \in T!Creates /\ T!Creates' \subseteq T!Creates \ {t}
  <2>1. task'[t] = NoTask /\ task[t] # NoTask /\ Onward(t)
    BY TreeTyped, TaskOnward DEF T!TaskStep, T!InsertFolder, T!AnswerTask
  <2> QED
    BY <1>1, <1>3, <2>1, OnwardCreates DEF T!Creates
<1>5. /\ q.user \in Users /\ q.parent \in Ids \cup {Root}
      /\ q.spelling \in Spellings
  BY <1>2 DEF T!Request
<1>6. TP!GoodParent(q.parent, q.user)
  BY <1>1 DEF ServerInv, TP!TreeInv, TP!TreeShape, TP!TasksSound, TP!Sound
<1>7. IsFolder(d) /\ d \in Doc
  BY <1>3, <1>5, <1>6
     DEF IsFolder, T!Folder, Doc, Types, TP!GoodParent, TP!GoodFolder
<1> QED
  BY <1>4, <1>7 DEF T!InsertFolder, T!UnbornIds, T!Insert, Adds

\* what a step of a request writes
LEMMA TaskWrites ==
  ASSUME ServerInv, NEW t \in Tasks, T!TaskStep(t) \/ T!Cut(t)
  PROVE  \/ docs' = docs
         \/ \E i, b : /\ Rewrites(i, [docs[i] EXCEPT !.trashed = b])
                      /\ b \in BOOLEAN
         \/ \E i, p, s : /\ Rewrites(i, [docs[i] EXCEPT !.parent = p,
                                                        !.spelling = s])
                         /\ Target(p, s)
         \/ \E i, n : /\ Rewrites(i, [docs[i] EXCEPT !.name = n])
                      /\ n \in Names
         \/ T!InsertFolder(t) /\ \E i, d : Adds(i, d) /\ IsFolder(d)
<1>1. CASE T!Update(t)
  BY <1>1, UpdateWrites
<1>2. CASE T!Write(t)
  BY <1>2, WriteWrites
<1>3. CASE T!InsertFolder(t)
  BY <1>3, FolderWrites
<1>4. CASE /\ ~T!Update(t) /\ ~T!Write(t) /\ ~T!InsertFolder(t)
  BY <1>4
     DEF T!TaskStep, T!Cut, T!Validate, T!Look, T!LoadMove,
         T!ValidateTarget, T!Walk, T!LoadRoot, T!CheckParent, T!Select,
         T!CheckRoots, T!Collect, T!NextRoot, T!UpdateConflicts, T!Reread,
         T!LoadPath, T!PathUp, T!OnlyTask
<1> QED
  BY <1>1, <1>2, <1>3, <1>4

LEMMA TaskKinds ==
  ASSUME NEW t, TaskActs(t)
  PROVE  /\ UNCHANGED contentsVars
         /\ \/ T!AskTask(t) /\ (EnoughIds' \/ AsksNoId(t))
            \/ T!TaskStep(t) \/ T!Cut(t)
<1>1. UNCHANGED contentsVars /\ (Asks(t) \/ T!TaskStep(t) \/ T!Cut(t))
  BY DEF TaskActs
<1>2. Asks(t) => T!AskTask(t) /\ (EnoughIds' \/ AsksNoId(t))
  BY DEF Asks, T!AskTask, AsksNoId
<1> QED
  BY <1>1, <1>2

LEMMA TaskKeeps ==
  ASSUME ServerInv, NEW t \in Tasks, TaskActs(t)
  PROVE  /\ Keeps /\ NoNewThumb /\ DocsTyped'
         /\ \/ NothingNew
            \/ T!InsertFolder(t) /\ \E i, d : Adds(i, d) /\ IsFolder(d)
<1>0. DocsTyped
  BY TreeTyped
<1>1. CASE docs' = docs
  BY <1>0, <1>1, SameKeeps DEF NothingNew, NoNewThumb, DocsTyped
<1>2. ASSUME NEW i, NEW d, Rewrites(i, d)
      PROVE  Keeps /\ NothingNew /\ NoNewThumb /\ DocsTyped'
  <2>1. Keeps /\ NothingNew
    BY <1>0, <1>2, RewritesKeeps
  <2>2. DocsTyped'
    BY <1>0, <1>2 DEF DocsTyped, Rewrites
  <2> QED
    BY <2>1, <2>2 DEF NothingNew, NoNewThumb
<1>3. ASSUME NEW i, NEW d, Adds(i, d), IsFolder(d)
      PROVE  Keeps /\ NoNewThumb /\ DocsTyped'
  <2>1. /\ Keeps /\ docs'[i] = d
        /\ \A j \in Ids \ {i} : docs'[j] = docs[j]
    BY <1>0, <1>3, AddKeeps
  <2>2. d.thumb = NoId
    BY <1>3 DEF IsFolder
  <2>3. DocsTyped'
    BY <1>0, <1>3 DEF DocsTyped, Adds
  <2> QED
    BY <2>1, <2>2, <2>3 DEF NoNewThumb
<1>4. CASE T!AskTask(t)
  BY <1>1, <1>4, AskPlaced
<1>5. CASE T!TaskStep(t) \/ T!Cut(t)
  BY <1>1, <1>2, <1>3, <1>5, TaskWrites, SameKeeps
<1> QED
  BY <1>4, <1>5, TaskKinds

LEMMA SameUnborn ==
  ASSUME Keeps, NothingNew
  PROVE  UnbornIds' = UnbornIds
  BY DEF Keeps, NothingNew, UnbornIds

LEMMA TaskEnough ==
  ASSUME ServerInv, NEW t \in Tasks, TaskActs(t)
  PROVE  EnoughIds'
<1>0. DocsTyped /\ EnoughIds
  BY TreeTyped DEF ServerInv, Local
<1>1. C!Owing' = C!Owing
  BY DEF TaskActs, contentsVars, C!Owing
<1>2. CASE T!AskTask(t)
  <2>1. docs' = docs
    BY <1>2, AskPlaced
  <2>2. UnbornIds' = UnbornIds
    BY <2>1 DEF UnbornIds
  <2>3. CASE AsksNoId(t)
    BY <1>0, <1>1, <1>2, <2>2, <2>3, AskPlaced, EnoughKept
  <2>4. task[t] = NoTask
    BY <1>2
       DEF T!AskTask, T!AskCreate, T!AskMove, T!AskRename, T!AskOne,
           T!AskBatch, T!Ask
  <2> QED
    BY <2>3, <2>4, TaskKinds, TaskOnward
<1>3. CASE T!TaskStep(t) \/ T!Cut(t)
  <2>1. T!Creates' \subseteq T!Creates
    BY <1>3, TaskOnward, OnwardCreates
  <2>2. CASE NothingNew
    BY <1>0, <1>1, <2>1, <2>2, TaskKeeps, SameUnborn, EnoughKept
  <2>3. CASE T!InsertFolder(t) /\ \E i, d : Adds(i, d) /\ IsFolder(d)
    <3>1. PICK i, d : Adds(i, d)
      BY <2>3
    <3>2. i \in UnbornIds /\ UnbornIds' = UnbornIds \ {i}
      BY <1>0, <3>1, AddKeeps DEF Adds, UnbornIds
    <3>3. t \in T!Creates /\ T!Creates' \subseteq T!Creates \ {t}
      BY <2>3, FolderWrites
    <3> QED
      BY <1>0, <1>1, <3>2, <3>3, EnoughLeft
  <2> QED
    BY <2>2, <2>3, TaskKeeps
<1> QED
  BY <1>2, <1>3, TaskKinds

LEMMA TaskLocal ==
  ASSUME ServerInv, NEW t \in Tasks, TaskActs(t)
  PROVE  Local'
<1>0. Local /\ CP!TypeOK /\ DocsTyped
  BY TreeTyped DEF ServerInv
<1>1. UNCHANGED <<upload, sweep, raced>>
  BY DEF TaskActs, contentsVars
<1>2. Keeps /\ NoNewThumb /\ DocsTyped'
  BY TaskKeeps
<1>3. Uploading'
  <2>1. Spelt'
    BY <1>0, <1>1 DEF Local, Uploading, Spelt
  <2> QED
    BY <1>0, <1>1, <1>2, <2>1, UploadingKept DEF Local
<1>4. Thumbs'
  <2>1. \A w \in Uploads : HasThumb(w)' =>
            /\ HasThumb(w)
            /\ upload'[w].thumbId = upload[w].thumbId
            /\ upload'[w].user = upload[w].user
    BY <1>1 DEF HasThumb
  <2> QED
    BY <1>0, <1>2, <2>1, ThumbsKept DEF Local, NoNewThumb, HasThumb
<1>5. Sweeping'
  <2>1. \A s \in Sweeps : sweep[s] # Idle => sweep[s].ids \subseteq Ids
    BY TreeTyped DEF C!SweepReq
  <2>2. \A s \in Sweeps : sweep'[s] # Idle =>
            /\ sweep'[s].ids \subseteq Ids
            /\ \A i \in sweep'[s].ids : docs[i] # Unborn
            /\ sweep'[s].pc = "list" => sweep'[s].ids = {}
    BY <1>0, <1>1, <2>1 DEF Local, Sweeping
  <2> QED
    BY <1>2, <2>2, SweepingKept
<1>6. TasksPlaced'
  BY TaskKinds, AskPlaced, TaskOnward, OnwardPlaced
<1>7. RacesNoted'
  BY <1>0, <1>1, RacesKept DEF Local
<1>8. EnoughIds'
  BY TaskEnough
<1> QED
  BY <1>3, <1>4, <1>5, <1>6, <1>7, <1>8 DEF Local

\* To uploads and empty-trash requests, a step of a request on the tree is an
\* edit of one document, or nothing.
LEMMA TaskEdits ==
  ASSUME ServerInv, NEW t \in Tasks, TaskActs(t)
  PROVE  C!Next \/ UNCHANGED C!vars
<1>1. UNCHANGED contentsVars
  BY DEF TaskActs
<1>2. CASE docs' = docs
  BY <1>1, <1>2 DEF contentsVars, C!vars
<1>3. C!NoteRaces
  <2>1. RacesNoted' /\ UNCHANGED raced
    BY <1>1, TaskLocal DEF Local, contentsVars
  <2> QED
    BY <2>1 DEF RacesNoted, C!NoteRaces
<1>4. ASSUME NEW i, NEW b, Rewrites(i, [docs[i] EXCEPT !.trashed = b]),
             b \in BOOLEAN
      PROVE  C!TreeEdit
  <2>1. C!SetTrashed(i)
    BY <1>1, <1>4
       DEF Rewrites, Exists, contentsVars, C!SetTrashed, C!Edit, C!Put,
           C!Exists
  <2> QED
    BY <1>4, <2>1 DEF Rewrites, Exists, C!TreeEdit, C!Exists
<1>5. ASSUME NEW i, NEW p, NEW s, Target(p, s),
             Rewrites(i, [docs[i] EXCEPT !.parent = p, !.spelling = s])
      PROVE  C!TreeEdit
  <2>1. C!Move(i)
    BY <1>1, <1>5
       DEF Rewrites, Target, Exists, contentsVars, C!Move, C!Edit, C!Put,
           C!Exists, SpellingsOf, C!SpellingsOf
  <2> QED
    BY <1>5, <2>1 DEF Rewrites, Exists, C!TreeEdit, C!Exists
<1>6. ASSUME NEW i, NEW n, Rewrites(i, [docs[i] EXCEPT !.name = n]),
             n \in Names
      PROVE  C!TreeEdit
  <2>1. C!Rename(i)
    BY <1>1, <1>6
       DEF Rewrites, Exists, contentsVars, C!Rename, C!Edit, C!Put, C!Exists
  <2> QED
    BY <1>6, <2>1 DEF Rewrites, Exists, C!TreeEdit, C!Exists
<1>7. ASSUME NEW i, NEW d, Adds(i, d), IsFolder(d)
      PROVE  C!TreeEdit
  <2>1. C!EnoughIds'
    BY TaskEnough, EnoughForUploads
  <2>2. C!Insert(i, d)
    BY <1>7 DEF Adds, C!Insert
  <2>3. C!NewFolder(i)
    BY <1>1, <1>7, <2>1, <2>2
       DEF IsFolder, contentsVars, C!NewFolder, SpellingsOf, C!SpellingsOf
  <2> QED
    BY <1>7, <2>3 DEF Adds, C!TreeEdit
<1>8. CASE T!AskTask(t)
  BY <1>2, <1>8, AskPlaced
<1>9. CASE T!TaskStep(t) \/ T!Cut(t)
  BY <1>2, <1>3, <1>4, <1>5, <1>6, <1>7, <1>9, TaskWrites DEF C!Next
<1> QED
  BY <1>8, <1>9, TaskKinds

LEMMA TaskIsTask ==
  ASSUME NEW t \in Tasks, TaskActs(t)
  PROVE  T!Next
  BY TaskKinds DEF T!Next

-----------------------------------------------------------------------------
(* Uploads                                                                 *)

\* one upload goes on or is answered
OneUpload(w) ==
    /\ \A v \in Uploads \ {w} : upload'[v] = upload[v]
    /\ upload'[w] # Idle =>
          /\ upload[w] # Idle
          /\ upload'[w].parent = upload[w].parent
          /\ upload'[w].spelling = upload[w].spelling
          /\ upload'[w].user = upload[w].user
          /\ upload'[w].image = upload[w].image
          /\ upload[w].pc = "validate"
                => GoodParent(upload[w].parent, upload[w].user)

SameThumb(w) == upload'[w] # Idle => upload'[w].thumbId = upload[w].thumbId

\* the steps that write no document
QuietUpload(w) ==
    \/ C!Validate(w) \/ C!Dedup(w) \/ C!CheckObject(w) \/ C!CheckThumb(w)
    \/ C!StoreThumb(w) \/ C!Store(w) \/ C!InsertFileFails(w)
    \/ C!UploadCut(w)

LEMMA UploadAnswered ==
  ASSUME ServerInv, NEW w \in Uploads, C!Answer(w)
  PROVE  /\ upload'[w] = Idle /\ OneUpload(w) /\ SameThumb(w)
<1>1. upload \in [Uploads -> C!UploadReq \cup {Idle}]
  BY TreeTyped
<1>2. upload'[w] = Idle /\ \A v \in Uploads \ {w} : upload'[v] = upload[v]
  BY <1>1 DEF C!Answer
<1> QED
  BY <1>2 DEF OneUpload, SameThumb

LEMMA UploadAdvanced ==
  ASSUME ServerInv, NEW w \in Uploads, upload[w] # Idle, NEW pc,
         C!Advance(w, pc), upload[w].pc # "validate"
  PROVE  OneUpload(w) /\ SameThumb(w)
<1>1. upload \in [Uploads -> C!UploadReq \cup {Idle}]
  BY TreeTyped
<1> QED
  BY <1>1 DEF C!Advance, C!UploadReq, OneUpload, SameThumb

LEMMA UploadGoes ==
  ASSUME ServerInv, NEW w \in Uploads, QuietUpload(w)
  PROVE  /\ OneUpload(w) /\ SameThumb(w) /\ docs' = docs /\ sweep' = sweep
<1>1. upload \in [Uploads -> C!UploadReq \cup {Idle}]
  BY TreeTyped
<1>2. docs' = docs /\ sweep' = sweep
  BY DEF QuietUpload, C!Validate, C!Dedup, C!CheckObject, C!CheckThumb,
         C!StoreThumb, C!Store, C!InsertFileFails, C!UploadCut
<1>3. CASE C!Answer(w)
  BY <1>2, <1>3, UploadAnswered
<1>4. CASE C!Validate(w) /\ ~C!Answer(w)
  <2>1. /\ upload[w] # Idle /\ upload' = [upload EXCEPT ![w].pc = "dedup"]
        /\ C!ValidParent(upload[w].parent, upload[w].user)
    BY <1>4 DEF C!Validate, C!UploadAt, C!Advance
  <2>2. GoodParent(upload[w].parent, upload[w].user)
    BY <2>1, MarkerAssumption
       DEF C!ValidParent, C!ActiveFolder, C!Owned, C!Exists, GoodParent,
           Exists
  <2> QED
    BY <1>1, <1>2, <2>1, <2>2 DEF C!UploadReq, OneUpload, SameThumb
<1>5. CASE (C!CheckObject(w) \/ C!CheckThumb(w)) /\ ~C!Answer(w)
  <2>1. PICK pc, h : /\ upload[w] # Idle /\ upload[w].pc # "validate"
                     /\ C!Check(w, h, pc)
    BY <1>5 DEF C!CheckObject, C!CheckThumb, C!UploadAt
  <2>2. PICK N : upload' = [upload EXCEPT ![w].pc = pc, ![w].need = N]
    BY <2>1 DEF C!Check
  <2> QED
    BY <1>1, <1>2, <2>1, <2>2 DEF C!UploadReq, OneUpload, SameThumb
<1>6. CASE /\ C!Dedup(w) \/ C!StoreThumb(w) \/ C!Store(w)
              \/ C!InsertFileFails(w)
           /\ ~C!Answer(w)
  <2>1. \E pc : /\ upload[w] # Idle /\ upload[w].pc # "validate"
                /\ C!Advance(w, pc)
    BY <1>6
       DEF C!Dedup, C!StoreThumb, C!Store, C!InsertFileFails, C!UploadAt
  <2> QED
    BY <1>2, <2>1, UploadAdvanced
<1> QED
  BY <1>3, <1>4, <1>5, <1>6 DEF QuietUpload, C!UploadCut

\* the inserts, and what takes one back
LEMMA InsertThumbWrites ==
  ASSUME ServerInv, NEW w \in Uploads, C!InsertThumb(w)
  PROVE  /\ upload[w] # Idle /\ upload[w].pc = "insertThumb"
         /\ upload[w].image /\ upload[w].thumbId = NoId
         /\ OneUpload(w) /\ sweep' = sweep
         /\ \E i \in Ids, h \in Hashes :
               /\ Adds(i, C!NewDoc(w, "thumbnail", h, NoId))
               /\ upload'[w] # Idle /\ upload'[w].thumbId = i
<1>1. upload \in [Uploads -> C!UploadReq \cup {Idle}]
  BY TreeTyped
<1>2. upload[w] # Idle /\ upload[w].pc = "insertThumb" /\ sweep' = sweep
  BY DEF C!InsertThumb, C!UploadAt
<1>3. /\ upload[w].image /\ upload[w].thumbId = NoId
      /\ upload[w].hash \in Pictures
  BY <1>2 DEF ServerInv, CP!TypeOK
<1>4. upload[w] \in C!UploadReq
  BY <1>1, <1>2
<1>5. PICK i \in Ids :
         /\ C!Insert(i, C!NewDoc(w, "thumbnail", ThumbOf[upload[w].hash],
                                 NoId))
         /\ upload' = [upload EXCEPT ![w].pc = "insertFile", ![w].thumbId = i]
  BY DEF C!InsertThumb
<1>6. PICK h \in Hashes : h = ThumbOf[upload[w].hash]
  BY <1>3, PictureAssumption
<1>7. C!NewDoc(w, "thumbnail", h, NoId) \in Doc
  BY <1>4, <1>6 DEF C!NewDoc, Doc, Types, C!UploadReq
<1>8. Adds(i, C!NewDoc(w, "thumbnail", h, NoId))
  BY <1>5, <1>6, <1>7 DEF Adds, C!Insert
<1>9. /\ \A v \in Uploads \ {w} : upload'[v] = upload[v]
      /\ upload'[w] = [upload[w] EXCEPT !.pc = "insertFile", !.thumbId = i]
  BY <1>1, <1>5
<1>10. /\ upload'[w].thumbId = i /\ OneUpload(w)
  BY <1>2, <1>4, <1>9 DEF OneUpload, C!UploadReq
<1>11. upload'[w] # Idle
  <2>1. upload'[w] \in C!UploadReq
    BY <1>4, <1>9 DEF C!UploadReq, C!UploadPCs
  <2> QED
    BY <2>1, IdleAssumption
<1> QED
  BY <1>2, <1>3, <1>8, <1>10, <1>11

LEMMA InsertFileWrites ==
  ASSUME ServerInv, NEW w \in Uploads, C!InsertFile(w)
  PROVE  /\ upload[w] # Idle /\ upload[w].pc = "insertFile"
         /\ upload'[w] = Idle /\ OneUpload(w) /\ sweep' = sweep
         /\ upload[w].thumbId \in Ids \cup {NoId}
         /\ \E i \in Ids, h \in Hashes :
               Adds(i, C!NewDoc(w, "file", h, upload[w].thumbId))
<1>1. upload \in [Uploads -> C!UploadReq \cup {Idle}]
  BY TreeTyped
<1>2. /\ upload[w] # Idle /\ upload[w].pc = "insertFile" /\ sweep' = sweep
      /\ C!Answer(w)
  BY DEF C!InsertFile, C!UploadAt
<1>3. upload[w] \in C!UploadReq
  BY <1>1, <1>2
<1>4. PICK h \in Hashes : h = upload[w].hash
  BY <1>3 DEF C!UploadReq
<1>5. upload[w].thumbId \in Ids \cup {NoId}
  BY <1>3 DEF C!UploadReq
<1>6. C!NewDoc(w, "file", h, upload[w].thumbId) \in Doc
  BY <1>3, <1>5 DEF C!NewDoc, Doc, Types, C!UploadReq
<1>7. \E i \in Ids : Adds(i, C!NewDoc(w, "file", h, upload[w].thumbId))
  BY <1>4, <1>6 DEF Adds, C!Insert, C!InsertFile
<1> QED
  BY <1>2, <1>5, <1>7, UploadAnswered

LEMMA RollbackWrites ==
  ASSUME ServerInv, NEW w \in Uploads, C!Rollback(w)
  PROVE  /\ HasThumb(w) /\ upload[w].thumbId \in Ids
         /\ upload'[w] = Idle /\ OneUpload(w) /\ sweep' = sweep
         /\ \/ docs' = docs
            \/ /\ Owned(upload[w].thumbId, upload[w].user)
               /\ docs' = [docs EXCEPT ![upload[w].thumbId] = Gone]
<1>1. upload \in [Uploads -> C!UploadReq \cup {Idle}]
  BY TreeTyped
<1>2. /\ upload[w] # Idle /\ upload[w].pc = "rollback" /\ sweep' = sweep
      /\ C!Answer(w)
  BY DEF C!Rollback, C!UploadAt
<1>3. upload[w].thumbId # NoId
  BY <1>2 DEF ServerInv, CP!TypeOK
<1>4. upload[w].thumbId \in Ids
  BY <1>1, <1>2, <1>3 DEF C!UploadReq
<1>5. \/ docs' = docs
      \/ /\ Owned(upload[w].thumbId, upload[w].user)
         /\ docs' = [docs EXCEPT ![upload[w].thumbId] = Gone]
  BY DEF C!Rollback, C!Owned, C!Exists, Owned, Exists, C!Erase
<1> QED
  BY <1>2, <1>3, <1>4, <1>5, UploadAnswered DEF HasThumb

LEMMA OneUploadKept ==
  ASSUME ServerInv, NEW w \in Uploads, OneUpload(w), Keeps
  PROVE  Uploading'
<1>1. Uploading
  BY DEF ServerInv, Local
<1>2. ASSUME NEW v \in Uploads, upload'[v] # Idle
      PROVE  /\ upload[v] # Idle
             /\ upload'[v].parent = upload[v].parent
             /\ upload'[v].user = upload[v].user
             /\ \/ upload[v].pc # "validate" \/ upload'[v] = upload[v]
                \/ GoodParent(upload[v].parent, upload[v].user)
  BY <1>2 DEF OneUpload
<1>3. \A v \in Uploads : (upload'[v] # Idle /\ upload'[v].pc # "validate") =>
         /\ upload[v] # Idle
         /\ upload'[v].parent = upload[v].parent
         /\ upload'[v].user = upload[v].user
         /\ \/ upload[v].pc # "validate"
            \/ GoodParent(upload[v].parent, upload[v].user)
  BY <1>2
<1>4. Spelt'
  BY <1>1 DEF OneUpload, Uploading, Spelt
<1> QED
  BY <1>1, <1>3, <1>4, UploadingKept

LEMMA SameSweeping ==
  ASSUME ServerInv, Keeps, sweep' = sweep
  PROVE  Sweeping'
<1>1. Sweeping
  BY DEF ServerInv, Local
<1>2. \A s \in Sweeps : sweep[s] # Idle => sweep[s].ids \subseteq Ids
  BY TreeTyped DEF C!SweepReq
<1>3. \A s \in Sweeps : sweep'[s] # Idle =>
         /\ sweep'[s].ids \subseteq Ids
         /\ \A i \in sweep'[s].ids : docs[i] # Unborn
         /\ sweep'[s].pc = "list" => sweep'[s].ids = {}
  BY <1>1, <1>2 DEF Sweeping
<1> QED
  BY <1>3, SweepingKept

LEMMA OneUploadOwing ==
  ASSUME NEW w \in Uploads, OneUpload(w), SameThumb(w)
  PROVE  C!Owing' \subseteq C!Owing
  BY DEF OneUpload, SameThumb, C!Owing

LEMMA SameThumbs ==
  ASSUME ServerInv, NEW w \in Uploads, OneUpload(w), SameThumb(w),
         Keeps, NothingNew, DocsTyped'
  PROVE  Thumbs'
<1>1. CP!TypeOK /\ Thumbs /\ DocsTyped
  BY TreeTyped DEF ServerInv, Local
<1>2. \A v \in Uploads : HasThumb(v)' =>
         /\ HasThumb(v)
         /\ upload'[v].thumbId = upload[v].thumbId
         /\ upload'[v].user = upload[v].user
  BY DEF HasThumb, OneUpload, SameThumb
<1> QED
  BY <1>1, <1>2, ThumbsKept DEF NothingNew, HasThumb

\* The other half of what holds locally.
LEMMA LocalParts ==
  ASSUME ServerInv, UNCHANGED task, C!NoteRaces,
         Uploading', Thumbs', Sweeping', EnoughIds'
  PROVE  Local'
<1>1. TasksPlaced'
  BY DEF ServerInv, Local, TasksPlaced
<1>2. RacesNoted'
  BY DEF C!NoteRaces, RacesNoted
<1> QED
  BY <1>1, <1>2 DEF Local

LEMMA SameCreates ==
  ASSUME UNCHANGED task
  PROVE  T!Creates' = T!Creates
  BY DEF T!Creates

LEMMA StartUploadLocal ==
  ASSUME ServerInv, NEW w \in Uploads, C!StartUpload(w), EnoughIds',
         UNCHANGED task, C!NoteRaces
  PROVE  Local'
<1>1. upload \in [Uploads -> C!UploadReq \cup {Idle}] /\ DocsTyped
  BY TreeTyped
<1>2. docs' = docs /\ sweep' = sweep
  BY DEF C!StartUpload
<1>3. Keeps /\ NothingNew /\ DocsTyped'
  BY <1>1, <1>2, SameKeeps DEF DocsTyped
<1>4. PICK u, p, s, h, image :
         /\ s \in SpellingsOf(p)
         /\ upload' = [upload EXCEPT ![w] =
                [pc |-> "validate", user |-> u, parent |-> p, spelling |-> s,
                 hash |-> h, image |-> image, need |-> {}, thumbId |-> NoId]]
  BY DEF C!StartUpload, C!SpellingsOf, SpellingsOf
<1>5. /\ \A v \in Uploads \ {w} : upload'[v] = upload[v]
      /\ upload'[w].pc = "validate" /\ upload'[w].thumbId = NoId
      /\ upload'[w].spelling = s /\ upload'[w].parent = p
  BY <1>1, <1>4
<1>6. Uploading'
  <2>1. Uploading
    BY DEF ServerInv, Local
  <2>2. \A v \in Uploads :
           (upload'[v] # Idle /\ upload'[v].pc # "validate") =>
               upload[v] = upload'[v]
    BY <1>5
  <2>3. Spelt'
    BY <1>4, <1>5, <2>1 DEF Uploading, Spelt
  <2> QED
    BY <1>3, <2>1, <2>2, <2>3, UploadingKept
<1>7. Thumbs'
  <2>1. CP!TypeOK /\ Thumbs
    BY DEF ServerInv, Local
  <2>2. \A v \in Uploads : HasThumb(v)' => HasThumb(v) /\ upload'[v] = upload[v]
    BY <1>5 DEF HasThumb
  <2> QED
    BY <1>1, <1>3, <2>1, <2>2, ThumbsKept DEF NothingNew, HasThumb
<1> QED
  BY <1>2, <1>3, <1>6, <1>7, SameSweeping, LocalParts

LEMMA QuietUploadLocal ==
  ASSUME ServerInv, NEW w \in Uploads, QuietUpload(w) \/ C!Rollback(w),
         UNCHANGED task, C!NoteRaces
  PROVE  Local' /\ NothingNew
<1>1. DocsTyped /\ EnoughIds
  BY TreeTyped DEF ServerInv, Local
<1>2. OneUpload(w) /\ SameThumb(w) /\ sweep' = sweep
  BY UploadGoes, RollbackWrites DEF SameThumb
<1>3. Keeps /\ NothingNew /\ DocsTyped'
  <2>1. CASE docs' = docs
    BY <1>1, <2>1, SameKeeps DEF DocsTyped
  <2>2. ASSUME NEW i \in Ids, Owned(i, upload[w].user),
               docs' = [docs EXCEPT ![i] = Gone]
        PROVE  Keeps /\ NothingNew /\ DocsTyped'
    <3>1. Keeps /\ NothingNew
      BY <1>1, <2>2, EraseKeeps DEF Owned
    <3>2. DocsTyped'
      BY <1>1, <2>2 DEF DocsTyped
    <3> QED
      BY <3>1, <3>2
  <2> QED
    BY <2>1, <2>2, UploadGoes, RollbackWrites
<1>4. EnoughIds'
  BY <1>1, <1>2, <1>3, SameUnborn, OneUploadOwing, SameCreates, EnoughKept
<1> QED
  BY <1>2, <1>3, <1>4, OneUploadKept, SameThumbs, SameSweeping, LocalParts

LEMMA InsertThumbLocal ==
  ASSUME ServerInv, NEW w \in Uploads, C!InsertThumb(w),
         UNCHANGED task, C!NoteRaces
  PROVE  Local'
<1>1. CP!TypeOK /\ Thumbs /\ DocsTyped /\ EnoughIds
  BY TreeTyped DEF ServerInv, Local
<1>2. PICK i \in Ids, h \in Hashes :
         /\ Adds(i, C!NewDoc(w, "thumbnail", h, NoId))
         /\ upload'[w] # Idle /\ upload'[w].thumbId = i
  BY InsertThumbWrites
<1>3. PICK d : d = C!NewDoc(w, "thumbnail", h, NoId)
  OBVIOUS
<1>4. d.type = "thumbnail" /\ d.user = upload[w].user /\ d.thumb = NoId
  BY <1>3 DEF C!NewDoc
<1>5. /\ Keeps /\ docs'[i] = d /\ d \notin {Unborn, Gone}
      /\ \A j \in Ids \ {i} : docs'[j] = docs[j]
      /\ docs[i] = Unborn /\ UnbornIds' = UnbornIds \ {i}
  BY <1>1, <1>2, <1>3, AddKeeps DEF Adds
<1>6. /\ upload[w] # Idle /\ upload[w].image /\ upload[w].thumbId = NoId
      /\ OneUpload(w) /\ sweep' = sweep
  BY InsertThumbWrites
<1>7. NoId # i /\ DocsTyped'
  BY <1>1, <1>2, MarkerAssumption DEF DocsTyped, Adds
<1>8. ASSUME NEW k \in Ids, Exists(k)', docs'[k].thumb # NoId
      PROVE  Exists(k) /\ docs[k] = docs'[k] /\ docs[docs[k].thumb] # Unborn
  BY <1>1, <1>4, <1>5, <1>8 DEF Thumbs, Exists
<1>9. ASSUME NEW k \in Ids, Exists(k)', docs'[k].thumb # NoId
      PROVE  docs'[docs'[k].thumb] # Unborn
  <2>1. docs'[k].thumb \in Ids
    BY <1>7, <1>9 DEF DocsTyped, Exists, Doc
  <2> QED
    BY <1>5, <1>8, <1>9, <2>1 DEF Keeps
<1>10. ASSUME NEW v \in Uploads \ {w}, HasThumb(v)'
       PROVE  /\ HasThumb(v) /\ upload'[v] = upload[v]
              /\ upload[v].thumbId \in Ids /\ upload[v].thumbId # i
              /\ Free(upload[v].thumbId, upload[v].user)
  <2>1. HasThumb(v) /\ upload'[v] = upload[v]
    BY <1>6, <1>10 DEF HasThumb, OneUpload
  <2>2. upload[v].thumbId \in Ids
    BY <2>1, TreeTyped DEF HasThumb, C!UploadReq
  <2>3. Free(upload[v].thumbId, upload[v].user)
    BY <1>1, <2>1 DEF Thumbs
  <2> QED
    BY <1>5, <2>1, <2>2, <2>3 DEF Free
<1>11. ASSUME NEW v \in Uploads, HasThumb(v)'
       PROVE  Free(upload[v].thumbId, upload[v].user)'
  <2>1. CASE v = w
    <3>1. PICK u : u = upload[w].user
      OBVIOUS
    <3>2. Free(i, u)'
      <4>1. \A k \in Ids : Exists(k)' => docs'[k].thumb # i
        BY <1>5, <1>7, <1>8
      <4>2. /\ docs'[i] # Unborn
            /\ docs'[i].type = "thumbnail" /\ docs'[i].user = u
        BY <1>4, <1>5, <3>1
      <4> QED
        BY <4>1, <4>2 DEF Free, Exists
    <3>3. i = upload'[v].thumbId /\ u = upload'[v].user
      BY <1>2, <1>6, <2>1, <3>1 DEF OneUpload
    <3> QED
      BY <3>2, <3>3 DEF Free, Exists
  <2>2. CASE v # w
    <3>1. PICK th, u : th = upload[v].thumbId /\ u = upload[v].user
      OBVIOUS
    <3>2. th \in Ids /\ Free(th, u) /\ th # NoId
      BY <1>10, <1>11, <2>2, <3>1, MarkerAssumption
    <3>3. \A k \in Ids : (docs[k] = Unborn /\ docs'[k] # Unborn)
                            => docs'[k].thumb # th
      BY <1>4, <1>5, <3>2
    <3>4. Free(th, u)'
      BY <1>5, <3>2, <3>3, FreeKept
    <3>5. th = upload'[v].thumbId /\ u = upload'[v].user
      BY <1>10, <1>11, <2>2, <3>1
    <3> QED
      BY <3>4, <3>5 DEF Free, Exists
  <2> QED
    BY <2>1, <2>2
<1>12. \A u, v \in Uploads :
          (HasThumb(u)' /\ HasThumb(v)' /\ u # v)
              => upload'[u].thumbId # upload'[v].thumbId
  BY <1>1, <1>2, <1>10 DEF Thumbs
<1>13. Thumbs'
  BY <1>9, <1>11, <1>12 DEF Thumbs
<1>14. EnoughIds'
  <2> DEFINE o == <<w, "thumbnail">>
  <2>1. o \in C!Owing
    BY <1>6 DEF C!Owing
  <2>2. C!Owing' \subseteq C!Owing \ {o}
    BY <1>2, <1>6, <1>7 DEF C!Owing, OneUpload
  <2>3. i \in UnbornIds
    BY <1>5 DEF UnbornIds
  <2> QED
    BY <1>1, <1>5, <2>1, <2>2, <2>3, SameCreates, EnoughLeft
<1> QED
  BY <1>5, <1>6, <1>13, <1>14, OneUploadKept, SameSweeping, LocalParts

LEMMA InsertFileLocal ==
  ASSUME ServerInv, NEW w \in Uploads, C!InsertFile(w),
         UNCHANGED task, C!NoteRaces
  PROVE  Local'
<1>1. CP!TypeOK /\ Thumbs /\ DocsTyped /\ EnoughIds
  BY TreeTyped DEF ServerInv, Local
<1>2. PICK i \in Ids, h \in Hashes :
         Adds(i, C!NewDoc(w, "file", h, upload[w].thumbId))
  BY InsertFileWrites
<1>3. PICK d, th : d = C!NewDoc(w, "file", h, upload[w].thumbId)
                   /\ th = upload[w].thumbId
  OBVIOUS
<1>4. d.thumb = th
  BY <1>3 DEF C!NewDoc
<1>5. /\ Keeps /\ docs'[i] = d
      /\ \A j \in Ids \ {i} : docs'[j] = docs[j]
      /\ docs[i] = Unborn /\ UnbornIds' = UnbornIds \ {i}
  BY <1>1, <1>2, <1>3, AddKeeps DEF Adds
<1>6. /\ upload[w] # Idle /\ upload'[w] = Idle /\ OneUpload(w) /\ sweep' = sweep
  BY InsertFileWrites
<1>7. DocsTyped'
  BY <1>1, <1>2 DEF DocsTyped, Adds
<1>8. th # NoId => docs[th] # Unborn
  BY <1>1, <1>3, <1>6 DEF Thumbs, HasThumb, Free
<1>9. ASSUME NEW v \in Uploads, HasThumb(v)'
      PROVE  /\ HasThumb(v) /\ upload'[v] = upload[v] /\ v # w
             /\ upload'[v].thumbId # th
  <2>1. HasThumb(v) /\ upload'[v] = upload[v] /\ v # w
    BY <1>6, <1>9 DEF HasThumb, OneUpload
  <2> QED
    BY <1>1, <1>3, <1>6, <2>1 DEF Thumbs, HasThumb
<1>10. \A k \in Ids : (docs[k] = Unborn /\ docs'[k] # Unborn)
                            => docs'[k].thumb \in {NoId, th}
  BY <1>4, <1>5
<1>11. Thumbs'
  BY <1>1, <1>5, <1>7, <1>8, <1>9, <1>10, ThumbsKept
<1>12. EnoughIds'
  <2> DEFINE o == <<w, "file">>
  <2>1. o \in C!Owing
    BY <1>6 DEF C!Owing
  <2>2. C!Owing' \subseteq C!Owing \ {o}
    BY <1>6 DEF C!Owing, OneUpload
  <2>3. i \in UnbornIds
    BY <1>5 DEF UnbornIds
  <2> QED
    BY <1>1, <1>5, <2>1, <2>2, <2>3, SameCreates, EnoughLeft
<1> QED
  BY <1>5, <1>6, <1>11, <1>12, OneUploadKept, SameSweeping, LocalParts

-----------------------------------------------------------------------------
(* Emptying the trash                                                      *)

\* one sweep goes on, with no more than it had listed, or is done
OneSweep(s) ==
    /\ \A r \in Sweeps \ {s} : sweep'[r] = sweep[r]
    /\ sweep'[s] # Idle =>
          \/ sweep[s] = Idle /\ sweep'[s].ids = {}
          \/ /\ sweep[s] # Idle /\ sweep[s].pc # "list" /\ sweep'[s].pc # "list"
             /\ sweep'[s].ids \subseteq sweep[s].ids

\* the steps that read no documents of the trash and write none
QuietSweep(s) ==
    \/ C!StartSweep(s) \/ C!Count(s) \/ C!SweepAnswers(s) \/ C!Remove(s)
    \/ C!Unlink(s) \/ C!SweepCut(s)

LEMMA SweepDone ==
  ASSUME ServerInv, NEW s \in Sweeps, C!Done(s)
  PROVE  sweep'[s] = Idle /\ OneSweep(s)
<1>1. sweep \in [Sweeps -> C!SweepReq \cup {Idle}]
  BY TreeTyped
<1>2. sweep'[s] = Idle /\ \A r \in Sweeps \ {s} : sweep'[r] = sweep[r]
  BY <1>1 DEF C!Done
<1> QED
  BY <1>2 DEF OneSweep

LEMMA SweepNextHash ==
  ASSUME ServerInv, NEW s \in Sweeps, sweep[s] # Idle, sweep[s].pc # "list",
         C!NextHash(s)
  PROVE  OneSweep(s)
<1>1. sweep \in [Sweeps -> C!SweepReq \cup {Idle}]
  BY TreeTyped
<1> QED
  BY <1>1 DEF C!NextHash, C!SweepReq, OneSweep

LEMMA SweepGoes ==
  ASSUME ServerInv, NEW s \in Sweeps, QuietSweep(s)
  PROVE  OneSweep(s) /\ docs' = docs /\ upload' = upload
<1>1. sweep \in [Sweeps -> C!SweepReq \cup {Idle}]
  BY TreeTyped
<1>2. docs' = docs /\ upload' = upload
  BY DEF QuietSweep, C!StartSweep, C!Count, C!SweepAnswers, C!Remove,
         C!Unlink, C!SweepCut
<1>3. CASE C!Done(s)
  BY <1>2, <1>3, SweepDone
<1>4. CASE C!StartSweep(s)
  <2>1. PICK u : /\ sweep[s] = Idle
                 /\ sweep' = [sweep EXCEPT ![s] =
                       [pc |-> "list", user |-> u, ids |-> {}, hashes |-> {},
                        doomed |-> NoHash]]
    BY <1>4 DEF C!StartSweep
  <2>2. sweep'[s].ids = {} /\ \A r \in Sweeps \ {s} : sweep'[r] = sweep[r]
    BY <1>1, <2>1
  <2> QED
    BY <1>2, <2>1, <2>2 DEF OneSweep
<1>5. CASE C!Count(s)
  <2>1. PICK h : \/ sweep' = [sweep EXCEPT ![s].pc = "remove", ![s].doomed = h]
                 \/ sweep' = [sweep EXCEPT ![s].hashes = @ \ {h}]
    BY <1>5 DEF C!Count
  <2>2. sweep[s] # Idle /\ sweep[s].pc = "count"
    BY <1>5 DEF C!Count, C!SweepAt
  <2> QED
    BY <1>1, <1>2, <2>1, <2>2 DEF C!SweepReq, OneSweep
<1>6. CASE C!Remove(s)
  <2>1. sweep[s] # Idle /\ sweep[s].pc = "remove"
    BY <1>6 DEF C!Remove, C!SweepAt
  <2>2. CASE sweep' = [sweep EXCEPT ![s].pc = "unlink"]
    BY <1>1, <1>2, <2>1, <2>2 DEF C!SweepReq, OneSweep
  <2> QED
    BY <1>2, <1>6, <2>1, <2>2, SweepNextHash DEF C!Remove
<1>7. CASE C!Unlink(s)
  <2>1. sweep[s] # Idle /\ sweep[s].pc = "unlink"
    BY <1>7 DEF C!Unlink, C!SweepAt
  <2> QED
    BY <1>2, <1>3, <1>7, <2>1, SweepNextHash DEF C!Unlink
<1> QED
  BY <1>3, <1>4, <1>5, <1>6, <1>7 DEF QuietSweep, C!SweepAnswers, C!SweepCut

LEMMA ListWrites ==
  ASSUME ServerInv, NEW s \in Sweeps, C!List(s)
  PROVE  /\ sweep[s] # Idle /\ sweep[s].pc = "list" /\ sweep[s].ids = {}
         /\ docs' = docs /\ upload' = upload
         /\ \A r \in Sweeps \ {s} : sweep'[r] = sweep[r]
         /\ \/ sweep'[s] = Idle
            \/ /\ sweep'[s] # Idle /\ sweep'[s].pc = "delete"
               /\ sweep'[s].ids = C!TrashedBy(sweep[s].user)
<1>1. sweep \in [Sweeps -> C!SweepReq \cup {Idle}]
  BY TreeTyped
<1>2. /\ sweep[s] # Idle /\ sweep[s].pc = "list" /\ docs' = docs
      /\ upload' = upload
  BY DEF C!List, C!SweepAt
<1>3. sweep[s].ids = {}
  BY <1>2 DEF ServerInv, Local, Sweeping
<1>4. CASE C!Done(s)
  BY <1>2, <1>3, <1>4, SweepDone DEF OneSweep
<1>5. CASE ~C!Done(s)
  <2>1. PICK R, H : /\ R = C!TrashedBy(sweep[s].user)
                    /\ H = C!ContentsOf(R)
                    /\ sweep' = [sweep EXCEPT ![s].pc = "delete",
                                    ![s].ids = R, ![s].hashes = H]
    BY <1>5 DEF C!List
  <2>2. /\ \A r \in Sweeps \ {s} : sweep'[r] = sweep[r]
        /\ sweep'[s] = [sweep[s] EXCEPT !.pc = "delete", !.ids = R,
                                        !.hashes = H]
    BY <1>1, <2>1
  <2>3. R \subseteq Ids
    BY <2>1 DEF C!TrashedBy
  <2>4. H \subseteq Hashes
    <3>1. \A i \in R : docs[i].hash \in Hashes \cup {NoHash}
      BY <2>1, TreeTyped DEF C!TrashedBy, C!Owned, C!Exists, DocsTyped, Doc
    <3> QED
      BY <2>1, <3>1 DEF C!ContentsOf
  <2>5. sweep'[s] \in C!SweepReq /\ sweep'[s].pc = "delete" /\ sweep'[s].ids = R
    <3>1. sweep[s] \in C!SweepReq
      BY <1>1, <1>2
    <3>2. PICK q : q = sweep[s]
      OBVIOUS
    <3>3. [q EXCEPT !.pc = "delete", !.ids = R, !.hashes = H] \in C!SweepReq
      BY <2>3, <2>4, <3>1, <3>2, ZenonT(40) DEF C!SweepReq, C!SweepPCs
    <3>4. /\ [q EXCEPT !.pc = "delete", !.ids = R, !.hashes = H].pc = "delete"
          /\ [q EXCEPT !.pc = "delete", !.ids = R, !.hashes = H].ids = R
      BY <3>1, <3>2 DEF C!SweepReq
    <3> QED
      BY <2>2, <3>2, <3>3, <3>4
  <2> QED
    BY <1>2, <1>3, <2>1, <2>2, <2>5, IdleAssumption
<1> QED
  BY <1>4, <1>5

LEMMA DeleteWrites ==
  ASSUME ServerInv, NEW s \in Sweeps, C!DeleteListed(s)
  PROVE  /\ sweep[s] # Idle /\ sweep[s].pc = "delete" /\ upload' = upload
         /\ \A r \in Sweeps \ {s} : sweep'[r] = sweep[r]
         /\ sweep'[s] # Idle /\ sweep'[s].pc # "list"
         /\ \E i \in sweep[s].ids :
               /\ i \in Ids /\ sweep'[s].ids = sweep[s].ids \ {i}
               /\ \/ docs' = docs
                  \/ Exists(i) /\ docs' = [docs EXCEPT ![i] = Gone]
<1>1. sweep \in [Sweeps -> C!SweepReq \cup {Idle}]
  BY TreeTyped
<1>2. sweep[s] # Idle /\ sweep[s].pc = "delete" /\ upload' = upload
  BY DEF C!DeleteListed, C!SweepAt
<1>3. PICK i \in sweep[s].ids :
         /\ IF C!Owned(i, sweep[s].user) THEN C!Erase(i) ELSE UNCHANGED docs
         /\ sweep' = [sweep EXCEPT
               ![s].ids = @ \ {i},
               ![s].pc = IF sweep[s].ids = {i} THEN "count" ELSE "delete"]
  BY DEF C!DeleteListed
<1>4. sweep[s] \in C!SweepReq
  BY <1>1, <1>2
<1>5. i \in Ids
  BY <1>4 DEF C!SweepReq
<1>6. PICK pc \in {"count", "delete"} :
         sweep' = [sweep EXCEPT ![s].ids = @ \ {i}, ![s].pc = pc]
  BY <1>3
<1>7. /\ \A r \in Sweeps \ {s} : sweep'[r] = sweep[r]
      /\ sweep'[s] = [sweep[s] EXCEPT !.ids = @ \ {i}, !.pc = pc]
  BY <1>1, <1>6
<1>8. /\ sweep'[s] \in C!SweepReq /\ sweep'[s].pc # "list"
      /\ sweep'[s].ids = sweep[s].ids \ {i}
  BY <1>4, <1>7 DEF C!SweepReq, C!SweepPCs
<1>9. \/ docs' = docs
      \/ Exists(i) /\ docs' = [docs EXCEPT ![i] = Gone]
  BY <1>3 DEF C!Owned, C!Exists, C!Erase, Exists
<1> QED
  BY <1>2, <1>5, <1>7, <1>8, <1>9, IdleAssumption

LEMMA SweepLocal ==
  ASSUME ServerInv, NEW s \in Sweeps,
         QuietSweep(s) \/ C!List(s) \/ C!DeleteListed(s),
         UNCHANGED task, C!NoteRaces
  PROVE  Local' /\ NothingNew
<1>1. CP!TypeOK /\ Uploading /\ Thumbs /\ Sweeping /\ DocsTyped /\ EnoughIds
  BY TreeTyped DEF ServerInv, Local
<1>2. upload' = upload
  BY SweepGoes, ListWrites, DeleteWrites
<1>3. Keeps /\ NothingNew /\ DocsTyped'
  <2>1. CASE docs' = docs
    BY <1>1, <2>1, SameKeeps DEF DocsTyped
  <2>2. ASSUME NEW i \in Ids, Exists(i), docs' = [docs EXCEPT ![i] = Gone]
        PROVE  Keeps /\ NothingNew /\ DocsTyped'
    <3>1. Keeps /\ NothingNew
      BY <1>1, <2>2, EraseKeeps
    <3>2. DocsTyped'
      BY <1>1, <2>2 DEF DocsTyped
    <3> QED
      BY <3>1, <3>2
  <2> QED
    BY <2>1, <2>2, SweepGoes, ListWrites, DeleteWrites
<1>4. Uploading'
  <2>1. Spelt'
    BY <1>1, <1>2 DEF Uploading, Spelt
  <2> QED
    BY <1>1, <1>2, <1>3, <2>1, UploadingKept
<1>5. Thumbs'
  BY <1>1, <1>2, <1>3, ThumbsKept DEF NothingNew, HasThumb
<1>6. \A r \in Sweeps : sweep[r] # Idle =>
         /\ sweep[r].ids \subseteq Ids
         /\ \A i \in sweep[r].ids : docs[i] # Unborn
         /\ sweep[r].pc = "list" => sweep[r].ids = {}
  BY <1>1, TreeTyped DEF Sweeping, C!SweepReq
<1>7. \A r \in Sweeps : sweep'[r] # Idle =>
         /\ sweep'[r].ids \subseteq Ids
         /\ \A i \in sweep'[r].ids : docs[i] # Unborn
         /\ sweep'[r].pc = "list" => sweep'[r].ids = {}
  <2>1. CASE QuietSweep(s)
    BY <1>6, <2>1, SweepGoes DEF OneSweep
  <2>2. CASE C!List(s)
    BY <1>6, <2>2, ListWrites DEF C!TrashedBy, C!Owned, C!Exists
  <2>3. CASE C!DeleteListed(s)
    BY <1>6, <2>3, DeleteWrites
  <2> QED
    BY <2>1, <2>2, <2>3
<1>8. Sweeping'
  BY <1>3, <1>7, SweepingKept
<1>9. C!Owing' = C!Owing
  BY <1>2 DEF C!Owing
<1>10. EnoughIds'
  BY <1>1, <1>3, <1>9, SameUnborn, SameCreates, EnoughKept
<1> QED
  BY <1>3, <1>4, <1>5, <1>8, <1>10, LocalParts

-----------------------------------------------------------------------------
(* To requests on the tree                                                 *)

LEMMA NoOverlaps ==
  ASSUME UnbornIds' = UnbornIds,
         \A s \in Sweeps : ~(/\ C!SweepAt(s, "list") /\ sweep'[s] # Idle
                             /\ sweep'[s] # sweep[s])
  PROVE  Overlaps = {}
  BY DEF Overlaps

LEMMA SamePurging ==
  ASSUME ServerInv, sweep' = sweep,
         \A i \in Ids : docs[i] # Unborn => (Exists(i)' <=> Exists(i))
  PROVE  Purging' = Purging
<1>1. \A s \in Sweeps : sweep[s] # Idle =>
         \A i \in sweep[s].ids : docs[i] # Unborn
  BY DEF ServerInv, Local, Sweeping
<1> QED
  BY <1>1 DEF Purging, Exists

\* steps that write no document list none either
LEMMA NothingListed ==
  ASSUME UNCHANGED <<docs, task, movesRaced, disturbed>>,
         Purging' \subseteq Purging
  PROVE  T!Next \/ UNCHANGED T!vars
<1>1. CASE Purging' = Purging
  BY <1>1 DEF T!vars
<1>2. CASE Purging' # Purging
  <2> DEFINE S == Purging \ Purging'
  <2>1. S \in SUBSET Purging /\ S # {} /\ Purging' = Purging \ S
    BY <1>2
  <2>2. T!StopPurge
    BY <2>1 DEF T!StopPurge
  <2> QED
    BY <2>2 DEF T!Next, T!TrashStep
<1> QED
  BY <1>1, <1>2

LEMMA QuietUploadIsTree ==
  ASSUME ServerInv, NEW w \in Uploads, QuietUpload(w) \/ C!StartUpload(w),
         UNCHANGED <<task, movesRaced>>, disturbed' = disturbed \cup Overlaps
  PROVE  T!Next \/ UNCHANGED T!vars
<1>1. docs' = docs /\ sweep' = sweep
  BY UploadGoes DEF C!StartUpload
<1>2. Overlaps = {}
  BY <1>1, NoOverlaps DEF UnbornIds
<1>3. Purging' = Purging
  BY <1>1 DEF Purging, Exists
<1> QED
  BY <1>1, <1>2, <1>3 DEF T!vars

\* Nobody has listed a new document.
LEMMA AddsNotListed ==
  ASSUME ServerInv, NEW i, NEW d, Adds(i, d), sweep' = sweep
  PROVE  Purging' = Purging
<1>1. /\ docs'[i] = d /\ d \notin {Unborn, Gone}
      /\ \A j \in Ids \ {i} : docs'[j] = docs[j]
  BY TreeTyped, AddKeeps
<1>2. \A j \in Ids : docs[j] # Unborn => docs'[j] = docs[j]
  BY <1>1 DEF Adds
<1> QED
  BY <1>2, SamePurging DEF Exists

LEMMA AddsOverlaps ==
  ASSUME ServerInv, NEW w \in Uploads, NEW i, NEW d, Adds(i, d),
         upload[w] # Idle, upload'[w] # upload[w], OneUpload(w), sweep' = sweep
  PROVE  Overlaps = IF \/ T!Busy(upload[w].user) # {}
                       \/ ~ValidParent(upload[w].parent, upload[w].user)
                       \/ LostThumb(w)
                    THEN {upload[w].user} ELSE {}
<1>1. UnbornIds' # UnbornIds
  <2>1. UnbornIds' = UnbornIds \ {i} /\ i \in UnbornIds
    BY TreeTyped, AddKeeps DEF Adds, UnbornIds
  <2> QED
    BY <2>1
<1>2. upload[w].user \in Users
  BY TreeTyped DEF C!UploadReq
<1>3. \A v \in Uploads : upload'[v] # upload[v] <=> v = w
  BY DEF OneUpload
<1> QED
  BY <1>1, <1>2, <1>3 DEF Overlaps

\* the insert of a document by an upload
LEMMA InsertIsTree ==
  ASSUME ServerInv, NEW w \in Uploads, NEW i \in Ids, NEW ty, NEW h \in Hashes,
         NEW th \in Ids \cup {NoId},
         Adds(i, C!NewDoc(w, ty, h, th)),
         upload[w] # Idle, upload[w].pc # "validate",
         upload'[w] # upload[w], OneUpload(w), sweep' = sweep,
         th = upload[w].thumbId, ty \in {"file", "thumbnail"},
         th # NoId => ty = "file",
         UNCHANGED <<task, movesRaced>>, disturbed' = disturbed \cup Overlaps
  PROVE  T!Next
<1> DEFINE u == upload[w].user
           p == upload[w].parent
           s == upload[w].spelling
<1>1. u \in Users /\ p \in Ids \cup {Root} /\ s \in Spellings
  BY TreeTyped DEF C!UploadReq
<1>2. GoodParent(p, u)
  BY DEF ServerInv, Local, Uploading
<1>3. th # NoId => Free(th, u)
  BY DEF ServerInv, Local, Thumbs, HasThumb
<1>4. Purging' = Purging
  BY AddsNotListed
<1>5. Overlaps = IF \/ T!Busy(u) # {} \/ ~ValidParent(p, u) \/ LostThumb(w)
                 THEN {u} ELSE {}
  BY AddsOverlaps
<1>6. T!Disturb(u, \/ T!Busy(u) # {} \/ ~T!ValidParent(p, u)
                   \/ th # NoId /\ (T!Exists(th) => docs[th].trashed))
  BY <1>5
     DEF T!Disturb, LostThumb, ValidParent, T!ValidParent, ActiveFolder,
         T!ActiveFolder, Owned, T!Owned, Exists, T!Exists
<1>7. T!Insert(i, [type |-> ty, user |-> u, name |-> NoName, parent |-> p,
                   spelling |-> s, hash |-> h, thumb |-> th, trashed |-> FALSE])
  BY DEF Adds, C!NewDoc, T!Insert
<1>8. p # Root => \/ docs[p] = Gone
                  \/ T!Owned(p, u) /\ docs[p].type = "folder"
  BY <1>2 DEF GoodParent, Exists, T!Owned, T!Exists
<1>9. th # NoId =>
         /\ ty = "file"
         /\ \/ docs[th] = Gone
            \/ T!Owned(th, u) /\ docs[th].type = "thumbnail" /\ T!Unused(th)
  BY <1>3 DEF Free, Exists, T!Owned, T!Exists, T!Unused
<1>10. T!UploadedAs(i, u, p, s, ty, h, th)
  <2>1. s \in T!SpellingsOf(p)
    BY DEF ServerInv, Local, Uploading, Spelt, SpellingsOf, T!SpellingsOf
  <2> QED
    BY <1>6, <1>7, <1>8, <1>9, <2>1 DEF T!UploadedAs
<1>11. T!Uploaded(i)
  <2> HIDE DEF u, p, s
  <2> QED
    BY <1>1, <1>4, <1>10 DEF T!Uploaded
<1> QED
  BY <1>11 DEF T!Next, T!TrashStep

LEMMA UploadIsTree ==
  ASSUME ServerInv, NEW w \in Uploads,
         C!StartUpload(w) \/ C!UploadStep(w) \/ C!InsertFileFails(w)
            \/ C!UploadCut(w),
         UNCHANGED <<task, movesRaced>>, disturbed' = disturbed \cup Overlaps
  PROVE  T!Next \/ UNCHANGED T!vars
<1>1. CASE C!InsertThumb(w)
  <2>1. PICK i \in Ids, h \in Hashes :
           /\ Adds(i, C!NewDoc(w, "thumbnail", h, NoId))
           /\ upload'[w].thumbId = i
    BY <1>1, InsertThumbWrites
  <2>2. /\ upload[w] # Idle /\ upload[w].pc # "validate"
        /\ upload[w].thumbId = NoId /\ OneUpload(w) /\ sweep' = sweep
    BY <1>1, InsertThumbWrites
  <2>3. upload'[w] # upload[w]
    BY <2>1, <2>2, MarkerAssumption
  <2> QED
    BY <2>1, <2>2, <2>3, InsertIsTree
<1>2. CASE C!InsertFile(w)
  <2>1. PICK i \in Ids, h \in Hashes :
           Adds(i, C!NewDoc(w, "file", h, upload[w].thumbId))
    BY <1>2, InsertFileWrites
  <2>2. /\ upload[w] # Idle /\ upload[w].pc # "validate" /\ upload'[w] = Idle
        /\ upload[w].thumbId \in Ids \cup {NoId}
        /\ OneUpload(w) /\ sweep' = sweep
    BY <1>2, InsertFileWrites
  <2> QED
    BY <2>1, <2>2, InsertIsTree
<1>3. CASE C!Rollback(w)
  <2> DEFINE th == upload[w].thumbId
  <2>1. /\ HasThumb(w) /\ th \in Ids /\ sweep' = sweep /\ NothingNew
        /\ \/ docs' = docs
           \/ Owned(th, upload[w].user) /\ docs' = [docs EXCEPT ![th] = Gone]
    BY <1>3, RollbackWrites, SameKeeps, TreeTyped, EraseKeeps DEF Owned
  <2>2. UnbornIds' = UnbornIds
    BY <2>1, TreeTyped, SameKeeps, EraseKeeps, SameUnborn DEF Owned
  <2>3. disturbed' = disturbed
    BY <2>1, <2>2, NoOverlaps
  <2>4. CASE docs' = docs
    BY <2>1, <2>3, <2>4 DEF T!vars, Purging, Exists
  <2>5. CASE Owned(th, upload[w].user) /\ docs' = [docs EXCEPT ![th] = Gone]
    <3>1. Free(th, upload[w].user)
      BY <2>1 DEF ServerInv, Local, Thumbs
    <3>2. T!Exists(th) /\ docs[th].type = "thumbnail" /\ T!Unused(th)
      BY <2>5, <3>1 DEF Owned, Free, Exists, T!Exists, T!Unused
    <3>3. Purging' = Purging \ {th}
      BY <2>1, <2>5, TreeTyped DEF Purging, Exists, DocsTyped
    <3>4. T!TakenBack(th)
      BY <2>3, <2>5, <3>2, <3>3 DEF T!TakenBack, T!Erase
    <3> QED
      BY <2>1, <3>4 DEF T!Next, T!TrashStep
  <2> QED
    BY <2>1, <2>4, <2>5
<1>4. CASE QuietUpload(w) \/ C!StartUpload(w)
  BY <1>4, QuietUploadIsTree
<1> QED
  BY <1>1, <1>2, <1>3, <1>4 DEF QuietUpload, C!UploadStep

LEMMA ListIsTree ==
  ASSUME ServerInv, NEW s \in Sweeps, C!List(s),
         UNCHANGED <<task, movesRaced>>, disturbed' = disturbed \cup Overlaps
  PROVE  T!Next \/ UNCHANGED T!vars
<1> DEFINE u == sweep[s].user
<1>1. /\ sweep[s] # Idle /\ sweep[s].pc = "list" /\ sweep[s].ids = {}
      /\ docs' = docs /\ \A r \in Sweeps \ {s} : sweep'[r] = sweep[r]
  BY ListWrites
<1>2. UnbornIds' = UnbornIds
  BY <1>1 DEF UnbornIds
<1>3. CASE sweep'[s] = Idle
  <2>1. Overlaps = {}
    BY <1>1, <1>2, <1>3, NoOverlaps
  <2>2. Purging' = Purging
    BY <1>1, <1>3 DEF Purging, Exists
  <2> QED
    BY <1>1, <2>1, <2>2 DEF T!vars
<1>4. CASE sweep'[s] # Idle
  <2>1. sweep'[s].pc = "delete" /\ sweep'[s].ids = C!TrashedBy(u)
    BY <1>4, ListWrites
  <2>2. u \in Users
    BY <1>1, TreeTyped DEF C!SweepReq
  <2>3. sweep'[s] # sweep[s] /\ C!SweepAt(s, "list")
    BY <1>1, <2>1 DEF C!SweepAt
  <2>4. Overlaps = IF T!Busy(u) # {} THEN {u} ELSE {}
    BY <1>1, <1>2, <1>4, <2>2, <2>3 DEF Overlaps
  <2>5. T!TrashedBy(u) = C!TrashedBy(u)
    BY DEF T!TrashedBy, C!TrashedBy, T!Owned, C!Owned, T!Exists, C!Exists
  <2>6. C!TrashedBy(u) \subseteq {i \in Ids : Exists(i)}
    BY DEF C!TrashedBy, C!Owned, C!Exists, Exists
  <2>7. Purging' = Purging \cup T!TrashedBy(u)
    BY <1>1, <1>4, <2>1, <2>5, <2>6 DEF Purging, Exists
  <2>8. T!ListTrash(u)
    BY <1>1, <2>4, <2>7 DEF T!ListTrash, T!Disturb
  <2> QED
    BY <2>2, <2>8 DEF T!Next, T!TrashStep
<1> QED
  BY <1>3, <1>4

LEMMA DeleteIsTree ==
  ASSUME ServerInv, NEW s \in Sweeps, C!DeleteListed(s),
         UNCHANGED <<task, movesRaced>>, disturbed' = disturbed \cup Overlaps
  PROVE  T!Next \/ UNCHANGED T!vars
<1>1. /\ sweep[s] # Idle /\ sweep[s].pc = "delete"
      /\ \A r \in Sweeps \ {s} : sweep'[r] = sweep[r]
  BY DeleteWrites
<1>2. PICK i \in sweep[s].ids :
         /\ i \in Ids /\ sweep'[s].ids = sweep[s].ids \ {i}
         /\ \/ docs' = docs
            \/ Exists(i) /\ docs' = [docs EXCEPT ![i] = Gone]
  BY DeleteWrites
<1>3. UnbornIds' = UnbornIds
  BY <1>2, TreeTyped, SameKeeps, EraseKeeps, SameUnborn
<1>4. disturbed' = disturbed
  BY <1>1, <1>3, NoOverlaps DEF C!SweepAt
<1>5. sweep'[s] # Idle
  BY DeleteWrites
<1>6. CASE docs' = docs
  <2>1. Purging' \subseteq Purging
    BY <1>1, <1>2, <1>5, <1>6 DEF Purging, Exists
  <2> QED
    BY <1>4, <1>6, <2>1, NothingListed
<1>7. CASE Exists(i) /\ docs' = [docs EXCEPT ![i] = Gone]
  <2>1. i \in Purging
    BY <1>1, <1>2, <1>7 DEF Purging
  <2>2. Purging' = Purging \ {i}
    BY <1>1, <1>2, <1>5, <1>7, TreeTyped DEF Purging, Exists, DocsTyped
  <2>3. T!Purge(i)
    BY <1>4, <1>7, <2>1, <2>2 DEF T!Purge, T!Erase
  <2> QED
    BY <1>2, <2>3 DEF T!Next, T!TrashStep
<1> QED
  BY <1>2, <1>6, <1>7

LEMMA SweepIsTree ==
  ASSUME ServerInv, NEW s \in Sweeps,
         C!StartSweep(s) \/ C!SweepStep(s) \/ C!SweepCut(s),
         UNCHANGED <<task, movesRaced>>, disturbed' = disturbed \cup Overlaps
  PROVE  T!Next \/ UNCHANGED T!vars
<1>1. CASE QuietSweep(s)
  <2>1. OneSweep(s) /\ docs' = docs
    BY <1>1, SweepGoes
  <2>2. Overlaps = {}
    BY <2>1, NoOverlaps DEF OneSweep, UnbornIds, C!SweepAt
  <2>3. Purging' \subseteq Purging
    BY <2>1 DEF OneSweep, Purging, Exists
  <2> QED
    BY <2>1, <2>2, <2>3, NothingListed
<1> QED
  BY <1>1, ListIsTree, DeleteIsTree DEF QuietSweep, C!SweepStep

-----------------------------------------------------------------------------
(* The service                                                             *)

LEMMA UploadLocal ==
  ASSUME ServerInv, NEW w \in Uploads,
         \/ C!StartUpload(w) /\ EnoughIds'
         \/ C!UploadStep(w) \/ C!InsertFileFails(w) \/ C!UploadCut(w),
         UNCHANGED task, C!NoteRaces
  PROVE  Local'
<1>1. CASE C!StartUpload(w) /\ EnoughIds'
  BY <1>1, StartUploadLocal
<1>2. CASE C!UploadStep(w) \/ C!InsertFileFails(w) \/ C!UploadCut(w)
  BY <1>2, QuietUploadLocal, InsertThumbLocal, InsertFileLocal
     DEF C!UploadStep, QuietUpload
<1> QED
  BY <1>1, <1>2

LEMMA InitServer == Init => ServerInv
<1> SUFFICES ASSUME Init
             PROVE  ServerInv
  OBVIOUS
<1>1. CP!TypeOK
  BY CP!InitTypes, ContentsAssumptions, SameContentsActions DEF Init
<1>2. TP!TreeInv
  BY TP!InitTree, TreeAssumptions, SameTreeActions DEF Init
<1>3. /\ docs = Seeded /\ upload = [w \in Uploads |-> Idle]
      /\ sweep = [s \in Sweeps |-> Idle] /\ task = [t \in Tasks |-> NoTask]
  BY DEF Init, C!Init, T!Init
<1>4. Uploading /\ Sweeping /\ TasksPlaced
  BY <1>3 DEF Uploading, Spelt, Sweeping, TasksPlaced
<1>5. Thumbs
  <2>1. \A w \in Uploads : ~HasThumb(w)
    BY <1>3 DEF HasThumb
  <2>2. \A i \in Ids :
           (Exists(i) /\ docs[i].thumb # NoId) => docs[docs[i].thumb] # Unborn
    BY <1>3, SeedTreeAssumption DEF T!SoundSeeds, Exists
  <2> QED
    BY <2>1, <2>2 DEF Thumbs
<1>6. RacesNoted
  BY <1>3 DEF RacesNoted, C!Relied, C!Relies, C!Holds
<1>7. EnoughIds
  <2>1. C!Owing = {} /\ T!Creates = {}
    BY <1>3 DEF C!Owing, T!Creates
  <2> QED
    BY <2>1, FS_EmptySet, Finite, FS_CardinalityType DEF EnoughIds
<1> QED
  BY <1>1, <1>2, <1>4, <1>5, <1>6, <1>7 DEF ServerInv, Local

\* Every step of the service is a step of either half, and keeps what the
\* halves and the whole need.
LEMMA StepServer ==
  ServerInv /\ [Next]_vars =>
      /\ ServerInv'
      /\ C!Next \/ UNCHANGED C!vars
      /\ T!Next \/ UNCHANGED T!vars
<1> SUFFICES ASSUME ServerInv, [Next]_vars
             PROVE  /\ Local'
                    /\ C!Next \/ UNCHANGED C!vars
                    /\ T!Next \/ UNCHANGED T!vars
  BY ContentsTypes, TreeKept DEF ServerInv
<1>1. CASE UNCHANGED vars
  <2>1. /\ UNCHANGED C!vars /\ UNCHANGED T!vars
    BY <1>1 DEF vars, contentsVars, C!vars, T!vars, Purging, Exists
  <2>2. DocsTyped /\ DocsTyped' /\ Local /\ CP!TypeOK
    BY <1>1, TreeTyped DEF ServerInv, vars, DocsTyped
  <2>3. Keeps /\ NothingNew
    BY <1>1, SameKeeps DEF vars
  <2>4. Uploading' /\ Sweeping' /\ TasksPlaced'
    <3>1. Spelt'
      BY <1>1, <2>2 DEF Local, Uploading, Spelt, vars, contentsVars
    <3> QED
      BY <1>1, <2>2, <2>3, <3>1, UploadingKept, SameSweeping
         DEF Local, TasksPlaced, vars, contentsVars
  <2>5. Thumbs'
    BY <1>1, <2>2, <2>3, ThumbsKept
       DEF Local, NothingNew, HasThumb, vars, contentsVars
  <2>6. RacesNoted'
    BY <1>1, <2>2, RacesKept DEF Local, vars, contentsVars
  <2>7. EnoughIds'
    <3>1. C!Owing' = C!Owing /\ T!Creates' = T!Creates
      BY <1>1 DEF vars, contentsVars, C!Owing, T!Creates
    <3> QED
      BY <2>2, <2>3, <3>1, SameUnborn, EnoughKept DEF Local
  <2> QED
    BY <2>1, <2>4, <2>5, <2>6, <2>7 DEF Local
<1>2. ASSUME NEW t \in Tasks, TaskActs(t)
      PROVE  /\ Local'
             /\ C!Next \/ UNCHANGED C!vars
             /\ T!Next \/ UNCHANGED T!vars
  BY <1>2, TaskLocal, TaskEdits, TaskIsTask
<1>3. ASSUME NEW w \in Uploads,
             \/ C!StartUpload(w) /\ EnoughIds'
             \/ C!UploadStep(w) \/ C!InsertFileFails(w) \/ C!UploadCut(w),
             UNCHANGED <<task, movesRaced>>, C!NoteRaces,
             disturbed' = disturbed \cup Overlaps
      PROVE  /\ Local'
             /\ C!Next \/ UNCHANGED C!vars
             /\ T!Next \/ UNCHANGED T!vars
  <2>1. C!Next
    BY <1>3 DEF C!Next, C!Upload
  <2> QED
    BY <1>3, <2>1, UploadLocal, UploadIsTree
<1>4. ASSUME NEW s \in Sweeps,
             C!StartSweep(s) \/ C!SweepStep(s) \/ C!SweepCut(s),
             UNCHANGED <<task, movesRaced>>, C!NoteRaces,
             disturbed' = disturbed \cup Overlaps
      PROVE  /\ Local'
             /\ C!Next \/ UNCHANGED C!vars
             /\ T!Next \/ UNCHANGED T!vars
  <2>1. C!Next
    BY <1>4 DEF C!Next, C!Sweep
  <2>2. Local'
    BY <1>4, SweepLocal DEF C!SweepStep, QuietSweep
  <2> QED
    BY <1>4, <2>1, <2>2, SweepIsTree
<1> QED
  BY <1>1, <1>2, <1>3, <1>4 DEF Next, ContentsActs

\* The service keeps the types of Contents, the inductive invariant of Tree, and
\* what neither half can keep alone: folders checked once stay good parents,
\* an inserted thumbnail stays for its file, and ids never run out.
THEOREM ServerInvariant == Spec => []ServerInv
<1>1. ServerInv /\ [Next]_vars => ServerInv'
  BY StepServer
<1> QED
  BY InitServer, <1>1, PTL DEF Spec

\* The service implements Contents.
THEOREM ImplementsContents == Spec => ContentsSpec
<1>1. Init => C!Init
  BY DEF Init
<1>2. ServerInv /\ [Next]_vars => [C!Next]_C!vars
  BY StepServer
<1> QED
  BY ServerInvariant, <1>1, <1>2, PTL DEF Spec, ContentsSpec, C!Spec

\* The service implements Tree.
THEOREM ImplementsTree == Spec => TreeSpec
<1>1. Init => T!Init
  BY DEF Init
<1>2. ServerInv /\ [Next]_vars => [T!Next]_T!vars
  BY StepServer
<1> QED
  BY ServerInvariant, <1>1, <1>2, PTL DEF Spec, TreeSpec, T!Spec

\* What is proved of Contents is so of the service: a document's content is
\* there for as long as the document is, unless an upload relied on it while a
\* sweep was about to unlink it, and only a request cut short leaves an object
\* nobody will ever remove.
THEOREM ServiceKeepsContents == Spec => [](C!ContentKept /\ C!NoLeak)
<1>1. C!Init => CP!Init
  BY SameContentsActions
<1>2. [C!Next]_C!vars => [CP!Next]_CP!vars
  BY SameContentsNext, SameContentsActions
<1>3. CP!Spec => []CP!ContentKept
  BY CP!ContentIsKept, ContentsAssumptions
<1>4. CP!Spec => []CP!NoLeak
  BY CP!NothingLeaks, ContentsAssumptions
<1>5. CP!ContentKept /\ CP!NoLeak => C!ContentKept /\ C!NoLeak
  BY SameContentsActions
<1> QED
  BY ImplementsContents, <1>1, <1>2, <1>3, <1>4, <1>5, PTL
     DEF ContentsSpec, C!Spec, CP!Spec

LEMMA TreeSpecs == Spec => TP!Spec
<1>1. T!Init => TP!Init
  BY SameTreeActions
<1>2. [T!Next]_T!vars => [TP!Next]_TP!vars
  BY SameTreeNext, SameTreeActions
<1> QED
  BY ImplementsTree, <1>1, <1>2, PTL DEF TreeSpec, T!Spec, TP!Spec

\* What is proved of Tree is so of the service: parents are folders of the same
\* user, and only overlapping folder moves make a cycle.
THEOREM ServiceKeepsTree ==
  Spec => [](T!ParentIsOwnFolder /\ T!AcyclicUnlessRaced)
<1>1. TP!Spec => []TP!ParentIsOwnFolder
  BY TP!ParentsAreFolders, TreeAssumptions
<1>2. TP!Spec => []TP!AcyclicUnlessRaced
  BY TP!TreeStaysTree, TreeAssumptions
<1>3. TP!ParentIsOwnFolder /\ TP!AcyclicUnlessRaced
        => T!ParentIsOwnFolder /\ T!AcyclicUnlessRaced
  BY SameTreeActions
<1> QED
  BY TreeSpecs, <1>1, <1>2, <1>3, PTL

\* So are the promises to a user whose requests run one at a time and to their
\* end -- uploads and emptyings of the trash included.
THEOREM ServiceSerial ==
  Spec => [](T!SerialTreeSound /\ T!RestoreIsWhole /\ T!ThumbnailFollows)
<1>1. TP!Spec => []TP!SerialTreeSound
  BY TP!SerialTree, TreeAssumptions
<1>2. TP!Spec => []TP!RestoreIsWhole
  BY TP!RestoresAreWhole, TreeAssumptions
<1>3. TP!Spec => []TP!ThumbnailFollows
  BY TP!ThumbnailsFollow, TreeAssumptions
<1>4. TP!SerialTreeSound /\ TP!RestoreIsWhole /\ TP!ThumbnailFollows
        => T!SerialTreeSound /\ T!RestoreIsWhole /\ T!ThumbnailFollows
  BY SameTreeActions
<1> QED
  BY TreeSpecs, <1>1, <1>2, <1>3, <1>4, PTL

=============================================================================
