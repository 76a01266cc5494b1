----------------------------- MODULE Migration -----------------------------
(***************************************************************************)
(* The migration of legacy files, bin/migrate_storage_v1 --apply, beside   *)
(* a running server: for each document found without a content hash it     *)
(* reads the legacy object, checks it, stores it as an object of its       *)
(* owner, reads that back and gives its hash to all of the owner's         *)
(* documents with the same MD5, one document per step.                     *)
(*                                                                         *)
(* A content, its MD5 and its SHA-256 are one model value.  A legacy       *)
(* object has the MD5 for its name and is shared by all users; it decrypts *)
(* with the iv of the documents that fit it.                               *)
(***************************************************************************)
EXTENDS Naturals

CONSTANTS
    Users, Ids, Contents,
    Null,       \* no MD5Hash or no contentHash
    Garbled,    \* what an object yields that is torn or has another iv
    NoDoc,      \* docs[i] of an id not given out, or deleted
    Idle,       \* no migration running
    Legacy,     \* the legacy documents a run starts with
    MaxRuns     \* BOUND: runs of the migration

VARIABLES
    docs,       \* id -> document or NoDoc
    legacy,     \* MD5 -> state of the legacy object; nobody ever writes it
    objects,    \* <<user, content hash>> pairs whose object is there
    counting,   \* of those, the ones an emptying of the trash has yet to count
    doomed,     \* and the ones it has counted, without any reference
    mig,        \* the run in progress, or Idle
    runs,       \* runs so far
    exit,       \* history: how the last run ended; "zero" is its exit code,
                \* "failed" and "skipped" are exit code 1
    raced       \* history: pairs that came to be referred to between a
                \* sweep's count and its unlink, or were unlinked between the
                \* migration's read_all and its update

vars == <<docs, legacy, objects, counting, doomed, mig, runs, exit, raced>>

server == <<docs, objects, counting, doomed, raced>>

Doc == [user : Users,
        md5 : Contents \cup {Null},
        fits : BOOLEAN,         \* its iv is the one of the legacy object
        hash : Contents \cup {Garbled, Null}]

Objects == Users \X (Contents \cup {Garbled})

Run == [pc : {"next", "store", "readBack", "update"},
        todo : SUBSET (Ids \X Doc),     \* legacy_items, still to be seen
        item : Doc \cup {NoDoc},
        data : Contents \cup {Garbled},
        ids : SUBSET Ids,               \* of update_many, not yet written
        failed : BOOLEAN,               \* failed > 0
        skipped : BOOLEAN]              \* corrupted > 0 || missing > 0

ASSUME MarkerAssumption ==
    /\ Garbled \notin Contents /\ Null \notin Contents \cup {Garbled}
    /\ NoDoc \notin Doc /\ Idle \notin Run

ASSUME LegacyAssumption ==
    /\ Legacy \in [Ids -> Doc \cup {NoDoc}]
    /\ \A i \in Ids : Legacy[i] # NoDoc =>
          Legacy[i].md5 # Null /\ Legacy[i].hash = Null

Exists(i) == docs[i] # NoDoc

At(pc) == mig # Idle /\ mig.pc = pc

Referring(o) == {i \in Ids : Exists(i) /\ <<docs[i].user, docs[i].hash>> = o}

\* LegacyReader::fetch of an object that is there
Fetched(d) == IF legacy[d.md5] = "good" /\ d.fits THEN d.md5 ELSE Garbled

\* a reference to o comes into being
Refer(o) == raced' = raced \cup ({o} \cap doomed)

-----------------------------------------------------------------------------
(* The migration                                                           *)

\* {contentHash: {$exists: false}, MD5Hash: {$exists: true}}: a document that
\* the server inserts has an MD5Hash, null, so that this finds its folders too
Start ==
    /\ mig = Idle /\ runs < MaxRuns
    /\ mig' = [pc |-> "next",
               todo |-> {<<i, docs[i]>> : i \in {j \in Ids :
                            Exists(j) /\ docs[j].hash = Null}},
               item |-> NoDoc, data |-> Garbled, ids |-> {}, failed |-> FALSE,
               skipped |-> FALSE]
    /\ runs' = runs + 1
    /\ exit' = "none"
    /\ UNCHANGED <<server, legacy>>

\* mutation of Skipped: an object that cannot be migrated ends the loop
SkippedRest(x) == [mig EXCEPT !.todo = {}, !.skipped = TRUE]

Skipped(x) == [mig EXCEPT !.todo = @ \ {x}, !.skipped = TRUE]

\* mutation of Verified: whatever was fetched will do
VerifiedNot(d) == TRUE

Verified(d) == Fetched(d) = d.md5

\* In any order, for the query has none: the legacy object is fetched and
\* its MD5 compared; corrupted and missing ones are counted and left alone
Take ==
    /\ At("next")
    /\ \E x \in mig.todo :
          /\ x[2].md5 # Null
          /\ mig' = IF legacy[x[2].md5] # "missing" /\ Verified(x[2])
                    THEN [mig EXCEPT !.pc = "store", !.todo = @ \ {x},
                                     !.item = x[2], !.data = Fetched(x[2])]
                    ELSE Skipped(x)
    /\ UNCHANGED <<server, legacy, runs, exit>>

\* item.md5_hash.unwrap()
Panic ==
    /\ At("next")
    /\ \E x \in mig.todo : x[2].md5 = Null
    /\ mig' = Idle /\ exit' = "panic"
    /\ UNCHANGED <<server, legacy, runs>>

\* fetch, store_from_file, read_all or update_many_by_md5 fails
Fail ==
    /\ mig # Idle
    /\ \/ /\ mig.pc = "next"
          /\ \E x \in mig.todo :
                /\ x[2].md5 # Null
                /\ mig' = [mig EXCEPT !.todo = @ \ {x}, !.failed = TRUE]
       \/ /\ mig.pc # "next"
          /\ mig' = [mig EXCEPT !.pc = "next", !.ids = {}, !.failed = TRUE]
    /\ UNCHANGED <<server, legacy, runs, exit>>

MyObject == <<mig.item.user, mig.data>>

Store ==
    /\ At("store")
    /\ objects' = objects \cup {MyObject}
    /\ mig' = [mig EXCEPT !.pc = "readBack"]
    /\ UNCHANGED <<docs, legacy, counting, doomed, runs, exit, raced>>

\* mutation of SameMd5: of all users
SameMd5OfAll(d) == {i \in Ids : Exists(i) /\ docs[i].md5 = d.md5}

\* the query of update_many_by_md5
SameMd5(d) ==
    {i \in Ids : Exists(i) /\ docs[i].md5 = d.md5 /\ docs[i].user = d.user}

\* mutation of Updating: the end of update_many is not noticed
UpdatingStill(ids) == "update"

Updating(ids) == IF ids = {} THEN "next" ELSE "update"

ReadBack ==
    /\ At("readBack")
    /\ MyObject \in objects
    /\ mig' = [mig EXCEPT !.ids = SameMd5(mig.item),
                          !.pc = Updating(SameMd5(mig.item))]
    /\ UNCHANGED <<server, legacy, runs, exit>>

Update ==
    /\ At("update")
    /\ \E i \in mig.ids :
          /\ docs' = IF Exists(i) THEN [docs EXCEPT ![i].hash = mig.data]
                                  ELSE docs
          /\ mig' = [mig EXCEPT !.ids = @ \ {i},
                                !.pc = Updating(mig.ids \ {i})]
          /\ IF Exists(i) THEN Refer(MyObject) ELSE UNCHANGED raced
    /\ UNCHANGED <<legacy, objects, counting, doomed, runs, exit>>

End ==
    /\ At("next") /\ mig.todo = {}
    /\ mig' = Idle
    /\ exit' = CASE mig.failed -> "failed"
                 [] mig.skipped /\ ~mig.failed -> "skipped"
                 [] OTHER -> "zero"
    /\ UNCHANGED <<server, legacy, runs>>

\* it is killed, or has no room for a temporary file
Kill ==
    /\ mig # Idle
    /\ mig' = Idle
    /\ UNCHANGED <<server, legacy, runs, exit>>

-----------------------------------------------------------------------------
(* What the server does meanwhile                                          *)

Upload(i) ==
    /\ docs[i] = NoDoc /\ Legacy[i] = NoDoc
    /\ \E u \in Users, c \in Contents :
          /\ docs' = [docs EXCEPT ![i] = [user |-> u, md5 |-> Null,
                                          fits |-> FALSE, hash |-> c]]
          /\ objects' = objects \cup {<<u, c>>}
          /\ Refer(<<u, c>>)
    /\ UNCHANGED <<legacy, counting, doomed, mig, runs, exit>>

NewFolder(i) ==
    /\ docs[i] = NoDoc /\ Legacy[i] = NoDoc
    /\ \E u \in Users :
          docs' = [docs EXCEPT ![i] = [user |-> u, md5 |-> Null,
                                       fits |-> FALSE, hash |-> Null]]
    /\ UNCHANGED <<legacy, objects, counting, doomed, mig, runs, exit, raced>>

\* an emptying of the trash deletes a document it has listed and goes on to
\* its content, unless it has none of the new kind
Purge(i) ==
    /\ Exists(i)
    /\ docs' = [docs EXCEPT ![i] = NoDoc]
    /\ counting' = counting \cup
          (IF docs[i].hash = Null THEN {} ELSE {<<docs[i].user, docs[i].hash>>})
    /\ UNCHANGED <<legacy, objects, doomed, mig, runs, exit, raced>>

Count(o) ==
    /\ o \in counting
    /\ counting' = counting \ {o}
    /\ doomed' = IF Referring(o) = {} THEN doomed \cup {o} ELSE doomed
    /\ UNCHANGED <<docs, legacy, objects, mig, runs, exit, raced>>

Unlink(o) ==
    /\ o \in doomed
    /\ objects' = objects \ {o}
    /\ doomed' = doomed \ {o}
    /\ raced' = IF At("update") /\ MyObject = o THEN raced \cup {o} ELSE raced
    /\ UNCHANGED <<docs, legacy, counting, mig, runs, exit>>

-----------------------------------------------------------------------------
Init ==
    /\ docs = Legacy
    /\ legacy \in [Contents -> {"good", "torn", "missing"}]
    /\ objects = {} /\ counting = {} /\ doomed = {}
    /\ mig = Idle /\ runs = 0
    /\ exit = "none" /\ raced = {}

Migrate == Start \/ Take \/ Panic \/ Fail \/ Store \/ ReadBack \/ Update \/ End

Next ==
    \/ Migrate \/ Kill
    \/ \E i \in Ids : Upload(i) \/ NewFolder(i) \/ Purge(i)
    \/ \E o \in Objects : Count(o) \/ Unlink(o)

Spec == Init /\ [][Next]_vars

-----------------------------------------------------------------------------
(* Properties                                                              *)

\* Every variable has its type, and an update that is under way has something
\* left to write.
TypeOK ==
    /\ docs \in [Ids -> Doc \cup {NoDoc}]
    /\ legacy \in [Contents -> {"good", "torn", "missing"}]
    /\ objects \subseteq Objects
    /\ counting \subseteq Objects /\ doomed \subseteq Objects
    /\ mig \in Run \cup {Idle}
    /\ At("update") => mig.ids # {}

\* stream_file_content: the content of the new kind where there is one, else
\* the legacy object if it is the one its name says
Reads(i) ==
    LET d == docs[i] IN
    CASE d.hash # Null ->
            IF <<d.user, d.hash>> \in objects THEN d.hash ELSE Null
      [] d.hash = Null /\ d.md5 # Null ->
            IF legacy[d.md5] # "missing" /\ Fetched(d) = d.md5 THEN d.md5
                                                               ELSE Null
      [] OTHER -> Null

\* Whatever the migration does and wherever it is killed, a document that can
\* be read reads the same until it is deleted -- unless its content was being
\* swept away when it came to be referred to (migrate_storage_v1:49-107).
ReadsTheSame ==
    [][\A i \in Ids :
          (Exists(i) /\ Exists(i)' /\ Reads(i) # Null)
              => \/ Reads(i)' = Reads(i)
                 \/ <<docs[i].user, docs[i].hash>>' \in raced']_vars

\* What could not be read is made readable only as the content its document
\* has been a name for: a torn object, one that an iv does not fit, is
\* never stored for it (migrate_storage_v1:55-62).
MigratedIsVerified ==
    \A i \in Ids :
        (Exists(i) /\ docs[i].md5 # Null /\ docs[i].hash # Null)
            => docs[i].hash = docs[i].md5

\* what a dry run counts as migratable
Migratable ==
    {i \in Ids : /\ Exists(i) /\ docs[i].hash = Null /\ docs[i].md5 # Null
                 /\ legacy[docs[i].md5] # "missing"
                 /\ Fetched(docs[i]) = docs[i].md5}

\* A run that ends by itself and counts no failure, only objects that are
\* corrupted or missing, leaves nothing that another would migrate, whatever
\* was uploaded, deleted and swept meanwhile and however many documents share
\* one object (migrate_storage_v1:42-117).
DoneIsDone == exit \in {"zero", "skipped"} => Migratable = {}

\* What the plan says of an apply and of the dry run after it: a run that is
\* not killed gets through its list, exits zero unless it has counted a
\* failure, and then nothing is migratable.
ApplyExitsZero == exit # "panic" /\ (exit = "zero" => Migratable = {})
=============================================================================
