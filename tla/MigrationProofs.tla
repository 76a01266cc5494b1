-------------------------- MODULE MigrationProofs --------------------------
(***************************************************************************)
(* Proofs about Migration, for all sets of users, ids and contents and for *)
(* any legacy documents: what a run writes is what the document's MD5 was  *)
(* a name for, what can be read reads the same, and a run that counts no   *)
(* failure leaves nothing to migrate.                                      *)
(***************************************************************************)
EXTENDS Migration, TLAPS

-----------------------------------------------------------------------------
(* The inductive invariant                                                 *)

\* A document with an MD5 was there before the first run: its id is not one
\* the server gives out.
OldNames ==
    \A i \in Ids : (Exists(i) /\ docs[i].md5 # Null) => Legacy[i] # NoDoc

\* Past the check, the run has in hand a content that is its item's MD5, ...
HasItem ==
    /\ mig.item \in Doc /\ mig.item.md5 # Null /\ mig.data = mig.item.md5

\* ... and update_many writes only old documents of the same MD5 and user.
ForItem(i) ==
    /\ Legacy[i] # NoDoc
    /\ Exists(i) => /\ docs[i].md5 = mig.item.md5
                    /\ docs[i].user = mig.item.user

InHand ==
    mig # Idle =>
        /\ mig.pc # "next" => HasItem
        /\ mig.pc = "update" => /\ \A i \in mig.ids : ForItem(i)
                               /\ MyObject \in objects \cup raced

\* What is about to be unlinked is referred to only where it has raced.
DoomedUnused ==
    \A i \in Ids : (Exists(i) /\ <<docs[i].user, docs[i].hash>> \in doomed)
                      => <<docs[i].user, docs[i].hash>> \in raced

\* Where a migratable document is in a run that has counted no failure.
StillToDo(i) ==
    \/ <<i, docs[i]>> \in mig.todo
    \/ mig.pc = "update" /\ i \in mig.ids
    \/ /\ mig.pc \in {"store", "readBack"}
       /\ docs[i].md5 = mig.item.md5 /\ docs[i].user = mig.item.user

NothingForgotten ==
    (mig # Idle /\ ~mig.failed) => \A i \in Migratable : StillToDo(i)

EndIsDone ==
    exit \in {"zero", "skipped"} => mig = Idle /\ Migratable = {}

Promises ==
    /\ MigratedIsVerified /\ OldNames /\ InHand /\ DoomedUnused
    /\ NothingForgotten /\ EndIsDone

MigInv == TypeOK /\ Promises

-----------------------------------------------------------------------------
(* The markers are nothing else                                            *)

LEMMA Markers ==
    /\ Garbled \notin Contents /\ Null \notin Contents /\ Null # Garbled
    /\ NoDoc \notin Doc /\ Idle \notin Run
BY MarkerAssumption

\* A run stays a run when its fields change within their types.
LEMMA RunFields ==
    ASSUME NEW m \in Run
    PROVE  /\ m.pc \in {"next", "store", "readBack", "update"}
           /\ m.todo \in SUBSET (Ids \X Doc) /\ m.item \in Doc \cup {NoDoc}
           /\ m.data \in Contents \cup {Garbled} /\ m.ids \in SUBSET Ids
           /\ m.failed \in BOOLEAN /\ m.skipped \in BOOLEAN
BY DEF Run

-----------------------------------------------------------------------------
LEMMA InitInv == Init => MigInv
<1> SUFFICES ASSUME Init PROVE MigInv
  OBVIOUS
<1> USE Markers, LegacyAssumption DEF Init
<1>1. TypeOK
  BY DEF TypeOK, At
<1>2. MigratedIsVerified /\ OldNames
  BY DEF MigratedIsVerified, OldNames, Exists
<1>3. InHand /\ DoomedUnused /\ NothingForgotten /\ EndIsDone
  BY DEF InHand, DoomedUnused, NothingForgotten, EndIsDone
<1> QED
  BY <1>1, <1>2, <1>3 DEF MigInv, Promises

-----------------------------------------------------------------------------
(* The steps keep it                                                       *)

\* A run starts with every document that has no content.
LEMMA StartInv ==
    ASSUME MigInv, Start
    PROVE  MigInv'
<1> USE Markers DEF MigInv, Promises, Start, server
<1>1. TypeOK'
  BY DEF TypeOK, Exists, Run, At
<1>2. MigratedIsVerified' /\ OldNames' /\ DoomedUnused'
  BY DEF MigratedIsVerified, OldNames, DoomedUnused, Exists
<1>3. InHand'
  BY DEF InHand
<1>4. NothingForgotten' /\ EndIsDone'
  BY DEF NothingForgotten, StillToDo, Migratable, Exists, EndIsDone
<1> QED
  BY <1>1, <1>2, <1>3, <1>4

\* A document is taken off the list; one that is skipped is not migratable.
LEMMA TakeInv ==
    ASSUME MigInv, Take
    PROVE  MigInv'
<1> USE Markers DEF MigInv, Promises, Take, server
<1>1. ASSUME NEW x \in mig.todo, x[2].md5 # Null
     PROVE  /\ Skipped(x) \in Run
            /\ Verified(x[2]) =>
                 [mig EXCEPT !.pc = "store", !.todo = @ \ {x},
                             !.item = x[2], !.data = Fetched(x[2])] \in Run
  <2>1. mig \in Run /\ x[2] \in Doc /\ mig.todo \ {x} \subseteq Ids \X Doc
    BY <1>1 DEF TypeOK, At, Run
  <2>2. Skipped(x) \in Run
    BY <2>1 DEF Run, Skipped
  <2>3. ASSUME Verified(x[2]) PROVE Fetched(x[2]) \in Contents
    BY <1>1, <2>1, <2>3 DEF Verified, Doc
  <2> QED
    BY <2>1, <2>2, <2>3 DEF Run
<1>2. TypeOK'
  BY <1>1, ZenonT(40) DEF TypeOK, At, Skipped, Verified, Run
<1>3. MigratedIsVerified' /\ OldNames' /\ DoomedUnused'
  BY DEF MigratedIsVerified, OldNames, DoomedUnused, Exists
<1>4. InHand'
  BY DEF InHand, HasItem, At, Skipped, Verified, Run, TypeOK
<1>5. NothingForgotten' /\ EndIsDone'
  BY DEF NothingForgotten, StillToDo, Migratable, Fetched, Exists, At,
     Skipped, Verified, EndIsDone
<1> QED
  BY <1>1, <1>2, <1>3, <1>4, <1>5

\* A run that ends at an unwrap has promised nothing.
LEMMA PanicInv ==
    ASSUME MigInv, Panic
    PROVE  MigInv'
<1> USE Markers DEF MigInv, Promises, Panic, server
<1>1. TypeOK' /\ InHand'
  BY DEF TypeOK, InHand, At
<1>2. MigratedIsVerified' /\ OldNames' /\ DoomedUnused'
  BY DEF MigratedIsVerified, OldNames, DoomedUnused, Exists
<1>3. NothingForgotten' /\ EndIsDone'
  BY DEF NothingForgotten, EndIsDone
<1> QED
  BY <1>1, <1>2, <1>3

\* A failure is counted.
LEMMA FailInv ==
    ASSUME MigInv, Fail
    PROVE  MigInv'
<1> USE Markers DEF MigInv, Promises, Fail, server
<1>1. mig' \in Run /\ mig'.failed /\ mig'.pc = "next"
  <2>1. mig \in Run
    BY DEF TypeOK
  <2>2. CASE mig.pc = "next"
    <3>1. PICK x \in mig.todo :
            mig' = [mig EXCEPT !.todo = @ \ {x}, !.failed = TRUE]
      BY <2>2
    <3> QED
      BY <2>1, <2>2, <3>1, RunFields DEF Run
  <2>3. CASE mig.pc # "next"
    BY <2>1, <2>3, RunFields DEF Run
  <2> QED
    BY <2>2, <2>3
<1>2. TypeOK' /\ InHand'
  BY <1>1 DEF TypeOK, At, InHand
<1>3. MigratedIsVerified' /\ OldNames' /\ DoomedUnused'
  BY DEF MigratedIsVerified, OldNames, DoomedUnused, Exists
<1>4. NothingForgotten' /\ EndIsDone'
  BY <1>1 DEF NothingForgotten, EndIsDone
<1> QED
  BY <1>1, <1>2, <1>3, <1>4

\* What is stored takes nothing from what is there.
LEMMA StoreInv ==
    ASSUME MigInv, Store
    PROVE  MigInv'
<1> USE Markers DEF MigInv, Promises, Store
<1>1. mig' \in Run /\ MyObject \in Objects
  BY DEF TypeOK, At, InHand, HasItem, MyObject, Objects, Doc, Run
<1>2. TypeOK'
  BY <1>1 DEF TypeOK, At
<1>3. MigratedIsVerified' /\ OldNames' /\ DoomedUnused'
  BY DEF MigratedIsVerified, OldNames, DoomedUnused, Exists
<1>4. InHand'
  BY DEF InHand, HasItem, At
<1>5. NothingForgotten' /\ EndIsDone'
  BY DEF NothingForgotten, StillToDo, Migratable, Fetched, Exists, At,
     EndIsDone
<1> QED
  BY <1>1, <1>2, <1>3, <1>4, <1>5

\* The documents of the item's user and MD5 are to be updated.
LEMMA ReadBackInv ==
    ASSUME MigInv, ReadBack
    PROVE  MigInv'
<1> USE Markers DEF MigInv, Promises, ReadBack, server
<1>1. TypeOK'
  BY DEF TypeOK, At, Run, Updating, SameMd5
<1>2. MigratedIsVerified' /\ OldNames' /\ DoomedUnused'
  BY DEF MigratedIsVerified, OldNames, DoomedUnused, Exists
<1>3. InHand'
  BY DEF InHand, HasItem, ForItem, At, MyObject, SameMd5, OldNames
<1>4. NothingForgotten' /\ EndIsDone'
  BY DEF NothingForgotten, StillToDo, Migratable, Fetched, Exists, At,
     EndIsDone, Updating, SameMd5
<1> QED
  BY <1>1, <1>2, <1>3, <1>4

\* A document gets the content whose name it had.
LEMMA UpdateInv ==
    ASSUME MigInv, Update
    PROVE  MigInv'
<1> USE Markers DEF MigInv, Promises, Update
<1>1. mig' \in Run /\ (At("update") => mig.ids # {})'
  BY RunFields DEF TypeOK, At, Run, Updating
<1>2. docs' \in [Ids -> Doc \cup {NoDoc}]
  BY RunFields DEF TypeOK, At, Exists, Doc
<1>3. TypeOK'
  BY <1>1, <1>2 DEF TypeOK
<1>4. MigratedIsVerified' /\ OldNames'
  BY DEF MigratedIsVerified, OldNames, Exists, InHand, HasItem, ForItem, At
<1>5. InHand'
  BY DEF InHand, HasItem, ForItem, At, Exists, MyObject, Refer
<1>6. DoomedUnused'
  BY DEF DoomedUnused, MyObject, Refer, Exists, InHand, ForItem, At
<1>7. NothingForgotten' /\ EndIsDone'
  BY DEF NothingForgotten, StillToDo, Migratable, Fetched, TypeOK, Exists,
     At, InHand, HasItem, EndIsDone, Updating
<1> QED
  BY <1>1, <1>2, <1>3, <1>4, <1>5, <1>6, <1>7

\* A run ends with an empty list.
LEMMA EndInv ==
    ASSUME MigInv, End
    PROVE  MigInv'
<1> USE Markers DEF MigInv, Promises, End, server
<1>1. TypeOK' /\ InHand'
  BY DEF TypeOK, InHand, At
<1>2. MigratedIsVerified' /\ OldNames' /\ DoomedUnused'
  BY DEF MigratedIsVerified, OldNames, DoomedUnused, Exists
<1>3. NothingForgotten' /\ EndIsDone'
  BY DEF EndIsDone, At, NothingForgotten, StillToDo, Migratable, Fetched,
     Exists
<1> QED
  BY <1>1, <1>2, <1>3

\* A run that is killed has ended in no way.
LEMMA KillInv ==
    ASSUME MigInv, Kill
    PROVE  MigInv'
<1> USE Markers DEF MigInv, Promises, Kill, server
<1>1. TypeOK' /\ InHand'
  BY DEF TypeOK, InHand, At
<1>2. MigratedIsVerified' /\ OldNames' /\ DoomedUnused'
  BY DEF MigratedIsVerified, OldNames, DoomedUnused, Exists
<1>3. NothingForgotten' /\ EndIsDone'
  BY DEF EndIsDone, At, NothingForgotten
<1> QED
  BY <1>1, <1>2, <1>3

\* An upload refers to the object it has stored.
LEMMA UploadInv ==
    ASSUME NEW i \in Ids, MigInv, Upload(i)
    PROVE  MigInv'
<1> USE Markers DEF MigInv, Promises, Upload
<1>1. TypeOK'
  BY DEF TypeOK, Exists, Doc, At, Objects
<1>2. MigratedIsVerified' /\ OldNames' /\ DoomedUnused'
  BY DEF MigratedIsVerified, OldNames, DoomedUnused, Exists, Refer
<1>3. InHand'
  BY DEF InHand, HasItem, ForItem, Exists, MyObject, Refer
<1>4. NothingForgotten' /\ EndIsDone'
  BY DEF EndIsDone, NothingForgotten, StillToDo, Migratable, Fetched, Exists
<1> QED
  BY <1>1, <1>2, <1>3, <1>4

\* A folder refers to nothing.
LEMMA NewFolderInv ==
    ASSUME NEW i \in Ids, MigInv, NewFolder(i)
    PROVE  MigInv'
<1> USE Markers DEF MigInv, Promises, NewFolder
<1>1. TypeOK'
  BY DEF TypeOK, Exists, Doc, At, Objects
<1>2. MigratedIsVerified' /\ OldNames' /\ DoomedUnused'
  BY DEF MigratedIsVerified, OldNames, DoomedUnused, Exists, TypeOK, Objects
<1>3. InHand'
  BY DEF InHand, HasItem, ForItem, Exists, MyObject
<1>4. NothingForgotten' /\ EndIsDone'
  BY DEF EndIsDone, NothingForgotten, StillToDo, Migratable, Fetched, Exists
<1> QED
  BY <1>1, <1>2, <1>3, <1>4

\* What is deleted is not to be migrated any more.
LEMMA PurgeInv ==
    ASSUME NEW i \in Ids, MigInv, Purge(i)
    PROVE  MigInv'
<1> USE Markers DEF MigInv, Promises, Purge
<1>1. TypeOK'
  BY DEF TypeOK, Exists, Doc, At, Objects
<1>2. MigratedIsVerified' /\ OldNames' /\ DoomedUnused'
  BY DEF MigratedIsVerified, OldNames, DoomedUnused, Exists
<1>3. InHand'
  BY DEF InHand, HasItem, ForItem, Exists, MyObject
<1>4. NothingForgotten' /\ EndIsDone'
  BY DEF EndIsDone, NothingForgotten, StillToDo, Migratable, Fetched, Exists
<1> QED
  BY <1>1, <1>2, <1>3, <1>4

\* What is found without a reference has none.
LEMMA CountInv ==
    ASSUME NEW o \in Objects, MigInv, Count(o)
    PROVE  MigInv'
<1> USE Markers DEF MigInv, Promises, Count
<1>1. TypeOK'
  BY DEF TypeOK, At
<1>2. MigratedIsVerified' /\ OldNames' /\ DoomedUnused'
  BY DEF MigratedIsVerified, OldNames, DoomedUnused, Exists, Referring
<1>3. InHand'
  BY DEF InHand, HasItem, ForItem, At, MyObject, Exists
<1>4. NothingForgotten' /\ EndIsDone'
  BY DEF EndIsDone, NothingForgotten, StillToDo, Migratable, Fetched, Exists
<1> QED
  BY <1>1, <1>2, <1>3, <1>4

\* An object that a run is about to refer to is unlinked: that is a race.
LEMMA UnlinkInv ==
    ASSUME NEW o \in Objects, MigInv, Unlink(o)
    PROVE  MigInv'
<1> USE Markers DEF MigInv, Promises, Unlink
<1>1. TypeOK'
  BY DEF TypeOK, At
<1>2. MigratedIsVerified' /\ OldNames' /\ DoomedUnused'
  BY DEF MigratedIsVerified, OldNames, DoomedUnused, Exists, Referring
<1>3. InHand'
  BY DEF InHand, HasItem, ForItem, At, MyObject, Exists
<1>4. NothingForgotten' /\ EndIsDone'
  BY DEF EndIsDone, NothingForgotten, StillToDo, Migratable, Fetched, Exists
<1> QED
  BY <1>1, <1>2, <1>3, <1>4

LEMMA StepInv == MigInv /\ [Next]_vars => MigInv'
<1> SUFFICES ASSUME MigInv, [Next]_vars PROVE MigInv'
  OBVIOUS
<1>1. CASE Migrate \/ Kill
  BY <1>1, StartInv, TakeInv, PanicInv, FailInv, StoreInv, ReadBackInv,
     UpdateInv, EndInv, KillInv DEF Migrate
<1>2. ASSUME NEW i \in Ids, Upload(i) \/ NewFolder(i) \/ Purge(i)
      PROVE  MigInv'
  BY <1>2, UploadInv, NewFolderInv, PurgeInv
<1>3. ASSUME NEW o \in Objects, Count(o) \/ Unlink(o)
      PROVE  MigInv'
  BY <1>3, CountInv, UnlinkInv
<1>4. CASE UNCHANGED vars
  BY <1>4 DEF vars, MigInv, Promises, TypeOK, At, MigratedIsVerified,
     OldNames, InHand, HasItem, ForItem, MyObject, DoomedUnused,
     NothingForgotten, StillToDo, Migratable, Fetched, EndIsDone, Exists
<1> QED
  BY <1>1, <1>2, <1>3, <1>4 DEF Next

\* Every reachable state satisfies the invariant.
THEOREM MigrationInvariant == Spec => []MigInv
<1>1. Init => MigInv
  BY InitInv
<1>2. MigInv /\ [Next]_vars => MigInv'
  BY StepInv
<1> QED
  BY <1>1, <1>2, PTL DEF Spec

-----------------------------------------------------------------------------
(* The theorems                                                            *)

\* Every reachable state is well typed (migrate_storage_v1:42-117).
THEOREM MigrationTypeCorrect == Spec => []TypeOK
<1>1. MigInv => TypeOK
  BY DEF MigInv
<1> QED
  BY <1>1, MigrationInvariant, PTL

\* A migrated document has the content its MD5 was a name for, whatever legacy
\* objects are torn or do not fit (migrate_storage_v1:55-62).
THEOREM WhatIsMigratedIsVerified == Spec => []MigratedIsVerified
<1>1. MigInv => MigratedIsVerified
  BY DEF MigInv, Promises
<1> QED
  BY <1>1, MigrationInvariant, PTL

\* A run that ends by itself without a failure leaves nothing to migrate
\* (migrate_storage_v1:42-117).
THEOREM MigrationIsComplete == Spec => []DoneIsDone
<1>1. MigInv => DoneIsDone
  BY DEF MigInv, Promises, EndIsDone, DoneIsDone
<1> QED
  BY <1>1, MigrationInvariant, PTL

\* The formula of ReadsTheSame for one document.
SameUnlessRaced(i) ==
    (Exists(i) /\ Exists(i)' /\ Reads(i) # Null)
        => \/ Reads(i)' = Reads(i)
           \/ <<docs[i].user, docs[i].hash>>' \in raced'

\* Where a document, the legacy objects and the new ones stay, it reads the
\* same; more objects do not change what could be read.
LEMMA SameRead ==
    ASSUME NEW i \in Ids, legacy' = legacy, docs'[i] = docs[i],
           objects \subseteq objects'
    PROVE  SameUnlessRaced(i)
BY DEF SameUnlessRaced, Reads, Exists, Fetched

\* The one document an update writes: its legacy object, if it could be read,
\* has the content that is written for it.
LEMMA UpdateSame ==
    ASSUME NEW i \in Ids, MigInv, Update
    PROVE  SameUnlessRaced(i)
<1> USE Markers DEF MigInv, Promises, Update
<1>1. PICK j \in mig.ids :
        docs' = IF Exists(j) THEN [docs EXCEPT ![j].hash = mig.data]
                             ELSE docs
  BY DEF Update
<1>2. CASE ~Exists(j) \/ i # j
  BY <1>1, <1>2, SameRead
<1>3. CASE Exists(j) /\ i = j
  <2>1. /\ mig.data = docs[i].md5 /\ docs[i].md5 \in Contents
        /\ <<docs[i].user, mig.data>> \in objects \cup raced
    BY <1>1, <1>3 DEF InHand, At, HasItem, ForItem, MyObject, Doc
  <2>2. docs'[i] = [docs[i] EXCEPT !.hash = mig.data] /\ docs[i] \in Doc
    BY <1>1, <1>3 DEF TypeOK, Exists
  <2>3. /\ docs'[i].user = docs[i].user /\ docs'[i].hash = mig.data
    BY <2>2 DEF Doc
  <2>4. raced \subseteq raced' /\ objects' = objects
    BY DEF Refer
  <2>5. docs[i].hash # Null => docs[i].hash = mig.data
    BY <2>1, <1>3 DEF MigratedIsVerified
  <2> QED
    BY <2>1, <2>3, <2>4, <2>5 DEF SameUnlessRaced, Reads
<1> QED
  BY <1>2, <1>3

\* No step of the migration or of the server changes what a document that can
\* be read yields, unless its content was being swept away
\* (migrate_storage_v1:49-107).
THEOREM MigrationKeepsReads == Spec => ReadsTheSame
<1>1. ASSUME MigInv, [Next]_vars, NEW i \in Ids PROVE SameUnlessRaced(i)
  <2> USE <1>1
  <2>1. CASE Update
    BY <2>1, UpdateSame
  <2>2. CASE (Migrate /\ ~Update) \/ Kill \/ UNCHANGED vars
    BY <2>2, SameRead DEF Migrate, Start, Take, Panic, Fail, Store, ReadBack,
       End, Kill, vars, server
  <2>3. ASSUME NEW j \in Ids, Upload(j) \/ NewFolder(j) \/ Purge(j)
        PROVE  SameUnlessRaced(i)
    <3>1. CASE i # j
      BY <2>3, <3>1, SameRead DEF Upload, NewFolder, Purge, MigInv, TypeOK
    <3>2. CASE i = j
      BY <2>3, <3>2 DEF SameUnlessRaced, Exists, Upload, NewFolder, Purge,
         MigInv, TypeOK
    <3> QED
      BY <3>1, <3>2
  <2>4. ASSUME NEW o \in Objects, Count(o) PROVE SameUnlessRaced(i)
    BY <2>4, SameRead DEF Count
  <2>5. ASSUME NEW o \in Objects, Unlink(o) PROVE SameUnlessRaced(i)
    <3>1. CASE o = <<docs[i].user, docs[i].hash>> /\ Exists(i)
      BY <2>5, <3>1 DEF Unlink, MigInv, Promises, DoomedUnused,
         SameUnlessRaced
    <3>2. CASE ~(o = <<docs[i].user, docs[i].hash>> /\ Exists(i))
      BY <2>5, <3>2 DEF Unlink, SameUnlessRaced, Reads, Fetched
    <3> QED
      BY <3>1, <3>2
  <2> QED
    BY <2>1, <2>2, <2>3, <2>4, <2>5 DEF Next
<1>2. MigInv /\ [Next]_vars
        => [\A i \in Ids : SameUnlessRaced(i)]_vars
  BY <1>1
<1>3. (\A i \in Ids : SameUnlessRaced(i)) =>
        \A i \in Ids :
          (Exists(i) /\ Exists(i)' /\ Reads(i) # Null)
              => \/ Reads(i)' = Reads(i)
                 \/ <<docs[i].user, docs[i].hash>>' \in raced'
  BY DEF SameUnlessRaced
<1> QED
  BY <1>2, <1>3, MigrationInvariant, PTL DEF Spec, ReadsTheSame
=============================================================================
