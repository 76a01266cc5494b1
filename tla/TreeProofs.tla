----------------------------- MODULE TreeProofs -----------------------------
(***************************************************************************)
(* What holds of Tree for every set of users, documents and concurrent     *)
(* requests.                                                               *)
(***************************************************************************)
EXTENDS Tree, TLAPS

-----------------------------------------------------------------------------
(* Types                                                                   *)

\* a request whose record fits the place its handler has reached
Fits(q) ==
    /\ q \in Request
    /\ q.pc \in {"walk", "path"} <=> q.cur # NoId
    /\ q.pc = "update" => q.ids # {}
    /\ q.op \notin {"create", "restoreBatch", "restoreAll"} => q.item # NoId

FitsOrNone(q) == q = NoTask \/ Fits(q)

DocsTyped == docs \in [Ids -> Doc \cup {Unborn, Gone}]

OtherTypes == /\ purging \subseteq {i \in Ids : Exists(i)}
              /\ movesRaced \subseteq Users /\ disturbed \subseteq Users

LEMMA TypeParts ==
  TypeOK <=> /\ DocsTyped /\ OtherTypes
             /\ task \in [Tasks -> Request \cup {NoTask}]
             /\ \A t \in Tasks : FitsOrNone(task[t])
  BY TaskAssumption DEF TypeOK, DocsTyped, OtherTypes, FitsOrNone, Fits

\* A step that changes one request keeps all of them fitting.
LEMMA TaskTypes ==
  ASSUME TypeOK, NEW t \in Tasks, NEW r, FitsOrNone(r),
         task' = [task EXCEPT ![t] = r], DocsTyped', OtherTypes'
  PROVE  TypeOK'
<1>1. /\ task \in [Tasks -> Request \cup {NoTask}]
      /\ \A s \in Tasks : FitsOrNone(task[s])
  BY TypeParts
<1>2. r \in Request \cup {NoTask}
  BY DEF FitsOrNone, Fits
<1>3. task' \in [Tasks -> Request \cup {NoTask}]
  BY <1>1, <1>2
<1>4. \A s \in Tasks : FitsOrNone(task'[s])
  BY <1>1
<1>5. (\A s \in Tasks : FitsOrNone(task[s]))'
  BY <1>4 DEF FitsOrNone, Fits
<1>6. task' \in [Tasks -> Request \cup {NoTask}] /\ DocsTyped' /\ OtherTypes'
  BY <1>3
<1> QED
  BY <1>5, <1>6, TaskAssumption
     DEF TypeOK, DocsTyped, OtherTypes, FitsOrNone, Fits

\* Steps that write no document.
LEMMA QuietTypes ==
  ASSUME TypeOK, NEW t \in Tasks, NEW r, FitsOrNone(r),
         task' = [task EXCEPT ![t] = r], OnlyTask
  PROVE  TypeOK'
<1>1. DocsTyped' /\ OtherTypes'
  BY TypeParts DEF DocsTyped, OtherTypes, OnlyTask, Exists
<1> QED
  BY <1>1, TaskTypes

LEMMA AnswerTypes ==
  ASSUME TypeOK, NEW t \in Tasks, AnswerTask(t), OnlyTask
  PROVE  TypeOK'
  BY QuietTypes DEF AnswerTask, FitsOrNone

LEMMA GotoTypes ==
  ASSUME TypeOK, NEW t \in Tasks, task[t] # NoTask, NEW pc \in PCs,
         task[t].cur = NoId, pc \notin {"walk", "path", "update"},
         Goto(t, pc), OnlyTask
  PROVE  TypeOK'
<1> DEFINE r == [task[t] EXCEPT !.pc = pc]
<1>1. Fits(task[t])
  BY TypeParts DEF FitsOrNone
<1>2. Fits(r)
  BY <1>1, ZenonT(40)
     DEF Fits, Request, PCs, AllOps
<1>3. task' = [task EXCEPT ![t] = r]
  BY DEF Goto
<1> QED
  BY <1>2, <1>3, QuietTypes DEF FitsOrNone

\* The steps of create, move, rename, path and of the checks before a restore.
LEMMA WalkTypes ==
  ASSUME TypeOK, NEW t \in Tasks,
         \/ Validate(t) \/ Look(t) \/ LoadMove(t) \/ ValidateTarget(t)
         \/ Walk(t) \/ CheckParent(t) \/ LoadPath(t) \/ PathUp(t) \/ Reread(t)
  PROVE  TypeOK'
<1> DEFINE q == task[t]
<1>1. CASE AnswerTask(t) /\ OnlyTask
  BY <1>1, AnswerTypes
<1>2. q # NoTask
  BY DEF Validate, Look, LoadMove, ValidateTarget, Walk, CheckParent,
         LoadPath, PathUp, Reread, TaskAt
<1>3. Fits(q) /\ q \in Request
  BY <1>2, TypeParts DEF FitsOrNone, Fits
<1>4. DocsTyped
  BY TypeParts
<1>5. CASE Validate(t) /\ ~AnswerTask(t)
  BY <1>3, <1>5, GotoTypes DEF Validate, TaskAt, PCs, Fits
<1>6. CASE Look(t) /\ ~AnswerTask(t)
  BY <1>3, <1>6, GotoTypes DEF Look, TaskAt, PCs, Fits
<1>7. CASE CheckParent(t) /\ ~AnswerTask(t)
  BY <1>3, <1>7, GotoTypes DEF CheckParent, TaskAt, PCs, Fits
<1>8. CASE LoadMove(t) /\ ~AnswerTask(t)
  <2> DEFINE f == docs[q.item].type = "folder"
             r == [q EXCEPT !.pc = "validate", !.folder = f]
  <2>1. q.pc = "load" /\ OnlyTask /\ task' = [task EXCEPT ![t] = r]
    BY <1>8 DEF LoadMove, TaskAt
  <2>2. f \in BOOLEAN
    OBVIOUS
  <2>3. Fits(r)
    <3> HIDE DEF f
    <3> QED
      BY <1>3, <2>1, <2>2, ZenonT(40)
         DEF Fits, Request, PCs, AllOps
  <2> QED
    BY <2>1, <2>3, QuietTypes DEF FitsOrNone
<1>9. CASE ValidateTarget(t) /\ ~AnswerTask(t)
  <2> DEFINE r == [q EXCEPT !.pc = "walk", !.cur = q.parent]
  <2>1. q.pc = "validate" /\ OnlyTask
    BY <1>9 DEF ValidateTarget, TaskAt
  <2>2. CASE q.parent = Root
    BY <1>2, <1>3, <1>9, <2>1, <2>2, GotoTypes DEF ValidateTarget, Fits, PCs
  <2>3. CASE q.parent # Root
    <3>1. q.parent \in Ids /\ q.parent # NoId
      BY <1>3, <2>3, MarkerAssumption DEF Request
    <3>2. task' = [task EXCEPT ![t] = r]
      BY <1>9, <2>3 DEF ValidateTarget
    <3>3. Fits(r)
      BY <1>3, <2>1, <3>1, ZenonT(40)
         DEF Fits, Request, PCs, AllOps
    <3> QED
      BY <2>1, <3>2, <3>3, QuietTypes DEF FitsOrNone
  <2> QED
    BY <2>2, <2>3
<1>10. CASE Walk(t) /\ ~AnswerTask(t)
  <2> DEFINE c == q.cur
             p == docs[c].parent
             pc == IF p = Root THEN "write" ELSE "walk"
             cur == IF p = Root THEN NoId ELSE p
             r == [q EXCEPT !.seen = q.seen \cup {c}, !.pc = pc, !.cur = cur]
  <2>1. q.pc = "walk" /\ OnlyTask /\ task' = [task EXCEPT ![t] = r]
        /\ ~WalkRefused(t)
    BY <1>10 DEF Walk, TaskAt
  <2>2. c \in Ids
    BY <1>3, <2>1 DEF Fits, Request
  <2>3. docs[c] \in Doc
    BY <1>4, <2>1, <2>2 DEF WalkRefused, Exists, DocsTyped
  <2>4. p \in Ids \cup {Root}
    BY <2>3 DEF Doc
  <2>5. Fits(r)
    <3>1. /\ pc \in {"write", "walk"} /\ cur \in Ids \cup {NoId}
          /\ pc = "walk" <=> cur # NoId
      BY <2>4, MarkerAssumption
    <3> HIDE DEF pc, cur, c
    <3> QED
      BY <1>3, <2>2, <3>1, ZenonT(40)
         DEF Fits, Request, PCs, AllOps
  <2> QED
    BY <2>1, <2>5, QuietTypes DEF FitsOrNone
<1>11. ASSUME NEW i \in Ids, Exists(i), Climb(t, i), OnlyTask,
              q.pc \in {"load", "path"}
       PROVE  TypeOK'
  <2> DEFINE p == docs[i].parent
             r == [q EXCEPT !.pc = "path", !.seen = q.seen \cup {i}, !.cur = p]
  <2>1. docs[i] \in Doc
    BY <1>4, <1>11 DEF Exists, DocsTyped
  <2>2. p \in Ids \cup {Root}
    BY <2>1 DEF Doc
  <2>3. CASE p = Root
    BY <1>11, <2>3, AnswerTypes DEF Climb, AnswerTask
  <2>4. CASE p # Root
    <3>1. task' = [task EXCEPT ![t] = r]
      BY <1>11, <2>4 DEF Climb
    <3>2. p \in Ids /\ p # NoId
      BY <2>2, <2>4, MarkerAssumption
    <3>3. Fits(r)
      <4> HIDE DEF p
      <4> QED
        BY <1>3, <1>11, <3>2, ZenonT(40)
           DEF Fits, Request, PCs, AllOps
    <3> QED
      BY <1>11, <3>1, <3>3, QuietTypes DEF FitsOrNone
  <2> QED
    BY <2>3, <2>4
<1>12. CASE LoadPath(t) /\ ~AnswerTask(t)
  BY <1>3, <1>11, <1>12 DEF LoadPath, Owned, TaskAt, Fits, Request
<1>13. CASE PathUp(t) /\ ~AnswerTask(t)
  <2>1. q.pc = "path" /\ OnlyTask /\ Climb(t, q.cur) /\ Exists(q.cur)
    BY <1>13 DEF PathUp, TaskAt, PathEnds, Owned
  <2>2. q.cur \in Ids
    BY <1>3, <2>1 DEF Fits, Request
  <2> QED
    BY <1>11, <2>1, <2>2
<1>14. OnlyTask
  BY DEF Validate, Look, LoadMove, ValidateTarget, Walk, CheckParent,
         LoadPath, PathUp, Reread
<1> QED
  BY <1>1, <1>5, <1>6, <1>7, <1>8, <1>9, <1>10, <1>12, <1>13, <1>14
     DEF Reread

\* The steps that collect what a remove or restore will write.
LEMMA CollectTypes ==
  ASSUME TypeOK, NEW t \in Tasks,
         LoadRoot(t) \/ Select(t) \/ CheckRoots(t) \/ Collect(t) \/ NextRoot(t)
  PROVE  TypeOK'
<1> DEFINE q == task[t]
<1>1. q # NoTask
  BY DEF LoadRoot, Select, CheckRoots, Collect, NextRoot, TaskAt
<1>2. Fits(q) /\ q \in Request
  BY <1>1, TypeParts DEF FitsOrNone, Fits
<1>3. DocsTyped
  BY TypeParts
<1>4. \A S \in SUBSET Ids : (\A i \in S : Exists(i)) =>
          /\ {docs[i].thumb : i \in S} \ {NoId} \subseteq Ids
          /\ {docs[i].parent : i \in S} \subseteq Ids \cup {Root}
  BY <1>3 DEF DocsTyped, Exists, Doc
<1>5. CASE LoadRoot(t)
  <2>1. q.pc = "load" /\ UNCHANGED <<docs, purging, movesRaced>>
    BY <1>5 DEF LoadRoot, TaskAt
  <2>2. DocsTyped' /\ OtherTypes'
    BY <1>2, <1>5, TypeParts
       DEF LoadRoot, Disturb, DocsTyped, OtherTypes, Exists, Request
  <2>3. CASE AnswerTask(t)
    BY <2>2, <2>3, TaskTypes DEF AnswerTask, FitsOrNone
  <2>4. CASE ~AnswerTask(t)
    <3> DEFINE i == q.item
               pc == IF q.op = "restore" /\ docs[i].parent # Root
                     THEN "parent" ELSE "collect"
               p == docs[i].parent
               th == Thumb(i)
               r == [q EXCEPT !.pc = pc, !.parent = p, !.front = {i}, !.ids = th]
    <3>1. Owned(i, q.user) /\ task' = [task EXCEPT ![t] = r]
      BY <1>5, <2>4 DEF LoadRoot
    <3>2. i \in Ids
      BY <1>2, <1>5 DEF LoadRoot, Fits, Request
    <3>3. docs[i] \in Doc
      BY <1>3, <3>1, <3>2 DEF Owned, Exists, DocsTyped
    <3>4. p \in Ids \cup {Root} /\ th \subseteq Ids /\ pc \in {"parent", "collect"}
      BY <3>3 DEF Doc, Thumb
    <3>5. Fits(r)
      <4> HIDE DEF pc, p, th, i
      <4> QED
        BY <1>2, <2>1, <3>2, <3>4, ZenonT(40)
           DEF Fits, Request, PCs, AllOps
    <3> QED
      BY <2>2, <3>1, <3>5, TaskTypes DEF FitsOrNone
  <2> QED
    BY <2>3, <2>4
<1>6. CASE Select(t)
  <2>1. q.pc = "select" /\ OnlyTask
    BY <1>6 DEF Select, TaskAt
  <2>2. CASE AnswerTask(t)
    BY <2>1, <2>2, AnswerTypes
  <2>3. CASE ~AnswerTask(t)
    <3> DEFINE R == IF q.op = "restoreAll"
                    THEN {i \in Ids : InTrash(i, q.user)} ELSE q.roots
               C == {docs[i].parent : i \in R} \ (R \cup {Root})
               I == {docs[i].thumb : i \in R} \ {NoId}
               r == [q EXCEPT !.pc = "checks", !.roots = R, !.checks = C,
                              !.ids = I]
    <3>1. (\A i \in R : InTrash(i, q.user)) /\ task' = [task EXCEPT ![t] = r]
      BY <1>6, <2>3 DEF Select
    <3>2. R \subseteq Ids
      BY <1>2 DEF Request
    <3>3. C \subseteq Ids /\ I \subseteq Ids
      <4> HIDE DEF R
      <4> QED
        BY <1>4, <3>1, <3>2 DEF InTrash, Owned
    <3>4. Fits(r)
      <4> HIDE DEF R, C, I
      <4> QED
        BY <1>2, <2>1, <3>2, <3>3, ZenonT(40)
           DEF Fits, Request, PCs, AllOps
    <3> HIDE DEF r
    <3> QED
      BY <2>1, <3>1, <3>4, QuietTypes DEF FitsOrNone
  <2> QED
    BY <2>2, <2>3
<1>7. CASE CheckRoots(t)
  <2>1. q.pc = "checks" /\ OnlyTask
    BY <1>7 DEF CheckRoots, TaskAt
  <2>2. CASE AnswerTask(t)
    BY <2>1, <2>2, AnswerTypes
  <2>3. CASE Goto(t, "collect")
    BY <1>1, <1>2, <2>1, <2>3, GotoTypes DEF Fits, PCs
  <2>4. ASSUME NEW p, task' = [task EXCEPT ![t].checks = @ \ {p}]
        PROVE  TypeOK'
    <3> DEFINE r == [q EXCEPT !.checks = q.checks \ {p}]
    <3>1. task' = [task EXCEPT ![t] = r]
      BY <2>4
    <3>2. Fits(r)
      BY <1>2, <2>1, ZenonT(40)
         DEF Fits, Request, PCs, AllOps
    <3> QED
      BY <2>1, <3>1, <3>2, QuietTypes DEF FitsOrNone
  <2> QED
    BY <1>7, <2>2, <2>3, <2>4 DEF CheckRoots
<1>8. CASE Collect(t)
  <2> DEFINE K == NextFront(t)
             I == q.ids \cup q.front \cup ({docs[i].thumb : i \in K} \ {NoId})
             pc == IF K = {} /\ q.roots = {} THEN "update" ELSE "collect"
             r == [q EXCEPT !.ids = I, !.front = K, !.pc = pc]
  <2>1. q.pc = "collect" /\ OnlyTask /\ task' = [task EXCEPT ![t] = r]
        /\ q.front # {}
    BY <1>8 DEF Collect, TaskAt
  <2>2. K \subseteq Ids /\ \A i \in K : Exists(i)
    BY DEF NextFront, ChildrenOf, Owned
  <2>3. I \subseteq Ids /\ I # {} /\ pc \in {"update", "collect"}
    <3>1. q.ids \subseteq Ids /\ q.front \subseteq Ids
      BY <1>2 DEF Request
    <3> HIDE DEF K
    <3> QED
      BY <1>4, <2>1, <2>2, <3>1
  <2>4. Fits(r)
    <3> HIDE DEF K, I, pc
    <3> QED
      BY <1>2, <2>1, <2>2, <2>3, ZenonT(40)
         DEF Fits, Request, PCs, AllOps
  <2> QED
    BY <2>1, <2>4, QuietTypes DEF FitsOrNone
<1>9. CASE NextRoot(t)
  <2>1. PICK x \in q.roots : task' = [task EXCEPT ![t].front = {x},
                                                 ![t].roots = @ \ {x}]
    BY <1>9 DEF NextRoot
  <2> DEFINE r == [q EXCEPT !.front = {x}, !.roots = q.roots \ {x}]
  <2>2. q.pc = "collect" /\ OnlyTask
    BY <1>9 DEF NextRoot, TaskAt
  <2>3. task' = [task EXCEPT ![t] = r]
    BY <2>1
  <2>4. Fits(r)
    BY <1>2, <2>1, <2>2, ZenonT(40)
       DEF Fits, Request, PCs, AllOps
  <2> QED
    BY <2>2, <2>3, <2>4, QuietTypes DEF FitsOrNone
<1> QED
  BY <1>5, <1>6, <1>7, <1>8, <1>9

\* What a write leaves of purging: it writes no other kind of value.
LEMMA PutTypes ==
  ASSUME TypeOK, NEW i \in Ids, NEW d \in Doc,
         docs' = docs \/ docs' = [docs EXCEPT ![i] = d],
         UNCHANGED purging, movesRaced' \subseteq Users, disturbed' \subseteq Users
  PROVE  DocsTyped' /\ OtherTypes'
<1>1. DocsTyped /\ OtherTypes
  BY TypeParts
<1>2. DocsTyped'
  BY <1>1 DEF DocsTyped
<1>3. \A j \in Ids : Exists(j) => docs'[j] \notin {Unborn, Gone}
  BY <1>1, MarkerAssumption DEF DocsTyped, Exists
<1> QED
  BY <1>1, <1>2, <1>3 DEF OtherTypes, Exists

LEMMA EraseTypes ==
  ASSUME TypeOK, NEW i \in Ids, docs' = [docs EXCEPT ![i] = Gone],
         purging' = purging \ {i}, UNCHANGED <<movesRaced, disturbed>>
  PROVE  DocsTyped' /\ OtherTypes'
  BY TypeParts DEF DocsTyped, OtherTypes, Exists

\* The steps that write documents.
LEMMA WriteTypes ==
  ASSUME TypeOK, NEW t \in Tasks,
         InsertFolder(t) \/ Write(t) \/ Update(t) \/ UpdateConflicts(t)
  PROVE  TypeOK'
<1> DEFINE q == task[t]
<1>1. q # NoTask
  BY DEF InsertFolder, Write, Update, UpdateConflicts, TaskAt
<1>2. Fits(q) /\ q \in Request
  BY <1>1, TypeParts DEF FitsOrNone, Fits
<1>3. DocsTyped /\ movesRaced \subseteq Users /\ disturbed \subseteq Users
  BY DEF TypeOK, DocsTyped
<1>4. CASE InsertFolder(t)
  <2>1. PICK i \in Ids : \/ docs' = docs
                         \/ docs' = [docs EXCEPT ![i] = Folder(t)]
    BY <1>4 DEF InsertFolder, UnbornIds, Insert
  <2>2. Folder(t) \in Doc
    BY <1>2 DEF Folder, Doc, Types, Request
  <2>3. DocsTyped' /\ OtherTypes'
    BY <1>3, <1>4, <2>1, <2>2, PutTypes DEF InsertFolder
  <2> QED
    BY <1>4, <2>3, TaskTypes DEF InsertFolder, AnswerTask, FitsOrNone
<1>5. CASE Write(t)
  <2>1. CASE docs' = docs
    <3>1. DocsTyped' /\ OtherTypes'
      BY <1>2, <1>3, <1>5, <2>1, TypeParts
         DEF Write, DocsTyped, OtherTypes, Exists, Request
    <3> QED
      BY <1>5, <3>1, TaskTypes DEF Write, AnswerTask, FitsOrNone
  <2>2. CASE docs' # docs
    <3>1. Owned(q.item, q.user) /\ docs' = [docs EXCEPT ![q.item] = Written(t)]
      BY <1>5, <2>2 DEF Write, Put
    <3>2. q.item \in Ids
      BY <1>3, <2>2, <3>1, <1>2 DEF DocsTyped, Request
    <3>3. docs[q.item] \in Doc
      BY <1>3, <3>1, <3>2 DEF Owned, Exists, DocsTyped
    <3>4. Written(t) \in Doc
      BY <1>2, <3>3 DEF Written, Doc, Request
    <3>5. movesRaced' \subseteq Users /\ UNCHANGED <<purging, disturbed>>
      BY <1>2, <1>3, <1>5 DEF Write, Request
    <3>6. DocsTyped' /\ OtherTypes'
      BY <1>3, <3>1, <3>2, <3>4, <3>5, PutTypes
    <3> QED
      BY <1>5, <3>6, TaskTypes DEF Write, AnswerTask, FitsOrNone
  <2> QED
    BY <2>1, <2>2
<1>6. CASE Update(t)
  <2>1. PICK i \in q.ids :
            /\ IF Owned(i, q.user)
               THEN IndexAllows(i, Retrashed(t, i)) /\ Put(i, Retrashed(t, i))
               ELSE UNCHANGED docs
            /\ Wrote(t, i)
    BY <1>6 DEF Update
  <2>2. i \in Ids /\ q.pc = "update"
    BY <1>2, <1>6 DEF Request, Update, TaskAt
  <2>3. DocsTyped' /\ OtherTypes'
    <3>1. UNCHANGED <<purging, movesRaced, disturbed>>
      BY <1>6 DEF Update
    <3>2. CASE docs' = docs
      BY <3>1, <3>2, TypeParts DEF DocsTyped, OtherTypes, Exists
    <3>3. CASE docs' # docs
      <4>1. Exists(i) /\ docs' = [docs EXCEPT ![i] = Retrashed(t, i)]
        BY <2>1, <3>3 DEF Put
      <4>2. docs[i] \in Doc
        BY <1>3, <2>2, <4>1 DEF Exists, DocsTyped
      <4>3. Retrashed(t, i) \in Doc
        BY <4>2 DEF Retrashed, Doc
      <4> QED
        BY <1>3, <2>2, <3>1, <4>1, <4>3, PutTypes
    <3> QED
      BY <3>2, <3>3
  <2>4. PICK r : FitsOrNone(r) /\ task' = [task EXCEPT ![t] = r]
    <3>1. CASE q.ids # {i}
      <4> DEFINE ch == q.changed \/ (Owned(i, q.user)
                          /\ docs[i].trashed /\ q.op # "remove")
                 r == [q EXCEPT !.ids = q.ids \ {i}, !.changed = ch]
      <4>1. task' = [task EXCEPT ![t] = r]
        BY <2>1, <3>1 DEF Wrote
      <4>2. ch \in BOOLEAN /\ q.ids \ {i} # {}
        BY <2>1, <3>1
      <4>3. Fits(r)
        <5> HIDE DEF ch
        <5> QED
          BY <1>2, <2>2, <4>2, ZenonT(40)
             DEF Fits, Request, PCs, AllOps
      <4> QED
        BY <4>1, <4>3 DEF FitsOrNone
    <3>2. CASE q.ids = {i} /\ q.op = "restore"
      <4> DEFINE r == [q EXCEPT !.ids = {}, !.pc = "reread"]
      <4>1. task' = [task EXCEPT ![t] = r]
        BY <2>1, <3>2 DEF Wrote
      <4>2. Fits(r)
        BY <1>2, <2>2, ZenonT(40)
           DEF Fits, Request, PCs, AllOps
      <4> QED
        BY <4>1, <4>2 DEF FitsOrNone
    <3>3. CASE q.ids = {i} /\ q.op # "restore"
      BY <2>1, <3>3 DEF Wrote, FitsOrNone
    <3> QED
      BY <3>1, <3>2, <3>3
  <2> QED
    BY <2>3, <2>4, TaskTypes
<1>7. CASE UpdateConflicts(t)
  <2>1. DocsTyped' /\ OtherTypes'
    BY <1>2, <1>7, TypeParts
       DEF UpdateConflicts, Disturb, DocsTyped, OtherTypes, Exists, Request
  <2> QED
    BY <1>7, <2>1, TaskTypes DEF UpdateConflicts, AnswerTask, FitsOrNone
<1> QED
  BY <1>4, <1>5, <1>6, <1>7

\* Requests arriving and being cut short.
LEMMA AskTypes ==
  ASSUME TypeOK, NEW t \in Tasks, AskTask(t) \/ Cut(t)
  PROVE  TypeOK'
<1> USE DEF Fits, FitsOrNone
<1>1. DocsTyped /\ OtherTypes
  BY TypeParts
<1>2. ASSUME NEW op \in AllOps, NEW pc \in PCs \ {"walk", "path", "update"},
             NEW u \in Users, NEW i \in Ids \cup {NoId},
             NEW p \in Ids \cup {Root}, NEW s \in Spellings,
             NEW n \in Names \cup {NoName}, NEW R \in SUBSET Ids,
             Ask(t, op, pc, u, i, p, s, n, R),
             op \notin {"create", "restoreBatch", "restoreAll"} => i # NoId
      PROVE  TypeOK'
  <2> DEFINE r == [op |-> op, pc |-> pc, user |-> u, item |-> i, parent |-> p,
                   spelling |-> s, name |-> n, folder |-> FALSE, cur |-> NoId, seen |-> {},
                   roots |-> R, checks |-> {}, front |-> {}, ids |-> {},
                   changed |-> FALSE]
  <2>1. task' = [task EXCEPT ![t] = r]
    BY <1>2 DEF Ask
  <2>2. Fits(r)
    BY <1>2 DEF Request, PCs
  <2>3. DocsTyped' /\ OtherTypes'
    <3>1. UNCHANGED <<docs, purging, movesRaced>> /\ disturbed' \subseteq Users
      BY <1>1, <1>2 DEF Ask, Disturb, OtherTypes
    <3> QED
      BY <1>1, <3>1 DEF DocsTyped, OtherTypes, Exists
  <2> HIDE DEF r
  <2> QED
    BY <2>1, <2>2, <2>3, TaskTypes
<1>3. CASE AskCreate(t)
  <2>1. PICK u \in Users, p \in Born \cup {Root}, s \in Spellings, n \in Names :
            Ask(t, "create", "validate", u, NoId, p, s, n, {})
    BY <1>3 DEF AskCreate
  <2> QED
    BY <1>2, <2>1 DEF Born, AllOps, PCs
<1>4. CASE AskMove(t)
  <2>1. PICK u \in Users, i \in Born, p \in Born \cup {Root}, s \in Spellings :
            Ask(t, "move", "load", u, i, p, s, NoName, {})
    BY <1>4 DEF AskMove
  <2>2. i \in Ids /\ i # NoId /\ p \in Ids \cup {Root}
    BY MarkerAssumption DEF Born
  <2>3. "move" \in AllOps /\ "load" \in PCs \ {"walk", "path", "update"}
        /\ NoName \in Names \cup {NoName}
    BY DEF AllOps, PCs
  <2>4. s \in Spellings /\ {} \in SUBSET Ids /\ u \in Users
    OBVIOUS
  <2> QED
    BY <1>2, <2>1, <2>2, <2>3, <2>4, ZenonT(40)
<1>5. CASE AskRename(t)
  <2>1. PICK u \in Users, i \in Born, n \in Names :
            Ask(t, "rename", "write", u, i, Root, Canonical, n, {})
    BY <1>5 DEF AskRename
  <2> QED
    BY <1>2, <2>1, MarkerAssumption, SpellingAssumption DEF Born, AllOps, PCs
<1>6. CASE AskOne(t)
  <2>1. PICK op \in {"remove", "restore", "path"}, u \in Users, i \in Born :
            Ask(t, op, "load", u, i, Root, Canonical, NoName, {})
    BY <1>6 DEF AskOne
  <2> QED
    BY <1>2, <2>1, MarkerAssumption, SpellingAssumption DEF Born, AllOps, PCs
<1>7. CASE AskBatch(t)
  <2>1. PICK op \in {"restoreBatch", "restoreAll"}, u \in Users,
             R \in SUBSET Born :
            Ask(t, op, "select", u, NoId, Root, Canonical, NoName, R)
    BY <1>7 DEF AskBatch
  <2> QED
    BY <1>2, <2>1, SpellingAssumption DEF Born, AllOps, PCs
<1>8. CASE Cut(t)
  <2>1. task[t] \in Request
    BY <1>8, TypeParts DEF Cut
  <2>2. DocsTyped' /\ OtherTypes'
    <3>1. UNCHANGED <<docs, purging, movesRaced>> /\ disturbed' \subseteq Users
      BY <1>1, <1>8, <2>1 DEF Cut, Disturb, OtherTypes, Request
    <3> QED
      BY <1>1, <3>1 DEF DocsTyped, OtherTypes, Exists
  <2> QED
    BY <1>8, <2>2, TaskTypes DEF Cut, AnswerTask
<1> QED
  BY <1>3, <1>4, <1>5, <1>6, <1>7, <1>8 DEF AskTask

LEMMA SameTasksTypes ==
  ASSUME TypeOK, UNCHANGED task, DocsTyped', OtherTypes'
  PROVE  TypeOK'
  BY TypeParts DEF TypeOK, DocsTyped, OtherTypes, TaskAt

\* Uploads and emptyings.
LEMMA TrashTypes ==
  ASSUME TypeOK, TrashStep
  PROVE  TypeOK'
<1>1. DocsTyped /\ OtherTypes
  BY TypeParts
<1>2. ASSUME NEW i \in Ids, Uploaded(i)
      PROVE  TypeOK'
  <2>1. PICK u \in Users, p \in Ids \cup {Root}, s \in Spellings,
             ty \in {"file", "thumbnail"}, h \in Hashes, th \in Ids \cup {NoId} :
            UploadedAs(i, u, p, s, ty, h, th)
    BY <1>2 DEF Uploaded
  <2> DEFINE d == [type |-> ty, user |-> u, name |-> NoName, parent |-> p,
                   spelling |-> s, hash |-> h, thumb |-> th, trashed |-> FALSE]
  <2>2. d \in Doc
    BY DEF Doc, Types
  <2>3. disturbed' \subseteq Users /\ UNCHANGED <<task, purging, movesRaced>>
    BY <1>1, <1>2, <2>1 DEF Uploaded, UploadedAs, OtherTypes, Disturb
  <2>4. docs' = [docs EXCEPT ![i] = d]
    BY <2>1 DEF UploadedAs, Insert
  <2> HIDE DEF d
  <2>5. DocsTyped' /\ OtherTypes'
    BY <1>1, <2>2, <2>3, <2>4, PutTypes DEF OtherTypes
  <2> QED
    BY SameTasksTypes, <2>3, <2>5
<1>3. ASSUME NEW u \in Users, ListTrash(u)
      PROVE  TypeOK'
  <2>1. UNCHANGED <<docs, task, movesRaced>> /\ disturbed' \subseteq Users
        /\ purging' \subseteq {i \in Ids : Exists(i)}
    BY <1>1, <1>3 DEF ListTrash, Disturb, TrashedBy, Owned, OtherTypes
  <2> QED
    BY <1>1, SameTasksTypes, <2>1 DEF DocsTyped, OtherTypes, Exists
<1>4. ASSUME NEW i \in Ids, Purge(i)
      PROVE  TypeOK'
  BY SameTasksTypes, <1>4, EraseTypes DEF Purge, Erase
<1>5. ASSUME NEW i \in Ids, TakenBack(i)
      PROVE  TypeOK'
  BY SameTasksTypes, <1>5, EraseTypes DEF TakenBack, Erase
<1>6. CASE StopPurge
  <2>1. UNCHANGED <<docs, task, movesRaced, disturbed>> /\ purging' \subseteq purging
    BY <1>6 DEF StopPurge
  <2> QED
    BY <1>1, SameTasksTypes, <2>1 DEF DocsTyped, OtherTypes, Exists
<1> QED
  BY <1>2, <1>3, <1>4, <1>5, <1>6 DEF TrashStep

LEMMA InitTypes == Init => TypeOK
  BY SeedAssumption DEF Init, TypeOK

LEMMA StepTypes == TypeOK /\ [Next]_vars => TypeOK'
<1> SUFFICES ASSUME TypeOK, [Next]_vars PROVE TypeOK'
  OBVIOUS
<1>1. CASE UNCHANGED vars
  <2>1. DocsTyped' /\ OtherTypes'
    BY <1>1, TypeParts DEF vars, DocsTyped, OtherTypes, Exists
  <2> QED
    BY <1>1, <2>1, SameTasksTypes DEF vars
<1>2. ASSUME NEW t \in Tasks, TaskStep(t)
      PROVE  TypeOK'
  BY <1>2, WalkTypes, CollectTypes, WriteTypes DEF TaskStep
<1> QED
  BY <1>1, <1>2, AskTypes, TrashTypes DEF Next

\* Every reachable state of Tree is well typed, and every request's record
\* fits the place its handler has reached.
THEOREM TreeTypeCorrect == Spec => []TypeOK
  BY InitTypes, StepTypes, PTL DEF Spec

-----------------------------------------------------------------------------
(* The tree is a tree: the invariant                                       *)

\* p can be the parent of u's documents: a folder of u's, or one that was
GoodFolder(p, u) ==
    /\ p \in Ids /\ docs[p] # Unborn
    /\ Exists(p) => docs[p].type = "folder" /\ docs[p].user = u

GoodParent(p, u) == p = Root \/ GoodFolder(p, u)

Parents == \A i \in Ids : Exists(i) => GoodParent(docs[i].parent, docs[i].user)

\* what the walk has seen is closed under "parent of", up to where it is
\* now: so the moved folder is not above the new parent
Walked(q) ==
    /\ q.item \notin q.seen
    /\ \A j \in q.seen :
          /\ GoodFolder(j, q.user)
          /\ Exists(j) => docs[j].parent \in q.seen \cup {q.cur, Root}
    /\ q.pc = "walk" => GoodFolder(q.cur, q.user)
    /\ q.parent # Root => q.parent \in q.seen \cup {q.cur}

MoveSound(q) ==
    /\ q.item \in Ids /\ docs[q.item] # Unborn
    /\ q.pc \in {"load", "validate"} => q.seen = {}
    /\ (q.pc \in {"validate", "walk", "write"} /\ Exists(q.item)) =>
          (q.folder <=> docs[q.item].type = "folder")
    /\ q.pc \in {"walk", "write"} => GoodParent(q.parent, q.user)
    /\ (q.pc \in {"walk", "write"} /\ q.folder /\ q.user \notin movesRaced)
          => Walked(q)

\* what a request has checked is still so when it writes
Sound(q) ==
    /\ q.pc \in {"look", "insert"} => GoodParent(q.parent, q.user)
    /\ q.op = "move" => MoveSound(q)

TasksSound == \A t \in Tasks : task[t] # NoTask => Sound(task[t])

TreeShape == Parents /\ TasksSound /\ AcyclicUnlessRaced

TreeInv == TypeOK /\ TreeShape

\* a step that moves nothing: documents keep what they are and where they
\* are, and new ones have a parent
Calm ==
    \A i \in Ids :
        IF docs[i] = Unborn
        THEN Exists(i)' => GoodParent(docs'[i].parent, docs'[i].user)
        ELSE /\ docs'[i] # Unborn
             /\ Exists(i)' => /\ Exists(i)
                              /\ docs'[i].type = docs[i].type
                              /\ docs'[i].user = docs[i].user
                              /\ docs'[i].parent = docs[i].parent

\* move_file or move_folder writes
Moves(t) == /\ task[t].op = "move" /\ Owned(task[t].item, task[t].user)
            /\ docs' = [docs EXCEPT ![task[t].item] =
                           [@ EXCEPT !.parent = task[t].parent,
                                     !.spelling = task[t].spelling]]

\* Nothing that is not born becomes the parent of a document.
LEMMA ParentsAreBorn ==
  ASSUME Parents, NEW i \in Ids, Exists(i), docs[i].parent # Root
  PROVE  docs[i].parent \in Ids /\ docs[docs[i].parent] # Unborn
  BY DEF Parents, GoodParent, GoodFolder

\* A folder stays a good parent.
LEMMA CalmFolders ==
  ASSUME Calm, NEW p, NEW u, GoodParent(p, u)
  PROVE  GoodParent(p, u)' /\ (GoodFolder(p, u) => GoodFolder(p, u)')
  BY DEF Calm, GoodParent, GoodFolder, Exists

LEMMA MovesFolders ==
  ASSUME TypeOK, NEW t \in Tasks, task[t] # NoTask, Moves(t),
         task[t].item \in Ids, NEW p, NEW u, GoodParent(p, u)
  PROVE  GoodParent(p, u)' /\ (GoodFolder(p, u) => GoodFolder(p, u)')
<1> DEFINE x == task[t].item
<1>1. docs[x] \in Doc /\ docs \in [Ids -> Doc \cup {Unborn, Gone}]
  BY DEF TypeOK, Moves, Owned, Exists
<1>2. /\ docs'[x] \notin {Unborn, Gone} /\ docs[x] \notin {Unborn, Gone}
      /\ docs'[x].type = docs[x].type
      /\ docs'[x].user = docs[x].user
      /\ \A i \in Ids \ {x} : docs'[i] = docs[i]
  <2> DEFINE d == [docs[x] EXCEPT !.parent = task[t].parent,
                                  !.spelling = task[t].spelling]
  <2>1. d \in Doc /\ d.type = docs[x].type /\ d.user = docs[x].user
    <3>1. task[t].parent \in Ids \cup {Root} /\ task[t].spelling \in Spellings
      BY TypeParts DEF FitsOrNone, Fits, Request
    <3> QED
      BY <1>1, <3>1 DEF Doc
  <2>2. docs' = [docs EXCEPT ![x] = d]
    BY DEF Moves
  <2> HIDE DEF d
  <2> QED
    BY <1>1, <2>1, <2>2, MarkerAssumption
<1> QED
  BY <1>2 DEF GoodParent, GoodFolder, Exists

LEMMA CalmParents ==
  ASSUME Parents, Calm
  PROVE  Parents'
<1>1. ASSUME NEW p, NEW u, GoodParent(p, u)
      PROVE  \/ p = Root
             \/ /\ p \in Ids /\ docs'[p] # Unborn
                /\ docs'[p] # Gone => /\ docs'[p].type = "folder"
                                      /\ docs'[p].user = u
  BY <1>1, CalmFolders DEF GoodParent, GoodFolder, Exists
<1>2. ASSUME NEW i \in Ids, Exists(i)'
      PROVE  GoodParent(docs'[i].parent, docs'[i].user)
  <2>1. CASE docs[i] = Unborn
    BY <1>2, <2>1 DEF Calm
  <2>2. CASE docs[i] # Unborn
    <3>1. /\ Exists(i) /\ docs'[i].parent = docs[i].parent
          /\ docs'[i].user = docs[i].user
      BY <1>2, <2>2 DEF Calm
    <3>2. GoodParent(docs[i].parent, docs[i].user)
      BY <3>1 DEF Parents
    <3> QED
      BY <3>1, <3>2 DEF GoodParent, GoodFolder
  <2> QED
    BY <2>1, <2>2
<1>3. ASSUME NEW i \in Ids, docs'[i] \notin {Unborn, Gone}
      PROVE  \/ docs'[i].parent = Root
             \/ /\ docs'[i].parent \in Ids /\ docs'[docs'[i].parent] # Unborn
                /\ docs'[docs'[i].parent] # Gone =>
                      /\ docs'[docs'[i].parent].type = "folder"
                      /\ docs'[docs'[i].parent].user = docs'[i].user
  <2>1. GoodParent(docs'[i].parent, docs'[i].user)
    BY <1>2, <1>3 DEF Exists
  <2> QED
    BY <1>1, <2>1
<1> QED
  BY <1>3 DEF Parents, GoodParent, GoodFolder, Exists

\* Without a move, no cycle appears.
LEMMA CalmAcyclic ==
  ASSUME Parents, Calm, NEW u, AcyclicFor(u)
  PROVE  AcyclicFor(u)'
<1> SUFFICES ASSUME NEW S \in SUBSET {i \in Ids : Owned(i, u)'}, S # {},
                    \A i \in S : docs'[i].parent \in S
             PROVE  FALSE
  BY DEF AcyclicFor
<1> DEFINE T == {i \in S : docs[i] # Unborn}
<1>1. \A i \in T : Owned(i, u) /\ docs[i].parent \in S
  BY DEF Calm, Owned
<1>2. Root \notin S
  BY MarkerAssumption
<1>3. \A i \in T : docs[i].parent \in T
  BY <1>1, <1>2, ParentsAreBorn DEF Owned
<1>4. T = {}
  BY <1>1, <1>3 DEF AcyclicFor
<1>5. PICK i \in S : TRUE
  OBVIOUS
<1>6. GoodParent(docs'[i].parent, docs'[i].user) /\ docs'[i].parent \in S
  BY <1>4 DEF Calm, Owned
<1> QED
  BY <1>2, <1>4, <1>6 DEF GoodParent, GoodFolder

\* A file that moves into one of u's folders closes no cycle, and a folder
\* that moves after its walk closes none either.
LEMMA MoveAcyclic ==
  ASSUME TypeOK, Parents, NEW t \in Tasks, TaskAt(t, "write"), Moves(t),
         MoveSound(task[t]), NEW u \in Users \ movesRaced, AcyclicFor(u)
  PROVE  AcyclicFor(u)'
<1> DEFINE q == task[t]
           x == q.item
<1>1. x \in Ids /\ Exists(x) /\ docs[x].user = q.user
  BY DEF MoveSound, Moves, Owned
<1> USE DEF TaskAt
<1>2. docs \in [Ids -> Doc \cup {Unborn, Gone}] /\ docs[x] \in Doc
  BY <1>1 DEF TypeOK, Exists
<1>3. /\ docs'[x].parent = q.parent
      /\ docs'[x].user = q.user
      /\ \A i \in Ids \ {x} : docs'[i] = docs[i]
  BY <1>1, <1>2 DEF Moves, Doc
<1> SUFFICES ASSUME NEW S \in SUBSET {i \in Ids : Owned(i, u)'}, S # {},
                    \A i \in S : docs'[i].parent \in S
             PROVE  FALSE
  BY DEF AcyclicFor
<1>4. \A i \in S : Owned(i, u)
  BY <1>1, <1>3 DEF Owned, Exists
<1>5. Root \notin S
  BY MarkerAssumption
<1>6. x \in S
  BY <1>3, <1>4 DEF AcyclicFor
<1>7. q.user = u /\ q.parent \in S /\ GoodFolder(q.parent, u)
  BY <1>1, <1>3, <1>4, <1>5, <1>6 DEF Owned, MoveSound, GoodParent
<1>8. CASE ~q.folder
  <2> DEFINE T == S \ {x}
  <2>1. docs[x].type # "folder"
    BY <1>1, <1>8 DEF MoveSound
  <2>2. q.parent \in T
    BY <1>1, <1>7, <2>1 DEF GoodFolder
  <2>3. \A i \in T : docs[i].parent \in T
    <3> TAKE i \in T
    <3>1. docs[i].parent \in S /\ Exists(i)
      BY <1>3, <1>4 DEF Owned
    <3>2. GoodFolder(docs[i].parent, docs[i].user)
      BY <1>5, <3>1 DEF Parents, GoodParent
    <3> QED
      BY <1>1, <2>1, <3>1, <3>2 DEF GoodFolder
  <2> QED
    BY <1>4, <2>2, <2>3 DEF AcyclicFor
<1>9. CASE q.folder
  <2> DEFINE T == S \cap q.seen
  <2>1. Walked(q)
    BY <1>7, <1>9 DEF MoveSound
  <2>2. q.cur = NoId
    BY <1>7, TypeParts DEF TypeOK
  <2>3. q.parent \in T
    BY <1>5, <1>7, <2>1, <2>2, MarkerAssumption DEF Walked
  <2>4. \A i \in T : docs[i].parent \in T
    BY <1>3, <1>4, <1>5, <2>1, <2>2, MarkerAssumption DEF Walked, Owned
  <2> QED
    BY <1>4, <2>3, <2>4 DEF AcyclicFor
<1> QED
  BY <1>8, <1>9

\* What a request has checked stays so through a step that moves nothing.
LEMMA CalmSound ==
  ASSUME Calm, movesRaced \subseteq movesRaced', NEW q, Sound(q)
  PROVE  Sound(q)'
<1>1. \A p, u : GoodParent(p, u) =>
          GoodParent(p, u)' /\ (GoodFolder(p, u) => GoodFolder(p, u)')
  BY CalmFolders
<1>2. Walked(q) => Walked(q)'
  <2>1. \A p, u : GoodFolder(p, u) => GoodFolder(p, u)'
    BY <1>1 DEF GoodParent
  <2>2. \A j \in Ids : (docs[j] # Unborn /\ Exists(j)') =>
            Exists(j) /\ docs'[j].parent = docs[j].parent
    BY DEF Calm
  <2>3. \A j \in q.seen : GoodFolder(j, q.user) =>
            j \in Ids /\ docs[j] # Unborn
    BY DEF GoodFolder
  <2> QED
    BY <2>1, <2>2, <2>3 DEF Walked
<1>3. q.op = "move" => MoveSound(q)'
  BY <1>1, <1>2 DEF Sound, MoveSound, Calm, Exists
<1> QED
  BY <1>1, <1>3 DEF Sound

\* A move leaves what another request has checked, unless both move folders.
LEMMA MoveSoundOthers ==
  ASSUME TypeOK, NEW t \in Tasks, TaskAt(t, "write"), Moves(t),
         MoveSound(task[t]), NEW s \in Tasks \ {t}, task[s] # NoTask,
         Sound(task[s]), movesRaced \subseteq movesRaced',
         (FolderMoving(t) /\ FolderMoving(s) /\ task[s].user = task[t].user)
            => task[t].user \in movesRaced',
         NEW q, q = task[s]
  PROVE  Sound(q)'
<1> DEFINE m == task[t]
           x == m.item
<1>1. m # NoTask /\ x \in Ids /\ Exists(x) /\ docs[x].user = m.user
  BY DEF MoveSound, Moves, Owned, TaskAt
<1>2. \A p, u : GoodParent(p, u) =>
          GoodParent(p, u)' /\ (GoodFolder(p, u) => GoodFolder(p, u)')
  BY <1>1, MovesFolders
<1>3. docs \in [Ids -> Doc \cup {Unborn, Gone}] /\ docs[x] \in Doc
  BY <1>1 DEF TypeOK, Exists
<1>4. /\ docs'[x].type = docs[x].type
      /\ \A i \in Ids \ {x} : docs'[i] = docs[i]
  BY <1>1, <1>3 DEF Moves, Doc
<1>5. docs'[x] # Unborn
  <2>1. m.parent \in Ids \cup {Root} /\ m.spelling \in Spellings
    BY <1>1, TypeParts DEF FitsOrNone, Fits, Request
  <2>2. docs'[x] \in Doc
    BY <1>1, <1>3, <2>1 DEF Moves, Doc
  <2> QED
    BY <2>2, MarkerAssumption
<1>6. ASSUME q.op = "move", q.pc \in {"walk", "write"}, q.folder,
             q.user \notin movesRaced'
      PROVE  Walked(q)'
  <2>1. Walked(q)
    BY <1>6 DEF Sound, MoveSound
  <2>2. \A p, u : GoodFolder(p, u) => GoodFolder(p, u)'
    BY <1>2 DEF GoodParent
  <2>3. FolderMoving(s)
    BY <1>6 DEF FolderMoving
  <2>4. x \notin q.seen
    <3> SUFFICES ASSUME x \in q.seen PROVE FALSE
      OBVIOUS
    <3>1. docs[x].type = "folder" /\ docs[x].user = q.user
      BY <1>1, <2>1 DEF Walked, GoodFolder
    <3>2. FolderMoving(t)
      BY <1>1, <3>1 DEF FolderMoving, MoveSound, Moves, TaskAt
    <3> QED
      BY <1>1, <1>6, <2>3, <3>1, <3>2
  <2>5. \A j \in q.seen : j \in Ids /\ docs'[j] = docs[j]
    BY <1>4, <2>1, <2>4 DEF Walked, GoodFolder
  <2> QED
    BY <2>1, <2>2, <2>5 DEF Walked, Exists
<1>7. q.op = "move" => MoveSound(q)'
  BY <1>1, <1>2, <1>4, <1>5, <1>6 DEF Sound, MoveSound, Exists
<1> QED
  BY <1>2, <1>7 DEF Sound

\* What is left to prove of a step that moves nothing.
LEMMA CalmStep ==
  ASSUME TreeInv, Calm, movesRaced \subseteq movesRaced',
         \A s \in Tasks : task'[s] # NoTask => Sound(task'[s])
  PROVE  TreeShape'
<1>1. Parents'
  BY CalmParents DEF TreeInv, TreeShape
<1>2. AcyclicUnlessRaced'
  BY CalmAcyclic DEF TreeInv, TreeShape, AcyclicUnlessRaced
<1>3. \A s \in Tasks : \A q :
          (q = task'[s] /\ q # NoTask) => Sound(q)'
  BY CalmSound
<1>4. TasksSound'
  BY <1>3 DEF TasksSound, Sound, MoveSound, Walked
<1> QED
  BY <1>1, <1>2, <1>4 DEF TreeShape

LEMMA QuietStep ==
  ASSUME TreeInv, UNCHANGED <<docs, movesRaced>>, NEW t \in Tasks, NEW r,
         r = NoTask \/ Sound(r), task' = [task EXCEPT ![t] = r]
  PROVE  TreeShape'
<1>1. Calm
  BY DEF Calm, TreeInv, TreeShape, Parents, Exists
<1>2. task \in [Tasks -> Request \cup {NoTask}]
  BY DEF TreeInv, TypeOK
<1>3. \A s \in Tasks : task'[s] # NoTask => Sound(task'[s])
  BY <1>2 DEF TreeInv, TreeShape, TasksSound
<1> QED
  BY <1>1, <1>3, CalmStep

LEMMA AnswerStep ==
  ASSUME TreeInv, NEW t \in Tasks, AnswerTask(t), UNCHANGED <<docs, movesRaced>>
  PROVE  TreeShape'
  BY QuietStep DEF AnswerTask

\* The request's own record changes, and not in what the others rely on.
LEMMA IdleStep ==
  ASSUME TreeInv, NEW t \in Tasks, task[t] # NoTask, NEW r,
         r.op = task[t].op, r.item = task[t].item,
         r.pc \notin {"load", "validate", "walk", "look", "insert", "write"},
         task' = [task EXCEPT ![t] = r], UNCHANGED <<docs, movesRaced>>
  PROVE  TreeShape'
<1>1. Sound(task[t])
  BY DEF TreeInv, TreeShape, TasksSound
<1>2. Sound(r)
  BY <1>1 DEF Sound, MoveSound
<1> QED
  BY <1>2, QuietStep

\* The steps of create, move, rename and path that only read.
LEMMA WalkStep ==
  ASSUME TreeInv, NEW t \in Tasks,
         \/ Validate(t) \/ Look(t) \/ LoadMove(t) \/ ValidateTarget(t)
         \/ Walk(t) \/ CheckParent(t) \/ LoadPath(t) \/ PathUp(t) \/ Reread(t)
  PROVE  TreeShape'
<1> DEFINE q == task[t]
<1>1. q # NoTask /\ UNCHANGED <<docs, movesRaced>>
  BY DEF Validate, Look, LoadMove, ValidateTarget, Walk, CheckParent,
         LoadPath, PathUp, Reread, TaskAt, OnlyTask
<1>2. Fits(q) /\ q \in Request /\ Sound(q)
  BY <1>1, TypeParts DEF FitsOrNone, Fits, TreeInv, TreeShape, TasksSound
<1>3. CASE AnswerTask(t)
  BY <1>1, <1>3, AnswerStep
<1>4. ASSUME NEW r, Sound(r), task' = [task EXCEPT ![t] = r]
      PROVE  TreeShape'
  BY <1>1, <1>4, QuietStep
<1>5. CASE Validate(t) /\ ~AnswerTask(t)
  <2> DEFINE pc == IF q.op = "create" THEN "look" ELSE "write"
             r == [q EXCEPT !.pc = pc]
  <2>1. /\ q.pc = "validate" /\ ~q.folder /\ task' = [task EXCEPT ![t] = r]
        /\ ValidParent(q.parent, q.user)
    BY <1>5 DEF Validate, TaskAt, Goto
  <2>2. GoodParent(q.parent, q.user)
    BY <2>1, MarkerAssumption
       DEF ValidParent, ActiveFolder, Owned, Exists, GoodParent, GoodFolder
  <2>3. /\ r.pc = pc /\ r.op = q.op /\ r.item = q.item /\ r.folder = q.folder
        /\ r.parent = q.parent /\ r.user = q.user /\ r.seen = q.seen
        /\ pc \in {"look", "write"} /\ (q.op = "move" => pc = "write")
    BY <1>2 DEF Request
  <2>4. Sound(r)
    <3> HIDE DEF pc, r
    <3> QED
      BY <1>2, <2>1, <2>2, <2>3 DEF Sound, MoveSound
  <2> HIDE DEF r
  <2> QED
    BY <1>4, <2>1, <2>4
<1>6. CASE Look(t) /\ ~AnswerTask(t)
  <2> DEFINE r == [q EXCEPT !.pc = "insert"]
  <2>1. q.pc = "look" /\ task' = [task EXCEPT ![t] = r]
    BY <1>6 DEF Look, TaskAt, Goto
  <2>2. /\ r.pc = "insert" /\ r.op = q.op /\ r.item = q.item
        /\ r.parent = q.parent /\ r.user = q.user
    BY <1>2 DEF Request
  <2>3. Sound(r)
    <3> HIDE DEF r
    <3> QED
      BY <1>2, <2>1, <2>2 DEF Sound, MoveSound
  <2> HIDE DEF r
  <2> QED
    BY <1>4, <2>1, <2>3
<1>7. CASE LoadMove(t) /\ ~AnswerTask(t)
  <2> DEFINE f == docs[q.item].type = "folder"
             r == [q EXCEPT !.pc = "validate", !.folder = f]
  <2>1. q.pc = "load" /\ q.op = "move" /\ task' = [task EXCEPT ![t] = r]
    BY <1>7 DEF LoadMove, TaskAt
  <2>2. /\ r.pc = "validate" /\ r.op = q.op /\ r.item = q.item
        /\ (r.folder <=> f) /\ r.seen = q.seen
    <3> HIDE DEF f
    <3> QED
      BY <1>2 DEF Request
  <2>3. Sound(r)
    <3> HIDE DEF r
    <3> QED
      BY <1>2, <2>1, <2>2 DEF Sound, MoveSound
  <2> HIDE DEF r
  <2> QED
    BY <1>4, <2>1, <2>3
<1>8. CASE ValidateTarget(t) /\ ~AnswerTask(t)
  <2>1. q.pc = "validate" /\ q.folder
    BY <1>8 DEF ValidateTarget, TaskAt
  <2>2. q.op = "move" => q.seen = {}
    BY <1>2, <2>1 DEF Sound, MoveSound
  <2>3. CASE q.parent = Root
    <3> DEFINE r == [q EXCEPT !.pc = "write"]
    <3>1. task' = [task EXCEPT ![t] = r]
      BY <1>8, <2>3 DEF ValidateTarget, Goto
    <3>2. /\ r.pc = "write" /\ r.op = q.op /\ r.item = q.item /\ r.user = q.user
          /\ r.parent = q.parent /\ r.seen = q.seen /\ r.folder = q.folder
      BY <1>2 DEF Request
    <3>3. Sound(r)
      <4> HIDE DEF r
      <4> QED
        BY <1>2, <2>1, <2>2, <2>3, <3>2 DEF Sound, MoveSound, Walked, GoodParent
    <3> HIDE DEF r
    <3> QED
      BY <1>4, <3>1, <3>3
  <2>4. CASE q.parent # Root
    <3> DEFINE r == [q EXCEPT !.pc = "walk", !.cur = q.parent]
    <3>1. task' = [task EXCEPT ![t] = r] /\ ValidParent(q.parent, q.user)
      BY <1>8, <2>4 DEF ValidateTarget
    <3>2. GoodFolder(q.parent, q.user)
      BY <2>4, <3>1, MarkerAssumption
         DEF ValidParent, ActiveFolder, Owned, Exists, GoodFolder
    <3>3. /\ r.pc = "walk" /\ r.op = q.op /\ r.item = q.item /\ r.user = q.user
          /\ r.parent = q.parent /\ r.seen = q.seen /\ r.folder = q.folder
          /\ r.cur = q.parent
      BY <1>2 DEF Request
    <3>4. Sound(r)
      <4> HIDE DEF r
      <4> QED
        BY <1>2, <2>1, <2>2, <3>2, <3>3 DEF Sound, MoveSound, Walked, GoodParent
    <3> HIDE DEF r
    <3> QED
      BY <1>4, <3>1, <3>4
  <2> QED
    BY <2>3, <2>4
<1>9. CASE Walk(t) /\ ~AnswerTask(t)
  <2> DEFINE c == q.cur
             p == docs[c].parent
             pc == IF p = Root THEN "write" ELSE "walk"
             cur == IF p = Root THEN NoId ELSE p
             r == [q EXCEPT !.seen = q.seen \cup {c}, !.pc = pc, !.cur = cur]
  <2>1. q.pc = "walk" /\ task' = [task EXCEPT ![t] = r] /\ ~WalkRefused(t)
    BY <1>9 DEF Walk, TaskAt
  <2>2. c \in Ids /\ Exists(c) /\ c # q.item
    BY <1>2, <2>1 DEF Fits, Request, WalkRefused
  <2>3. GoodParent(p, docs[c].user)
    BY <2>2 DEF TreeInv, TreeShape, Parents
  <2>4. /\ r.pc = pc /\ r.op = q.op /\ r.item = q.item /\ r.user = q.user
        /\ r.parent = q.parent /\ r.seen = q.seen \cup {c}
        /\ r.folder = q.folder /\ r.cur = cur
    <3> HIDE DEF pc, cur, c
    <3> QED
      BY <1>2 DEF Request
  <2>5. ASSUME Walked(q) PROVE Walked(r)
    <3>1. docs[c].user = q.user
      BY <2>1, <2>2, <2>5 DEF Walked, GoodFolder
    <3>2. pc = "walk" => GoodFolder(cur, q.user)
      BY <2>3, <3>1 DEF GoodParent
    <3>3. p \in {cur, Root}
      OBVIOUS
    <3>4. \A j \in r.seen :
              /\ GoodFolder(j, q.user)
              /\ Exists(j) => docs[j].parent \in r.seen \cup {cur, Root}
      BY <2>1, <2>4, <2>5, <3>3 DEF Walked
    <3> HIDE DEF pc, cur, r
    <3> QED
      BY <2>2, <2>4, <2>5, <3>2, <3>4 DEF Walked
  <2>6. Sound(r)
    <3>1. pc \in {"walk", "write"}
      OBVIOUS
    <3> HIDE DEF pc, r
    <3> QED
      BY <1>2, <2>1, <2>4, <2>5, <3>1 DEF Sound, MoveSound
  <2> HIDE DEF r
  <2> QED
    BY <1>4, <2>1, <2>6
<1>10. CASE CheckParent(t) /\ ~AnswerTask(t)
  <2> DEFINE r == [q EXCEPT !.pc = "collect"]
  <2>1. task' = [task EXCEPT ![t] = r]
    BY <1>10 DEF CheckParent, Goto
  <2>2. r.pc = "collect" /\ r.op = q.op /\ r.item = q.item
    BY <1>2 DEF Request
  <2> QED
    BY <1>1, <2>1, <2>2, IdleStep
<1>11. ASSUME NEW i, Climb(t, i), ~AnswerTask(t)
       PROVE  TreeShape'
  <2> DEFINE p == docs[i].parent
             r == [q EXCEPT !.pc = "path", !.seen = q.seen \cup {i}, !.cur = p]
  <2>1. task' = [task EXCEPT ![t] = r]
    BY <1>11 DEF Climb, AnswerTask
  <2>2. r.pc = "path" /\ r.op = q.op /\ r.item = q.item
    BY <1>2 DEF Request
  <2> HIDE DEF r
  <2> QED
    BY <1>1, <2>1, <2>2, IdleStep
<1> QED
  BY <1>3, <1>5, <1>6, <1>7, <1>8, <1>9, <1>10, <1>11
     DEF LoadPath, PathUp, Reread

\* The steps that collect what a remove or restore will write.
LEMMA CollectStep ==
  ASSUME TreeInv, NEW t \in Tasks,
         LoadRoot(t) \/ Select(t) \/ CheckRoots(t) \/ Collect(t) \/ NextRoot(t)
  PROVE  TreeShape'
<1> DEFINE q == task[t]
<1>1. q # NoTask /\ UNCHANGED <<docs, movesRaced>>
  BY DEF LoadRoot, Select, CheckRoots, Collect, NextRoot, TaskAt, OnlyTask
<1>2. q \in Request
  BY <1>1, TypeParts DEF FitsOrNone, Fits, TreeInv
<1>3. CASE AnswerTask(t)
  BY <1>1, <1>3, AnswerStep
<1>4. ASSUME NEW r, task' = [task EXCEPT ![t] = r],
             r.op = q.op, r.item = q.item,
             r.pc \in {"parent", "checks", "collect", "update"}
      PROVE  TreeShape'
  BY <1>1, <1>4, IdleStep
<1>5. CASE LoadRoot(t) /\ ~AnswerTask(t)
  <2> DEFINE i == q.item
             pc == IF q.op = "restore" /\ docs[i].parent # Root
                   THEN "parent" ELSE "collect"
             p == docs[i].parent
             th == Thumb(i)
             r == [q EXCEPT !.pc = pc, !.parent = p, !.front = {i}, !.ids = th]
  <2>1. task' = [task EXCEPT ![t] = r] /\ pc \in {"parent", "collect"}
    BY <1>5 DEF LoadRoot
  <2> HIDE DEF pc, p, th
  <2>2. r.op = q.op /\ r.item = q.item /\ r.pc = pc
    BY <1>2 DEF Request
  <2> HIDE DEF r
  <2> QED
    BY <1>4, <2>1, <2>2
<1>6. CASE Select(t) /\ ~AnswerTask(t)
  <2> DEFINE R == IF q.op = "restoreAll"
                  THEN {i \in Ids : InTrash(i, q.user)} ELSE q.roots
             C == {docs[i].parent : i \in R} \ (R \cup {Root})
             I == {docs[i].thumb : i \in R} \ {NoId}
             r == [q EXCEPT !.pc = "checks", !.roots = R, !.checks = C, !.ids = I]
  <2>1. task' = [task EXCEPT ![t] = r]
    BY <1>6 DEF Select
  <2> HIDE DEF R, C, I
  <2>2. r.op = q.op /\ r.item = q.item /\ r.pc = "checks"
    BY <1>2 DEF Request
  <2> HIDE DEF r
  <2> QED
    BY <1>4, <2>1, <2>2
<1>7. CASE CheckRoots(t) /\ ~AnswerTask(t)
  <2>1. CASE Goto(t, "collect")
    <3> DEFINE r == [q EXCEPT !.pc = "collect"]
    <3>1. task' = [task EXCEPT ![t] = r]
      BY <2>1 DEF Goto
    <3>2. r.op = q.op /\ r.item = q.item /\ r.pc = "collect"
      BY <1>2 DEF Request
    <3> HIDE DEF r
    <3> QED
      BY <1>4, <3>1, <3>2
  <2>2. ASSUME NEW p, task' = [task EXCEPT ![t].checks = @ \ {p}]
        PROVE  TreeShape'
    <3> DEFINE r == [q EXCEPT !.checks = q.checks \ {p}]
    <3>1. task' = [task EXCEPT ![t] = r]
      BY <2>2
    <3>2. r.op = q.op /\ r.item = q.item /\ r.pc = "checks"
      BY <1>2, <1>7 DEF Request, CheckRoots, TaskAt
    <3> HIDE DEF r
    <3> QED
      BY <1>4, <3>1, <3>2
  <2> QED
    BY <1>7, <2>1, <2>2 DEF CheckRoots
<1>8. CASE Collect(t)
  <2> DEFINE K == NextFront(t)
             I == q.ids \cup q.front \cup ({docs[i].thumb : i \in K} \ {NoId})
             pc == IF K = {} /\ q.roots = {} THEN "update" ELSE "collect"
             r == [q EXCEPT !.ids = I, !.front = K, !.pc = pc]
  <2>1. task' = [task EXCEPT ![t] = r] /\ pc \in {"update", "collect"}
    BY <1>8 DEF Collect
  <2> HIDE DEF K, I, pc
  <2>2. r.op = q.op /\ r.item = q.item /\ r.pc = pc
    BY <1>2 DEF Request
  <2> HIDE DEF r
  <2> QED
    BY <1>4, <2>1, <2>2
<1>9. CASE NextRoot(t)
  <2>1. PICK x \in q.roots : task' = [task EXCEPT ![t].front = {x},
                                                 ![t].roots = @ \ {x}]
    BY <1>9 DEF NextRoot
  <2> DEFINE r == [q EXCEPT !.front = {x}, !.roots = q.roots \ {x}]
  <2>2. task' = [task EXCEPT ![t] = r]
    BY <2>1
  <2>3. r.op = q.op /\ r.item = q.item /\ r.pc = "collect"
    BY <1>2, <1>9 DEF Request, NextRoot, TaskAt
  <2> HIDE DEF r
  <2> QED
    BY <1>4, <2>2, <2>3
<1> QED
  BY <1>3, <1>5, <1>6, <1>7, <1>8, <1>9

\* One document written anew, as what it was and where it was.
LEMMA RewriteCalm ==
  ASSUME TreeInv, NEW i \in Ids, Exists(i), NEW d \in Doc,
         d.type = docs[i].type, d.user = docs[i].user,
         d.parent = docs[i].parent, docs' = [docs EXCEPT ![i] = d]
  PROVE  Calm
<1>1. docs \in [Ids -> Doc \cup {Unborn, Gone}]
  BY DEF TreeInv, TypeOK
<1> QED
  BY <1>1, MarkerAssumption DEF Calm, TreeInv, TreeShape, Parents, Exists

LEMMA InsertCalm ==
  ASSUME TreeInv, NEW i \in Ids, NEW d, Insert(i, d),
         GoodParent(d.parent, d.user)
  PROVE  Calm
<1>1. docs \in [Ids -> Doc \cup {Unborn, Gone}]
  BY DEF TreeInv, TypeOK
<1>2. docs[i] = Unborn /\ docs'[i] = d /\ \A j \in Ids \ {i} : docs'[j] = docs[j]
  BY <1>1 DEF Insert
<1> QED
  BY <1>2 DEF Calm, Exists

LEMMA EraseCalm ==
  ASSUME TreeInv, NEW i \in Ids, Erase(i)
  PROVE  Calm
<1>1. docs \in [Ids -> Doc \cup {Unborn, Gone}]
  BY DEF TreeInv, TypeOK
<1>2. docs'[i] = Gone /\ \A j \in Ids \ {i} : docs'[j] = docs[j]
  BY <1>1 DEF Erase
<1> QED
  BY <1>2, MarkerAssumption DEF Calm, Exists

LEMMA SameCalm ==
  ASSUME UNCHANGED docs
  PROVE  Calm \/ ~Parents
  BY DEF Calm, Parents, Exists

\* The steps that write documents, but for a move's.
LEMMA WriteStep ==
  ASSUME TreeInv, NEW t \in Tasks,
         \/ InsertFolder(t) \/ Update(t) \/ UpdateConflicts(t)
         \/ Write(t) /\ ~Moves(t)
  PROVE  TreeShape'
<1> DEFINE q == task[t]
<1>1. q # NoTask
  BY DEF InsertFolder, Update, UpdateConflicts, Write, TaskAt
<1>2. Fits(q) /\ q \in Request /\ Sound(q) /\ TypeOK /\ Parents
  BY <1>1, TypeParts
     DEF FitsOrNone, Fits, TreeInv, TreeShape, TasksSound
<1>3. docs \in [Ids -> Doc \cup {Unborn, Gone}]
      /\ task \in [Tasks -> Request \cup {NoTask}]
  BY <1>2 DEF TypeOK
<1>4. ASSUME Calm, movesRaced \subseteq movesRaced', NEW r,
             r = NoTask \/ Sound(r), task' = [task EXCEPT ![t] = r]
      PROVE  TreeShape'
  <2>1. \A s \in Tasks : task'[s] # NoTask => Sound(task'[s])
    BY <1>3, <1>4 DEF TreeInv, TreeShape, TasksSound
  <2> QED
    BY <1>4, <2>1, CalmStep
<1>5. ASSUME UNCHANGED docs
      PROVE  Calm
  BY <1>2, <1>5, SameCalm
<1>6. CASE InsertFolder(t)
  <2>1. AnswerTask(t) /\ UNCHANGED movesRaced
    BY <1>6 DEF InsertFolder
  <2>2. PICK i \in Ids : Insert(i, Folder(t)) \/ UNCHANGED docs
    BY <1>6 DEF InsertFolder, UnbornIds
  <2>3. GoodParent(q.parent, q.user)
    BY <1>2, <1>6 DEF InsertFolder, TaskAt, Sound
  <2>4. Folder(t).parent = q.parent /\ Folder(t).user = q.user
    BY DEF Folder
  <2>5. ASSUME Insert(i, Folder(t))
        PROVE  Calm
    BY <2>3, <2>4, <2>5, InsertCalm
  <2>6. Calm
    BY <1>5, <2>2, <2>5
  <2> QED
    BY <1>4, <2>1, <2>6 DEF AnswerTask
<1>7. CASE Update(t)
  <2>1. PICK i \in q.ids :
            /\ IF Owned(i, q.user)
               THEN IndexAllows(i, Retrashed(t, i)) /\ Put(i, Retrashed(t, i))
               ELSE UNCHANGED docs
            /\ Wrote(t, i)
    BY <1>7 DEF Update
  <2>2. i \in Ids /\ q.pc = "update" /\ UNCHANGED movesRaced
    BY <1>2, <1>7 DEF Request, Update, TaskAt
  <2>3. ASSUME Owned(i, q.user)
        PROVE  Calm
    <3> DEFINE d == Retrashed(t, i)
    <3>1. Exists(i) /\ docs' = [docs EXCEPT ![i] = d] /\ docs[i] \in Doc
      BY <1>3, <2>1, <2>2, <2>3 DEF Put, Owned, Exists
    <3>2. /\ d \in Doc /\ d.type = docs[i].type
          /\ d.user = docs[i].user /\ d.parent = docs[i].parent
      BY <3>1 DEF Retrashed, Doc
    <3> HIDE DEF d
    <3> QED
      BY <2>2, <3>1, <3>2, RewriteCalm
  <2>4. Calm
    BY <1>5, <2>1, <2>3
  <2>5. CASE q.ids # {i}
    <3> DEFINE ch == q.changed \/ (Owned(i, q.user)
                        /\ docs[i].trashed /\ q.op # "remove")
               r == [q EXCEPT !.ids = q.ids \ {i}, !.changed = ch]
    <3>1. task' = [task EXCEPT ![t] = r]
      BY <2>1, <2>5 DEF Wrote
    <3> HIDE DEF ch
    <3>2. r.op = q.op /\ r.item = q.item /\ r.pc = "update"
      BY <1>2, <2>2 DEF Request
    <3> HIDE DEF r
    <3>3. Sound(r)
      BY <1>2, <3>2 DEF Sound, MoveSound
    <3> QED
      BY <1>4, <2>2, <2>4, <3>1, <3>3
  <2>6. CASE q.ids = {i} /\ q.op = "restore"
    <3> DEFINE r == [q EXCEPT !.ids = {}, !.pc = "reread"]
    <3>1. task' = [task EXCEPT ![t] = r]
      BY <2>1, <2>6 DEF Wrote
    <3>2. r.op = q.op /\ r.item = q.item /\ r.pc = "reread"
      BY <1>2 DEF Request
    <3> HIDE DEF r
    <3>3. Sound(r)
      BY <1>2, <3>2 DEF Sound, MoveSound
    <3> QED
      BY <1>4, <2>2, <2>4, <3>1, <3>3
  <2>7. CASE q.ids = {i} /\ q.op # "restore"
    <3>1. task' = [task EXCEPT ![t] = NoTask]
      BY <2>1, <2>7 DEF Wrote
    <3> QED
      BY <1>4, <2>2, <2>4, <3>1
  <2> QED
    BY <2>5, <2>6, <2>7
<1>8. CASE UpdateConflicts(t)
  BY <1>8, AnswerStep DEF UpdateConflicts
<1>9. CASE Write(t) /\ ~Moves(t)
  <2>1. AnswerTask(t) /\ movesRaced \subseteq movesRaced'
    BY <1>9 DEF Write
  <2>2. ASSUME docs' # docs
        PROVE  Calm
    <3> DEFINE i == q.item
               d == Written(t)
    <3>1. Owned(i, q.user) /\ docs' = [docs EXCEPT ![i] = d]
      BY <1>9, <2>2 DEF Write, Put
    <3>2. i \in Ids /\ docs[i] \in Doc
      BY <1>2, <1>3, <2>2, <3>1 DEF Owned, Exists, Request
    <3>3. q.op # "move"
      <4> SUFFICES ASSUME q.op = "move" PROVE FALSE
        OBVIOUS
      <4>1. d = [docs[i] EXCEPT !.parent = q.parent, !.spelling = q.spelling]
        BY DEF Written
      <4> QED
        BY <1>9, <3>1, <4>1 DEF Moves
    <3>4. /\ d \in Doc /\ d.type = docs[i].type
          /\ d.user = docs[i].user /\ d.parent = docs[i].parent
      BY <1>2, <3>2, <3>3 DEF Written, Doc, Request
    <3> HIDE DEF d
    <3> QED
      BY <3>1, <3>2, <3>4, RewriteCalm DEF Owned
  <2>3. Calm
    BY <1>5, <2>2
  <2> QED
    BY <1>4, <2>1, <2>3 DEF AnswerTask
<1> QED
  BY <1>6, <1>7, <1>8, <1>9

\* A move writes its new parent.
LEMMA MoveStep ==
  ASSUME TreeInv, NEW t \in Tasks, Write(t), Moves(t)
  PROVE  TreeShape'
<1> DEFINE m == task[t]
           x == m.item
<1>1. TaskAt(t, "write") /\ m # NoTask /\ m.pc = "write"
  BY DEF Write, TaskAt
<1>2. MoveSound(m) /\ TypeOK /\ Parents /\ m \in Request
  BY <1>1, TypeParts
     DEF Moves, TreeInv, TreeShape, TasksSound, Sound, FitsOrNone, Fits
<1>3. x \in Ids /\ Exists(x) /\ docs[x] \in Doc
      /\ docs \in [Ids -> Doc \cup {Unborn, Gone}]
      /\ task \in [Tasks -> Request \cup {NoTask}]
  BY <1>2 DEF MoveSound, Moves, Owned, Exists, TypeOK
<1>4. movesRaced \subseteq movesRaced'
  BY DEF Write
<1>5. AcyclicUnlessRaced'
  <2>1. \A u \in Users \ movesRaced : AcyclicFor(u)'
    BY <1>1, <1>2, MoveAcyclic DEF TreeInv, TreeShape, AcyclicUnlessRaced
  <2> QED
    BY <1>4, <2>1 DEF AcyclicUnlessRaced
<1>6. TasksSound'
  <2>1. ASSUME NEW s \in Tasks \ {t}, task[s] # NoTask, NEW q, q = task[s]
        PROVE  Sound(q)'
    <3>1. Sound(task[s])
      BY <2>1 DEF TreeInv, TreeShape, TasksSound
    <3>2. (FolderMoving(t) /\ FolderMoving(s) /\ task[s].user = m.user)
             => m.user \in movesRaced'
      BY <2>1 DEF Write, Busy
    <3> QED
      BY <1>1, <1>2, <1>4, <2>1, <3>1, <3>2, MoveSoundOthers
  <2>2. task' = [task EXCEPT ![t] = NoTask]
    BY DEF Write, AnswerTask
  <2>3. \A s \in Tasks : \A q : (q = task'[s] /\ q # NoTask) => Sound(q)'
    BY <1>3, <2>1, <2>2
  <2> QED
    BY <2>3 DEF TasksSound, Sound, MoveSound, Walked
<1>7. Parents'
  <2>1. ASSUME NEW p, NEW u, GoodParent(p, u)
        PROVE  \/ p = Root
               \/ /\ p \in Ids /\ docs'[p] # Unborn
                  /\ docs'[p] # Gone => /\ docs'[p].type = "folder"
                                        /\ docs'[p].user = u
    BY <1>1, <1>2, <1>3, <2>1, MovesFolders DEF GoodParent, GoodFolder, Exists
  <2>2. ASSUME NEW i \in Ids, docs'[i] \notin {Unborn, Gone}
        PROVE  GoodParent(docs'[i].parent, docs'[i].user)
    <3>1. CASE i = x
      <4>1. docs'[i].parent = m.parent /\ docs'[i].user = m.user
        BY <1>3, <3>1 DEF Moves, Doc, Owned
      <4>2. GoodParent(m.parent, m.user)
        BY <1>1, <1>2 DEF MoveSound
      <4> QED
        BY <4>1, <4>2 DEF GoodParent, GoodFolder
    <3>2. CASE i # x
      <4>1. docs'[i] = docs[i] /\ Exists(i)
        BY <1>3, <2>2, <3>2 DEF Moves, Exists
      <4>2. GoodParent(docs[i].parent, docs[i].user)
        BY <1>2, <4>1 DEF Parents
      <4> QED
        BY <4>1, <4>2 DEF GoodParent, GoodFolder
    <3> QED
      BY <3>1, <3>2
  <2>3. ASSUME NEW i \in Ids, docs'[i] \notin {Unborn, Gone}
        PROVE  \/ docs'[i].parent = Root
               \/ /\ docs'[i].parent \in Ids
                  /\ docs'[docs'[i].parent] # Unborn
                  /\ docs'[docs'[i].parent] # Gone =>
                        /\ docs'[docs'[i].parent].type = "folder"
                        /\ docs'[docs'[i].parent].user = docs'[i].user
    BY <2>1, <2>2, <2>3
  <2> QED
    BY <2>3 DEF Parents, GoodParent, GoodFolder, Exists
<1> QED
  BY <1>5, <1>6, <1>7 DEF TreeShape

\* Requests arriving and being cut short.
LEMMA AskStep ==
  ASSUME TreeInv, NEW t \in Tasks, AskTask(t) \/ Cut(t)
  PROVE  TreeShape'
<1>1. ASSUME NEW op, NEW pc \in {"validate", "load", "write", "select"},
             NEW u, NEW i, NEW p, NEW s, NEW n, NEW R,
             Ask(t, op, pc, u, i, p, s, n, R),
             op = "move" => i \in Born /\ pc = "load"
      PROVE  TreeShape'
  <2> DEFINE r == [op |-> op, pc |-> pc, user |-> u, item |-> i, parent |-> p,
                   spelling |-> s, name |-> n, folder |-> FALSE, cur |-> NoId, seen |-> {},
                   roots |-> R, checks |-> {}, front |-> {}, ids |-> {},
                   changed |-> FALSE]
  <2>1. task' = [task EXCEPT ![t] = r] /\ UNCHANGED <<docs, movesRaced>>
    BY <1>1 DEF Ask
  <2>2. Sound(r)
    BY <1>1 DEF Sound, MoveSound, Born
  <2> HIDE DEF r
  <2> QED
    BY <2>1, <2>2, QuietStep
<1>2. CASE AskCreate(t)
  BY <1>1, <1>2 DEF AskCreate
<1>3. CASE AskMove(t)
  BY <1>1, <1>3 DEF AskMove
<1>4. CASE AskRename(t)
  BY <1>1, <1>4 DEF AskRename
<1>5. CASE AskOne(t)
  BY <1>1, <1>5 DEF AskOne
<1>6. CASE AskBatch(t)
  BY <1>1, <1>6 DEF AskBatch
<1>7. CASE Cut(t)
  BY <1>7, AnswerStep DEF Cut
<1> QED
  BY <1>2, <1>3, <1>4, <1>5, <1>6, <1>7 DEF AskTask

\* Uploads and emptyings.
LEMMA TrashShape ==
  ASSUME TreeInv, TrashStep \/ UNCHANGED vars
  PROVE  TreeShape'
<1>1. ASSUME Calm, UNCHANGED <<task, movesRaced>>
      PROVE  TreeShape'
  BY <1>1, CalmStep DEF TreeInv, TreeShape, TasksSound
<1>2. CASE UNCHANGED <<docs, task, movesRaced>>
  BY <1>1, <1>2, SameCalm DEF TreeInv, TreeShape
<1>3. ASSUME NEW i \in Ids, Uploaded(i)
      PROVE  TreeShape'
  <2>1. PICK u \in Users, p \in Ids \cup {Root}, s \in Spellings,
             ty \in {"file", "thumbnail"}, h \in Hashes, th \in Ids \cup {NoId} :
            UploadedAs(i, u, p, s, ty, h, th)
    BY <1>3 DEF Uploaded
  <2> DEFINE d == [type |-> ty, user |-> u, name |-> NoName, parent |-> p,
                   spelling |-> s, hash |-> h, thumb |-> th, trashed |-> FALSE]
  <2>2. GoodParent(p, u) /\ Insert(i, d)
    BY <2>1, MarkerAssumption
       DEF UploadedAs, GoodParent, GoodFolder, Owned, Exists
  <2>3. d.parent = p /\ d.user = u
    OBVIOUS
  <2> HIDE DEF d
  <2> QED
    BY <1>1, <1>3, <2>2, <2>3, InsertCalm DEF Uploaded
<1>4. ASSUME NEW i \in Ids, Purge(i) \/ TakenBack(i)
      PROVE  TreeShape'
  BY <1>1, <1>4, EraseCalm DEF Purge, TakenBack
<1> QED
  BY <1>2, <1>3, <1>4 DEF TrashStep, ListTrash, StopPurge, vars

LEMMA InitTree == Init => TreeInv
<1> SUFFICES ASSUME Init PROVE TreeInv
  OBVIOUS
<1>1. TypeOK
  BY SeedAssumption DEF Init, TypeOK
<1>2. Parents
  BY SeedAssumption, SeedTreeAssumption, MarkerAssumption
     DEF SoundSeeds, Init, Parents, GoodParent, GoodFolder, Exists, Doc
<1>3. TasksSound
  BY DEF Init, TasksSound
<1>4. AcyclicUnlessRaced
  BY SeedTreeAssumption
     DEF SoundSeeds, Init, AcyclicUnlessRaced, AcyclicFor, Owned, Exists
<1> QED
  BY <1>1, <1>2, <1>3, <1>4 DEF TreeInv, TreeShape

LEMMA StepTree == TreeInv /\ [Next]_vars => TreeInv'
<1> SUFFICES ASSUME TreeInv, [Next]_vars PROVE TypeOK' /\ TreeShape'
  BY DEF TreeInv
<1>1. TypeOK'
  BY StepTypes DEF TreeInv
<1>2. ASSUME NEW t \in Tasks, TaskStep(t)
      PROVE  TreeShape'
  BY <1>1, <1>2, WalkStep, CollectStep, WriteStep, MoveStep DEF TaskStep
<1> QED
  BY <1>1, <1>2, AskStep, TrashShape DEF Next

\* The invariant: what a request has checked, and what its walk has seen,
\* is still so when it writes.
THEOREM TreeInvariant == Spec => []TreeInv
  BY InitTree, StepTree, PTL DEF Spec

\* The parent of a document is a folder of the same user, however long ago
\* the request that wrote it had looked.
THEOREM ParentsAreFolders == Spec => []ParentIsOwnFolder
<1>1. TreeInv => ParentIsOwnFolder
  BY DEF TreeInv, TreeShape, Parents, GoodParent, GoodFolder,
         ParentIsOwnFolder
<1> QED
  BY <1>1, TreeInvariant, PTL

\* Through any mixture of any number of requests, a user's documents are a
\* tree unless two of the user's folder moves overlapped.
THEOREM TreeStaysTree == Spec => []AcyclicUnlessRaced
<1>1. TreeInv => AcyclicUnlessRaced
  BY DEF TreeInv, TreeShape
<1> QED
  BY <1>1, TreeInvariant, PTL
=============================================================================
