-------------------------- MODULE TreeSerialProofs --------------------------
(***************************************************************************)
(* What holds of the documents of a user whose requests run one at a time  *)
(* and to their end, for every number of users, documents and requests:    *)
(* active documents are in active folders, a restore is whole, and a       *)
(* thumbnail is not in the trash without its file -- where parents are     *)
(* spelled as the collection of a subtree asks for them.                   *)
(***************************************************************************)
EXTENDS TreeProofs

-----------------------------------------------------------------------------
(* Thumbnails belong to one file                                           *)

\* to_hex spells its parent as it does
Plain(i) == docs[i].spelling = Canonical

ThumbOwn(i) ==
    LET th == docs[i].thumb IN
    th # NoId => /\ th \in Ids /\ docs[i].type = "file" /\ docs[th] # Unborn
                 /\ Exists(th) => /\ docs[th].type = "thumbnail"
                                  /\ docs[th].user = docs[i].user
                                  /\ \A k \in Ids \ {i} :
                                        Exists(k) => docs[k].thumb # th

ThumbsOwn == \A i \in Ids : Exists(i) => ThumbOwn(i)

-----------------------------------------------------------------------------
(* What a user's only request has in hand                                  *)

\* a collection that has I, the frontier F and the roots R yet to come: what
\* is below I is in it, and the thumbnails are
Gathers(u, I, F, R) ==
    /\ \A k \in Ids :
          (/\ Owned(k, u) /\ Plain(k) /\ docs[k].parent \in I
           /\ Owned(docs[k].parent, u)) => k \in I \cup F
    /\ \A k \in Ids :
          (Owned(k, u) /\ k \in I \cup F \cup R) => Thumb(k) \subseteq I
    /\ \A k \in Ids :
          (Owned(k, u) /\ docs[k].parent \in F \cup R)
              => Owned(docs[k].parent, u)

\* of a remove: no thumbnail goes without its file or its folder
GathersDown(u, I, F) ==
    \A j \in Ids :
        (Owned(j, u) /\ docs[j].type = "thumbnail" /\ j \in I \cup F) =>
            \/ Plain(j) /\ docs[j].parent \in I
            \/ \E i \in Ids : /\ i \in I \cup F /\ Owned(i, u)
                              /\ docs[i].thumb = j

\* of a restore: what comes back has a folder to be in, A being the folders
\* that have yet to be read
GathersUp(u, I, F, R, A) ==
    \A k \in Ids :
        (Owned(k, u) /\ docs[k].type # "thumbnail" /\ k \in I \cup F \cup R) =>
            \/ ValidParent(docs[k].parent, u)
            \/ docs[k].parent \in A
            \/ docs[k].parent \in I \cup F \cup R /\ Owned(docs[k].parent, u)

\* of a remove that has R left to write
Down(u, R) ==
    /\ \A j \in Ids :
          (/\ Owned(j, u) /\ ~docs[j].trashed /\ docs[j].type # "thumbnail"
           /\ Plain(j)) =>
              \/ j \in R
              \/ ValidParent(docs[j].parent, u) /\ docs[j].parent \notin R
    /\ \A i, j \in Ids :
          (/\ Owned(i, u) /\ ~docs[i].trashed
           /\ docs[i].thumb = j /\ Owned(j, u)) =>
              \/ i \in R
              \/ Plain(j) /\ docs[j].parent \in R
              \/ ~docs[j].trashed /\ j \notin R
              \/ Plain(j) /\ ~ValidParent(docs[j].parent, u)

\* a folder that will be active once R is written
Back(p, u, R) == p \in R /\ Owned(p, u)

\* of a restore that has R left to write
Up(u, R) ==
    /\ \A j \in Ids :
          (/\ Owned(j, u) /\ (~docs[j].trashed \/ j \in R)
           /\ docs[j].type # "thumbnail" /\ Plain(j)) =>
              ValidParent(docs[j].parent, u) \/ Back(docs[j].parent, u, R)
    /\ \A i, j \in Ids :
          (/\ Owned(i, u) /\ (~docs[i].trashed \/ i \in R)
           /\ docs[i].thumb = j /\ Owned(j, u)) =>
              \/ ~docs[j].trashed \/ j \in R
              \/ /\ Plain(j) /\ ~ValidParent(docs[j].parent, u)
                 /\ ~Back(docs[j].parent, u, R)

\* a set that nothing below item is outside of, all of it active but for R
Whole(u, item, R) ==
    \E S \in SUBSET Ids :
        /\ item \in S /\ ChildrenOf(S, u) \subseteq S
        /\ \A k \in S : \/ docs[k] = Gone
                        \/ Owned(k, u) /\ (~docs[k].trashed \/ k \in R)

Restores == {"restore", "restoreBatch", "restoreAll"}

Awaited(q) == IF q.pc = "parent" THEN {q.parent} ELSE q.checks

\* a collection in progress
Collects(q) ==
    /\ q.op \in {"remove"} \cup Restores
    /\ q.pc = "parent" => q.op = "restore"
    /\ q.pc = "checks" => q.op \in {"restoreBatch", "restoreAll"}
    /\ q.op \in {"remove", "restore"} => q.roots = {}
    /\ q.pc # "checks" => q.checks = {}
    /\ Gathers(q.user, q.ids, q.front, q.roots)
    /\ q.op = "remove" => GathersDown(q.user, q.ids, q.front)
    /\ q.op # "remove" =>
          GathersUp(q.user, q.ids, q.front, q.roots, Awaited(q))
    /\ q.op = "restore" => /\ Owned(q.item, q.user) /\ q.item \in Ids
                           /\ docs[q.item].type # "thumbnail"
                           /\ q.item \in q.ids \cup q.front

\* an update_many in progress
Updates(q) ==
    /\ q.op \in {"remove"} \cup Restores
    /\ q.op = "remove" => Down(q.user, q.ids)
    /\ q.op # "remove" => /\ Up(q.user, q.ids)
                          /\ ~q.changed => Settled(q.user)
    /\ q.op = "restore" => Whole(q.user, q.item, q.ids)

\* a create, move or rename that has checked its parent
Places(q) ==
    /\ q.pc \in {"look", "insert"} =>
          q.op = "create" /\ ValidParent(q.parent, q.user)
    /\ q.pc \in {"walk", "write"} =>
          \/ q.op = "rename" /\ q.pc = "write"
          \/ q.op = "move" /\ ValidParent(q.parent, q.user)
    /\ (/\ q.pc \in {"validate", "walk", "write"} /\ q.op = "move"
        /\ Owned(q.item, q.user)) => ~docs[q.item].trashed
    /\ q.pc = "validate" => \/ q.op = "move"
                            \/ q.op = "create" /\ ~q.folder

InHand(q) ==
    /\ q.pc \in {"load", "select"} => /\ q.ids = {} /\ q.front = {}
                                      /\ q.checks = {}
    /\ q.pc = "load" => q.roots = {}
    /\ q.pc = "select" => q.op \in {"restoreBatch", "restoreAll"}
    /\ q.pc \in {"look", "insert", "walk", "write", "validate"} => Places(q)
    /\ q.pc \in {"parent", "checks", "collect"} => Collects(q)
    /\ q.pc = "update" => Updates(q)
    /\ q.pc = "reread" => q.op = "restore" /\ Whole(q.user, q.item, {})

\* at most one request, and no emptying of the trash beside it
Alone(u) ==
    /\ \A s, t \in Busy(u) : s = t
    /\ \A j \in purging : Owned(j, u) => docs[j].trashed /\ Busy(u) = {}

SerialFor(u) ==
    /\ Alone(u)
    /\ \A t \in Busy(u) : InHand(task[t])
    /\ (\A t \in Busy(u) : task[t].pc # "update") => Settled(u)

AllSerial == \A u \in Users \ disturbed : SerialFor(u)

SerialInv == ThumbsOwn /\ AllSerial

\* where a step starts from, its types and its parents included
Context == TypeOK /\ TypeOK' /\ Parents /\ SerialInv

-----------------------------------------------------------------------------
(* Steps that leave a user's documents alone                               *)

\* nothing of u's appears or changes, and nothing but thumbnails disappears
Kept(u) ==
    \A i \in Ids :
        /\ Owned(i, u)' => Owned(i, u) /\ docs'[i] = docs[i]
        /\ (Owned(i, u) /\ ~Owned(i, u)')
               => docs'[i] = Gone /\ docs[i].type = "thumbnail"
        /\ docs[i] = Gone => docs'[i] = Gone

\* nothing of u's appears or changes, and nothing active disappears
Fewer(u) ==
    \A i \in Ids :
        /\ Owned(i, u)' => Owned(i, u) /\ docs'[i] = docs[i]
        /\ (Owned(i, u) /\ ~Owned(i, u)')
               => docs[i].type = "thumbnail" \/ docs[i].trashed

LEMMA KeptFewer == ASSUME NEW u, Kept(u) PROVE Fewer(u)
  BY DEF Kept, Fewer

LEMMA FewerValid ==
  ASSUME NEW u, NEW p, Fewer(u)
  PROVE  ValidParent(p, u) <=> ValidParent(p, u)'
  BY DEF Fewer, ValidParent, ActiveFolder

LEMMA FewerSettled ==
  ASSUME NEW u, Fewer(u), Settled(u)
  PROVE  Settled(u)'
  BY DEF Fewer, Settled, ValidParent, ActiveFolder

LEMMA KeptValid ==
  ASSUME NEW u, NEW p, Kept(u)
  PROVE  ValidParent(p, u) <=> ValidParent(p, u)'
  BY FewerValid, KeptFewer

\* A folder that something is in does not disappear.
LEMMA KeptParent ==
  ASSUME Parents, NEW u, Kept(u), NEW k \in Ids, Owned(k, u),
         NEW p, docs[k].parent = p, p # Root
  PROVE  Owned(p, u) <=> Owned(p, u)'
  BY DEF Kept, Parents, GoodParent, GoodFolder, Owned

LEMMA KeptGathers ==
  ASSUME Parents, NEW u, Kept(u), NEW I, NEW F, NEW R,
         Root \notin I \cup F \cup R, Gathers(u, I, F, R)
  PROVE  Gathers(u, I, F, R)'
  BY KeptParent DEF Kept, Gathers, Thumb, Plain

LEMMA KeptGathersDown ==
  ASSUME ThumbsOwn, NEW u, Kept(u), NEW I, NEW F, GathersDown(u, I, F)
  PROVE  GathersDown(u, I, F)'
  BY MarkerAssumption DEF Kept, GathersDown, ThumbsOwn, ThumbOwn, Owned, Plain

LEMMA KeptGathersUp ==
  ASSUME Parents, NEW u, Kept(u), NEW I, NEW F, NEW R, NEW A,
         Root \notin I \cup F \cup R, GathersUp(u, I, F, R, A)
  PROVE  GathersUp(u, I, F, R, A)'
  BY KeptParent, KeptValid DEF Kept, GathersUp, ValidParent, ActiveFolder

LEMMA KeptDown ==
  ASSUME NEW u, Kept(u), NEW R, Down(u, R)
  PROVE  Down(u, R)'
  BY DEF Kept, Down, ValidParent, ActiveFolder, Plain

LEMMA KeptUp ==
  ASSUME Parents, NEW u, Kept(u), NEW R, Root \notin R, Up(u, R)
  PROVE  Up(u, R)'
  BY KeptParent DEF Kept, Up, ValidParent, ActiveFolder, Back, Plain

LEMMA KeptWhole ==
  ASSUME NEW u, Kept(u), NEW item, NEW R, Whole(u, item, R)
  PROVE  Whole(u, item, R)'
<1>1. PICK S \in SUBSET Ids :
        /\ item \in S /\ ChildrenOf(S, u) \subseteq S
        /\ \A k \in S : \/ docs[k] = Gone
                        \/ Owned(k, u) /\ (~docs[k].trashed \/ k \in R)
  BY DEF Whole
<1>2. (ChildrenOf(S, u) \subseteq S)'
  BY <1>1 DEF ChildrenOf, Kept
<1>3. \A k \in S : \/ docs'[k] = Gone
                   \/ Owned(k, u)' /\ (~docs'[k].trashed \/ k \in R)
  BY <1>1 DEF Kept
<1> QED
  BY <1>1, <1>2, <1>3 DEF Whole

\* What a request has in hand stays good while others work.
LEMMA KeptInHand ==
  ASSUME Parents, ThumbsOwn, NEW q, Fits(q), Kept(q.user), InHand(q)
  PROVE  InHand(q)'
<1>1. /\ q.ids \subseteq Ids /\ q.front \subseteq Ids /\ q.roots \subseteq Ids
      /\ Root \notin q.ids \cup q.front \cup q.roots
  BY MarkerAssumption DEF Fits, Request
<1>2. Places(q) => Places(q)'
  <2>1. q.op = "move" => q.item \in Ids
    BY DEF Fits, Request
  <2> QED
    BY <2>1, KeptValid DEF Places, Kept
<1>3. Collects(q) => Collects(q)'
  <2> SUFFICES ASSUME Collects(q) PROVE Collects(q)'
    OBVIOUS
  <2>1. Gathers(q.user, q.ids, q.front, q.roots)'
    BY <1>1, KeptGathers DEF Collects
  <2>2. q.op = "remove" => GathersDown(q.user, q.ids, q.front)'
    BY KeptGathersDown DEF Collects
  <2>3. \A A : GathersUp(q.user, q.ids, q.front, q.roots, A)
               => GathersUp(q.user, q.ids, q.front, q.roots, A)'
    BY <1>1, KeptGathersUp
  <2>4. q.op # "remove" =>
            GathersUp(q.user, q.ids, q.front, q.roots, Awaited(q))'
    BY <2>3 DEF Collects, Awaited
  <2>5. q.op = "restore" =>
            Owned(q.item, q.user)' /\ docs'[q.item].type # "thumbnail"
    BY DEF Collects, Kept
  <2> QED
    BY <2>1, <2>2, <2>4, <2>5 DEF Collects
<1>4. Updates(q) => Updates(q)'
  BY <1>1, KeptDown, KeptUp, KeptWhole, KeptFewer, FewerSettled DEF Updates
<1>5. \A R : Whole(q.user, q.item, R) => Whole(q.user, q.item, R)'
  BY KeptWhole
<1> QED
  BY <1>2, <1>3, <1>4, <1>5 DEF InHand

\* A step that is none of u's.
LEMMA OtherUser ==
  ASSUME TypeOK, Parents, ThumbsOwn, NEW u, SerialFor(u), Kept(u),
         \A t \in Tasks : t \in Busy(u) \/ t \in Busy(u)' => task'[t] = task[t],
         \A j \in purging' : Owned(j, u)' => j \in purging
  PROVE  SerialFor(u)'
<1>1. Busy(u)' = Busy(u) /\ \A t \in Busy(u) : task'[t] = task[t]
  BY DEF Busy
<1>2. Alone(u)'
  <2>1. purging \subseteq Ids
    BY DEF TypeOK
  <2>2. \A j \in purging' :
            Owned(j, u)' => docs'[j].trashed /\ Busy(u)' = {}
    BY <1>1, <2>1 DEF SerialFor, Alone, Kept
  <2>3. \A s, t \in Busy(u)' : s = t
    BY <1>1 DEF SerialFor, Alone
  <2> QED
    BY <2>2, <2>3 DEF Alone
<1>3. ASSUME NEW t \in Busy(u)' PROVE InHand(task[t])'
  <2>1. task[t] # NoTask /\ task[t].user = u /\ t \in Tasks /\ InHand(task[t])
    BY <1>1, <1>3 DEF Busy, SerialFor
  <2>2. PICK q : q = task[t]
    OBVIOUS
  <2>3. Fits(q)
    BY <2>1, <2>2, TypeParts DEF FitsOrNone
  <2>4. InHand(q)'
    BY <2>1, <2>2, <2>3, KeptInHand
  <2>5. task'[t] = q
    BY <1>1, <1>3, <2>2
  <2> QED
    BY <2>4, <2>5
<1>4. (\A t \in Busy(u)' : task'[t].pc # "update") => Settled(u)'
  BY <1>1, KeptFewer, FewerSettled DEF SerialFor
<1> QED
  BY <1>2, <1>3, <1>4 DEF SerialFor

\* what u's request t has done, if u's requests still run one at a time
OwnStep(u, t, r) ==
    /\ Busy(u) \subseteq {t}
    /\ \A j \in purging : ~Owned(j, u)'
    /\ r # NoTask => InHand(r)'
    /\ (r = NoTask \/ r.pc # "update") => Settled(u)'

LEMMA OneTask ==
  ASSUME Context, NEW u \in Users, NEW t \in Tasks, NEW r,
         task' = [task EXCEPT ![t] = r],
         task[t] = NoTask \/ task[t].user = u, r = NoTask \/ r.user = u,
         purging' = purging, disturbed \subseteq disturbed',
         \A v \in Users \ {u} : Kept(v),
         u \notin disturbed' => OwnStep(u, t, r)
  PROVE  AllSerial'
<1>1. task \in [Tasks -> Request \cup {NoTask}]
  BY TypeParts DEF Context
<1>2. task'[t] = r /\ \A s \in Tasks \ {t} : task'[s] = task[s]
  BY <1>1
<1>3. ASSUME NEW v \in Users \ disturbed', v # u PROVE SerialFor(v)'
  BY <1>2, <1>3, OtherUser DEF Context, SerialInv, AllSerial, Busy
<1>4. ASSUME u \notin disturbed' PROVE SerialFor(u)'
  <2>1. Busy(u)' \subseteq {t} /\ (r = NoTask => Busy(u)' = {})
    BY <1>2, <1>4 DEF OwnStep, Busy
  <2>2. Alone(u)'
    BY <1>4, <2>1 DEF Alone, OwnStep
  <2>3. \A s \in Busy(u)' : s = t /\ r # NoTask /\ InHand(task[s])'
    BY <1>2, <1>4, <2>1 DEF OwnStep
  <2>4. (\A s \in Busy(u)' : task'[s].pc # "update") => Settled(u)'
    BY <1>2, <1>4, <2>1 DEF OwnStep, Busy
  <2> QED
    BY <2>2, <2>3, <2>4 DEF SerialFor
<1> QED
  BY <1>3, <1>4 DEF AllSerial

\* Of a user undisturbed, the request t is the only one.
LEMMA OnlyOne ==
  ASSUME Context, NEW t \in Tasks, task[t] # NoTask,
         task[t].user \notin disturbed
  PROVE  /\ task[t].user \in Users /\ SerialFor(task[t].user)
         /\ Busy(task[t].user) \subseteq {t} /\ Fits(task[t]) /\ InHand(task[t])
         /\ \A j \in purging : ~Owned(j, task[t].user)
         /\ task[t].pc # "update" => Settled(task[t].user)
<1>1. Fits(task[t]) /\ task[t].user \in Users
  BY TypeParts DEF Context, FitsOrNone, Fits, Request
<1>2. SerialFor(task[t].user)
  BY <1>1 DEF Context, SerialInv, AllSerial
<1>3. t \in Busy(task[t].user)
  BY DEF Busy
<1>4. InHand(task[t])
  BY <1>2, <1>3 DEF SerialFor
<1>5. Busy(task[t].user) \subseteq {t}
  BY <1>2, <1>3 DEF SerialFor, Alone
<1> QED
  BY <1>1, <1>2, <1>3, <1>4, <1>5 DEF SerialFor, Alone

LEMMA SameDocsKept == ASSUME NEW u, docs' = docs PROVE Kept(u)
  BY DEF Kept, Owned, Exists

\* A step that writes no document.
LEMMA ReadStep ==
  ASSUME Context, NEW t \in Tasks, task[t] # NoTask, NEW r,
         task' = [task EXCEPT ![t] = r], r = NoTask \/ r.user = task[t].user,
         docs' = docs, purging' = purging, disturbed \subseteq disturbed',
         task[t].user \notin disturbed' =>
            /\ r # NoTask => InHand(r)
            /\ (task[t].pc = "update" /\ (r = NoTask \/ r.pc # "update"))
                   => Settled(task[t].user)
  PROVE  AllSerial'
<1>1. PICK u : u = task[t].user
  OBVIOUS
<1>2. u \in Users
  BY <1>1, TypeParts DEF Context, FitsOrNone, Fits, Request
<1>3. task'[t] = r
  BY TypeParts DEF Context
<1>4. ASSUME u \notin disturbed' PROVE OwnStep(u, t, r)
  <2>1. /\ Busy(u) \subseteq {t} /\ \A j \in purging : ~Owned(j, u)
        /\ task[t].pc # "update" => Settled(u)
    BY <1>1, <1>4, OnlyOne
  <2>2. \A j \in purging : ~Owned(j, u)'
    BY <2>1 DEF Owned, Exists
  <2>3. ASSUME r # NoTask PROVE InHand(r)'
    <3>1. Fits(r)
      <4>1. FitsOrNone(task[t])'
        BY TaskAssumption DEF Context, TypeOK, FitsOrNone, Fits
      <4>2. FitsOrNone(r)
        BY <1>3, <4>1 DEF FitsOrNone, Fits
      <4> QED
        BY <2>3, <4>2 DEF FitsOrNone
    <3>2. InHand(r) /\ r.user = u
      BY <1>1, <1>4, <2>3
    <3> QED
      BY <3>1, <3>2, KeptInHand, SameDocsKept DEF Context, SerialInv
  <2>4. (r = NoTask \/ r.pc # "update") => Settled(u)
    BY <1>1, <1>4, <2>1
  <2>5. Settled(u) => Settled(u)'
    BY SameDocsKept, KeptFewer, FewerSettled
  <2> QED
    BY <2>1, <2>2, <2>3, <2>4, <2>5 DEF OwnStep
<1> QED
  BY <1>1, <1>2, <1>4, OneTask, SameDocsKept

LEMMA AnswerSerial ==
  ASSUME Context, NEW t \in Tasks, task[t] # NoTask, AnswerTask(t),
         docs' = docs, purging' = purging, disturbed \subseteq disturbed',
         task[t].user \notin disturbed' =>
             (task[t].pc = "update" => Settled(task[t].user))
  PROVE  AllSerial'
  BY ReadStep DEF AnswerTask

LEMMA GotoSerial ==
  ASSUME Context, OnlyTask, NEW t \in Tasks, task[t] # NoTask,
         NEW pc, Goto(t, pc), pc # "update", task[t].pc # "update",
         task[t].user \notin disturbed => InHand([task[t] EXCEPT !.pc = pc])
  PROVE  AllSerial'
<1> DEFINE r == [task[t] EXCEPT !.pc = pc]
<1>1. task' = [task EXCEPT ![t] = r]
  BY DEF Goto
<1>2. r.user = task[t].user
  BY TypeParts DEF Context, FitsOrNone, Fits, Request
<1>3. docs' = docs /\ purging' = purging /\ disturbed' = disturbed
  BY DEF OnlyTask
<1> HIDE DEF r
<1> QED
  BY <1>1, <1>2, <1>3, ReadStep DEF r

-----------------------------------------------------------------------------
(* Requests that place a document, and reads                               *)

LEMMA PlaceSerial ==
  ASSUME Context, NEW t \in Tasks,
         \/ Validate(t) \/ Look(t) \/ LoadMove(t) \/ ValidateTarget(t)
         \/ Walk(t) \/ LoadPath(t) \/ PathUp(t) \/ Reread(t)
  PROVE  AllSerial'
<1> DEFINE q == task[t]
<1>1. /\ q # NoTask /\ q.pc # "update" /\ OnlyTask
      /\ docs' = docs /\ purging' = purging /\ disturbed' = disturbed
  BY DEF Validate, Look, LoadMove, ValidateTarget, Walk, LoadPath, PathUp,
         Reread, TaskAt, OnlyTask
<1>2. CASE AnswerTask(t)
  BY <1>1, <1>2, AnswerSerial
<1>3. Fits(q) /\ q \in Request
  BY <1>1, TypeParts DEF Context, FitsOrNone, Fits
<1>4. q.user \notin disturbed => InHand(q)
  BY <1>1, OnlyOne
<1>5. CASE Validate(t) /\ ~AnswerTask(t)
  <2>1. /\ q.pc = "validate" /\ ValidParent(q.parent, q.user)
        /\ Goto(t, IF q.op = "create" THEN "look" ELSE "write")
    BY <1>5 DEF Validate, TaskAt
  <2>2. CASE q.op = "create"
    <3>1. q.user \notin disturbed => InHand([q EXCEPT !.pc = "look"])
      BY <1>3, <1>4, <2>1, <2>2 DEF InHand, Places, Request
    <3> QED
      BY <1>1, <2>1, <2>2, <3>1, GotoSerial
  <2>3. CASE q.op # "create"
    <3>1. q.user \notin disturbed => InHand([q EXCEPT !.pc = "write"])
      BY <1>3, <1>4, <2>1, <2>3 DEF InHand, Places, Request
    <3> QED
      BY <1>1, <2>1, <2>3, <3>1, GotoSerial
  <2> QED
    BY <2>2, <2>3
<1>6. CASE Look(t) /\ ~AnswerTask(t)
  <2>1. q.pc = "look" /\ Goto(t, "insert")
    BY <1>6 DEF Look, TaskAt
  <2>2. q.user \notin disturbed => InHand([q EXCEPT !.pc = "insert"])
    BY <1>3, <1>4, <2>1 DEF InHand, Places, Request
  <2> QED
    BY <1>1, <2>1, <2>2, GotoSerial
<1>7. CASE LoadMove(t) /\ ~AnswerTask(t)
  <2> DEFINE f == docs[q.item].type = "folder"
             r == [q EXCEPT !.pc = "validate", !.folder = f]
  <2>1. /\ q.pc = "load" /\ q.op = "move" /\ ~docs[q.item].trashed
        /\ task' = [task EXCEPT ![t] = r]
    BY <1>7 DEF LoadMove, TaskAt
  <2> HIDE DEF f
  <2>2. r.user = q.user /\ InHand(r)
    BY <1>3, <2>1 DEF InHand, Places, Request
  <2> HIDE DEF r
  <2> QED
    BY <1>1, <2>1, <2>2, ReadStep
<1>8. CASE ValidateTarget(t) /\ ~AnswerTask(t)
  <2>1. q.pc = "validate" /\ q.folder
    BY <1>8 DEF ValidateTarget, TaskAt
  <2>2. CASE q.parent = Root
    <3>1. Goto(t, "write")
      BY <1>8, <2>2 DEF ValidateTarget
    <3>2. q.user \notin disturbed => InHand([q EXCEPT !.pc = "write"])
      BY <1>3, <1>4, <2>1, <2>2 DEF InHand, Places, Request, ValidParent
    <3> QED
      BY <1>1, <2>1, <3>1, <3>2, GotoSerial
  <2>3. CASE q.parent # Root
    <3> DEFINE r == [q EXCEPT !.pc = "walk", !.cur = q.parent]
    <3>1. task' = [task EXCEPT ![t] = r] /\ ValidParent(q.parent, q.user)
      BY <1>8, <2>3 DEF ValidateTarget
    <3>2. r.user = q.user /\ (q.user \notin disturbed => InHand(r))
      BY <1>3, <1>4, <2>1, <3>1 DEF InHand, Places, Request
    <3> HIDE DEF r
    <3> QED
      BY <1>1, <3>1, <3>2, ReadStep
  <2> QED
    BY <2>2, <2>3
<1>9. CASE Walk(t) /\ ~AnswerTask(t)
  <2> DEFINE c == q.cur
             p == docs[c].parent
             pc == IF p = Root THEN "write" ELSE "walk"
             cur == IF p = Root THEN NoId ELSE p
             r == [q EXCEPT !.seen = q.seen \cup {c}, !.pc = pc, !.cur = cur]
  <2>1. q.pc = "walk" /\ task' = [task EXCEPT ![t] = r]
    BY <1>9 DEF Walk, TaskAt
  <2>2. pc \in {"write", "walk"}
    OBVIOUS
  <2> HIDE DEF pc, cur, p, c
  <2>3. r.user = q.user /\ (q.user \notin disturbed => InHand(r))
    BY <1>3, <1>4, <2>1, <2>2 DEF InHand, Places, Request
  <2> HIDE DEF r
  <2> QED
    BY <1>1, <2>1, <2>3, ReadStep
<1>10. ASSUME NEW i, Climb(t, i), ~AnswerTask(t)
       PROVE  AllSerial'
  <2> DEFINE p == docs[i].parent
             r == [q EXCEPT !.pc = "path", !.seen = q.seen \cup {i}, !.cur = p]
  <2>1. task' = [task EXCEPT ![t] = r]
    BY <1>10 DEF Climb, AnswerTask
  <2> HIDE DEF p
  <2>2. r.user = q.user /\ InHand(r)
    BY <1>3 DEF InHand, Request
  <2> HIDE DEF r
  <2> QED
    BY <1>1, <2>1, <2>2, ReadStep
<1> QED
  BY <1>2, <1>5, <1>6, <1>7, <1>8, <1>9, <1>10 DEF LoadPath, PathUp, Reread

-----------------------------------------------------------------------------
(* Collecting what a remove or a restore writes                            *)

\* A thumbnail has no thumbnail and nothing in it.
LEMMA ThumbLeaf ==
  ASSUME Parents, ThumbsOwn, NEW u, NEW i \in Ids, Owned(i, u),
         NEW j, j = docs[i].thumb, j # NoId
  PROVE  /\ j \in Ids /\ docs[i].type = "file"
         /\ Owned(j, u) => /\ docs[j].type = "thumbnail" /\ Thumb(j) = {}
                           /\ \A k \in Ids : Owned(k, u) => docs[k].parent # j
<1>1. /\ j \in Ids /\ docs[i].type = "file"
      /\ Exists(j) => docs[j].type = "thumbnail"
  BY DEF ThumbsOwn, ThumbOwn, Owned
<1>2. ASSUME Owned(j, u) PROVE Thumb(j) = {}
  BY <1>1, <1>2 DEF ThumbsOwn, ThumbOwn, Owned, Thumb
<1>3. ASSUME Owned(j, u), NEW k \in Ids, Owned(k, u) PROVE docs[k].parent # j
  <2>1. Root \notin Ids
    BY MarkerAssumption
  <2>2. GoodParent(docs[k].parent, docs[k].user)
    BY <1>3 DEF Parents, Owned
  <2>3. Exists(j) /\ docs[j].type = "thumbnail"
    BY <1>1, <1>3 DEF Owned
  <2> QED
    BY <1>1, <2>1, <2>2, <2>3 DEF GoodParent, GoodFolder
<1>4. Owned(j, u) => docs[j].type = "thumbnail"
  BY <1>1 DEF Owned
<1> QED
  BY <1>1, <1>2, <1>3, <1>4

LEMMA StartGathers ==
  ASSUME Parents, ThumbsOwn, NEW u, NEW i \in Ids, Owned(i, u),
         docs[i].type # "thumbnail"
  PROVE  /\ Gathers(u, Thumb(i), {i}, {})
         /\ GathersDown(u, Thumb(i), {i})
         /\ \A A : (docs[i].parent = Root \/ docs[i].parent \in A)
                    => GathersUp(u, Thumb(i), {i}, {}, A)
<1>1. \A j \in Thumb(i) :
          /\ j \in Ids /\ j = docs[i].thumb
          /\ Owned(j, u) => /\ docs[j].type = "thumbnail" /\ Thumb(j) = {}
                            /\ \A k \in Ids : Owned(k, u) => docs[k].parent # j
  BY ThumbLeaf DEF Thumb
<1>2. Gathers(u, Thumb(i), {i}, {})
  BY <1>1 DEF Gathers
<1>3. GathersDown(u, Thumb(i), {i})
  BY <1>1 DEF GathersDown
<1>4. ASSUME NEW A, docs[i].parent = Root \/ docs[i].parent \in A
      PROVE  GathersUp(u, Thumb(i), {i}, {}, A)
  BY <1>1, <1>4 DEF GathersUp, ValidParent
<1> QED
  BY <1>2, <1>3, <1>4

\* the thumbnails of S
Thumbs(S) == {docs[i].thumb : i \in S} \ {NoId}

LEMMA ThumbsLeaf ==
  ASSUME Parents, ThumbsOwn, NEW u, NEW S \in SUBSET Ids,
         \A i \in S : Owned(i, u), NEW j \in Thumbs(S), Owned(j, u)
  PROVE  /\ docs[j].type = "thumbnail" /\ Thumb(j) = {}
         /\ \A k \in Ids : Owned(k, u) => docs[k].parent # j
         /\ \E i \in S : docs[i].thumb = j
  BY ThumbLeaf DEF Thumbs

LEMMA SelectGathers ==
  ASSUME Parents, ThumbsOwn, NEW u, NEW R \in SUBSET Ids,
         \A i \in R : Owned(i, u)
  PROVE  /\ Gathers(u, Thumbs(R), {}, R)
         /\ \A A : (\A i \in R : docs[i].parent \in {Root} \cup R \cup A)
                    => GathersUp(u, Thumbs(R), {}, R, A)
<1>1. \A j \in Thumbs(R) : Owned(j, u) =>
          /\ docs[j].type = "thumbnail" /\ Thumb(j) = {}
          /\ \A k \in Ids : Owned(k, u) => docs[k].parent # j
  BY ThumbsLeaf
<1>2. \A k \in R : Thumb(k) \subseteq Thumbs(R)
  BY DEF Thumb, Thumbs
<1>3. Gathers(u, Thumbs(R), {}, R)
  BY <1>1, <1>2 DEF Gathers
<1>4. ASSUME NEW A, \A i \in R : docs[i].parent \in {Root} \cup R \cup A
      PROVE  GathersUp(u, Thumbs(R), {}, R, A)
  BY <1>1, <1>4 DEF GathersUp, ValidParent
<1> QED
  BY <1>3, <1>4

\* one round: what is below F joins as K
Round(u, I, F, J, K) ==
    K = ChildrenOf(F, u) /\ J = I \cup F \cup Thumbs(K)

LEMMA RoundGathers ==
  ASSUME Parents, ThumbsOwn, NEW u, NEW I, NEW F, NEW R, NEW K, NEW J,
         Round(u, I, F, J, K), Gathers(u, I, F, R)
  PROVE  /\ Gathers(u, J, K, R)
         /\ GathersDown(u, I, F) => GathersDown(u, J, K)
         /\ \A A : GathersUp(u, I, F, R, A) => GathersUp(u, J, K, R, A)
<1> K = ChildrenOf(F, u) /\ J = I \cup F \cup Thumbs(K)
  BY DEF Round
<1>0. \A k \in K : Plain(k)
  BY DEF ChildrenOf, Plain
<1>1. K \subseteq Ids /\ \A k \in K : Owned(k, u) /\ docs[k].parent \in F
  BY DEF ChildrenOf
<1>2. \A j \in Thumbs(K) : Owned(j, u) =>
          /\ docs[j].type = "thumbnail" /\ Thumb(j) = {}
          /\ \A k \in Ids : Owned(k, u) => docs[k].parent # j
          /\ \E i \in K : docs[i].thumb = j
  BY <1>1, ThumbsLeaf
<1>3. \A k \in K : Thumb(k) \subseteq Thumbs(K)
  BY DEF Thumb, Thumbs
<1>4. \A k \in Ids :
          Owned(k, u) /\ Plain(k) /\ docs[k].parent \in F => k \in K
  BY DEF ChildrenOf, Plain
<1> HIDE DEF Thumbs
<1>5. Gathers(u, J, K, R)
  <2>1. \A k \in Ids : (/\ Owned(k, u) /\ Plain(k) /\ docs[k].parent \in J
                        /\ Owned(docs[k].parent, u)) => k \in J \cup K
    BY <1>2, <1>4 DEF Gathers
  <2>2. \A k \in Ids : (Owned(k, u) /\ k \in J \cup K \cup R)
                           => Thumb(k) \subseteq J
    BY <1>2, <1>3 DEF Gathers
  <2>3. \A k \in Ids : (Owned(k, u) /\ docs[k].parent \in K \cup R)
                           => Owned(docs[k].parent, u)
    BY <1>1 DEF Gathers
  <2> QED
    BY <2>1, <2>2, <2>3 DEF Gathers
<1>6. ASSUME GathersDown(u, I, F) PROVE GathersDown(u, J, K)
  BY <1>0, <1>1, <1>2, <1>6 DEF GathersDown
<1>7. ASSUME NEW A, GathersUp(u, I, F, R, A) PROVE GathersUp(u, J, K, R, A)
  <2> SUFFICES ASSUME NEW k \in Ids, Owned(k, u), docs[k].type # "thumbnail",
                      k \in J \cup K \cup R
               PROVE  \/ ValidParent(docs[k].parent, u)
                      \/ docs[k].parent \in A
                      \/ /\ docs[k].parent \in J \cup K \cup R
                         /\ Owned(docs[k].parent, u)
    BY DEF GathersUp
  <2>1. CASE k \in I \cup F \cup R
    BY <1>7, <2>1 DEF GathersUp
  <2>2. CASE k \in K
    BY <1>1, <2>2 DEF Gathers
  <2>3. CASE k \in Thumbs(K)
    BY <1>2, <2>3
  <2> QED
    BY <2>1, <2>2, <2>3
<1> QED
  BY <1>5, <1>6, <1>7

LEMMA EndDown ==
  ASSUME ThumbsOwn, NEW u, NEW I, Root \notin I, Gathers(u, I, {}, {}),
         GathersDown(u, I, {}), Settled(u)
  PROVE  Down(u, I)
<1>1. ASSUME NEW j \in Ids, Owned(j, u), ~docs[j].trashed,
             docs[j].type # "thumbnail", Plain(j), j \notin I
      PROVE  ValidParent(docs[j].parent, u) /\ docs[j].parent \notin I
  BY <1>1 DEF Gathers, Settled, ValidParent, ActiveFolder, Plain
<1>2. ASSUME NEW i \in Ids, NEW j \in Ids, Owned(i, u), ~docs[i].trashed,
             docs[i].thumb = j, Owned(j, u), i \notin I,
             ~(Plain(j) /\ docs[j].parent \in I), docs[j].trashed \/ j \in I
      PROVE  Plain(j) /\ ~ValidParent(docs[j].parent, u)
  <2>1. CASE docs[j].trashed
    BY <1>2, <2>1 DEF Settled, Plain
  <2>2. CASE j \in I
    <3>1. docs[j].type = "thumbnail" /\ \A k \in Ids \ {i} :
                                           Owned(k, u) => docs[k].thumb # j
      BY <1>2, MarkerAssumption DEF ThumbsOwn, ThumbOwn, Owned
    <3> QED
      BY <1>2, <2>2, <3>1 DEF GathersDown
  <2> QED
    BY <1>2, <2>1, <2>2
<1> QED
  BY <1>1, <1>2 DEF Down

LEMMA EndUp ==
  ASSUME Parents, NEW u, NEW I, Gathers(u, I, {}, {}),
         GathersUp(u, I, {}, {}, {}), Settled(u)
  PROVE  Up(u, I)
<1>1. ASSUME NEW j \in Ids, Owned(j, u), ~docs[j].trashed \/ j \in I,
             docs[j].type # "thumbnail", Plain(j)
      PROVE  ValidParent(docs[j].parent, u) \/ Back(docs[j].parent, u, I)
  BY <1>1 DEF GathersUp, Settled, Back, Plain
<1>2. ASSUME NEW i \in Ids, NEW j \in Ids, Owned(i, u),
             ~docs[i].trashed \/ i \in I, docs[i].thumb = j, Owned(j, u),
             docs[j].trashed, j \notin I
      PROVE  /\ Plain(j) /\ ~ValidParent(docs[j].parent, u)
             /\ ~Back(docs[j].parent, u, I)
  <2>1. i \notin I
    BY <1>2, MarkerAssumption DEF Gathers, Thumb
  <2>2. Plain(j) /\ ~ValidParent(docs[j].parent, u)
    BY <1>2, <2>1 DEF Settled, Plain
  <2>3. ~Back(docs[j].parent, u, I)
    BY <1>2, <2>2 DEF Gathers, Back
  <2> QED
    BY <2>2, <2>3
<1> QED
  BY <1>1, <1>2 DEF Up

LEMMA EndWhole ==
  ASSUME Parents, NEW u, NEW I, Gathers(u, I, {}, {}), NEW i \in Ids,
         Owned(i, u), i \in I
  PROVE  Whole(u, i, I)
<1> DEFINE S == {k \in Ids : k \in I /\ Owned(k, u)}
<1>1. ChildrenOf(S, u) \subseteq S
  BY DEF ChildrenOf, Gathers, Plain
<1>2. S \in SUBSET Ids /\ i \in S /\ \A k \in S : Owned(k, u) /\ k \in I
  OBVIOUS
<1> HIDE DEF S
<1> QED
  BY <1>1, <1>2 DEF Whole

LEMMA LoadRootSerial ==
  ASSUME Context, NEW t \in Tasks, LoadRoot(t)
  PROVE  AllSerial'
<1> DEFINE q == task[t]
           i == q.item
           u == q.user
<1>1. /\ q # NoTask /\ q.pc = "load" /\ q.op \in {"remove", "restore"}
      /\ docs' = docs /\ purging' = purging /\ disturbed \subseteq disturbed'
      /\ Exists(i) /\ docs[i].type = "thumbnail" => u \in disturbed'
  BY DEF LoadRoot, TaskAt, Disturb
<1>2. CASE AnswerTask(t)
  BY <1>1, <1>2, AnswerSerial
<1>3. CASE ~AnswerTask(t)
  <2> DEFINE pc == IF q.op = "restore" /\ docs[i].parent # Root
                   THEN "parent" ELSE "collect"
             p == docs[i].parent
             th == Thumb(i)
             r == [q EXCEPT !.pc = pc, !.parent = p, !.front = {i}, !.ids = th]
  <2>1. Owned(i, u) /\ task' = [task EXCEPT ![t] = r]
    BY <1>3 DEF LoadRoot
  <2>2. Fits(q) /\ q \in Request /\ i \in Ids
    BY <1>1, TypeParts DEF Context, FitsOrNone, Fits, Request
  <2>3. ASSUME u \notin disturbed' PROVE InHand(r)
    <3>1. docs[i].type # "thumbnail" /\ InHand(q)
      BY <1>1, <2>1, <2>3, OnlyOne DEF Owned
    <3>2. /\ Gathers(u, th, {i}, {})
          /\ GathersDown(u, th, {i})
          /\ \A A : (p = Root \/ p \in A) => GathersUp(u, th, {i}, {}, A)
      BY <2>1, <2>2, <3>1, StartGathers DEF Context, SerialInv
    <3>3. q.roots = {} /\ q.checks = {}
      BY <1>1, <3>1 DEF InHand
    <3>4. q.op = "restore" => GathersUp(u, th, {i}, {},
                                        IF pc = "parent" THEN {p} ELSE {})
      BY <3>2
    <3>5. pc \in {"parent", "collect"} /\ (pc = "parent" => q.op = "restore")
      OBVIOUS
    <3> HIDE DEF pc, p, th
    <3>6. /\ r.op = q.op /\ r.user = u /\ r.item = i /\ r.pc = pc
          /\ r.parent = p /\ r.front = {i} /\ r.ids = th
          /\ r.roots = {} /\ r.checks = {}
      BY <2>2, <3>3 DEF Request
    <3> HIDE DEF r
    <3>7. Collects(r)
      BY <1>1, <2>1, <2>2, <3>1, <3>2, <3>4, <3>5, <3>6
         DEF Collects, Awaited, Restores
    <3> QED
      BY <3>5, <3>6, <3>7 DEF InHand
  <2>4. r.user = u
    <3> HIDE DEF pc, p, th
    <3> QED
      BY <2>2 DEF Request
  <2> HIDE DEF r
  <2> QED
    BY <1>1, <2>1, <2>3, <2>4, ReadStep
<1> QED
  BY <1>2, <1>3

LEMMA ParentValid ==
  ASSUME Parents, NEW u, NEW k \in Ids, Owned(k, u),
         Restorable(docs[k].parent, u)
  PROVE  ValidParent(docs[k].parent, u)
  BY DEF Parents, GoodParent, GoodFolder, Owned, Restorable, ValidParent,
         ActiveFolder

LEMMA CheckParentSerial ==
  ASSUME Context, NEW t \in Tasks, CheckParent(t)
  PROVE  AllSerial'
<1> DEFINE q == task[t]
           r == [q EXCEPT !.pc = "collect"]
<1>1. q # NoTask /\ q.pc = "parent" /\ OnlyTask
  BY DEF CheckParent, TaskAt
<1>2. CASE AnswerTask(t)
  BY <1>1, <1>2, AnswerSerial DEF OnlyTask
<1>3. CASE ~AnswerTask(t)
  <2>1. Goto(t, "collect") /\ Restorable(q.parent, q.user)
    BY <1>3 DEF CheckParent
  <2>2. ASSUME q.user \notin disturbed PROVE InHand(r)
    <3>1. Collects(q) /\ q \in Request
      BY <1>1, <2>2, OnlyOne DEF InHand, Fits
    <3>2. GathersUp(q.user, q.ids, q.front, q.roots, {q.parent})
          /\ q.op = "restore"
      BY <1>1, <3>1 DEF Collects, Awaited
    <3>3. GathersUp(q.user, q.ids, q.front, q.roots, {})
      BY <2>1, <3>2, ParentValid DEF Context, GathersUp
    <3>4. /\ r.op = q.op /\ r.user = q.user /\ r.item = q.item
          /\ r.pc = "collect" /\ r.front = q.front /\ r.ids = q.ids
          /\ r.roots = q.roots /\ r.checks = q.checks
      BY <3>1 DEF Request
    <3> HIDE DEF r
    <3>5. Collects(r)
      BY <1>1, <3>1, <3>2, <3>3, <3>4 DEF Collects, Awaited
    <3> QED
      BY <3>4, <3>5 DEF InHand
  <2> QED
    BY <1>1, <2>1, <2>2, GotoSerial
<1> QED
  BY <1>2, <1>3

LEMMA SelectSerial ==
  ASSUME Context, NEW t \in Tasks, Select(t)
  PROVE  AllSerial'
<1> DEFINE q == task[t]
           u == q.user
<1>1. /\ q # NoTask /\ q.pc = "select" /\ OnlyTask
      /\ docs' = docs /\ purging' = purging /\ disturbed' = disturbed
  BY DEF Select, TaskAt, OnlyTask
<1>2. CASE AnswerTask(t)
  BY <1>1, <1>2, AnswerSerial
<1>3. CASE ~AnswerTask(t)
  <2> DEFINE R == IF q.op = "restoreAll"
                  THEN {i \in Ids : InTrash(i, u)} ELSE q.roots
             C == {docs[i].parent : i \in R} \ (R \cup {Root})
             r == [q EXCEPT !.pc = "checks", !.roots = R, !.checks = C,
                            !.ids = Thumbs(R)]
  <2>1. (\A i \in R : InTrash(i, u)) /\ task' = [task EXCEPT ![t] = r]
    BY <1>3 DEF Select, Thumbs
  <2>2. Fits(q) /\ q \in Request
    BY <1>1, TypeParts DEF Context, FitsOrNone, Fits
  <2>3. R \subseteq Ids
    BY <2>2 DEF Request
  <2>4. \A i \in R : docs[i].parent \in {Root} \cup R \cup C
    OBVIOUS
  <2> HIDE DEF R, C
  <2>5. /\ Gathers(u, Thumbs(R), {}, R)
        /\ GathersUp(u, Thumbs(R), {}, R, C)
    BY <2>1, <2>3, <2>4, SelectGathers
       DEF Context, SerialInv, InTrash
  <2>6. /\ r.op = q.op /\ r.user = u /\ r.pc = "checks"
        /\ r.front = q.front /\ r.ids = Thumbs(R)
        /\ r.roots = R /\ r.checks = C
    BY <2>2 DEF Request
  <2> HIDE DEF r
  <2>7. ASSUME u \notin disturbed PROVE InHand(r)
    <3>1. q.op \in {"restoreBatch", "restoreAll"} /\ q.front = {}
      BY <1>1, <2>7, OnlyOne DEF InHand
    <3>2. Collects(r)
      BY <2>5, <2>6, <3>1 DEF Collects, Awaited, Restores
    <3> QED
      BY <2>6, <3>2 DEF InHand
  <2> QED
    BY <1>1, <2>1, <2>6, <2>7, ReadStep
<1> QED
  BY <1>2, <1>3

LEMMA CheckRootsSerial ==
  ASSUME Context, NEW t \in Tasks, CheckRoots(t)
  PROVE  AllSerial'
<1> DEFINE q == task[t]
           u == q.user
<1>1. /\ q # NoTask /\ q.pc = "checks" /\ OnlyTask
      /\ docs' = docs /\ purging' = purging /\ disturbed' = disturbed
  BY DEF CheckRoots, TaskAt, OnlyTask
<1>2. CASE AnswerTask(t)
  BY <1>1, <1>2, AnswerSerial
<1>3. q \in Request
  BY <1>1, TypeParts DEF Context, FitsOrNone, Fits
<1>4. ASSUME u \notin disturbed
      PROVE  /\ Collects(q) /\ q.op \in {"restoreBatch", "restoreAll"}
             /\ GathersUp(u, q.ids, q.front, q.roots, q.checks)
  <2>1. Collects(q)
    BY <1>1, <1>4, OnlyOne DEF InHand
  <2> QED
    BY <1>1, <2>1 DEF Collects, Awaited
<1>5. CASE q.checks = {} /\ Goto(t, "collect")
  <2> DEFINE r == [q EXCEPT !.pc = "collect"]
  <2>1. /\ r.op = q.op /\ r.user = u /\ r.item = q.item
        /\ r.pc = "collect" /\ r.front = q.front /\ r.ids = q.ids
        /\ r.roots = q.roots /\ r.checks = q.checks
    BY <1>3 DEF Request
  <2> HIDE DEF r
  <2>2. ASSUME u \notin disturbed PROVE InHand(r)
    <3>1. Collects(r)
      BY <1>4, <1>5, <2>1, <2>2 DEF Collects, Awaited
    <3> QED
      BY <2>1, <3>1 DEF InHand
  <2> QED
    BY <1>1, <1>5, <2>2, GotoSerial DEF r
<1>6. ASSUME NEW p \in q.checks, Restorable(p, u),
             task' = [task EXCEPT ![t].checks = @ \ {p}]
      PROVE  AllSerial'
  <2> DEFINE r == [q EXCEPT !.checks = q.checks \ {p}]
  <2>1. task' = [task EXCEPT ![t] = r]
    BY <1>6
  <2>2. /\ r.op = q.op /\ r.user = u /\ r.item = q.item
        /\ r.pc = "checks" /\ r.front = q.front /\ r.ids = q.ids
        /\ r.roots = q.roots /\ r.checks = q.checks \ {p}
    BY <1>1, <1>3 DEF Request
  <2> HIDE DEF r
  <2>3. ASSUME u \notin disturbed PROVE InHand(r)
    <3>1. GathersUp(u, q.ids, q.front, q.roots, q.checks \ {p})
      BY <1>4, <1>6, <2>3, ParentValid DEF Context, GathersUp
    <3>2. Collects(r)
      BY <1>1, <1>4, <2>2, <2>3, <3>1 DEF Collects, Awaited
    <3> QED
      BY <2>2, <3>2 DEF InHand
  <2> QED
    BY <1>1, <2>1, <2>2, <2>3, ReadStep
<1> QED
  BY <1>2, <1>5, <1>6 DEF CheckRoots

LEMMA NextRootSerial ==
  ASSUME Context, NEW t \in Tasks, NextRoot(t)
  PROVE  AllSerial'
<1> DEFINE q == task[t]
           u == q.user
<1>1. PICK x \in q.roots : task' = [task EXCEPT ![t].front = {x},
                                               ![t].roots = @ \ {x}]
  BY DEF NextRoot
<1> DEFINE r == [q EXCEPT !.front = {x}, !.roots = q.roots \ {x}]
<1>2. /\ q # NoTask /\ q.pc = "collect" /\ q.front = {}
      /\ docs' = docs /\ purging' = purging /\ disturbed' = disturbed
      /\ task' = [task EXCEPT ![t] = r]
  BY <1>1 DEF NextRoot, TaskAt, OnlyTask
<1>3. q \in Request
  BY <1>2, TypeParts DEF Context, FitsOrNone, Fits
<1>4. /\ r.op = q.op /\ r.user = u /\ r.item = q.item
      /\ r.pc = "collect" /\ r.front = {x} /\ r.ids = q.ids
      /\ r.roots = q.roots \ {x} /\ r.checks = q.checks
  BY <1>2, <1>3 DEF Request
<1> HIDE DEF r
<1>5. ASSUME u \notin disturbed PROVE InHand(r)
  <2>1. Collects(q)
    BY <1>2, <1>5, OnlyOne DEF InHand
  <2>2. /\ Gathers(u, q.ids, {}, q.roots) /\ q.op \notin {"remove", "restore"}
        /\ GathersUp(u, q.ids, {}, q.roots, {})
    BY <1>2, <2>1 DEF Collects, Awaited
  <2>3. /\ {x} \cup (q.roots \ {x}) = q.roots
        /\ q.ids \cup {x} \cup (q.roots \ {x}) = q.ids \cup q.roots
    OBVIOUS
  <2>4. Gathers(u, q.ids, {x}, q.roots \ {x})
    BY <2>2, <2>3 DEF Gathers
  <2>5. GathersUp(u, q.ids, {x}, q.roots \ {x}, {})
    BY <2>2, <2>3 DEF GathersUp
  <2>6. Collects(r)
    BY <1>2, <1>4, <2>1, <2>2, <2>4, <2>5 DEF Collects, Awaited
  <2> QED
    BY <1>4, <2>6 DEF InHand
<1> QED
  BY <1>2, <1>4, <1>5, ReadStep

LEMMA CollectSerial ==
  ASSUME Context, NEW t \in Tasks, Collect(t)
  PROVE  AllSerial'
<1> DEFINE q == task[t]
           u == q.user
           K == ChildrenOf(q.front, u)
           J == q.ids \cup q.front \cup Thumbs(K)
           pc == IF K = {} /\ q.roots = {} THEN "update" ELSE "collect"
           r == [q EXCEPT !.ids = J, !.front = K, !.pc = pc]
<1>1. /\ q # NoTask /\ q.pc = "collect"
      /\ docs' = docs /\ purging' = purging /\ disturbed' = disturbed
      /\ task' = [task EXCEPT ![t] = r]
  BY DEF Collect, TaskAt, OnlyTask, NextFront, Thumbs
<1>2. q \in Request
  BY <1>1, TypeParts DEF Context, FitsOrNone, Fits
<1>3. (pc = "update" /\ K = {} /\ q.roots = {}) \/ pc = "collect"
  OBVIOUS
<1>4. /\ Root \notin J /\ q.ids \cup q.front \subseteq J
  <2>1. \A k \in K : docs[k].thumb \in Ids \cup {NoId}
    BY DEF Context, TypeOK, ChildrenOf, Owned, Exists, Doc
  <2> HIDE DEF K
  <2> QED
    BY <1>2, <2>1, MarkerAssumption DEF Request, Thumbs
<1>5. u \notin disturbed => /\ Collects(q) /\ Settled(u)
                            /\ Gathers(u, J, K, q.roots)
                            /\ q.op = "remove" => GathersDown(u, J, K)
                            /\ q.op # "remove" =>
                                   GathersUp(u, J, K, q.roots, {})
  <2> SUFFICES ASSUME u \notin disturbed
               PROVE  /\ Collects(q) /\ Settled(u)
                      /\ Gathers(u, J, K, q.roots)
                      /\ q.op = "remove" => GathersDown(u, J, K)
                      /\ q.op # "remove" => GathersUp(u, J, K, q.roots, {})
    OBVIOUS
  <2>1. Collects(q) /\ Settled(u)
    BY <1>1, OnlyOne DEF InHand
  <2>2. q.op # "remove" => GathersUp(u, q.ids, q.front, q.roots, {})
    BY <1>1, <2>1 DEF Collects, Awaited
  <2>3. Gathers(u, q.ids, q.front, q.roots)
        /\ (q.op = "remove" => GathersDown(u, q.ids, q.front))
    BY <2>1 DEF Collects
  <2>4. Round(u, q.ids, q.front, J, K)
    BY DEF Round
  <2> HIDE DEF K, J
  <2>5. /\ Gathers(u, J, K, q.roots)
        /\ GathersDown(u, q.ids, q.front) => GathersDown(u, J, K)
        /\ \A A : GathersUp(u, q.ids, q.front, q.roots, A)
                   => GathersUp(u, J, K, q.roots, A)
    <3>1. Parents /\ ThumbsOwn /\ Gathers(u, q.ids, q.front, q.roots)
      BY <2>3 DEF Context, SerialInv
    <3> QED
      BY <2>4, <3>1, RoundGathers
  <2> QED
    BY <2>1, <2>2, <2>3, <2>5
<1> HIDE DEF K, J, pc
<1>6. /\ r.op = q.op /\ r.user = u /\ r.item = q.item /\ r.pc = pc
      /\ r.front = K /\ r.ids = J /\ r.roots = q.roots
      /\ r.checks = q.checks /\ r.changed = q.changed
  BY <1>2 DEF Request
<1> HIDE DEF r
<1>7. ASSUME u \notin disturbed PROVE InHand(r)
  <2>1. CASE pc = "collect"
    <3>1. Collects(r)
      BY <1>1, <1>4, <1>5, <1>6, <1>7, <2>1 DEF Collects, Awaited
    <3> QED
      BY <1>6, <2>1, <3>1 DEF InHand
  <2>2. CASE pc = "update" /\ K = {} /\ q.roots = {}
    <3>1. q.op = "remove" => Down(u, J)
      BY <1>4, <1>5, <1>7, <2>2, EndDown DEF Context, SerialInv
    <3>2. q.op # "remove" => Up(u, J)
      BY <1>5, <1>7, <2>2, EndUp DEF Context
    <3>3. q.op = "restore" => Whole(u, q.item, J)
      BY <1>4, <1>5, <1>7, <2>2, EndWhole DEF Context, Collects
    <3>4. q.op \in {"remove"} \cup Restores
      BY <1>5, <1>7 DEF Collects
    <3>5. Updates(r)
      BY <1>5, <1>6, <1>7, <3>1, <3>2, <3>3, <3>4 DEF Updates
    <3> QED
      BY <1>6, <2>2, <3>5 DEF InHand
  <2> QED
    BY <1>3, <2>1, <2>2
<1> QED
  BY <1>1, <1>6, <1>7, ReadStep

-----------------------------------------------------------------------------
(* Writes                                                                  *)

\* document x becomes e, which differs in name, parent and trashed at most
Rewrites(x, e) ==
    /\ x \in Ids /\ Exists(x) /\ docs' = [docs EXCEPT ![x] = e]
    /\ e \notin {Unborn, Gone} /\ e.type = docs[x].type
    /\ e.user = docs[x].user /\ e.thumb = docs[x].thumb

\* document x is new
Inserts(x, d) ==
    /\ x \in Ids /\ docs[x] = Unborn /\ docs' = [docs EXCEPT ![x] = d]
    /\ d \notin {Unborn, Gone}

LEMMA RewriteKept ==
  ASSUME TypeOK, NEW x, NEW e, Rewrites(x, e), NEW v, docs[x].user # v
  PROVE  Kept(v)
  BY DEF TypeOK, Rewrites, Kept, Owned, Exists

LEMMA InsertKept ==
  ASSUME TypeOK, NEW x, NEW d, Inserts(x, d), NEW v, d.user # v
  PROVE  Kept(v)
  BY MarkerAssumption DEF TypeOK, Inserts, Kept, Owned, Exists

\* Nobody's document is born.
LEMMA RestThumbs ==
  ASSUME ThumbsOwn,
         \A i \in Ids :
            /\ docs[i] # Unborn => docs'[i] # Unborn
            /\ Exists(i)' => /\ Exists(i) /\ docs'[i].type = docs[i].type
                             /\ docs'[i].user = docs[i].user
                             /\ docs'[i].thumb = docs[i].thumb
  PROVE  ThumbsOwn'
  BY DEF ThumbsOwn, ThumbOwn

LEMMA RewriteThumbs ==
  ASSUME TypeOK, ThumbsOwn, NEW x, NEW e, Rewrites(x, e)
  PROVE  ThumbsOwn'
<1>1. \A i \in Ids :
            /\ docs[i] # Unborn => docs'[i] # Unborn
            /\ Exists(i)' => /\ Exists(i) /\ docs'[i].type = docs[i].type
                             /\ docs'[i].user = docs[i].user
                             /\ docs'[i].thumb = docs[i].thumb
  BY DEF TypeOK, Rewrites, Exists
<1> QED
  BY <1>1, RestThumbs

LEMMA InsertThumbs ==
  ASSUME TypeOK, ThumbsOwn, NEW x, NEW d, Inserts(x, d),
         d.thumb # NoId =>
            /\ d.type = "file" /\ d.thumb \in Ids
            /\ \/ docs[d.thumb] = Gone
               \/ /\ Exists(d.thumb) /\ docs[d.thumb].user = d.user
                  /\ docs[d.thumb].type = "thumbnail" /\ Unused(d.thumb)
  PROVE  ThumbsOwn'
<1>1. /\ x \in Ids /\ docs[x] = Unborn /\ docs'[x] = d
      /\ \A i \in Ids \ {x} : docs'[i] = docs[i]
      /\ Exists(x)' /\ ~Exists(x)
  BY DEF TypeOK, Inserts, Exists
<1>2. \A i \in Ids \ {x} : Exists(i)' <=> Exists(i)
  BY <1>1 DEF Exists
<1>3. ThumbOwn(x)'
  BY <1>1, <1>2, MarkerAssumption DEF ThumbOwn, Unused, Exists
<1>4. ASSUME NEW i \in Ids \ {x}, Exists(i) PROVE ThumbOwn(i)'
  <2>1. ThumbOwn(i)
    BY <1>4 DEF ThumbsOwn
  <2>2. CASE docs[i].thumb = NoId
    BY <1>1, <2>2 DEF ThumbOwn
  <2>3. CASE docs[i].thumb # NoId
    <3> DEFINE th == docs[i].thumb
    <3>1. th \in Ids \ {x} /\ docs'[i].thumb = th
      BY <1>1, <2>1, <2>3 DEF ThumbOwn
    <3>2. Exists(th) => d.thumb # th
      BY <1>4, <2>3 DEF Unused, Exists
    <3> QED
      BY <1>1, <1>2, <1>4, <2>1, <2>3, <3>1, <3>2 DEF ThumbOwn
  <2> QED
    BY <2>2, <2>3
<1> QED
  BY <1>2, <1>3, <1>4 DEF ThumbsOwn

LEMMA InsertSettled ==
  ASSUME TypeOK, Parents, ThumbsOwn, NEW x, NEW d, Inserts(x, d), NEW u,
         d.user = u, ~d.trashed, ValidParent(d.parent, u), d.thumb # x,
         d.thumb \in Ids /\ Owned(d.thumb, u) => ~docs[d.thumb].trashed,
         Settled(u)
  PROVE  Settled(u)'
<1>1. /\ x \in Ids /\ docs[x] = Unborn /\ docs'[x] = d
      /\ \A i \in Ids \ {x} : docs'[i] = docs[i]
      /\ Owned(x, u)' /\ ~Owned(x, u)
  BY DEF TypeOK, Inserts, Owned, Exists
<1>2. \A i \in Ids \ {x} : Owned(i, u)' <=> Owned(i, u)
  BY <1>1 DEF Owned, Exists
<1>3. \A p : p # x => (ValidParent(p, u) <=> ValidParent(p, u)')
  BY <1>1, <1>2 DEF ValidParent, ActiveFolder
<1>4. /\ d.parent # x
      /\ \A i \in Ids : Owned(i, u) => docs[i].parent # x /\ docs[i].thumb # x
  <2>1. d.parent # x
    BY <1>1, MarkerAssumption DEF ValidParent, ActiveFolder
  <2>2. x # Root /\ x # NoId
    BY <1>1, MarkerAssumption
  <2>3. ASSUME NEW i \in Ids, Owned(i, u)
        PROVE  docs[i].parent # x /\ docs[i].thumb # x
    BY <1>1, <2>2, <2>3
       DEF Parents, GoodParent, GoodFolder, ThumbsOwn, ThumbOwn, Owned
  <2> QED
    BY <2>1, <2>3
<1>5. ASSUME NEW i \in Ids, Owned(i, u)', ~docs'[i].trashed,
             docs'[i].type # "thumbnail", docs'[i].spelling = Canonical,
             NEW p, p = docs'[i].parent
      PROVE  ValidParent(p, u)'
  BY <1>1, <1>2, <1>3, <1>4, <1>5 DEF Settled
<1>6. ASSUME NEW i \in Ids, NEW j \in Ids, Owned(i, u)', ~docs'[i].trashed,
             docs'[i].thumb = j, Owned(j, u)', docs'[j].trashed,
             NEW p, p = docs'[j].parent
      PROVE  docs'[j].spelling = Canonical /\ ~ValidParent(p, u)'
  BY <1>1, <1>2, <1>3, <1>4, <1>6 DEF Settled
<1> HIDE DEF ValidParent
<1>7. Settled(u)'
  BY <1>5, <1>6 DEF Settled, ValidParent, ActiveFolder
<1> QED
  BY <1>7

LEMMA MoveSettled ==
  ASSUME TypeOK, Parents, NEW x, NEW e, Rewrites(x, e), NEW u,
         docs[x].user = u, e.trashed = docs[x].trashed,
         e.parent # docs[x].parent \/ e.spelling # docs[x].spelling =>
             ~e.trashed /\ ValidParent(e.parent, u),
         Settled(u)
  PROVE  Settled(u)'
<1>1. /\ x \in Ids /\ docs'[x] = e /\ Owned(x, u) /\ Owned(x, u)'
      /\ \A i \in Ids \ {x} : docs'[i] = docs[i]
      /\ e.type = docs[x].type /\ e.thumb = docs[x].thumb
  BY DEF TypeOK, Rewrites, Owned, Exists
<1>2. \A i \in Ids : Owned(i, u)' <=> Owned(i, u)
  BY <1>1 DEF Owned, Exists
<1>3. \A p : ValidParent(p, u) <=> ValidParent(p, u)'
  BY <1>1, <1>2 DEF ValidParent, ActiveFolder
<1>4. ASSUME NEW i \in Ids, Owned(i, u)', ~docs'[i].trashed,
             docs'[i].type # "thumbnail", docs'[i].spelling = Canonical,
             NEW p, p = docs'[i].parent
      PROVE  ValidParent(p, u)'
  BY <1>1, <1>2, <1>3, <1>4 DEF Settled
<1>5. ASSUME NEW i \in Ids, NEW j \in Ids, Owned(i, u)', ~docs'[i].trashed,
             docs'[i].thumb = j, Owned(j, u)', docs'[j].trashed,
             NEW p, p = docs'[j].parent
      PROVE  docs'[j].spelling = Canonical /\ ~ValidParent(p, u)'
  BY <1>1, <1>2, <1>3, <1>5 DEF Settled
<1> QED
  BY <1>4, <1>5 DEF Settled, ValidParent, ActiveFolder

\* one document of an update_many
Sets(u, k, b) ==
    /\ k \in Ids /\ b \in BOOLEAN
    /\ \/ ~Owned(k, u) /\ UNCHANGED docs
       \/ Owned(k, u) /\ Rewrites(k, [docs[k] EXCEPT !.trashed = b])

LEMMA SetsKeep ==
  ASSUME TypeOK, NEW u, NEW k, NEW b, Sets(u, k, b)
  PROVE  \A i \in Ids :
            /\ Owned(i, u)' <=> Owned(i, u)
            /\ Owned(i, u) =>
                  /\ docs'[i].type = docs[i].type
                  /\ docs'[i].thumb = docs[i].thumb
                  /\ docs'[i].parent = docs[i].parent
                  /\ docs'[i].spelling = docs[i].spelling
                  /\ docs'[i].trashed = IF i = k THEN b ELSE docs[i].trashed
<1>1. CASE UNCHANGED docs /\ ~Owned(k, u)
  BY <1>1 DEF Owned, Exists
<1>2. CASE Owned(k, u) /\ Rewrites(k, [docs[k] EXCEPT !.trashed = b])
  <2> DEFINE e == [docs[k] EXCEPT !.trashed = b]
  <2>1. docs[k] \in Doc /\ k \in Ids
    BY <1>2 DEF TypeOK, Rewrites, Exists
  <2>2. /\ e.trashed = b /\ e.parent = docs[k].parent
        /\ e.type = docs[k].type /\ e.user = docs[k].user
        /\ e.thumb = docs[k].thumb /\ e.spelling = docs[k].spelling
        /\ e \notin {Unborn, Gone}
    BY <1>2, <2>1 DEF Doc, Rewrites
  <2>3. docs'[k] = e /\ \A i \in Ids \ {k} : docs'[i] = docs[i]
    BY <1>2 DEF Rewrites, TypeOK
  <2> HIDE DEF e
  <2> QED
    BY <1>2, <2>1, <2>2, <2>3 DEF Owned, Exists
<1> QED
  BY <1>1, <1>2 DEF Sets

LEMMA SetsDown ==
  ASSUME TypeOK, NEW u, NEW k, NEW R, Sets(u, k, TRUE), k \in R,
         Down(u, R)
  PROVE  Down(u, R \ {k})'
<1>1. \A i \in Ids :
            /\ Owned(i, u)' <=> Owned(i, u)
            /\ Owned(i, u) =>
                  /\ docs'[i].type = docs[i].type
                  /\ docs'[i].thumb = docs[i].thumb
                  /\ docs'[i].parent = docs[i].parent
                  /\ docs'[i].spelling = docs[i].spelling
                  /\ docs'[i].trashed = IF i = k THEN TRUE ELSE docs[i].trashed
  BY SetsKeep
<1>2. \A p : ValidParent(p, u)' <=> ValidParent(p, u) /\ p # k
  BY <1>1, MarkerAssumption DEF Sets, ValidParent, ActiveFolder
<1>3. ASSUME NEW j \in Ids, Owned(j, u)', ~docs'[j].trashed,
             docs'[j].type # "thumbnail", j \notin R \ {k},
             docs'[j].spelling = Canonical, NEW p, p = docs'[j].parent
      PROVE  ValidParent(p, u)' /\ p \notin R \ {k}
  <2>1. /\ Owned(j, u) /\ ~docs[j].trashed /\ docs[j].type # "thumbnail"
        /\ Plain(j) /\ j \notin R /\ p = docs[j].parent
    <3>1. docs'[j].spelling = docs[j].spelling /\ Owned(j, u)
      BY <1>1, <1>3
    <3>2. Plain(j)
      BY <1>3, <3>1 DEF Plain
    <3>3. docs'[j].trashed = IF j = k THEN TRUE ELSE docs[j].trashed
      BY <1>1, <3>1
    <3>4. docs'[j].type = docs[j].type /\ docs'[j].parent = docs[j].parent
      BY <1>1, <3>1
    <3> QED
      BY <1>3, <3>1, <3>2, <3>3, <3>4
  <2>2. ValidParent(p, u) /\ p \notin R
    BY <1>3, <2>1 DEF Down
  <2> QED
    BY <1>2, <2>2
<1>4. ASSUME NEW i \in Ids, NEW j \in Ids, Owned(i, u)', ~docs'[i].trashed,
             docs'[i].thumb = j, Owned(j, u)', i \notin R \ {k},
             NEW p, p = docs'[j].parent, ~(Plain(j)' /\ p \in R \ {k}),
             docs'[j].trashed \/ j \in R \ {k}
      PROVE  Plain(j)' /\ ~ValidParent(p, u)'
  <2>1. /\ Owned(i, u) /\ ~docs[i].trashed /\ i # k /\ docs[i].thumb = j
        /\ Owned(j, u) /\ p = docs[j].parent
        /\ docs[j].trashed \/ j \in R
        /\ Plain(j)' <=> Plain(j)
    BY <1>1, <1>4 DEF Plain
  <2>2. Plain(j) /\ (p = k \/ ~ValidParent(p, u))
    BY <1>4, <2>1 DEF Down
  <2> QED
    BY <1>2, <2>1, <2>2
<1> QED
  BY <1>3, <1>4 DEF Down, ValidParent, ActiveFolder, Plain

LEMMA SetsUp ==
  ASSUME TypeOK, Parents, NEW u, NEW k, NEW R, R \subseteq Ids,
         Sets(u, k, FALSE), k \in R, Up(u, R)
  PROVE  Up(u, R \ {k})'
<1>1. \A i \in Ids :
            /\ Owned(i, u)' <=> Owned(i, u)
            /\ Owned(i, u) =>
                  /\ docs'[i].type = docs[i].type
                  /\ docs'[i].thumb = docs[i].thumb
                  /\ docs'[i].parent = docs[i].parent
                  /\ docs'[i].spelling = docs[i].spelling
                  /\ docs'[i].trashed = IF i = k THEN FALSE ELSE docs[i].trashed
  BY SetsKeep
<1>2. ASSUME NEW j \in Ids, Owned(j, u), NEW p, p = docs[j].parent
      PROVE  \/ ValidParent(p, u)' \/ Back(p, u, R \ {k})'
             \/ ~ValidParent(p, u) /\ ~Back(p, u, R)
  <2>1. p # Root => p \in Ids /\ (Owned(p, u) => docs[p].type = "folder")
    BY <1>2 DEF Parents, GoodParent, GoodFolder, Owned
  <2> QED
    BY <1>1, <2>1 DEF ValidParent, ActiveFolder, Back
<1>3. ASSUME NEW p, ValidParent(p, u)' \/ Back(p, u, R \ {k})'
      PROVE  ValidParent(p, u) \/ Back(p, u, R)
  <2>1. k \in Ids /\ Root \notin Ids
    BY MarkerAssumption DEF Sets
  <2>2. CASE ValidParent(p, u)'
    BY <1>1, <2>1, <2>2 DEF ValidParent, ActiveFolder, Back
  <2>3. CASE Back(p, u, R \ {k})'
    BY <1>1, <2>3, <2>1 DEF Back
  <2> QED
    BY <1>3, <2>2, <2>3
<1>4. ASSUME NEW j \in Ids, Owned(j, u)', ~docs'[j].trashed \/ j \in R \ {k},
             docs'[j].type # "thumbnail", docs'[j].spelling = Canonical,
             NEW p, p = docs'[j].parent
      PROVE  ValidParent(p, u)' \/ Back(p, u, R \ {k})'
  <2>1. /\ Owned(j, u) /\ (~docs[j].trashed \/ j \in R)
        /\ docs[j].type # "thumbnail" /\ Plain(j) /\ p = docs[j].parent
    <3>1. docs'[j].spelling = docs[j].spelling /\ Owned(j, u)
      BY <1>1, <1>4
    <3>2. Plain(j)
      BY <1>4, <3>1 DEF Plain
    <3>3. docs'[j].trashed = IF j = k THEN FALSE ELSE docs[j].trashed
      BY <1>1, <3>1
    <3>4. docs'[j].type = docs[j].type /\ docs'[j].parent = docs[j].parent
      BY <1>1, <3>1
    <3> QED
      BY <1>4, <3>1, <3>2, <3>3, <3>4
  <2>2. ValidParent(p, u) \/ Back(p, u, R)
    BY <1>4, <2>1 DEF Up
  <2> QED
    BY <1>2, <1>4, <2>1, <2>2
<1>5. ASSUME NEW i \in Ids, NEW j \in Ids, Owned(i, u)',
             ~docs'[i].trashed \/ i \in R \ {k}, docs'[i].thumb = j,
             Owned(j, u)', docs'[j].trashed, j \notin R \ {k},
             NEW p, p = docs'[j].parent
      PROVE  /\ Plain(j)'
             /\ ~ValidParent(p, u)' /\ ~Back(p, u, R \ {k})'
  <2>1. /\ Owned(i, u) /\ Owned(j, u) /\ docs[i].thumb = j
        /\ ~docs[i].trashed \/ i \in R
        /\ docs[j].trashed /\ j \notin R /\ p = docs[j].parent
        /\ Plain(j)' <=> Plain(j)
    BY <1>1, <1>5 DEF Plain
  <2>2. Plain(j) /\ ~ValidParent(p, u) /\ ~Back(p, u, R)
    BY <1>5, <2>1 DEF Up
  <2> QED
    BY <1>3, <2>1, <2>2
<1> QED
  BY <1>4, <1>5 DEF Up, ValidParent, ActiveFolder, Back, Plain

LEMMA SetsWhole ==
  ASSUME TypeOK, NEW u, NEW k, NEW R, NEW item, Sets(u, k, FALSE),
         Whole(u, item, R)
  PROVE  Whole(u, item, R \ {k})'
<1>1. \A i \in Ids :
            /\ Owned(i, u)' <=> Owned(i, u)
            /\ Owned(i, u) =>
                  /\ docs'[i].type = docs[i].type
                  /\ docs'[i].thumb = docs[i].thumb
                  /\ docs'[i].parent = docs[i].parent
                  /\ docs'[i].spelling = docs[i].spelling
                  /\ docs'[i].trashed = IF i = k THEN FALSE ELSE docs[i].trashed
  BY SetsKeep
<1>2. PICK S \in SUBSET Ids :
        /\ item \in S /\ ChildrenOf(S, u) \subseteq S
        /\ \A j \in S : \/ docs[j] = Gone
                        \/ Owned(j, u) /\ (~docs[j].trashed \/ j \in R)
  BY DEF Whole
<1>3. (ChildrenOf(S, u) \subseteq S)'
  BY <1>1, <1>2 DEF ChildrenOf
<1>4. \A j \in Ids : docs[j] = Gone => docs'[j] = Gone
  BY DEF Sets, Rewrites, Exists, TypeOK
<1>5. \A j \in S : \/ docs'[j] = Gone
                   \/ Owned(j, u)' /\ (~docs'[j].trashed \/ j \in R \ {k})
  BY <1>1, <1>2, <1>4
<1> QED
  BY <1>2, <1>3, <1>5 DEF Whole

LEMMA DownNone == ASSUME NEW u, Down(u, {})' PROVE Settled(u)'
  BY DEF Down, Settled, Plain

LEMMA UpNone == ASSUME NEW u, Up(u, {})' PROVE Settled(u)'
  BY DEF Up, Settled, Back, Plain

\* A request's step that may write documents of its user's.
LEMMA WroteStep ==
  ASSUME Context, NEW t \in Tasks, task[t] # NoTask, NEW r, NEW u,
         u = task[t].user,
         task' = [task EXCEPT ![t] = r], r = NoTask \/ r.user = u,
         purging' = purging, disturbed \subseteq disturbed',
         \A v \in Users \ {u} : Kept(v),
         \A j \in Ids : Owned(j, u)' => Owned(j, u) \/ docs[j] = Unborn,
         u \notin disturbed' =>
            /\ r # NoTask => InHand(r)'
            /\ (r = NoTask \/ r.pc # "update") => Settled(u)'
  PROVE  AllSerial'
<1>1. u \in Users
  BY TypeParts DEF Context, FitsOrNone, Fits, Request
<1>2. \A j \in purging : j \in Ids /\ docs[j] # Unborn
  BY DEF Context, TypeOK, Exists
<1>3. u \notin disturbed' => OwnStep(u, t, r)
  BY <1>2, OnlyOne DEF OwnStep
<1> QED
  BY <1>1, <1>3, OneTask

LEMMA SameThumbs == ASSUME ThumbsOwn, docs' = docs PROVE ThumbsOwn'
  BY RestThumbs DEF Exists

LEMMA InsertFolderSerial ==
  ASSUME Context, NEW t \in Tasks, InsertFolder(t)
  PROVE  SerialInv'
<1>0. PICK q, d : q = task[t] /\ d = Folder(t)
  OBVIOUS
<1>1. /\ q # NoTask /\ q.pc = "insert" /\ AnswerTask(t)
      /\ purging' = purging /\ disturbed' = disturbed
  BY <1>0 DEF InsertFolder, TaskAt
<1>2. CASE docs' = docs
  BY <1>0, <1>1, <1>2, AnswerSerial, SameThumbs DEF Context, SerialInv
<1>3. CASE docs' # docs
  <2>1. PICK x \in Ids : docs[x] = Unborn /\ docs' = [docs EXCEPT ![x] = d]
    BY <1>0, <1>3 DEF InsertFolder, Insert, UnbornIds
  <2>2. q \in Request
    BY <1>0, <1>1, TypeParts DEF Context, FitsOrNone, Fits
  <2>3. /\ d.user = q.user /\ d.thumb = NoId /\ d.parent = q.parent
        /\ ~d.trashed
    BY <1>0 DEF Folder
  <2>4. Inserts(x, d)
    <3>1. docs'[x] = d /\ d # Unborn /\ d # Gone
      <4>1. d \in Doc
        BY <1>0, <2>2 DEF Folder, Doc, Request, Types
      <4> QED
        BY <2>1, <4>1, MarkerAssumption DEF Context, TypeOK
    <3> QED
      BY <2>1, <3>1 DEF Inserts
  <2>5. ThumbsOwn'
    BY <2>3, <2>4, InsertThumbs DEF Context, SerialInv
  <2>6. \A v \in Users \ {q.user} : Kept(v)
    BY <2>3, <2>4, InsertKept DEF Context
  <2>7. \A j \in Ids : Owned(j, q.user)' => Owned(j, q.user) \/ docs[j] = Unborn
    BY <2>1 DEF Context, TypeOK, Owned, Exists
  <2>8. q.user \notin disturbed => Settled(q.user)'
    <3> SUFFICES ASSUME q.user \notin disturbed PROVE Settled(q.user)'
      OBVIOUS
    <3>2. ValidParent(q.parent, q.user) /\ Settled(q.user)
      BY <1>0, <1>1, OnlyOne DEF InHand, Places
    <3>3. d.thumb # x /\ d.thumb \notin Ids
      BY <2>1, <2>3, MarkerAssumption
    <3> QED
      BY <2>3, <2>4, <3>2, <3>3, InsertSettled DEF Context, SerialInv
  <2> QED
    BY <1>0, <1>1, <2>5, <2>6, <2>7, <2>8, WroteStep DEF SerialInv, AnswerTask
<1> QED
  BY <1>2, <1>3

LEMMA WriteSerial ==
  ASSUME Context, NEW t \in Tasks, Write(t)
  PROVE  SerialInv'
<1>0. PICK q, e : q = task[t] /\ e = Written(t)
  OBVIOUS
<1> DEFINE x == q.item
           u == q.user
<1>1. /\ q # NoTask /\ q.pc = "write" /\ AnswerTask(t)
      /\ purging' = purging /\ disturbed' = disturbed
  BY <1>0 DEF Write, TaskAt
<1>2. CASE docs' = docs
  BY <1>0, <1>1, <1>2, AnswerSerial, SameThumbs DEF Context, SerialInv
<1>3. CASE docs' # docs
  <2>1. Owned(x, u) /\ docs' = [docs EXCEPT ![x] = e]
    BY <1>0, <1>3 DEF Write, Put
  <2>2. q \in Request /\ docs[x] \in Doc /\ x \in Ids
    <3>1. x \in Ids
      BY <1>3, <2>1 DEF Context, TypeOK
    <3> QED
      BY <1>0, <1>1, <2>1, <3>1, TypeParts
         DEF Context, FitsOrNone, Fits, DocsTyped, Owned, Exists
  <2>3. /\ e \in Doc /\ e.type = docs[x].type /\ e.user = docs[x].user
        /\ e.thumb = docs[x].thumb /\ e.trashed = docs[x].trashed
        /\ IF q.op = "move" THEN e.parent = q.parent
           ELSE e.parent = docs[x].parent /\ e.spelling = docs[x].spelling
    <3>1. CASE q.op = "move"
      BY <1>0, <2>2, <3>1 DEF Written, Doc, Request
    <3>2. CASE q.op # "move"
      BY <1>0, <2>2, <3>2 DEF Written, Doc, Request
    <3> QED
      BY <3>1, <3>2
  <2>4. Rewrites(x, e) /\ docs[x].user = u
    BY <2>1, <2>2, <2>3, MarkerAssumption DEF Rewrites, Owned
  <2>5. ThumbsOwn'
    BY <2>4, RewriteThumbs DEF Context, SerialInv
  <2>6. \A v \in Users \ {u} : Kept(v)
    BY <2>4, RewriteKept DEF Context
  <2>7. \A j \in Ids : Owned(j, u)' => Owned(j, u) \/ docs[j] = Unborn
    BY <2>1 DEF Context, TypeOK, Owned, Exists
  <2>8. u \notin disturbed => Settled(u)'
    <3> SUFFICES ASSUME u \notin disturbed PROVE Settled(u)'
      OBVIOUS
    <3>1. Places(q) /\ Settled(u)
      BY <1>0, <1>1, OnlyOne DEF InHand
    <3>2. e.parent # docs[x].parent \/ e.spelling # docs[x].spelling
             => ~e.trashed /\ ValidParent(e.parent, u)
      BY <1>1, <2>1, <2>3, <3>1 DEF Places
    <3> QED
      BY <2>3, <2>4, <3>1, <3>2, MoveSettled DEF Context
  <2> QED
    BY <1>0, <1>1, <2>5, <2>6, <2>7, <2>8, WroteStep DEF SerialInv, AnswerTask
<1> QED
  BY <1>2, <1>3

LEMMA UpdateSerial ==
  ASSUME Context, NEW t \in Tasks, Update(t)
  PROVE  SerialInv'
<1>0. PICK q : q = task[t]
  OBVIOUS
<1> DEFINE u == q.user
           R == q.ids
<1>1. /\ q # NoTask /\ q.pc = "update"
      /\ purging' = purging /\ disturbed' = disturbed
  BY <1>0 DEF Update, TaskAt
<1>2. Fits(q) /\ q \in Request /\ R \subseteq Ids
  BY <1>0, <1>1, TypeParts DEF Context, FitsOrNone, Fits, Request
<1>3. PICK k \in R :
         /\ IF Owned(k, u) THEN Put(k, Retrashed(t, k)) ELSE UNCHANGED docs
         /\ Wrote(t, k)
  BY <1>0 DEF Update
<1> DEFINE b == q.op = "remove"
<1>4. Sets(u, k, b) /\ b \in BOOLEAN
  <2>1. Owned(k, u) => Rewrites(k, [docs[k] EXCEPT !.trashed = b])
    <3> SUFFICES ASSUME Owned(k, u)
                 PROVE  Rewrites(k, [docs[k] EXCEPT !.trashed = b])
      OBVIOUS
    <3>1. docs[k] \in Doc /\ k \in Ids
      BY <1>2 DEF Context, TypeOK, Owned, Exists
    <3>2. [docs[k] EXCEPT !.trashed = b] \in Doc
      BY <3>1 DEF Doc
    <3> QED
      BY <1>0, <1>3, <3>1, <3>2, MarkerAssumption
         DEF Rewrites, Put, Retrashed, Owned, Doc
  <2> QED
    BY <1>2, <1>3, <2>1 DEF Sets
<1>5. \A i \in Ids : /\ Owned(i, u)' <=> Owned(i, u)
                     /\ docs'[i] # docs[i] => i = k /\ Owned(k, u)
  BY <1>4, SetsKeep DEF Context, Sets, Rewrites, TypeOK
<1>6. /\ \A v \in Users \ {u} : Kept(v)
      /\ \A j \in Ids : Owned(j, u)' => Owned(j, u) \/ docs[j] = Unborn
      /\ ThumbsOwn'
  <2>1. CASE UNCHANGED docs
    BY <1>5, <2>1, SameDocsKept, SameThumbs DEF Context, SerialInv
  <2>2. CASE Owned(k, u) /\ Rewrites(k, [docs[k] EXCEPT !.trashed = b])
    BY <1>5, <2>2, RewriteKept, RewriteThumbs DEF Context, SerialInv, Owned
  <2> QED
    BY <1>4, <2>1, <2>2 DEF Sets
<1>7. u \notin disturbed =>
         /\ q.op \in {"remove"} \cup Restores
         /\ q.op = "remove" => Down(u, R \ {k})'
         /\ q.op # "remove" => Up(u, R \ {k})'
         /\ q.op = "restore" => Whole(u, q.item, R \ {k})'
         /\ q.op # "remove" /\ ~q.changed => Settled(u)
  <2> SUFFICES ASSUME u \notin disturbed
               PROVE  /\ q.op \in {"remove"} \cup Restores
                      /\ q.op = "remove" => Down(u, R \ {k})'
                      /\ q.op # "remove" => Up(u, R \ {k})'
                      /\ q.op = "restore" => Whole(u, q.item, R \ {k})'
                      /\ q.op # "remove" /\ ~q.changed => Settled(u)
    OBVIOUS
  <2>1. Updates(q)
    BY <1>0, <1>1, OnlyOne DEF InHand
  <2>2. Parents /\ TypeOK
    BY DEF Context
  <2>3. q.op = "remove" => Down(u, R \ {k})'
    BY <1>4, <2>1, <2>2, SetsDown DEF Updates
  <2>4. q.op # "remove" => Up(u, R \ {k})'
    BY <1>2, <1>4, <2>1, <2>2, SetsUp DEF Updates
  <2>5. q.op = "restore" => Whole(u, q.item, R \ {k})'
    BY <1>4, <2>1, <2>2, SetsWhole DEF Updates
  <2> QED
    BY <2>1, <2>3, <2>4, <2>5 DEF Updates
<1>8. CASE R # {k}
  <2>1. PICK c : c = (q.changed \/ (Owned(k, u) /\ docs[k].trashed
                                              /\ q.op # "remove"))
    OBVIOUS
  <2> DEFINE r == [q EXCEPT !.ids = R \ {k}, !.changed = c]
  <2>2. task' = [task EXCEPT ![t] = r]
    BY <1>0, <1>3, <1>8, <2>1 DEF Wrote
  <2>3. /\ r.op = q.op /\ r.user = u /\ r.item = q.item
        /\ r.pc = "update" /\ r.ids = R \ {k} /\ r.changed = c
    BY <1>1, <1>2 DEF Request
  <2>4. r # NoTask
    <3>1. c \in BOOLEAN /\ R \ {k} \in SUBSET Ids
      BY <1>2, <2>1 DEF Request
    <3>2. r \in Request
      BY <1>2, <3>1 DEF Request
    <3> QED
      BY <3>2, TaskAssumption
  <2> HIDE DEF r
  <2>5. ASSUME u \notin disturbed' PROVE InHand(r)'
    <3>1. q.op # "remove" /\ ~c => Settled(u)'
      <4> SUFFICES ASSUME q.op # "remove", ~c PROVE Settled(u)'
        OBVIOUS
      <4>1. Settled(u) /\ ~(Owned(k, u) /\ docs[k].trashed) /\ b = FALSE
        BY <1>1, <1>7, <2>1, <2>5
      <4>2. docs' = docs
        <5>1. CASE Owned(k, u)
          <6>1. docs[k] \in Doc /\ docs[k].trashed = FALSE
            BY <1>2, <4>1, <5>1 DEF Context, TypeOK, Owned, Exists, Doc
          <6>2. [docs[k] EXCEPT !.trashed = b] = docs[k]
            BY <4>1, <6>1 DEF Doc
          <6>3. docs' = [docs EXCEPT ![k] = docs[k]]
            BY <1>4, <5>1, <6>2 DEF Sets, Rewrites
          <6> QED
            BY <6>3 DEF Context, TypeOK
        <5> QED
          BY <1>4, <5>1 DEF Sets
      <4> QED
        BY <4>1, <4>2, SameDocsKept, KeptFewer, FewerSettled
    <3>2. Updates(r)'
      BY <1>1, <1>7, <2>3, <2>5, <3>1 DEF Updates
    <3> QED
      BY <2>3, <3>2 DEF InHand
  <2> QED
    BY <1>0, <1>1, <1>6, <2>2, <2>3, <2>4, <2>5, WroteStep DEF SerialInv
<1>9. CASE R = {k} /\ q.op = "restore"
  <2> DEFINE r == [q EXCEPT !.ids = {}, !.pc = "reread"]
  <2>1. task' = [task EXCEPT ![t] = r]
    BY <1>0, <1>3, <1>9 DEF Wrote
  <2>2. /\ r.op = q.op /\ r.user = u /\ r.item = q.item
        /\ r.pc = "reread" /\ r.ids = {}
    BY <1>2 DEF Request
  <2> HIDE DEF r
  <2>3. ASSUME u \notin disturbed' PROVE InHand(r)' /\ Settled(u)'
    <3>1. Whole(u, q.item, {})' /\ Up(u, {})'
      <4>1. R \ {k} = {}
        BY <1>9
      <4> QED
        BY <1>1, <1>7, <1>9, <2>3, <4>1
    <3>2. Settled(u)'
      BY <3>1, UpNone
    <3> QED
      BY <1>9, <2>2, <3>1, <3>2 DEF InHand
  <2> QED
    BY <1>0, <1>1, <1>6, <2>1, <2>2, <2>3, WroteStep DEF SerialInv
<1>10. CASE R = {k} /\ q.op # "restore"
  <2>1. AnswerTask(t)
    BY <1>0, <1>3, <1>10 DEF Wrote, AnswerTask
  <2>2. ASSUME u \notin disturbed' PROVE Settled(u)'
    <3>1. R \ {k} = {}
      BY <1>10
    <3>2. Up(u, {})' \/ Down(u, {})'
      BY <1>1, <1>7, <1>10, <2>2, <3>1
    <3> QED
      BY <3>2, UpNone, DownNone
  <2> QED
    BY <1>0, <1>1, <1>6, <2>1, <2>2, WroteStep DEF SerialInv, AnswerTask
<1> QED
  BY <1>8, <1>9, <1>10

LEMMA ConflictSerial ==
  ASSUME Context, NEW t \in Tasks, UpdateConflicts(t)
  PROVE  SerialInv'
<1> DEFINE q == task[t]
           u == q.user
<1>1. /\ q # NoTask /\ q.pc = "update" /\ AnswerTask(t)
      /\ docs' = docs /\ purging' = purging /\ disturbed \subseteq disturbed'
      /\ q.changed => u \in disturbed'
  BY DEF UpdateConflicts, TaskAt, Disturb
<1>2. q \in Request
  BY <1>1, TypeParts DEF Context, FitsOrNone, Fits
<1>3. q.op # "remove"
  <2>1. PICK k \in q.ids : Owned(k, u) /\ ~IndexAllows(k, Retrashed(t, k))
    BY DEF UpdateConflicts
  <2>2. docs[k] \in Doc
    BY <1>2, <2>1 DEF Context, TypeOK, Owned, Exists, Request
  <2> QED
    BY <2>1, <2>2 DEF IndexAllows, Retrashed, Doc
<1>4. u \notin disturbed' => Settled(u)
  BY <1>1, <1>3, OnlyOne DEF InHand, Updates
<1> QED
  BY <1>1, <1>4, AnswerSerial, SameThumbs DEF Context, SerialInv

LEMMA CutSerial ==
  ASSUME Context, NEW t \in Tasks, Cut(t)
  PROVE  SerialInv'
<1>1. /\ task[t] # NoTask /\ AnswerTask(t)
      /\ docs' = docs /\ purging' = purging /\ disturbed \subseteq disturbed'
      /\ task[t].pc = "update" => task[t].user \in disturbed'
  BY DEF Cut, Disturb
<1> QED
  BY <1>1, AnswerSerial, SameThumbs DEF Context, SerialInv

\* A user without a request is one whose documents are settled.
LEMMA IdleSettled ==
  ASSUME Context, NEW u \in Users, u \notin disturbed, Busy(u) = {}
  PROVE  Settled(u) /\ Alone(u)
  BY DEF Context, SerialInv, AllSerial, SerialFor

LEMMA AskSerial ==
  ASSUME Context, NEW t \in Tasks, AskTask(t)
  PROVE  SerialInv'
<1>1. ASSUME NEW op, NEW pc, NEW u \in Users, NEW i, NEW p, NEW s, NEW n,
             NEW R, Ask(t, op, pc, u, i, p, s, n, R),
             \/ op = "create" /\ pc = "validate"
             \/ op = "rename" /\ pc = "write"
             \/ pc = "load" /\ R = {}
             \/ op \in {"restoreBatch", "restoreAll"} /\ pc = "select"
      PROVE  SerialInv'
  <2> DEFINE r == [op |-> op, pc |-> pc, user |-> u, item |-> i, parent |-> p,
                   spelling |-> s, name |-> n, folder |-> FALSE, cur |-> NoId, seen |-> {},
                   roots |-> R, checks |-> {}, front |-> {}, ids |-> {},
                   changed |-> FALSE]
  <2>1. /\ task[t] = NoTask /\ task' = [task EXCEPT ![t] = r]
        /\ docs' = docs /\ purging' = purging /\ disturbed \subseteq disturbed'
        /\ u \notin disturbed' =>
              Busy(u) = {} /\ ~\E j \in purging : Owned(j, u)
    BY <1>1 DEF Ask, Disturb
  <2>2. InHand(r) /\ r.user = u
    BY <1>1 DEF InHand, Places
  <2>3. TypeOK'
    BY DEF Context
  <2>4. task'[t] = r
    BY <2>1, TypeParts DEF Context
  <2> HIDE DEF r
  <2>5. ASSUME u \notin disturbed', r # NoTask PROVE InHand(r)'
    <3>1. FitsOrNone(task[t])'
      BY TaskAssumption DEF Context, TypeOK, FitsOrNone, Fits
    <3>2. Fits(r)
      BY <2>4, <2>5, <3>1 DEF FitsOrNone, Fits
    <3> QED
      BY <2>1, <2>2, <3>2, KeptInHand, SameDocsKept DEF Context, SerialInv
  <2>6. ASSUME u \notin disturbed' PROVE OwnStep(u, t, r)
    <3>1. Settled(u)'
      BY <2>1, <2>6, IdleSettled, SameDocsKept, KeptFewer, FewerSettled
    <3>2. \A j \in purging : ~Owned(j, u)'
      BY <2>1, <2>6 DEF Owned, Exists
    <3> QED
      BY <2>1, <2>5, <2>6, <3>1, <3>2 DEF OwnStep
  <2>7. AllSerial'
    BY <2>1, <2>2, <2>6, OneTask, SameDocsKept
  <2> QED
    BY <2>1, <2>7, SameThumbs DEF Context, SerialInv
<1>2. CASE AskCreate(t)
  BY <1>1, <1>2 DEF AskCreate
<1>3. CASE AskMove(t)
  BY <1>1, <1>3 DEF AskMove
<1>4. CASE AskRename(t)
  BY <1>1, <1>4 DEF AskRename
<1>5. CASE AskOne(t)
  BY <1>1, <1>5 DEF AskOne
<1>6. CASE AskBatch(t)
  BY <1>1, <1>6 DEF AskBatch
<1> QED
  BY <1>2, <1>3, <1>4, <1>5, <1>6 DEF AskTask

-----------------------------------------------------------------------------
(* Uploads and emptyings of the trash                                      *)

LEMMA UploadedSerial ==
  ASSUME Context, NEW x \in Ids, Uploaded(x)
  PROVE  SerialInv'
<1>1. PICK u \in Users, p \in Ids \cup {Root}, s \in Spellings,
           ty \in {"file", "thumbnail"}, h \in Hashes, th \in Ids \cup {NoId} :
               UploadedAs(x, u, p, s, ty, h, th)
  BY DEF Uploaded
<1> DEFINE d == [type |-> ty, user |-> u, name |-> NoName, parent |-> p,
                 spelling |-> s, hash |-> h, thumb |-> th, trashed |-> FALSE]
<1>2. /\ docs[x] = Unborn /\ docs' = [docs EXCEPT ![x] = d]
      /\ task' = task /\ purging' = purging /\ disturbed \subseteq disturbed'
      /\ u \notin disturbed' =>
             /\ Busy(u) = {} /\ ValidParent(p, u)
             /\ th # NoId /\ Exists(th) => ~docs[th].trashed
      /\ th # NoId => /\ ty = "file"
                      /\ \/ docs[th] = Gone
                         \/ /\ Owned(th, u) /\ docs[th].type = "thumbnail"
                            /\ Unused(th)
  BY <1>1, ZenonT(40) DEF Uploaded, UploadedAs, Insert, Disturb
<1>3. /\ d.user = u /\ d.thumb = th /\ d.parent = p /\ ~d.trashed
      /\ d.type = ty
  OBVIOUS
<1>4. d \in Doc
  BY DEF Doc, Types
<1> HIDE DEF d
<1>5. Inserts(x, d)
  BY <1>2, <1>4, MarkerAssumption DEF Inserts
<1>6. ThumbsOwn'
  BY <1>2, <1>3, <1>5, MarkerAssumption, InsertThumbs
     DEF Context, SerialInv, Owned
<1>7. \A j \in purging : j \in Ids /\ j # x
  BY <1>2 DEF Context, TypeOK, Exists
<1>8. ASSUME NEW v \in Users \ disturbed', v # u PROVE SerialFor(v)'
  <2>1. Kept(v)
    BY <1>3, <1>5, <1>8, InsertKept DEF Context
  <2>2. SerialFor(v)
    BY <1>2, <1>8 DEF Context, SerialInv, AllSerial
  <2> QED
    BY <1>2, <2>1, <2>2, OtherUser DEF Context, SerialInv
<1>9. ASSUME u \notin disturbed' PROVE SerialFor(u)'
  <2>1. Settled(u) /\ Alone(u)
    BY <1>2, <1>9, IdleSettled
  <2>2. d.thumb # x
    BY <1>2, <1>3, MarkerAssumption DEF Owned, Exists
  <2>3. Settled(u)'
    <3>1. d.thumb \in Ids /\ Owned(d.thumb, u) => ~docs[d.thumb].trashed
      BY <1>2, <1>3, <1>9, MarkerAssumption DEF Owned
    <3> QED
      BY <1>2, <1>3, <1>5, <1>9, <2>1, <2>2, <3>1, InsertSettled
         DEF Context, SerialInv
  <2>4. Busy(u)' = {}
    BY <1>2, <1>9 DEF Busy
  <2>5. \A j \in purging' : Owned(j, u)' => docs'[j].trashed
    <3>1. \A j \in purging : docs'[j] = docs[j]
      BY <1>2, <1>7 DEF Context, TypeOK
    <3> QED
      BY <1>2, <2>1, <3>1 DEF Alone, Owned, Exists
  <2> QED
    BY <2>3, <2>4, <2>5 DEF SerialFor, Alone
<1> QED
  BY <1>6, <1>8, <1>9 DEF SerialInv, AllSerial

LEMMA EraseThumbs ==
  ASSUME TypeOK, ThumbsOwn, NEW x \in Ids, Erase(x)
  PROVE  ThumbsOwn'
<1>1. \A i \in Ids :
            /\ docs[i] # Unborn => docs'[i] # Unborn
            /\ Exists(i)' => /\ Exists(i) /\ docs'[i].type = docs[i].type
                             /\ docs'[i].user = docs[i].user
                             /\ docs'[i].thumb = docs[i].thumb
  BY MarkerAssumption DEF TypeOK, Erase, Exists
<1> QED
  BY <1>1, RestThumbs

LEMMA PurgeSerial ==
  ASSUME Context, NEW x \in Ids, Purge(x)
  PROVE  SerialInv'
<1>1. /\ x \in purging /\ task' = task /\ purging' = purging \ {x}
      /\ disturbed' = disturbed
      /\ docs'[x] = Gone /\ \A i \in Ids \ {x} : docs'[i] = docs[i]
  BY DEF Purge, Erase, Context, TypeOK
<1>2. ThumbsOwn'
  BY EraseThumbs DEF Purge, Context, SerialInv
<1>3. ASSUME NEW v \in Users \ disturbed, ~Owned(x, v) PROVE SerialFor(v)'
  <2>1. Kept(v)
    BY <1>1, <1>3 DEF Kept, Owned, Exists
  <2>2. SerialFor(v)
    BY <1>3 DEF Context, SerialInv, AllSerial
  <2> QED
    BY <1>1, <2>1, <2>2, OtherUser DEF Context, SerialInv
<1>4. ASSUME NEW v \in Users \ disturbed, Owned(x, v) PROVE SerialFor(v)'
  <2>1. SerialFor(v) /\ Busy(v) = {} /\ docs[x].trashed
    BY <1>1, <1>4 DEF Context, SerialInv, AllSerial, SerialFor, Alone
  <2>2. Fewer(v)
    BY <1>1, <2>1 DEF Fewer, Owned, Exists
  <2>3. Settled(v)'
    BY <2>1, <2>2, FewerSettled DEF SerialFor
  <2>4. Busy(v)' = {}
    BY <1>1, <2>1 DEF Busy
  <2>5. \A j \in purging' : Owned(j, v)' => docs'[j].trashed
    BY <1>1, <2>1, <2>2 DEF SerialFor, Alone, Fewer, Context, TypeOK
  <2> QED
    BY <2>3, <2>4, <2>5 DEF SerialFor, Alone
<1> QED
  BY <1>1, <1>2, <1>3, <1>4 DEF SerialInv, AllSerial

LEMMA TakenBackSerial ==
  ASSUME Context, NEW x \in Ids, TakenBack(x)
  PROVE  SerialInv'
<1>1. /\ task' = task /\ purging' = purging \ {x} /\ disturbed' = disturbed
      /\ docs[x].type = "thumbnail"
      /\ docs'[x] = Gone /\ \A i \in Ids \ {x} : docs'[i] = docs[i]
  BY DEF TakenBack, Erase, Context, TypeOK
<1>2. ThumbsOwn'
  BY EraseThumbs DEF TakenBack, Context, SerialInv
<1>3. ASSUME NEW v \in Users \ disturbed PROVE SerialFor(v)'
  <2>1. Kept(v)
    BY <1>1 DEF Kept, Owned, Exists
  <2>2. SerialFor(v)
    BY <1>3 DEF Context, SerialInv, AllSerial
  <2> QED
    BY <1>1, <2>1, <2>2, OtherUser DEF Context, SerialInv
<1> QED
  BY <1>1, <1>2, <1>3 DEF SerialInv, AllSerial

\* Steps that change no document and no request.
LEMMA ListSerial ==
  ASSUME Context, StopPurge \/ \E u \in Users : ListTrash(u)
  PROVE  SerialInv'
<1>1. /\ docs' = docs /\ task' = task /\ disturbed \subseteq disturbed'
  BY DEF StopPurge, ListTrash, Disturb
<1>2. ThumbsOwn'
  BY <1>1, SameThumbs DEF Context, SerialInv
<1>3. ASSUME NEW v \in Users \ disturbed',
             \A j \in purging' : Owned(j, v)' => j \in purging
      PROVE  SerialFor(v)'
  <2>1. Kept(v) /\ SerialFor(v)
    BY <1>1, <1>3, SameDocsKept DEF Context, SerialInv, AllSerial
  <2> QED
    BY <1>1, <1>3, <2>1, OtherUser DEF Context, SerialInv
<1>4. CASE StopPurge
  BY <1>2, <1>3, <1>4 DEF StopPurge, SerialInv, AllSerial
<1>5. ASSUME NEW u \in Users, ListTrash(u) PROVE SerialInv'
  <2>1. /\ purging' = purging \cup TrashedBy(u)
        /\ u \notin disturbed' => Busy(u) = {}
    BY <1>5 DEF ListTrash, Disturb
  <2>2. ASSUME NEW v \in Users \ disturbed', v # u PROVE SerialFor(v)'
    BY <1>1, <1>3, <2>1, <2>2 DEF TrashedBy, Owned, Exists
  <2>3. ASSUME u \notin disturbed' PROVE SerialFor(u)'
    <3>1. Settled(u) /\ Alone(u) /\ Busy(u) = {}
      BY <1>1, <2>1, <2>3, IdleSettled
    <3>2. Settled(u)'
      BY <1>1, <3>1, SameDocsKept, KeptFewer, FewerSettled
    <3>3. Busy(u)' = {}
      BY <1>1, <3>1 DEF Busy
    <3>4. \A j \in purging' : Owned(j, u)' => docs'[j].trashed
      BY <1>1, <2>1, <3>1 DEF Alone, TrashedBy, Owned, Exists
    <3> QED
      BY <3>2, <3>3, <3>4 DEF SerialFor, Alone
  <2> QED
    BY <1>2, <2>2, <2>3 DEF SerialInv, AllSerial
<1> QED
  BY <1>4, <1>5

-----------------------------------------------------------------------------
(* The theorems                                                            *)

LEMMA SerialStart ==
  ASSUME Init
  PROVE  SerialInv
<1>1. ThumbsOwn
  <2> SUFFICES ASSUME NEW i \in Ids, Exists(i), docs[i].thumb # NoId
               PROVE  ThumbOwn(i)
    BY DEF ThumbsOwn, ThumbOwn
  <2>1. docs[i] \in Doc
    BY SeedAssumption DEF Init, Exists
  <2>2. docs[i].thumb \in Ids
    BY <2>1 DEF Doc
  <2> QED
    BY <2>2, SeedTreeAssumption DEF SoundSeeds, Init, Exists, ThumbOwn
<1>2. ASSUME NEW u \in Users \ disturbed PROVE SerialFor(u)
  <2>1. Settled(u) /\ Busy(u) = {} /\ purging = {}
    BY <1>2 DEF Init, Busy
  <2> QED
    BY <2>1 DEF SerialFor, Alone
<1> QED
  BY <1>1, <1>2 DEF SerialInv, AllSerial

LEMMA SerialStep ==
  ASSUME Context, [Next]_vars
  PROVE  SerialInv'
<1>1. CASE UNCHANGED vars
  <2>1. docs' = docs /\ task' = task /\ purging' = purging
        /\ disturbed' = disturbed
    BY <1>1 DEF vars
  <2>2. ASSUME NEW u \in Users \ disturbed PROVE SerialFor(u)'
    <3>1. SerialFor(u) /\ Kept(u)
      BY <2>1, <2>2, SameDocsKept DEF Context, SerialInv, AllSerial
    <3> QED
      BY <2>1, <3>1, OtherUser DEF Context, SerialInv
  <2> QED
    BY <2>1, <2>2, SameThumbs DEF Context, SerialInv, AllSerial
<1>2. ASSUME NEW t \in Tasks, TaskStep(t) PROVE SerialInv'
  <2>1. CASE \/ Validate(t) \/ Look(t) \/ LoadMove(t) \/ ValidateTarget(t)
             \/ Walk(t) \/ LoadPath(t) \/ PathUp(t) \/ Reread(t)
    <3>1. docs' = docs
      BY <2>1 DEF Validate, Look, LoadMove, ValidateTarget, Walk, LoadPath,
                  PathUp, Reread, OnlyTask
    <3> QED
      BY <2>1, <3>1, PlaceSerial, SameThumbs DEF Context, SerialInv
  <2>2. CASE \/ LoadRoot(t) \/ CheckParent(t) \/ Select(t) \/ CheckRoots(t)
             \/ Collect(t) \/ NextRoot(t)
    <3>1. docs' = docs
      BY <2>2 DEF LoadRoot, CheckParent, Select, CheckRoots, Collect,
                  NextRoot, OnlyTask
    <3> QED
      BY <2>2, <3>1, LoadRootSerial, CheckParentSerial, SelectSerial,
         CheckRootsSerial, CollectSerial, NextRootSerial, SameThumbs
         DEF Context, SerialInv
  <2> QED
    BY <1>2, <2>1, <2>2, InsertFolderSerial, WriteSerial, UpdateSerial,
       ConflictSerial DEF TaskStep
<1>3. CASE TrashStep
  BY <1>3, UploadedSerial, PurgeSerial, TakenBackSerial, ListSerial
     DEF TrashStep
<1> QED
  BY <1>1, <1>2, <1>3, AskSerial, CutSerial DEF Next

\* What the requests of a user have in hand while they run one at a time, and
\* what they leave.
THEOREM SerialInvariant == Spec => []SerialInv
<1>1. Init => SerialInv
  BY SerialStart
<1>2. (TreeInv /\ TreeInv' /\ SerialInv /\ [Next]_vars) => SerialInv'
  <2>1. (TreeInv /\ TreeInv' /\ SerialInv) => Context
    BY DEF TreeInv, TreeShape, Context
  <2> QED
    BY <2>1, SerialStep
<1>3. Spec => []TreeInv
  BY TreeInvariant
<1> QED
  BY <1>1, <1>2, <1>3, PTL DEF Spec

LEMMA SerialSound == SerialInv => SerialTreeSound
  BY DEF SerialInv, AllSerial, SerialFor, Settled, SerialTreeSound, Stray,
         ValidParent

LEMMA SerialWhole == TypeOK /\ SerialInv => RestoreIsWhole
<1> SUFFICES ASSUME TypeOK, SerialInv, NEW t \in Tasks, TaskAt(t, "reread"),
                    task[t].user \notin disturbed,
                    NEW i \in Below(task[t].item, task[t].user), Exists(i)
             PROVE  ~docs[i].trashed
  BY DEF RestoreIsWhole
<1> DEFINE u == task[t].user
<1>1. u \in Users /\ t \in Busy(u)
  BY TypeParts DEF FitsOrNone, Fits, Request, TaskAt, Busy
<1>2. Whole(u, task[t].item, {})
  BY <1>1 DEF SerialInv, AllSerial, SerialFor, InHand, TaskAt
<1>3. PICK S \in SUBSET Ids :
        /\ task[t].item \in S /\ ChildrenOf(S, u) \subseteq S
        /\ \A k \in S : docs[k] = Gone \/ (Owned(k, u) /\ ~docs[k].trashed)
  BY <1>2 DEF Whole
<1>4. i \in S
  BY <1>3 DEF Below
<1> QED
  BY <1>3, <1>4 DEF Exists

LEMMA SerialThumbs == SerialInv => ThumbnailFollows
<1> SUFFICES ASSUME SerialInv, NEW u \in Users \ disturbed,
                    \A t \in Busy(u) : task[t].pc # "update",
                    NEW i \in Ids, NEW j \in Ids, Owned(i, u),
                    ~docs[i].trashed, docs[i].thumb = j, Exists(j),
                    docs[j].parent = docs[i].parent,
                    docs[j].spelling = docs[i].spelling, docs[j].trashed
             PROVE  FALSE
  BY DEF ThumbnailFollows
<1>1. Settled(u)
  BY DEF SerialInv, AllSerial, SerialFor
<1>2. docs[i].type = "file" /\ Owned(j, u)
  BY MarkerAssumption DEF SerialInv, ThumbsOwn, ThumbOwn, Owned
<1> QED
  BY <1>1, <1>2 DEF Settled

\* While a user's requests run one at a time and to their end, an active file
\* or folder that is in no active folder has its parent in another spelling
\* than the collection asks for, however many documents and requests of others
\* there are (validate_parent, collect_related_item_ids, remove_file and
\* restore_file, which write a subtree one document after the other).
THEOREM SerialTree == Spec => []SerialTreeSound
  BY SerialInvariant, SerialSound, PTL

\* A restore that ran alone has brought back everything that parents spelled as
\* the collection asks for them connect with its folder, of any depth
\* (restore_file:628-636).
THEOREM RestoresAreWhole == Spec => []RestoreIsWhole
  BY TreeTypeCorrect, SerialInvariant, SerialWhole, PTL

\* While a user's requests run one at a time, no active file's thumbnail is in
\* the trash, but for one that stayed in a folder its file was moved out of, or
\* moved to another spelling of (collect_related_item_ids, which takes the
\* thumbnails along).
THEOREM ThumbnailsFollow == Spec => []ThumbnailFollows
  BY SerialInvariant, SerialThumbs, PTL
=============================================================================
