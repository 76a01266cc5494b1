-------------------------------- MODULE Tree --------------------------------
(***************************************************************************)
(* The folder tree: the requests of StorageService that create, move,      *)
(* rename, remove and restore documents and read their path, running as    *)
(* concurrent handlers.  A handler's locals live in its slot of task; one  *)
(* step is what it does from one await on the database to the next, and    *)
(* update_many writes one document per step.                               *)
(*                                                                         *)
(* Uploads and empty-trash requests (module Contents) appear as Uploaded,  *)
(* ListTrash, Purge and StopPurge.                                         *)
(***************************************************************************)
EXTENDS StorageRepo, Naturals

CONSTANTS
    Tasks,      \* slots for concurrent requests
    NoTask,     \* a slot without a request
    Ops,        \* the operations a run explores
    TrashOps    \* which of Contents' effects a run explores

VARIABLES
    task,       \* slot -> request in progress
    purging,    \* documents listed by an empty-trash in progress
    movesRaced, \* history: users with a folder moved while another of their
                \* folder moves was between its first walk step and its write
    disturbed   \* history: users two of whose requests overlapped, one of
                \* whose requests stopped half-way through its writes, or
                \* who named a thumbnail where files and folders are named --
                \* before the run starts, too

vars == <<docs, task, purging, movesRaced, disturbed>>

AllOps == {"create", "move", "rename", "remove", "restore", "restoreBatch",
           "restoreAll", "path"}

PCs == {"load", "validate", "walk", "look", "insert", "write", "parent",
        "select", "checks", "collect", "update", "reread", "path"}

Request == [op : AllOps, pc : PCs, user : Users,
            item : Ids \cup {NoId},      \* the request's own document
            parent : Ids \cup {Root},    \* the target folder, or the one read
            spelling : Spellings,        \* how parent_id spells the target
            name : Names \cup {NoName},
            folder : BOOLEAN,            \* cycle_check_id is Some
            cur : Ids \cup {NoId},       \* current_parent_oid, parent_oid
            seen : SUBSET Ids,
            roots : SUBSET Ids,          \* fileIds, then roots to collect
            checks : SUBSET Ids,         \* parents can_restore_item will read
            front : SUBSET Ids,          \* frontier
            ids : SUBSET Ids,            \* all_ids, then those not yet written
            changed : BOOLEAN]           \* history: has untrashed something

ASSUME TaskAssumption == NoTask \notin Request /\ Ops \subseteq AllOps

\* A run starts from a collection that the requests can have made: parents
\* are folders of the same user, deleted ones included, without cycles; only
\* files have a thumbnail, each one of its own, which may have been deleted.
SoundSeeds ==
    /\ \A i \in Ids : Seeded[i] \notin {Unborn, Gone} =>
          LET p == Seeded[i].parent IN
          \/ p = Root
          \/ Seeded[p] = Gone
          \/ /\ Seeded[p] # Unborn
             /\ Seeded[p].type = "folder"
             /\ Seeded[p].user = Seeded[i].user
    /\ \A S \in SUBSET {i \in Ids : Seeded[i] \notin {Unborn, Gone}} :
          S # {} => \E i \in S : Seeded[i].parent \notin S
    /\ \A i \in Ids : Seeded[i] \notin {Unborn, Gone} =>
          LET th == Seeded[i].thumb IN
          th # NoId => /\ Seeded[i].type = "file" /\ Seeded[th] # Unborn
                       /\ Seeded[th] # Gone =>
                             /\ Seeded[th].type = "thumbnail"
                             /\ Seeded[th].user = Seeded[i].user
                             /\ \A k \in Ids \ {i} :
                                   Seeded[k] \notin {Unborn, Gone}
                                       => Seeded[k].thumb # th

ASSUME SeedTreeAssumption == SoundSeeds

TaskAt(t, pc) == task[t] # NoTask /\ task[t].pc = pc
Busy(u) == {t \in Tasks : task[t] # NoTask /\ task[t].user = u}
Disturb(u, if) == disturbed' = disturbed \cup (IF if THEN {u} ELSE {})

\* ids that clients can know of
Born == {i \in Ids : docs[i] # Unborn}

-----------------------------------------------------------------------------
(* Requests arriving and answers                                           *)

Ask(t, op, pc, u, i, p, s, n, R) ==
    /\ task[t] = NoTask /\ op \in Ops
    /\ task' = [task EXCEPT ![t] =
          [op |-> op, pc |-> pc, user |-> u, item |-> i, parent |-> p,
           spelling |-> s, name |-> n, folder |-> FALSE, cur |-> NoId, seen |-> {},
           roots |-> R, checks |-> {}, front |-> {}, ids |-> {},
           changed |-> FALSE]]
    /\ Disturb(u, Busy(u) # {} \/ \E j \in purging : Owned(j, u))
    /\ UNCHANGED <<docs, purging, movesRaced>>

Creates == {t \in Tasks : task[t] # NoTask /\ task[t].op = "create"}

\* BOUND: a folder is asked for only while every create in progress, and
\* this one, can be given an id.
AskCreate(t) ==
    /\ Cardinality(UnbornIds) > Cardinality(Creates)
    /\ \E u \in Users, p \in Born \cup {Root}, s \in Spellings, n \in Names :
          /\ s \in SpellingsOf(p)
          /\ Ask(t, "create", "validate", u, NoId, p, s, n, {})

AskMove(t) ==
    \E u \in Users, i \in Born, p \in Born \cup {Root}, s \in Spellings :
        /\ s \in SpellingsOf(p)
        /\ Ask(t, "move", "load", u, i, p, s, NoName, {})

AskRename(t) ==
    \E u \in Users, i \in Born, n \in Names :
        Ask(t, "rename", "write", u, i, Root, Canonical, n, {})

AskOne(t) ==
    \E op \in {"remove", "restore", "path"}, u \in Users, i \in Born :
        Ask(t, op, "load", u, i, Root, Canonical, NoName, {})

AskBatch(t) ==
    \/ \E u \in Users, R \in (SUBSET Born) \ {{}} :
          Ask(t, "restoreBatch", "select", u, NoId, Root, Canonical, NoName, R)
    \/ \E u \in Users :
          Ask(t, "restoreAll", "select", u, NoId, Root, Canonical, NoName, {})

AnswerTask(t) == task' = [task EXCEPT ![t] = NoTask]
Goto(t, pc) == task' = [task EXCEPT ![t].pc = pc]

OnlyTask == UNCHANGED <<docs, purging, movesRaced, disturbed>>

\* The handler is dropped at an await, or the database fails: what was
\* written stays written.
Cut(t) ==
    /\ task[t] # NoTask
    /\ AnswerTask(t)
    /\ Disturb(task[t].user, task[t].pc = "update")
    /\ UNCHANGED <<docs, purging, movesRaced>>

-----------------------------------------------------------------------------
(* create_folder                                                           *)

\* validate_parent for a create, and for a move that needs no cycle check
Validate(t) ==
    /\ TaskAt(t, "validate") /\ ~task[t].folder
    /\ IF ValidParent(task[t].parent, task[t].user)
       THEN Goto(t, IF task[t].op = "create" THEN "look" ELSE "write")
       ELSE AnswerTask(t)
    /\ OnlyTask

Look(t) ==
    /\ TaskAt(t, "look")
    /\ IF SameFolder(task[t].user, task[t].parent, task[t].spelling,
                     task[t].name) = {}
       THEN Goto(t, "insert") ELSE AnswerTask(t)
    /\ OnlyTask

Folder(t) ==
    [type |-> "folder", user |-> task[t].user, name |-> task[t].name,
     parent |-> task[t].parent, spelling |-> task[t].spelling,
     hash |-> NoHash, thumb |-> NoId, trashed |-> FALSE]

\* a duplicate key is answered with 409
InsertFolder(t) ==
    /\ TaskAt(t, "insert")
    /\ \E i \in UnbornIds :
          IF IndexAllows(i, Folder(t)) THEN Insert(i, Folder(t))
                                       ELSE UNCHANGED docs
    /\ AnswerTask(t)
    /\ UNCHANGED <<purging, movesRaced, disturbed>>

-----------------------------------------------------------------------------
(* move_file, update_file                                                  *)

LoadMove(t) ==
    /\ TaskAt(t, "load") /\ task[t].op = "move"
    /\ LET i == task[t].item IN
       IF Owned(i, task[t].user) /\ ~docs[i].trashed
       THEN task' = [task EXCEPT ![t].pc = "validate",
                                 ![t].folder = docs[i].type = "folder"]
       ELSE AnswerTask(t)
    /\ OnlyTask

\* validate_parent for a folder: root, or an active folder from which the
\* chain of parents is then walked.  The item itself is refused here if it is
\* spelled as in the path of the request, and else by the walk.
ValidateTarget(t) ==
    /\ TaskAt(t, "validate") /\ task[t].folder
    /\ LET p == task[t].parent IN
       \/ p = Root /\ Goto(t, "write")
       \/ p = task[t].item /\ AnswerTask(t)
       \/ /\ p # Root
          /\ IF ValidParent(p, task[t].user)
             THEN task' = [task EXCEPT ![t].pc = "walk", ![t].cur = p]
             ELSE AnswerTask(t)
    /\ OnlyTask

\* mutation of WalkRefused: meeting the moved folder does not end the walk
WalkPastItem(t) == task[t].cur \in task[t].seen \/ ~Exists(task[t].cur)

WalkRefused(t) ==
    \/ task[t].cur = task[t].item
    \/ task[t].cur \in task[t].seen
    \/ ~Exists(task[t].cur)

\* one document of the chain; whose it is and whether it is trashed is not
\* looked at
Walk(t) ==
    /\ TaskAt(t, "walk")
    /\ LET c == task[t].cur IN
       IF WalkRefused(t)
       THEN AnswerTask(t)
       ELSE task' = [task EXCEPT
                ![t].seen = @ \cup {c},
                ![t].pc = IF docs[c].parent = Root THEN "write" ELSE "walk",
                ![t].cur = IF docs[c].parent = Root THEN NoId
                                                    ELSE docs[c].parent]
    /\ OnlyTask

\* update_one by id and user: the item may have been trashed since, and its
\* new parent too; the parent is written as the client has spelled it
Written(t) ==
    LET d == docs[task[t].item] IN
    IF task[t].op = "move"
    THEN [d EXCEPT !.parent = task[t].parent, !.spelling = task[t].spelling]
    ELSE IF d.type = "folder" THEN [d EXCEPT !.name = task[t].name] ELSE d

FolderMoving(t) == task[t] # NoTask /\ task[t].op = "move" /\ task[t].folder
                    /\ task[t].pc \in {"walk", "write"}

Write(t) ==
    /\ TaskAt(t, "write")
    /\ IF Owned(task[t].item, task[t].user)
             /\ IndexAllows(task[t].item, Written(t))
       THEN Put(task[t].item, Written(t)) ELSE UNCHANGED docs
    /\ movesRaced' = movesRaced \cup
          (IF /\ FolderMoving(t)
              /\ \E s \in Busy(task[t].user) \ {t} : FolderMoving(s)
           THEN {task[t].user} ELSE {})
    /\ AnswerTask(t)
    /\ UNCHANGED <<purging, disturbed>>

-----------------------------------------------------------------------------
(* remove_file, restore_file, restore_trashed_files                        *)

\* mutation of Thumb: a file is thought to have none
NoThumb(i) == {}

Thumb(i) == {docs[i].thumb} \ {NoId}

LoadRoot(t) ==
    /\ TaskAt(t, "load") /\ task[t].op \in {"remove", "restore"}
    /\ LET i == task[t].item IN
       IF Owned(i, task[t].user)
       THEN task' = [task EXCEPT
                ![t].pc = IF task[t].op = "restore" /\ docs[i].parent # Root
                          THEN "parent" ELSE "collect",
                ![t].parent = docs[i].parent,
                ![t].front = {i},
                ![t].ids = Thumb(i)]
       ELSE AnswerTask(t)
    /\ Disturb(task[t].user, Exists(task[t].item)
                                /\ docs[task[t].item].type = "thumbnail")
    /\ UNCHANGED <<docs, purging, movesRaced>>

\* mutation of Restorable: a parent in the trash will do
RestorableOwned(p, u) == Owned(p, u)

Restorable(p, u) == Owned(p, u) /\ ~docs[p].trashed

\* ensure_restorable_parent
CheckParent(t) ==
    /\ TaskAt(t, "parent")
    /\ IF Restorable(task[t].parent, task[t].user)
       THEN Goto(t, "collect") ELSE AnswerTask(t)
    /\ OnlyTask

InTrash(i, u) == Owned(i, u) /\ docs[i].trashed /\ docs[i].type # "thumbnail"

\* the roots, and the parents that are not among them and not "root"
Select(t) ==
    /\ TaskAt(t, "select")
    /\ LET u == task[t].user
           roots == IF task[t].op = "restoreAll"
                    THEN {i \in Ids : InTrash(i, u)} ELSE task[t].roots
       IN IF roots # {} /\ \A i \in roots : InTrash(i, u)
          THEN task' = [task EXCEPT
                   ![t].pc = "checks",
                   ![t].roots = roots,
                   ![t].checks = {docs[i].parent : i \in roots}
                                     \ (roots \cup {Root}),
                   ![t].ids = {docs[i].thumb : i \in roots} \ {NoId}]
          ELSE AnswerTask(t)
    /\ OnlyTask

\* can_restore_item
CheckRoots(t) ==
    /\ TaskAt(t, "checks")
    /\ IF task[t].checks = {} THEN Goto(t, "collect")
       ELSE \E p \in task[t].checks :
              IF Restorable(p, task[t].user)
              THEN task' = [task EXCEPT ![t].checks = @ \ {p}]
              ELSE AnswerTask(t)
    /\ OnlyTask

\* mutations of NextFront: the tree is not descended; the old frontier stays
\* in the new one
NoFront(t) == {}
GrowingFront(t) ==
    task[t].front \cup ChildrenOf(task[t].front, task[t].user)

\* the frontier's children, whether or not they were seen before
NextFront(t) == ChildrenOf(task[t].front, task[t].user)

\* collect_related_item_ids, one round
Collect(t) ==
    /\ TaskAt(t, "collect") /\ task[t].front # {}
    /\ LET kids == NextFront(t)
           got  == task[t].ids \cup task[t].front
                      \cup ({docs[i].thumb : i \in kids} \ {NoId})
       IN task' = [task EXCEPT
              ![t].ids = got,
              ![t].front = kids,
              ![t].pc = IF kids = {} /\ task[t].roots = {}
                        THEN "update" ELSE "collect"]
    /\ OnlyTask

NextRoot(t) ==
    /\ TaskAt(t, "collect") /\ task[t].front = {}
    /\ \E r \in task[t].roots :
          task' = [task EXCEPT ![t].front = {r}, ![t].roots = @ \ {r}]
    /\ OnlyTask

\* mutation of Retrashed: what leaves or enters the trash goes to the root
RetrashedAtRoot(t, i) ==
    [docs[i] EXCEPT !.trashed = task[t].op = "remove", !.parent = Root,
                    !.spelling = Canonical]

Retrashed(t, i) == [docs[i] EXCEPT !.trashed = task[t].op = "remove"]

\* mutation of Wrote: the request does not notice its last write
WroteStays(t, i) == task' = [task EXCEPT ![t].ids = @ \ {i}]

Wrote(t, i) ==
    task' = IF task[t].ids # {i}
            THEN [task EXCEPT ![t].ids = @ \ {i},
                              ![t].changed = @ \/ (Owned(i, task[t].user)
                                  /\ docs[i].trashed /\ task[t].op # "remove")]
            ELSE IF task[t].op = "restore"
            THEN [task EXCEPT ![t].ids = {}, ![t].pc = "reread"]
            ELSE [task EXCEPT ![t] = NoTask]

\* update_many, one document
Update(t) ==
    /\ TaskAt(t, "update")
    /\ \E i \in task[t].ids :
          /\ IF Owned(i, task[t].user)
             THEN IndexAllows(i, Retrashed(t, i)) /\ Put(i, Retrashed(t, i))
             ELSE UNCHANGED docs
          /\ Wrote(t, i)
    /\ UNCHANGED <<purging, movesRaced, disturbed>>

\* update_many stops at a duplicate key and is answered with 409; what it
\* wrote before stays written
UpdateConflicts(t) ==
    /\ TaskAt(t, "update")
    /\ \E i \in task[t].ids :
          Owned(i, task[t].user) /\ ~IndexAllows(i, Retrashed(t, i))
    /\ AnswerTask(t)
    /\ Disturb(task[t].user, task[t].changed)
    /\ UNCHANGED <<docs, purging, movesRaced>>

\* find_by_id(id).unwrap(): a panic if the document is gone
Reread(t) ==
    /\ TaskAt(t, "reread")
    /\ AnswerTask(t)
    /\ OnlyTask

-----------------------------------------------------------------------------
(* get_path                                                                *)

Climb(t, i) ==
    task' = IF docs[i].parent = Root THEN [task EXCEPT ![t] = NoTask]
            ELSE [task EXCEPT ![t].pc = "path", ![t].seen = @ \cup {i},
                              ![t].cur = docs[i].parent]

LoadPath(t) ==
    /\ TaskAt(t, "load") /\ task[t].op = "path"
    /\ LET i == task[t].item IN
       IF Owned(i, task[t].user) /\ ~docs[i].trashed
       THEN Climb(t, i) ELSE AnswerTask(t)
    /\ OnlyTask

\* mutation of PathEnds: no set of seen documents
PathEndsUnseen(t) ==
    ~Owned(task[t].cur, task[t].user) \/ docs[task[t].cur].trashed

\* a dangling parent and a cycle are errors; at a trashed or foreign parent
\* the path simply ends
PathEnds(t) ==
    \/ ~Owned(task[t].cur, task[t].user)
    \/ docs[task[t].cur].trashed
    \/ task[t].cur \in task[t].seen

PathUp(t) ==
    /\ TaskAt(t, "path")
    /\ IF PathEnds(t) THEN AnswerTask(t) ELSE Climb(t, task[t].cur)
    /\ OnlyTask

-----------------------------------------------------------------------------
(* What uploads and empty-trash requests do to the tree                    *)

Unused(th) == \A j \in Ids : Exists(j) => docs[j].thumb # th

UploadedAs(i, u, p, s, ty, h, th) ==
    /\ s \in SpellingsOf(p)
    /\ p # Root => \/ docs[p] = Gone
                   \/ Owned(p, u) /\ docs[p].type = "folder"
    /\ th # NoId =>
          /\ ty = "file"
          /\ \/ docs[th] = Gone
             \/ Owned(th, u) /\ docs[th].type = "thumbnail" /\ Unused(th)
    /\ Insert(i, [type |-> ty, user |-> u, name |-> NoName, parent |-> p,
                  spelling |-> s, hash |-> h, thumb |-> th, trashed |-> FALSE])
    /\ Disturb(u, \/ Busy(u) # {} \/ ~ValidParent(p, u)
                  \/ th # NoId /\ (Exists(th) => docs[th].trashed))

\* an insert into a folder that was validated some time ago
Uploaded(i) ==
    /\ "upload" \in TrashOps
    /\ \E u \in Users, p \in Ids \cup {Root}, s \in Spellings,
          ty \in {"file", "thumbnail"}, h \in Hashes, th \in Ids \cup {NoId} :
          UploadedAs(i, u, p, s, ty, h, th)
    /\ UNCHANGED <<task, purging, movesRaced>>

ListTrash(u) ==
    /\ "purge" \in TrashOps
    /\ purging' = purging \cup TrashedBy(u)
    /\ Disturb(u, Busy(u) # {})
    /\ UNCHANGED <<docs, task, movesRaced>>

Purge(i) ==
    /\ i \in purging
    /\ Erase(i)
    /\ purging' = purging \ {i}
    /\ UNCHANGED <<task, movesRaced, disturbed>>

\* an empty-trash cut short deletes no more of what it has listed, and a
\* failed insert takes back its thumbnail
StopPurge ==
    /\ \E S \in SUBSET purging : S # {} /\ purging' = purging \ S
    /\ UNCHANGED <<docs, task, movesRaced, disturbed>>

TakenBack(i) ==
    /\ "upload" \in TrashOps
    /\ Exists(i) /\ docs[i].type = "thumbnail" /\ Unused(i)
    /\ Erase(i)
    /\ purging' = purging \ {i}
    /\ UNCHANGED <<task, movesRaced, disturbed>>

-----------------------------------------------------------------------------
\* What requests that run one at a time leave behind: an active file or folder
\* whose parent is spelled as to_hex does is in an active folder, and the
\* thumbnail of an active file is not in the trash -- unless it is, without
\* the file, in a folder that was removed.
Settled(u) ==
    /\ \A i \in Ids :
          (/\ Owned(i, u) /\ ~docs[i].trashed /\ docs[i].type # "thumbnail"
           /\ docs[i].spelling = Canonical)
              => ValidParent(docs[i].parent, u)
    /\ \A i, j \in Ids :
          (/\ Owned(i, u) /\ ~docs[i].trashed /\ docs[i].thumb = j
           /\ Owned(j, u) /\ docs[j].trashed)
              => docs[j].spelling = Canonical /\ ~ValidParent(docs[j].parent, u)

Init ==
    /\ docs = Seeded
    /\ task = [t \in Tasks |-> NoTask]
    /\ purging = {}
    /\ movesRaced = {}
    /\ disturbed = {u \in Users : ~Settled(u)}

TaskStep(t) ==
    \/ Validate(t) \/ Look(t) \/ InsertFolder(t)
    \/ LoadMove(t) \/ ValidateTarget(t) \/ Walk(t) \/ Write(t)
    \/ LoadRoot(t) \/ CheckParent(t) \/ Select(t) \/ CheckRoots(t)
    \/ Collect(t) \/ NextRoot(t) \/ Update(t) \/ UpdateConflicts(t)
    \/ Reread(t) \/ LoadPath(t) \/ PathUp(t)

AskTask(t) ==
    AskCreate(t) \/ AskMove(t) \/ AskRename(t) \/ AskOne(t) \/ AskBatch(t)

TrashStep ==
    \/ \E i \in Ids : Uploaded(i) \/ Purge(i) \/ TakenBack(i)
    \/ \E u \in Users : ListTrash(u)
    \/ StopPurge

Next == \/ \E t \in Tasks : AskTask(t) \/ TaskStep(t) \/ Cut(t)
        \/ TrashStep

Spec == Init /\ [][Next]_vars

\* the runtime polls every request it has accepted until it is answered
FairSpec == Spec /\ \A t \in Tasks : WF_vars(TaskStep(t))

-----------------------------------------------------------------------------
(* Properties                                                              *)

\* Every variable has its type, and a request's record fits the place its
\* handler has reached.
TypeOK ==
    /\ docs \in [Ids -> Doc \cup {Unborn, Gone}]
    /\ task \in [Tasks -> Request \cup {NoTask}]
    /\ purging \subseteq {i \in Ids : Exists(i)}
    /\ movesRaced \subseteq Users /\ disturbed \subseteq Users
    /\ \A t \in Tasks : task[t] # NoTask =>
          /\ task[t].pc \in {"walk", "path"} <=> task[t].cur # NoId
          /\ task[t].pc = "update" => task[t].ids # {}
          /\ task[t].op \notin {"create", "restoreBatch", "restoreAll"}
                => task[t].item # NoId

\* Whatever was read about a folder before it was written into, the parent
\* of a document is never a file, nor a folder of somebody else
\* (validate_parent:54-61, then the insert or update_one much later).
ParentIsOwnFolder ==
    \A i \in Ids :
        (Exists(i) /\ docs[i].parent # Root /\ Exists(docs[i].parent))
        => /\ docs[docs[i].parent].type = "folder"
           /\ docs[docs[i].parent].user = docs[i].user

\* No set of u's documents is closed under "parent of".
AcyclicFor(u) ==
    \A S \in SUBSET {i \in Ids : Owned(i, u)} :
        S # {} => \E i \in S : docs[i].parent \notin S

\* The walk of validate_parent keeps the tree a tree, through any mixture of
\* requests, unless two folder moves of one user overlap.
AcyclicUnlessRaced == \A u \in Users \ movesRaced : AcyclicFor(u)

\* an active file or folder that is in no active folder
Stray(i, u) ==
    /\ Owned(i, u) /\ ~docs[i].trashed /\ docs[i].type # "thumbnail"
    /\ docs[i].parent # Root /\ ~ActiveFolder(docs[i].parent, u)

\* While a user's requests run one at a time and to their end, an active file
\* or folder sits in an active folder -- except in the middle of the writes of
\* a remove or a restore, and except where a create, a move or an upload has
\* stored the id of the folder in another spelling than the one that the
\* collection asks for (collect_related_item_ids:115).
SerialTreeSound ==
    \A u \in Users \ disturbed :
        (\A t \in Busy(u) : task[t].pc # "update") =>
            \A i \in Ids : Stray(i, u) => docs[i].spelling # Canonical

\* While a user's requests run one at a time, the thumbnail of an active file
\* is not in the trash, whichever documents and folders have been removed and
\* restored, in whatever order and number -- but for a file that was moved,
\* be it to another spelling of its folder: its thumbnail stays where it was
\* (move_file:526-532).
ThumbnailFollows ==
    \A u \in Users \ disturbed :
        (\A t \in Busy(u) : task[t].pc # "update") =>
            \A i, j \in Ids :
                (/\ Owned(i, u) /\ ~docs[i].trashed /\ docs[i].thumb = j
                 /\ Exists(j) /\ docs[j].parent = docs[i].parent
                 /\ docs[j].spelling = docs[i].spelling)
                    => ~docs[j].trashed

\* the documents to which parents lead down from i that are spelled as to_hex
\* does
Below(i, u) ==
    {j \in Ids : \A S \in SUBSET Ids :
        (i \in S /\ ChildrenOf(S, u) \subseteq S) => j \in S}

\* A restore that ran alone brings back everything below its folder, however
\* deep and whenever it was trashed, unless there is another spelling of a
\* parent on the way (restore_file:628-636).
RestoreIsWhole ==
    \A t \in Tasks :
        (TaskAt(t, "reread") /\ task[t].user \notin disturbed)
            => \A i \in Below(task[t].item, task[t].user) :
                  Exists(i) => ~docs[i].trashed

\* get_path and the cycle check come to an end whatever the tree looks like
\* and whatever is done to it meanwhile: each step sees one document more.
WalksEnd ==
    \A t \in Tasks :
        (TaskAt(t, "walk") \/ TaskAt(t, "path"))
            ~> ~(TaskAt(t, "walk") \/ TaskAt(t, "path"))

\* A remove or restore comes to an end unless the tree has a cycle -- or its
\* user goes on moving folders for ever.
CollectEnds ==
    \A t \in Tasks :
        \/ []<>~TaskAt(t, "collect")
        \/ <>(\E u \in Users : ~AcyclicFor(u))
        \/ []<><<\E s \in Tasks : Write(s)>>_docs

\* What the plan and the test move_folder_cycle_returns_400 say: moving a
\* folder under one of its descendants is refused, so there is no cycle.
NoCycles == \A u \in Users : AcyclicFor(u)
=============================================================================
