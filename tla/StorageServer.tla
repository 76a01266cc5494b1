---------------------------- MODULE StorageServer ----------------------------
(***************************************************************************)
(* The storage service: uploads and empty-trash requests (Contents) and    *)
(* the requests on the tree (Tree) over one collection.  Each side's steps *)
(* take the place of what the other module assumes of its environment:     *)
(* Contents' TreeEdit and Tree's TrashStep.  That the whole implements     *)
(* both modules (ContentsSpec, TreeSpec) is what makes the results about   *)
(* either of them results about the service.                               *)
(***************************************************************************)
EXTENDS StorageRepo, Integers

CONSTANTS Uploads, Sweeps, Idle, Pictures, ThumbOf, Tasks, NoTask, Ops

VARIABLES objects, upload, sweep, raced, faulted, task, movesRaced, disturbed

C == INSTANCE Contents
        WITH TreeOps <- {"trash", "move", "rename", "create"}

\* the listed documents that are still to be deleted
Purging ==
    {i \in Ids : Exists(i) /\ \E s \in Sweeps :
                     sweep[s] # Idle /\ i \in sweep[s].ids}

T == INSTANCE Tree WITH purging <- Purging, TrashOps <- {"upload", "purge"}

\* what both modules assume of their constants
ASSUME IdleAssumption == Idle \notin C!UploadReq /\ Idle \notin C!SweepReq

ASSUME PictureAssumption ==
    Pictures \subseteq Hashes /\ ThumbOf \in [Pictures -> Hashes]

ASSUME TaskAssumption == NoTask \notin T!Request /\ Ops \subseteq T!AllOps

ASSUME SeedTreeAssumption == T!SoundSeeds

\* ids are counted (EnoughIds)
ASSUME FiniteAssumption ==
    IsFiniteSet(Ids) /\ IsFiniteSet(Uploads) /\ IsFiniteSet(Tasks)

contentsVars == <<objects, upload, sweep, raced, faulted>>
vars == <<docs, contentsVars, task, movesRaced, disturbed>>

\* BOUND: a request that inserts is taken on only if every request in
\* progress, and it, can be given its ids.
EnoughIds ==
    Cardinality(C!Owing) + Cardinality(T!Creates) <= Cardinality(UnbornIds)

Asks(t) ==
    \/ T!AskCreate(t) /\ EnoughIds'
    \/ T!AskMove(t) \/ T!AskRename(t) \/ T!AskOne(t) \/ T!AskBatch(t)

TaskActs(t) ==
    /\ UNCHANGED contentsVars
    /\ Asks(t) \/ T!TaskStep(t) \/ T!Cut(t)

\* the thumbnail has been removed before the file that names it is inserted
LostThumb(w) ==
    LET th == upload[w].thumbId IN
    th # NoId /\ (Exists(th) => docs[th].trashed)

\* Tree's history goes on while uploads insert and sweeps list the trash
Overlaps ==
    {u \in Users :
        /\ \E w \in Uploads : /\ upload[w] # Idle /\ upload[w].user = u
                              /\ UnbornIds' # UnbornIds
                              /\ upload'[w] # upload[w]
                              /\ \/ T!Busy(u) # {}
                                 \/ ~ValidParent(upload[w].parent, u)
                                 \/ LostThumb(w)}
    \cup
    {u \in Users :
        /\ T!Busy(u) # {}
        /\ \E s \in Sweeps : C!SweepAt(s, "list") /\ sweep[s].user = u
                                /\ sweep'[s] # Idle /\ sweep'[s] # sweep[s]}

ContentsActs ==
    /\ UNCHANGED <<task, movesRaced>>
    /\ \/ \E w \in Uploads :
             \/ C!StartUpload(w) /\ EnoughIds'
             \/ C!UploadStep(w) \/ C!InsertFileFails(w) \/ C!UploadCut(w)
       \/ \E s \in Sweeps : C!StartSweep(s) \/ C!SweepStep(s) \/ C!SweepCut(s)
    /\ C!NoteRaces
    /\ disturbed' = disturbed \cup Overlaps

Init == C!Init /\ T!Init

Next == ContentsActs \/ \E t \in Tasks : TaskActs(t)

Spec == Init /\ [][Next]_vars

-----------------------------------------------------------------------------
(* Properties                                                              *)

\* The service implements Contents: to uploads and empty-trash requests, the
\* requests on the tree are edits of one document at a time.
ContentsSpec == C!Spec

\* The service implements Tree: to the requests on the tree, uploads insert
\* into folders that were validated once, and an empty-trash deletes what it
\* has listed, when it gets to it.
TreeSpec == T!Spec

\* A restore that has written its documents can answer with its own document
\* (restore_file:638 takes it to be there).
RestoreRereads ==
    \A t \in Tasks : T!TaskAt(t, "reread") => Exists(task[t].item)
=============================================================================
