--------------------------- MODULE ContentsProofs ---------------------------
(***************************************************************************)
(* What holds of Contents for every set of users, documents, contents and  *)
(* concurrent requests.                                                    *)
(***************************************************************************)
EXTENDS Contents, TLAPS

-----------------------------------------------------------------------------
(* Types                                                                   *)

LEMMA ContentsOfTyped ==
  ASSUME TypeOK, NEW u \in Users
  PROVE  ContentsOf(TrashedBy(u)) \subseteq Hashes
  BY DEF TypeOK, ContentsOf, TrashedBy, Owned, Exists, Doc

\* Asking the directory for an object leaves the request well typed.
LEMMA CheckTypes ==
  ASSUME TypeOK, NEW w \in Uploads, upload[w] # Idle, NEW h \in Hashes,
         NEW pc \in {"thumb", "storeThumb", "store"}, Check(w, h, pc),
         upload[w].pc \in {"exists", "thumb"},
         pc = "thumb" => upload[w].image,
         pc = "storeThumb" => upload[w].image /\ upload[w].hash \in Pictures,
         pc = "store" => ~upload[w].image,
         UNCHANGED <<docs, objects, sweep, faulted>>, NoteRaces
  PROVE  TypeOK'
<1> DEFINE n == upload[w].need
                  \cup (IF <<upload[w].user, h>> \in objects THEN {} ELSE {h})
<1>1. upload[w] \in UploadReq
  BY DEF TypeOK
<1>2. n \in SUBSET Hashes
  BY <1>1 DEF UploadReq
<1>3. upload' = [upload EXCEPT ![w].pc = pc, ![w].need = n]
  BY DEF Check
<1> HIDE DEF n
<1>4. upload' \in [Uploads -> UploadReq \cup {Idle}]
  BY <1>1, <1>2, <1>3 DEF TypeOK, UploadReq, UploadPCs
<1>5. \A v \in Uploads \ {w} : upload'[v] = upload[v]
  BY <1>3 DEF TypeOK
<1>6. /\ upload'[w].pc = pc /\ upload'[w].image = upload[w].image
      /\ upload'[w].hash = upload[w].hash
      /\ upload'[w].thumbId = upload[w].thumbId
  BY <1>1, <1>3 DEF TypeOK, UploadReq
<1>7. upload[w].thumbId = NoId
  BY DEF TypeOK
<1>8. raced' \subseteq Objects
  BY DEF TypeOK, NoteRaces, Relied
<1> QED
  BY <1>4, <1>5, <1>6, <1>7, <1>8 DEF TypeOK

LEMMA UploadTypes ==
  ASSUME TypeOK, NEW w \in Uploads, Upload(w)
  PROVE  TypeOK'
<1> USE MarkerAssumption, IdleAssumption, PictureAssumption
      DEF TypeOK, UploadReq, UploadPCs, Objects, NoteRaces, Relied, UploadAt,
          Advance, Answer
<1>1. CASE StartUpload(w) /\ NoteRaces
  BY <1>1 DEF StartUpload
<1>2. CASE Validate(w) /\ NoteRaces
  BY <1>2 DEF Validate
<1>3. CASE Dedup(w) /\ NoteRaces
  BY <1>3 DEF Dedup
<1>4. CASE CheckObject(w) /\ NoteRaces
  <2>1. upload[w].image \in BOOLEAN /\ upload[w].hash \in Hashes
    BY <1>4 DEF CheckObject
  <2>2. CASE upload[w].image
    BY <1>4, <2>1, <2>2, CheckTypes DEF CheckObject
  <2>3. CASE ~upload[w].image
    BY <1>4, <2>1, <2>3, CheckTypes DEF CheckObject
  <2> QED
    BY <2>1, <2>2, <2>3
<1>5. CASE CheckThumb(w) /\ NoteRaces
  <2>1. CASE upload[w].hash \notin Pictures
    BY <1>5, <2>1 DEF CheckThumb
  <2>2. CASE upload[w].hash \in Pictures
    BY <1>5, <2>2, CheckTypes DEF CheckThumb
  <2> QED
    BY <2>1, <2>2
<1>6. CASE StoreThumb(w) /\ NoteRaces
  BY <1>6 DEF StoreThumb, StoreIfNeeded
<1>7. CASE Store(w) /\ NoteRaces
  BY <1>7 DEF Store, StoreIfNeeded
<1>8. CASE InsertThumb(w) /\ NoteRaces
  BY <1>8 DEF InsertThumb, Insert, NewDoc, Doc, Types
<1>9. CASE InsertFile(w) /\ NoteRaces
  BY <1>9 DEF InsertFile, Insert, NewDoc, Doc, Types
<1>10. CASE Rollback(w) /\ NoteRaces
  BY <1>10 DEF Rollback, Erase
<1>11. CASE InsertFileFails(w) /\ NoteRaces
  BY <1>11 DEF InsertFileFails
<1>12. CASE UploadCut(w) /\ NoteRaces
  BY <1>12 DEF UploadCut
<1> QED
  BY <1>1, <1>2, <1>3, <1>4, <1>5, <1>6, <1>7, <1>8, <1>9, <1>10, <1>11,
     <1>12 DEF Upload, UploadStep

LEMMA SweepTypes ==
  ASSUME TypeOK, NEW s \in Sweeps, Sweep(s)
  PROVE  TypeOK'
<1> USE MarkerAssumption, IdleAssumption
      DEF TypeOK, SweepReq, SweepPCs, Objects, NoteRaces, Relied, SweepAt, Done
<1>1. CASE StartSweep(s) /\ NoteRaces
  BY <1>1 DEF StartSweep
<1>2. CASE List(s) /\ NoteRaces
  <2>1. ContentsOf(TrashedBy(sweep[s].user)) \subseteq Hashes
    BY <1>2, ContentsOfTyped DEF List
  <2>2. TrashedBy(sweep[s].user) \subseteq Ids
    BY DEF TrashedBy
  <2>3. CASE TrashedBy(sweep[s].user) = {}
    BY <1>2, <2>3 DEF List
  <2>4. CASE TrashedBy(sweep[s].user) # {}
    BY <1>2, <2>1, <2>2, <2>4 DEF List
  <2> QED
    BY <2>3, <2>4
<1>3. CASE DeleteListed(s) /\ NoteRaces
  <2>1. PICK i \in sweep[s].ids :
            /\ docs' = [docs EXCEPT ![i] = Gone] \/ docs' = docs
            /\ sweep' = [sweep EXCEPT
                  ![s].ids = @ \ {i},
                  ![s].pc = IF sweep[s].ids = {i} THEN "count" ELSE "delete"]
    BY <1>3 DEF DeleteListed, Erase
  <2>2. docs' \in [Ids -> Doc \cup {Unborn, Gone}]
    BY <2>1
  <2>3. PICK pc \in {"count", "delete"} : sweep' =
            [sweep EXCEPT ![s].ids = sweep[s].ids \ {i}, ![s].pc = pc]
    BY <2>1
  <2>4. UNCHANGED <<objects, upload, faulted>> /\ sweep[s] # Idle
        /\ sweep[s].pc = "delete"
    BY <1>3 DEF DeleteListed
  <2>5. sweep' \in [Sweeps -> SweepReq \cup {Idle}]
    <3>1. sweep[s] \in SweepReq
      BY <2>4
    <3>2. [sweep[s] EXCEPT !.ids = sweep[s].ids \ {i}, !.pc = pc] \in SweepReq
      BY <3>1
    <3>3. sweep' = [sweep EXCEPT ![s] =
                [sweep[s] EXCEPT !.ids = sweep[s].ids \ {i}, !.pc = pc]]
      BY <2>3
    <3> QED
      BY <3>2, <3>3
  <2>6. \A t \in Sweeps \ {s} : sweep'[t] = sweep[t]
    BY <2>3
  <2>7. sweep'[s].pc = pc /\ sweep'[s].doomed = NoHash
    BY <2>3, <2>4
  <2> QED
    BY <1>3, <2>2, <2>4, <2>5, <2>6, <2>7
<1>4. CASE Count(s) /\ NoteRaces
  BY <1>4 DEF Count
<1>5. CASE SweepAnswers(s) /\ NoteRaces
  BY <1>5 DEF SweepAnswers
<1>6. CASE Remove(s) /\ NoteRaces
  BY <1>6 DEF Remove, NextHash
<1>7. CASE Unlink(s) /\ NoteRaces
  BY <1>7 DEF Unlink, NextHash
<1>8. CASE SweepCut(s) /\ NoteRaces
  BY <1>8 DEF SweepCut
<1> QED
  BY <1>1, <1>2, <1>3, <1>4, <1>5, <1>6, <1>7, <1>8 DEF Sweep, SweepStep

LEMMA TreeTypes ==
  ASSUME TypeOK, TreeEdit, NoteRaces
  PROVE  TypeOK'
<1> USE MarkerAssumption DEF TypeOK, NoteRaces, Relied, Objects
<1>1. ASSUME NEW i \in Ids, Exists(i), SetTrashed(i)
      PROVE  TypeOK'
  BY <1>1 DEF SetTrashed, Edit, Put, Exists, Doc
<1>2. ASSUME NEW i \in Ids, Exists(i), Move(i)
      PROVE  TypeOK'
  <2>1. PICK p \in Ids \cup {Root}, s \in Spellings :
            Edit("move", i, [docs[i] EXCEPT !.parent = p, !.spelling = s])
    BY <1>2 DEF Move
  <2>2. docs[i] \in Doc
    BY <1>2 DEF Exists
  <2> DEFINE d == [docs[i] EXCEPT !.parent = p, !.spelling = s]
  <2>3. d \in Doc /\ d.user = docs[i].user /\ d.hash = docs[i].hash
    BY <2>2 DEF Doc
  <2>4. Edit("move", i, d)
    BY <2>1
  <2> HIDE DEF d
  <2> QED
    BY <1>2, <2>3, <2>4 DEF Edit, Put, Exists
<1>3. ASSUME NEW i \in Ids, Exists(i), Rename(i)
      PROVE  TypeOK'
  BY <1>3 DEF Rename, Edit, Put, Exists, Doc
<1>4. ASSUME NEW i \in Ids, NewFolder(i)
      PROVE  TypeOK'
  BY <1>4 DEF NewFolder, Insert, Doc, Types
<1> QED
  BY <1>1, <1>2, <1>3, <1>4 DEF TreeEdit

LEMMA InitTypes == Init => TypeOK
  BY SeedAssumption, MarkerAssumption DEF Init, TypeOK, Exists, Objects, Doc

LEMMA StepTypes == TypeOK /\ [Next]_vars => TypeOK'
<1> SUFFICES ASSUME TypeOK, [Next]_vars PROVE TypeOK'
  OBVIOUS
<1>1. CASE UNCHANGED vars
  BY <1>1 DEF vars, TypeOK, Objects
<1> QED
  BY <1>1, UploadTypes, SweepTypes, TreeTypes DEF Next

\* Every reachable state is well typed, and every request's record fits the
\* place its handler has reached.
THEOREM TypeCorrect == Spec => []TypeOK
  BY InitTypes, StepTypes, PTL DEF Spec

-----------------------------------------------------------------------------
(* Which objects the documents refer to, step by step                      *)

LEMMA SameDocs == docs' = docs => Referenced' = Referenced
  BY DEF Referenced, References, Owned, Exists

LEMMA SameUploads == upload' = upload => Relied' = Relied /\ Held' = Held
  BY DEF Relied, Held, Relies, Holds

LEMMA SameSweeps == sweep' = sweep => Doomed' = Doomed /\ Pending' = Pending
  BY DEF Doomed, Pending, Dooms, SweepAt

\* An insert adds a reference to the new document's content, and no other.
LEMMA InsertRefers ==
  ASSUME TypeOK, NEW i \in Ids, NEW d \in Doc, Insert(i, d)
  PROVE  /\ Referenced' \subseteq Referenced \cup {<<d.user, d.hash>>}
         /\ Referenced \subseteq Referenced'
         /\ d.hash \in Hashes => <<d.user, d.hash>> \in Referenced'
         /\ d.hash = NoHash => Referenced' = Referenced
<1> USE MarkerAssumption
      DEF TypeOK, Insert, Referenced, References, Owned, Exists, Objects, Doc
<1>1. ASSUME NEW o \in Objects
      PROVE  References(o[1], o[2])' =
                IF d.user = o[1] /\ d.hash = o[2]
                THEN References(o[1], o[2]) \cup {i}
                ELSE References(o[1], o[2])
  OBVIOUS
<1> QED
  BY <1>1

\* An edit that keeps owner and content keeps the references.
LEMMA PutRefers ==
  ASSUME TypeOK, NEW i \in Ids, NEW d \in Doc, Put(i, d),
         d.user = docs[i].user, d.hash = docs[i].hash
  PROVE  Referenced' = Referenced
<1> USE MarkerAssumption
      DEF TypeOK, Put, Referenced, References, Owned, Exists, Objects
<1>1. ASSUME NEW o \in Objects
      PROVE  References(o[1], o[2])' = References(o[1], o[2])
  OBVIOUS
<1> QED
  BY <1>1

\* A delete takes away references to the deleted document's content only.
LEMMA EraseRefers ==
  ASSUME TypeOK, NEW i \in Ids, Exists(i), Erase(i)
  PROVE  /\ Referenced' \subseteq Referenced
         /\ Referenced \ Referenced' \subseteq {<<docs[i].user, docs[i].hash>>}
<1> USE MarkerAssumption
      DEF TypeOK, Erase, Referenced, References, Owned, Exists, Objects, Doc
<1>1. ASSUME NEW o \in Objects
      PROVE  References(o[1], o[2])' = References(o[1], o[2]) \ {i}
  OBVIOUS
<1> QED
  BY <1>1

-----------------------------------------------------------------------------
(* Content is kept                                                         *)

\* The inductive invariant: what is referred to or relied on is there, and
\* nobody relies on what is about to be unlinked.
Safe ==
    /\ TypeOK
    /\ Referenced \cup Relied \subseteq objects \cup raced
    /\ Doomed \cap (Referenced \cup Relied) \subseteq raced

\* A step keeps Safe if it refers only to what was relied on, removes only
\* what was doomed, relies only on what is there, and dooms nothing that a
\* document refers to.
LEMMA SafeStep ==
  ASSUME Safe, TypeOK', NoteRaces,
         Referenced' \subseteq Referenced \cup Relied,
         objects \ objects' \subseteq Doomed,
         Relied' \subseteq Relied \cup objects',
         Doomed' \cap Referenced' \subseteq Doomed
  PROVE  Safe'
  BY DEF Safe, NoteRaces

\* Only w's own reliance changes in a step of w.
LEMMA OtherUploads ==
  ASSUME NEW w \in Uploads, \A v \in Uploads \ {w} : upload'[v] = upload[v]
  PROVE  /\ Relied' \subseteq Relied \cup {o \in Objects : Relies(w, o[1], o[2])'}
         /\ Held \subseteq Held' \cup {o \in Objects : Holds(w, o[1], o[2])}
  BY DEF Relied, Held, Relies, Holds

\* The steps of an upload up to its inserts: documents and sweeps stay, and w
\* relies on no more than it did or than it has just found or stored.
LEMMA QuietUploadSafe ==
  ASSUME Safe, TypeOK', NEW w \in Uploads, NoteRaces,
         UNCHANGED <<docs, sweep>>,
         objects \subseteq objects',
         \A v \in Uploads \ {w} : upload'[v] = upload[v],
         \A o \in Objects :
            Relies(w, o[1], o[2])' => Relies(w, o[1], o[2]) \/ o \in objects'
  PROVE  Safe'
<1>1. Referenced' = Referenced /\ Doomed' = Doomed
  BY SameDocs, SameSweeps
<1>2. Relied' \subseteq Relied \cup objects'
  <2>1. {o \in Objects : Relies(w, o[1], o[2])} \subseteq Relied
    BY DEF Relied
  <2> QED
    BY <2>1, OtherUploads
<1> QED
  BY <1>1, <1>2, SafeStep

LEMMA UploadSafe ==
  ASSUME Safe, NEW w \in Uploads, Upload(w)
  PROVE  Safe'
<1>0. TypeOK /\ TypeOK' /\ NoteRaces
  BY UploadTypes DEF Safe, Upload
<1>00. \A v \in Uploads \ {w} : upload'[v] = upload[v]
  BY <1>0 DEF Upload, UploadStep, StartUpload, Validate, Dedup, CheckObject,
     CheckThumb, Check, StoreThumb, Store, InsertThumb, InsertFile, Rollback,
     InsertFileFails, UploadCut, Advance, Answer, TypeOK
<1>1. CASE StartUpload(w)
  <2>1. \A o \in Objects : ~Relies(w, o[1], o[2])'
    BY <1>0, <1>1 DEF StartUpload, Relies, Holds, TypeOK
  <2> QED
    BY <1>0, <1>00, <1>1, <2>1, QuietUploadSafe DEF StartUpload
<1>2. CASE Validate(w)
  <2>1. \A o \in Objects : ~Relies(w, o[1], o[2])'
    BY <1>0, <1>2, IdleAssumption
       DEF Validate, Advance, Answer, UploadAt, Relies, Holds, TypeOK, UploadReq
  <2> QED
    BY <1>0, <1>00, <1>2, <2>1, QuietUploadSafe DEF Validate
<1>3. CASE Dedup(w)
  <2>1. \A o \in Objects : ~Relies(w, o[1], o[2])'
    BY <1>0, <1>3, IdleAssumption
       DEF Dedup, Advance, Answer, UploadAt, Relies, Holds, TypeOK, UploadReq
  <2> QED
    BY <1>0, <1>00, <1>3, <2>1, QuietUploadSafe DEF Dedup
<1>4. CASE CheckObject(w)
  <2>1. ASSUME NEW o \in Objects, Relies(w, o[1], o[2])'
        PROVE  o \in objects
    <3>1. /\ upload'[w].user = upload[w].user /\ upload'[w].hash = upload[w].hash
          /\ upload'[w].pc \in {"thumb", "store"}
          /\ upload'[w].pc = "store" => ~upload'[w].image
          /\ <<upload[w].user, upload[w].hash>> \notin objects
                => upload[w].hash \in upload'[w].need
      BY <1>0, <1>4, IdleAssumption
         DEF CheckObject, Check, UploadAt, TypeOK, UploadReq
    <3>2. o = <<o[1], o[2]>>
      BY DEF Objects
    <3> QED
      BY <2>1, <3>1, <3>2 DEF Relies, Holds
  <2> QED
    BY <1>0, <1>00, <1>4, <2>1, QuietUploadSafe DEF CheckObject
<1>5. CASE CheckThumb(w)
  <2>1. \A o \in Objects : Relies(w, o[1], o[2])' =>
                              Relies(w, o[1], o[2]) \/ o \in objects
    BY <1>0, <1>5, IdleAssumption, PictureAssumption
       DEF CheckThumb, Check, Answer, UploadAt, Relies, Holds, TypeOK,
           UploadReq, Objects
  <2> QED
    BY <1>0, <1>00, <1>5, <2>1, QuietUploadSafe DEF CheckThumb
<1>6. CASE StoreThumb(w)
  <2>1. \A o \in Objects : Relies(w, o[1], o[2])' =>
                              Relies(w, o[1], o[2]) \/ o \in objects'
    BY <1>0, <1>6, IdleAssumption, PictureAssumption
       DEF StoreThumb, StoreIfNeeded, Advance, UploadAt, Relies, Holds, TypeOK,
           UploadReq, Objects
  <2>2. objects \subseteq objects'
    BY <1>6 DEF StoreThumb, StoreIfNeeded
  <2> QED
    BY <1>0, <1>00, <1>6, <2>1, <2>2, QuietUploadSafe DEF StoreThumb
<1>7. CASE Store(w)
  <2>1. \A o \in Objects : Relies(w, o[1], o[2])' =>
                              Relies(w, o[1], o[2]) \/ o \in objects'
    BY <1>0, <1>7, IdleAssumption, PictureAssumption
       DEF Store, StoreIfNeeded, Advance, UploadAt, Relies, Holds, TypeOK,
           UploadReq, Objects
  <2>2. objects \subseteq objects'
    BY <1>7 DEF Store, StoreIfNeeded
  <2> QED
    BY <1>0, <1>00, <1>7, <2>1, <2>2, QuietUploadSafe DEF Store
<1>8. CASE InsertThumb(w)
  <2> DEFINE h == ThumbOf[upload[w].hash]
             d == NewDoc(w, "thumbnail", h, NoId)
  <2>1. d \in Doc /\ d.user = upload[w].user /\ d.hash = h /\ h \in Hashes
    BY <1>0, <1>8, PictureAssumption
       DEF InsertThumb, UploadAt, NewDoc, Doc, Types, TypeOK, UploadReq
  <2>2. PICK i \in Ids : Insert(i, d)
    BY <1>8 DEF InsertThumb
  <2>3. Referenced' \subseteq Referenced \cup {<<upload[w].user, h>>}
    BY <1>0, <2>1, <2>2, InsertRefers
  <2>4. <<upload[w].user, h>> \in Relied
    BY <1>0, <1>8, <2>1
       DEF InsertThumb, UploadAt, Relied, Relies, Holds, TypeOK, UploadReq, Objects
  <2>5. \A o \in Objects : Relies(w, o[1], o[2])' => Relies(w, o[1], o[2])
    BY <1>0, <1>8, IdleAssumption
       DEF InsertThumb, UploadAt, Relies, Holds, TypeOK, UploadReq
  <2>6. Relied' \subseteq Relied
    BY <1>00, <2>5, OtherUploads DEF Relied
  <2> QED
    BY <1>0, <1>8, <2>3, <2>4, <2>6, SafeStep, SameSweeps DEF InsertThumb
<1>9. CASE InsertFile(w)
  <2> DEFINE h == upload[w].hash
             d == NewDoc(w, "file", h, upload[w].thumbId)
  <2>1. d \in Doc /\ d.user = upload[w].user /\ d.hash = h /\ h \in Hashes
    BY <1>0, <1>9 DEF InsertFile, UploadAt, NewDoc, Doc, Types, TypeOK, UploadReq
  <2>2. PICK i \in Ids : Insert(i, d)
    BY <1>9 DEF InsertFile
  <2>3. Referenced' \subseteq Referenced \cup {<<upload[w].user, h>>}
    BY <1>0, <2>1, <2>2, InsertRefers
  <2>4. <<upload[w].user, h>> \in Relied
    BY <1>0, <1>9, <2>1
       DEF InsertFile, UploadAt, Relied, Relies, Holds, TypeOK, UploadReq, Objects
  <2>5. \A o \in Objects : ~Relies(w, o[1], o[2])'
    BY <1>0, <1>9 DEF InsertFile, Answer, Relies, Holds, TypeOK
  <2>6. Relied' \subseteq Relied
    BY <1>00, <2>5, OtherUploads
  <2> QED
    BY <1>0, <1>9, <2>3, <2>4, <2>6, SafeStep, SameSweeps DEF InsertFile
<1>10. CASE Rollback(w)
  <2>1. Referenced' \subseteq Referenced
    <3>1. CASE docs' = docs
      BY <3>1, SameDocs
    <3>2. CASE docs' # docs
      <4>1. /\ upload[w].thumbId \in Ids /\ Exists(upload[w].thumbId)
            /\ Erase(upload[w].thumbId)
        BY <1>0, <1>10, <3>2, MarkerAssumption
           DEF Rollback, UploadAt, Owned, TypeOK, UploadReq
      <4> QED
        BY <1>0, <4>1, EraseRefers
    <3> QED
      BY <3>1, <3>2
  <2>2. \A o \in Objects : ~Relies(w, o[1], o[2])'
    BY <1>0, <1>10 DEF Rollback, Answer, Relies, Holds, TypeOK
  <2>3. Relied' \subseteq Relied
    BY <1>00, <2>2, OtherUploads
  <2> QED
    BY <1>0, <1>10, <2>1, <2>3, SafeStep, SameSweeps DEF Rollback
<1>11. CASE InsertFileFails(w)
  <2>1. \A o \in Objects : ~Relies(w, o[1], o[2])'
    BY <1>0, <1>11, IdleAssumption
       DEF InsertFileFails, Advance, Answer, UploadAt, Relies, Holds, TypeOK,
           UploadReq
  <2> QED
    BY <1>0, <1>00, <1>11, <2>1, QuietUploadSafe DEF InsertFileFails
<1>12. CASE UploadCut(w)
  <2>1. \A o \in Objects : ~Relies(w, o[1], o[2])'
    BY <1>0, <1>12 DEF UploadCut, Answer, Relies, Holds, TypeOK
  <2> QED
    BY <1>0, <1>00, <1>12, <2>1, QuietUploadSafe DEF UploadCut
<1> QED
  BY <1>1, <1>2, <1>3, <1>4, <1>5, <1>6, <1>7, <1>8, <1>9, <1>10, <1>11,
     <1>12 DEF Upload, UploadStep

\* Only what s itself dooms changes in a step of s.
LEMMA OtherSweeps ==
  ASSUME NEW s \in Sweeps, \A t \in Sweeps \ {s} : sweep'[t] = sweep[t]
  PROVE  Doomed' \subseteq Doomed \cup {o \in Objects : Dooms(s, o[1], o[2])'}
  BY DEF Doomed, Dooms, SweepAt

\* The steps of a sweep that remove nothing: documents may go, and what s
\* newly dooms has no references.
LEMMA QuietSweepSafe ==
  ASSUME Safe, TypeOK', NEW s \in Sweeps, NoteRaces,
         UNCHANGED <<objects, upload>>,
         Referenced' \subseteq Referenced,
         \A t \in Sweeps \ {s} : sweep'[t] = sweep[t],
         \A o \in Objects :
            Dooms(s, o[1], o[2])' => Dooms(s, o[1], o[2]) \/ o \notin Referenced
  PROVE  Safe'
<1>1. Relied' = Relied
  BY SameUploads
<1>2. Doomed' \cap Referenced' \subseteq Doomed
  <2>1. {o \in Objects : Dooms(s, o[1], o[2])} \subseteq Doomed
    BY DEF Doomed
  <2>2. Doomed' \subseteq Doomed \cup {o \in Objects : Dooms(s, o[1], o[2])'}
    BY OtherSweeps
  <2> QED
    BY <2>1, <2>2
<1> QED
  BY <1>1, <1>2, SafeStep

LEMMA SweepSafe ==
  ASSUME Safe, NEW s \in Sweeps, Sweep(s)
  PROVE  Safe'
<1>0. TypeOK /\ TypeOK' /\ NoteRaces
  BY SweepTypes DEF Safe, Sweep
<1>00. \A t \in Sweeps \ {s} : sweep'[t] = sweep[t]
  BY <1>0 DEF Sweep, SweepStep, StartSweep, List, DeleteListed, Count,
     SweepAnswers, Remove, NextHash, Unlink, SweepCut, Done, TypeOK
<1>1. CASE StartSweep(s)
  <2>1. \A o \in Objects : ~Dooms(s, o[1], o[2])'
    BY <1>0, <1>1 DEF StartSweep, Dooms, SweepAt, TypeOK
  <2> QED
    BY <1>0, <1>00, <1>1, <2>1, QuietSweepSafe, SameDocs DEF StartSweep
<1>2. CASE List(s)
  <2>1. \A o \in Objects : ~Dooms(s, o[1], o[2])'
    BY <1>0, <1>2 DEF List, Done, Dooms, SweepAt, TypeOK, SweepReq
  <2> QED
    BY <1>0, <1>00, <1>2, <2>1, QuietSweepSafe, SameDocs DEF List
<1>3. CASE DeleteListed(s)
  <2>1. Referenced' \subseteq Referenced
    <3>1. CASE docs' = docs
      BY <3>1, SameDocs
    <3>2. CASE docs' # docs
      <4>1. PICK i \in Ids : Exists(i) /\ Erase(i)
        BY <1>0, <1>3, <3>2
           DEF DeleteListed, SweepAt, Owned, TypeOK, SweepReq
      <4> QED
        BY <1>0, <4>1, EraseRefers
    <3> QED
      BY <3>1, <3>2
  <2>2. \A o \in Objects : ~Dooms(s, o[1], o[2])'
    <3>1. PICK i \in sweep[s].ids, pc \in {"count", "delete"} : sweep' =
              [sweep EXCEPT ![s].ids = sweep[s].ids \ {i}, ![s].pc = pc]
      BY <1>3 DEF DeleteListed
    <3>2. sweep[s] \in SweepReq
      BY <1>0, <1>3 DEF DeleteListed, SweepAt, TypeOK
    <3>3. sweep'[s].pc = pc
      BY <1>0, <3>1, <3>2 DEF TypeOK, SweepReq
    <3> QED
      BY <3>3 DEF Dooms, SweepAt
  <2> QED
    BY <1>0, <1>00, <1>3, <2>1, <2>2, QuietSweepSafe DEF DeleteListed
<1>4. CASE Count(s)
  <2>1. PICK h \in sweep[s].hashes :
            \/ /\ Unreferenced(sweep[s].user, h)
               /\ sweep' = [sweep EXCEPT ![s].pc = "remove", ![s].doomed = h]
            \/ sweep' = [sweep EXCEPT ![s].hashes = @ \ {h}]
    BY <1>4 DEF Count
  <2>2. sweep[s] \in SweepReq /\ sweep[s].pc = "count"
    BY <1>0, <1>4 DEF Count, SweepAt, TypeOK
  <2>3. CASE sweep' = [sweep EXCEPT ![s].hashes = @ \ {h}]
    BY <1>0, <1>00, <1>4, <2>2, <2>3, QuietSweepSafe, SameDocs
       DEF Count, Dooms, SweepAt, TypeOK, SweepReq
  <2>4. CASE /\ Unreferenced(sweep[s].user, h)
             /\ sweep' = [sweep EXCEPT ![s].pc = "remove", ![s].doomed = h]
    <3>1. sweep'[s].user = sweep[s].user /\ sweep'[s].doomed = h
      BY <1>0, <2>2, <2>4 DEF TypeOK, SweepReq
    <3>2. \A o \in Objects : Dooms(s, o[1], o[2])' => o \notin Referenced
      BY <2>4, <3>1 DEF Dooms, Unreferenced, Referenced
    <3> QED
      BY <1>0, <1>00, <1>4, <3>2, QuietSweepSafe, SameDocs DEF Count
  <2> QED
    BY <2>1, <2>3, <2>4
<1>5. CASE SweepAnswers(s)
  <2>1. \A o \in Objects : ~Dooms(s, o[1], o[2])'
    BY <1>0, <1>5 DEF SweepAnswers, Done, Dooms, SweepAt, TypeOK
  <2> QED
    BY <1>0, <1>00, <1>5, <2>1, QuietSweepSafe, SameDocs DEF SweepAnswers
<1>6. CASE Remove(s)
  <2>1. \A o \in Objects : Dooms(s, o[1], o[2])' => Dooms(s, o[1], o[2])
    BY <1>0, <1>6 DEF Remove, NextHash, Dooms, SweepAt, TypeOK, SweepReq
  <2> QED
    BY <1>0, <1>00, <1>6, <2>1, QuietSweepSafe, SameDocs DEF Remove
<1>7. CASE Unlink(s)
  <2>1. objects \ objects' \subseteq Doomed
    <3>1. DoomedObject(s) \in Doomed
      BY <1>0, <1>7
         DEF Unlink, SweepAt, DoomedObject, Doomed, Dooms, TypeOK, SweepReq, Objects
    <3> QED
      BY <1>7, <3>1 DEF Unlink
  <2>2. \A o \in Objects : ~Dooms(s, o[1], o[2])'
    BY <1>0, <1>7 DEF Unlink, NextHash, Done, Dooms, SweepAt, TypeOK, SweepReq
  <2>3. Doomed' \subseteq Doomed
    BY <1>00, <2>2, OtherSweeps
  <2> QED
    BY <1>0, <1>7, <2>1, <2>3, SafeStep, SameDocs, SameUploads DEF Unlink
<1>8. CASE SweepCut(s)
  <2>1. \A o \in Objects : ~Dooms(s, o[1], o[2])'
    BY <1>0, <1>8 DEF SweepCut, Done, Dooms, SweepAt, TypeOK
  <2> QED
    BY <1>0, <1>00, <1>8, <2>1, QuietSweepSafe, SameDocs DEF SweepCut
<1> QED
  BY <1>1, <1>2, <1>3, <1>4, <1>5, <1>6, <1>7, <1>8 DEF Sweep, SweepStep

\* No request on the tree changes which objects are referred to.
LEMMA TreeRefers ==
  ASSUME TypeOK, TreeEdit
  PROVE  Referenced' = Referenced /\ UNCHANGED <<objects, upload, sweep, faulted>>
<1> USE DEF TypeOK, Exists
<1>1. ASSUME NEW i \in Ids, Exists(i), SetTrashed(i)
      PROVE  Referenced' = Referenced
  BY <1>1, PutRefers DEF SetTrashed, Edit, Doc
<1>2. ASSUME NEW i \in Ids, Exists(i), Move(i)
      PROVE  Referenced' = Referenced
  BY <1>2, PutRefers DEF Move, Edit, Doc
<1>3. ASSUME NEW i \in Ids, Exists(i), Rename(i)
      PROVE  Referenced' = Referenced
  BY <1>3, PutRefers DEF Rename, Edit, Doc
<1>4. ASSUME NEW i \in Ids, NewFolder(i)
      PROVE  Referenced' = Referenced
  <2> DEFINE Folder(u, n, p, s) ==
                [type |-> "folder", user |-> u, name |-> n, parent |-> p,
                 spelling |-> s, hash |-> NoHash, thumb |-> NoId,
                 trashed |-> FALSE]
  <2>1. PICK u \in Users, n \in Names, p \in Ids \cup {Root}, s \in Spellings :
            Insert(i, Folder(u, n, p, s))
    BY <1>4 DEF NewFolder
  <2>2. Folder(u, n, p, s) \in Doc /\ Folder(u, n, p, s).hash = NoHash
    BY DEF Doc, Types
  <2> QED
    BY <2>1, <2>2, InsertRefers
<1> QED
  BY <1>1, <1>2, <1>3, <1>4
     DEF TreeEdit, SetTrashed, Move, Rename, Edit, NewFolder

LEMMA TreeSafe ==
  ASSUME Safe, TreeEdit, NoteRaces
  PROVE  Safe'
<1>1. TypeOK /\ TypeOK'
  BY TreeTypes DEF Safe
<1> QED
  BY <1>1, TreeRefers, SameUploads, SameSweeps, SafeStep

LEMMA SafeInit == Init => Safe
<1> SUFFICES ASSUME Init PROVE Safe
  OBVIOUS
<1>1. TypeOK
  BY SeedAssumption, MarkerAssumption
     DEF Init, TypeOK, Exists, Objects, Doc
<1>2. Referenced \subseteq objects
  BY <1>1, MarkerAssumption
     DEF Init, TypeOK, Referenced, References, Owned, Exists, Objects
<1>3. Relied = {} /\ Doomed = {}
  BY DEF Init, Relied, Relies, Holds, Doomed, Dooms, SweepAt
<1> QED
  BY <1>1, <1>2, <1>3 DEF Safe

\* Whatever the interleaving of uploads, emptyings of the trash and requests
\* on the tree, a document's content is there for as long as the document is,
\* unless an upload relied on it between a sweep's count and its unlink.
THEOREM ContentIsKept == Spec => []ContentKept
<1>1. Safe /\ [Next]_vars => Safe'
  <2> SUFFICES ASSUME Safe, [Next]_vars PROVE Safe'
    OBVIOUS
  <2>1. CASE UNCHANGED vars
    BY <2>1, SameDocs, SameUploads, SameSweeps DEF vars, Safe, TypeOK, Objects
  <2> QED
    BY <2>1, UploadSafe, SweepSafe, TreeSafe DEF Next
<1>2. Safe => ContentKept
  BY DEF Safe, ContentKept
<1> QED
  BY SafeInit, <1>1, <1>2, PTL DEF Spec

-----------------------------------------------------------------------------
(* The ledger                                                              *)

\* s has yet to look at h for u
Tends(s, u, h) == sweep[s] # Idle /\ u = sweep[s].user /\ h \in sweep[s].hashes

\* objects of users one of whose requests was cut short
Faulty == {o \in Objects : o[1] \in faulted}

Accounted == Referenced \cup Held \cup Pending \cup Faulty

\* The ids that a sweep deletes have been given out, so they can only lose
\* their document, and what a listed document refers to is among the sweep's
\* hashes.
Listed(s) ==
    \A i \in sweep[s].ids :
        /\ docs[i] # Unborn
        /\ Owned(i, sweep[s].user) =>
              docs[i].hash \in sweep[s].hashes \cup {NoHash}

\* The inductive invariant: what no document refers to any more is accounted
\* for because sweeps remember the hashes of all they delete, and because a
\* rollback follows a failure.
Ledger ==
    /\ TypeOK
    /\ objects \subseteq Accounted
    /\ \A w \in Uploads : UploadAt(w, "rollback") => upload[w].user \in faulted
    /\ \A s \in Sweeps :
          /\ SweepAt(s, "list") => sweep[s].hashes = {}
          /\ SweepAt(s, "delete") => Listed(s)

LEMMA LedgerNoLeak == Ledger => NoLeak
  BY DEF Ledger, NoLeak, Accounted, Faulty, Objects, TypeOK

-----------------------------------------------------------------------------
(* Documents keep owner and content, and ids are not given back            *)

\* What a step may do to the documents.
DocsFixed ==
    \A i \in Ids :
        /\ docs[i] # Unborn => docs'[i] # Unborn
        /\ docs[i] # Unborn => \A u \in Users :
              Owned(i, u)' => Owned(i, u) /\ docs'[i].hash = docs[i].hash

LEMMA SameFixed == docs' = docs => DocsFixed
  BY DEF DocsFixed, Owned, Exists

LEMMA InsertFixed ==
  ASSUME TypeOK, NEW i \in Ids, NEW d \in Doc, Insert(i, d)
  PROVE  DocsFixed
  BY DEF TypeOK, Insert, DocsFixed, Owned, Exists

LEMMA EraseFixed ==
  ASSUME TypeOK, NEW i \in Ids, Erase(i)
  PROVE  DocsFixed
  BY MarkerAssumption DEF TypeOK, Erase, DocsFixed, Owned, Exists

LEMMA PutFixed ==
  ASSUME TypeOK, NEW i \in Ids, NEW d \in Doc, Put(i, d),
         d.user = docs[i].user, d.hash = docs[i].hash
  PROVE  DocsFixed
  BY MarkerAssumption DEF TypeOK, Put, DocsFixed, Owned, Exists

\* A sweep that did not move keeps its entry in the ledger.
LEMMA ListedKept ==
  ASSUME TypeOK, DocsFixed, NEW s \in Sweeps, sweep'[s] = sweep[s],
         SweepAt(s, "delete"), Listed(s)
  PROVE  Listed(s)'
<1>1. sweep[s].ids \subseteq Ids /\ sweep[s].user \in Users
  BY DEF TypeOK, SweepAt, SweepReq
<1> QED
  BY <1>1 DEF DocsFixed, Listed

-----------------------------------------------------------------------------
(* Steps of an upload                                                      *)

\* A step of w keeps every object accounted for if what w stored it holds,
\* and what it held it still does, or a document does, or it has failed.
LEMMA UploadAccounts ==
  ASSUME Ledger, TypeOK', NEW w \in Uploads, sweep' = sweep,
         faulted \subseteq faulted',
         \A v \in Uploads \ {w} : upload'[v] = upload[v],
         Referenced \subseteq Accounted',
         \A o \in Objects :
            o \in objects' => o \in objects \/ Holds(w, o[1], o[2])',
         \A o \in Objects :
            Holds(w, o[1], o[2]) => \/ Holds(w, o[1], o[2])'
                                    \/ o \in Referenced'
                                    \/ o[1] \in faulted'
  PROVE  objects' \subseteq Accounted'
<1>1. Pending \subseteq Accounted'
  BY SameSweeps DEF Accounted
<1>2. Faulty \subseteq Accounted'
  BY DEF Accounted, Faulty
<1>3. {o \in Objects : Holds(w, o[1], o[2])'} \subseteq Held'
  BY DEF Held
<1>4. Held \subseteq Accounted'
  BY <1>3, OtherUploads DEF Accounted, Faulty, Held
<1>5. objects \subseteq Accounted'
  BY <1>1, <1>2, <1>4 DEF Ledger, Accounted
<1>6. objects' \subseteq Objects
  BY DEF TypeOK
<1> QED
  BY <1>3, <1>5, <1>6 DEF Accounted

LEMMA UploadRest ==
  ASSUME Ledger, TypeOK', NEW w \in Uploads, sweep' = sweep, DocsFixed,
         faulted \subseteq faulted',
         \A v \in Uploads \ {w} : upload'[v] = upload[v],
         UploadAt(w, "rollback")' => upload'[w].user \in faulted',
         objects' \subseteq Accounted'
  PROVE  Ledger'
<1>1. \A v \in Uploads :
         UploadAt(v, "rollback")' => upload'[v].user \in faulted'
  BY DEF Ledger, UploadAt
<1>2. ASSUME NEW s \in Sweeps
      PROVE  /\ SweepAt(s, "list")' => sweep'[s].hashes = {}
             /\ SweepAt(s, "delete")' => Listed(s)'
  BY <1>2, ListedKept DEF Ledger, SweepAt
<1> QED
  BY <1>1, <1>2 DEF Ledger

LEMMA UploadLedger ==
  ASSUME Ledger, NEW w \in Uploads, Upload(w)
  PROVE  Ledger'
<1>0. TypeOK /\ TypeOK' /\ UNCHANGED sweep /\ faulted \subseteq faulted'
  BY UploadTypes DEF Ledger, Upload, UploadStep, StartUpload, Validate, Dedup,
     CheckObject, CheckThumb, StoreThumb, Store, InsertThumb, InsertFile,
     Rollback, InsertFileFails, UploadCut
<1>00. \A v \in Uploads \ {w} : upload'[v] = upload[v]
  BY <1>0 DEF Upload, UploadStep, StartUpload, Validate, Dedup, CheckObject,
     CheckThumb, Check, StoreThumb, Store, InsertThumb, InsertFile, Rollback,
     InsertFileFails, UploadCut, Advance, Answer, TypeOK
<1>a. Referenced \subseteq Referenced' => Referenced \subseteq Accounted'
  BY DEF Accounted
<1>1. CASE \/ StartUpload(w) \/ Validate(w) \/ Dedup(w) \/ CheckObject(w)
           \/ CheckThumb(w)
  <2>1. UNCHANGED <<docs, objects>>
    BY <1>1 DEF StartUpload, Validate, Dedup, CheckObject, CheckThumb
  <2>2. \A o \in Objects : ~Holds(w, o[1], o[2])
    BY <1>1 DEF StartUpload, Validate, Dedup, CheckObject, CheckThumb,
       UploadAt, Holds
  <2>3. ~UploadAt(w, "rollback")'
    BY <1>0, <1>1, IdleAssumption DEF StartUpload, Validate, Dedup, CheckObject,
       CheckThumb, Check, Advance, Answer, UploadAt, TypeOK, UploadReq
  <2> QED
    BY <1>0, <1>00, <1>a, <2>1, <2>2, <2>3, SameDocs, SameFixed,
       UploadAccounts, UploadRest
<1>2. CASE StoreThumb(w) \/ Store(w)
  <2>1. /\ docs' = docs /\ upload[w] \in UploadReq /\ upload[w] # Idle
        /\ upload[w].image => upload[w].hash \in Pictures
    BY <1>0, <1>2 DEF StoreThumb, Store, UploadAt, TypeOK
  <2>2. /\ upload'[w].user = upload[w].user
        /\ upload'[w].hash = upload[w].hash
        /\ upload'[w].image = upload[w].image
        /\ upload'[w] \in UploadReq /\ upload'[w] # Idle
    BY <1>0, <1>2, <2>1, IdleAssumption
       DEF StoreThumb, Store, Advance, TypeOK, UploadReq, UploadPCs
  <2>3. CASE StoreThumb(w)
    <3>1. upload[w].pc = "storeThumb" /\ upload'[w].pc = "store"
      BY <1>0, <2>1, <2>3 DEF StoreThumb, UploadAt, Advance, TypeOK, UploadReq
    <3>2. upload[w].image
      BY <1>0, <2>1, <3>1 DEF TypeOK
    <3>3. \A o \in objects' :
             o \in objects
               \/ (o[1] = upload[w].user /\ o[2] = ThumbOf[upload[w].hash])
      <4>1. objects' \subseteq
               objects \cup {<<upload[w].user, ThumbOf[upload[w].hash]>>}
        BY <2>3 DEF StoreThumb, StoreIfNeeded
      <4> QED
        BY <4>1
    <3>4. \A o \in Objects :
             o \in objects' => o \in objects \/ Holds(w, o[1], o[2])'
      BY <2>1, <2>2, <3>1, <3>2, <3>3 DEF Holds
    <3>5. \A o \in Objects : ~Holds(w, o[1], o[2])
      BY <3>1 DEF Holds
    <3>6. ~UploadAt(w, "rollback")'
      BY <3>1 DEF UploadAt
    <3> QED
      BY <1>0, <1>00, <1>a, <2>1, <3>4, <3>5, <3>6, SameDocs, SameFixed,
         UploadAccounts, UploadRest
  <2>4. CASE Store(w)
    <3>1. /\ upload[w].pc = "store"
          /\ upload'[w].pc =
                IF upload[w].image THEN "insertThumb" ELSE "insertFile"
      BY <1>0, <2>1, <2>4 DEF Store, UploadAt, Advance, TypeOK, UploadReq
    <3>2. \A o \in objects' :
             o \in objects \/ (o[1] = upload[w].user /\ o[2] = upload[w].hash)
      <4>1. objects' \subseteq
               objects \cup {<<upload[w].user, upload[w].hash>>}
        BY <2>4 DEF Store, StoreIfNeeded
      <4> QED
        BY <4>1
    <3>3. \A o \in Objects :
             o \in objects' => o \in objects \/ Holds(w, o[1], o[2])'
      BY <2>2, <3>1, <3>2 DEF Holds
    <3>4. \A o \in Objects : Holds(w, o[1], o[2]) => Holds(w, o[1], o[2])'
      BY <2>2, <3>1 DEF Holds
    <3>5. ~UploadAt(w, "rollback")'
      BY <3>1 DEF UploadAt
    <3> QED
      BY <1>0, <1>00, <1>a, <2>1, <3>3, <3>4, <3>5, SameDocs, SameFixed,
         UploadAccounts, UploadRest
  <2> QED
    BY <1>2, <2>3, <2>4
<1>3. CASE InsertThumb(w)
  <2> DEFINE h == ThumbOf[upload[w].hash]
             d == NewDoc(w, "thumbnail", h, NoId)
  <2>1. d \in Doc /\ d.user = upload[w].user /\ d.hash = h /\ h \in Hashes
    BY <1>0, <1>3, PictureAssumption
       DEF InsertThumb, UploadAt, NewDoc, Doc, Types, TypeOK, UploadReq
  <2>2. PICK i \in Ids : Insert(i, d)
    BY <1>3 DEF InsertThumb
  <2>3. /\ Referenced \subseteq Referenced'
        /\ <<upload[w].user, h>> \in Referenced'
    BY <1>0, <2>1, <2>2, InsertRefers
  <2>4. \A o \in Objects :
           Holds(w, o[1], o[2]) => Holds(w, o[1], o[2])' \/ o \in Referenced'
    <3>1. PICK j \in Ids :
             upload' = [upload EXCEPT ![w].pc = "insertFile", ![w].thumbId = j]
      BY <1>3 DEF InsertThumb
    <3>2. upload[w] \in UploadReq /\ upload[w].pc = "insertThumb"
      BY <1>0, <1>3 DEF InsertThumb, UploadAt, TypeOK
    <3>3. /\ upload'[w].user = upload[w].user
          /\ upload'[w].hash = upload[w].hash
          /\ upload'[w].pc = "insertFile"
          /\ upload'[w] \in UploadReq
      BY <1>0, <3>1, <3>2 DEF TypeOK, UploadReq, UploadPCs
    <3>4. \A o \in Objects : o = <<o[1], o[2]>>
      BY DEF Objects
    <3> QED
      BY <2>3, <3>2, <3>3, <3>4, IdleAssumption DEF Holds
  <2>5. ~UploadAt(w, "rollback")'
    BY <1>0, <1>3 DEF InsertThumb, UploadAt, TypeOK, UploadReq
  <2>6. objects' = objects
    BY <1>3 DEF InsertThumb
  <2>7. DocsFixed
    BY <1>0, <2>1, <2>2, InsertFixed
  <2> HIDE DEF d, h
  <2> QED
    BY <1>0, <1>00, <1>a, <2>3, <2>4, <2>5, <2>6, <2>7, UploadAccounts,
       UploadRest
<1>4. CASE InsertFile(w)
  <2> DEFINE h == upload[w].hash
             d == NewDoc(w, "file", h, upload[w].thumbId)
  <2>1. d \in Doc /\ d.user = upload[w].user /\ d.hash = h /\ h \in Hashes
    BY <1>0, <1>4
       DEF InsertFile, UploadAt, NewDoc, Doc, Types, TypeOK, UploadReq
  <2>2. PICK i \in Ids : Insert(i, d)
    BY <1>4 DEF InsertFile
  <2>3. /\ Referenced \subseteq Referenced'
        /\ <<upload[w].user, h>> \in Referenced'
    BY <1>0, <2>1, <2>2, InsertRefers
  <2>4. \A o \in Objects : Holds(w, o[1], o[2]) => o \in Referenced'
    BY <1>0, <1>4, <2>3
       DEF InsertFile, UploadAt, Holds, TypeOK, UploadReq, Objects
  <2>5. ~UploadAt(w, "rollback")'
    BY <1>0, <1>4 DEF InsertFile, Answer, UploadAt, TypeOK
  <2>6. objects' = objects
    BY <1>4 DEF InsertFile
  <2>7. DocsFixed
    BY <1>0, <2>1, <2>2, InsertFixed
  <2> HIDE DEF d, h
  <2> QED
    BY <1>0, <1>00, <1>a, <2>3, <2>4, <2>5, <2>6, <2>7, UploadAccounts,
       UploadRest
<1>5. CASE Rollback(w)
  <2>1. /\ objects' = objects /\ faulted' = faulted /\ UploadAt(w, "rollback")
        /\ ~UploadAt(w, "rollback")'
    BY <1>0, <1>5 DEF Rollback, Answer, UploadAt, TypeOK
  <2>2. \A o \in Objects : ~Holds(w, o[1], o[2])
    BY <2>1 DEF UploadAt, Holds
  <2>3. Referenced \subseteq Accounted' /\ DocsFixed
    <3>1. CASE docs' = docs
      BY <3>1, SameDocs, SameFixed DEF Accounted
    <3>2. CASE docs' # docs
      <4> DEFINE i == upload[w].thumbId
      <4>1. i \in Ids /\ Exists(i) /\ Erase(i) /\ docs[i].user = upload[w].user
        BY <1>0, <1>5, <3>2, MarkerAssumption
           DEF Rollback, UploadAt, Owned, TypeOK, UploadReq
      <4>2. Referenced \ Referenced' \subseteq {<<docs[i].user, docs[i].hash>>}
        BY <1>0, <4>1, EraseRefers
      <4>3. docs[i].user \in faulted'
        BY <2>1, <4>1 DEF Ledger
      <4>4. DocsFixed
        BY <1>0, <4>1, EraseFixed
      <4>5. Referenced \subseteq Objects
        BY DEF Referenced
      <4> HIDE DEF i
      <4> QED
        BY <4>2, <4>3, <4>4, <4>5 DEF Accounted, Faulty
    <3> QED
      BY <3>1, <3>2
  <2> QED
    BY <1>0, <1>00, <2>1, <2>2, <2>3, UploadAccounts, UploadRest
<1>6. CASE InsertFileFails(w) \/ UploadCut(w)
  <2>1. UNCHANGED <<docs, objects>> /\ upload[w] # Idle
        /\ upload[w].user \in faulted'
    BY <1>6 DEF InsertFileFails, UploadCut, UploadAt
  <2>2. \A o \in Objects : Holds(w, o[1], o[2]) => o[1] \in faulted'
    BY <2>1 DEF Holds
  <2>3. UploadAt(w, "rollback")' => upload'[w].user \in faulted'
    BY <1>0, <1>6, <2>1 DEF InsertFileFails, UploadCut, Advance, Answer,
       UploadAt, TypeOK, UploadReq
  <2> QED
    BY <1>0, <1>00, <1>a, <2>1, <2>2, <2>3, SameDocs, SameFixed,
       UploadAccounts, UploadRest
<1> QED
  BY <1>1, <1>2, <1>3, <1>4, <1>5, <1>6 DEF Upload, UploadStep

-----------------------------------------------------------------------------
(* Steps of a sweep                                                        *)

\* A step of s keeps every object accounted for if it keeps the hashes it
\* tends, or finds them referred to, or removes them, or fails.
LEMMA SweepAccounts ==
  ASSUME Ledger, TypeOK', NEW s \in Sweeps, upload' = upload,
         faulted \subseteq faulted', objects' \subseteq objects,
         \A t \in Sweeps \ {s} : sweep'[t] = sweep[t],
         Referenced \cap objects' \subseteq Accounted',
         \A o \in objects' :
            Tends(s, o[1], o[2]) => \/ Tends(s, o[1], o[2])'
                                    \/ o \in Referenced'
                                    \/ o[1] \in faulted'
  PROVE  objects' \subseteq Accounted'
<1>1. Held \subseteq Accounted'
  BY SameUploads DEF Accounted
<1>2. Faulty \subseteq Accounted'
  BY DEF Accounted, Faulty
<1>3. Pending \cap objects' \subseteq Accounted'
  <2> SUFFICES ASSUME NEW o \in objects', o \in Pending
               PROVE  o \in Accounted'
    OBVIOUS
  <2>1. PICK t \in Sweeps : Tends(t, o[1], o[2])
    BY DEF Pending, Tends
  <2>2. o \in Objects
    BY DEF Pending
  <2>3. CASE Tends(t, o[1], o[2])'
    BY <2>2, <2>3 DEF Accounted, Pending, Tends
  <2>4. CASE ~Tends(t, o[1], o[2])'
    <3>1. t = s
      BY <2>1, <2>4 DEF Tends
    <3>2. o \in Referenced' \/ o[1] \in faulted'
      BY <2>1, <2>4, <3>1
    <3> QED
      BY <2>2, <3>2 DEF Accounted, Faulty
  <2> QED
    BY <2>3, <2>4
<1> QED
  BY <1>1, <1>2, <1>3 DEF Ledger, Accounted

LEMMA SweepRest ==
  ASSUME Ledger, TypeOK', NEW s \in Sweeps, upload' = upload, DocsFixed,
         faulted \subseteq faulted',
         \A t \in Sweeps \ {s} : sweep'[t] = sweep[t],
         SweepAt(s, "list")' => sweep'[s].hashes = {},
         SweepAt(s, "delete")' => Listed(s)',
         objects' \subseteq Accounted'
  PROVE  Ledger'
<1>1. \A w \in Uploads :
         UploadAt(w, "rollback")' => upload'[w].user \in faulted'
  BY DEF Ledger, UploadAt
<1>2. ASSUME NEW t \in Sweeps \ {s}
      PROVE  /\ SweepAt(t, "list")' => sweep'[t].hashes = {}
             /\ SweepAt(t, "delete")' => Listed(t)'
  BY <1>2, ListedKept DEF Ledger, SweepAt
<1> QED
  BY <1>1, <1>2 DEF Ledger

LEMMA SweepLedger ==
  ASSUME Ledger, NEW s \in Sweeps, Sweep(s)
  PROVE  Ledger'
<1>0. /\ TypeOK /\ TypeOK' /\ UNCHANGED upload /\ faulted \subseteq faulted'
      /\ objects' \subseteq objects
  BY SweepTypes DEF Ledger, Sweep, SweepStep, StartSweep, List, DeleteListed,
     Count, SweepAnswers, Remove, Unlink, SweepCut
<1>00. \A t \in Sweeps \ {s} : sweep'[t] = sweep[t]
  BY <1>0 DEF Sweep, SweepStep, StartSweep, List, DeleteListed, Count,
     SweepAnswers, Remove, NextHash, Unlink, SweepCut, Done, TypeOK
<1>a. docs' = docs => Referenced \cap objects' \subseteq Accounted'
  BY SameDocs DEF Accounted
<1>1. CASE StartSweep(s)
  <2>1. docs' = docs /\ \A o \in objects' : ~Tends(s, o[1], o[2])
    BY <1>1 DEF StartSweep, Tends
  <2>2. sweep'[s].pc = "list" /\ sweep'[s].hashes = {}
    BY <1>0, <1>1 DEF StartSweep, TypeOK
  <2> QED
    BY <1>0, <1>00, <1>a, <2>1, <2>2, SameFixed, SweepAccounts, SweepRest
       DEF SweepAt
<1>2. CASE List(s)
  <2>1. docs' = docs /\ \A o \in objects' : ~Tends(s, o[1], o[2])
    BY <1>2 DEF List, Tends, Ledger
  <2>2. ~SweepAt(s, "list")'
    BY <1>0, <1>2 DEF List, Done, SweepAt, TypeOK, SweepReq
  <2>3. SweepAt(s, "delete")' => Listed(s)'
    <3> DEFINE trash == TrashedBy(sweep[s].user)
    <3>1. CASE trash = {}
      BY <1>0, <1>2, <3>1 DEF List, Done, SweepAt, TypeOK
    <3>2. CASE trash # {}
      <4>1. /\ sweep'[s].ids = trash /\ sweep'[s].user = sweep[s].user
            /\ sweep'[s].hashes = ContentsOf(trash)
        BY <1>0, <1>2, <3>2 DEF List, SweepAt, TypeOK, SweepReq
      <4>2. \A i \in trash : /\ docs[i] # Unborn
                             /\ docs[i].hash \in ContentsOf(trash) \cup {NoHash}
        BY DEF TrashedBy, ContentsOf, Owned, Exists
      <4> HIDE DEF trash
      <4> QED
        BY <2>1, <4>1, <4>2 DEF Listed
    <3> QED
      BY <3>1, <3>2
  <2> QED
    BY <1>0, <1>00, <1>a, <2>1, <2>2, <2>3, SameFixed, SweepAccounts, SweepRest
<1>3. CASE DeleteListed(s)
  <2>1. PICK i \in sweep[s].ids, pc \in {"count", "delete"} :
            /\ IF Owned(i, sweep[s].user) THEN Erase(i) ELSE docs' = docs
            /\ sweep' = [sweep EXCEPT
                  ![s].ids = sweep[s].ids \ {i}, ![s].pc = pc]
    BY <1>3 DEF DeleteListed
  <2>2. /\ sweep[s] \in SweepReq /\ sweep[s] # Idle /\ SweepAt(s, "delete")
        /\ i \in Ids /\ objects' = objects
    BY <1>0, <1>3 DEF DeleteListed, SweepAt, TypeOK, SweepReq
  <2>3. /\ sweep'[s].user = sweep[s].user /\ sweep'[s].hashes = sweep[s].hashes
        /\ sweep'[s].ids = sweep[s].ids \ {i} /\ sweep'[s].pc = pc
    BY <1>0, <2>1, <2>2 DEF TypeOK, SweepReq
  <2>4. sweep'[s] # Idle
    <3>1. [sweep[s] EXCEPT !.ids = sweep[s].ids \ {i}, !.pc = pc] \in SweepReq
      BY <2>2 DEF SweepReq, SweepPCs
    <3>2. sweep'[s] = [sweep[s] EXCEPT !.ids = sweep[s].ids \ {i}, !.pc = pc]
      BY <1>0, <2>1 DEF TypeOK
    <3> QED
      BY <3>1, <3>2, IdleAssumption
  <2>5. Listed(s)
    BY <2>2 DEF Ledger
  <2>6. DocsFixed
    BY <1>0, <2>1, <2>2, EraseFixed, SameFixed
  <2>7. Listed(s)'
    BY <2>2, <2>3, <2>5, <2>6 DEF Listed, DocsFixed, SweepReq
  <2>8. \A o \in objects' : Tends(s, o[1], o[2]) => Tends(s, o[1], o[2])'
    BY <2>3, <2>4 DEF Tends
  <2>9. Referenced \subseteq Accounted'
    <3>1. CASE docs' = docs
      BY <3>1, SameDocs DEF Accounted
    <3>2. CASE docs' # docs
      <4>1. Owned(i, sweep[s].user) /\ Erase(i)
        BY <2>1, <3>2
      <4>2. Referenced \ Referenced' \subseteq {<<docs[i].user, docs[i].hash>>}
        BY <1>0, <2>2, <4>1, EraseRefers DEF Owned
      <4>3. docs[i].user = sweep[s].user
            /\ docs[i].hash \in sweep[s].hashes \cup {NoHash}
        BY <2>5, <4>1 DEF Listed, Owned
      <4>4. Referenced \ Referenced' \subseteq Pending'
        BY <2>3, <2>4, <4>2, <4>3, MarkerAssumption
           DEF Pending, Referenced, Objects
      <4> QED
        BY <4>4 DEF Accounted
    <3> QED
      BY <3>1, <3>2
  <2>10. ~SweepAt(s, "list")'
    BY <2>3 DEF SweepAt
  <2> QED
    BY <1>0, <1>00, <2>6, <2>7, <2>8, <2>9, <2>10, SweepAccounts, SweepRest
<1>4. CASE Count(s)
  <2>1. PICK h \in sweep[s].hashes :
            \/ /\ Unreferenced(sweep[s].user, h)
               /\ sweep' = [sweep EXCEPT ![s].pc = "remove", ![s].doomed = h]
            \/ /\ ~Unreferenced(sweep[s].user, h)
               /\ sweep' = [sweep EXCEPT ![s].hashes = @ \ {h}]
    BY <1>4 DEF Count
  <2>2. docs' = docs /\ sweep[s] \in SweepReq /\ sweep[s].pc = "count"
    BY <1>0, <1>4 DEF Count, SweepAt, TypeOK
  <2>3. /\ sweep'[s] \in SweepReq /\ sweep'[s].user = sweep[s].user
        /\ ~SweepAt(s, "list")' /\ ~SweepAt(s, "delete")'
    BY <1>0, <2>1, <2>2 DEF TypeOK, SweepReq, SweepPCs, SweepAt
  <2>4. \A o \in Objects : Tends(s, o[1], o[2]) =>
           \/ Tends(s, o[1], o[2])'
           \/ o = <<sweep[s].user, h>> /\ ~Unreferenced(sweep[s].user, h)
    <3>1. \/ sweep'[s].hashes = sweep[s].hashes
          \/ /\ ~Unreferenced(sweep[s].user, h)
             /\ sweep'[s].hashes = sweep[s].hashes \ {h}
      BY <1>0, <2>1, <2>2 DEF TypeOK, SweepReq
    <3>2. \A o \in Objects : o = <<o[1], o[2]>>
      BY DEF Objects
    <3> QED
      BY <2>3, <3>1, <3>2, IdleAssumption DEF Tends
  <2>5. \A o \in Objects :
           o = <<sweep[s].user, h>> /\ ~Unreferenced(sweep[s].user, h)
              => o \in Referenced'
    BY <2>2, SameDocs DEF Unreferenced, Referenced
  <2>6. objects' \subseteq Objects
    BY <1>0 DEF TypeOK
  <2> QED
    BY <1>0, <1>00, <1>a, <2>2, <2>3, <2>4, <2>5, <2>6, SameFixed,
       SweepAccounts, SweepRest
<1>5. CASE SweepAnswers(s)
  <2>1. docs' = docs /\ \A o \in objects' : ~Tends(s, o[1], o[2])
    BY <1>5 DEF SweepAnswers, Tends
  <2>2. sweep'[s] = Idle
    BY <1>0, <1>5 DEF SweepAnswers, Done, TypeOK
  <2> QED
    BY <1>0, <1>00, <1>a, <2>1, <2>2, SameFixed, SweepAccounts, SweepRest
       DEF SweepAt
<1>6. CASE Remove(s) \/ Unlink(s)
  <2>1. /\ docs' = docs /\ sweep[s] \in SweepReq
        /\ sweep[s] # Idle
    BY <1>0, <1>6 DEF Remove, Unlink, SweepAt, TypeOK
  <2>2. ~SweepAt(s, "list")' /\ ~SweepAt(s, "delete")'
    BY <1>0, <1>6 DEF Remove, Unlink, NextHash, Done, SweepAt, TypeOK, SweepReq
  <2>3. \/ /\ sweep' = [sweep EXCEPT ![s].pc = "unlink"]
        \/ /\ NextHash(s) /\ DoomedObject(s) \notin objects'
        \/ /\ Done(s) /\ sweep[s].user \in faulted'
    BY <1>6 DEF Remove, Unlink
  <2>4. \A o \in objects' : Tends(s, o[1], o[2]) =>
           Tends(s, o[1], o[2])' \/ o[1] \in faulted'
    <3>1. CASE sweep' = [sweep EXCEPT ![s].pc = "unlink"]
      <4>1. /\ sweep'[s] \in SweepReq /\ sweep'[s].user = sweep[s].user
            /\ sweep'[s].hashes = sweep[s].hashes
        BY <1>0, <2>1, <3>1 DEF TypeOK, SweepReq, SweepPCs
      <4> QED
        BY <4>1, IdleAssumption DEF Tends
    <3>2. CASE NextHash(s) /\ DoomedObject(s) \notin objects'
      <4>1. /\ sweep'[s] \in SweepReq /\ sweep'[s].user = sweep[s].user
            /\ sweep'[s].hashes = sweep[s].hashes \ {sweep[s].doomed}
        BY <1>0, <2>1, <3>2 DEF NextHash, TypeOK, SweepReq, SweepPCs
      <4>2. objects' \subseteq Objects
        BY <1>0 DEF TypeOK
      <4> QED
        BY <3>2, <4>1, <4>2, IdleAssumption DEF Tends, DoomedObject, Objects
    <3>3. CASE sweep[s].user \in faulted'
      BY <3>3 DEF Tends
    <3> QED
      BY <2>3, <3>1, <3>2, <3>3
  <2> QED
    BY <1>0, <1>00, <1>a, <2>1, <2>2, <2>4, SameFixed, SweepAccounts, SweepRest
<1>7. CASE SweepCut(s)
  <2>1. docs' = docs /\ sweep[s].user \in faulted'
    BY <1>7 DEF SweepCut
  <2>2. sweep'[s] = Idle
    BY <1>0, <1>7 DEF SweepCut, Done, TypeOK
  <2>3. \A o \in objects' : Tends(s, o[1], o[2]) => o[1] \in faulted'
    BY <2>1 DEF Tends
  <2> QED
    BY <1>0, <1>00, <1>a, <2>1, <2>2, <2>3, SameFixed, SweepAccounts, SweepRest
       DEF SweepAt
<1> QED
  BY <1>1, <1>2, <1>3, <1>4, <1>5, <1>6, <1>7 DEF Sweep, SweepStep

-----------------------------------------------------------------------------
(* Steps of the tree                                                       *)

LEMMA TreeFixed ==
  ASSUME TypeOK, TreeEdit
  PROVE  DocsFixed
<1> USE DEF TypeOK, Exists
<1>1. ASSUME NEW i \in Ids, Exists(i), SetTrashed(i)
      PROVE  DocsFixed
  BY <1>1, PutFixed DEF SetTrashed, Edit, Doc
<1>2. ASSUME NEW i \in Ids, Exists(i), Move(i)
      PROVE  DocsFixed
  BY <1>2, PutFixed DEF Move, Edit, Doc
<1>3. ASSUME NEW i \in Ids, Exists(i), Rename(i)
      PROVE  DocsFixed
  BY <1>3, PutFixed DEF Rename, Edit, Doc
<1>4. ASSUME NEW i \in Ids, NewFolder(i)
      PROVE  DocsFixed
  <2>1. PICK u \in Users, n \in Names, p \in Ids \cup {Root}, s \in Spellings :
            Insert(i, [type |-> "folder", user |-> u, name |-> n,
                       parent |-> p, spelling |-> s, hash |-> NoHash,
                       thumb |-> NoId, trashed |-> FALSE])
    BY <1>4 DEF NewFolder
  <2> QED
    BY <2>1, InsertFixed DEF Doc, Types
<1> QED
  BY <1>1, <1>2, <1>3, <1>4 DEF TreeEdit

LEMMA TreeLedger ==
  ASSUME Ledger, TreeEdit, NoteRaces
  PROVE  Ledger'
<1>1. TypeOK /\ TypeOK' /\ DocsFixed
  BY TreeTypes, TreeFixed DEF Ledger
<1>2. Referenced' = Referenced /\ UNCHANGED <<objects, upload, sweep, faulted>>
  BY <1>1, TreeRefers
<1>3. objects' \subseteq Accounted'
  BY <1>2, SameUploads, SameSweeps DEF Ledger, Accounted, Faulty
<1>4. \A s \in Sweeps : /\ SweepAt(s, "list")' => sweep'[s].hashes = {}
                        /\ SweepAt(s, "delete")' => Listed(s)'
  BY <1>1, <1>2, ListedKept DEF Ledger, SweepAt
<1> QED
  BY <1>1, <1>2, <1>3, <1>4 DEF Ledger, UploadAt

-----------------------------------------------------------------------------
\* An object that no document refers to is in some request's hands, unless a
\* request of its owner was cut short, whatever the interleaving of uploads,
\* emptyings of the trash and requests on the tree.
THEOREM NothingLeaks == Spec => []NoLeak
<1>1. Init => Ledger
  <2> SUFFICES ASSUME Init PROVE Ledger
    OBVIOUS
  <2>1. TypeOK
    BY SafeInit DEF Safe
  <2>2. objects \subseteq Referenced
    BY <2>1, MarkerAssumption
       DEF Init, TypeOK, Referenced, References, Owned, Exists, Objects
  <2> QED
    BY <2>1, <2>2 DEF Init, Ledger, Accounted, UploadAt, SweepAt
<1>2. Ledger /\ [Next]_vars => Ledger'
  <2> SUFFICES ASSUME Ledger, [Next]_vars PROVE Ledger'
    OBVIOUS
  <2>1. CASE UNCHANGED vars
    <3>1. TypeOK'
      BY <2>1 DEF vars, Ledger, TypeOK, Objects
    <3>2. objects' \subseteq Accounted'
      BY <2>1, SameDocs, SameUploads, SameSweeps
         DEF vars, Ledger, Accounted, Faulty
    <3> QED
      BY <2>1, <3>1, <3>2
         DEF vars, Ledger, UploadAt, SweepAt, Listed, Owned, Exists
  <2> QED
    BY <2>1, UploadLedger, SweepLedger, TreeLedger DEF Next
<1> QED
  BY <1>1, <1>2, LedgerNoLeak, PTL DEF Spec
=============================================================================
