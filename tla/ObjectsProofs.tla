---------------------------- MODULE ObjectsProofs ----------------------------
(***************************************************************************)
(* What holds of Objects for every set of keys, inodes and requests and    *)
(* for every size of a chunk: the directory never names a part of an       *)
(* object, and it implements ObjectStore.                                  *)
(***************************************************************************)
EXTENDS Objects, WellFoundedInduction, TLAPS

-----------------------------------------------------------------------------
(* The length of a file.  Length is a recursive function; what it is for   *)
(* every file needs an induction, which is put as a least counterexample:  *)
(* the induction theorem itself takes an operator that no prover here can  *)
(* instantiate.                                                            *)

LEMMA LeastNatural ==
  ASSUME NEW T, T \subseteq Nat, T # {}
  PROVE  \E m \in T : \A n \in T : ~ (n < m)
<1>1. \E x \in T : \A y \in T : <<y, x>> \notin OpToRel(<, Nat)
  BY NatLessThanWellFounded, WFMin
<1> QED
  BY <1>1 DEF OpToRel

\* Whatever satisfies the recurrence of Length yields the length.
LEMMA LengthIs ==
  ASSUME NEW f, NEW n \in Nat, n = Len(f.chunks), NEW g,
         g = [i \in 0 .. n |->
                IF i = 0 THEN 0 ELSE g[i - 1] + f.chunks[i].len + TagSize]
  PROVE  Length(f) = g[n]
<1> DEFINE Rec(h) ==
             h = [i \in 0 .. n |->
                    IF i = 0 THEN 0 ELSE h[i - 1] + f.chunks[i].len + TagSize]
           upTo == CHOOSE h : Rec(h)
<1>1. Rec(upTo)
  <2> HIDE DEF Rec
  <2>1. Rec(g)
    BY DEF Rec
  <2> QED
    BY <2>1
<1>2. Length(f) = upTo[n]
  BY DEF Length
<1> HIDE DEF upTo
<1>3. ASSUME NEW i \in 0 .. n
      PROVE  upTo[i] = g[i]
  <2> DEFINE T == {j \in 0 .. n : upTo[j] # g[j]}
  <2> SUFFICES ASSUME T # {} PROVE FALSE
    OBVIOUS
  <2>1. T \subseteq Nat
    OBVIOUS
  <2> HIDE DEF T
  <2>2. PICK m \in T : \A j \in T : ~ (j < m)
    BY <2>1, LeastNatural
  <2>3. m \in 0 .. n /\ upTo[m] # g[m]
    BY DEF T
  <2>4. m \in 1 .. n
    BY <1>1, <2>3
  <2>5. m - 1 \in 0 .. n /\ m - 1 < m
    BY <2>4
  <2>6. upTo[m - 1] = g[m - 1]
    BY <2>2, <2>5 DEF T
  <2>7. upTo[m] = upTo[m - 1] + f.chunks[m].len + TagSize
    <3>1. upTo[m] = IF m = 0 THEN 0
                             ELSE upTo[m - 1] + f.chunks[m].len + TagSize
      BY <1>1, <2>3
    <3> QED
      BY <2>4, <3>1
  <2>8. g[m] = g[m - 1] + f.chunks[m].len + TagSize
    BY <2>4
  <2> QED
    BY <2>3, <2>6, <2>7, <2>8
<1>4. n \in 0 .. n
  OBVIOUS
<1> QED
  BY <1>2, <1>3, <1>4

-----------------------------------------------------------------------------
(* Whole objects and parts of them                                         *)

\* The object of a content of length s, written for key k.
WholeAs(k, s, f) ==
    LET count == Len(f.chunks) IN
    /\ f.size = s
    /\ count > 0 /\ count * CHUNK_SIZE >= s
    /\ count > 1 => (count - 1) * CHUNK_SIZE < s
    /\ \A j \in 1 .. count :
          f.chunks[j] = Sealed(k, s, j - 1,
              IF j < count THEN CHUNK_SIZE ELSE s - (count - 1) * CHUNK_SIZE)

\* Its first chunks, all of them full and more to come.
BegunAs(k, s, f) ==
    LET count == Len(f.chunks) IN
    /\ f.size = s
    /\ count * CHUNK_SIZE <= s
    /\ count > 0 => count * CHUNK_SIZE < s
    /\ \A j \in 1 .. count : f.chunks[j] = Sealed(k, s, j - 1, CHUNK_SIZE)

\* The arithmetic of chunks: the next one is full or the last.
LEMMA NextChunk ==
  ASSUME NEW s \in Nat, NEW i \in Nat, NEW t, t = i * CHUNK_SIZE, t <= s,
         i > 0 => t < s, NEW n, n = Least(CHUNK_SIZE, s - t)
  PROVE  /\ n \in 0 .. CHUNK_SIZE /\ t + n \in 0 .. s
         /\ WroteLast(n, s - t - n) =>
              /\ (i + 1) * CHUNK_SIZE >= s /\ n = s - i * CHUNK_SIZE
              /\ i > 0 => i * CHUNK_SIZE < s
         /\ ~WroteLast(n, s - t - n) =>
              /\ n = CHUNK_SIZE /\ t + n = (i + 1) * CHUNK_SIZE
              /\ (i + 1) * CHUNK_SIZE < s
  BY SizeAssumption DEF Least, WroteLast

LEMMA Appended ==
  ASSUME NEW f \in File, NEW c \in Chunk, NEW g,
         g = [f EXCEPT !.chunks = Append(@, c)]
  PROVE  /\ g \in File /\ g.size = f.size /\ g.synced = f.synced
         /\ Len(f.chunks) \in Nat /\ Len(g.chunks) = Len(f.chunks) + 1
         /\ \A j \in 1 .. Len(f.chunks) : g.chunks[j] = f.chunks[j]
         /\ g.chunks[Len(f.chunks) + 1] = c
  BY SMTT(30) DEF File

LEMMA OneMoreChunk ==
  ASSUME NEW f \in File, NEW k \in Keys, NEW s \in Sizes, BegunAs(k, s, f),
         NEW i, i = Len(f.chunks), NEW t, t = i * CHUNK_SIZE,
         NEW n, n = Least(CHUNK_SIZE, s - t),
         NEW g, g = [f EXCEPT !.chunks = Append(@, Sealed(k, s, i, n))]
  PROVE  /\ g \in File /\ g.synced = f.synced /\ Len(g.chunks) = i + 1
         /\ t + n \in Sizes
         /\ WroteLast(n, s - t - n) => WholeAs(k, s, g)
         /\ ~WroteLast(n, s - t - n) =>
               BegunAs(k, s, g) /\ t + n = (i + 1) * CHUNK_SIZE
<1>1. i \in Nat
  BY DEF File
<1>2. s \in Nat /\ t <= s /\ (i > 0 => t < s)
  BY SizeAssumption DEF BegunAs, Sizes
<1>3. /\ n \in 0 .. CHUNK_SIZE /\ t + n \in 0 .. s
      /\ WroteLast(n, s - t - n) =>
           /\ (i + 1) * CHUNK_SIZE >= s /\ n = s - i * CHUNK_SIZE
           /\ i > 0 => i * CHUNK_SIZE < s
      /\ ~WroteLast(n, s - t - n) =>
           /\ n = CHUNK_SIZE /\ t + n = (i + 1) * CHUNK_SIZE
           /\ (i + 1) * CHUNK_SIZE < s
  BY <1>1, <1>2, NextChunk
<1>4. Sealed(k, s, i, n) \in Chunk
  BY <1>1, <1>3 DEF Sealed, Chunk
<1>5. /\ g \in File /\ g.size = f.size /\ g.synced = f.synced
      /\ Len(g.chunks) = i + 1
      /\ \A j \in 1 .. i : g.chunks[j] = f.chunks[j]
      /\ g.chunks[i + 1] = Sealed(k, s, i, n)
  BY <1>4, Appended
<1>6. t + n \in Sizes
  BY <1>2, <1>3, SizeAssumption DEF Sizes
<1>7. ASSUME WroteLast(n, s - t - n)
      PROVE  WholeAs(k, s, g)
  <2>1. /\ g.size = s /\ i + 1 > 0 /\ (i + 1) * CHUNK_SIZE >= s
        /\ i + 1 > 1 => (i + 1 - 1) * CHUNK_SIZE < s
    BY <1>1, <1>3, <1>5, <1>7 DEF BegunAs
  <2>2. ASSUME NEW j \in 1 .. i + 1
        PROVE  g.chunks[j] = Sealed(k, s, j - 1,
                 IF j < i + 1 THEN CHUNK_SIZE ELSE s - (i + 1 - 1) * CHUNK_SIZE)
    <3>1. CASE j < i + 1
      BY <1>1, <1>5, <3>1 DEF BegunAs
    <3>2. CASE j = i + 1
      BY <1>1, <1>3, <1>5, <1>7, <3>2
    <3> QED
      BY <1>1, <3>1, <3>2
  <2> QED
    BY <1>5, <2>1, <2>2 DEF WholeAs
<1>8. ASSUME ~WroteLast(n, s - t - n)
      PROVE  BegunAs(k, s, g)
  <2>1. ASSUME NEW j \in 1 .. i + 1
        PROVE  g.chunks[j] = Sealed(k, s, j - 1, CHUNK_SIZE)
    <3>1. CASE j < i + 1
      BY <1>1, <1>5, <3>1 DEF BegunAs
    <3>2. CASE j = i + 1
      BY <1>1, <1>3, <1>5, <1>8, <3>2
    <3> QED
      BY <1>1, <3>1, <3>2
  <2>2. /\ g.size = s /\ (i + 1) * CHUNK_SIZE <= s
        /\ (i + 1) * CHUNK_SIZE < s
    BY <1>1, <1>3, <1>5, <1>8 DEF BegunAs
  <2> QED
    BY <1>5, <2>1, <2>2 DEF BegunAs
<1> QED
  BY <1>3, <1>5, <1>6, <1>7, <1>8

\* The length of a whole object is the one that its header promises.
LEMMA WholeLength ==
  ASSUME NEW k, NEW s \in Sizes, NEW f \in File, WholeAs(k, s, f)
  PROVE  Length(f) = ExpectedLength(f.size)
<1> DEFINE C     == CHUNK_SIZE
           count == Len(f.chunks)
           g     == [i \in 0 .. count |->
                       (IF i < count THEN i * C ELSE s) + i * TagSize]
<1>1. count \in Nat /\ count > 0 /\ s \in Nat /\ C \in Nat \ {0}
  BY SizeAssumption DEF File, WholeAs, Sizes
<1>2. ASSUME NEW i \in 1 .. count
      PROVE  f.chunks[i].len = IF i < count THEN C ELSE s - (count - 1) * C
  <2> DEFINE m == IF i < count THEN C ELSE s - (count - 1) * C
  <2>1. f.chunks[i] = Sealed(k, s, i - 1, m)
    BY DEF WholeAs
  <2> HIDE DEF m
  <2>2. f.chunks[i].len = m
    BY <2>1 DEF Sealed
  <2> QED
    BY <2>2 DEF m
<1> HIDE DEF count
<1>3. g = [i \in 0 .. count |->
             IF i = 0 THEN 0 ELSE g[i - 1] + f.chunks[i].len + TagSize]
  <2>1. g[0] = 0
    BY <1>1, SizeAssumption
  <2>2. ASSUME NEW i \in 1 .. count
        PROVE  g[i] = g[i - 1] + f.chunks[i].len + TagSize
    <3>1. g[i - 1] = (i - 1) * C + (i - 1) * TagSize
      BY <1>1
    <3>2. g[i] = (IF i < count THEN i * C ELSE s) + i * TagSize
      BY <1>1
    <3>3. (i - 1) * C + C = i * C /\ (i - 1) * TagSize + TagSize = i * TagSize
      BY <1>1, SizeAssumption
    <3>4. i * C \in Nat /\ (i - 1) * C \in Nat
            /\ i * TagSize \in Nat /\ (i - 1) * TagSize \in Nat
      BY <1>1, SizeAssumption
    <3> HIDE DEF g
    <3>5. CASE i < count
      BY <1>1, <1>2, <3>1, <3>2, <3>3, <3>4, <3>5, SizeAssumption
    <3>6. CASE i = count
      BY <1>1, <1>2, <3>1, <3>2, <3>3, <3>4, <3>6, SizeAssumption
    <3> QED
      BY <1>1, <3>5, <3>6
  <2>3. g = [i \in 0 .. count |-> g[i]]
    OBVIOUS
  <2> HIDE DEF g
  <2>4. ASSUME NEW i \in 0 .. count
        PROVE  g[i] = IF i = 0 THEN 0
                               ELSE g[i - 1] + f.chunks[i].len + TagSize
    BY <1>1, <2>1, <2>2
  <2> QED
    BY <2>3, <2>4
<1>4. Length(f) = g[count]
  <2> HIDE DEF g
  <2> QED
    BY <1>1, <1>3, LengthIs DEF count
<1>5. g[count] = s + count * TagSize
  BY <1>1
<1>6. ChunkCount(s) = count
  <2>1. CASE s = 0
    <3>1. count > 1 => (count - 1) * C < 0
      BY <2>1 DEF WholeAs, count
    <3>2. (count - 1) * C >= 0
      BY <1>1
    <3>3. count = 1
      BY <1>1, <3>1, <3>2
    <3> QED
      BY <2>1, <3>3 DEF ChunkCount
  <2>2. CASE s > 0
    <3>1. count * C >= s /\ (count - 1) * C < s
      BY <1>1, <2>2 DEF WholeAs, count
    <3>2. count * C <= s + C - 1 /\ s + C - 1 < (count + 1) * C
      BY <1>1, <3>1
    <3>3. (s + C - 1) \div C = count
      BY <1>1, <3>2
    <3> QED
      BY <1>1, <2>2, <3>3 DEF ChunkCount
  <2> QED
    BY <1>1, <2>1, <2>2
<1> QED
  BY <1>4, <1>5, <1>6 DEF ExpectedLength, WholeAs
-----------------------------------------------------------------------------
(* The invariant                                                           *)

Owner(w) == writer[w] # Idle
Open(r) == reader[r] # Idle

Tables ==
    /\ durable \in [Keys -> SUBSET (Files \cup {NoFile})]
    /\ file = [n \in Files |-> file[n]]

\* What may be published: the whole object, on the disk, within the indices.
Ready(k, n) ==
    /\ n \in Files /\ file[n] # NoFile
    /\ WholeObject(k, file[n])
    /\ file[n].synced /\ Len(file[n].chunks) <= MaxIndex

Published == \A k \in Keys : \A n \in durable[k] \ {NoFile} : Ready(k, n)

\* A temporary file is its writer's own ...
Exclusive ==
    \A w \in Writers : Owner(w) =>
        /\ \A k \in Keys : writer[w].file \notin durable[k]
        /\ \A v \in Writers \ {w} : Owner(v) => writer[v].file # writer[w].file
        /\ \A r \in Readers : Open(r) => reader[r].file # writer[w].file

\* ... and has as much of the object as the writer has counted.
WrittenSoFar(q, f) ==
    LET s == size[q.source] IN
    /\ q.index = Len(f.chunks) /\ q.index <= MaxIndex
    /\ q.pc = "write" =>
          q.total = q.index * CHUNK_SIZE /\ BegunAs(q.key, s, f)
    /\ q.pc # "write" => WholeAs(q.key, s, f)
    /\ q.pc = "rename" => q.source = q.key /\ f.synced

Written ==
    \A w \in Writers :
        Owner(w) => WrittenSoFar(writer[w], file[writer[w].file])

\* Whoever has a file open has a whole object open, and has read as many of
\* its chunks as counted.
ReadSoFar(q) ==
    LET f == file[q.file] IN
    /\ Ready(q.key, q.file)
    /\ q.pc \in {"header", "chunks", "done"}
    /\ q.pc = "header" => q.index = 0 /\ q.total = 0
    /\ q.pc = "chunks" =>
          /\ q.total = q.index * CHUNK_SIZE
          /\ q.index <= Len(f.chunks)
          /\ q.index = Len(f.chunks) => q.total = f.size
    /\ q.pc = "done" => q.total = f.size

Read == \A r \in Readers : Open(r) => ReadSoFar(reader[r])

ObjectsInv ==
    TypeOK /\ Tables /\ Published /\ Exclusive /\ Written /\ Read

-----------------------------------------------------------------------------
(* The steps                                                               *)

LEMMA SizesAreNaturals == Sizes \subseteq Nat
  BY SizeAssumption DEF Sizes

LEMMA WholeObjectIsWhole ==
  ASSUME NEW k, NEW f
  PROVE  WholeObject(k, f) <=> WholeAs(k, size[k], f)
  BY DEF WholeObject, WholeAs

\* Who uses an inode.
Uses(n) ==
    \/ \E k \in Keys : n = path[k] \/ n \in durable[k]
    \/ \E w \in Writers : writer[w] # Idle /\ n = writer[w].file
    \/ \E r \in Readers : reader[r] # Idle /\ n = reader[r].file

LEMMA InUseIs == \A n : n \in InUse <=> Uses(n)
<1> SUFFICES ASSUME NEW n PROVE n \in InUse <=> Uses(n)
  OBVIOUS
<1> DEFINE W == {v \in Writers : writer[v] # Idle}
           R == {q \in Readers : reader[q] # Idle}
<1>1. n \in {writer[w].file : w \in W}
        <=> \E w \in Writers : writer[w] # Idle /\ n = writer[w].file
  OBVIOUS
<1>2. n \in {reader[r].file : r \in R}
        <=> \E r \in Readers : reader[r] # Idle /\ n = reader[r].file
  OBVIOUS
<1>3. n \in {path[k] : k \in Keys} <=> \E k \in Keys : n = path[k]
  OBVIOUS
<1>4. n \in UNION {durable[k] : k \in Keys} <=> \E k \in Keys : n \in durable[k]
  OBVIOUS
<1> QED
  BY <1>1, <1>2, <1>3, <1>4 DEF InUse, Uses

LEMMA InUseIsNext == (\A n : n \in InUse <=> Uses(n))'
  BY InUseIs, PTL

LEMMA InitInv == Init => ObjectsInv
<1> SUFFICES ASSUME Init PROVE ObjectsInv
  OBVIOUS
<1>1. InUse \subseteq {NoFile}
  BY DEF Init, InUse
<1>2. TypeOK
  BY <1>1, SlotAssumption DEF Init, TypeOK
<1>3. Tables
  BY DEF Init, Tables
<1>4. Published /\ Exclusive /\ Written /\ Read
  BY DEF Init, Published, Exclusive, Written, Read, Owner, Open
<1> QED
  BY <1>2, <1>3, <1>4 DEF ObjectsInv

\* The steps that only give up inodes, or publish what is ready: a request
\* ends or goes on as it is, and Release frees what is out of use.
LEMMA Narrowed ==
  ASSUME ObjectsInv, UNCHANGED size,
         path' \in [Keys -> Files \cup {NoFile}],
         durable' \in [Keys -> SUBSET (Files \cup {NoFile})],
         writer' \in [Writers -> WriteReq \cup {Idle}],
         reader' \in [Readers -> ReadReq \cup {Idle}],
         \A k \in Keys : path'[k] \in durable'[k],
         \A w \in Writers : writer'[w] \in {writer[w], Idle},
         \A r \in Readers : reader'[r] \in {reader[r], Idle},
         \A k \in Keys : \A n \in durable'[k] \ {NoFile} :
            /\ Ready(k, n)
            /\ \A w \in Writers : writer'[w] # Idle => writer'[w].file # n,
         NEW f, \A n \in Files :
                   file[n] # NoFile /\ n \in InUse' => f[n] = file[n],
         Release(f)
  PROVE  ObjectsInv'
<1>1. ASSUME NEW n \in Files, n \in InUse'
      PROVE  file[n] # NoFile /\ file'[n] = file[n]
  <2>1. CASE \E k \in Keys : n \in durable'[k]
    <3>1. file[n] # NoFile
      BY <2>1, SlotAssumption DEF Ready
    <3> QED
      BY <1>1, <3>1 DEF Release
  <2>2. CASE \E w \in Writers : writer'[w] # Idle /\ writer'[w].file = n
    <3>1. n \in InUse
      BY <2>2, InUseIs DEF Uses
    <3> QED
      BY <1>1, <3>1 DEF Release, ObjectsInv, TypeOK
  <2>3. CASE \E r \in Readers : reader'[r] # Idle /\ reader'[r].file = n
    <3>1. n \in InUse
      BY <2>3, InUseIs DEF Uses
    <3> QED
      BY <1>1, <3>1 DEF Release, ObjectsInv, TypeOK
  <2>4. CASE \E k \in Keys : n = path'[k]
    BY <2>1, <2>4
  <2> QED
    BY <1>1, <2>1, <2>2, <2>3, <2>4, InUseIsNext DEF Uses
<1>2. TypeOK'
  <2>1. \A n \in Files : file'[n] # NoFile <=> n \in InUse'
    BY <1>1 DEF Release
  <2>2. \A n \in Files : file'[n] # NoFile => file'[n] \in File
    BY <1>1, <2>1 DEF ObjectsInv, TypeOK
  <2> QED
    BY <2>1, <2>2 DEF TypeOK, ObjectsInv
<1>3. Tables'
  BY DEF Tables, Release
<1>4. ASSUME NEW k \in Keys, NEW n \in Files, n \in InUse', Ready(k, n)
      PROVE  Ready(k, n)'
  BY <1>1, <1>4 DEF Ready, WholeObject
<1>5. Published'
  <2> SUFFICES ASSUME NEW k \in Keys, NEW n \in durable'[k] \ {NoFile}
               PROVE  Ready(k, n)'
    BY DEF Published
  <2>1. n \in InUse' /\ n \in Files
    BY DEF InUse
  <2> QED
    BY <1>4, <2>1
<1>6. Exclusive'
  BY SlotAssumption DEF Exclusive, ObjectsInv, TypeOK, WriteReq, Owner, Open
<1>7. Written'
  <2> SUFFICES ASSUME NEW w \in Writers, writer'[w] # Idle
               PROVE  WrittenSoFar(writer[w], file[writer[w].file])'
    BY DEF Written, Owner
  <2>1. writer'[w] = writer[w] /\ writer[w] \in WriteReq
    BY DEF ObjectsInv, TypeOK
  <2>2. writer[w].file \in Files /\ writer[w].file \in InUse'
    BY <2>1, InUseIsNext DEF Uses, WriteReq
  <2> QED
    BY <1>1, <2>1, <2>2 DEF ObjectsInv, Written, Owner, WrittenSoFar
<1>8. Read'
  <2> SUFFICES ASSUME NEW r \in Readers, reader'[r] # Idle
               PROVE  ReadSoFar(reader[r])'
    BY DEF Read, Open
  <2>1. reader'[r] = reader[r] /\ reader[r] \in ReadReq
    BY DEF ObjectsInv, TypeOK
  <2>2. /\ reader[r].file \in Files /\ reader[r].file \in InUse'
        /\ reader[r].key \in Keys
    BY <2>1, InUseIsNext DEF Uses, ReadReq
  <2>3. ReadSoFar(reader[r])
    BY <2>1 DEF ObjectsInv, Read, Open
  <2>4. Ready(reader[r].key, reader[r].file)'
    BY <1>4, <2>1, <2>2, <2>3 DEF ReadSoFar
  <2> QED
    BY <1>1, <2>1, <2>2, <2>3, <2>4 DEF ReadSoFar
<1> QED
  BY <1>2, <1>3, <1>5, <1>6, <1>7, <1>8 DEF ObjectsInv

LEMMA WriterFacts ==
  ASSUME ObjectsInv, NEW w \in Writers, writer[w] # Idle
  PROVE  /\ writer[w] \in WriteReq
         /\ writer[w].file \in Files /\ file[writer[w].file] # NoFile
         /\ file[writer[w].file] \in File
         /\ writer[w].file \in InUse
         /\ WrittenSoFar(writer[w], file[writer[w].file])
<1>1. writer[w] \in WriteReq
  BY DEF ObjectsInv, TypeOK
<1>2. writer[w].file \in Files /\ writer[w].file \in InUse
  BY <1>1, InUseIs DEF WriteReq, Uses
<1> QED
  BY <1>1, <1>2 DEF ObjectsInv, TypeOK, Written, Owner

LEMMA AbandonStep ==
  ASSUME ObjectsInv, NEW w \in Writers, writer[w] # Idle, Abandon(w),
         UNCHANGED <<size, path, durable, reader>>
  PROVE  ObjectsInv'
<1>1. writer' = [writer EXCEPT ![w] = Idle] /\ Release(file)
  BY DEF Abandon
<1>2. /\ path \in [Keys -> Files \cup {NoFile}]
      /\ durable \in [Keys -> SUBSET (Files \cup {NoFile})]
      /\ writer' \in [Writers -> WriteReq \cup {Idle}]
      /\ reader \in [Readers -> ReadReq \cup {Idle}]
      /\ \A k \in Keys : path[k] \in durable[k]
      /\ \A v \in Writers : writer'[v] \in {writer[v], Idle}
  BY <1>1 DEF ObjectsInv, TypeOK, Tables
<1>3. \A k \in Keys : \A n \in durable[k] \ {NoFile} :
         /\ Ready(k, n)
         /\ \A v \in Writers : writer'[v] # Idle => writer'[v].file # n
  BY <1>2 DEF ObjectsInv, Published, Exclusive, Owner
<1> QED
  BY <1>1, <1>2, <1>3, Narrowed

LEMMA RenameStep ==
  ASSUME ObjectsInv, NEW w \in Writers, Rename(w)
  PROVE  ObjectsInv'
<1> DEFINE k == writer[w].key
           n == writer[w].file
<1>1. writer[w] # Idle /\ writer[w].pc = "rename"
  BY DEF Rename, WriterAt
<1>2. k \in Keys /\ n \in Files /\ Ready(k, n)
  BY <1>1, WriterFacts, WholeObjectIsWhole
     DEF WriteReq, Ready, WrittenSoFar
<1>3. /\ path' = [path EXCEPT ![k] = n]
      /\ durable' = [durable EXCEPT ![k] = @ \cup {n}]
      /\ writer' = [writer EXCEPT ![w] = Idle]
      /\ UNCHANGED <<size, reader>>
      /\ Release(file)
  BY DEF Rename
<1> HIDE DEF k
<1>4. /\ path' \in [Keys -> Files \cup {NoFile}]
      /\ durable' \in [Keys -> SUBSET (Files \cup {NoFile})]
      /\ writer' \in [Writers -> WriteReq \cup {Idle}]
      /\ reader' \in [Readers -> ReadReq \cup {Idle}]
      /\ \A j \in Keys : path'[j] \in durable'[j]
      /\ \A v \in Writers : writer'[v] \in {writer[v], Idle}
      /\ \A r \in Readers : reader'[r] \in {reader[r], Idle}
  BY <1>2, <1>3 DEF ObjectsInv, TypeOK, Tables
<1>5. ASSUME NEW j \in Keys, NEW m \in durable'[j] \ {NoFile}
      PROVE  /\ Ready(j, m)
             /\ \A v \in Writers : writer'[v] # Idle => writer'[v].file # m
  <2>1. CASE m \in durable[j]
    BY <1>3, <2>1 DEF ObjectsInv, TypeOK, Published, Exclusive, Owner
  <2>2. CASE j = k /\ m = n
    BY <1>1, <1>2, <1>3, <2>2 DEF ObjectsInv, TypeOK, Exclusive, Owner
  <2> QED
    BY <1>3, <2>1, <2>2 DEF ObjectsInv, Tables
<1> QED
  BY <1>3, <1>4, <1>5, Narrowed

LEMMA RemoveStep ==
  ASSUME ObjectsInv, NEW k \in Keys, Remove(k)
  PROVE  ObjectsInv'
<1>1. /\ path' = [path EXCEPT ![k] = NoFile]
      /\ durable' = [durable EXCEPT ![k] = @ \cup {NoFile}]
      /\ UNCHANGED <<size, writer, reader>>
      /\ Release(file)
  BY DEF Remove
<1>2. /\ path' \in [Keys -> Files \cup {NoFile}]
      /\ durable' \in [Keys -> SUBSET (Files \cup {NoFile})]
      /\ writer' \in [Writers -> WriteReq \cup {Idle}]
      /\ reader' \in [Readers -> ReadReq \cup {Idle}]
      /\ \A j \in Keys : path'[j] \in durable'[j]
      /\ \A v \in Writers : writer'[v] \in {writer[v], Idle}
      /\ \A r \in Readers : reader'[r] \in {reader[r], Idle}
  BY <1>1 DEF ObjectsInv, TypeOK, Tables
<1>3. ASSUME NEW j \in Keys, NEW m \in durable'[j] \ {NoFile}
      PROVE  /\ Ready(j, m)
             /\ \A v \in Writers : writer'[v] # Idle => writer'[v].file # m
  <2>1. m \in durable[j]
    BY <1>1 DEF ObjectsInv, Tables
  <2> QED
    BY <1>1, <2>1 DEF ObjectsInv, Published, Exclusive, Owner
<1> QED
  BY <1>1, <1>2, <1>3, Narrowed

LEMMA FlushStep ==
  ASSUME ObjectsInv, NEW k \in Keys, Flush(k)
  PROVE  ObjectsInv'
<1>1. /\ durable' = [durable EXCEPT ![k] = {path[k]}]
      /\ UNCHANGED <<size, path, writer, reader>>
      /\ Release(file)
  BY DEF Flush
<1>2. /\ path' \in [Keys -> Files \cup {NoFile}]
      /\ durable' \in [Keys -> SUBSET (Files \cup {NoFile})]
      /\ writer' \in [Writers -> WriteReq \cup {Idle}]
      /\ reader' \in [Readers -> ReadReq \cup {Idle}]
      /\ \A j \in Keys : path'[j] \in durable'[j]
      /\ \A v \in Writers : writer'[v] \in {writer[v], Idle}
      /\ \A r \in Readers : reader'[r] \in {reader[r], Idle}
  BY <1>1 DEF ObjectsInv, TypeOK, Tables
<1>3. ASSUME NEW j \in Keys, NEW m \in durable'[j] \ {NoFile}
      PROVE  /\ Ready(j, m)
             /\ \A v \in Writers : writer'[v] # Idle => writer'[v].file # m
  <2>1. m \in durable[j]
    BY <1>1 DEF ObjectsInv, TypeOK, Tables
  <2> QED
    BY <1>1, <2>1 DEF ObjectsInv, Published, Exclusive, Owner
<1> QED
  BY <1>1, <1>2, <1>3, Narrowed

LEMMA EndReadStep ==
  ASSUME ObjectsInv, NEW r \in Readers, EndRead(r)
  PROVE  ObjectsInv'
<1>1. /\ reader' = [reader EXCEPT ![r] = Idle]
      /\ UNCHANGED <<size, path, durable, writer>>
      /\ Release(file)
  BY DEF EndRead
<1>2. /\ path' \in [Keys -> Files \cup {NoFile}]
      /\ durable' \in [Keys -> SUBSET (Files \cup {NoFile})]
      /\ writer' \in [Writers -> WriteReq \cup {Idle}]
      /\ reader' \in [Readers -> ReadReq \cup {Idle}]
      /\ \A j \in Keys : path'[j] \in durable'[j]
      /\ \A v \in Writers : writer'[v] \in {writer[v], Idle}
      /\ \A q \in Readers : reader'[q] \in {reader[q], Idle}
  BY <1>1 DEF ObjectsInv, TypeOK, Tables
<1>3. ASSUME NEW j \in Keys, NEW m \in durable'[j] \ {NoFile}
      PROVE  /\ Ready(j, m)
             /\ \A v \in Writers : writer'[v] # Idle => writer'[v].file # m
  BY <1>1 DEF ObjectsInv, Published, Exclusive, Owner
<1> QED
  BY <1>1, <1>2, <1>3, Narrowed

\* A power loss tears no file that the directory may name.
LEMMA PowerLossStep ==
  ASSUME ObjectsInv, PowerLoss
  PROVE  ObjectsInv'
<1>1. PICK m \in 0 .. MaxIndex + 1 : Release([n \in Files |-> Torn(n, m)])
  BY DEF PowerLoss
<1>2. /\ path' \in [Keys -> Files \cup {NoFile}]
      /\ \A k \in Keys : path'[k] \in durable[k]
      /\ durable' = [k \in Keys |-> {path'[k]}]
      /\ writer' = [w \in Writers |-> Idle]
      /\ reader' = [r \in Readers |-> Idle]
      /\ UNCHANGED size
  BY DEF PowerLoss
<1>3. /\ durable' \in [Keys -> SUBSET (Files \cup {NoFile})]
      /\ writer' \in [Writers -> WriteReq \cup {Idle}]
      /\ reader' \in [Readers -> ReadReq \cup {Idle}]
      /\ \A j \in Keys : path'[j] \in durable'[j]
      /\ \A v \in Writers : writer'[v] \in {writer[v], Idle}
      /\ \A r \in Readers : reader'[r] \in {reader[r], Idle}
  BY <1>2
<1>4. ASSUME NEW j \in Keys, NEW n \in durable'[j] \ {NoFile}
      PROVE  /\ Ready(j, n)
             /\ \A v \in Writers : writer'[v] # Idle => writer'[v].file # n
  BY <1>2 DEF ObjectsInv, Published
<1>5. ASSUME NEW n \in Files, n \in InUse'
      PROVE  [o \in Files |-> Torn(o, m)][n] = file[n]
  <2>1. PICK k \in Keys : n = path'[k]
    BY <1>2, <1>5, SlotAssumption DEF InUse
  <2>2. n \in durable[k] \ {NoFile}
    BY <1>2, <2>1, SlotAssumption
  <2>3. file[n].synced
    BY <2>2 DEF ObjectsInv, Published, Ready
  <2> QED
    BY <2>3 DEF Torn
<1> QED
  BY <1>1, <1>2, <1>3, <1>4, <1>5, Narrowed

\* A reader that opens a file in use, or goes on with its own.
LEMMA ReaderMoves ==
  ASSUME ObjectsInv, NEW r \in Readers, NEW q \in ReadReq,
         UNCHANGED <<size, path, durable, file, writer>>,
         reader' = [reader EXCEPT ![r] = q],
         ReadSoFar(q), q.file \in InUse,
         reader[r] # Idle => q.file = reader[r].file,
         \A w \in Writers : Owner(w) => writer[w].file # q.file
  PROVE  ObjectsInv'
<1>1. /\ \A o \in Readers \ {r} : reader'[o] = reader[o]
      /\ reader'[r] = q /\ q # Idle
      /\ reader' \in [Readers -> ReadReq \cup {Idle}]
  BY SlotAssumption DEF ObjectsInv, TypeOK
<1>2. ASSUME NEW n PROVE n \in InUse' <=> n \in InUse
  <2>1. Uses(q.file)
    BY InUseIs
  <2>2. Uses(n)' <=> Uses(n)
    <3>1. CASE n = q.file
      BY <1>1, <2>1, <3>1 DEF Uses
    <3>2. CASE n # q.file
      BY <1>1, <3>2 DEF Uses
    <3> QED
      BY <3>1, <3>2
  <2> QED
    BY <2>2, InUseIs, InUseIsNext
<1>3. TypeOK'
  BY <1>1, <1>2 DEF ObjectsInv, TypeOK
<1>4. Tables' /\ Published'
  <2>1. Tables'
    BY DEF ObjectsInv, Tables
  <2>2. Published'
    BY DEF ObjectsInv, Published, Ready, WholeObject
  <2> QED
    BY <2>1, <2>2
<1>5. Exclusive'
  BY <1>1 DEF ObjectsInv, Exclusive, Owner, Open
<1>6. Written'
  BY DEF ObjectsInv, Written, WrittenSoFar, Owner
<1>7. \A o : ReadSoFar(o) => ReadSoFar(o)'
  BY DEF ReadSoFar, Ready, WholeObject
<1>8. ASSUME NEW o \in Readers, reader'[o] # Idle
      PROVE  ReadSoFar(reader'[o])
  BY <1>1, <1>8 DEF ObjectsInv, Read, Open
<1>9. Read'
  <2> SUFFICES ASSUME NEW o \in Readers, reader'[o] # Idle
               PROVE  ReadSoFar(reader[o])'
    BY DEF Read, Open
  <2>1. ReadSoFar(reader'[o])
    BY <1>8
  <2> QED
    BY <2>1 DEF ReadSoFar, Ready, WholeObject
<1> QED
  BY <1>3, <1>4, <1>5, <1>6, <1>9 DEF ObjectsInv

LEMMA ReaderFacts ==
  ASSUME ObjectsInv, NEW r \in Readers, reader[r] # Idle
  PROVE  /\ reader[r] \in ReadReq
         /\ reader[r].key \in Keys /\ reader[r].file \in Files
         /\ reader[r].file \in InUse
         /\ file[reader[r].file] \in File
         /\ WholeAs(reader[r].key, size[reader[r].key], file[reader[r].file])
         /\ ReadSoFar(reader[r])
         /\ \A w \in Writers : Owner(w) => writer[w].file # reader[r].file
<1>1. reader[r] \in ReadReq /\ ReadSoFar(reader[r])
  BY DEF ObjectsInv, TypeOK, Read, Open
<1>2. /\ reader[r].key \in Keys /\ reader[r].file \in Files
      /\ reader[r].file \in InUse
  BY <1>1, InUseIs DEF ReadReq, Uses
<1>3. \A w \in Writers : Owner(w) => writer[w].file # reader[r].file
  BY DEF ObjectsInv, Exclusive, Open
<1> QED
  BY <1>1, <1>2, <1>3, WholeObjectIsWhole
     DEF ObjectsInv, TypeOK, ReadSoFar, Ready

LEMMA StartReadStep ==
  ASSUME ObjectsInv, NEW r \in Readers, StartRead(r)
  PROVE  ObjectsInv'
<1>1. PICK k \in Keys :
        /\ path[k] # NoFile
        /\ reader' = [reader EXCEPT ![r] =
              [pc |-> "header", key |-> k, file |-> path[k], index |-> 0,
               total |-> 0]]
  BY DEF StartRead
<1> DEFINE q == [pc |-> "header", key |-> k, file |-> path[k], index |-> 0,
                 total |-> 0]
<1>2. path[k] \in durable[k] \ {NoFile} /\ path[k] \in Files
  BY <1>1 DEF ObjectsInv, TypeOK
<1>3. q \in ReadReq
  BY <1>2, SizeAssumption DEF ReadReq, Sizes
<1>4. Ready(k, path[k])
  BY <1>2 DEF ObjectsInv, Published
<1>5. ReadSoFar(q)
  BY <1>4 DEF ReadSoFar
<1>6. q.file \in InUse
  BY InUseIs DEF Uses
<1>7. \A w \in Writers : Owner(w) => writer[w].file # q.file
  BY <1>2 DEF ObjectsInv, Exclusive
<1>8. reader[r] = Idle /\ UNCHANGED <<size, path, durable, file, writer>>
  BY DEF StartRead
<1>9. reader' = [reader EXCEPT ![r] = q]
  BY <1>1
<1> HIDE DEF q
<1> QED
  BY <1>3, <1>5, <1>6, <1>7, <1>8, <1>9, ReaderMoves

\* The chunks are as long as the header says, whoever reads them.
LEMMA HeaderPasses ==
  ASSUME ObjectsInv, NEW r \in Readers, Header(r)
  PROVE  reader' = [reader EXCEPT ![r].pc = "chunks"]
<1>1. reader[r] # Idle
  BY DEF Header, ReaderAt
<1>2. size[reader[r].key] \in Sizes
  BY <1>1, ReaderFacts DEF ObjectsInv, TypeOK
<1>3. Length(file[reader[r].file]) = ExpectedLength(file[reader[r].file].size)
  BY <1>1, <1>2, ReaderFacts, WholeLength
<1> QED
  BY <1>3 DEF Header, ToPc

LEMMA HeaderStep ==
  ASSUME ObjectsInv, NEW r \in Readers, Header(r)
  PROVE  ObjectsInv'
<1> DEFINE q == [reader[r] EXCEPT !.pc = "chunks"]
<1>1. reader[r] # Idle /\ reader[r].pc = "header"
  BY DEF Header, ReaderAt
<1>2. reader' = [reader EXCEPT ![r] = q]
  BY HeaderPasses DEF ObjectsInv, TypeOK
<1>3. /\ q \in ReadReq /\ q.key = reader[r].key /\ q.file = reader[r].file
      /\ q.pc = "chunks" /\ q.index = reader[r].index
      /\ q.total = reader[r].total
  BY <1>1, ReaderFacts DEF ReadReq
<1> HIDE DEF q
<1>4. Len(file[q.file].chunks) \in Nat /\ Len(file[q.file].chunks) > 0
  BY <1>1, <1>3, ReaderFacts DEF File, WholeAs
<1>5. ReadSoFar(q)
  BY <1>1, <1>3, <1>4, ReaderFacts, SizeAssumption DEF ReadSoFar
<1>6. UNCHANGED <<size, path, durable, file, writer>>
  BY DEF Header
<1> QED
  BY <1>1, <1>2, <1>3, <1>5, <1>6, ReaderFacts, ReaderMoves

\* The arithmetic of reading: n is the length of the chunk after the first i
\* of count, which hold t of s bytes.
Follows(s, count, i, t, n) ==
    /\ i > 0 => t < s
    /\ n = IF i + 1 < count THEN CHUNK_SIZE ELSE s - (count - 1) * CHUNK_SIZE
    /\ i + 1 < count => n = CHUNK_SIZE
    /\ n \in 0 .. CHUNK_SIZE /\ t + n \in 0 .. s
    /\ i + 1 = count => t + n = s
    /\ n = CHUNK_SIZE => t + n = (i + 1) * CHUNK_SIZE

LEMMA ChunkFollows ==
  ASSUME NEW s \in Nat, NEW count \in Nat, count > 0, count * CHUNK_SIZE >= s,
         count > 1 => (count - 1) * CHUNK_SIZE < s,
         NEW i \in 0 .. count - 1, NEW t, t = i * CHUNK_SIZE,
         NEW n, n = Least(CHUNK_SIZE, s - t)
  PROVE  Follows(s, count, i, t, n)
<1>1. CHUNK_SIZE \in Nat \ {0}
  BY SizeAssumption
<1>2. CASE i + 1 = count
  BY <1>1, <1>2 DEF Least, Follows
<1>3. CASE i + 1 < count
  <2>1. (i + 1) * CHUNK_SIZE <= (count - 1) * CHUNK_SIZE
    BY <1>1, <1>3
  <2>2. (i + 1) * CHUNK_SIZE = i * CHUNK_SIZE + CHUNK_SIZE
    BY <1>1
  <2> QED
    BY <1>1, <1>3, <2>1, <2>2 DEF Least, Follows
<1> QED
  BY <1>2, <1>3

\* What a call of the stream does with a whole object: the next chunk, or the
\* end when there is none.
LEMMA ReadChunkReads ==
  ASSUME ObjectsInv, NEW r \in Readers, ReadChunk(r)
  PROVE  \E q \in ReadReq :
            /\ reader' = [reader EXCEPT ![r] = q]
            /\ q.key = reader[r].key /\ q.file = reader[r].file
            /\ ReadSoFar(q)
<1> DEFINE p     == reader[r]
           f     == file[p.file]
           s     == f.size
           count == Len(f.chunks)
           i     == p.index
           n     == Least(CHUNK_SIZE, s - p.total)
<1>1. reader[r] # Idle /\ p.pc = "chunks"
  BY DEF ReadChunk, ReaderAt
<1>2. /\ p \in ReadReq /\ ReadSoFar(p) /\ f \in File
      /\ WholeAs(p.key, s, f)
  <2>1. p \in ReadReq /\ ReadSoFar(p) /\ f \in File
    BY <1>1, ReaderFacts
  <2>2. WholeAs(p.key, size[p.key], f)
    BY <1>1, ReaderFacts
  <2>3. s = size[p.key]
    BY <2>2 DEF WholeAs
  <2> QED
    BY <2>1, <2>2, <2>3
<1>3. /\ s \in Nat /\ count \in Nat /\ i \in Nat /\ count > 0
      /\ p.total = i * CHUNK_SIZE /\ i <= count /\ count <= MaxIndex
      /\ i = count => p.total = s
  BY <1>1, <1>2, SizeAssumption
     DEF ReadReq, ReadSoFar, Ready, File, Sizes, WholeAs
<1>4. reader \in [Readers -> ReadReq \cup {Idle}]
  BY DEF ObjectsInv, TypeOK
<1>5. CASE i = count
  <2> DEFINE q == [p EXCEPT !.pc = "done"]
  <2>1. reader' = [reader EXCEPT ![r].pc = "done"]
    BY <1>1, <1>3, <1>5 DEF ReadChunk, ToPc, AtEnd
  <2>2. reader' = [reader EXCEPT ![r] = q]
    BY <1>4, <2>1
  <2>3. /\ q \in ReadReq /\ q.key = p.key /\ q.file = p.file /\ q.pc = "done"
        /\ q.total = p.total
    BY <1>2 DEF ReadReq
  <2> HIDE DEF q
  <2>4. ReadSoFar(q)
    BY <1>2, <1>3, <1>5, <2>3 DEF ReadSoFar
  <2> QED
    BY <2>2, <2>3, <2>4
<1>6. CASE i < count
  <2> DEFINE pc == IF n < CHUNK_SIZE THEN "done" ELSE "chunks"
             q  == [p EXCEPT !.index = i + 1, !.total = p.total + n, !.pc = pc]
  <2> HIDE DEF p, f, s, count, i, n, pc, q
  <2>1. /\ i > 0 => p.total < s
        /\ n = IF i + 1 < count THEN CHUNK_SIZE
                                ELSE s - (count - 1) * CHUNK_SIZE
        /\ i + 1 < count => n = CHUNK_SIZE
        /\ n \in 0 .. CHUNK_SIZE /\ p.total + n \in 0 .. s
        /\ i + 1 = count => p.total + n = s
        /\ n = CHUNK_SIZE => p.total + n = (i + 1) * CHUNK_SIZE
    <3>1. i \in 0 .. count - 1
      BY <1>3, <1>6
    <3>2. count * CHUNK_SIZE >= s /\ (count > 1 => (count - 1) * CHUNK_SIZE < s)
      BY <1>2 DEF WholeAs, count
    <3>3. n = Least(CHUNK_SIZE, s - p.total)
      BY DEF n
    <3>4. Follows(s, count, i, p.total, n)
      BY <1>3, <3>1, <3>2, <3>3, ChunkFollows
    <3> QED
      BY <3>4 DEF Follows
  <2>2. f.chunks[i + 1] = Sealed(p.key, s, i, n)
    <3>1. i + 1 \in 1 .. count
      BY <1>3, <1>6
    <3>2. \A j \in 1 .. count : f.chunks[j] = Sealed(p.key, s, j - 1,
             IF j < count THEN CHUNK_SIZE ELSE s - (count - 1) * CHUNK_SIZE)
      BY <1>2 DEF WholeAs, count
    <3>3. i + 1 - 1 = i
      BY <1>3
    <3> QED
      BY <1>3, <2>1, <3>1, <3>2, <3>3
  <2>3. n < CHUNK_SIZE => i + 1 = count
    BY <1>3, <1>6, <2>1
  <2>4. reader' = [reader EXCEPT
                     ![r].index = i + 1, ![r].total = @ + n, ![r].pc = pc]
    <3>1. s - p.total = 0 => ~(i > 0)
      BY <1>3, <1>6, <2>1, SizeAssumption
    <3>2. i # count /\ i # MaxIndex
      BY <1>3, <1>6, SizeAssumption
    <3>3. reader' = [reader EXCEPT
              ![r].index = i + 1, ![r].total = @ + n,
              ![r].pc = IF n < CHUNK_SIZE THEN AtEnd(r, i + 1) ELSE "chunks"]
      BY <2>2, <3>1, <3>2 DEF ReadChunk, p, f, s, count, i, n
    <3>4. n < CHUNK_SIZE => AtEnd(r, i + 1) = "done"
      BY <1>3, <2>3 DEF AtEnd, p, f, count
    <3> QED
      BY <3>3, <3>4 DEF pc
  <2>5. reader' = [reader EXCEPT ![r] = q]
    BY <1>4, <2>4 DEF q, p
  <2>6. /\ q \in ReadReq /\ q.key = p.key /\ q.file = p.file /\ q.pc = pc
        /\ q.index = i + 1 /\ q.total = p.total + n
    <3>1. f.size \in Sizes
      BY <1>2 DEF File
    <3>2. p.total + n \in Sizes
      BY <1>3, <2>1, <3>1, SizeAssumption DEF Sizes, s
    <3>3. pc \in {"chunks", "done"} /\ i + 1 \in Nat
      BY <1>3 DEF pc
    <3> QED
      BY <1>2, <3>2, <3>3 DEF ReadReq, q
  <2>7. ReadSoFar(q)
    <3>1. Ready(q.key, q.file) /\ file[q.file] = f
      BY <1>2, <2>6 DEF ReadSoFar, f
    <3>2. q.pc = "chunks" =>
            /\ q.total = q.index * CHUNK_SIZE
            /\ q.index <= count
            /\ q.index = count => q.total = s
      BY <1>3, <1>6, <2>1, <2>6, SizeAssumption DEF pc
    <3>3. q.pc = "done" => q.total = s
      BY <2>1, <2>3, <2>6 DEF pc
    <3> QED
      BY <2>6, <3>1, <3>2, <3>3 DEF ReadSoFar, s, count, pc
  <2> QED
    BY <2>5, <2>6, <2>7 DEF p
<1> QED
  BY <1>3, <1>5, <1>6

LEMMA ReadChunkStep ==
  ASSUME ObjectsInv, NEW r \in Readers, ReadChunk(r)
  PROVE  ObjectsInv'
<1>1. reader[r] # Idle /\ UNCHANGED <<size, path, durable, file, writer>>
  BY DEF ReadChunk, ReaderAt
<1>2. PICK q \in ReadReq :
        /\ reader' = [reader EXCEPT ![r] = q]
        /\ q.key = reader[r].key /\ q.file = reader[r].file
        /\ ReadSoFar(q)
  BY ReadChunkReads
<1> QED
  BY <1>1, <1>2, ReaderFacts, ReaderMoves

\* A writer that goes on with its own file, or makes one.
LEMMA WriterMoves ==
  ASSUME ObjectsInv, NEW w \in Writers, NEW q \in WriteReq, NEW g \in File,
         UNCHANGED <<size, path, durable, reader>>,
         writer' = [writer EXCEPT ![w] = q],
         file' = [file EXCEPT ![q.file] = g],
         WrittenSoFar(q, g),
         \/ writer[w] # Idle /\ writer[w].file = q.file
         \/ writer[w] = Idle /\ file[q.file] = NoFile
  PROVE  ObjectsInv'
<1>1. /\ \A v \in Writers \ {w} : writer'[v] = writer[v]
      /\ writer'[w] = q /\ q # Idle
      /\ writer' \in [Writers -> WriteReq \cup {Idle}]
  BY SlotAssumption DEF ObjectsInv, TypeOK
<1>2. /\ q.file \in Files /\ g # NoFile
      /\ file'[q.file] = g /\ \A n \in Files \ {q.file} : file'[n] = file[n]
      /\ file' = [n \in Files |-> file'[n]]
  BY SlotAssumption DEF ObjectsInv, Tables, WriteReq
<1>3. /\ \A k \in Keys : q.file \notin durable[k] /\ q.file # path[k]
      /\ \A v \in Writers \ {w} : Owner(v) => writer[v].file # q.file
      /\ \A r \in Readers : Open(r) => reader[r].file # q.file
  <2>1. CASE writer[w] # Idle /\ writer[w].file = q.file
    BY <2>1 DEF ObjectsInv, TypeOK, Exclusive, Owner
  <2>2. CASE writer[w] = Idle /\ file[q.file] = NoFile
    <3>1. ~Uses(q.file)
      BY <1>2, <2>2, InUseIs DEF ObjectsInv, TypeOK
    <3> QED
      BY <3>1 DEF Uses, Owner, Open
  <2> QED
    BY <2>1, <2>2
<1>4. ASSUME NEW n PROVE n \in InUse' <=> n = q.file \/ n \in InUse
  <2>1. Uses(n)' <=> n = q.file \/ Uses(n)
    BY <1>1, <1>3 DEF Uses, Owner
  <2> QED
    BY <2>1, InUseIs, InUseIsNext
<1>5. TypeOK'
  <2>1. \A n \in Files : file'[n] # NoFile <=> n \in InUse'
    BY <1>2, <1>4 DEF ObjectsInv, TypeOK
  <2>2. \A n \in Files : file'[n] # NoFile => file'[n] \in File
    BY <1>2 DEF ObjectsInv, TypeOK
  <2> QED
    BY <1>1, <2>1, <2>2 DEF ObjectsInv, TypeOK
<1>6. Tables'
  BY <1>2 DEF ObjectsInv, Tables
<1>7. ASSUME NEW k, NEW n, Ready(k, n), n # q.file
      PROVE  Ready(k, n)'
  BY <1>2, <1>7 DEF Ready, WholeObject
<1>8. Published'
  BY <1>3, <1>7 DEF ObjectsInv, Published
<1>9. Exclusive'
  BY <1>1, <1>3 DEF ObjectsInv, Exclusive, Owner, Open
<1>10. Written'
  <2> SUFFICES ASSUME NEW v \in Writers, writer'[v] # Idle
               PROVE  WrittenSoFar(writer[v], file[writer[v].file])'
    BY DEF Written, Owner
  <2>1. CASE v = w
    BY <1>1, <1>2, <2>1 DEF WrittenSoFar
  <2>2. CASE v # w
    <3>1. writer'[v] = writer[v] /\ Owner(v)
      BY <1>1, <2>2 DEF Owner
    <3>2. writer[v].file \in Files /\ writer[v].file # q.file
            /\ WrittenSoFar(writer[v], file[writer[v].file])
      BY <1>3, <2>2, <3>1, WriterFacts DEF Owner
    <3> QED
      BY <1>2, <3>1, <3>2 DEF WrittenSoFar
  <2> QED
    BY <2>1, <2>2
<1>11. Read'
  <2> SUFFICES ASSUME NEW r \in Readers, reader[r] # Idle
               PROVE  ReadSoFar(reader[r])'
    BY DEF Read, Open
  <2>1. /\ reader[r].file \in Files /\ reader[r].file # q.file
        /\ ReadSoFar(reader[r])
    BY <1>3, ReaderFacts DEF Open
  <2>2. Ready(reader[r].key, reader[r].file)'
    BY <1>2, <2>1 DEF ReadSoFar, Ready, WholeObject
  <2> QED
    BY <1>2, <2>1, <2>2 DEF ReadSoFar
<1> QED
  BY <1>5, <1>6, <1>8, <1>9, <1>10, <1>11 DEF ObjectsInv

LEMMA CreateStep ==
  ASSUME ObjectsInv, NEW w \in Writers, Create(w)
  PROVE  ObjectsInv'
<1>1. PICK k \in Keys, s \in Keys, n \in Files :
        /\ file[n] = NoFile
        /\ writer' = [writer EXCEPT ![w] =
             [pc |-> "write", key |-> k, source |-> s, file |-> n,
              index |-> 0, total |-> 0]]
        /\ file' = [file EXCEPT ![n] =
             [size |-> size[s], chunks |-> <<>>, synced |-> FALSE]]
  BY DEF Create
<1> DEFINE q == [pc |-> "write", key |-> k, source |-> s, file |-> n,
                 index |-> 0, total |-> 0]
           g == [size |-> size[s], chunks |-> <<>>, synced |-> FALSE]
<1>2. q \in WriteReq
  BY SizeAssumption DEF WriteReq, Sizes
<1>3. g \in File /\ size[s] \in Sizes
  BY DEF ObjectsInv, TypeOK, File
<1>4. WrittenSoFar(q, g)
  BY <1>3, SizeAssumption DEF WrittenSoFar, BegunAs, Sizes
<1>5. writer[w] = Idle /\ UNCHANGED <<size, path, durable, reader>>
  BY DEF Create
<1>6. /\ writer' = [writer EXCEPT ![w] = q]
      /\ file' = [file EXCEPT ![q.file] = g]
      /\ file[q.file] = NoFile
  BY <1>1
<1> HIDE DEF q, g
<1> QED
  BY <1>2, <1>3, <1>4, <1>5, <1>6, WriterMoves

LEMMA VerifyStep ==
  ASSUME ObjectsInv, NEW w \in Writers, Verify(w)
  PROVE  ObjectsInv'
<1>1. /\ writer[w] # Idle /\ writer[w].pc = "verify"
      /\ UNCHANGED <<size, path, durable, reader>>
  BY DEF Verify, WriterAt
<1>2. CASE writer[w].source # writer[w].key
  BY <1>1, <1>2, AbandonStep DEF Verify
<1>3. CASE writer[w].source = writer[w].key
  <2> DEFINE q == [writer[w] EXCEPT !.pc = "rename"]
             g == [file[writer[w].file] EXCEPT !.synced = TRUE]
  <2>1. /\ writer' = [writer EXCEPT ![w].pc = "rename"]
        /\ file' = [file EXCEPT ![writer[w].file].synced = TRUE]
    BY <1>3 DEF Verify
  <2>2. /\ q \in WriteReq /\ q.file = writer[w].file /\ q.pc = "rename"
        /\ q.key = writer[w].key /\ q.source = writer[w].source
        /\ q.index = writer[w].index
    BY <1>1, WriterFacts DEF WriteReq
  <2>3. /\ g \in File /\ g.synced /\ g.size = file[writer[w].file].size
        /\ g.chunks = file[writer[w].file].chunks
    BY <1>1, WriterFacts DEF File
  <2>4. /\ writer' = [writer EXCEPT ![w] = q]
        /\ file' = [file EXCEPT ![q.file] = g]
    BY <2>1, <2>2 DEF ObjectsInv, TypeOK, Tables
  <2> HIDE DEF q, g
  <2>5. WrittenSoFar(q, g)
    BY <1>1, <1>3, <2>2, <2>3, WriterFacts DEF WrittenSoFar, WholeAs
  <2> QED
    BY <1>1, <2>2, <2>3, <2>4, <2>5, WriterMoves
<1> QED
  BY <1>2, <1>3

LEMMA WriteChunkStep ==
  ASSUME ObjectsInv, NEW w \in Writers, WriteChunk(w)
  PROVE  ObjectsInv'
<1> DEFINE p == writer[w]
           f == file[p.file]
           s == size[p.source]
           n == Least(CHUNK_SIZE, s - p.total)
           c == Sealed(p.key, s, p.index, n)
<1>1. /\ p # Idle /\ p.pc = "write"
      /\ UNCHANGED <<size, path, durable, reader>>
  BY DEF WriteChunk, WriterAt
<1>2. CASE p.index = MaxIndex
  BY <1>1, <1>2, AbandonStep DEF WriteChunk
<1>3. CASE p.index # MaxIndex
  <2> DEFINE last == WroteLast(n, s - p.total - n)
             q == [p EXCEPT !.index = p.index + 1, !.total = p.total + n,
                            !.pc = IF last THEN "verify" ELSE "write"]
             g == [f EXCEPT !.chunks = Append(@, c)]
  <2>1. /\ file' = [file EXCEPT ![p.file].chunks = Append(@, c)]
        /\ writer' = [writer EXCEPT
              ![w].index = @ + 1, ![w].total = @ + n,
              ![w].pc = IF last THEN "verify" ELSE "write"]
    BY <1>3 DEF WriteChunk
  <2>2. /\ p \in WriteReq /\ f \in File /\ s \in Sizes
        /\ WrittenSoFar(p, f) /\ p.key \in Keys
    BY <1>1, WriterFacts DEF ObjectsInv, TypeOK, WriteReq
  <2>3. /\ p.index = Len(f.chunks) /\ p.total = p.index * CHUNK_SIZE
        /\ BegunAs(p.key, s, f) /\ p.index <= MaxIndex
    BY <1>1, <2>2 DEF WrittenSoFar
  <2>4. /\ writer' = [writer EXCEPT ![w] = q]
        /\ file' = [file EXCEPT ![p.file] = g]
    BY <2>1, <2>2 DEF ObjectsInv, TypeOK, Tables, WriteReq
  <2> HIDE DEF f, s, n
  <2>5. /\ g \in File /\ Len(g.chunks) = p.index + 1
        /\ p.total + n \in Sizes
        /\ last => WholeAs(p.key, s, g)
        /\ ~last => BegunAs(p.key, s, g)
                      /\ p.total + n = (p.index + 1) * CHUNK_SIZE
    BY <2>2, <2>3, OneMoreChunk DEF n
  <2> HIDE DEF last, g, q
  <2>6. /\ q \in WriteReq /\ q.file = p.file /\ q.key = p.key
        /\ q.source = p.source /\ q.index = p.index + 1
        /\ q.total = p.total + n
        /\ q.pc = IF last THEN "verify" ELSE "write"
    <3>1. p.index + 1 \in Nat
      BY <2>2 DEF WriteReq
    <3>2. (IF last THEN "verify" ELSE "write") \in {"write", "verify", "rename"}
      OBVIOUS
    <3> QED
      BY <2>2, <2>5, <3>1, <3>2 DEF WriteReq, q
  <2>7. WrittenSoFar(q, g)
    BY <1>3, <2>2, <2>3, <2>5, <2>6, SizeAssumption
       DEF WrittenSoFar, s, WriteReq
  <2> QED
    BY <1>1, <2>4, <2>5, <2>6, <2>7, WriterMoves
<1> QED
  BY <1>2, <1>3

LEMMA Steps == ObjectsInv /\ [Next]_vars => ObjectsInv'
<1> SUFFICES ASSUME ObjectsInv, [Next]_vars PROVE ObjectsInv'
  OBVIOUS
<1>1. ASSUME NEW w \in Writers,
             Create(w) \/ WriteChunk(w) \/ Verify(w) \/ Rename(w)
      PROVE  ObjectsInv'
  BY <1>1, CreateStep, WriteChunkStep, VerifyStep, RenameStep
<1>2. ASSUME NEW w \in Writers, WriteCut(w) PROVE ObjectsInv'
  BY <1>2, AbandonStep DEF WriteCut
<1>3. ASSUME NEW r \in Readers,
             StartRead(r) \/ Header(r) \/ ReadChunk(r) \/ EndRead(r)
      PROVE  ObjectsInv'
  BY <1>3, StartReadStep, HeaderStep, ReadChunkStep, EndReadStep
<1>4. ASSUME NEW k \in Keys, Remove(k) \/ Flush(k) PROVE ObjectsInv'
  BY <1>4, RemoveStep, FlushStep
<1>5. CASE PowerLoss
  BY <1>5, PowerLossStep
<1>6. CASE UNCHANGED vars
  <2> USE <1>6 DEF vars
  <2>1. TypeOK'
    BY DEF ObjectsInv, TypeOK, InUse
  <2>2. Tables'
    BY DEF ObjectsInv, Tables
  <2>3. Published' /\ Read'
    BY DEF ObjectsInv, Published, Read, ReadSoFar, Open, Ready, WholeObject
  <2>4. Exclusive' /\ Written'
    BY DEF ObjectsInv, Exclusive, Written, WrittenSoFar, Owner, Open
  <2> QED
    BY <2>1, <2>2, <2>3, <2>4 DEF ObjectsInv
<1> QED
  BY <1>1, <1>2, <1>3, <1>4, <1>5, <1>6 DEF Next

\* Writers own their files until the rename, what the directory names is whole
\* and on the disk, and readers are within what they have opened.
THEOREM ObjectsInvariant == Spec => []ObjectsInv
  BY InitInv, Steps, PTL DEF Spec

\* Every reachable state is well typed (store_from_file, stream_content).
THEOREM ObjectsTypeCorrect == Spec => []TypeOK
<1>1. ObjectsInv => TypeOK
  BY DEF ObjectsInv
<1> QED
  BY <1>1, ObjectsInvariant, PTL

\* No path ever names a part of an object, after a power loss neither
\* (store_from_file, sync_all and rename).
THEOREM WholeObjectsOnly == Spec => []PublishedIsWhole
<1>1. ObjectsInv => PublishedIsWhole
  BY DEF ObjectsInv, Published, Ready, PublishedIsWhole
<1> QED
  BY <1>1, ObjectsInvariant, PTL

-----------------------------------------------------------------------------
(* The directory implements ObjectStore                                    *)

LEMMA InitImplements == Init => Promised!Init
  BY DEF Init, Promised!Init, Stored, Unsettled, Reading

\* A step that leaves the names alone leaves what is stored and unsettled.
LEMMA NamesKept ==
  ASSUME UNCHANGED <<path, durable>>
  PROVE  UNCHANGED <<Stored, Unsettled>>
  BY DEF Stored, Unsettled

LEMMA ReadsKept ==
  ASSUME UNCHANGED <<size, reader>>
  PROVE  UNCHANGED Reading
  BY DEF Reading, Progress

LEMMA RenameImplements ==
  ASSUME ObjectsInv, NEW w \in Writers, Rename(w)
  PROVE  \E k \in Keys : Promised!Put(k)
<1> DEFINE k == writer[w].key
           n == writer[w].file
<1>1. k \in Keys /\ n \in Files /\ n # NoFile
  BY WriterFacts, SlotAssumption DEF Rename, WriterAt, WriteReq
<1>2. /\ path' = [path EXCEPT ![k] = n]
      /\ durable' = [durable EXCEPT ![k] = @ \cup {n}]
      /\ UNCHANGED <<size, reader>>
  BY DEF Rename
<1> HIDE DEF k, n
<1>3. Stored' = Stored \cup {k}
  BY <1>1, <1>2 DEF Stored, ObjectsInv, TypeOK
<1>4. Unsettled' = IF NoFile \in durable[k] THEN Unsettled \cup {k}
                                          ELSE Unsettled
  BY <1>1, <1>2 DEF Unsettled, ObjectsInv, Tables
<1>5. UNCHANGED Reading
  BY <1>2, ReadsKept
<1> QED
  BY <1>1, <1>3, <1>4, <1>5 DEF Promised!Put

LEMMA RemoveImplements ==
  ASSUME ObjectsInv, NEW k \in Keys, Remove(k)
  PROVE  Promised!Remove(k)
<1>1. /\ path' = [path EXCEPT ![k] = NoFile]
      /\ durable' = [durable EXCEPT ![k] = @ \cup {NoFile}]
      /\ UNCHANGED <<size, reader>>
      /\ path[k] # NoFile /\ path[k] \in durable[k]
  BY DEF Remove, ObjectsInv, TypeOK
<1>2. Stored' = Stored \ {k}
  BY <1>1 DEF Stored, ObjectsInv, TypeOK
<1>3. Unsettled' = Unsettled \cup {k}
  BY <1>1 DEF Unsettled, ObjectsInv, Tables
<1>4. UNCHANGED Reading
  BY <1>1, ReadsKept
<1> QED
  BY <1>2, <1>3, <1>4 DEF Promised!Remove

LEMMA FlushImplements ==
  ASSUME ObjectsInv, NEW k \in Keys, Flush(k)
  PROVE  Promised!Settle(k)
<1>1. /\ durable' = [durable EXCEPT ![k] = {path[k]}]
      /\ UNCHANGED <<size, path, reader>>
  BY DEF Flush
<1>2. Stored' = Stored
  BY <1>1 DEF Stored
<1>3. Unsettled' = Unsettled \ {k}
  BY <1>1 DEF Unsettled, ObjectsInv, Tables
<1>4. UNCHANGED Reading
  BY <1>1, ReadsKept
<1> QED
  BY <1>2, <1>3, <1>4 DEF Promised!Settle

LEMMA StartReadImplements ==
  ASSUME ObjectsInv, NEW r \in Readers, StartRead(r)
  PROVE  \E k \in Keys : Promised!Open(r, k)
<1>1. PICK k \in Keys :
        /\ path[k] # NoFile
        /\ reader' = [reader EXCEPT ![r] =
              [pc |-> "header", key |-> k, file |-> path[k], index |-> 0,
               total |-> 0]]
  BY DEF StartRead
<1> DEFINE q == [pc |-> "header", key |-> k, file |-> path[k], index |-> 0,
                 total |-> 0]
<1>2. q \in ReadReq
  BY <1>1, SizeAssumption DEF ReadReq, Sizes, ObjectsInv, TypeOK
<1>3. /\ reader' = [reader EXCEPT ![r] = q] /\ reader[r] = Idle
      /\ UNCHANGED <<size, path, durable>>
      /\ q # Idle /\ q.key = k /\ q.pc = "header"
  BY <1>1, <1>2, SlotAssumption DEF StartRead
<1> HIDE DEF q
<1>4. Reading' = [Reading EXCEPT ![r] = <<k, "open">>]
  BY <1>3 DEF Reading, Progress, ObjectsInv, TypeOK
<1>5. Reading[r] = Idle /\ k \in Stored
  BY <1>1, <1>3 DEF Reading, Stored
<1> QED
  BY <1>3, <1>4, <1>5, NamesKept DEF Promised!Open

LEMMA HeaderImplements ==
  ASSUME ObjectsInv, NEW r \in Readers, Header(r)
  PROVE  UNCHANGED <<Stored, Unsettled, Reading>>
<1>1. /\ reader[r] # Idle /\ reader[r].pc = "header"
      /\ UNCHANGED <<size, path, durable>>
  BY DEF Header, ReaderAt
<1>2. reader' = [reader EXCEPT ![r].pc = "chunks"]
  BY HeaderPasses
<1>3. /\ reader'[r] # Idle
      /\ reader'[r].key = reader[r].key /\ reader'[r].pc = "chunks"
  <2>1. [reader[r] EXCEPT !.pc = "chunks"] \in ReadReq
    BY <1>1, ReaderFacts DEF ReadReq
  <2> QED
    BY <1>1, <1>2, <2>1, ReaderFacts, SlotAssumption
       DEF ReadReq, ObjectsInv, TypeOK
<1>4. \A o \in Readers \ {r} : reader'[o] = reader[o]
  BY <1>2 DEF ObjectsInv, TypeOK
<1>5. UNCHANGED Reading
  BY <1>1, <1>3, <1>4 DEF Reading, Progress
<1> QED
  BY <1>1, <1>5, NamesKept

LEMMA ReadChunkImplements ==
  ASSUME ObjectsInv, NEW r \in Readers, ReadChunk(r)
  PROVE  \/ \E k \in Keys : Promised!ReadToTheEnd(r, k)
         \/ UNCHANGED <<Stored, Unsettled, Reading>>
<1>1. /\ reader[r] # Idle /\ reader[r].pc = "chunks"
      /\ UNCHANGED <<size, path, durable, file>>
  BY DEF ReadChunk, ReaderAt
<1> DEFINE k == reader[r].key
<1>2. PICK q \in ReadReq :
        /\ reader' = [reader EXCEPT ![r] = q]
        /\ q.key = k /\ q.file = reader[r].file
        /\ ReadSoFar(q)
  BY ReadChunkReads
<1>3. k \in Keys /\ q # Idle /\ reader \in [Readers -> ReadReq \cup {Idle}]
  BY <1>1, ReaderFacts, SlotAssumption DEF ObjectsInv, TypeOK
<1>4. /\ q.pc \in {"header", "chunks", "done"}
      /\ q.pc = "done" => q.total = size[k]
  BY <1>2 DEF ReadSoFar, Ready, WholeObject
<1>5. Reading[r] = <<k, "open">>
  BY <1>1 DEF Reading, Progress
<1>6. Reading' = [Reading EXCEPT ![r] = <<k, Progress(q)>>]
  BY <1>1, <1>2, <1>3 DEF Reading, Progress
<1>7. Progress(q) \in {"open", "whole"}
  BY <1>2, <1>4 DEF Progress
<1>8. CASE Progress(q) = "whole"
  BY <1>1, <1>3, <1>5, <1>6, <1>8, NamesKept DEF Promised!ReadToTheEnd
<1>9. CASE Progress(q) = "open"
  <2>1. UNCHANGED Reading
    BY <1>5, <1>6, <1>9 DEF Reading
  <2> QED
    BY <1>1, <2>1, NamesKept
<1> QED
  BY <1>7, <1>8, <1>9

LEMMA EndReadImplements ==
  ASSUME ObjectsInv, NEW r \in Readers, EndRead(r)
  PROVE  Promised!Close(r)
<1>1. reader' = [reader EXCEPT ![r] = Idle] /\ UNCHANGED <<size, path, durable>>
  BY DEF EndRead
<1>2. Reading' = [Reading EXCEPT ![r] = Idle]
  BY <1>1 DEF Reading, Progress, ObjectsInv, TypeOK
<1> QED
  BY <1>1, <1>2, NamesKept DEF Promised!Close

LEMMA PowerLossImplements ==
  ASSUME ObjectsInv, PowerLoss
  PROVE  Promised!PowerLoss
<1>1. /\ \A k \in Keys : path[k] \in durable[k] /\ path'[k] \in durable[k]
      /\ durable' = [k \in Keys |-> {path'[k]}]
      /\ reader' = [r \in Readers |-> Idle]
  BY DEF PowerLoss, ObjectsInv, TypeOK
<1> DEFINE K == {k \in Keys : path[k] = NoFile <=> path'[k] # NoFile}
<1>2. K \in SUBSET Unsettled
  BY <1>1 DEF Unsettled
<1>3. Stored' = (Stored \ K) \cup (K \ Stored)
  BY DEF Stored
<1>4. Unsettled' = {}
  BY <1>1 DEF Unsettled
<1>5. Reading' = [r \in Readers |-> Idle]
  BY <1>1 DEF Reading
<1> QED
  BY <1>2, <1>3, <1>4, <1>5 DEF Promised!PowerLoss

LEMMA StepsImplement ==
  ObjectsInv /\ [Next]_vars => [Promised!Next]_(Promised!vars)
<1> SUFFICES ASSUME ObjectsInv, [Next]_vars
             PROVE  Promised!Next \/ UNCHANGED <<Stored, Unsettled, Reading>>
  BY DEF Promised!vars
<1>1. UNCHANGED <<size, path, durable, reader>>
        => UNCHANGED <<Stored, Unsettled, Reading>>
  BY NamesKept, ReadsKept
<1>2. ASSUME NEW w \in Writers,
             Create(w) \/ WriteChunk(w) \/ Verify(w) \/ WriteCut(w)
      PROVE  UNCHANGED <<Stored, Unsettled, Reading>>
  BY <1>1, <1>2 DEF Create, WriteChunk, Verify, WriteCut
<1>3. ASSUME NEW w \in Writers, Rename(w) PROVE Promised!Next
  BY <1>3, RenameImplements DEF Promised!Next
<1>4. ASSUME NEW r \in Readers, StartRead(r) \/ EndRead(r) PROVE Promised!Next
  BY <1>4, StartReadImplements, EndReadImplements DEF Promised!Next
<1>5. ASSUME NEW r \in Readers, Header(r) \/ ReadChunk(r)
      PROVE  Promised!Next \/ UNCHANGED <<Stored, Unsettled, Reading>>
  BY <1>5, HeaderImplements, ReadChunkImplements DEF Promised!Next
<1>6. ASSUME NEW k \in Keys, Remove(k) \/ Flush(k) PROVE Promised!Next
  BY <1>6, RemoveImplements, FlushImplements DEF Promised!Next
<1>7. CASE PowerLoss
  BY <1>7, PowerLossImplements DEF Promised!Next
<1>8. CASE UNCHANGED vars
  BY <1>8, NamesKept, ReadsKept DEF vars
<1> QED
  BY <1>2, <1>3, <1>4, <1>5, <1>6, <1>7, <1>8 DEF Next

\* The directory of objects keeps what ObjectStore promises: objects appear
\* and go at once, and a read that has begun ends with the whole content
\* (store_from_file, remove, stream_content).
THEOREM ObjectsImplementObjectStore == Spec => ObjectStoreSpec
  BY InitImplements, StepsImplement, ObjectsInvariant, PTL
     DEF Spec, ObjectStoreSpec, Promised!Spec
=============================================================================
