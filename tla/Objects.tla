------------------------------ MODULE Objects ------------------------------
(***************************************************************************)
(* The directory of content objects, LocalStorage: how an object is        *)
(* written chunk by chunk into a temporary file and renamed into place,    *)
(* how it is read chunk by chunk from an open file, and what a power loss  *)
(* leaves of it.                                                           *)
(*                                                                         *)
(* An object is a header with the length of its content, and chunks.  A    *)
(* chunk is encrypted with data that bind it to its path, to the header,   *)
(* to its index and to its length; it decrypts where all of them are the   *)
(* same, so that these data are what is kept of a chunk.                   *)
(*                                                                         *)
(* A temporary file has a name of its own that nobody opens: one whose     *)
(* writer has been dropped, or whose power is lost, is as good as gone.    *)
(***************************************************************************)
EXTENDS Naturals, Sequences, FiniteSets

CONSTANTS
    Keys,       \* paths, each of them user and hash of another content
    Files,      \* BOUND: inodes
    NoFile,     \* a path without a file; an inode without a use
    Writers, Readers,   \* slots for concurrent store_from_file and reads
    Idle,       \* a slot without a request
    CHUNK_SIZE, \* bytes of content in a chunk
    TagSize,    \* bytes that encryption adds to a chunk
    MaxIndex,   \* u32::MAX
    MaxSize     \* BOUND: length of a content

VARIABLES
    size,       \* key -> length of the content it is the hash of
    path,       \* key -> inode
    durable,    \* key -> the inodes, one of which it has after a power loss
    file,       \* inode -> header, chunks and whether they are on the disk
    writer,     \* slot -> store_from_file in progress
    reader      \* slot -> stream_content or read_all in progress

vars == <<size, path, durable, file, writer, reader>>

Sizes == 0 .. MaxSize

Chunk == [key : Keys, size : Sizes, index : Nat, len : 0 .. CHUNK_SIZE]

File == [size : Sizes, chunks : Seq(Chunk), synced : BOOLEAN]

WriteReq == [pc : {"write", "verify", "rename"}, key : Keys,
             source : Keys,     \* whose content the source file has
             file : Files, index : Nat, total : Sizes]

ReadReq == [pc : {"header", "chunks", "done", "failed"}, key : Keys,
            file : Files, index : Nat, total : Sizes]

ASSUME SizeAssumption ==
    /\ CHUNK_SIZE \in Nat \ {0} /\ TagSize \in Nat \ {0}
    /\ MaxIndex \in Nat /\ MaxSize \in Nat

ASSUME SlotAssumption ==
    Idle \notin WriteReq /\ Idle \notin ReadReq /\ NoFile \notin File \cup Files

Least(a, b) == IF a < b THEN a ELSE b

WriterAt(w, pc) == writer[w] # Idle /\ writer[w].pc = pc
ReaderAt(r, pc) == reader[r] # Idle /\ reader[r].pc = pc

\* inodes with a name, a possible name or a descriptor
InUse ==
    {path[k] : k \in Keys} \cup (UNION {durable[k] : k \in Keys})
        \cup {writer[w].file : w \in {v \in Writers : writer[v] # Idle}}
        \cup {reader[r].file : r \in {q \in Readers : reader[q] # Idle}}

\* f is the content of the files after this step; an inode out of use is free
Release(f) ==
    file' = [n \in Files |-> IF n \in InUse' THEN f[n] ELSE NoFile]

-----------------------------------------------------------------------------
(* store_from_file                                                         *)

\* the temporary file and its header
Create(w) ==
    /\ writer[w] = Idle
    /\ \E k, s \in Keys, n \in {m \in Files : file[m] = NoFile} :
          /\ writer' = [writer EXCEPT ![w] =
                [pc |-> "write", key |-> k, source |-> s, file |-> n,
                 index |-> 0, total |-> 0]]
          /\ file' = [file EXCEPT ![n] =
                [size |-> size[s], chunks |-> <<>>, synced |-> FALSE]]
    /\ UNCHANGED <<size, path, durable, reader>>

\* mutation of Abandon: the cleanup leaves the temporary file
AbandonOpen(w) == writer' = [writer EXCEPT ![w] = Idle] /\ UNCHANGED file

\* an error and its cleanup, or the request is dropped
Abandon(w) == writer' = [writer EXCEPT ![w] = Idle] /\ Release(file)

Sealed(key, s, i, n) == [key |-> key, size |-> s, index |-> i, len |-> n]

\* mutation of WroteLast: a content that ends with a full chunk gets an empty
\* one too
WroteLastShort(n, left) == n < CHUNK_SIZE

\* the loop ends after a chunk that is not full; or before one that would be
\* empty, if it is not the first
WroteLast(n, left) == n < CHUNK_SIZE \/ left = 0

\* One round of the loop, and the next one's break when there is nothing left
WriteChunk(w) ==
    /\ WriterAt(w, "write")
    /\ UNCHANGED <<size, path, durable, reader>>
    /\ LET q    == writer[w]
           left == size[q.source] - q.total
           n    == Least(CHUNK_SIZE, left)
           c    == Sealed(q.key, size[q.source], q.index, n)
       IN IF q.index = MaxIndex
          THEN Abandon(w)
          ELSE /\ file' = [file EXCEPT ![q.file].chunks = Append(@, c)]
               /\ writer' = [writer EXCEPT
                     ![w].index = @ + 1, ![w].total = @ + n,
                     ![w].pc = IF WroteLast(n, left - n) THEN "verify"
                                                         ELSE "write"]

\* the hash of what was read, and sync_all
Verify(w) ==
    /\ WriterAt(w, "verify")
    /\ UNCHANGED <<size, path, durable, reader>>
    /\ IF writer[w].source # writer[w].key THEN Abandon(w)
       ELSE /\ writer' = [writer EXCEPT ![w].pc = "rename"]
            /\ file' = [file EXCEPT ![writer[w].file].synced = TRUE]

\* over an object of the same key, if there is one
Rename(w) ==
    /\ WriterAt(w, "rename")
    /\ LET k == writer[w].key IN
       /\ path' = [path EXCEPT ![k] = writer[w].file]
       /\ durable' = [durable EXCEPT ![k] = @ \cup {writer[w].file}]
    /\ writer' = [writer EXCEPT ![w] = Idle]
    /\ UNCHANGED <<size, reader>>
    /\ Release(file)

WriteCut(w) ==
    /\ writer[w] # Idle
    /\ UNCHANGED <<size, path, durable, reader>>
    /\ Abandon(w)

\* remove
Remove(k) ==
    /\ path[k] # NoFile
    /\ path' = [path EXCEPT ![k] = NoFile]
    /\ durable' = [durable EXCEPT ![k] = @ \cup {NoFile}]
    /\ UNCHANGED <<size, writer, reader>>
    /\ Release(file)

-----------------------------------------------------------------------------
(* stream_content; read_all is the same loop                               *)

StartRead(r) ==
    /\ reader[r] = Idle
    /\ \E k \in {j \in Keys : path[j] # NoFile} :
          reader' = [reader EXCEPT ![r] =
              [pc |-> "header", key |-> k, file |-> path[k], index |-> 0,
               total |-> 0]]
    /\ UNCHANGED <<size, path, durable, file, writer>>

ToPc(r, pc) == reader' = [reader EXCEPT ![r].pc = pc]

\* mutation of ChunkCount: a last chunk follows a full one
ChunkCountPlus(s) == s \div CHUNK_SIZE + 1

ChunkCount(s) ==
    IF s = 0 THEN 1 ELSE (s + CHUNK_SIZE - 1) \div CHUNK_SIZE

\* expected_encrypted_size, without the header
ExpectedLength(s) == s + ChunkCount(s) * TagSize

Length(f) ==
    LET upTo[i \in 0 .. Len(f.chunks)] ==
            IF i = 0 THEN 0 ELSE upTo[i - 1] + f.chunks[i].len + TagSize
    IN upTo[Len(f.chunks)]

Header(r) ==
    /\ ReaderAt(r, "header")
    /\ LET f == file[reader[r].file] IN
       ToPc(r, IF Length(f) = ExpectedLength(f.size) THEN "chunks"
                                                     ELSE "failed")
    /\ UNCHANGED <<size, path, durable, file, writer>>

\* the position at the end of the file, or an error
AtEnd(r, i) ==
    IF Len(file[reader[r].file].chunks) > i THEN "failed" ELSE "done"

\* one call of the stream's closure
ReadChunk(r) ==
    /\ ReaderAt(r, "chunks")
    /\ LET q    == reader[r]
           f    == file[q.file]
           left == f.size - q.total
           n    == Least(CHUNK_SIZE, left)
           i    == q.index
       IN IF left = 0 /\ i > 0 THEN ToPc(r, AtEnd(r, i))
          ELSE IF \/ i = Len(f.chunks)
                  \/ f.chunks[i + 1] # Sealed(q.key, f.size, i, n)
                  \/ i = MaxIndex
          THEN ToPc(r, "failed")
          ELSE reader' = [reader EXCEPT
                   ![r].index = i + 1, ![r].total = @ + n,
                   ![r].pc = IF n < CHUNK_SIZE THEN AtEnd(r, i + 1)
                                               ELSE "chunks"]
    /\ UNCHANGED <<size, path, durable, file, writer>>

\* the answer is complete; or the client hangs up
EndRead(r) ==
    /\ reader[r] # Idle
    /\ reader' = [reader EXCEPT ![r] = Idle]
    /\ UNCHANGED <<size, path, durable, writer>>
    /\ Release(file)

-----------------------------------------------------------------------------
(* The file system                                                         *)

\* the directory is written back
Flush(k) ==
    /\ durable' = [durable EXCEPT ![k] = {path[k]}]
    /\ UNCHANGED <<size, path, writer, reader>>
    /\ Release(file)

\* of a file that was not synced, some first part is left
Torn(n, m) ==
    IF file[n] = NoFile \/ file[n].synced THEN file[n]
    ELSE [file[n] EXCEPT !.chunks = SubSeq(@, 1, Least(m, Len(@)))]

PowerLoss ==
    /\ path' \in {p \in [Keys -> Files \cup {NoFile}] :
                     \A k \in Keys : p[k] \in durable[k]}
    /\ durable' = [k \in Keys |-> {path'[k]}]
    /\ writer' = [w \in Writers |-> Idle]
    /\ reader' = [r \in Readers |-> Idle]
    /\ UNCHANGED size
    /\ \E m \in 0 .. MaxIndex + 1 : Release([n \in Files |-> Torn(n, m)])

-----------------------------------------------------------------------------
Init ==
    /\ size \in {s \in [Keys -> Sizes] :    \* there is one empty content
                   \A j, k \in Keys : s[j] = 0 /\ s[k] = 0 => j = k}
    /\ path = [k \in Keys |-> NoFile]
    /\ durable = [k \in Keys |-> {NoFile}]
    /\ file = [n \in Files |-> NoFile]
    /\ writer = [w \in Writers |-> Idle]
    /\ reader = [r \in Readers |-> Idle]

Next ==
    \/ \E w \in Writers : \/ Create(w) \/ WriteChunk(w) \/ Verify(w)
                          \/ Rename(w) \/ WriteCut(w)
    \/ \E r \in Readers : \/ StartRead(r) \/ Header(r) \/ ReadChunk(r)
                          \/ EndRead(r)
    \/ \E k \in Keys : Remove(k) \/ Flush(k)
    \/ PowerLoss

Spec == Init /\ [][Next]_vars

-----------------------------------------------------------------------------
(* Properties                                                              *)

\* Every variable has its type, and what a request has under way is a file.
TypeOK ==
    /\ size \in [Keys -> Sizes]
    /\ path \in [Keys -> Files \cup {NoFile}]
    /\ \A k \in Keys : path[k] \in durable[k]
    /\ \A n \in Files : file[n] # NoFile <=> n \in InUse
    /\ \A n \in Files : file[n] # NoFile => file[n] \in File
    /\ writer \in [Writers -> WriteReq \cup {Idle}]
    /\ reader \in [Readers -> ReadReq \cup {Idle}]

\* The object of a content of length s, put down as what it is: as many
\* chunks as it takes, at least one, all full but the last.
WholeObject(k, f) ==
    LET s == size[k]
        count == Len(f.chunks)
    IN /\ f.size = s
       /\ count > 0 /\ count * CHUNK_SIZE >= s
       /\ count > 1 => (count - 1) * CHUNK_SIZE < s
       /\ \A j \in 1 .. count :
             f.chunks[j] = Sealed(k, s, j - 1,
                 IF j < count THEN CHUNK_SIZE ELSE s - (count - 1) * CHUNK_SIZE)

\* What a path names is the whole object of its content, whatever concurrent
\* writers of the same and of other contents, failed or dropped, and power
\* losses have done; the directory may name no other after a power loss
\* (store_from_file:102-194).
PublishedIsWhole ==
    \A k \in Keys : \A n \in durable[k] \ {NoFile} : WholeObject(k, file[n])

\* The state of ObjectStore.
Stored == {k \in Keys : path[k] # NoFile}

Unsettled == {k \in Keys : NoFile \in durable[k] /\ durable[k] # {NoFile}}

Progress(q) ==
    CASE q.pc \in {"header", "chunks"} -> "open"
      [] q.pc = "done" /\ q.total = size[q.key] -> "whole"
      [] OTHER -> "wrong"

Reading == [r \in Readers |->
    IF reader[r] = Idle THEN Idle ELSE <<reader[r].key, Progress(reader[r])>>]

Promised ==
    INSTANCE ObjectStore WITH
        stored <- Stored, unsettled <- Unsettled, reading <- Reading

\* The directory implements ObjectStore: an object appears and disappears at
\* once, and a read that has opened its file gets the whole content though
\* the object is replaced or removed meanwhile; it never ends with an error,
\* or early, at any length of content (stream_content:417-504).
ObjectStoreSpec == Promised!Spec
=============================================================================
