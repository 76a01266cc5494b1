--------------------------- MODULE MCStorageServer ---------------------------
(***************************************************************************)
(* StorageServer for TLC: one slot of each kind.                           *)
(***************************************************************************)
EXTENDS StorageServer, TLC

CONSTANTS ann, i1, i2, n1, pic, thm

MCThumbOf == [h \in Pictures |-> thm]

MCFolder(p, trashed) ==
    [type |-> "folder", user |-> ann, name |-> n1, parent |-> p,
     spelling |-> Canonical,
     hash |-> NoHash, thumb |-> NoId, trashed |-> trashed]

MCFile(p, trashed) ==
    [type |-> "file", user |-> ann, name |-> NoName, parent |-> p,
     spelling |-> Canonical,
     hash |-> thm, thumb |-> NoId, trashed |-> trashed]

\* a trashed folder with a trashed file in it
TrashedFolder ==
    [i \in Ids |-> CASE i = i1 -> MCFolder(Root, TRUE)
                     [] i = i2 -> MCFile(i1, TRUE)
                     [] OTHER  -> Unborn]

\* nothing yet
Nothing == [i \in Ids |-> Unborn]
=============================================================================
