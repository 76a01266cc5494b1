------------------------------- MODULE MCTree -------------------------------
(***************************************************************************)
(* Tree for TLC: small forests of one user's documents, in all of which    *)
(* every request meets the cases its handler tells apart.                  *)
(***************************************************************************)
EXTENDS Tree, TLC

CONSTANTS ann,                      \* a user
          i1, i2, i3, i4,           \* ids
          n1, n2,                   \* folder names
          hsh                       \* a content hash

MCFolder(n, p, trashed) ==
    [type |-> "folder", user |-> ann, name |-> n, parent |-> p,
     spelling |-> Canonical, hash |-> NoHash, thumb |-> NoId, trashed |-> trashed]

MCFile(ty, p, th, trashed) ==
    [type |-> ty, user |-> ann, name |-> NoName, parent |-> p,
     spelling |-> Canonical, hash |-> hsh, thumb |-> th, trashed |-> trashed]

\* i3 in i2 in i1
ThreeFolders ==
    [i \in Ids |-> CASE i = i1 -> MCFolder(n1, Root, FALSE)
                     [] i = i2 -> MCFolder(n2, i1, FALSE)
                     [] i = i3 -> MCFolder(n1, i2, FALSE)
                     [] OTHER  -> Unborn]

\* a folder from which a picture has been removed; an id is left
InTheTrash ==
    [i \in Ids |-> CASE i = i1 -> MCFolder(n1, Root, FALSE)
                     [] i = i3 -> MCFile("thumbnail", i1, NoId, TRUE)
                     [] i = i4 -> MCFile("file", i1, i3, TRUE)
                     [] OTHER  -> Unborn]

\* BOUND: what follows a disturbance is not explored by a run that asks for it
Undisturbed == disturbed = {}
=============================================================================
