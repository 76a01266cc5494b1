----------------------------- MODULE MCContents -----------------------------
(***************************************************************************)
(* Contents for TLC: a trashed file before the first request, and a        *)
(* picture whose thumbnail may also be uploaded as a file of its own.      *)
(***************************************************************************)
EXTENDS Contents, TLC

CONSTANTS ann, bob,             \* users
          i1, i2, i3,           \* ids
          pic, thm              \* hashes: a picture and its thumbnail

File(u, h, trashed) ==
    [type |-> "file", user |-> u, name |-> NoName, parent |-> Root,
     spelling |-> Canonical,
     hash |-> h, thumb |-> NoId, trashed |-> trashed]

MCThumbOf == [h \in Pictures |-> thm]

\* one trashed file of the thumbnail's content
OneTrashed == [i \in Ids |-> IF i = i1 THEN File(ann, thm, TRUE) ELSE Unborn]

NothingYet == [i \in Ids |-> Unborn]

SlotSymmetry == Permutations(Uploads) \cup Permutations(Ids \ {i1})
=============================================================================
