----------------------------- MODULE MCSharing -----------------------------
(***************************************************************************)
(* Sharing for TLC: a document of the legacy format and an id for another. *)
(***************************************************************************)
EXTENDS Sharing, TLC

CONSTANTS ann, bob,             \* users
          i1, i2,               \* ids
          pic, thm              \* hashes

\* a thumbnail of ann's from before the server; an id is left
OldThumb ==
    [i \in Ids |->
        IF i = i1 THEN [type |-> "thumbnail", user |-> ann, name |-> NoName,
                        parent |-> Root, spelling |-> Canonical,
                        hash |-> NoHash, thumb |-> NoId, trashed |-> FALSE]
        ELSE Unborn]

OldMd5 == [i \in Ids |-> IF i = i1 THEN pic ELSE NoHash]

\* the object may be whole, or not
OldObject == [i \in Ids |-> IF i = i1 THEN {pic, Garbled} ELSE {}]
=============================================================================
