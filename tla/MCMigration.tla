---------------------------- MODULE MCMigration ----------------------------
(***************************************************************************)
(* Migration for TLC: two users' legacy documents of one content, one of   *)
(* them with an iv that does not fit, and what the server adds.            *)
(***************************************************************************)
EXTENDS Migration, TLC

CONSTANTS ann, bob,             \* users
          i1, i2, i3, i4,       \* ids
          c1                    \* a content

Old(u, c, fits) == [user |-> u, md5 |-> c, fits |-> fits, hash |-> Null]

OldFiles ==
    [i \in Ids |-> CASE i = i1 -> Old(ann, c1, TRUE)
                     [] i = i2 -> Old(ann, c1, FALSE)
                     [] i = i3 -> Old(bob, c1, TRUE)
                     [] OTHER  -> NoDoc]

OldFile == [i \in Ids |-> IF i = i1 THEN Old(ann, c1, TRUE) ELSE NoDoc]
=============================================================================
