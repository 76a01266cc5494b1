----------------------------- MODULE MCObjects -----------------------------
(***************************************************************************)
(* Objects for TLC: two contents of every length up to one that needs a    *)
(* chunk more than indices allow.                                          *)
(***************************************************************************)
EXTENDS Objects, TLC

CONSTANTS k1, k2,               \* keys
          f1, f2, f3, f4,       \* inodes
          w1, w2, r1            \* slots

ObjectSymmetry == Permutations(Keys) \cup Permutations(Files)
                      \cup Permutations(Writers)
=============================================================================
