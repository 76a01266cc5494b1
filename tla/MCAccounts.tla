----------------------------- MODULE MCAccounts -----------------------------
(***************************************************************************)
(* Accounts for TLC: two clients, one with two passwords.                  *)
(***************************************************************************)
EXTENDS Accounts, TLC

CONSTANTS ann, bob,             \* clients
          a1, a2, b1,           \* passwords
          e1, e2,               \* addresses
          u1, u2, u3,           \* ids
          r1, r2, r3            \* slots

KnownTo == a1 :> ann @@ a2 :> ann @@ b1 :> bob

AccountSymmetry ==
    Permutations(Ids) \cup Permutations(Requests) \cup Permutations(Emails)
=============================================================================
