---------------------------- MODULE ObjectStore ----------------------------
(***************************************************************************)
(* What the directory of content objects promises to its callers: an       *)
(* object is there as a whole or not at all, and whoever has opened one    *)
(* reads it to the end whatever becomes of its name.  After a power loss   *)
(* the last change of a name may be undone, for a rename or an unlink is   *)
(* not followed by an fsync of the directory.                              *)
(***************************************************************************)
CONSTANTS
    Keys,       \* the paths of objects: user and content hash
    Readers,    \* slots for concurrent reads
    Idle        \* a slot without a read

VARIABLES
    stored,     \* keys whose object is there
    unsettled,  \* keys whose presence a power loss may revert
    reading     \* slot -> <<key, "open">>, <<key, "whole">> or Idle

vars == <<stored, unsettled, reading>>

Put(k) ==
    /\ stored' = stored \cup {k}
    /\ unsettled' \in {unsettled, unsettled \cup {k}}
    /\ UNCHANGED reading

Remove(k) ==
    /\ stored' = stored \ {k}
    /\ unsettled' \in {unsettled, unsettled \cup {k}}
    /\ UNCHANGED reading

Settle(k) ==
    /\ unsettled' = unsettled \ {k}
    /\ UNCHANGED <<stored, reading>>

Open(r, k) ==
    /\ reading[r] = Idle /\ k \in stored
    /\ reading' = [reading EXCEPT ![r] = <<k, "open">>]
    /\ UNCHANGED <<stored, unsettled>>

ReadToTheEnd(r, k) ==
    /\ reading[r] = <<k, "open">>
    /\ reading' = [reading EXCEPT ![r] = <<k, "whole">>]
    /\ UNCHANGED <<stored, unsettled>>

Close(r) ==
    /\ reading' = [reading EXCEPT ![r] = Idle]
    /\ UNCHANGED <<stored, unsettled>>

PowerLoss ==
    /\ \E K \in SUBSET unsettled :
          stored' = (stored \ K) \cup (K \ stored)
    /\ unsettled' = {}
    /\ reading' = [r \in Readers |-> Idle]

Init ==
    /\ stored = {} /\ unsettled = {}
    /\ reading = [r \in Readers |-> Idle]

Next ==
    \/ \E k \in Keys : Put(k) \/ Remove(k) \/ Settle(k)
    \/ \E r \in Readers :
          Close(r) \/ \E k \in Keys : Open(r, k) \/ ReadToTheEnd(r, k)
    \/ PowerLoss

Spec == Init /\ [][Next]_vars
=============================================================================
