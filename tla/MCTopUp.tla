------------------------------- MODULE MCTopUp -------------------------------
(* Values of the constants of TopUp for TLC. *)
EXTENDS TopUp, TLC

CONSTANTS santri

MCUsers == {santri}
MCBy    == [t \in TopUps |-> santri]

Alike == Permutations(Requests) \cup Permutations(TopUps)
=============================================================================
