------------------------- MODULE MCVisitSettlement -------------------------
(* Values of the constants of VisitSettlement for TLC. *)
EXTENDS VisitSettlement, TLC

CONSTANTS santri, ustadz

MCUsers   == {santri, ustadz}
MCOwner   == [v \in Visits |-> santri]
MCUstadz  == [v \in Visits |-> ustadz]
MCDeposit == [u \in MCUsers |-> IF u = santri THEN 2 * Price ELSE 0]
MCPayees  == <<[to |-> "USTADZ", share |-> 4], [to |-> "PLATFORM", share |-> 1]>>

\* Request handlers differ in nothing but their name.
RequestsAlike == Permutations(Requests)
============================================================================
