---------------------------- MODULE MCWalletDesk ----------------------------
(* Values of the constants of WalletDesk for TLC: an ustadz, who pays a fee,  *)
(* and an infaq recipient, who does not.                                      *)
EXTENDS WalletDesk, TLC

CONSTANTS ustadz, penerima

MCUsers   == {ustadz, penerima}
MCDeposit == [u \in MCUsers |-> IF u = ustadz THEN 4 ELSE 2]
MCFee     == [u \in MCUsers |-> IF u = ustadz THEN 1 ELSE 0]
MCMinimum == [u \in MCUsers |-> 2]

\* One amount below the minimum, the minimum, and one more.
MCAmounts == 1..3
MCChanges == {-3, 0, 2}

\* Handlers, payout rows and adjustment rows differ in nothing but their name.
Alike == Permutations(Requests) \cup Permutations(Payouts) \cup Permutations(Adjustments)
=============================================================================
