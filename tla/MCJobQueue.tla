------------------------------ MODULE MCJobQueue ------------------------------
(* Values of the constants of JobQueue for TLC: the proportions are those of   *)
(* the code, in smaller numbers.  A timeout job is keyed by its hour and runs  *)
(* an hour after the insert; a poll job is keyed by the minute and runs a      *)
(* quarter of an hour after the insert.                                        *)
EXTENDS JobQueue, TLC

CONSTANTS Hour, Quarter

MCPeriod == [t \in Types |-> IF t = "timeout" THEN Hour ELSE 1]
MCDelay  == [t \in Types |-> IF t = "timeout" THEN Hour ELSE Quarter]

Alike == Permutations(Workers)
=============================================================================
