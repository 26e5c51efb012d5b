--------------------------- MODULE MCVisitBooking ---------------------------
(* Values of the constants of VisitBooking for TLC. *)
EXTENDS VisitBooking, TLC

\* The day ends at LastTime, in units of half an hour if Hour = 2.
CONSTANT LastTime

MCTimes == 0..LastTime

Alike == Permutations(Visits) \cup Permutations(Rows) \cup Permutations(Requests)
           \cup Permutations(Keys)
=============================================================================
