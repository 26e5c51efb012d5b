----------------------------- MODULE MCNotices -----------------------------
(* Values of the constants of Notices for TLC. *)
EXTENDS Notices, TLC

CONSTANTS u1, u2, d1, d2, visit1, visit12, group1, juz1

MCNotes    == 1..2
MCRegistered == (d1 :> u1) @@ (d2 :> Nobody)
MCAsked == (group1 :> u1)
MCSubjects == {visit1, visit12, group1, juz1, "broadcast"}
MCSantri   == (visit1 :> u1) @@ (visit12 :> u1)
MCLeader   == (visit1 :> u2) @@ (visit12 :> u1)
MCMentions == (visit1 :> {visit1, visit12}) @@ (visit12 :> {visit12})
MCReader   == (juz1 :> u1)
=============================================================================
