----------------------------- MODULE MCVisitTalk -----------------------------
(* Values of the constants of VisitTalk for TLC. *)
EXTENDS VisitTalk

MCMessages == 1..2
=============================================================================
