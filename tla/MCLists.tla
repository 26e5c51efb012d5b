------------------------------ MODULE MCLists ------------------------------
(* Values of the constants of Lists for TLC. *)
EXTENDS Lists

MCIds == 1..5
============================================================================
