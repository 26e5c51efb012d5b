---------------------------- MODULE VisitRequests ----------------------------
(***************************************************************************)
(* What VisitTalk and Notices have in common: visits, and the requests     *)
(* that are in flight while something is said about them.                  *)
(***************************************************************************)
EXTENDS Integers, FiniteSetsExt

CONSTANTS
    Visits,
    Requests,        \* request handlers that may be in flight
    Nothing          \* no visit, group or juz
=============================================================================
