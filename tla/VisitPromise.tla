---------------------------- MODULE VisitPromise ----------------------------
(***************************************************************************)
(* What the booking service promises about the money of a home visit,      *)
(* without requests, payments or jobs.  A visit is served only after money *)
(* was taken for it; money goes back to the santri, or on to the ustadz,   *)
(* only out of money that was taken; the ustadz earns only from a visit    *)
(* that is over; a status never moves back.  VisitSettlement implements    *)
(* this specification.                                                     *)
(***************************************************************************)
CONSTANT Visits      \* rows of ustadz_visits

VARIABLES
    status,          \* status of each visit, "NONE" while it is not booked
    funded,          \* money was taken for the visit (gateway or deposit)
    returned,        \* money was credited back to the santri
    earned           \* income was credited for the visit

vars == <<status, funded, returned, earned>>

Unbooked  == {"NONE", "REQUESTED"}
Served    == {"WAITING_CONFIRM", "CONFIRMED", "IN_PROGRESS", "COMPLETED", "REVIEWED"}
Failed    == {"CANCELED", "DECLINED", "PAYMENT_EXPIRED"}
Statuses  == {"NONE", "REQUESTED"} \cup Served \cup Failed

\* A visit that is over: nothing more is delivered under it.
Over      == {"COMPLETED", "REVIEWED", "CANCELED"}

\* The moves of a visit after it was booked.  CANCELED is reachable from
\* every booked status, because the cancel statement of the service names
\* no row at all.
Moves ==
    {<<"REQUESTED", "WAITING_CONFIRM">>, <<"REQUESTED", "PAYMENT_EXPIRED">>,
     <<"WAITING_CONFIRM", "CONFIRMED">>, <<"WAITING_CONFIRM", "DECLINED">>,
     <<"CONFIRMED", "IN_PROGRESS">>, <<"CONFIRMED", "COMPLETED">>,
     <<"IN_PROGRESS", "COMPLETED">>, <<"COMPLETED", "REVIEWED">>}

Init ==
    /\ status   = [v \in Visits |-> "NONE"]
    /\ funded   = [v \in Visits |-> FALSE]
    /\ returned = [v \in Visits |-> FALSE]
    /\ earned   = [v \in Visits |-> FALSE]

Book(v) ==
    /\ status[v] = "NONE"
    /\ status' = [status EXCEPT ![v] = "REQUESTED"]
    /\ UNCHANGED <<funded, returned, earned>>

Fund(v) ==
    /\ status[v] # "NONE"
    /\ funded' = [funded EXCEPT ![v] = TRUE]
    /\ UNCHANGED <<status, returned, earned>>

Advance(v, new) ==
    /\ <<status[v], new>> \in Moves
    /\ new \in Served => funded[v]
    /\ status' = [status EXCEPT ![v] = new]
    /\ UNCHANGED <<funded, returned, earned>>

\* Any group of booked visits may be canceled together.
Cancel(group) ==
    /\ \A v \in group : status[v] # "NONE"
    /\ status' = [v \in Visits |-> IF v \in group THEN "CANCELED" ELSE status[v]]
    /\ UNCHANGED <<funded, returned, earned>>

Return(v) ==
    /\ funded[v]
    /\ status[v] \notin Unbooked
    /\ returned' = [returned EXCEPT ![v] = TRUE]
    /\ UNCHANGED <<status, funded, earned>>

Earn(v) ==
    /\ funded[v]
    /\ status[v] \in Over
    /\ earned' = [earned EXCEPT ![v] = TRUE]
    /\ UNCHANGED <<status, funded, returned>>

Next ==
    \/ \E v \in Visits :
          \/ Book(v) \/ Fund(v) \/ Return(v) \/ Earn(v)
          \/ \E new \in Statuses : Advance(v, new)
    \/ \E group \in SUBSET Visits : Cancel(group)

Spec == Init /\ [][Next]_vars
=============================================================================
