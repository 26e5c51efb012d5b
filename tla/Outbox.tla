------------------------------- MODULE Outbox -------------------------------
(***************************************************************************)
(* The notifications of the users and how they are pushed to their phones: *)
(* the rows of user_notifications are an outbox which a loop in the server *)
(* (pump_once of src/infrastructure/fcm.rs) empties into the messaging     *)
(* service, an external party.  Phones come and go by register_device and  *)
(* delete_device of src/modules/users/service.rs.                          *)
(*                                                                         *)
(* Nothing of the pump is in a transaction: it reads a batch, then for     *)
(* each row the phones, pushes to one after the other, and writes the row  *)
(* last.  A phone is its push token; texts and the access token of the     *)
(* messaging service, whose loss is a transient error, are left out.       *)
(***************************************************************************)
EXTENDS Integers, FiniteSetsExt

CONSTANTS
    Users, Nobody,
    Phones, NoPhone, \* push tokens
    Registered,      \* for each phone, who has registered it at first, or Nobody
    Notes,           \* rows of user_notifications, in the order they are handed out
    Subjects,        \* what a notification may be about
    BatchSize, MaxAttempts,
    MaxBegun,        \* bound on what is begun: requests, and runs of jobs
    MaxDeaths        \* bound on deaths of the pump, a request or a job

ASSUME OutboxAssumption ==
    /\ Notes \subseteq Nat /\ IsFiniteSet(Notes)
    /\ BatchSize \in Nat \ {0} /\ MaxAttempts \in Nat \ {0}
    /\ MaxBegun \in Nat /\ MaxDeaths \in Nat
    /\ Nobody \notin Users /\ NoPhone \notin Phones
    /\ Registered \in [Phones -> Users \cup {Nobody}]

VARIABLES
    note,            \* user_notifications
    phone,           \* user_devices
    registering,     \* the phone a user is about to register, after the check
    pump,            \* the loop: the batch left, the phones left of its first row
    pushes,          \* pushes that arrived, for each notification and phone
    lost,            \* history: those of them whose answer did not come back
    begun, deaths,
    cut              \* notifications the pump died over

outboxVars == <<note, phone, registering, pump, pushes, lost, begun, deaths, cut>>

Blank == [user |-> Nobody, about |-> "none", state |-> "none", attempts |-> 0]
NoRow == [user |-> Nobody, app |-> FALSE, active |-> FALSE]
Rest  == [at |-> "idle", batch |-> {}, left |-> {}, gone |-> {}, dead |-> {},
          delivered |-> FALSE, transient |-> FALSE]

OutboxTypeOK ==
    /\ note   \in [Notes -> [user : Users \cup {Nobody}, about : Subjects \cup {"none"},
                             state : {"none", "pending", "done"}, attempts : 0..MaxAttempts]]
    /\ phone  \in [Phones -> [user : Users \cup {Nobody}, app : BOOLEAN, active : BOOLEAN]]
    /\ registering \in [Users -> Phones \cup {NoPhone}]
    /\ pump   \in [at : {"idle", "devices", "send", "finish"}, batch : SUBSET Notes,
                   left : SUBSET Phones, gone : SUBSET Phones, dead : SUBSET Phones,
                   delivered : BOOLEAN, transient : BOOLEAN]
    /\ pushes \in [Notes \X Phones -> Nat] /\ lost \in [Notes \X Phones -> Nat]
    /\ begun \in 0..MaxBegun /\ deaths \in 0..MaxDeaths
    /\ cut    \subseteq Notes

OutboxInit ==
    /\ note   = [n \in Notes |-> Blank]
    /\ phone  = [d \in Phones |-> IF Registered[d] = Nobody THEN NoRow
                                  ELSE [user |-> Registered[d], app |-> TRUE, active |-> TRUE]]
    /\ registering = [u \in Users |-> NoPhone]
    /\ pump   = Rest
    /\ pushes = [r \in Notes \X Phones |-> 0]
    /\ lost   = [r \in Notes \X Phones |-> 0]
    /\ begun = 0 /\ deaths = 0
    /\ cut    = {}

MayBegin == begun < MaxBegun /\ begun' = begun + 1

-----------------------------------------------------------------------------
(* The inbox *)

Unused == {n \in Notes : note[n].state = "none"}

\* One INSERT of a row for each of the users, in any order among them.
Tell(users, about) ==
    /\ Cardinality(users) <= Cardinality(Unused)
    /\ LET rows == {n \in Unused : Quantify(Unused, LAMBDA k : k < n) < Cardinality(users)} IN
         \E to \in [rows -> users] :
            /\ \A u \in users : \E n \in rows : to[n] = u
            /\ note' = [n \in Notes |-> IF n \in rows
                  THEN [user |-> to[n], about |-> about, state |-> "pending", attempts |-> 0]
                  ELSE note[n]]

Told(u, about) == {n \in Notes : note[n].user = u /\ note[n].about = about}

-----------------------------------------------------------------------------
(* Phones *)

\* A token of another user is refused.
BeginRegister(u, d) ==
    /\ registering[u] = NoPhone
    /\ phone[d].user \in {u, Nobody}
    /\ MayBegin
    /\ registering' = [registering EXCEPT ![u] = d]
    /\ UNCHANGED <<note, phone, pump, pushes, lost, deaths, cut>>

\* Insert, or update of all but the owner.  The web has an app nobody pushes to.
Upsert(u) ==
    /\ registering[u] # NoPhone
    /\ \E app \in BOOLEAN :
          phone' = [phone EXCEPT ![registering[u]] =
                      [user |-> IF @.user = Nobody THEN u ELSE @.user, app |-> app, active |-> TRUE]]
    /\ registering' = [registering EXCEPT ![u] = NoPhone]
    /\ UNCHANGED <<note, pump, pushes, lost, begun, deaths, cut>>

\* The pump may hold the id of the row: it is not that of a later one.
delete_device(u, d) ==
    /\ phone[d].user = u
    /\ MayBegin
    /\ phone' = [phone EXCEPT ![d] = NoRow]
    /\ pump'  = IF d \in pump.left \cup pump.dead THEN [pump EXCEPT !.gone = @ \cup {d}] ELSE pump
    /\ UNCHANGED <<note, registering, pushes, lost, deaths, cut>>

-----------------------------------------------------------------------------
(* The pump *)

Pending  == {n \in Notes : note[n].state = "pending" /\ note[n].attempts < MaxAttempts}
InHand   == Min(pump.batch)
NextRow(rows) == IF rows = {} THEN Rest ELSE [Rest EXCEPT !.at = "devices", !.batch = rows]

PumpSelect ==
    /\ pump.at = "idle" /\ Pending # {}
    /\ pump' = NextRow({n \in Pending : Quantify(Pending, LAMBDA k : k < n) < BatchSize})
    /\ UNCHANGED <<note, phone, registering, pushes, lost, begun, deaths, cut>>

PumpDevices ==
    /\ pump.at = "devices"
    /\ LET mine == {d \in Phones : /\ phone[d].user = note[InHand].user
                                   /\ phone[d].active /\ phone[d].app}
       IN pump' = [pump EXCEPT !.at = IF mine = {} THEN "finish" ELSE "send", !.left = mine]
    /\ UNCHANGED <<note, phone, registering, pushes, lost, begun, deaths, cut>>

\* Of sending: it arrived, it arrived and the answer was lost (a timeout, or a
\* server error), the token is dead, or nothing for the moment.
Outcome == {"ok", "lost", "dead", "transient"}

\* A lost answer is a transient error to the pump.
PumpSend(d, outcome) ==
    /\ pump.at = "send" /\ d \in pump.left
    /\ pushes' = IF outcome \in {"ok", "lost"} THEN [pushes EXCEPT ![<<InHand, d>>] = @ + 1] ELSE pushes
    /\ lost'   = IF outcome = "lost" THEN [lost EXCEPT ![<<InHand, d>>] = @ + 1] ELSE lost
    /\ pump'   = [pump EXCEPT !.left      = @ \ {d},
                              !.dead      = IF outcome = "dead" THEN @ \cup {d} ELSE @,
                              !.delivered = @ \/ outcome = "ok",
                              !.transient = @ \/ outcome \in {"lost", "transient"}]
    /\ UNCHANGED <<note, phone, registering, begun, deaths, cut>>

\* Dead tokens are switched off by the id of their row.
PumpDeactivate ==
    /\ pump.at = "send" /\ pump.left = {}
    /\ phone' = [d \in Phones |-> IF d \in pump.dead \ pump.gone
                                  THEN [phone[d] EXCEPT !.active = FALSE] ELSE phone[d]]
    /\ pump'  = [pump EXCEPT !.at = "finish"]
    /\ UNCHANGED <<note, registering, pushes, lost, begun, deaths, cut>>

\* The row of the pump's hand is written, and the next one taken.
Written(state) ==
    /\ pump.at = "finish"
    /\ note' = [note EXCEPT ![InHand].state = state, ![InHand].attempts = @ + 1]
    /\ pump' = NextRow(pump.batch \ {InHand})
    /\ UNCHANGED <<phone, registering, pushes, lost, begun, deaths, cut>>

\* Fault: a row some phone did not get is tried again for all of them.
PumpFinishStrict == Written(IF pump.transient THEN "pending" ELSE "done")

\* Fault: an attempt that failed for now is not counted.
PumpFinishUncounted ==
    IF ~pump.delivered /\ pump.transient
    THEN pump.at = "finish" /\ pump' = Rest /\ UNCHANGED <<note, phone, registering, pushes, lost, begun, deaths, cut>>
    ELSE Written("done")

\* Nobody got it, and somebody may yet: again with the next batch.
PumpFinish == Written(IF ~pump.delivered /\ pump.transient THEN "pending" ELSE "done")

\* The server dies and starts again, or a statement of the pump fails.
PumpDies ==
    /\ deaths < MaxDeaths /\ pump.at # "idle"
    /\ deaths' = deaths + 1
    /\ cut'    = cut \cup {InHand}
    /\ pump'   = Rest
    /\ UNCHANGED <<note, phone, registering, pushes, lost, begun>>

PumpStep ==
    \/ PumpSelect \/ PumpDevices \/ PumpDeactivate \/ PumpFinish
    \/ \E d \in Phones, outcome \in Outcome : PumpSend(d, outcome)

OutboxNext ==
    \/ PumpStep \/ PumpDies
    \/ \E u \in Users : \/ Upsert(u)
                        \/ \E d \in Phones : BeginRegister(u, d) \/ delete_device(u, d)

-----------------------------------------------------------------------------
(* Properties *)

\* "anti push dobel" (fcm.rs:260): with one pump, a phone gets a notification
\* once, whatever the other phones of the user get, and however phones come
\* and go meanwhile.  It gets it again for each answer to it that was lost, in all
\* no more often than the row is tried; only one the pump died over may come more
\* often.
PushedOnce ==
    \A n \in Notes \ cut, d \in Phones :
        /\ pushes[<<n, d>>] <= 1 + lost[<<n, d>>]
        /\ pushes[<<n, d>>] <= MaxAttempts

\* No notification stays at the head of the outbox: it is pushed, or given up.
EveryNoteLeaves ==
    \A n \in Notes : note[n].state = "pending" ~>
        note[n].state = "done" \/ note[n].attempts = MaxAttempts

-----------------------------------------------------------------------------
(* The inductive invariant *)

Sending(n) == pump.at \in {"send", "finish"} /\ n = InHand

\* Tries of a row that may have reached phone d.
Tries(n, d) == note[n].attempts + (IF Sending(n) /\ d \notin pump.left THEN 1 ELSE 0)

\* Rows of the batch are pending, the one in hand as well; what was answered and is
\* not written yet is the row in hand, to phones the pump has done with.
PumpInv ==
    /\ pump.at = "idle" <=> pump.batch = {}
    /\ \A n \in pump.batch : note[n].state = "pending" /\ note[n].attempts < MaxAttempts
    /\ \A n \in Notes : note[n].state = "none" => note[n] = Blank
    /\ \A n \in Notes \ cut, d \in Phones :
          /\ pushes[<<n, d>>] <= Tries(n, d)
          /\ pushes[<<n, d>>] <= 1 + lost[<<n, d>>]
          /\ pushes[<<n, d>>] > lost[<<n, d>>] =>
                note[n].state = "done" \/ (Sending(n) /\ pump.delivered /\ d \notin pump.left)

-----------------------------------------------------------------------------
(* Statements of the source the code does not live up to *)

\* "anti push dobel" (fcm.rs:260): no phone gets a notification twice.  After a
\* lost answer it does, and after a death of the pump.
NeverPushedTwice == \A r \in Notes \X Phones : pushes[r] <= 1

\* "push_token sudah dipakai device lain" (users/service.rs:134): whoever has
\* registered a phone owns it.  Of two who overlap the first owns it, and the
\* second is told that all went well.
RegisteredIsMine ==
    [][\A u \in Users : registering[u] # NoPhone /\ registering'[u] = NoPhone =>
          phone'[registering[u]].user = u]_outboxVars

\* A notification goes to phones of its user only: one that was deleted and
\* registered by another between the reading of the phones and the push gets it.
PushedToItsUser ==
    [][\A n \in Notes, d \in Phones :
          pushes'[<<n, d>>] # pushes[<<n, d>>] => phone[d].user = note[n].user]_outboxVars
=============================================================================
