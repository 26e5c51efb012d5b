----------------------------- MODULE VisitBooking -----------------------------
(***************************************************************************)
(* Booking of one ustadz's day: availability windows, the start times      *)
(* offered for them, create_visit and confirm_visit (src/modules/visits/   *)
(* service.rs).  Bookings of different ustadz meet only in the statement   *)
(* of cancel, which names no row.                                          *)
(*                                                                         *)
(* Time is counted in units, Hour of them to the hour, on one day; the     *)
(* payment of a visit (VisitSettlement) is seen from here as one row that  *)
(* is inserted after the booking, paid, or expired with the visit.         *)
(***************************************************************************)
EXTENDS Integers, FiniteSetsExt

CONSTANTS
    Visits,          \* rows of ustadz_visits
    Santri, Keys,    \* users who book, and their Idempotency-Keys
    Rows,            \* rows of ustadz_availability_slots
    Times,           \* minutes of the day, in units
    Hour,            \* units to the hour
    MaxHours,        \* visit_max_hours
    Notice,          \* visit_min_schedule_hours, in units
    MaxRows,         \* windows per day that add_slot admits
    ScheduleRules,   \* MQ_VISIT_SCHEDULE_RULES_ENABLED
    Requests,        \* request handlers that may be in flight
    MaxDrops         \* bound on requests that die between two statements

ASSUME VisitBookingAssumption ==
    /\ Times \subseteq Nat /\ 0 \in Times
    /\ Hour \in Nat \ {0} /\ MaxHours \in Nat \ {0}
    /\ Notice \in Nat /\ MaxRows \in Nat /\ MaxDrops \in Nat
    /\ ScheduleRules \in BOOLEAN

VARIABLES
    status,          \* ustadz_visits.status
    booking,         \* santri, key, start and hours of a booked visit
    pay,             \* payments.status of the visit
    window,          \* ustadz_availability_slots: <<start, end>> or NoWindow
    blackout,        \* the day is in ustadz_blackout_dates
    now,
    req,             \* requests in flight
    drops            \* requests that died half-way

vars == <<status, booking, pay, window, blackout, now, req, drops>>

Held       == {"REQUESTED", "WAITING_CONFIRM", "CONFIRMED"}
Failed     == {"CANCELED", "DECLINED", "PAYMENT_EXPIRED"}
VisitState == {"NONE", "IN_PROGRESS", "COMPLETED"} \cup Held \cup Failed
Booking    == [santri : Santri, key : Keys, start : Times, hours : 1..MaxHours]

NoWindow  == <<>>
NoBooking == [santri |-> "", key |-> "", start |-> 0, hours |-> 0]
Idle      == [at |-> "idle"]

Task == [at : {"bookVisit"}, of : Booking]
          \cup [at : {"insertPayment"}, visit : Visits]
          \cup [at : {"insertSlot"}, from : Times, to : Times]

TypeOK ==
    /\ status   \in [Visits -> VisitState]
    /\ booking  \in [Visits -> Booking \cup {NoBooking}]
    /\ pay      \in [Visits -> {"NONE", "PENDING", "PAID", "EXPIRED"}]
    /\ window   \in [Rows -> {w \in Times \X Times : w[2] - w[1] >= Hour} \cup {NoWindow}]
    /\ blackout \in BOOLEAN
    /\ now      \in Times
    /\ req      \in [Requests -> Task \cup {Idle}]
    /\ drops    \in 0..MaxDrops

Init ==
    /\ status   = [v \in Visits |-> "NONE"]
    /\ booking  = [v \in Visits |-> NoBooking]
    /\ pay      = [v \in Visits |-> "NONE"]
    /\ window   = [r \in Rows |-> NoWindow]
    /\ blackout = FALSE
    /\ now      = 0
    /\ req      = [p \in Requests |-> Idle]
    /\ drops    = 0

At(p, step)    == req[p].at = step
Begin(p, task) == req[p] = Idle /\ req' = [req EXCEPT ![p] = task]
End(p)         == req' = [req EXCEPT ![p] = Idle]

visits == <<status, booking, pay>>
day    == <<window, blackout>>

-----------------------------------------------------------------------------
(* slots_for_date *)

Start(v)  == booking[v].start
Finish(v) == booking[v].start + booking[v].hours * Hour

\* [s, e) meets the time of visit v.
Meets(v, s, e) == Start(v) < e /\ Finish(v) > s

Windows  == {window[r] : r \in Rows} \ {NoWindow}
Busy     == {v \in Visits : status[v] \in Held}
Earliest == IF ScheduleRules THEN now + Notice ELSE now - Hour

\* The count of hours stops one hour late, a fault.
HoursFromLate(m, end) ==
    LET Stops(n) == \/ n > MaxHours
                    \/ m + (n - 1) * Hour > end
                    \/ \E v \in Busy : Meets(v, m, m + n * Hour)
        count[n \in 1..(MaxHours + 1)] == IF Stops(n) THEN n - 1 ELSE count[n + 1] IN
    count[1]

\* Hours that can be booked from m on, counted up one by one until the limit,
\* the end of the window or a booking stops the count.
HoursFrom(m, end) ==
    LET Stops(n) == \/ n > MaxHours
                    \/ m + n * Hour > end
                    \/ \E v \in Busy : Meets(v, m, m + n * Hour)
        count[n \in 1..(MaxHours + 1)] == IF Stops(n) THEN n - 1 ELSE count[n + 1] IN
    count[1]

\* The start times offered for h hours: full hours from the start of each
\* window, not before Earliest.
Offered(h) ==
    {m \in Times :
        /\ ~blackout
        /\ m >= Earliest
        /\ \E w \in Windows :
              /\ m \in w[1]..(w[2] - 1) /\ (m - w[1]) % Hour = 0
              /\ HoursFrom(m, w[2]) >= h}

-----------------------------------------------------------------------------
(* Faults the code could have *)

\* The overlap is not looked at again under the lock.
BookVisitUnlocked(p) ==
    /\ At(p, "bookVisit")
    /\ \/ \E v \in Visits :
             /\ status[v] = "NONE"
             /\ status'  = [status EXCEPT ![v] = "REQUESTED"]
             /\ booking' = [booking EXCEPT ![v] = req[p].of]
             /\ req' = [req EXCEPT ![p] = [at |-> "insertPayment", visit |-> v]]
       \/ End(p) /\ UNCHANGED <<status, booking>>
    /\ UNCHANGED <<pay, day, now, drops>>

\* The row is inserted without the unique index on the client key.
BookVisitAgain(p) ==
    /\ At(p, "bookVisit")
    /\ LET b == req[p].of IN
         \/ /\ ~\E v \in Busy : Meets(v, b.start, b.start + b.hours * Hour)
            /\ \E v \in Visits :
                 /\ status[v] = "NONE"
                 /\ status'  = [status EXCEPT ![v] = "REQUESTED"]
                 /\ booking' = [booking EXCEPT ![v] = b]
                 /\ req' = [req EXCEPT ![p] = [at |-> "insertPayment", visit |-> v]]
         \/ End(p) /\ UNCHANGED <<status, booking>>
    /\ UNCHANGED <<pay, day, now, drops>>

-----------------------------------------------------------------------------
(* create_visit *)

KeyTaken(s, k) == \E v \in Visits : booking[v].santri = s /\ booking[v].key = k

\* A key seen before is answered with its visit; else the start time must be
\* on offer.
CreateVisit(p, b) ==
    /\ ~KeyTaken(b.santri, b.key)
    /\ b.start \in Offered(b.hours)
    /\ Begin(p, [at |-> "bookVisit", of |-> b])
    /\ UNCHANGED <<visits, day, now, drops>>

\* Under the lock of the ustadz's settings row: overlap, then insert; a
\* duplicate key ends in a replay.
BookVisit(p) ==
    /\ At(p, "bookVisit")
    /\ LET b    == req[p].of
           free == /\ ~\E v \in Busy : Meets(v, b.start, b.start + b.hours * Hour)
                   /\ ~KeyTaken(b.santri, b.key) IN
         \/ /\ free
            /\ \E v \in Visits :
                 /\ status[v] = "NONE"
                 /\ status'  = [status EXCEPT ![v] = "REQUESTED"]
                 /\ booking' = [booking EXCEPT ![v] = b]
                 /\ req' = [req EXCEPT ![p] = [at |-> "insertPayment", visit |-> v]]
         \/ ~free /\ End(p) /\ UNCHANGED <<status, booking>>
    /\ UNCHANGED <<pay, day, now, drops>>

InsertPayment(p) ==
    /\ At(p, "insertPayment")
    /\ pay' = [pay EXCEPT ![req[p].visit] = "PENDING"]
    /\ End(p)
    /\ UNCHANGED <<status, booking, day, now, drops>>

-----------------------------------------------------------------------------
(* The visit after the booking *)

Move(v, from, to) ==
    /\ status[v] \in from
    /\ status' = [status EXCEPT ![v] = to]

Paid(v) ==
    /\ pay[v] = "PENDING"
    /\ Move(v, {"REQUESTED"}, "WAITING_CONFIRM")
    /\ pay' = [pay EXCEPT ![v] = "PAID"]
    /\ UNCHANGED <<booking, day, now, req, drops>>

Expired(v) ==
    /\ pay[v] = "PENDING"
    /\ Move(v, {"REQUESTED"}, "PAYMENT_EXPIRED")
    /\ pay' = [pay EXCEPT ![v] = "EXPIRED"]
    /\ UNCHANGED <<booking, day, now, req, drops>>

\* Under the lock of the settings row; the visits already confirmed are
\* looked at, and only those.
ConfirmVisit(v) ==
    /\ ~\E w \in Visits \ {v} : status[w] = "CONFIRMED" /\ Meets(w, Start(v), Finish(v))
    /\ Move(v, {"WAITING_CONFIRM"}, "CONFIRMED")
    /\ UNCHANGED <<booking, pay, day, now, req, drops>>

\* decline_visit and job_confirm_timeout
DeclineVisit(v) ==
    /\ Move(v, {"WAITING_CONFIRM"}, "DECLINED")
    /\ UNCHANGED <<booking, pay, day, now, req, drops>>

\* From half an hour before the visit on.
StartVisit(v) ==
    /\ ScheduleRules => 2 * now >= 2 * Start(v) - Hour
    /\ Move(v, {"CONFIRMED"}, "IN_PROGRESS")
    /\ UNCHANGED <<booking, pay, day, now, req, drops>>

CompleteVisit(v) ==
    /\ ScheduleRules => now >= Finish(v)
    /\ Move(v, {"CONFIRMED", "IN_PROGRESS"}, "COMPLETED")
    /\ UNCHANGED <<booking, pay, day, now, req, drops>>

\* The santri cancels v, and with it every booked visit.
Cancel(v) ==
    /\ status[v] \in {"REQUESTED", "WAITING_CONFIRM"}
    /\ status' = [w \in Visits |-> IF status[w] = "NONE" THEN "NONE" ELSE "CANCELED"]
    /\ pay' = IF status[v] = "REQUESTED" /\ pay[v] = "PENDING"
              THEN [pay EXCEPT ![v] = "EXPIRED"] ELSE pay
    /\ UNCHANGED <<booking, day, now, req, drops>>

-----------------------------------------------------------------------------
(* The ustadz's day *)

\* add_slot: length, overlap and number are checked, then the row is inserted.
AddSlot(p, from, to) ==
    /\ to - from >= Hour
    /\ \A w \in Windows : w[2] <= from \/ w[1] >= to
    /\ Quantify(Rows, LAMBDA r : window[r] # NoWindow) < MaxRows
    /\ Begin(p, [at |-> "insertSlot", from |-> from, to |-> to])
    /\ UNCHANGED <<visits, day, now, drops>>

\* uas_uq refuses a second row with the same start.
InsertSlot(p) ==
    /\ At(p, "insertSlot")
    /\ IF \E w \in Windows : w[1] = req[p].from
       THEN UNCHANGED window
       ELSE \E r \in Rows :
               /\ window[r] = NoWindow
               /\ window' = [window EXCEPT ![r] = <<req[p].from, req[p].to>>]
    /\ End(p)
    /\ UNCHANGED <<visits, blackout, now, drops>>

DeleteSlot(r) ==
    /\ window[r] # NoWindow
    /\ window' = [window EXCEPT ![r] = NoWindow]
    /\ UNCHANGED <<visits, blackout, now, req, drops>>

\* add_blackout and delete_blackout
SetBlackout ==
    /\ blackout' = ~blackout
    /\ UNCHANGED <<visits, window, now, req, drops>>

Tick ==
    /\ now' \in {t \in Times : t > now /\ \A u \in Times : u > now => u >= t}
    /\ UNCHANGED <<visits, day, req, drops>>

Drop(p) ==
    /\ req[p] # Idle
    /\ drops < MaxDrops
    /\ drops' = drops + 1
    /\ End(p)
    /\ UNCHANGED <<visits, day, now>>

-----------------------------------------------------------------------------
Step(p) == BookVisit(p) \/ InsertPayment(p) \/ InsertSlot(p)

Next ==
    \/ \E p \in Requests :
          \/ \E b \in Booking : CreateVisit(p, b)
          \/ \E from, to \in Times : AddSlot(p, from, to)
          \/ Step(p) \/ Drop(p)
    \/ \E v \in Visits :
          \/ Paid(v) \/ Expired(v) \/ ConfirmVisit(v) \/ DeclineVisit(v)
          \/ StartVisit(v) \/ CompleteVisit(v) \/ Cancel(v)
    \/ \E r \in Rows : DeleteSlot(r)
    \/ SetBlackout
    \/ Tick

Spec == Init /\ [][Next]_vars

\* A request in flight goes on, and the gateway's expiry of an unpaid invoice
\* arrives, by webhook or by the poll job.
FairSpec ==
    /\ Spec
    /\ \A p \in Requests : WF_vars(Step(p))
    /\ \A v \in Visits : WF_vars(Expired(v))

-----------------------------------------------------------------------------
(* Properties *)

Overlapping(v, w) == v # w /\ Meets(v, Start(w), Finish(w))

\* Two santri never hold the same hour of the ustadz: the availability that
\* was read before the transaction may be stale, the check under the lock is
\* not (create_visit), and confirming does not bring two together.
HeldAreDisjoint == \A v, w \in Busy : ~Overlapping(v, w)

\* A booking sent again with its key, by a retry that overlaps the first try
\* or follows its death, is the same visit (uv_client_uq).
OneVisitPerKey ==
    \A v, w \in Visits :
        /\ status[v] # "NONE" /\ status[w] # "NONE"
        /\ booking[v].santri = booking[w].santri /\ booking[v].key = booking[w].key
        => v = w

\* The start times offered for h hours are exactly those from which h hours
\* fit into a window and meet no held visit: counting up by the hour misses
\* none and adds none (slots_for_date).
OffersAreFree ==
    \A h \in 1..MaxHours :
        Offered(h) =
            {m \in Times :
                /\ ~blackout /\ m >= Earliest
                /\ \E w \in Windows :
                     /\ \E n \in 0..m : m = w[1] + n * Hour
                     /\ m + h * Hour <= w[2]
                     /\ \A v \in Busy : Finish(v) <= m \/ m + h * Hour <= Start(v)}

-----------------------------------------------------------------------------
(* The inductive invariant *)

\* A visit that left NONE has its hours, for good.
Booked(v) == status[v] # "NONE" => booking[v] \in Booking

\* A window about to be inserted is as long as it was when it was checked.
SlotFits(p) == At(p, "insertSlot") => req[p].to - req[p].from >= Hour

IInv ==
    /\ TypeOK
    /\ \A v \in Visits : Booked(v)
    /\ \A p \in Requests : SlotFits(p)
    /\ HeldAreDisjoint
    /\ OneVisitPerKey

-----------------------------------------------------------------------------
(* Statements of the source the code does not live up to *)

\* service.rs:950: a visit is not confirmed, or booked, over another one.
OneVisitAtATime ==
    \A v, w \in Visits :
        status[v] \in Held \cup {"IN_PROGRESS"} /\ status[w] \in Held \cup {"IN_PROGRESS"}
            => ~Overlapping(v, w)

\* service.rs:285: the windows of a day do not overlap.
WindowsAreDisjoint ==
    \A r, s \in Rows :
        r # s /\ window[r] # NoWindow /\ window[s] # NoWindow
            => window[r][2] <= window[s][1] \/ window[s][2] <= window[r][1]

\* migrations/0022:153: an unpaid booking holds its time as long as its
\* invoice lives.
HoldEnds == \A v \in Visits : status[v] = "REQUESTED" ~> status[v] # "REQUESTED"

=============================================================================
