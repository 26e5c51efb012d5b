-------------------------- MODULE VisitBookingProofs --------------------------
(***************************************************************************)
(* VisitBooking for any number of visits, santri, keys, windows, requests  *)
(* and deaths, any day and any length of an hour.                          *)
(*                                                                         *)
(* What create_visit has read of the availability plays no part in the     *)
(* proof: no step but the transaction of the booking brings a visit among  *)
(* the held ones, and that transaction looks for an overlap and for the    *)
(* key itself.                                                             *)
(*                                                                         *)
(* What the offer shows is a recursive count of hours.  Where a count is   *)
(* first reached is found as a smallest number, and from there the         *)
(* equation of the count tells every later one.                            *)
(***************************************************************************)
EXTENDS VisitBooking, FiniteSetTheorems, TLAPS

\* A step that books nothing: nobody's hours change, nobody becomes held.
Settles ==
    /\ status' \in [Visits -> VisitState]
    /\ \A v \in Visits :
         /\ status'[v] = "NONE" <=> status[v] = "NONE"
         /\ status'[v] \in Held => status[v] \in Held
    /\ UNCHANGED booking

Books ==
    /\ \A v \in Visits : Booked(v)
    /\ HeldAreDisjoint
    /\ OneVisitPerKey

Payments == [Visits -> {"NONE", "PENDING", "PAID", "EXPIRED"}]

\* The requests after a step are of their types, and a window to be inserted
\* is long enough.
Requested ==
    /\ req \in [Requests -> Task \cup {Idle}]
    /\ \A p \in Requests : SlotFits(p)

OwnTypes ==
    /\ window   \in [Rows -> {w \in Times \X Times : w[2] - w[1] >= Hour} \cup {NoWindow}]
    /\ blackout \in BOOLEAN
    /\ now      \in Times
    /\ drops    \in 0..MaxDrops

-----------------------------------------------------------------------------
LEMMA InitInv ==
    ASSUME VisitBookingAssumption, Init
    PROVE  IInv
PROOF
  <1>1. TypeOK
    <2>1. status \in [Visits -> VisitState] /\ booking \in [Visits -> Booking \cup {NoBooking}]
      BY DEF Init, VisitState
    <2>2. /\ pay \in Payments
          /\ req \in [Requests -> Task \cup {Idle}]
          /\ now \in Times /\ drops \in 0..MaxDrops
      BY DEF VisitBookingAssumption, Init, Payments
    <2>3. /\ window \in [Rows -> {w \in Times \X Times : w[2] - w[1] >= Hour} \cup {NoWindow}]
          /\ blackout \in BOOLEAN
      BY DEF Init
    <2> QED BY <2>1, <2>2, <2>3 DEF TypeOK, Payments
  <1>2. HeldAreDisjoint
    BY DEF Init, HeldAreDisjoint, Busy, Held
  <1> QED BY <1>1, <1>2 DEF Init, IInv, Booked, SlotFits, At, Idle, OneVisitPerKey

\* Visits that only move on keep apart.
LEMMA SettleBooks ==
    ASSUME Books, Settles
    PROVE  Books'
PROOF
  <1>1. Busy' \subseteq Busy
    BY DEF Busy, Settles
  <1>2. HeldAreDisjoint'
    BY <1>1 DEF Books, Settles, HeldAreDisjoint, Overlapping, Meets, Start, Finish
  <1>3. (\A v \in Visits : Booked(v))'
    BY DEF Books, Settles, Booked
  <1>4. OneVisitPerKey'
    BY DEF Books, Settles, OneVisitPerKey
  <1> QED BY <1>2, <1>3, <1>4 DEF Books

\* The invariant is its parts.
LEMMA Parts == IInv <=> /\ status  \in [Visits -> VisitState]
                        /\ booking \in [Visits -> Booking \cup {NoBooking}]
                        /\ pay     \in Payments
                        /\ OwnTypes /\ Requested /\ Books
  BY DEF IInv, TypeOK, OwnTypes, Requested, Books, Payments

LEMMA SettleStep ==
    ASSUME IInv, Settles, pay' \in Payments, OwnTypes', Requested'
    PROVE  IInv'
PROOF
  <1>1. Books'
    BY SettleBooks, Parts
  <1>2. booking' \in [Visits -> Booking \cup {NoBooking}]
    BY Parts DEF Settles
  <1> QED BY <1>1, <1>2, Parts DEF Settles, IInv, TypeOK, OwnTypes, Requested, Books, Payments

\* A request that begins a task, or ends.
LEMMA Requesting ==
    ASSUME IInv, NEW p \in Requests, NEW task \in Task \cup {Idle},
           task.at = "insertSlot" => task.to - task.from >= Hour,
           req' = [req EXCEPT ![p] = task]
    PROVE  Requested'
PROOF
  <1>1. req' \in [Requests -> Task \cup {Idle}]
    BY Parts DEF Requested
  <1>2. \A q \in Requests : SlotFits(q)'
    BY Parts DEF Requested, SlotFits, At
  <1> QED BY <1>1, <1>2 DEF Requested

\* A request that ends.
LEMMA Ending ==
    ASSUME IInv, NEW p \in Requests, End(p)
    PROVE  Requested'
  BY Requesting DEF End, Idle

LEMMA StillRequested ==
    ASSUME IInv, UNCHANGED req
    PROVE  Requested'
  BY Parts DEF Requested, SlotFits, At

\* A visit that moves on.
LEMMA Moving ==
    ASSUME IInv, NEW v \in Visits, NEW from, NEW to \in VisitState \ {"NONE"}, Move(v, from, to),
           "NONE" \notin from, to \in Held => from \subseteq Held, UNCHANGED booking
    PROVE  Settles
  BY Parts DEF Move, Settles

LEMMA Staying ==
    ASSUME IInv, UNCHANGED <<status, booking>>
    PROVE  Settles
  BY Parts DEF Settles

-----------------------------------------------------------------------------
(* The booking *)

LEMMA CreateVisitStep ==
    ASSUME VisitBookingAssumption, IInv, NEW p \in Requests, NEW b \in Booking, CreateVisit(p, b)
    PROVE  IInv'
PROOF
  <1>1. Requested'
    BY Requesting DEF CreateVisit, Begin, Task
  <1>2. Settles
    BY Staying DEF CreateVisit, visits
  <1> QED
    BY <1>1, <1>2, Parts, SettleStep DEF CreateVisit, visits, day, OwnTypes

\* The new visit meets none that is held, and no visit has its key.
LEMMA NewBooking ==
    ASSUME VisitBookingAssumption, IInv, NEW b \in Booking, NEW v \in Visits, status[v] = "NONE",
           ~\E w \in Busy : Meets(w, b.start, b.start + b.hours * Hour),
           ~KeyTaken(b.santri, b.key),
           status' = [status EXCEPT ![v] = "REQUESTED"],
           booking' = [booking EXCEPT ![v] = b]
    PROVE  Books'
PROOF
  <1>1. /\ status  \in [Visits -> VisitState]
        /\ booking \in [Visits -> Booking \cup {NoBooking}]
        /\ Books
    BY Parts
  <1>2. /\ booking'[v] = b
        /\ \A w \in Visits \ {v} : booking'[w] = booking[w] /\ status'[w] = status[w]
    BY <1>1
  <1>3. Busy' \subseteq Busy \cup {v} /\ v \notin Busy
    BY <1>1, <1>2 DEF Busy, Held
  <1>4. \A w \in Visits : Booked(w)'
    BY <1>1, <1>2 DEF Books, Booked
  <1>5. OneVisitPerKey'
    BY <1>1, <1>2 DEF Books, OneVisitPerKey, KeyTaken
  <1>6. HeldAreDisjoint'
    <2> SUFFICES ASSUME NEW w \in Busy', NEW x \in Busy' PROVE ~Overlapping(w, x)'
      BY DEF HeldAreDisjoint
    <2>1. w \in Visits /\ x \in Visits
      BY DEF Busy
    <2>2. CASE w # v /\ x # v
      BY <2>1, <2>2, <1>1, <1>2, <1>3
         DEF Books, HeldAreDisjoint, Overlapping, Meets, Start, Finish
    <2>3. CASE w = v /\ x # v
      BY <2>1, <2>3, <1>2, <1>3 DEF Overlapping, Meets, Start, Finish
    <2>4. CASE w # v /\ x = v
      BY <2>1, <2>4, <1>2, <1>3 DEF Overlapping, Meets, Start, Finish
    <2>5. CASE w = v /\ x = v
      BY <2>5 DEF Overlapping
    <2> QED BY <2>2, <2>3, <2>4, <2>5
  <1> QED BY <1>4, <1>5, <1>6 DEF Books

LEMMA BookVisitStep ==
    ASSUME VisitBookingAssumption, IInv, NEW p \in Requests, BookVisit(p)
    PROVE  IInv'
PROOF
  <1>1. PICK b : b = req[p].of
    OBVIOUS
  <1>2. b \in Booking
    BY <1>1, Parts DEF Requested, BookVisit, At, Task, Idle
  <1>3. /\ UNCHANGED <<pay, window, blackout, now, drops>>
        /\ OwnTypes' /\ pay' \in Payments
    BY Parts DEF BookVisit, day, OwnTypes
  <1>4. CASE End(p) /\ UNCHANGED <<status, booking>>
    BY <1>3, <1>4, Ending, Staying, SettleStep
  <1>5. CASE \E v \in Visits :
                /\ ~\E w \in Busy : Meets(w, b.start, b.start + b.hours * Hour)
                /\ ~KeyTaken(b.santri, b.key)
                /\ status[v] = "NONE"
                /\ status'  = [status EXCEPT ![v] = "REQUESTED"]
                /\ booking' = [booking EXCEPT ![v] = b]
                /\ req' = [req EXCEPT ![p] = [at |-> "insertPayment", visit |-> v]]
    <2>1. PICK v \in Visits :
                /\ ~\E w \in Busy : Meets(w, b.start, b.start + b.hours * Hour)
                /\ ~KeyTaken(b.santri, b.key)
                /\ status[v] = "NONE"
                /\ status'  = [status EXCEPT ![v] = "REQUESTED"]
                /\ booking' = [booking EXCEPT ![v] = b]
                /\ req' = [req EXCEPT ![p] = [at |-> "insertPayment", visit |-> v]]
      BY <1>5
    <2>2. Books'
      BY <1>2, <2>1, NewBooking
    <2>3. Requested'
      BY <2>1, Requesting DEF Task
    <2>4. status' \in [Visits -> VisitState] /\ booking' \in [Visits -> Booking \cup {NoBooking}]
      BY <1>2, <2>1, Parts DEF VisitState, Held
    <2> QED BY <1>3, <2>2, <2>3, <2>4 DEF IInv, TypeOK, OwnTypes, Requested, Books, Payments
  <1> QED BY <1>1, <1>4, <1>5 DEF BookVisit

LEMMA InsertPaymentStep ==
    ASSUME VisitBookingAssumption, IInv, NEW p \in Requests, InsertPayment(p)
    PROVE  IInv'
PROOF
  <1>1. Requested' /\ Settles
    BY Ending, Staying DEF InsertPayment
  <1>2. pay' \in Payments
    BY Parts DEF InsertPayment, Payments
  <1> QED BY <1>1, <1>2, Parts, SettleStep DEF InsertPayment, day, OwnTypes

-----------------------------------------------------------------------------
(* The visit after the booking *)

LEMMA VisitStep ==
    ASSUME VisitBookingAssumption, IInv, NEW v \in Visits,
           \/ Paid(v) \/ Expired(v) \/ ConfirmVisit(v) \/ DeclineVisit(v)
           \/ StartVisit(v) \/ CompleteVisit(v) \/ Cancel(v)
    PROVE  IInv'
PROOF
  <1> USE DEF VisitState, Held, Failed
  <1>1. Settles
    <2>1. CASE Paid(v)          BY <2>1, Moving DEF Paid
    <2>2. CASE Expired(v)       BY <2>2, Moving DEF Expired
    <2>3. CASE ConfirmVisit(v)  BY <2>3, Moving DEF ConfirmVisit
    <2>4. CASE DeclineVisit(v)  BY <2>4, Moving DEF DeclineVisit
    <2>5. CASE StartVisit(v)    BY <2>5, Moving DEF StartVisit
    <2>6. CASE CompleteVisit(v) BY <2>6, Moving DEF CompleteVisit
    <2>7. CASE Cancel(v)        BY <2>7, Parts DEF Cancel, Settles
    <2> QED BY <2>1, <2>2, <2>3, <2>4, <2>5, <2>6, <2>7
  <1>2. /\ UNCHANGED <<window, blackout, now, req, drops>>
        /\ pay' \in Payments
    BY Parts DEF Paid, Expired, ConfirmVisit, DeclineVisit, StartVisit, CompleteVisit, Cancel,
                 day, Payments
  <1>3. Requested' /\ OwnTypes'
    BY <1>2, StillRequested, Parts DEF OwnTypes
  <1> QED BY <1>1, <1>2, <1>3, SettleStep

-----------------------------------------------------------------------------
(* The day, time and death *)

LEMMA AddSlotStep ==
    ASSUME VisitBookingAssumption, IInv, NEW p \in Requests, NEW from \in Times, NEW to \in Times,
           AddSlot(p, from, to)
    PROVE  IInv'
PROOF
  <1>1. Requested'
    BY Requesting DEF AddSlot, Begin, Task
  <1>2. Settles
    BY Staying DEF AddSlot, visits
  <1> QED BY <1>1, <1>2, Parts, SettleStep DEF AddSlot, visits, day, OwnTypes

LEMMA InsertSlotStep ==
    ASSUME VisitBookingAssumption, IInv, NEW p \in Requests, InsertSlot(p)
    PROVE  IInv'
PROOF
  <1>1. Requested' /\ Settles
    BY Ending, Staying DEF InsertSlot, visits
  <1>2. /\ req[p].from \in Times /\ req[p].to \in Times
        /\ req[p].to - req[p].from >= Hour
    BY Parts DEF InsertSlot, Requested, SlotFits, At, Task, Idle
  <1>3. OwnTypes'
    BY <1>2, Parts DEF InsertSlot, OwnTypes
  <1> QED BY <1>1, <1>3, Parts, SettleStep DEF InsertSlot, visits

LEMMA DayStep ==
    ASSUME VisitBookingAssumption, IInv,
           (\E r \in Rows : DeleteSlot(r)) \/ SetBlackout \/ Tick
    PROVE  IInv'
PROOF
  <1>1. UNCHANGED <<status, booking, pay, req, drops>>
    BY DEF DeleteSlot, SetBlackout, Tick, visits, day
  <1>2. OwnTypes'
    BY Parts DEF DeleteSlot, SetBlackout, Tick, visits, day, OwnTypes
  <1> QED BY <1>1, <1>2, Parts, Staying, StillRequested, SettleStep

LEMMA DropStep ==
    ASSUME VisitBookingAssumption, IInv, NEW p \in Requests, Drop(p)
    PROVE  IInv'
PROOF
  <1>1. Requested' /\ Settles
    BY Ending, Staying DEF Drop, visits
  <1>2. OwnTypes'
    BY Parts DEF VisitBookingAssumption, Drop, day, OwnTypes
  <1> QED BY <1>1, <1>2, Parts, SettleStep DEF Drop, visits

-----------------------------------------------------------------------------
LEMMA NextInv ==
    ASSUME VisitBookingAssumption, IInv, [Next]_vars
    PROVE  IInv'
PROOF
  <1>1. ASSUME NEW p \in Requests, NEW b \in Booking, CreateVisit(p, b) PROVE IInv'
    BY <1>1, CreateVisitStep
  <1>2. ASSUME NEW p \in Requests, NEW from \in Times, NEW to \in Times, AddSlot(p, from, to)
        PROVE  IInv'
    BY <1>2, AddSlotStep
  <1>3. ASSUME NEW p \in Requests, Step(p) \/ Drop(p) PROVE IInv'
    BY <1>3, BookVisitStep, InsertPaymentStep, InsertSlotStep, DropStep DEF Step
  <1>4. ASSUME NEW v \in Visits,
               \/ Paid(v) \/ Expired(v) \/ ConfirmVisit(v) \/ DeclineVisit(v)
               \/ StartVisit(v) \/ CompleteVisit(v) \/ Cancel(v)
        PROVE  IInv'
    BY <1>4, VisitStep
  <1>5. CASE (\E r \in Rows : DeleteSlot(r)) \/ SetBlackout \/ Tick
    BY <1>5, DayStep
  <1>6. CASE UNCHANGED vars
    BY <1>6, Parts, Staying, StillRequested, SettleStep DEF vars, OwnTypes
  <1> QED BY <1>1, <1>2, <1>3, <1>4, <1>5, <1>6 DEF Next

-----------------------------------------------------------------------------
(* The count of hours, from the equation of its recursive function *)

\* A set of numbers has a least one.
LEMMA LeastOne ==
    ASSUME NEW S \in SUBSET Nat, S # {}
    PROVE  \E k \in S : \A j \in S : k <= j
PROOF
  <1>1. PICK n \in S : TRUE
    OBVIOUS
  <1> DEFINE Upto == {0..k : k \in {j \in S : j <= n}}
  <1>2. IsFiniteSet(0..n) /\ Upto \subseteq SUBSET (0..n) /\ 0..n \in Upto
    <2>1. IsFiniteSet(0..n)
      BY FS_Interval
    <2>2. \A k \in {j \in S : j <= n} : 0..k \subseteq 0..n
      OBVIOUS
    <2>3. n \in {j \in S : j <= n}
      OBVIOUS
    <2> QED BY <2>1, <2>2, <2>3
  <1>3. Upto \subseteq FiniteSubsetsOf(0..n)
    BY <1>2, FS_Subset DEF FiniteSubsetsOf
  <1>4. PICK s \in Upto : \A t \in Upto : <<t, s>> \notin StrictSubsetOrdering(0..n)
    <2> HIDE DEF Upto
    <2> QED BY <1>2, <1>3, FS_StrictSubsetOrderingWellFounded, WFMin
  <1>5. PICK k \in S : k <= n /\ s = 0..k
    OBVIOUS
  <1>6. ASSUME NEW j \in S, j < k PROVE FALSE
    <2>1. 0..j \in Upto /\ 0..j \subseteq 0..k /\ 0..j # 0..k
      BY <1>5, <1>6
    <2> HIDE DEF Upto
    <2>2. <<0..j, s>> \in StrictSubsetOrdering(0..n)
      BY <1>2, <1>5, <2>1 DEF StrictSubsetOrdering
    <2> QED BY <1>4, <2>1, <2>2
  <1> QED BY <1>6

\* A longer booking ends later.
LEMMA HoursGrow ==
    ASSUME NEW n \in Nat, NEW h \in Nat, n <= h, NEW c \in Nat
    PROVE  n * c <= h * c
PROOF
  <1> PICK d \in Nat : h = n + d
    <2>1. h - n \in Nat /\ h = n + (h - n)
      OBVIOUS
    <2> QED BY <2>1
  <1>1. h * c = n * c + d * c
    OBVIOUS
  <1>2. d * c >= 0
    OBVIOUS
  <1>3. n * c \in Nat /\ d * c \in Nat
    OBVIOUS
  <1> QED BY <1>1, <1>2, <1>3

\* Full hours from a time are those the remainder says.
LEMMA FullHours ==
    ASSUME NEW a \in Nat, NEW m \in Nat, a <= m, NEW c \in Nat \ {0}
    PROVE  (m - a) % c = 0 <=> \E n \in 0..m : m = a + n * c
PROOF
  <1> DEFINE d == m - a
  <1>1. d \in Nat
    OBVIOUS
  <1>2. ASSUME d % c = 0 PROVE \E n \in 0..m : m = a + n * c
    <2> DEFINE n == d \div c
    <2>1. n \in Nat /\ d = c * n + (d % c)
      BY <1>1
    <2>2. d = n * c
      BY <1>2, <2>1
    <2>3. n <= d /\ d <= m
      BY <1>1, <2>1
    <2> HIDE DEF n
    <2>4. n \in 0..m
      BY <1>1, <2>1, <2>3
    <2>5. m = a + n * c
      BY <2>2
    <2> QED BY <2>4, <2>5
  <1>3. ASSUME NEW n \in 0..m, m = a + n * c PROVE d % c = 0
    <2>1. d = n * c
      BY <1>3
    <2>2. (n * c) % c = 0
      OBVIOUS
    <2> QED BY <2>1, <2>2
  <1> QED BY <1>2, <1>3

\* Counting up to the first number that stops.
Counts(Stop, f) == f = [n \in 1..(MaxHours + 1) |-> IF n \in Stop THEN n - 1 ELSE f[n + 1]]

LEMMA CountExists ==
    ASSUME MaxHours \in Nat, NEW Stop, MaxHours + 1 \in Stop
    PROVE  \E f : Counts(Stop, f)
PROOF
  <1> DEFINE N == 1..(MaxHours + 1)
             From(n) == {k \in N : n <= k /\ k \in Stop}
             Least(n, k) == k \in From(n) /\ \A j \in From(n) : k <= j
             first == [n \in N |-> (CHOOSE k \in N : Least(n, k)) - 1]
  <1>1. ASSUME NEW n \in N PROVE \E k \in N : Least(n, k)
    <2>1. From(n) \in SUBSET Nat /\ MaxHours + 1 \in From(n)
      OBVIOUS
    <2>2. \E k \in From(n) : \A j \in From(n) : k <= j
      <3> HIDE DEF From
      <3> QED BY <2>1, LeastOne
    <2> QED BY <2>2
  <1>2. ASSUME NEW n \in N, NEW k \in N, Least(n, k) PROVE first[n] = k - 1
    <2>1. \A j \in N : Least(n, j) => j = k
      BY <1>2
    <2>2. Least(n, CHOOSE j \in N : Least(n, j)) /\ (CHOOSE j \in N : Least(n, j)) \in N
      <3> HIDE DEF Least, N
      <3> QED BY <1>1
    <2>3. (CHOOSE j \in N : Least(n, j)) = k
      <3> HIDE DEF Least, N
      <3> QED BY <2>1, <2>2
    <2> QED BY <2>3
  <1>3. ASSUME NEW n \in N PROVE first[n] = IF n \in Stop THEN n - 1 ELSE first[n + 1]
    <2>1. CASE n \in Stop
      <3>1. Least(n, n)
        BY <2>1
      <3> HIDE DEF first, Least
      <3> QED BY <1>2, <2>1, <3>1
    <2>2. CASE n \notin Stop
      <3>1. n + 1 \in N /\ From(n) = From(n + 1)
        BY <2>2
      <3>2. PICK k \in N : Least(n, k)
        BY <1>1
      <3>3. Least(n + 1, k)
        BY <3>1, <3>2
      <3>4. first[n] = k - 1 /\ first[n + 1] = k - 1
        <4> HIDE DEF first, Least, N
        <4> QED BY <1>2, <3>1, <3>2, <3>3
      <3> QED BY <2>2, <3>4
    <2> QED BY <2>1, <2>2
  <1>4. first = [n \in N |-> IF n \in Stop THEN n - 1 ELSE first[n + 1]]
    <2>1. first = [n \in N |-> first[n]]
      OBVIOUS
    <2> HIDE DEF first
    <2> QED BY <1>3, <2>1
  <1> QED BY <1>4 DEF Counts

\* The count is at least h if nothing up to h stops it.
LEMMA CountReaches ==
    ASSUME MaxHours \in Nat, NEW Stop, MaxHours + 1 \in Stop, NEW f, Counts(Stop, f),
           NEW h \in 1..MaxHours
    PROVE  f[1] >= h <=> \A n \in 1..h : n \notin Stop
PROOF
  <1> DEFINE N == 1..(MaxHours + 1)
  <1>1. \A n \in N : f[n] = IF n \in Stop THEN n - 1 ELSE f[n + 1]
    BY DEF Counts
  <1>2. PICK k \in N \cap Stop : \A j \in N \cap Stop : k <= j
    <2>1. N \cap Stop \in SUBSET Nat /\ MaxHours + 1 \in N \cap Stop
      OBVIOUS
    <2> HIDE DEF N
    <2> QED BY <2>1, LeastOne
  <1>3. f[1] = f[k]
    <2> DEFINE Bad == {j \in 1..k : f[j] # f[1]}
    <2> SUFFICES ASSUME Bad # {} PROVE FALSE
      OBVIOUS
    <2>1. PICK j \in Bad : \A i \in Bad : j <= i
      <3>1. Bad \in SUBSET Nat
        OBVIOUS
      <3> HIDE DEF Bad
      <3> QED BY <3>1, LeastOne
    <2>2. j # 1 /\ j \in 2..k
      OBVIOUS
    <2>3. j - 1 \in N /\ j - 1 \notin Stop
      BY <1>2, <2>2
    <2>4. f[j - 1] = f[j]
      BY <1>1, <2>2, <2>3
    <2>5. j - 1 \in Bad
      BY <2>2, <2>4
    <2> QED BY <2>1, <2>2, <2>5
  <1>4. f[k] = k - 1
    BY <1>1, <1>2
  <1>5. k - 1 >= h <=> \A n \in 1..h : n \notin Stop
    <2>1. ASSUME k - 1 >= h, NEW n \in 1..h, n \in Stop PROVE FALSE
      BY <1>2, <2>1
    <2>2. ASSUME k - 1 < h PROVE k \in 1..h /\ k \in Stop
      BY <1>2, <2>2
    <2> QED BY <1>2, <2>1, <2>2
  <1> QED BY <1>3, <1>4, <1>5

\* What stops the count from m in a window that ends at end.
StopsAt(m, end) ==
    {n \in 1..(MaxHours + 1) :
        \/ n > MaxHours
        \/ m + n * Hour > end
        \/ \E v \in Busy : Meets(v, m, m + n * Hour)}

LEMMA HoursFromCounts ==
    ASSUME VisitBookingAssumption, NEW m, NEW end
    PROVE  \E f : Counts(StopsAt(m, end), f) /\ HoursFrom(m, end) = f[1]
PROOF
  <1> DEFINE Stops(n) == \/ n > MaxHours
                         \/ m + n * Hour > end
                         \/ \E v \in Busy : Meets(v, m, m + n * Hour)
             N == 1..(MaxHours + 1)
             Equation(f) == f = [n \in N |-> IF Stops(n) THEN n - 1 ELSE f[n + 1]]
             count == CHOOSE f : Equation(f)
  <1>1. HoursFrom(m, end) = count[1]
    BY DEF HoursFrom
  <1>2. \A n \in N : n \in StopsAt(m, end) <=> Stops(n)
    BY DEF StopsAt
  <1>3. \A f : Counts(StopsAt(m, end), f) <=> Equation(f)
    <2> HIDE DEF Stops
    <2> QED BY <1>2 DEF Counts
  <1>4. MaxHours \in Nat /\ MaxHours + 1 \in StopsAt(m, end)
    BY DEF VisitBookingAssumption, StopsAt
  <1>5. \E f : Equation(f)
    <2> HIDE DEF Equation
    <2> QED BY <1>3, <1>4, CountExists
  <1>6. Equation(count)
    <2> HIDE DEF Equation
    <2> QED BY <1>5
  <1> HIDE DEF Equation, count
  <1> QED BY <1>1, <1>3, <1>6

\* h hours can be booked if the h-th is free: the earlier ones lie in it.
LEMMA HoursFit ==
    ASSUME VisitBookingAssumption, TypeOK, \A v \in Visits : Booked(v),
           NEW m \in Times, NEW end \in Times, NEW h \in 1..MaxHours
    PROVE  HoursFrom(m, end) >= h <=>
             /\ m + h * Hour <= end
             /\ \A v \in Busy : Finish(v) <= m \/ m + h * Hour <= Start(v)
PROOF
  <1>1. PICK f : Counts(StopsAt(m, end), f) /\ HoursFrom(m, end) = f[1]
    BY HoursFromCounts
  <1>2. MaxHours \in Nat /\ Hour \in Nat /\ m \in Nat /\ end \in Nat
    BY DEF VisitBookingAssumption
  <1>3. HoursFrom(m, end) >= h <=> \A n \in 1..h : n \notin StopsAt(m, end)
    <2>1. MaxHours + 1 \in StopsAt(m, end)
      BY <1>2 DEF StopsAt
    <2> QED BY <1>1, <1>2, <2>1, CountReaches
  <1>4. ASSUME NEW v \in Busy PROVE Start(v) \in Int /\ Finish(v) \in Int
    <2>1. booking[v] \in Booking
      BY <1>4 DEF Busy, Held, Booked
    <2>2. booking[v].start \in Nat /\ booking[v].hours \in Nat
      <3>1. booking[v].start \in Times /\ booking[v].hours \in 1..MaxHours
        BY <2>1 DEF Booking
      <3>2. Times \subseteq Nat
        BY DEF VisitBookingAssumption
      <3>3. booking[v].start \in Nat
        BY <3>1, <3>2
      <3>4. booking[v].hours \in Nat
        BY <1>2, <3>1
      <3> QED BY <3>3, <3>4
    <2>3. booking[v].hours * Hour \in Int
      BY <1>2, <2>2
    <2> QED BY <2>2, <2>3 DEF Start, Finish
  <1>5. \A n \in 1..h : n * Hour \in Nat /\ n * Hour <= h * Hour
    BY <1>2, HoursGrow
  <1>6. ASSUME h \notin StopsAt(m, end), NEW n \in 1..h PROVE n \notin StopsAt(m, end)
    <2> DEFINE a == n * Hour
               b == h * Hour
    <2>1. a \in Nat /\ b \in Nat /\ a <= b
      BY <1>5
    <2>2. m + b <= end /\ \A v \in Busy : ~(Start(v) < m + b /\ Finish(v) > m)
      BY <1>2, <1>6, <2>1 DEF StopsAt, Meets
    <2> HIDE DEF a, b
    <2>3. m + a <= end /\ \A v \in Busy : ~(Start(v) < m + a /\ Finish(v) > m)
      BY <1>2, <1>4, <2>1, <2>2
    <2> QED BY <1>2, <2>1, <2>3 DEF StopsAt, Meets, a
  <1>7. h \notin StopsAt(m, end) <=>
          /\ m + h * Hour <= end
          /\ \A v \in Busy : Finish(v) <= m \/ m + h * Hour <= Start(v)
    <2> DEFINE b == h * Hour
    <2>1. b \in Nat
      BY <1>5
    <2>2. h \notin StopsAt(m, end) <=>
             ~(m + b > end) /\ \A v \in Busy : ~(Start(v) < m + b /\ Finish(v) > m)
      BY <1>2 DEF StopsAt, Meets
    <2> HIDE DEF b
    <2>3. h \notin StopsAt(m, end) <=>
             m + b <= end /\ \A v \in Busy : Finish(v) <= m \/ m + b <= Start(v)
      BY <1>2, <1>4, <2>1, <2>2
    <2> QED BY <2>3 DEF b
  <1> QED BY <1>3, <1>6, <1>7

\* slots_for_date, in any state of the rows and the windows.
LEMMA OffersFree ==
    ASSUME VisitBookingAssumption, IInv
    PROVE  OffersAreFree
PROOF
  <1> SUFFICES ASSUME NEW h \in 1..MaxHours, NEW m \in Times
               PROVE  m \in Offered(h) <=>
                        /\ ~blackout /\ m >= Earliest
                        /\ \E w \in Windows :
                             /\ \E n \in 0..m : m = w[1] + n * Hour
                             /\ m + h * Hour <= w[2]
                             /\ \A v \in Busy : Finish(v) <= m \/ m + h * Hour <= Start(v)
    BY DEF OffersAreFree, Offered
  <1>1. /\ TypeOK /\ \A v \in Visits : Booked(v)
        /\ m \in Nat /\ Hour \in Nat \ {0} /\ MaxHours \in Nat /\ Times \subseteq Nat
    BY DEF IInv, VisitBookingAssumption
  <1>2. ASSUME NEW w \in Windows
        PROVE  /\ m \in w[1]..(w[2] - 1) /\ (m - w[1]) % Hour = 0
               /\ HoursFrom(m, w[2]) >= h
               <=>
               /\ \E n \in 0..m : m = w[1] + n * Hour
               /\ m + h * Hour <= w[2]
               /\ \A v \in Busy : Finish(v) <= m \/ m + h * Hour <= Start(v)
    <2>1. w[1] \in Times /\ w[2] \in Times
      BY <1>1 DEF Windows, TypeOK
    <2>2. w[1] \in Nat /\ w[2] \in Nat
      BY <1>1, <2>1
    <2>3. HoursFrom(m, w[2]) >= h <=>
             /\ m + h * Hour <= w[2]
             /\ \A v \in Busy : Finish(v) <= m \/ m + h * Hour <= Start(v)
      BY <1>1, <2>1, HoursFit
    <2>4. w[1] <= m => ((m - w[1]) % Hour = 0 <=> \E n \in 0..m : m = w[1] + n * Hour)
      BY <1>1, <2>2, FullHours
    <2>5. ASSUME NEW n \in 0..m, m = w[1] + n * Hour PROVE w[1] <= m
      <3>1. n * Hour \in Nat
        BY <1>1
      <3> QED BY <1>1, <2>2, <2>5, <3>1
    <2>6. m + h * Hour <= w[2] => m <= w[2] - 1
      <3>1. 1 * Hour <= h * Hour /\ h * Hour \in Nat
        BY <1>1, HoursGrow
      <3> QED BY <1>1, <2>2, <3>1
    <2>7. m \in w[1]..(w[2] - 1) <=> w[1] <= m /\ m <= w[2] - 1
      BY <1>1, <2>2
    <2> DEFINE Full   == \E n \in 0..m : m = w[1] + n * Hour
               Ends   == m + h * Hour <= w[2]
               Free   == \A v \in Busy : Finish(v) <= m \/ m + h * Hour <= Start(v)
               Rest   == (m - w[1]) % Hour = 0
               Counted == HoursFrom(m, w[2]) >= h
               Inside == m \in w[1]..(w[2] - 1)
               After  == w[1] <= m
               Before == m <= w[2] - 1
    <2>8. /\ Counted <=> Ends /\ Free
          /\ After => (Rest <=> Full)
          /\ Full => After
          /\ Ends => Before
          /\ Inside <=> After /\ Before
      BY <2>3, <2>4, <2>5, <2>6, <2>7
    <2>9. Inside /\ Rest /\ Counted <=> Full /\ Ends /\ Free
      <3> HIDE DEF Full, Ends, Free, Rest, Counted, Inside, After, Before
      <3> QED BY <2>8
    <2> QED BY <2>9
  <1> QED BY <1>2 DEF Offered

-----------------------------------------------------------------------------
(* Theorems *)

\* What the rows, the windows and the requests in flight may rely on.
THEOREM Booking_Invariant == Spec => []IInv
PROOF
  <1>1. Init => IInv
    BY VisitBookingAssumption, InitInv
  <1>2. IInv /\ [Next]_vars => IInv'
    BY VisitBookingAssumption, NextInv
  <1> QED BY <1>1, <1>2, PTL DEF Spec

\* Whatever bookings, retries, confirmations and cancels overlap, and however
\* old the availability is they act on, two visits never hold the same hour.
THEOREM Held_Are_Disjoint == Spec => []HeldAreDisjoint
PROOF
  <1>1. IInv => HeldAreDisjoint
    BY DEF IInv
  <1> QED BY <1>1, Booking_Invariant, PTL

\* A key of a santri books one visit, whichever of its retries comes first.
THEOREM One_Visit_Per_Key == Spec => []OneVisitPerKey
PROOF
  <1>1. IInv => OneVisitPerKey
    BY DEF IInv
  <1> QED BY <1>1, Booking_Invariant, PTL

\* The start times offered are exactly the free ones, for any hour, any limit
\* and any set of windows and visits.
THEOREM Offers_Are_Free == Spec => []OffersAreFree
PROOF
  <1>1. IInv => OffersAreFree
    BY VisitBookingAssumption, OffersFree
  <1> QED BY <1>1, Booking_Invariant, PTL

=============================================================================
