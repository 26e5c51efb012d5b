------------------------ MODULE VisitSettlementProofs ------------------------
(***************************************************************************)
(* VisitSettlement for any number of visits, users, requests and invoices. *)
(*                                                                         *)
(* The argument: whatever a statement does, the facts requests rely on     *)
(* only grow (Grows): a booked visit stays booked, a visit that is over    *)
(* stays over, money that was taken stays taken.  So what a request knows  *)
(* of its visit survives every statement of the others, and only the       *)
(* acting request and the rows it writes have to be looked at.             *)
(*                                                                         *)
(* The refund of a declined visit needs more (RefundInv): the visit was    *)
(* offered to the ustadz with a payment that shows its money, or by a      *)
(* debit of the deposit that marked none; whoever declines it stays at the *)
(* refund until the payment is marked, or leaves it behind in drops; and a *)
(* payment is marked REFUNDED only when the money is back.                 *)
(***************************************************************************)
EXTENDS VisitSettlement, TLAPS

USE DEF Procs

Grows(v) ==
    /\ Booked(v) => Booked(v)'
    /\ Beyond(v) => Beyond(v)'
    /\ Delivered(v) => Delivered(v)'
    /\ status[v] \in Over => status'[v] \in Over
    /\ Received(v) => Received(v)'
    /\ Funded(v) => Funded(v)'
    /\ charged[v] > 0 => charged'[v] > 0

\* The record of a request or job.
ReqType == [Procs -> [at : Steps, visit : Visits \cup {NoVisit},
                      inv : Invoices \cup {NoInvoice}, payee : Nat]]

\* The step as the abstract specification sees it.
Keeps == [Promise!Next]_(Promise!vars)

\* The moves of a payment.
Decided(v) ==
    \/ pay'[v] = pay[v]
    \/ <<pay[v], pay'[v]>> \in {<<"NONE", "PENDING">>, <<"PENDING", "PAID">>,
                                <<"PENDING", "EXPIRED">>, <<"PAID", "REFUNDED">>}

\* What one step of process p has to show.
StepInv(p) ==
    /\ TypeOK'
    /\ \A q \in Procs \ {p} : req'[q] = req[q]
    /\ \A v \in Visits : Grows(v) /\ VisitInv(v)'
    /\ RequestKnows(p)'
    /\ InsertedOnce'
    /\ \A v \in Visits : Decided(v)
    /\ Keeps

-----------------------------------------------------------------------------
(* Steps of the abstract specification *)

\* A step that moves no visit and no money is a stutter of the promise.
LEMMA Stutters ==
    ASSUME UNCHANGED <<status, charged, invoice, refunded, earned>>
    PROVE  Keeps
  BY DEF Keeps, Promise!vars, Funded

\* A step that takes the money of one visit (Debit, GatewayMoves) is Fund.
LEMMA FundKeeps ==
    ASSUME NEW v \in Visits, Promise!Fund(v)
    PROVE  Keeps
  BY DEF Keeps, Promise!Next

\* A step that refunds one funded visit (LateCredit, RefundCredit) is Return.
LEMMA ReturnKeeps ==
    ASSUME NEW v \in Visits, Funded(v), Booked(v), Beyond(v),
           refunded'[v] > 0, \A w \in Visits \ {v} : refunded'[w] = refunded[w],
           UNCHANGED <<status, charged, invoice, earned>>
    PROVE  Keeps
PROOF
  <1>1. [w \in Visits |-> refunded[w] > 0]' = [[w \in Visits |-> refunded[w] > 0] EXCEPT ![v] = TRUE]
    OBVIOUS
  <1>2. Promise!Return(v)
    BY <1>1 DEF Promise!Return, Promise!Unbooked, Booked, Beyond, Funded
  <1> QED BY <1>2 DEF Keeps, Promise!Next

\* A step that credits income of one visit that is over (CreditShare) is Earn.
LEMMA EarnKeeps ==
    ASSUME NEW v \in Visits, NEW u \in Users, Funded(v), status[v] \in Over,
           earned'[u][v] > 0, \A x \in Users, w \in Visits \ {v} : earned'[x][w] = earned[x][w],
           UNCHANGED <<status, charged, invoice, refunded>>
    PROVE  Keeps
PROOF
  <1> DEFINE Paid == [w \in Visits |-> \E x \in Users : earned[x][w] > 0]
  <1>1. Paid' = [Paid EXCEPT ![v] = TRUE]
    OBVIOUS
  <1>2. Promise!Earn(v)
    BY <1>1 DEF Promise!Earn, Promise!Over, Over, Funded
  <1> QED BY <1>2 DEF Keeps, Promise!Next

\* The moves of the visits: those of VisitPromise, each under its condition.
VisitsMove ==
    \/ status' = status
    \/ \E v \in Visits, new \in VisitState :
          /\ status' = [status EXCEPT ![v] = new]
          /\ <<status[v], new>> \in Promise!Moves
          /\ new \in Served => Funded(v)
    \/ \E group \in SUBSET Visits :
          /\ \A v \in group : status[v] # "NONE"
          /\ status' = [v \in Visits |-> IF v \in group THEN "CANCELED" ELSE status[v]]

\* A step that moves statuses only, legally, is Book, Advance or Cancel.
LEMMA MovesKeep ==
    ASSUME VisitsMove, UNCHANGED <<charged, invoice, refunded, earned>>
    PROVE  Keeps
PROOF
  <1>1. /\ UNCHANGED [v \in Visits |-> Funded(v)]
        /\ UNCHANGED [v \in Visits |-> refunded[v] > 0]
        /\ UNCHANGED [v \in Visits |-> \E u \in Users : earned[u][v] > 0]
    BY DEF Funded
  <1>2. CASE status' = status
    BY <1>2, Stutters
  <1>3. ASSUME NEW v \in Visits, NEW new \in VisitState,
               status' = [status EXCEPT ![v] = new],
               <<status[v], new>> \in Promise!Moves, new \in Served => Funded(v)
        PROVE  Promise!Next
    <2>1. new \in Promise!Statuses
      BY DEF VisitState, Promise!Statuses, Served, Failed, Promise!Served, Promise!Failed
    <2>2. Promise!Advance(v, new)
      BY <1>1, <1>3 DEF Promise!Advance, Served, Promise!Served
    <2> QED BY <2>1, <2>2 DEF Promise!Next
  <1>4. ASSUME NEW group \in SUBSET Visits, \A v \in group : status[v] # "NONE",
               status' = [v \in Visits |-> IF v \in group THEN "CANCELED" ELSE status[v]]
        PROVE  Promise!Next
    BY <1>1, <1>4 DEF Promise!Cancel, Promise!Next
  <1> QED BY <1>2, <1>3, <1>4 DEF VisitsMove, Keeps

\* A request that does not act keeps what it knows.
LEMMA KnowsIsStable ==
    ASSUME TypeOK, NEW q \in Procs, RequestKnows(q), req'[q] = req[q],
           \A v \in Visits : Grows(v)
    PROVE  RequestKnows(q)'
PROOF
  <1>1. CASE At(q, "idle")
    BY <1>1 DEF RequestKnows, At, On
  <1>2. CASE ~At(q, "idle")
    <2>1. On(q) \in Visits /\ Grows(On(q)) /\ On(q)' = On(q)
      BY <1>2 DEF RequestKnows, On
    <2> QED
      BY <1>2, <2>1 DEF RequestKnows, At, On, Grows, PayeeOf
  <1> QED BY <1>1, <1>2

\* What one step has to show is enough for the invariant.
LEMMA StepSuffices ==
    ASSUME IInv, NEW p \in Procs, StepInv(p)
    PROVE  IInv'
  BY KnowsIsStable DEF IInv, StepInv

\* Only a request that begins with CreateVisit or stays where it is can be
\* about to insert a payment, and no other statement inserts one.
LEMMA InsertedOnceIsStable ==
    ASSUME InsertedOnce,
           \A q \in Procs : At(q, "insertPayment")' => req'[q] = req[q],
           \A q \in Procs : At(q, "insertPayment") /\ pay[On(q)] = "NONE" => pay'[On(q)] = "NONE"
    PROVE  InsertedOnce'
  BY DEF InsertedOnce, At, On

\* The moves of a visit: those of VisitPromise, each under its condition.
Moved(v) ==
    \/ status'[v] = status[v]
    \/ <<status[v], status'[v]>> \in Promise!Moves /\ (status'[v] \in Served => Funded(v))
    \/ status[v] # "NONE" /\ status'[v] = "CANCELED"

\* Visits that move together, or one alone, each move legally.
LEMMA EachMoved ==
    ASSUME status \in [Visits -> VisitState], VisitsMove
    PROVE  \A v \in Visits : Moved(v)
  BY DEF VisitsMove, Moved

\* Statements that write no row but, perhaps, statuses of visits.
LEMMA StatusStep ==
    ASSUME IInv, NEW p \in Procs,
           UNCHANGED <<pay, invoice, charged, refunded, earned>>,
           VisitsMove,
           TypeOK', \A q \in Procs \ {p} : req'[q] = req[q],
           At(p, "insertPayment")' => req'[p] = req[p], RequestKnows(p)'
    PROVE  StepInv(p)
PROOF
  <1>1. ASSUME NEW v \in Visits PROVE Grows(v) /\ VisitInv(v)'
    <2>1. Moved(v) /\ VisitInv(v)
      BY EachMoved DEF IInv, TypeOK
    <2>2. Grows(v)
      BY <2>1 DEF Moved, Promise!Moves, Grows, Booked, Beyond, Delivered, Over, Received, Funded
    <2>3. VisitInv(v)'
      BY <2>1, <2>2 DEF Moved, Promise!Moves, VisitInv, Grows, Booked, Beyond, Over, Served,
                        Received, Funded
    <2> QED BY <2>2, <2>3
  <1>2. InsertedOnce'
    BY InsertedOnceIsStable DEF IInv, At
  <1> QED BY <1>1, <1>2, MovesKeep DEF StepInv, Decided

\* How the request record moves.
LEMMA GotoType ==
    ASSUME TypeOK, NEW p \in Procs, NEW step \in Steps, Goto(p, step)
    PROVE  /\ req' \in ReqType
           /\ \A q \in Procs \ {p} : req'[q] = req[q]
           /\ req'[p].at = step
           /\ req'[p].visit = req[p].visit
           /\ req'[p].inv = req[p].inv
           /\ req'[p].payee = req[p].payee
  BY DEF TypeOK, ReqType, Goto

\* A request that ends leaves the other requests alone and knows nothing more.
LEMMA EndType ==
    ASSUME TypeOK, NEW p \in Procs, End(p)
    PROVE  /\ req' \in ReqType
           /\ \A q \in Procs \ {p} : req'[q] = req[q]
           /\ req'[p] = Idle
           /\ RequestKnows(p)'
  BY DEF TypeOK, ReqType, End, Idle, Task, Steps, RequestKnows, At, On

\* A request that begins was idle, and leaves the other requests alone.
LEMMA BeginType ==
    ASSUME TypeOK, NEW p \in Procs, NEW v \in Visits, NEW step \in Steps, Begin(p, v, step)
    PROVE  /\ req' \in ReqType
           /\ \A q \in Procs \ {p} : req'[q] = req[q]
           /\ req[p].at = "idle"
           /\ req'[p].at = step
           /\ req'[p].visit = v
           /\ req'[p].payee = 1
  BY DEF TypeOK, ReqType, Begin, Room, Idle, Task

\* create_visit, INSERT INTO payments: the row is new, and this request ends inserting.
LEMMA InsertPaymentStep ==
    ASSUME VisitSettlementAssumption, IInv, NEW p \in Procs, InsertPayment(p)
    PROVE  StepInv(p)
PROOF
  <1> DEFINE v == On(p)
  <1>1. v \in Visits /\ status[v] # "NONE" /\ pay[v] = "NONE" /\ req[p].payee = 1
    BY DEF IInv, RequestKnows, InsertedOnce, InsertPayment, At, On, Booked
  <1>2. TypeOK'
    BY <1>1, GotoType DEF IInv, TypeOK, ReqType, InsertPayment, gateway, wallet, PayState, Steps
  <1>3. \A q \in Procs \ {p} : req'[q] = req[q]
    BY DEF IInv, TypeOK, InsertPayment, Goto
  <1>4. \A w \in Visits : Grows(w) /\ VisitInv(w)'
    BY <1>1 DEF IInv, TypeOK, VisitInv, Grows, Booked, Beyond, Delivered, Received, Funded,
                InsertPayment, gateway, wallet
  <1>5. RequestKnows(p)'
    <2>1. req'[p].at = "issueInvoice" /\ On(p)' = v /\ req'[p].payee = 1
      BY <1>1, GotoType DEF IInv, InsertPayment, Steps, On
    <2> QED BY <1>1, <2>1 DEF RequestKnows, At, InsertPayment, Booked
  <1>6. InsertedOnce'
    BY <1>1 DEF IInv, TypeOK, InsertedOnce, InsertPayment, Goto, At, On
  <1>7. Keeps /\ \A w \in Visits : Decided(w)
    BY <1>1, Stutters DEF IInv, TypeOK, InsertPayment, gateway, wallet, Decided
  <1> QED BY <1>2, <1>3, <1>4, <1>5, <1>6, <1>7 DEF StepInv

-----------------------------------------------------------------------------
(* Requests that begin *)

\* The checks of every handler tell the first statement of its request what it relies on.
LEMMA ArriveStep ==
    ASSUME VisitSettlementAssumption, IInv, NEW p \in Requests, NEW v \in Visits,
           Arrive(p, v), ~CreateVisit(p, v)
    PROVE  StepInv(p)
PROOF
  <1>1. UNCHANGED <<status, pay, saved, invoice, balance, charged, refunded, earned, drops>>
    BY DEF Arrive, Pay, PayDeposit, WebhookPaid, WebhookExpired, Cancel, Decline, Complete,
           ForceCancel, gateway, wallet
  <1>2. /\ req' \in ReqType
        /\ \A q \in Procs \ {p} : req'[q] = req[q]
        /\ At(p, "insertPayment")' => req'[p] = req[p]
    <2>1. CASE Pay(p, v)
      BY <2>1 DEF IInv, TypeOK, ReqType, Pay, Room, Idle, Task, Steps, At
    <2>2. CASE \E step \in Steps \ {"insertPayment"} : Begin(p, v, step)
      BY <2>2, BeginType DEF IInv, At
    <2> QED
      BY <2>1, <2>2 DEF Arrive, PayDeposit, WebhookPaid, WebhookExpired, Cancel, Decline,
                        Complete, ForceCancel, Steps
  <1>3. TypeOK'
    BY <1>1, <1>2 DEF IInv, TypeOK, ReqType
  <1>4. RequestKnows(p)'
    <2>1. VisitInv(v) /\ p \in Procs
      BY DEF IInv
    <2>2. CASE Pay(p, v)
      BY <1>1, <2>1, <2>2 DEF Pay, Room, IInv, TypeOK, RequestKnows, At, On, Booked, Idle, Task
    <2>3. ASSUME NEW step \in Steps, Begin(p, v, step)
          PROVE  At(p, step)' /\ On(p)' = v /\ req'[p].payee = 1
      BY <2>1, <2>3, BeginType DEF IInv, At, On
    <2>4. CASE PayDeposit(p, v)
      BY <1>1, <2>1, <2>3, <2>4 DEF PayDeposit, RequestKnows, At, Booked, Steps
    <2>5. CASE WebhookPaid(p, v)
      BY <1>1, <2>1, <2>3, <2>5 DEF WebhookPaid, IInv, TypeOK, VisitInv, RequestKnows, At,
                                    Booked, Funded, Collected, Steps
    <2>6. CASE WebhookExpired(p, v)
      BY <1>1, <2>1, <2>3, <2>6 DEF WebhookExpired, VisitInv, RequestKnows, At, Booked, Steps
    <2>7. CASE Cancel(p, v)
      BY <1>1, <2>1, <2>3, <2>7 DEF Cancel, RequestKnows, At, Booked, Beyond, Steps
    <2>8. CASE Decline(p, v)
      BY <1>1, <2>1, <2>3, <2>8 DEF Decline, RequestKnows, At, Booked, Beyond, Steps
    <2>9. CASE Complete(p, v)
      BY <1>1, <2>1, <2>3, <2>9 DEF Complete, RequestKnows, At, Booked, Delivered, Steps
    <2>10. CASE ForceCancel(p, v)
      BY <1>1, <2>1, <2>3, <2>10 DEF ForceCancel, RequestKnows, At, Booked, Beyond, Failed, Steps
    <2> QED BY <2>2, <2>4, <2>5, <2>6, <2>7, <2>8, <2>9, <2>10 DEF Arrive
  <1> QED BY <1>1, <1>2, <1>3, <1>4, StatusStep DEF VisitsMove

\* A booking: the visit had no row, so no payment and no request of its own.
LEMMA CreateVisitStep ==
    ASSUME VisitSettlementAssumption, IInv, NEW p \in Requests, NEW v \in Visits,
           CreateVisit(p, v)
    PROVE  StepInv(p)
PROOF
  <1>1. /\ status[v] = "NONE" /\ status' = [status EXCEPT ![v] = "REQUESTED"]
        /\ UNCHANGED <<pay, saved, invoice, balance, charged, refunded, earned, drops>>
        /\ p \in Procs /\ VisitInv(v) /\ pay[v] = "NONE"
    BY DEF CreateVisit, gateway, wallet, IInv, VisitInv, Booked
  <1>2. /\ req' \in ReqType
        /\ \A q \in Procs \ {p} : req'[q] = req[q]
        /\ req'[p].at = "insertPayment" /\ req'[p].visit = v /\ req'[p].payee = 1
    BY <1>1, BeginType DEF CreateVisit, IInv, Steps
  <1>3. TypeOK'
    BY <1>1, <1>2 DEF IInv, TypeOK, ReqType, VisitState
  <1>4. \A w \in Visits : Grows(w) /\ VisitInv(w)'
    BY <1>1 DEF IInv, TypeOK, VisitInv, Grows, Booked, Beyond, Delivered, Received, Funded, Served, Over
  <1>5. RequestKnows(p)'
    BY <1>1, <1>2, <1>3 DEF TypeOK, RequestKnows, At, On, Booked
  <1>6. InsertedOnce'
    <2>1. ASSUME NEW q \in Procs, At(q, "insertPayment")', q # p
          PROVE  At(q, "insertPayment") /\ On(q)' = On(q) /\ On(q) # v /\ pay'[On(q)] = pay[On(q)]
      BY <1>1, <1>2, <2>1 DEF IInv, RequestKnows, At, On, Booked
    <2>2. At(p, "insertPayment")' /\ On(p)' = v /\ pay'[v] = "NONE"
      BY <1>1, <1>2 DEF At, On
    <2> QED BY <2>1, <2>2 DEF IInv, InsertedOnce
  <1>7. Promise!Book(v) /\ \A w \in Visits : Decided(w)
    BY <1>1 DEF Promise!Book, Funded, Decided
  <1>8. Keeps
    BY <1>7 DEF Keeps, Promise!Next
  <1> QED BY <1>1, <1>2, <1>3, <1>4, <1>5, <1>6, <1>7, <1>8 DEF StepInv

-----------------------------------------------------------------------------
(* Statements that only read *)

\* The visit and the record of the process that acts.
LEMMA Acting ==
    ASSUME IInv, NEW p \in Procs, req[p].at # "idle"
    PROVE  /\ On(p) \in Visits /\ Booked(On(p)) /\ VisitInv(On(p)) /\ RequestKnows(p) /\ TypeOK
           /\ req[p].payee \in Nat /\ req[p].inv \in Invoices \cup {NoInvoice}
  BY DEF IInv, TypeOK, RequestKnows, At



\* A statement that writes no row, and after which the request ends or goes
\* on to another statement of the same visit.
LEMMA ReadsOnly ==
    ASSUME IInv, NEW p \in Procs, req[p].at # "idle",
           UNCHANGED <<status, pay, saved, invoice, balance, charged, refunded, earned, drops>>,
           req' \in ReqType, \A q \in Procs \ {p} : req'[q] = req[q],
           req'[p].at # "insertPayment", RequestKnows(p)'
    PROVE  StepInv(p)
PROOF
  <1>1. TypeOK'
    BY DEF IInv, TypeOK, ReqType
  <1> QED BY <1>1, StatusStep DEF VisitsMove, At

\* create_visit_invoice, GET of the saved invoice: PAID means that money was taken.
LEMMA CheckInvoiceStep ==
    ASSUME IInv, NEW p \in Procs, CheckInvoice(p)
    PROVE  StepInv(p)
PROOF
  <1>1. /\ req[p].at = "checkInvoice"
        /\ UNCHANGED <<status, pay, saved, invoice, balance, charged, refunded, earned, drops>>
    BY DEF CheckInvoice, At, gateway, wallet
  <1>2. On(p) \in Visits /\ Booked(On(p)) /\ req[p].payee = 1 /\ TypeOK /\ req[p].inv \in Invoices
    BY <1>1, Acting DEF RequestKnows
  <1>3. CASE End(p)
    BY <1>1, <1>2, <1>3, EndType, ReadsOnly DEF Idle, Task
  <1>4. ASSUME NEW step \in {"markPaid", "issueInvoice"}, Goto(p, step),
               step = "markPaid" => invoice[On(p)][req[p].inv] = "PAID"
        PROVE  StepInv(p)
    <2>1. step \in Steps \ {"insertPayment"}
      BY DEF Steps
    <2>2. /\ req'[p].at = step /\ On(p)' = On(p) /\ req'[p].payee = 1
          /\ req' \in ReqType /\ \A q \in Procs \ {p} : req'[q] = req[q]
      BY <1>2, <1>4, <2>1, GotoType DEF On
    <2>3. RequestKnows(p)'
      BY <1>1, <1>2, <1>4, <2>2 DEF RequestKnows, At, Booked, Funded, Collected
    <2> QED BY <1>1, <2>1, <2>2, <2>3, ReadsOnly
  <1> QED BY <1>3, <1>4 DEF CheckInvoice

\* apply_visit_paid, the second look at the payment: PAID, or the request ends.
LEMMA RereadPaymentStep ==
    ASSUME IInv, NEW p \in Procs, RereadPayment(p)
    PROVE  StepInv(p)
PROOF
  <1>1. /\ req[p].at = "rereadPayment"
        /\ UNCHANGED <<status, pay, saved, invoice, balance, charged, refunded, earned, drops>>
    BY DEF RereadPayment, At, gateway, wallet
  <1>2. On(p) \in Visits /\ Booked(On(p)) /\ req[p].payee = 1 /\ TypeOK
    BY <1>1, Acting DEF RequestKnows
  <1>3. CASE End(p)
    BY <1>1, <1>2, <1>3, EndType, ReadsOnly DEF Idle, Task
  <1>4. ASSUME Goto(p, "readVisit"),
               pay[On(p)] = "PAID"
        PROVE  StepInv(p)
    <2>1. "readVisit" \in Steps \ {"insertPayment"}
      BY DEF Steps
    <2>2. /\ req'[p].at = "readVisit" /\ On(p)' = On(p) /\ req'[p].payee = 1
          /\ req' \in ReqType /\ \A q \in Procs \ {p} : req'[q] = req[q]
      BY <1>2, <1>4, <2>1, GotoType DEF On
    <2>3. RequestKnows(p)'
      BY <1>1, <1>2, <1>4, <2>2 DEF RequestKnows, At, Booked, Received
    <2> QED BY <1>1, <2>1, <2>2, <2>3, ReadsOnly
  <1> QED BY <1>3, <1>4 DEF RereadPayment

\* apply_visit_paid, the status that decides between acceptance and refund.
LEMMA ReadVisitStep ==
    ASSUME IInv, NEW p \in Procs, ReadVisit(p)
    PROVE  StepInv(p)
PROOF
  <1>1. /\ req[p].at = "readVisit"
        /\ UNCHANGED <<status, pay, saved, invoice, balance, charged, refunded, earned, drops>>
    BY DEF ReadVisit, At, gateway, wallet
  <1>2. On(p) \in Visits /\ Booked(On(p)) /\ req[p].payee = 1 /\ TypeOK /\ Received(On(p))
    BY <1>1, Acting DEF RequestKnows
  <1>3. CASE End(p)
    BY <1>1, <1>2, <1>3, EndType, ReadsOnly DEF Idle, Task
  <1>4. ASSUME NEW step \in {"acceptPaid", "lateCredit"}, Goto(p, step),
               step = "lateCredit" => status[On(p)] \in Failed
        PROVE  StepInv(p)
    <2>1. step \in Steps \ {"insertPayment"}
      BY DEF Steps
    <2>2. /\ req'[p].at = step /\ On(p)' = On(p) /\ req'[p].payee = 1
          /\ req' \in ReqType /\ \A q \in Procs \ {p} : req'[q] = req[q]
      BY <1>2, <1>4, <2>1, GotoType DEF On
    <2>3. RequestKnows(p)'
      BY <1>1, <1>2, <1>4, <2>2 DEF RequestKnows, At, Booked, Received, Beyond, Failed
    <2> QED BY <1>1, <2>1, <2>2, <2>3, ReadsOnly
  <1> QED BY <1>3, <1>4 DEF ReadVisit

\* refund_visit_to_deposit, the SELECT of a PAID payment.
LEMMA ReadPaidStep ==
    ASSUME IInv, NEW p \in Procs, ReadPaid(p)
    PROVE  StepInv(p)
PROOF
  <1>1. /\ req[p].at = "readPaid"
        /\ UNCHANGED <<status, pay, saved, invoice, balance, charged, refunded, earned, drops>>
    BY DEF ReadPaid, At, gateway, wallet
  <1>2. On(p) \in Visits /\ Booked(On(p)) /\ req[p].payee = 1 /\ TypeOK /\ Beyond(On(p))
    BY <1>1, Acting DEF RequestKnows
  <1>3. CASE End(p)
    BY <1>1, <1>2, <1>3, EndType, ReadsOnly DEF Idle, Task
  <1>4. ASSUME Goto(p, "refundCredit"),
               pay[On(p)] = "PAID"
        PROVE  StepInv(p)
    <2>1. "refundCredit" \in Steps \ {"insertPayment"}
      BY DEF Steps
    <2>2. /\ req'[p].at = "refundCredit" /\ On(p)' = On(p) /\ req'[p].payee = 1
          /\ req' \in ReqType /\ \A q \in Procs \ {p} : req'[q] = req[q]
      BY <1>2, <1>4, <2>1, GotoType DEF On
    <2>3. RequestKnows(p)'
      BY <1>1, <1>2, <1>4, <2>2 DEF RequestKnows, At, Booked, Received, Beyond
    <2> QED BY <1>1, <2>1, <2>2, <2>3, ReadsOnly
  <1> QED BY <1>3, <1>4 DEF ReadPaid

\* earn_visit_income, the SELECT of a PAID payment: the first share exists.
LEMMA ReadIncomeStep ==
    ASSUME VisitSettlementAssumption, IInv, NEW p \in Procs, ReadIncome(p)
    PROVE  StepInv(p)
PROOF
  <1>1. /\ req[p].at = "readIncome"
        /\ UNCHANGED <<status, pay, saved, invoice, balance, charged, refunded, earned, drops>>
    BY DEF ReadIncome, At, gateway, wallet
  <1>2. /\ On(p) \in Visits /\ Booked(On(p)) /\ req[p].payee = 1 /\ TypeOK
        /\ status[On(p)] \in Over
    BY <1>1, Acting DEF RequestKnows
  <1>3. CASE End(p)
    BY <1>1, <1>2, <1>3, EndType, ReadsOnly DEF Idle, Task
  <1>4. ASSUME Goto(p, "checkShare"), pay[On(p)] = "PAID", Payees # <<>>
        PROVE  StepInv(p)
    <2>1. /\ req'[p].at = "checkShare" /\ On(p)' = On(p) /\ req'[p].payee = 1
          /\ req' \in ReqType /\ \A q \in Procs \ {p} : req'[q] = req[q]
      BY <1>2, <1>4, GotoType DEF On, Steps
    <2>2. 1 \in 1..Len(Payees)
      BY <1>4 DEF VisitSettlementAssumption
    <2>3. RequestKnows(p)'
      BY <1>1, <1>2, <1>4, <2>1, <2>2 DEF RequestKnows, At, Booked, Received
    <2> QED BY <1>1, <2>1, <2>3, ReadsOnly
  <1> QED BY <1>3, <1>4 DEF ReadIncome

\* The next share, or the end of the request.
LEMMA NextShareType ==
    ASSUME VisitSettlementAssumption, TypeOK, NEW p \in Procs,
           req[p].payee \in 1..Len(Payees), NextShare(p)
    PROVE  /\ req' \in ReqType /\ \A q \in Procs \ {p} : req'[q] = req[q]
           /\ \/ End(p)
              \/ /\ req'[p].at = "checkShare" /\ On(p)' = On(p)
                 /\ req'[p].payee \in 1..Len(Payees)
PROOF
  <1>1. CASE End(p)
    BY <1>1, EndType
  <1>2. CASE ~End(p)
    <2>1. Len(Payees) \in Nat
      BY DEF VisitSettlementAssumption
    <2>2. /\ req[p].payee < Len(Payees)
          /\ req' = [req EXCEPT ![p].at = "checkShare", ![p].payee = @ + 1]
      BY <1>2 DEF NextShare
    <2> QED BY <2>1, <2>2 DEF TypeOK, ReqType, On, Steps
  <1> QED BY <1>1, <1>2

\* earn_visit_income, the COUNT before a share: the share to credit is positive.
LEMMA CheckShareStep ==
    ASSUME VisitSettlementAssumption, IInv, NEW p \in Procs, CheckShare(p)
    PROVE  StepInv(p)
PROOF
  <1>1. /\ req[p].at = "checkShare"
        /\ UNCHANGED <<status, pay, saved, invoice, balance, charged, refunded, earned, drops>>
    BY DEF CheckShare, At, gateway, wallet
  <1>2. /\ On(p) \in Visits /\ Booked(On(p)) /\ req[p].payee \in 1..Len(Payees) /\ TypeOK
        /\ status[On(p)] \in Over /\ Received(On(p))
    BY <1>1, Acting DEF RequestKnows
  <1>3. CASE NextShare(p)
    <2>1. CASE End(p)
      BY <1>1, <1>2, <2>1, EndType, ReadsOnly DEF Idle, Task
    <2>2. CASE ~End(p)
      <3>1. RequestKnows(p)'
        BY <1>1, <1>2, <1>3, <2>2, NextShareType DEF RequestKnows, At, Booked, Received
      <3> QED BY <1>1, <1>2, <1>3, <2>2, <3>1, NextShareType, ReadsOnly
    <2> QED BY <2>1, <2>2
  <1>4. ASSUME Goto(p, "creditShare"), PayeeOf(On(p), req[p].payee) \in Users,
               Payees[req[p].payee].share > 0
        PROVE  StepInv(p)
    <2>1. /\ req'[p].at = "creditShare" /\ On(p)' = On(p) /\ req'[p].payee = req[p].payee
          /\ req' \in ReqType /\ \A q \in Procs \ {p} : req'[q] = req[q]
      BY <1>2, <1>4, GotoType DEF On, Steps
    <2>2. RequestKnows(p)'
      BY <1>1, <1>2, <1>4, <2>1 DEF RequestKnows, At, Booked, Received, PayeeOf
    <2> QED BY <1>1, <2>1, <2>2, ReadsOnly
  <1> QED BY <1>3, <1>4 DEF CheckShare

\* create_visit_invoice, the UPDATE that saves the invoice id.
LEMMA SaveInvoiceStep ==
    ASSUME IInv, NEW p \in Procs, SaveInvoice(p)
    PROVE  StepInv(p)
PROOF
  <1>1. /\ req[p].at = "saveInvoice" /\ End(p)
        /\ saved' = [saved EXCEPT ![On(p)] = req[p].inv]
        /\ UNCHANGED <<status, pay, invoice, balance, charged, refunded, earned, drops>>
    BY DEF SaveInvoice, At, wallet
  <1>2. On(p) \in Visits /\ req[p].inv \in Invoices /\ TypeOK
    BY <1>1, Acting DEF RequestKnows
  <1>3. TypeOK'
    BY <1>1, <1>2, EndType DEF TypeOK, ReqType
  <1> QED BY <1>1, <1>2, <1>3, EndType, StatusStep DEF VisitsMove, At, Idle, Task

\* job_payment_poll, the state of the invoice at the gateway.
LEMMA PollInvoiceStep ==
    ASSUME IInv, PollInvoice
    PROVE  StepInv(Worker)
PROOF
  <1> DEFINE p == Worker
  <1>1. /\ p \in Procs /\ req[p].at = "pollInvoice"
        /\ UNCHANGED <<status, pay, saved, invoice, balance, charged, refunded, earned, drops>>
    BY DEF PollInvoice, At, gateway, wallet
  <1>2. /\ On(p) \in Visits /\ Booked(On(p)) /\ req[p].payee = 1 /\ TypeOK
        /\ req[p].inv \in Invoices
    BY <1>1, Acting DEF RequestKnows
  <1>3. CASE End(p)
    BY <1>1, <1>2, <1>3, EndType, ReadsOnly DEF Idle, Task
  <1>4. ASSUME NEW step \in {"markPaid", "markExpired"}, Goto(p, step),
               step = "markPaid" => invoice[On(p)][req[p].inv] \in Collected
        PROVE  StepInv(p)
    <2>1. /\ req'[p].at = step /\ On(p)' = On(p) /\ req'[p].payee = 1
          /\ req' \in ReqType /\ \A q \in Procs \ {p} : req'[q] = req[q]
      BY <1>1, <1>2, <1>4, GotoType DEF On, Steps
    <2>2. RequestKnows(p)'
      BY <1>1, <1>2, <1>4, <2>1 DEF RequestKnows, At, Booked, Funded
    <2> QED BY <1>1, <1>4, <2>1, <2>2, ReadsOnly
  <1> QED BY <1>3, <1>4 DEF PollInvoice

\* A request that dies leaves everything but itself as it was.
LEMMA DropStep ==
    ASSUME VisitSettlementAssumption, IInv, NEW p \in Procs, Drop(p)
    PROVE  StepInv(p)
PROOF
  <1>1. /\ End(p) /\ Len(drops) < MaxDrops /\ TypeOK
        /\ \E w \in Visits \cup {NoVisit} : drops' = Append(drops, w)
        /\ UNCHANGED <<status, pay, saved, invoice, balance, charged, refunded, earned>>
    BY Acting DEF Drop, gateway, wallet, IInv, Idle, Task, TypeOK, On
  <1>2. drops' \in Seq(Visits \cup {NoVisit}) /\ Len(drops') <= MaxDrops
    BY <1>1 DEF TypeOK, VisitSettlementAssumption
  <1>3. TypeOK'
    BY <1>1, <1>2, EndType DEF TypeOK, ReqType
  <1>4. req'[p].at = "idle" /\ VisitsMove
    BY <1>1, EndType DEF VisitsMove, Idle, Task
  <1> QED BY <1>1, <1>3, <1>4, EndType, StatusStep DEF At

-----------------------------------------------------------------------------
(* Statements that write statuses of visits *)

\* The guarded UPDATE of a status moves one visit, legally, or none.
LEMMA MoveVisitMoved ==
    ASSUME TypeOK, NEW v \in Visits, NEW from, NEW new \in VisitState, MoveVisit(v, from, new),
           \A s \in from : <<s, new>> \in Promise!Moves, status[v] \in from /\ new \in Served => Funded(v)
    PROVE  /\ status' \in [Visits -> VisitState]
           /\ VisitsMove
           /\ status'[v] = IF status[v] \in from THEN new ELSE status[v]
PROOF
  <1>1. CASE status[v] \in from
    BY <1>1 DEF TypeOK, MoveVisit, VisitsMove
  <1>2. CASE status[v] \notin from
    BY <1>2 DEF TypeOK, MoveVisit, VisitsMove
  <1> QED BY <1>1, <1>2

\* The UPDATE of cancel, without WHERE, cancels every booked visit.
LEMMA CancelEveryVisitMoved ==
    ASSUME TypeOK, CancelEveryVisit
    PROVE  /\ status' \in [Visits -> VisitState]
           /\ VisitsMove
           /\ \A w \in Visits : status[w] # "NONE" => status'[w] = "CANCELED"
PROOF
  <1> DEFINE group == {w \in Visits : status[w] # "NONE"}
  <1>1. status' = [v \in Visits |-> IF v \in group THEN "CANCELED" ELSE status[v]]
    BY DEF TypeOK, CancelEveryVisit
  <1>2. VisitsMove
    BY <1>1 DEF VisitsMove
  <1> QED BY <1>2 DEF TypeOK, CancelEveryVisit, VisitState, Failed

\* A statement that writes statuses, and after which the request ends or
\* goes on to another statement of the same visit.
LEMMA MovesOnly ==
    ASSUME IInv, NEW p \in Procs, req[p].at # "idle",
           UNCHANGED <<pay, saved, invoice, balance, charged, refunded, earned, drops>>,
           status' \in [Visits -> VisitState], VisitsMove,
           \/ End(p)
           \/ /\ \E step \in Steps \ {"insertPayment"} : Goto(p, step)
              /\ RequestKnows(p)'
    PROVE  StepInv(p)
PROOF
  <1>1. /\ req' \in ReqType /\ \A q \in Procs \ {p} : req'[q] = req[q]
        /\ req'[p].at # "insertPayment" /\ RequestKnows(p)'
    <2>1. TypeOK
      BY DEF IInv
    <2>2. CASE End(p)
      BY <2>1, <2>2, EndType DEF Idle, Task
    <2> QED BY <2>1, <2>2, GotoType
  <1>2. TypeOK'
    BY <1>1 DEF IInv, TypeOK, ReqType
  <1> QED BY <1>1, <1>2, StatusStep DEF At

\* mark_visit_paid_by_deposit, UPDATE of the visit: the deposit was charged.
LEMMA AcceptDepositStep ==
    ASSUME IInv, NEW p \in Procs, AcceptDeposit(p)
    PROVE  StepInv(p)
PROOF
  <1>1. /\ req[p].at = "acceptDeposit" /\ End(p) /\ MoveVisit(On(p), {"REQUESTED"}, "WAITING_CONFIRM")
        /\ UNCHANGED <<pay, saved, invoice, balance, charged, refunded, earned, drops>>
    BY DEF AcceptDeposit, At, gateway, wallet
  <1>2. On(p) \in Visits /\ TypeOK /\ Funded(On(p))
    BY <1>1, Acting DEF RequestKnows, VisitInv, Funded
  <1>3. status' \in [Visits -> VisitState] /\ VisitsMove
    BY <1>1, <1>2, MoveVisitMoved DEF Promise!Moves, VisitState, Served, Failed
  <1> QED BY <1>1, <1>3, MovesOnly

\* apply_visit_paid, UPDATE of the visit: the payment was received.
LEMMA AcceptPaidStep ==
    ASSUME IInv, NEW p \in Procs, AcceptPaid(p)
    PROVE  StepInv(p)
PROOF
  <1>1. /\ req[p].at = "acceptPaid" /\ End(p) /\ MoveVisit(On(p), {"REQUESTED"}, "WAITING_CONFIRM")
        /\ UNCHANGED <<pay, saved, invoice, balance, charged, refunded, earned, drops>>
    BY DEF AcceptPaid, At, gateway, wallet
  <1>2. On(p) \in Visits /\ TypeOK /\ Funded(On(p))
    BY <1>1, Acting DEF RequestKnows, VisitInv, Funded
  <1>3. status' \in [Visits -> VisitState] /\ VisitsMove
    BY <1>1, <1>2, MoveVisitMoved DEF Promise!Moves, VisitState, Served, Failed
  <1> QED BY <1>1, <1>3, MovesOnly

\* apply_visit_expired, UPDATE of the visit.
LEMMA ExpireVisitStep ==
    ASSUME IInv, NEW p \in Procs, ExpireVisit(p)
    PROVE  StepInv(p)
PROOF
  <1>1. /\ req[p].at = "expireVisit" /\ End(p) /\ MoveVisit(On(p), {"REQUESTED"}, "PAYMENT_EXPIRED")
        /\ UNCHANGED <<pay, saved, invoice, balance, charged, refunded, earned, drops>>
    BY DEF ExpireVisit, At, gateway, wallet
  <1>2. On(p) \in Visits /\ TypeOK
    BY <1>1, Acting DEF RequestKnows, VisitInv, Funded
  <1>3. status' \in [Visits -> VisitState] /\ VisitsMove
    BY <1>1, <1>2, MoveVisitMoved DEF Promise!Moves, VisitState, Served, Failed
  <1> QED BY <1>1, <1>3, MovesOnly

\* cancel of a paid visit: every visit is CANCELED, this one is refunded next.
LEMMA CancelPaidStep ==
    ASSUME IInv, NEW p \in Procs, CancelPaid(p)
    PROVE  StepInv(p)
PROOF
  <1>1. /\ req[p].at = "cancelPaid" /\ Goto(p, "readPaid") /\ CancelEveryVisit
        /\ UNCHANGED <<pay, saved, invoice, balance, charged, refunded, earned, drops>>
    BY DEF CancelPaid, At, gateway, wallet
  <1>2. On(p) \in Visits /\ Booked(On(p)) /\ req[p].payee = 1 /\ TypeOK
    BY <1>1, Acting DEF RequestKnows
  <1>3. status' \in [Visits -> VisitState] /\ VisitsMove
    BY <1>1, <1>2, CancelEveryVisitMoved DEF VisitState
  <1>4. req'[p].at = "readPaid" /\ On(p)' = On(p) /\ req'[p].payee = 1
    BY <1>1, <1>2, GotoType DEF On, Steps
  <1>5. RequestKnows(p)'
    BY <1>1, <1>2, <1>4, CancelEveryVisitMoved DEF RequestKnows, At, Booked, Beyond
  <1> QED BY <1>1, <1>3, <1>5, MovesOnly DEF Steps

\* decline_visit, UPDATE of the visit; the refund follows in any case.
LEMMA DeclineVisitStep ==
    ASSUME IInv, NEW p \in Procs, DeclineVisit(p)
    PROVE  StepInv(p)
PROOF
  <1>1. /\ req[p].at = "decline" /\ Goto(p, "readPaid") /\ MoveVisit(On(p), {"WAITING_CONFIRM"}, "DECLINED")
        /\ UNCHANGED <<pay, saved, invoice, balance, charged, refunded, earned, drops>>
    BY DEF DeclineVisit, At, gateway, wallet
  <1>2. On(p) \in Visits /\ Booked(On(p)) /\ req[p].payee = 1 /\ TypeOK /\ Beyond(On(p))
    BY <1>1, Acting DEF RequestKnows
  <1>3. status' \in [Visits -> VisitState] /\ VisitsMove
    BY <1>1, <1>2, MoveVisitMoved DEF Promise!Moves, VisitState, Served, Failed
  <1>4. req'[p].at = "readPaid" /\ On(p)' = On(p) /\ req'[p].payee = 1
    BY <1>1, <1>2, GotoType DEF On, Steps
  <1>5. RequestKnows(p)'
    BY <1>1, <1>2, <1>4, MoveVisitMoved DEF RequestKnows, At, Booked, Beyond, Promise!Moves, VisitState, Served, Failed
  <1> QED BY <1>1, <1>3, <1>5, MovesOnly DEF Steps

\* complete_visit: the visit is over afterwards, even if the UPDATE hit no row.
LEMMA CompleteVisitStep ==
    ASSUME IInv, NEW p \in Procs, CompleteVisit(p)
    PROVE  StepInv(p)
PROOF
  <1>1. /\ req[p].at = "complete" /\ Goto(p, "readIncome") /\ MoveVisit(On(p), {"CONFIRMED", "IN_PROGRESS"}, "COMPLETED")
        /\ UNCHANGED <<pay, saved, invoice, balance, charged, refunded, earned, drops>>
    BY DEF CompleteVisit, At, gateway, wallet
  <1>2. On(p) \in Visits /\ Booked(On(p)) /\ req[p].payee = 1 /\ TypeOK /\ Delivered(On(p)) /\ VisitInv(On(p))
    BY <1>1, Acting DEF RequestKnows
  <1>3. status' \in [Visits -> VisitState] /\ VisitsMove
    <2>1. status[On(p)] \in {"CONFIRMED", "IN_PROGRESS"} => Funded(On(p))
      BY <1>2 DEF VisitInv, Served
    <2> QED BY <1>1, <1>2, <2>1, MoveVisitMoved DEF Promise!Moves, VisitState, Served, Failed
  <1>4. req'[p].at = "readIncome" /\ On(p)' = On(p) /\ req'[p].payee = 1
    BY <1>1, <1>2, GotoType DEF On, Steps
  <1>5. RequestKnows(p)'
    <2>1. status'[On(p)] \in Over
      BY <1>1, <1>2 DEF MoveVisit, Delivered, Over, TypeOK
    <2> QED BY <1>1, <1>4, <2>1, <1>2 DEF RequestKnows, At, Booked, Over
  <1> QED BY <1>1, <1>3, <1>5, MovesOnly DEF Steps

\* admin_force_cancel: the visit is CANCELED, from whatever status.
LEMMA ForceCancelVisitStep ==
    ASSUME IInv, NEW p \in Procs, ForceCancelVisit(p)
    PROVE  StepInv(p)
PROOF
  <1>1. /\ req[p].at # "idle" /\ status' = [status EXCEPT ![On(p)] = "CANCELED"]
        /\ \/ req[p].at = "forceCancelRefund" /\ Goto(p, "readPaid")
           \/ End(p)
        /\ UNCHANGED <<pay, saved, invoice, balance, charged, refunded, earned, drops>>
    BY DEF ForceCancelVisit, At, gateway, wallet
  <1>2. On(p) \in Visits /\ Booked(On(p)) /\ TypeOK /\ RequestKnows(p)
    BY <1>1, Acting
  <1>3. status' \in [Visits -> VisitState] /\ VisitsMove
    <2> DEFINE group == {On(p)}
    <2>1. status' = [v \in Visits |-> IF v \in group THEN "CANCELED" ELSE status[v]]
      BY <1>1, <1>2 DEF TypeOK
    <2> QED BY <1>2, <2>1 DEF TypeOK, VisitsMove, Booked, VisitState, Failed
  <1>4. CASE req[p].at = "forceCancelRefund" /\ Goto(p, "readPaid")
    <2>1. req'[p].at = "readPaid" /\ On(p)' = On(p) /\ req'[p].payee = 1
      BY <1>2, <1>4, GotoType DEF On, Steps, RequestKnows
    <2>2. RequestKnows(p)'
      BY <1>1, <1>2, <2>1 DEF RequestKnows, At, Booked, Beyond, TypeOK
    <2> QED BY <1>1, <1>3, <1>4, <2>2, MovesOnly DEF Steps
  <1> QED BY <1>1, <1>3, <1>4, MovesOnly

\* Confirm, start and reveal run between no two statements of a request.
LEMMA UstadzStep ==
    ASSUME VisitSettlementAssumption, IInv, NEW v \in Visits,
           ConfirmVisit(v) \/ StartVisit(v) \/ RevealReviews(v)
    PROVE  StepInv(Worker)
PROOF
  <1>1. /\ VisitInv(v) /\ TypeOK /\ RequestKnows(Worker)
        /\ UNCHANGED <<pay, saved, invoice, balance, charged, refunded, earned, req, drops>>
    BY DEF ConfirmVisit, StartVisit, RevealReviews, gateway, wallet, IInv
  <1>2. status' \in [Visits -> VisitState] /\ VisitsMove
    <2>1. status[v] \in Served => Funded(v)
      BY <1>1 DEF VisitInv
    <2>2. CASE ConfirmVisit(v)
      BY <1>1, <2>1, <2>2, MoveVisitMoved DEF ConfirmVisit, Promise!Moves, VisitState, Served, Failed
    <2>3. CASE StartVisit(v)
      BY <1>1, <2>1, <2>3, MoveVisitMoved DEF StartVisit, Promise!Moves, VisitState, Served, Failed
    <2>4. CASE RevealReviews(v)
      BY <1>1, <2>1, <2>4, MoveVisitMoved DEF RevealReviews, Promise!Moves, VisitState, Served, Failed
    <2> QED BY <2>2, <2>3, <2>4
  <1>3. TypeOK'
    BY <1>1, <1>2 DEF TypeOK
  <1>4. \A w \in Visits : Grows(w)
    BY <1>1, <1>2, EachMoved DEF TypeOK, Moved, Promise!Moves, Grows, Booked, Beyond, Delivered, Over, Received, Funded
  <1>5. RequestKnows(Worker)'
    BY <1>1, <1>4, KnowsIsStable
  <1> QED BY <1>1, <1>2, <1>3, <1>5, StatusStep DEF At

\* job_confirm_timeout, one visit: declined, and refunded next.
LEMMA ConfirmTimeoutStep ==
    ASSUME VisitSettlementAssumption, IInv, NEW v \in Visits, ConfirmTimeout(v)
    PROVE  StepInv(Worker)
PROOF
  <1>1. /\ VisitInv(v) /\ TypeOK /\ status[v] = "WAITING_CONFIRM"
        /\ MoveVisit(v, {"WAITING_CONFIRM"}, "DECLINED") /\ Begin(Worker, v, "readPaid")
        /\ UNCHANGED <<pay, saved, invoice, balance, charged, refunded, earned, drops>>
    BY DEF ConfirmTimeout, gateway, wallet, IInv
  <1>2. /\ status' \in [Visits -> VisitState] /\ VisitsMove
        /\ status'[v] = "DECLINED"
    BY <1>1, MoveVisitMoved DEF Promise!Moves, VisitState, Served, Failed
  <1>3. /\ req' \in ReqType /\ \A q \in Procs \ {Worker} : req'[q] = req[q]
        /\ req'[Worker].at = "readPaid" /\ req'[Worker].visit = v /\ req'[Worker].payee = 1
    BY <1>1, BeginType DEF Steps
  <1>4. TypeOK'
    BY <1>1, <1>2, <1>3 DEF TypeOK, ReqType
  <1>5. RequestKnows(Worker)'
    BY <1>2, <1>3 DEF RequestKnows, At, On, Booked, Beyond
  <1> QED BY <1>1, <1>2, <1>3, <1>4, <1>5, StatusStep DEF At

\* job_payment_poll takes up a payment with a saved invoice.
LEMMA PollPaymentStep ==
    ASSUME VisitSettlementAssumption, IInv, NEW v \in Visits, PollPayment(v)
    PROVE  StepInv(Worker)
PROOF
  <1>1. /\ VisitInv(v) /\ TypeOK /\ pay[v] = "PENDING" /\ saved[v] # NoInvoice
        /\ req' = [req EXCEPT ![Worker] = Task("pollInvoice", v, saved[v])]
        /\ UNCHANGED <<status, pay, saved, invoice, balance, charged, refunded, earned, drops>>
    BY DEF PollPayment, gateway, wallet, IInv
  <1>2. /\ req' \in ReqType /\ \A q \in Procs \ {Worker} : req'[q] = req[q]
        /\ req'[Worker] = Task("pollInvoice", v, saved[v]) /\ saved[v] \in Invoices
    BY <1>1 DEF TypeOK, ReqType, Task, Steps
  <1>3. TypeOK'
    BY <1>1, <1>2 DEF TypeOK, ReqType
  <1>4. RequestKnows(Worker)'
    BY <1>1, <1>2 DEF RequestKnows, At, On, Booked, Task, VisitInv
  <1>5. ~At(Worker, "insertPayment")' /\ VisitsMove
    BY <1>1, <1>2 DEF VisitsMove, At, Task
  <1> QED BY <1>1, <1>2, <1>3, <1>4, <1>5, StatusStep

-----------------------------------------------------------------------------
(* Statements that write payments *)

\* The moves of a payment that exists, each under its condition.
Closed(v) ==
    \/ pay'[v] = pay[v]
    \/ pay[v] = "PENDING" /\ pay'[v] = "EXPIRED"
    \/ pay[v] = "PENDING" /\ pay'[v] = "PAID" /\ Funded(v)
    \/ Received(v) /\ pay'[v] = "REFUNDED"

\* Statements that write no row but the payment, and decide it once.
LEMMA PaymentStep ==
    ASSUME IInv, NEW p \in Procs,
           UNCHANGED <<status, saved, invoice, balance, charged, refunded, earned, drops>>,
           pay' \in [Visits -> PayState], \A v \in Visits : Closed(v),
           req' \in ReqType, \A q \in Procs \ {p} : req'[q] = req[q],
           req'[p].at # "insertPayment", RequestKnows(p)'
    PROVE  StepInv(p)
PROOF
  <1>1. TypeOK'
    BY DEF IInv, TypeOK, ReqType
  <1>2. ASSUME NEW v \in Visits PROVE Grows(v) /\ VisitInv(v)'
    <2>1. Closed(v) /\ VisitInv(v)
      BY DEF IInv
    <2>2. Grows(v)
      BY <2>1 DEF Closed, Grows, Booked, Beyond, Delivered, Received, Funded
    <2>3. VisitInv(v)'
      BY <2>1, <2>2 DEF Closed, VisitInv, Grows, Booked, Beyond, Received, Funded
    <2> QED BY <2>2, <2>3
  <1>3. ASSUME NEW q \in Procs, At(q, "insertPayment"), pay[On(q)] = "NONE"
        PROVE  pay'[On(q)] = "NONE"
    BY <1>3, Acting DEF At, Closed, Received
  <1>4. InsertedOnce'
    BY <1>3, InsertedOnceIsStable DEF IInv, At
  <1>5. Keeps /\ \A v \in Visits : Decided(v)
    BY Stutters DEF Decided, Closed, Received
  <1> QED BY <1>1, <1>2, <1>4, <1>5 DEF StepInv

\* The guarded UPDATE of a payment decides one that was PENDING, or none.
LEMMA ClosePendingClosed ==
    ASSUME TypeOK, NEW v \in Visits, NEW new \in {"PAID", "EXPIRED"}, ClosePending(v, new),
           new = "PAID" => Funded(v)
    PROVE  /\ pay' \in [Visits -> PayState]
           /\ \A w \in Visits : Closed(w)
           /\ pay'[v] = IF pay[v] = "PENDING" THEN new ELSE pay[v]
  BY DEF TypeOK, ClosePending, Closed, PayState

\* mark_visit_paid_by_deposit, UPDATE of the payment: the deposit was charged.
LEMMA MarkDepositStep ==
    ASSUME IInv, NEW p \in Procs, MarkDeposit(p)
    PROVE  StepInv(p)
PROOF
  <1>1. /\ req[p].at = "markDeposit" /\ ClosePending(On(p), "PAID")
        /\ UNCHANGED <<status, saved, invoice, balance, charged, refunded, earned, drops>>
    BY DEF MarkDeposit, At, gateway, wallet
  <1>2. On(p) \in Visits /\ Booked(On(p)) /\ req[p].payee = 1 /\ TypeOK /\ charged[On(p)] > 0 /\ Funded(On(p))
    BY <1>1, Acting DEF RequestKnows, Funded
  <1>3. /\ pay' \in [Visits -> PayState] /\ \A w \in Visits : Closed(w)
        /\ pay'[On(p)] = IF pay[On(p)] = "PENDING" THEN "PAID" ELSE pay[On(p)]
    BY <1>1, <1>2, ClosePendingClosed
  <1>4. CASE End(p)
    BY <1>1, <1>2, <1>3, <1>4, EndType, PaymentStep DEF Idle, Task
  <1>5. ASSUME NEW step \in {"acceptDeposit"}, Goto(p, step)
        PROVE  StepInv(p)
    <2>1. /\ req'[p].at = step /\ On(p)' = On(p) /\ req'[p].payee = 1
          /\ req' \in ReqType /\ \A q \in Procs \ {p} : req'[q] = req[q]
      BY <1>2, <1>5, GotoType DEF On, Steps
    <2>2. RequestKnows(p)'
      BY <1>1, <1>2, <1>3, <1>5, <2>1 DEF RequestKnows, At, Booked, Funded
    <2> QED BY <1>1, <1>3, <1>5, <2>1, <2>2, PaymentStep
  <1> QED BY <1>4, <1>5 DEF MarkDeposit

\* apply_visit_paid, UPDATE of the payment: the gateway has the money.
LEMMA MarkPaidStep ==
    ASSUME IInv, NEW p \in Procs, MarkPaid(p)
    PROVE  StepInv(p)
PROOF
  <1>1. /\ req[p].at = "markPaid" /\ ClosePending(On(p), "PAID")
        /\ UNCHANGED <<status, saved, invoice, balance, charged, refunded, earned, drops>>
    BY DEF MarkPaid, At, gateway, wallet
  <1>2. On(p) \in Visits /\ Booked(On(p)) /\ req[p].payee = 1 /\ TypeOK /\ Funded(On(p))
    BY <1>1, Acting DEF RequestKnows, Funded
  <1>3. /\ pay' \in [Visits -> PayState] /\ \A w \in Visits : Closed(w)
        /\ pay'[On(p)] = IF pay[On(p)] = "PENDING" THEN "PAID" ELSE pay[On(p)]
    BY <1>1, <1>2, ClosePendingClosed
  <1>4. CASE End(p)
    BY <1>1, <1>2, <1>3, <1>4, EndType, PaymentStep DEF Idle, Task
  <1>5. ASSUME NEW step \in {"readVisit", "rereadPayment"}, Goto(p, step),
               step = "readVisit" => pay[On(p)] = "PENDING"
        PROVE  StepInv(p)
    <2>1. /\ req'[p].at = step /\ On(p)' = On(p) /\ req'[p].payee = 1
          /\ req' \in ReqType /\ \A q \in Procs \ {p} : req'[q] = req[q]
      BY <1>2, <1>5, GotoType DEF On, Steps
    <2>2. RequestKnows(p)'
      BY <1>1, <1>2, <1>3, <1>5, <2>1 DEF RequestKnows, At, Booked, Funded, Received
    <2> QED BY <1>1, <1>3, <1>5, <2>1, <2>2, PaymentStep
  <1> QED BY <1>4, <1>5 DEF MarkPaid

\* apply_visit_expired, UPDATE of the payment, and whether to go on.
LEMMA MarkExpiredStep ==
    ASSUME IInv, NEW p \in Procs, MarkExpired(p)
    PROVE  StepInv(p)
PROOF
  <1>1. /\ req[p].at = "markExpired" /\ ClosePending(On(p), "EXPIRED")
        /\ UNCHANGED <<status, saved, invoice, balance, charged, refunded, earned, drops>>
    BY DEF MarkExpired, At, gateway, wallet
  <1>2. On(p) \in Visits /\ Booked(On(p)) /\ req[p].payee = 1 /\ TypeOK
    BY <1>1, Acting DEF RequestKnows, Funded
  <1>3. /\ pay' \in [Visits -> PayState] /\ \A w \in Visits : Closed(w)
        /\ pay'[On(p)] = IF pay[On(p)] = "PENDING" THEN "EXPIRED" ELSE pay[On(p)]
    BY <1>1, <1>2, ClosePendingClosed
  <1>4. CASE End(p)
    BY <1>1, <1>2, <1>3, <1>4, EndType, PaymentStep DEF Idle, Task
  <1>5. ASSUME NEW step \in {"expireVisit"}, Goto(p, step)
        PROVE  StepInv(p)
    <2>1. /\ req'[p].at = step /\ On(p)' = On(p) /\ req'[p].payee = 1
          /\ req' \in ReqType /\ \A q \in Procs \ {p} : req'[q] = req[q]
      BY <1>2, <1>5, GotoType DEF On, Steps
    <2>2. RequestKnows(p)'
      BY <1>1, <1>2, <1>3, <1>5, <2>1 DEF RequestKnows, At, Booked
    <2> QED BY <1>1, <1>3, <1>5, <2>1, <2>2, PaymentStep
  <1> QED BY <1>4, <1>5 DEF MarkExpired

\* apply_visit_paid, the unguarded UPDATE to REFUNDED of a received payment.
LEMMA LateMarkStep ==
    ASSUME IInv, NEW p \in Procs, LateMark(p)
    PROVE  StepInv(p)
PROOF
  <1>1. /\ req[p].at = "lateMark" /\ pay' = [pay EXCEPT ![On(p)] = "REFUNDED"] /\ End(p)
        /\ UNCHANGED <<status, saved, invoice, balance, charged, refunded, earned, drops>>
    BY DEF LateMark, At, gateway, wallet
  <1>2. On(p) \in Visits /\ TypeOK /\ Received(On(p))
    BY <1>1, Acting DEF RequestKnows
  <1>3. pay' \in [Visits -> PayState] /\ \A w \in Visits : Closed(w)
    BY <1>1, <1>2 DEF TypeOK, Closed, PayState
  <1> QED BY <1>1, <1>2, <1>3, EndType, PaymentStep DEF Idle, Task

\* refund_visit_to_deposit, the unguarded UPDATE to REFUNDED of a received payment.
LEMMA RefundMarkStep ==
    ASSUME IInv, NEW p \in Procs, RefundMark(p)
    PROVE  StepInv(p)
PROOF
  <1>1. /\ req[p].at = "refundMark" /\ pay' = [pay EXCEPT ![On(p)] = "REFUNDED"] /\ End(p)
        /\ UNCHANGED <<status, saved, invoice, balance, charged, refunded, earned, drops>>
    BY DEF RefundMark, At, gateway, wallet
  <1>2. On(p) \in Visits /\ TypeOK /\ Received(On(p))
    BY <1>1, Acting DEF RequestKnows
  <1>3. pay' \in [Visits -> PayState] /\ \A w \in Visits : Closed(w)
    BY <1>1, <1>2 DEF TypeOK, Closed, PayState
  <1> QED BY <1>1, <1>2, <1>3, EndType, PaymentStep DEF Idle, Task

\* The unpaid cancel writes the payment and every visit.
LEMMA CancelUnpaidStep ==
    ASSUME IInv, NEW p \in Procs, CancelUnpaid(p)
    PROVE  StepInv(p)
PROOF
  <1>1. /\ req[p].at = "cancelUnpaid" /\ ClosePending(On(p), "EXPIRED") /\ CancelEveryVisit /\ End(p)
        /\ UNCHANGED <<saved, invoice, balance, charged, refunded, earned, drops>>
    BY DEF CancelUnpaid, At, gateway, wallet
  <1>2. On(p) \in Visits /\ TypeOK
    BY <1>1, Acting
  <1>3. /\ pay' \in [Visits -> PayState] /\ status' \in [Visits -> VisitState]
        /\ VisitsMove /\ \A w \in Visits : Closed(w) /\ Moved(w)
    BY <1>1, <1>2, ClosePendingClosed, CancelEveryVisitMoved, EachMoved DEF TypeOK
  <1>4. TypeOK'
    BY <1>1, <1>2, <1>3, EndType DEF TypeOK, ReqType
  <1>5. ASSUME NEW v \in Visits PROVE Grows(v) /\ VisitInv(v)'
    <2>1. Closed(v) /\ Moved(v) /\ VisitInv(v)
      BY <1>3 DEF IInv
    <2>2. Grows(v)
      BY <1>1, <2>1 DEF Closed, Moved, Promise!Moves, Grows, Booked, Beyond, Delivered, Over, Received, Funded
    <2>3. VisitInv(v)'
      BY <1>1, <2>1, <2>2 DEF Closed, Moved, Promise!Moves, VisitInv, Grows, Booked, Beyond, Over,
                              Served, Received, Funded
    <2> QED BY <2>2, <2>3
  <1>6. ASSUME NEW q \in Procs, At(q, "insertPayment"), pay[On(q)] = "NONE"
        PROVE  pay'[On(q)] = "NONE"
    BY <1>3, <1>6, Acting DEF At, Closed, Received
  <1>7. InsertedOnce'
    BY <1>1, <1>2, <1>6, EndType, InsertedOnceIsStable DEF IInv, At, Idle, Task
  <1>8. Keeps /\ \A v \in Visits : Decided(v)
    BY <1>1, <1>3, MovesKeep DEF Decided, Closed, Received
  <1> QED BY <1>1, <1>2, <1>4, <1>5, <1>7, <1>8, EndType DEF StepInv

-----------------------------------------------------------------------------
(* Statements that write the ledger or the gateway's invoices *)

\* Statements that write the ledger or an invoice, but no status and no payment.
LEMMA LedgerStep ==
    ASSUME IInv, NEW p \in Procs, UNCHANGED <<status, pay>>,
           \A v \in Visits : VisitInv(v)' /\ (Funded(v) => Funded(v)')
                              /\ (charged[v] > 0 => charged'[v] > 0),
           TypeOK', \A q \in Procs \ {p} : req'[q] = req[q],
           At(p, "insertPayment")' => req'[p] = req[p], RequestKnows(p)', Keeps
    PROVE  StepInv(p)
PROOF
  <1>1. \A v \in Visits : Grows(v) /\ Decided(v)
    BY DEF Grows, Booked, Beyond, Delivered, Received, Decided
  <1>2. InsertedOnce'
    BY InsertedOnceIsStable DEF IInv, At
  <1> QED BY <1>1, <1>2 DEF StepInv

\* wallet::debit of a visit: never below zero, and the visit is funded afterwards.
LEMMA DebitStep ==
    ASSUME VisitSettlementAssumption, IInv, NEW p \in Procs, Debit(p)
    PROVE  StepInv(p)
PROOF
  <1> DEFINE u == Owner[On(p)]
  <1>1. /\ req[p].at = "debit"
        /\ UNCHANGED <<status, pay, saved, invoice, refunded, earned, drops>>
    BY DEF Debit, At, gateway
  <1>2. /\ On(p) \in Visits /\ Booked(On(p)) /\ req[p].payee = 1 /\ TypeOK
        /\ u \in Users /\ Price \in Nat \ {0}
    BY <1>1, Acting DEF RequestKnows, VisitSettlementAssumption
  <1>3. CASE End(p) /\ UNCHANGED <<balance, charged>>
    <2>1. UNCHANGED <<status, pay, saved, invoice, balance, charged, refunded, earned, drops>>
      BY <1>1, <1>3
    <2>2. /\ req' \in ReqType /\ \A q \in Procs \ {p} : req'[q] = req[q]
          /\ req'[p].at # "insertPayment" /\ RequestKnows(p)'
      BY <1>2, <1>3, EndType DEF Idle, Task
    <2> QED BY <1>1, <2>1, <2>2, ReadsOnly
  <1>4. CASE /\ balance[u] >= Price
             /\ balance' = [balance EXCEPT ![u] = @ - Price]
             /\ charged' = [charged EXCEPT ![On(p)] = @ + Price]
             /\ Goto(p, "markDeposit")
    <2>1. /\ req'[p].at = "markDeposit" /\ On(p)' = On(p) /\ req'[p].payee = 1
          /\ req' \in ReqType /\ \A q \in Procs \ {p} : req'[q] = req[q]
      BY <1>2, <1>4, GotoType DEF On, Steps
    <2>2. balance' \in [Users -> Nat] /\ charged' \in [Visits -> Nat]
      BY <1>2, <1>4 DEF TypeOK
    <2>3. charged'[On(p)] > 0 /\ \A v \in Visits \ {On(p)} : charged'[v] = charged[v]
      <3>1. charged \in [Visits -> Nat] /\ charged[On(p)] \in Nat
        BY <1>2 DEF TypeOK
      <3>2. charged'[On(p)] = charged[On(p)] + Price
        BY <1>2, <1>4, <3>1
      <3> QED BY <1>2, <1>4, <3>1, <3>2
    <2>4. TypeOK'
      BY <1>1, <1>2, <2>1, <2>2 DEF TypeOK, ReqType
    <2>5. RequestKnows(p)'
      BY <1>1, <1>2, <2>1, <2>3 DEF RequestKnows, At, Booked
    <2>6. ASSUME NEW v \in Visits
          PROVE  VisitInv(v)' /\ (Funded(v) => Funded(v)') /\ (charged[v] > 0 => charged'[v] > 0)
      <3>1. charged[v] \in Nat /\ charged'[v] \in Nat /\ VisitInv(v)
        BY <1>2, <2>2 DEF TypeOK, IInv
      <3> QED BY <1>1, <1>2, <2>3, <3>1 DEF VisitInv, Booked, Beyond, Received, Funded
    <2>7. Keeps
      <3>1. ASSUME NEW v \in Visits, v = On(p) PROVE Funded(v)' = TRUE
        BY <2>3, <3>1 DEF Funded
      <3>2. \A v \in Visits \ {On(p)} : Funded(v)' = Funded(v)
        BY <1>1, <2>3 DEF Funded
      <3>3. [v \in Visits |-> Funded(v)]' = [[v \in Visits |-> Funded(v)] EXCEPT ![On(p)] = TRUE]
        BY <1>2, <3>1, <3>2
      <3>4. Promise!Fund(On(p))
        BY <1>1, <1>2, <3>3 DEF Promise!Fund, Booked
      <3> QED BY <1>2, <3>4, FundKeeps
    <2> QED BY <1>1, <2>1, <2>4, <2>5, <2>6, <2>7, LedgerStep DEF At
  <1> QED BY <1>3, <1>4 DEF Debit

\* apply_visit_paid, credit of money that came late: it was received, the visit is beyond.
LEMMA LateCreditStep ==
    ASSUME VisitSettlementAssumption, IInv, NEW p \in Procs, LateCredit(p)
    PROVE  StepInv(p)
PROOF
  <1>1. /\ req[p].at = "lateCredit" /\ Goto(p, "lateMark") /\ CreditRefund(On(p))
        /\ UNCHANGED <<status, pay, saved, invoice, charged, earned, drops>>
    BY DEF LateCredit, CreditRefund, At, gateway
  <1>2. /\ On(p) \in Visits /\ Booked(On(p)) /\ req[p].payee = 1 /\ TypeOK
        /\ Received(On(p)) /\ Beyond(On(p)) /\ Funded(On(p))
        /\ Owner[On(p)] \in Users /\ Price \in Nat \ {0}
    BY <1>1, Acting DEF RequestKnows, VisitInv, VisitSettlementAssumption
  <1>3. /\ req'[p].at = "lateMark" /\ On(p)' = On(p) /\ req'[p].payee = 1
        /\ req' \in ReqType /\ \A q \in Procs \ {p} : req'[q] = req[q]
    BY <1>1, <1>2, GotoType DEF On, Steps
  <1>4. /\ balance' \in [Users -> Nat] /\ refunded' \in [Visits -> Nat]
        /\ \A v \in Visits \ {On(p)} : refunded'[v] = refunded[v]
        /\ refunded'[On(p)] > 0
    <2>1. refunded \in [Visits -> Nat] /\ refunded[On(p)] \in Nat
      BY <1>2 DEF TypeOK
    <2>2. refunded' = [refunded EXCEPT ![On(p)] = refunded[On(p)] + Price]
      BY <1>1 DEF CreditRefund
    <2>3. balance' \in [Users -> Nat]
      BY <1>1, <1>2 DEF CreditRefund, TypeOK
    <2> QED BY <1>2, <2>1, <2>2, <2>3
  <1>5. TypeOK'
    BY <1>1, <1>2, <1>3, <1>4 DEF TypeOK, ReqType
  <1>6. RequestKnows(p)'
    BY <1>1, <1>2, <1>3 DEF RequestKnows, At, Booked, Beyond, Received
  <1>7. ASSUME NEW v \in Visits
        PROVE  VisitInv(v)' /\ (Funded(v) => Funded(v)')
    BY <1>1, <1>2, <1>4 DEF IInv, VisitInv, Booked, Beyond, Received, Funded
  <1>8. Keeps
    BY <1>1, <1>2, <1>4, ReturnKeeps
  <1> QED BY <1>1, <1>3, <1>5, <1>6, <1>7, <1>8, LedgerStep DEF At

\* refund_visit_to_deposit, credit of the refund: the payment was received.
LEMMA RefundCreditStep ==
    ASSUME VisitSettlementAssumption, IInv, NEW p \in Procs, RefundCredit(p)
    PROVE  StepInv(p)
PROOF
  <1>1. /\ req[p].at = "refundCredit" /\ Goto(p, "refundMark") /\ CreditRefund(On(p))
        /\ UNCHANGED <<status, pay, saved, invoice, charged, earned, drops>>
    BY DEF RefundCredit, CreditRefund, At, gateway
  <1>2. /\ On(p) \in Visits /\ Booked(On(p)) /\ req[p].payee = 1 /\ TypeOK
        /\ Received(On(p)) /\ Beyond(On(p)) /\ Funded(On(p))
        /\ Owner[On(p)] \in Users /\ Price \in Nat \ {0}
    BY <1>1, Acting DEF RequestKnows, VisitInv, VisitSettlementAssumption
  <1>3. /\ req'[p].at = "refundMark" /\ On(p)' = On(p) /\ req'[p].payee = 1
        /\ req' \in ReqType /\ \A q \in Procs \ {p} : req'[q] = req[q]
    BY <1>1, <1>2, GotoType DEF On, Steps
  <1>4. /\ balance' \in [Users -> Nat] /\ refunded' \in [Visits -> Nat]
        /\ \A v \in Visits \ {On(p)} : refunded'[v] = refunded[v]
        /\ refunded'[On(p)] > 0
    <2>1. refunded \in [Visits -> Nat] /\ refunded[On(p)] \in Nat
      BY <1>2 DEF TypeOK
    <2>2. refunded' = [refunded EXCEPT ![On(p)] = refunded[On(p)] + Price]
      BY <1>1 DEF CreditRefund
    <2>3. balance' \in [Users -> Nat]
      BY <1>1, <1>2 DEF CreditRefund, TypeOK
    <2> QED BY <1>2, <2>1, <2>2, <2>3
  <1>5. TypeOK'
    BY <1>1, <1>2, <1>3, <1>4 DEF TypeOK, ReqType
  <1>6. RequestKnows(p)'
    BY <1>1, <1>2, <1>3 DEF RequestKnows, At, Booked, Beyond, Received
  <1>7. ASSUME NEW v \in Visits
        PROVE  VisitInv(v)' /\ (Funded(v) => Funded(v)')
    BY <1>1, <1>2, <1>4 DEF IInv, VisitInv, Booked, Beyond, Received, Funded
  <1>8. Keeps
    BY <1>1, <1>2, <1>4, ReturnKeeps
  <1> QED BY <1>1, <1>3, <1>5, <1>6, <1>7, <1>8, LedgerStep DEF At

\* An element of a sequence over S is in S.
LEMMA ElementOf ==
    ASSUME NEW S, NEW q \in Seq(S), NEW n \in 1..Len(q)
    PROVE  q[n] \in S
  OBVIOUS

\* earn_visit_income, credit of one share: paid, and the visit is over.
LEMMA CreditShareStep ==
    ASSUME VisitSettlementAssumption, IInv, NEW p \in Procs, CreditShare(p)
    PROVE  StepInv(p)
PROOF
  <1> DEFINE u == PayeeOf(On(p), req[p].payee)
             s == Payees[req[p].payee].share
  <1>1. /\ req[p].at = "creditShare" /\ NextShare(p)
        /\ balance' = [balance EXCEPT ![u] = @ + s]
        /\ earned'  = [earned EXCEPT ![u][On(p)] = @ + s]
        /\ UNCHANGED <<status, pay, saved, invoice, charged, refunded, drops>>
    BY DEF CreditShare, At, gateway
  <1>2. /\ On(p) \in Visits /\ Booked(On(p)) /\ req[p].payee \in 1..Len(Payees) /\ TypeOK
        /\ status[On(p)] \in Over /\ Received(On(p)) /\ Funded(On(p)) /\ u \in Users /\ s > 0
    BY <1>1, Acting DEF RequestKnows, VisitInv
  <1>3. s \in Nat
    <2>1. Payees[req[p].payee] \in [to : Users \cup {"USTADZ", "PLATFORM"}, share : Int]
      BY <1>2, ElementOf DEF VisitSettlementAssumption
    <2> QED BY <1>2, <2>1
  <1> HIDE DEF u, s
  <1>4. /\ balance' \in [Users -> Nat] /\ earned' \in [Users -> [Visits -> Nat]]
        /\ \A w \in Users, v \in Visits \ {On(p)} : earned'[w][v] = earned[w][v]
        /\ earned'[u][On(p)] > 0
    <2>1. /\ balance[u] \in Nat /\ balance \in [Users -> Nat]
          /\ earned[u][On(p)] \in Nat /\ earned \in [Users -> [Visits -> Nat]]
      BY <1>2 DEF TypeOK
    <2>2. balance[u] + s \in Nat /\ earned[u][On(p)] + s \in Nat
      BY <1>3, <2>1
    <2>3. earned' = [earned EXCEPT ![u] = [earned[u] EXCEPT ![On(p)] = earned[u][On(p)] + s]]
      BY <1>1
    <2>4. balance' \in [Users -> Nat]
      BY <1>1, <1>2, <2>1, <2>2
    <2>5. [earned[u] EXCEPT ![On(p)] = earned[u][On(p)] + s] \in [Visits -> Nat]
      BY <1>2, <2>1, <2>2
    <2>6. earned' \in [Users -> [Visits -> Nat]]
      BY <1>2, <2>1, <2>3, <2>5
    <2>7. earned'[u] = [earned[u] EXCEPT ![On(p)] = earned[u][On(p)] + s]
      BY <1>2, <2>1, <2>3
    <2>8. earned'[u][On(p)] > 0
      BY <1>2, <1>3, <2>1, <2>7
    <2> QED BY <1>2, <2>1, <2>3, <2>4, <2>6, <2>8
  <1>5. /\ req' \in ReqType /\ \A q \in Procs \ {p} : req'[q] = req[q]
        /\ req'[p].at # "insertPayment" /\ RequestKnows(p)'
    <2>1. CASE End(p)
      BY <1>2, <2>1, EndType DEF Idle, Task
    <2>2. CASE ~End(p)
      <3>1. /\ req' \in ReqType /\ \A q \in Procs \ {p} : req'[q] = req[q]
            /\ req'[p].at = "checkShare" /\ On(p)' = On(p) /\ req'[p].payee \in 1..Len(Payees)
        BY <1>1, <1>2, <2>2, NextShareType
      <3> QED BY <1>1, <1>2, <3>1 DEF RequestKnows, At, Booked, Received
    <2> QED BY <2>1, <2>2
  <1>6. TypeOK'
    BY <1>1, <1>2, <1>4, <1>5 DEF TypeOK, ReqType
  <1>7. ASSUME NEW v \in Visits
        PROVE  VisitInv(v)' /\ (Funded(v) => Funded(v)')
    BY <1>1, <1>2, <1>4 DEF IInv, VisitInv, Booked, Beyond, Received, Funded
  <1>8. Keeps
    BY <1>1, <1>2, <1>4, EarnKeeps
  <1> QED BY <1>1, <1>5, <1>6, <1>7, <1>8, LedgerStep DEF At

\* create_visit_invoice, POST of an invoice: only for a booked visit.
LEMMA IssueInvoiceStep ==
    ASSUME IInv, NEW p \in Procs, IssueInvoice(p)
    PROVE  StepInv(p)
PROOF
  <1>1. /\ req[p].at = "issueInvoice"
        /\ UNCHANGED <<status, pay, saved, balance, charged, refunded, earned, drops>>
    BY DEF IssueInvoice, At, wallet
  <1>2. On(p) \in Visits /\ Booked(On(p)) /\ req[p].payee = 1 /\ TypeOK
    BY <1>1, Acting DEF RequestKnows
  <1>3. CASE End(p) /\ UNCHANGED invoice
    BY <1>1, <1>2, <1>3, EndType, ReadsOnly DEF Idle, Task
  <1>4. ASSUME NEW i \in Invoices, invoice[On(p)][i] = "NONE",
               invoice' = [invoice EXCEPT ![On(p)][i] = "PENDING"],
               \/ req' = [req EXCEPT ![p].at = "saveInvoice", ![p].inv = i]
               \/ End(p)
        PROVE  StepInv(p)
    <2>1. /\ req' \in ReqType /\ \A q \in Procs \ {p} : req'[q] = req[q]
          /\ req'[p].at # "insertPayment" /\ RequestKnows(p)'
      <3>1. CASE req' = [req EXCEPT ![p].at = "saveInvoice", ![p].inv = i]
        <4>1. /\ req' \in ReqType /\ \A q \in Procs \ {p} : req'[q] = req[q]
              /\ req'[p].at = "saveInvoice" /\ On(p)' = On(p) /\ req'[p].payee = 1 /\ req'[p].inv = i
          BY <1>2, <3>1 DEF TypeOK, ReqType, On, Steps
        <4> QED BY <1>1, <1>2, <4>1 DEF RequestKnows, At, Booked
      <3>2. CASE End(p)
        BY <1>2, <3>2, EndType DEF Idle, Task
      <3> QED BY <1>4, <3>1, <3>2
    <2>2. invoice' \in [Visits -> [Invoices -> InvState]]
      BY <1>2, <1>4 DEF TypeOK, InvState
    <2>3. TypeOK'
      BY <1>1, <1>2, <2>1, <2>2 DEF TypeOK, ReqType
    <2>4. ASSUME NEW v \in Visits, NEW j \in Invoices
          PROVE  \/ invoice'[v][j] = invoice[v][j]
                 \/ (v = On(p) /\ j = i /\ invoice'[v][j] = "PENDING")
      <3>1. invoice \in [Visits -> [Invoices -> InvState]]
        BY <1>2 DEF TypeOK
      <3>2. invoice' = [invoice EXCEPT ![On(p)] = [invoice[On(p)] EXCEPT ![i] = "PENDING"]]
        BY <1>4
      <3>3. CASE v = On(p)
        <4>1. invoice'[v] = [invoice[v] EXCEPT ![i] = "PENDING"] /\ invoice[v] \in [Invoices -> InvState]
          BY <3>1, <3>2, <3>3
        <4>2. j # i => invoice'[v][j] = invoice[v][j]
          BY <4>1
        <4>3. invoice'[v][i] = "PENDING"
          BY <4>1
        <4> QED BY <3>3, <4>2, <4>3
      <3>4. CASE v # On(p)
        <4>1. invoice'[v] = invoice[v]
          BY <3>1, <3>2, <3>4
        <4> QED BY <4>1
      <3> QED BY <3>3, <3>4
    <2>5. ASSUME NEW v \in Visits
          PROVE  Funded(v)' = Funded(v) /\ VisitInv(v)'
      <3>1. Funded(v)' = Funded(v)
        BY <1>1, <1>4, <2>4 DEF Funded, Collected
      <3> QED BY <1>1, <1>2, <2>4, <3>1 DEF IInv, VisitInv, Booked, Beyond, Received
    <2>6. Keeps
      <3>1. [v \in Visits |-> Funded(v)]' = [v \in Visits |-> Funded(v)]
        BY <2>5
      <3> QED BY <1>1, <3>1 DEF Keeps, Promise!vars
    <2> QED BY <1>1, <2>1, <2>3, <2>5, <2>6, LedgerStep DEF At
  <1> QED BY <1>3, <1>4 DEF IssueInvoice

\* The gateway collects or expires an open invoice, or settles a paid one.
LEMMA GatewayMovesStep ==
    ASSUME VisitSettlementAssumption, IInv, NEW g \in Visits, NEW i \in Invoices, GatewayMoves(g, i)
    PROVE  StepInv(Worker)
PROOF
  <1>1. PICK new \in InvState :
          /\ <<invoice[g][i], new>> \in {<<"PENDING", "PAID">>, <<"PENDING", "EXPIRED">>, <<"PAID", "SETTLED">>}
          /\ invoice' = [invoice EXCEPT ![g][i] = new]
    BY DEF GatewayMoves
  <1>2. /\ UNCHANGED <<status, pay, saved, balance, charged, refunded, earned, req, drops>>
        /\ TypeOK /\ RequestKnows(Worker)
    BY DEF GatewayMoves, wallet, IInv
  <1>3. TypeOK'
    BY <1>1, <1>2 DEF TypeOK
  <1>4. ASSUME NEW v \in Visits
        PROVE  VisitInv(v)' /\ Grows(v)
    <2>1. \A j \in Invoices :
               \/ invoice'[v][j] = invoice[v][j]
               \/ /\ invoice[v][j] # "NONE"
                  /\ invoice[v][j] \in Collected => invoice'[v][j] \in Collected
      BY <1>1, <1>2 DEF TypeOK, Collected
    <2>2. Funded(v) => Funded(v)'
      BY <1>2, <2>1 DEF Funded
    <2> QED BY <1>2, <2>1, <2>2 DEF IInv, VisitInv, Booked, Beyond, Received, Delivered, Grows
  <1>5. RequestKnows(Worker)'
    BY <1>2, <1>4, KnowsIsStable
  <1>6. \A v \in Visits \ {g} : Funded(v)' = Funded(v)
    BY <1>1, <1>2 DEF Funded, TypeOK
  <1>7. Keeps
    <2>1. CASE Funded(g)' = Funded(g)
      <3>1. [v \in Visits |-> Funded(v)]' = [v \in Visits |-> Funded(v)]
        BY <1>6, <2>1
      <3> QED BY <1>2, <3>1 DEF Keeps, Promise!vars
    <2>2. CASE Funded(g)' # Funded(g)
      <3>1. Funded(g)' = TRUE
        BY <1>4, <2>2 DEF Grows, Funded
      <3>2. [v \in Visits |-> Funded(v)]' = [[v \in Visits |-> Funded(v)] EXCEPT ![g] = TRUE]
        BY <1>6, <3>1
      <3>3. status[g] # "NONE"
        BY <1>1, <1>2 DEF IInv, VisitInv, Booked
      <3>4. Promise!Fund(g)
        BY <1>2, <3>2, <3>3 DEF Promise!Fund
      <3> QED BY <3>4, FundKeeps
    <2> QED BY <2>1, <2>2
  <1> QED BY <1>2, <1>3, <1>4, <1>5, <1>7, LedgerStep DEF At, Grows

-----------------------------------------------------------------------------
(* The invariant and what it means *)

\* Nothing is booked, paid or in flight at first.
LEMMA InitInv ==
    ASSUME VisitSettlementAssumption, Init
    PROVE  IInv
PROOF
  <1>1. TypeOK
    BY DEF VisitSettlementAssumption, Init, TypeOK, VisitState, PayState, InvState, Steps, Idle, Task
  <1>2. \A v \in Visits : VisitInv(v)
    BY DEF Init, VisitInv, Booked, Received, Beyond, Served, Funded
  <1>3. \A p \in Procs : RequestKnows(p)
    BY DEF Init, RequestKnows, At, Idle, Task
  <1>4. InsertedOnce
    BY DEF Init, InsertedOnce, At, Idle, Task
  <1> QED BY <1>1, <1>2, <1>3, <1>4 DEF IInv

\* Every statement of a request does what a step has to.
LEMMA StatementStep ==
    ASSUME VisitSettlementAssumption, IInv, NEW p \in Procs, Step(p)
    PROVE  StepInv(p)
  BY InsertPaymentStep, IssueInvoiceStep, SaveInvoiceStep, CheckInvoiceStep, DebitStep,
     MarkDepositStep, AcceptDepositStep, MarkPaidStep, RereadPaymentStep, ReadVisitStep,
     AcceptPaidStep, LateCreditStep, LateMarkStep, MarkExpiredStep, ExpireVisitStep,
     ReadPaidStep, RefundCreditStep, RefundMarkStep, CancelUnpaidStep, CancelPaidStep,
     DeclineVisitStep, CompleteVisitStep, ForceCancelVisitStep, ReadIncomeStep,
     CheckShareStep, CreditShareStep DEF Step

\* Every step is a step of some process, or of nobody, that StepInv covers.
LEMMA NextStep ==
    ASSUME VisitSettlementAssumption, IInv, Next
    PROVE  \E p \in Procs : StepInv(p)
PROOF
  <1>1. ASSUME NEW p \in Requests, NEW v \in Visits, Arrive(p, v)
        PROVE  StepInv(p) /\ p \in Procs
    BY <1>1, ArriveStep, CreateVisitStep
  <1>2. ASSUME NEW p \in Procs, Step(p) \/ Drop(p)
        PROVE  StepInv(p)
    BY <1>2, StatementStep, DropStep
  <1>3. ASSUME PollInvoice PROVE StepInv(Worker)
    BY <1>3, PollInvoiceStep
  <1>4. ASSUME NEW v \in Visits,
               \/ ConfirmVisit(v) \/ StartVisit(v) \/ RevealReviews(v)
               \/ ConfirmTimeout(v) \/ PollPayment(v)
               \/ \E i \in Invoices : GatewayMoves(v, i)
        PROVE  StepInv(Worker)
    BY <1>4, UstadzStep, ConfirmTimeoutStep, PollPaymentStep, GatewayMovesStep
  <1>5. Worker \in Procs
    OBVIOUS
  <1> QED BY <1>1, <1>2, <1>3, <1>4, <1>5 DEF Next

\* Every step preserves the inductive invariant.
LEMMA NextInv ==
    ASSUME VisitSettlementAssumption, IInv, [Next]_vars
    PROVE  IInv'
PROOF
  <1>1. CASE Next
    BY <1>1, NextStep, StepSuffices
  <1>2. CASE UNCHANGED vars
    <2>1. /\ TypeOK' /\ InsertedOnce'
          /\ \A v \in Visits : VisitInv(v)' /\ Grows(v)
      BY <1>2 DEF vars, IInv, TypeOK, InsertedOnce, At, On, VisitInv, Grows, Booked, Beyond,
                  Delivered, Received, Funded
    <2>2. \A p \in Procs : RequestKnows(p)'
      BY <1>2, <2>1, KnowsIsStable DEF vars, IInv
    <2> QED BY <2>1, <2>2 DEF IInv
  <1> QED BY <1>1, <1>2

\* Whatever the interleaving, every statement finds its visit as the
\* statements before it left it, as far as the request relies on it.
THEOREM Invariant == Spec => []IInv
PROOF
  <1>1. Init => IInv
    BY VisitSettlementAssumption, InitInv
  <1>2. IInv /\ [Next]_vars => IInv'
    BY VisitSettlementAssumption, NextInv
  <1> QED BY <1>1, <1>2, PTL DEF Spec

\* Every row and every request record keeps its type: no wallet goes below
\* zero (wallet::debit).
THEOREM TypeCorrect == Spec => []TypeOK
PROOF
  <1>1. IInv => TypeOK
    BY DEF IInv
  <1> QED BY <1>1, Invariant, PTL

\* A visit that reaches the ustadz has been paid for (apply_visit_paid,
\* mark_visit_paid_by_deposit).
THEOREM Served_Is_Funded == Spec => []ServedIsFunded
PROOF
  <1>1. IInv => ServedIsFunded
    BY DEF IInv, VisitInv, ServedIsFunded
  <1> QED BY <1>1, Invariant, PTL

\* Nobody is credited for a visit whose payment was not received
\* (refund_visit_to_deposit, earn_visit_income).
THEOREM Credits_Are_Funded == Spec => []CreditsAreFunded
PROOF
  <1>1. IInv => CreditsAreFunded
    BY DEF IInv, VisitInv, CreditsAreFunded, Received
  <1> QED BY <1>1, Invariant, PTL

\* Income is credited only for a visit that is over (complete_visit).
THEOREM Earned_Is_Over == Spec => []EarnedIsOver
PROOF
  <1>1. IInv => EarnedIsOver
    BY DEF IInv, VisitInv, EarnedIsOver
  <1> QED BY <1>1, Invariant, PTL

\* A payment is decided once: no UPDATE by row id alone revives an expired
\* payment or pays a refunded one again (LateMark, RefundMark).
THEOREM Payment_Decided_Once == Spec => PaymentDecidedOnce
PROOF
  <1>1. IInv /\ [Next]_vars =>
          [\A v \in Visits : pay'[v] # pay[v] =>
             <<pay[v], pay'[v]>> \in {<<"NONE", "PENDING">>, <<"PENDING", "PAID">>,
                                     <<"PENDING", "EXPIRED">>, <<"PAID", "REFUNDED">>}]_vars
    <2>1. ASSUME IInv, Next, NEW v \in Visits PROVE Decided(v)
      BY <2>1, VisitSettlementAssumption, NextStep DEF StepInv
    <2> QED BY <2>1 DEF Decided
  <1> QED BY <1>1, Invariant, PTL DEF Spec, PaymentDecidedOnce

\* Requests, jobs and gateway together do what the service promises of the
\* money of a visit (VisitPromise).
THEOREM Keeps_Promise == Spec => KeepsPromise
PROOF
  <1>1. Init => Promise!Init
    <2>1. ASSUME Init, NEW v \in Visits
          PROVE  /\ Funded(v) = FALSE
                 /\ (refunded[v] > 0) = FALSE
                 /\ (\E u \in Users : earned[u][v] > 0) = FALSE
      BY <2>1 DEF Init, Funded, Collected
    <2>2. ASSUME Init PROVE [v \in Visits |-> Funded(v)] = [v \in Visits |-> FALSE]
      BY <2>1, <2>2
    <2>3. ASSUME Init PROVE [v \in Visits |-> refunded[v] > 0] = [v \in Visits |-> FALSE]
      BY <2>1, <2>3
    <2>4. ASSUME Init
          PROVE  [v \in Visits |-> \E u \in Users : earned[u][v] > 0] = [v \in Visits |-> FALSE]
      BY <2>1, <2>4
    <2> QED BY <2>2, <2>3, <2>4 DEF Init, Promise!Init
  <1>2. IInv /\ [Next]_vars => [Promise!Next]_(Promise!vars)
    <2>1. ASSUME IInv, Next PROVE Keeps
      BY <2>1, VisitSettlementAssumption, NextStep DEF StepInv
    <2>2. ASSUME UNCHANGED vars PROVE Keeps
      BY <2>2, Stutters DEF vars
    <2> QED BY <2>1, <2>2 DEF Keeps
  <1> QED BY <1>1, <1>2, Invariant, PTL DEF Spec, KeepsPromise, Promise!Spec

-----------------------------------------------------------------------------
(* The refund of a declined visit *)

\* What a step that debits no deposit does to the refund of a visit: the
\* request that owes it keeps owing it, or the payment is no longer PAID.
QuietStep(p) ==
    /\ \A v \in Visits :
          /\ Abandoned(v) => Abandoned(v)'
          /\ refunded'[v] >= refunded[v]
          /\ pay'[v] = "REFUNDED" => pay[v] = "REFUNDED" \/ Settling(p, v)
          /\ Settling(p, v)' => Settling(p, v) \/ refunded'[v] >= Price
          /\ charged'[v] = charged[v]
          /\ Depositing(p, v)' => Depositing(p, v)
          /\ Marking(p, v)' => Marking(p, v)
          /\ Offered(v)' => Offered(v) \/ Received(v) \/ (Depositing(p, v) /\ ~Depositing(p, v)')
          /\ status'[v] = "DECLINED" /\ pay'[v] = "PAID" /\ ~Abandoned(v)' =>
                \/ Refunding(p, v)'
                \/ status[v] = "DECLINED" /\ pay[v] = "PAID" /\ ~Refunding(p, v)
                \/ status[v] = "DECLINED" /\ pay[v] = "PENDING" /\ Marking(p, v)

\* Such a step leaves the refunds in hand.
LEMMA QuietKeeps ==
    ASSUME VisitSettlementAssumption, IInv, RefundInv, NEW p \in Procs, StepInv(p), QuietStep(p)
    PROVE  RefundInv'
PROOF
  <1>1. /\ \A q \in Procs \ {p} : req'[q] = req[q]
        /\ charged \in [Visits -> Nat] /\ Price \in Nat \ {0}
    BY DEF StepInv, IInv, TypeOK, VisitSettlementAssumption
  <1>2. ASSUME NEW v \in Visits
        PROVE  /\ charged'[v] = charged[v] /\ charged[v] \in Nat
               /\ \A q \in Procs : Depositing(q, v)' => Depositing(q, v)
               /\ \A q \in Procs : Marking(q, v)' => Marking(q, v)
               /\ \A q \in Procs \ {p} : Depositing(q, v)' = Depositing(q, v)
               /\ \A q \in Procs \ {p} : Refunding(q, v)' = Refunding(q, v)
    BY <1>1 DEF QuietStep, Depositing, Marking, Refunding, On
  <1>3. ASSUME NEW v \in Visits PROVE DebitsShow(v)'
    BY <1>2 DEF RefundInv, DebitsShow
  <1>4. ASSUME NEW v \in Visits PROVE OfferShows(v)'
    <2>1. Received(v) => Received(v)'
      BY DEF StepInv, Grows
    <2>2. CASE Offered(v) \/ Received(v) \/ ~Offered(v)'
      BY <1>2, <2>1, <2>2 DEF RefundInv, OfferShows
    <2>3. CASE Depositing(p, v) /\ ~Depositing(p, v)'
      <3>1. charged[v] >= Price
        BY <2>3 DEF RefundInv, DebitsShow
      <3>2. ASSUME NEW q \in Procs, Marking(q, v)' PROVE charged[v] > Price
        <4>1. q # p /\ Depositing(q, v)
          BY <1>2, <2>3, <3>2 DEF Marking, Depositing
        <4>2. charged[v] >= 2 * Price
          BY <2>3, <4>1 DEF RefundInv, DebitsShow
        <4> QED BY <1>1, <1>2, <4>2
      <3> QED BY <1>2, <3>1, <3>2 DEF OfferShows
    <2> QED BY <2>2, <2>3 DEF QuietStep
  <1>5. ASSUME NEW v \in Visits PROVE RefundInHand(v)'
    <2> SUFFICES ASSUME status'[v] = "DECLINED", pay'[v] = "PAID", ~Abandoned(v)', charged'[v] <= Price
                 PROVE  \E q \in Procs : Refunding(q, v)'
      BY DEF RefundInHand
    <2>1. CASE Refunding(p, v)'
      BY <2>1
    <2>2. CASE status[v] = "DECLINED" /\ pay[v] = "PAID" /\ ~Refunding(p, v)
      <3>1. PICK q \in Procs : Refunding(q, v)
        BY <1>1, <1>2, <2>2 DEF RefundInv, RefundInHand, QuietStep
      <3> QED BY <1>2, <2>2, <3>1
    <2>3. CASE status[v] = "DECLINED" /\ pay[v] = "PENDING" /\ Marking(p, v)
      <3>1. charged[v] > Price
        BY <2>3 DEF RefundInv, OfferShows, Offered, Received
      <3> QED BY <1>1, <1>2, <3>1
    <2> QED BY <2>1, <2>2, <2>3 DEF QuietStep
  <1>6. ASSUME NEW v \in Visits PROVE MarkShows(v)'
    <2>1. /\ refunded[v] \in Nat /\ refunded'[v] \in Nat
          /\ \A q \in Procs \ {p} : Settling(q, v)' = Settling(q, v)
      BY <1>1 DEF StepInv, IInv, TypeOK, Settling, On
    <2>2. MarkShows(v)
      BY DEF RefundInv
    <2>3. refunded[v] >= Price => refunded'[v] >= Price
      BY <1>1, <2>1 DEF QuietStep
    <2>4. \A q \in Procs : Settling(q, v)' => Settling(q, v) \/ refunded'[v] >= Price
      BY <2>1 DEF QuietStep
    <2>5. pay'[v] = "REFUNDED" => pay[v] = "REFUNDED" \/ Settling(p, v)
      BY DEF QuietStep
    <2> QED BY <2>2, <2>3, <2>4, <2>5 DEF MarkShows
  <1> QED BY <1>3, <1>4, <1>5, <1>6 DEF RefundInv

\* A statement that writes the row of its own visit, or cancels others, and
\* after which the request ends or goes on away from the deposit's debit.
LEMMA QuietRow ==
    ASSUME VisitSettlementAssumption, TypeOK, NEW p \in Procs, NEW w \in Visits, On(p) = w,
           charged' = charged, drops' = drops,
           \/ refunded' = refunded /\ (req'[p] = Idle \/ req'[p].at \notin {"lateMark", "refundMark"})
           \/ CreditRefund(w),
           pay'[w] = "REFUNDED" => pay[w] = "REFUNDED" \/ Settling(p, w),
           req'[p] = Idle \/ (On(p)' = w /\ req'[p].at \notin {"markDeposit", "acceptDeposit"}),
           \A v \in Visits \ {w} : pay'[v] = pay[v] /\ (status'[v] = status[v] \/ ~Offered(v)'),
           Offered(w)' => Offered(w) \/ Received(w) \/ At(p, "acceptDeposit"),
           status'[w] = "DECLINED" /\ pay'[w] = "PAID" =>
              \/ Refunding(p, w)'
              \/ status[w] = "DECLINED" /\ pay[w] = "PAID" /\ ~Refunding(p, w)
    PROVE  QuietStep(p)
PROOF
  <1>1. NoVisit \notin Visits
    BY DEF VisitSettlementAssumption
  <1>2. ASSUME NEW v \in Visits PROVE ~Depositing(p, v)' /\ ~Marking(p, v)'
    BY <1>1 DEF Depositing, Marking, On, Idle, Task
  <1>3. ASSUME NEW v \in Visits \ {w} PROVE ~Refunding(p, v)
    BY DEF Refunding
  <1>4. At(p, "acceptDeposit") => Depositing(p, w)
    BY DEF At, Depositing
  <1>5. ASSUME NEW v \in Visits
        PROVE  /\ refunded'[v] >= refunded[v]
               /\ Settling(p, v)' => refunded'[v] >= Price
    <2>1. refunded \in [Visits -> Nat] /\ Price \in Nat
      BY DEF TypeOK, VisitSettlementAssumption
    <2>2. Settling(p, v)' => v = w /\ req'[p].at \in {"lateMark", "refundMark"}
      BY <1>1 DEF Settling, On, Idle, Task
    <2>3. CASE refunded' = refunded /\ (req'[p] = Idle \/ req'[p].at \notin {"lateMark", "refundMark"})
      BY <2>1, <2>2, <2>3 DEF Idle, Task
    <2>4. CASE CreditRefund(w)
      BY <2>1, <2>2, <2>4 DEF CreditRefund
    <2> QED BY <2>3, <2>4
  <1>6. \A v \in Visits : pay'[v] = "REFUNDED" => pay[v] = "REFUNDED" \/ Settling(p, v)
    OBVIOUS
  <1>7. \A v \in Visits : Abandoned(v)' = Abandoned(v)
    BY DEF Abandoned
  <1> QED BY <1>2, <1>3, <1>4, <1>5, <1>6, <1>7 DEF QuietStep, Offered

\* A request that begins was idle, away from the deposit's debit, and writes
\* no row but that of a new booking.
LEMMA QuietBegin ==
    ASSUME VisitSettlementAssumption, TypeOK, NEW p \in Procs, req[p] = Idle, NEW w \in Visits,
           charged' = charged, refunded' = refunded, drops' = drops, pay' = pay,
           req'[p].at \notin {"acceptDeposit", "lateMark", "refundMark"}, At(p, "markDeposit")' => FALSE,
           \A v \in Visits : status'[v] = status[v] \/ ~Offered(v)' \/ (v = w /\ Refunding(p, w)' /\ Offered(w))
    PROVE  QuietStep(p)
PROOF
  <1>1. NoVisit \notin Visits
    BY DEF VisitSettlementAssumption
  <1>2. ASSUME NEW v \in Visits
        PROVE ~Depositing(p, v)' /\ ~Marking(p, v)' /\ ~Refunding(p, v)
    BY <1>1 DEF Depositing, Marking, Refunding, On, Idle, Task, At
  <1>3. \A v \in Visits : refunded'[v] >= refunded[v] /\ ~Settling(p, v)'
    <2>1. refunded \in [Visits -> Nat]
      BY DEF TypeOK
    <2> QED BY <2>1 DEF Settling
  <1>4. \A v \in Visits : Abandoned(v)' = Abandoned(v)
    BY DEF Abandoned
  <1> QED BY <1>2, <1>3, <1>4 DEF QuietStep, Offered

\* Every statement but the debit is quiet about the refunds.
LEMMA StatementQuiet ==
    ASSUME VisitSettlementAssumption, IInv, NEW p \in Procs, Step(p), ~Debit(p)
    PROVE  QuietStep(p)
PROOF
  <1> DEFINE w == On(p)
  <1>1. req[p].at # "idle"
    BY DEF Step, InsertPayment, IssueInvoice, SaveInvoice, CheckInvoice, Debit, MarkDeposit,
           AcceptDeposit, MarkPaid, RereadPayment, ReadVisit, AcceptPaid, LateCredit, LateMark,
           MarkExpired, ExpireVisit, ReadPaid, RefundCredit, RefundMark, CancelUnpaid, CancelPaid,
           DeclineVisit, CompleteVisit, ForceCancelVisit, ReadIncome, CheckShare, CreditShare, At
  <1>2. w \in Visits /\ RequestKnows(p) /\ TypeOK
    BY <1>1, Acting
  <1>3. End(p) => req'[p] = Idle
    BY <1>2, EndType
  <1>4. ASSUME NEW step \in Steps, Goto(p, step) PROVE req'[p].at = step /\ On(p)' = w
    BY <1>2, <1>4, GotoType DEF On
  <1>5. NextShare(p) => req'[p] = Idle \/ (req'[p].at = "checkShare" /\ On(p)' = w)
    BY <1>2, <1>3 DEF NextShare, TypeOK, On
  <1>6. CASE InsertPayment(p)
    <2>1. req'[p].at = "issueInvoice" /\ On(p)' = w
      BY <1>4, <1>6 DEF InsertPayment, Steps
    <2> QED BY <1>2, <1>6, <2>1, QuietRow DEF Settling, InsertPayment, wallet, Offered, TypeOK, On
  <1>7. CASE IssueInvoice(p)
    <2>1. req'[p] = Idle \/ (req'[p].at = "saveInvoice" /\ On(p)' = w)
      <3>1. CASE End(p)
        BY <1>3, <3>1
      <3>2. CASE ~End(p)
        <4>1. PICK i \in Invoices : req' = [req EXCEPT ![p].at = "saveInvoice", ![p].inv = i]
          BY <1>7, <3>2 DEF IssueInvoice
        <4> QED BY <1>2, <4>1 DEF TypeOK, On
      <3> QED BY <3>1, <3>2
    <2>2. ~Refunding(p, w)
      BY <1>7 DEF IssueInvoice, At, Refunding
    <2> QED BY <1>2, <1>7, <2>1, <2>2, QuietRow DEF Settling, IssueInvoice, wallet, Offered
  <1>8. CASE SaveInvoice(p)
    <2>1. req'[p] = Idle
      BY <1>3, <1>4, <1>8 DEF SaveInvoice, Steps
    <2> QED BY <1>2, <1>8, <2>1, QuietRow DEF Settling, SaveInvoice, wallet, Offered, Refunding, On, At
  <1>9. CASE CheckInvoice(p)
    <2>1. req'[p] = Idle \/ (req'[p].at = "markPaid" /\ On(p)' = w) \/ (req'[p].at = "issueInvoice" /\ On(p)' = w)
      BY <1>3, <1>4, <1>9 DEF CheckInvoice, Steps
    <2> QED BY <1>2, <1>9, <2>1, QuietRow DEF Settling, CheckInvoice, wallet, Offered, Refunding, On, At
  <1>10. CASE AcceptDeposit(p)
    <2>1. req'[p] = Idle
      BY <1>3, <1>4, <1>10 DEF AcceptDeposit, Steps
    <2> QED BY <1>2, <1>10, <2>1, QuietRow DEF Settling, AcceptDeposit, wallet, Offered, Refunding, On, At, MoveVisit, TypeOK
  <1>11. CASE MarkPaid(p)
    <2>1. On(p)' = w /\ req'[p].at = IF pay[w] = "PENDING" THEN "readVisit" ELSE "rereadPayment"
      BY <1>3, <1>4, <1>11 DEF MarkPaid, Steps
    <2> QED BY <1>2, <1>11, <2>1, QuietRow DEF Settling, MarkPaid, wallet, Offered, Refunding, On, At, ClosePending, TypeOK
  <1>12. CASE RereadPayment(p)
    <2>1. req'[p] = Idle \/ (req'[p].at = "readVisit" /\ On(p)' = w)
      BY <1>3, <1>4, <1>12 DEF RereadPayment, Steps
    <2> QED BY <1>2, <1>12, <2>1, QuietRow DEF Settling, RereadPayment, wallet, Offered, Refunding, On, At
  <1>13. CASE ReadVisit(p)
    <2>1. \/ req'[p].at = "acceptPaid" /\ On(p)' = w /\ status[w] = "REQUESTED"
          \/ req'[p].at = "lateCredit" /\ On(p)' = w
          \/ req'[p] = Idle /\ status[w] \notin Failed
      BY <1>3, <1>4, <1>13 DEF ReadVisit, Steps
    <2> QED BY <1>2, <1>13, <2>1, QuietRow DEF Settling, ReadVisit, wallet, Offered, Refunding, On, At, Failed
  <1>14. CASE AcceptPaid(p)
    <2>1. req'[p] = Idle
      BY <1>3, <1>4, <1>14 DEF AcceptPaid, Steps
    <2> QED BY <1>2, <1>14, <2>1, QuietRow DEF Settling, AcceptPaid, wallet, Offered, Refunding, On, At, MoveVisit, TypeOK, RequestKnows
  <1>15. CASE LateCredit(p)
    <2>1. req'[p].at = "lateMark" /\ On(p)' = w
      BY <1>3, <1>4, <1>15 DEF LateCredit, Steps
    <2> QED BY <1>2, <1>15, <2>1, QuietRow DEF Settling, LateCredit, wallet, Offered, Refunding, On, At, CreditRefund
  <1>16. CASE LateMark(p)
    <2>1. req'[p] = Idle
      BY <1>3, <1>4, <1>16 DEF LateMark, Steps
    <2> QED BY <1>2, <1>16, <2>1, QuietRow DEF Settling, LateMark, wallet, Offered, Refunding, On, At, TypeOK
  <1>17. CASE MarkExpired(p)
    <2>1. req'[p] = Idle \/ (req'[p].at = "expireVisit" /\ On(p)' = w)
      BY <1>3, <1>4, <1>17 DEF MarkExpired, Steps
    <2> QED BY <1>2, <1>17, <2>1, QuietRow DEF Settling, MarkExpired, wallet, Offered, Refunding, On, At, ClosePending, TypeOK
  <1>18. CASE ExpireVisit(p)
    <2>1. req'[p] = Idle
      BY <1>3, <1>4, <1>18 DEF ExpireVisit, Steps
    <2> QED BY <1>2, <1>18, <2>1, QuietRow DEF Settling, ExpireVisit, wallet, Offered, Refunding, On, At, MoveVisit, TypeOK
  <1>19. CASE ReadPaid(p)
    <2>1. \/ req'[p].at = "refundCredit" /\ On(p)' = w
          \/ req'[p] = Idle /\ pay[w] # "PAID"
      BY <1>3, <1>4, <1>19 DEF ReadPaid, Steps
    <2> QED BY <1>2, <1>19, <2>1, QuietRow DEF Settling, ReadPaid, wallet, Offered, Refunding, On, At
  <1>20. CASE RefundCredit(p)
    <2>1. req'[p].at = "refundMark" /\ On(p)' = w
      BY <1>3, <1>4, <1>20 DEF RefundCredit, Steps
    <2> QED BY <1>2, <1>20, <2>1, QuietRow DEF Settling, RefundCredit, wallet, Offered, Refunding, On, At, CreditRefund
  <1>21. CASE RefundMark(p)
    <2>1. req'[p] = Idle
      BY <1>3, <1>4, <1>21 DEF RefundMark, Steps
    <2> QED BY <1>2, <1>21, <2>1, QuietRow DEF Settling, RefundMark, wallet, Offered, Refunding, On, At, TypeOK
  <1>22. CASE CancelUnpaid(p)
    <2>1. req'[p] = Idle
      BY <1>3, <1>4, <1>22 DEF CancelUnpaid, Steps
    <2> QED BY <1>2, <1>22, <2>1, QuietRow DEF Settling, CancelUnpaid, wallet, Offered, Refunding, On, At, ClosePending, CancelEveryVisit, TypeOK
  <1>23. CASE CancelPaid(p)
    <2>1. req'[p].at = "readPaid" /\ On(p)' = w
      BY <1>3, <1>4, <1>23 DEF CancelPaid, Steps
    <2> QED BY <1>2, <1>23, <2>1, QuietRow DEF Settling, CancelPaid, wallet, Offered, Refunding, On, At, CancelEveryVisit, TypeOK
  <1>24. CASE DeclineVisit(p)
    <2>1. req'[p].at = "readPaid" /\ On(p)' = w
      BY <1>3, <1>4, <1>24 DEF DeclineVisit, Steps
    <2> QED BY <1>2, <1>24, <2>1, QuietRow DEF Settling, DeclineVisit, wallet, Offered, Refunding, On, At, MoveVisit, TypeOK
  <1>25. CASE CompleteVisit(p)
    <2>1. req'[p].at = "readIncome" /\ On(p)' = w
      BY <1>3, <1>4, <1>25 DEF CompleteVisit, Steps
    <2> QED BY <1>2, <1>25, <2>1, QuietRow DEF Settling, CompleteVisit, wallet, Offered, Refunding, On, At, MoveVisit, TypeOK
  <1>26. CASE ForceCancelVisit(p)
    <2>1. req'[p] = Idle \/ (req'[p].at = "readPaid" /\ On(p)' = w)
      BY <1>3, <1>4, <1>26 DEF ForceCancelVisit, Steps
    <2> QED BY <1>2, <1>26, <2>1, QuietRow DEF Settling, ForceCancelVisit, wallet, Offered, Refunding, On, At, TypeOK
  <1>27. CASE ReadIncome(p)
    <2>1. req'[p] = Idle \/ (req'[p].at = "checkShare" /\ On(p)' = w)
      BY <1>3, <1>4, <1>27 DEF ReadIncome, Steps
    <2> QED BY <1>2, <1>27, <2>1, QuietRow DEF Settling, ReadIncome, wallet, Offered, Refunding, On, At
  <1>28. CASE CheckShare(p)
    <2>1. req'[p] = Idle \/ (req'[p].at = "creditShare" /\ On(p)' = w) \/ (req'[p].at = "checkShare" /\ On(p)' = w)
      BY <1>5, <1>3, <1>4, <1>28 DEF CheckShare, Steps
    <2> QED BY <1>2, <1>28, <2>1, QuietRow DEF Settling, CheckShare, wallet, Offered, Refunding, On, At
  <1>29. CASE CreditShare(p)
    <2>1. req'[p] = Idle \/ (req'[p].at = "checkShare" /\ On(p)' = w)
      BY <1>5, <1>3, <1>4, <1>29 DEF CreditShare, Steps
    <2> QED BY <1>2, <1>29, <2>1, QuietRow DEF Settling, CreditShare, wallet, Offered, Refunding, On, At
  <1>30. CASE MarkDeposit(p)
    <2>1. req[p].at = "markDeposit" /\ req'[p].at = "acceptDeposit" /\ On(p)' = w
      BY <1>4, <1>30 DEF MarkDeposit, At, Steps
    <2>2. /\ Depositing(p, w) /\ Marking(p, w) /\ ~Refunding(p, w)
          /\ \A v \in Visits \ {w} : ~Refunding(p, v) /\ ~Depositing(p, v)' /\ ~Marking(p, v)'
          /\ ~Marking(p, w)'
      BY <2>1 DEF Depositing, Marking, Refunding
    <2>3. /\ UNCHANGED <<status, charged, refunded, drops>>
          /\ \A v \in Visits : pay'[v] = pay[v] \/ (v = w /\ pay[v] = "PENDING")
      BY <1>2, <1>30 DEF MarkDeposit, ClosePending, wallet, TypeOK
    <2>4. \A v \in Visits : /\ refunded'[v] >= refunded[v] /\ ~Settling(p, v)' /\ (Abandoned(v) => Abandoned(v)')
                            /\ pay'[v] = "REFUNDED" => pay[v] = "REFUNDED"
      BY <1>2, <1>30, <2>1, <2>3 DEF Settling, Abandoned, TypeOK, MarkDeposit, ClosePending
    <2>5. \A v \in Visits : (Offered(v)' => Offered(v)) /\ charged'[v] = charged[v]
      BY <2>3 DEF Offered
    <2>6. \A v \in Visits : status'[v] = "DECLINED" /\ pay'[v] = "PAID" =>
             \/ status[v] = "DECLINED" /\ pay[v] = "PAID" /\ ~Refunding(p, v)
             \/ status[v] = "DECLINED" /\ pay[v] = "PENDING" /\ Marking(p, v)
      BY <2>2, <2>3
    <2>7. \A v \in Visits : /\ Depositing(p, v)' => Depositing(p, v)
                            /\ ~Marking(p, v)'
      BY <2>1 DEF Depositing, Marking
    <2> QED BY <2>4, <2>5, <2>6, <2>7 DEF QuietStep
  <1> QED
    BY <1>6, <1>7, <1>8, <1>9, <1>10, <1>11, <1>12, <1>13, <1>14, <1>15, <1>16, <1>17, <1>18, <1>19, <1>20, <1>21, <1>22, <1>23, <1>24, <1>25, <1>26, <1>27, <1>28, <1>29, <1>30 DEF Step

\* The debit of a deposit: a second one shows in the ledger.
LEMMA DebitRefund ==
    ASSUME VisitSettlementAssumption, IInv, RefundInv, NEW p \in Procs, Debit(p)
    PROVE  RefundInv'
PROOF
  <1> DEFINE w == On(p)
  <1>1. req[p].at = "debit" /\ UNCHANGED <<status, pay, refunded, drops>>
    BY DEF Debit, At, gateway
  <1>2. w \in Visits /\ TypeOK /\ Price \in Nat \ {0} /\ charged \in [Visits -> Nat]
    BY <1>1, Acting DEF TypeOK, VisitSettlementAssumption
  <1>3. CASE End(p) /\ charged' = charged
    <2>1. req'[p] = Idle
      BY <1>2, <1>3, EndType
    <2>2. QuietStep(p)
      BY <1>1, <1>2, <1>3, <2>1, QuietRow DEF Offered, Refunding, Idle, Task
    <2> QED BY <2>2, DebitStep, QuietKeeps
  <1>4. CASE Goto(p, "markDeposit") /\ charged' = [charged EXCEPT ![w] = @ + Price]
    <2>1. /\ req'[p].at = "markDeposit" /\ On(p)' = w
          /\ \A q \in Procs \ {p} : req'[q] = req[q]
      BY <1>2, <1>4, GotoType DEF Steps, On
    <2>2. /\ charged'[w] = charged[w] + Price
          /\ \A v \in Visits \ {w} : charged'[v] = charged[v]
          /\ \A v \in Visits : charged[v] \in Nat
      BY <1>2, <1>4
    <2>3. ASSUME NEW v \in Visits
          PROVE  /\ \A q \in Procs \ {p} : Depositing(q, v)' = Depositing(q, v)
                 /\ \A q \in Procs \ {p} : Marking(q, v)' = Marking(q, v)
                 /\ \A q \in Procs : Refunding(q, v)' = Refunding(q, v)
                 /\ ~Depositing(p, v)
                 /\ (Depositing(p, v) \/ Marking(p, v))' => v = w
      BY <1>1, <2>1 DEF Depositing, Marking, Refunding, On
    <2>4. ASSUME NEW v \in Visits PROVE DebitsShow(v)'
      <3>1. CASE v # w
        BY <2>2, <2>3, <3>1 DEF RefundInv, DebitsShow
      <3>2. CASE v = w
        <4>1. \A q \in Procs \ {p} : Depositing(q, v)' => charged[v] >= Price
          BY <2>3 DEF RefundInv, DebitsShow
        <4>2. \A q, r \in Procs \ {p} : Depositing(q, v)' /\ Depositing(r, v)' /\ q # r => charged[v] >= 2 * Price
          BY <2>3 DEF RefundInv, DebitsShow
        <4>3. /\ charged[v] >= Price => charged'[v] >= Price /\ charged'[v] >= 2 * Price
              /\ charged[v] >= 2 * Price => charged'[v] >= 2 * Price
              /\ charged'[v] >= Price
          BY <1>2, <2>2, <3>2
        <4> QED BY <4>1, <4>2, <4>3 DEF DebitsShow
      <3> QED BY <3>1, <3>2
    <2>5. ASSUME NEW v \in Visits PROVE OfferShows(v)'
      <3>1. Offered(v)' = Offered(v) /\ Received(v)' = Received(v)
        BY <1>1 DEF Offered, Received
      <3>2. CASE v # w
        BY <2>2, <2>3, <3>1, <3>2 DEF RefundInv, OfferShows
      <3>3. CASE v = w
        <4>1. Offered(v) => Received(v) \/ charged[v] >= Price
          BY DEF RefundInv, OfferShows
        <4>2. charged[v] >= Price => charged'[v] > Price
          BY <1>2, <2>2, <3>3
        <4>3. charged'[v] > Price => charged'[v] >= Price
          BY <1>2, <2>2, <3>3
        <4> QED BY <3>1, <4>1, <4>2, <4>3 DEF OfferShows
      <3> QED BY <3>2, <3>3
    <2>6. ASSUME NEW v \in Visits PROVE RefundInHand(v)'
      <3>1. charged'[v] <= Price => charged[v] <= Price
        <4>1. CASE v = w
          BY <1>2, <2>2, <4>1
        <4>2. CASE v # w
          BY <2>2, <4>2
        <4> QED BY <4>1, <4>2
      <3>2. Abandoned(v)' = Abandoned(v)
        BY <1>1 DEF Abandoned
      <3> QED BY <1>1, <2>3, <3>1, <3>2 DEF RefundInv, RefundInHand
    <2>7. ASSUME NEW v \in Visits PROVE MarkShows(v)'
      <3>1. \A q \in Procs : Settling(q, v)' = Settling(q, v)
        BY <1>1, <2>1 DEF Settling, On
      <3> QED BY <1>1, <3>1 DEF RefundInv, MarkShows
    <2> QED BY <2>4, <2>5, <2>6, <2>7 DEF RefundInv
  <1> QED BY <1>3, <1>4 DEF Debit

\* The checks of a handler write no row; a booking is not yet an offer.
LEMMA ArriveQuiet ==
    ASSUME VisitSettlementAssumption, IInv, NEW p \in Requests, NEW v \in Visits, Arrive(p, v)
    PROVE  QuietStep(p)
PROOF
  <1>1. TypeOK /\ p \in Procs
    BY DEF IInv
  <1>2. req[p] = Idle
    BY DEF Arrive, CreateVisit, Pay, PayDeposit, WebhookPaid, WebhookExpired, Cancel, Decline,
           Complete, ForceCancel, Begin, Room
  <1>3. UNCHANGED <<pay, charged, refunded, drops>>
    BY DEF Arrive, CreateVisit, Pay, PayDeposit, WebhookPaid, WebhookExpired, Cancel, Decline,
           Complete, ForceCancel, wallet
  <1>4. \A u \in Visits : status'[u] = status[u] \/ ~Offered(u)'
    BY <1>1 DEF Arrive, CreateVisit, Pay, PayDeposit, WebhookPaid, WebhookExpired, Cancel, Decline,
           Complete, ForceCancel, Offered, TypeOK
  <1>5. req'[p].at \notin {"acceptDeposit", "markDeposit", "lateMark", "refundMark"}
    BY <1>1 DEF Arrive, CreateVisit, Pay, PayDeposit, WebhookPaid, WebhookExpired, Cancel, Decline,
           Complete, ForceCancel, Begin, Task, TypeOK
  <1> QED BY <1>1, <1>2, <1>3, <1>4, <1>5, QuietBegin DEF At

\* The jobs, the ustadz, the admin and the gateway owe what they owed; the
\* timeout job takes the refund of the visit it declines in hand.
LEMMA OthersQuiet ==
    ASSUME VisitSettlementAssumption, IInv, NEW v \in Visits,
           \/ ConfirmVisit(v) \/ StartVisit(v) \/ RevealReviews(v)
           \/ ConfirmTimeout(v) \/ PollPayment(v)
           \/ \E i \in Invoices : GatewayMoves(v, i)
    PROVE  QuietStep(Worker)
PROOF
  <1>1. TypeOK
    BY DEF IInv
  <1>2. CASE ConfirmVisit(v) \/ StartVisit(v) \/ RevealReviews(v) \/ \E i \in Invoices : GatewayMoves(v, i)
    <2>1. /\ UNCHANGED <<pay, charged, refunded, req, drops>>
          /\ \A u \in Visits : status'[u] = status[u] \/ ~Offered(u)'
      BY <1>1, <1>2 DEF ConfirmVisit, StartVisit, RevealReviews, GatewayMoves, MoveVisit, wallet,
                        Offered, TypeOK
    <2>2. \A u \in Visits : /\ refunded'[u] >= refunded[u] /\ Abandoned(u)' = Abandoned(u)
                            /\ Settling(Worker, u)' = Settling(Worker, u)
      <3>1. refunded \in [Visits -> Nat]
        BY <1>1 DEF TypeOK
      <3> QED BY <2>1, <3>1 DEF Settling, Abandoned, On
    <2> QED BY <2>1, <2>2 DEF QuietStep, Depositing, Marking, Refunding, Offered, On
  <1>3. CASE PollPayment(v)
    <2>1. /\ UNCHANGED <<status, pay, charged, refunded, drops>> /\ req[Worker] = Idle
          /\ req'[Worker].at = "pollInvoice"
      BY <1>1, <1>3 DEF PollPayment, Room, Task, TypeOK, wallet
    <2> QED BY <1>1, <2>1, QuietBegin DEF At
  <1>4. CASE ConfirmTimeout(v)
    <2>1. /\ UNCHANGED <<pay, charged, refunded, drops>> /\ req[Worker] = Idle
          /\ req'[Worker].at = "readPaid" /\ On(Worker)' = v
          /\ \A u \in Visits \ {v} : status'[u] = status[u]
          /\ Offered(v)
      BY <1>1, <1>4 DEF ConfirmTimeout, MoveVisit, Begin, Room, Task, TypeOK, wallet, Offered, On
    <2>2. Refunding(Worker, v)'
      BY <2>1 DEF Refunding
    <2> QED BY <1>1, <2>1, <2>2, QuietBegin DEF At
  <1> QED BY <1>2, <1>3, <1>4

\* Every step keeps the refunds in hand.
LEMMA NextRefund ==
    ASSUME VisitSettlementAssumption, IInv, RefundInv, Next
    PROVE  RefundInv'
PROOF
  <1>1. ASSUME NEW p \in Requests, NEW v \in Visits, Arrive(p, v)
        PROVE  RefundInv'
    BY <1>1, ArriveStep, CreateVisitStep, ArriveQuiet, QuietKeeps
  <1>2. ASSUME NEW p \in Procs, Step(p) PROVE RefundInv'
    BY <1>2, StatementStep, StatementQuiet, DebitRefund, QuietKeeps
  <1>3. ASSUME NEW p \in Procs, Drop(p) PROVE RefundInv'
    <2> DEFINE w == On(p)
    <2>1. /\ UNCHANGED <<status, pay, charged, refunded>> /\ req'[p] = Idle
          /\ drops \in Seq(Visits \cup {NoVisit}) /\ refunded \in [Visits -> Nat]
      BY <1>3, EndType DEF Drop, wallet, IInv, TypeOK
    <2>2. NoVisit \notin Visits
      BY DEF VisitSettlementAssumption
    <2>3. ASSUME NEW v \in Visits PROVE Abandoned(v) => Abandoned(v)'
      BY <1>3, <2>1 DEF Drop, Abandoned
    <2>4. ASSUME NEW v \in Visits, status[v] = "DECLINED", Refunding(p, v)
          PROVE  Abandoned(v)'
      <3>1. drops' = Append(drops, v)
        BY <1>3, <2>4 DEF Drop, Refunding
      <3>2. Len(drops') = Len(drops) + 1 /\ drops'[Len(drops) + 1] = v /\ Len(drops) \in Nat
        BY <2>1, <3>1
      <3> QED BY <3>2 DEF Abandoned
    <2>5. QuietStep(p)
      BY <2>1, <2>2, <2>3, <2>4 DEF QuietStep, Depositing, Marking, Settling, Offered, On, Idle, Task
    <2> QED BY <1>3, <2>5, DropStep, QuietKeeps
  <1>4. ASSUME PollInvoice PROVE RefundInv'
    <2>1. /\ req[Worker].at = "pollInvoice" /\ UNCHANGED <<status, pay, charged, refunded, drops>>
      BY <1>4 DEF PollInvoice, At, wallet
    <2>2. On(Worker) \in Visits /\ TypeOK
      BY <2>1, Acting
    <2>3. \/ req'[Worker] = Idle
          \/ req'[Worker].at \in {"markPaid", "markExpired"} /\ On(Worker)' = On(Worker)
      BY <1>4, <2>2, EndType, GotoType DEF PollInvoice, Steps, On
    <2>4. QuietStep(Worker)
      BY <2>1, <2>2, <2>3, QuietRow DEF Offered, Refunding, Idle, Task
    <2> QED BY <1>4, <2>4, PollInvoiceStep, QuietKeeps
  <1>5. ASSUME NEW v \in Visits,
               \/ ConfirmVisit(v) \/ StartVisit(v) \/ RevealReviews(v)
               \/ ConfirmTimeout(v) \/ PollPayment(v)
               \/ \E i \in Invoices : GatewayMoves(v, i)
        PROVE  RefundInv'
    <2>1. StepInv(Worker)
      BY <1>5, UstadzStep, ConfirmTimeoutStep, PollPaymentStep, GatewayMovesStep
    <2> QED BY <1>5, <2>1, OthersQuiet, QuietKeeps
  <1> QED BY <1>1, <1>2, <1>3, <1>4, <1>5 DEF Next

\* Whatever the interleaving, a declined visit that is still PAID has its
\* refund in hand, unless the request that had it died or the deposit was
\* debited twice, and a payment that is REFUNDED was (decline_visit,
\* job_confirm_timeout, the late branch of apply_visit_paid).
THEOREM Refund_In_Hand == Spec => []RefundInv
PROOF
  <1>1. Init => RefundInv
    BY DEF Init, RefundInv, DebitsShow, OfferShows, Offered, RefundInHand, MarkShows, Settling,
           Depositing, Marking, Idle, Task
  <1>2. IInv /\ RefundInv /\ [Next]_vars => RefundInv'
    <2>1. CASE UNCHANGED vars
      BY <2>1 DEF vars, RefundInv, DebitsShow, OfferShows, Offered, Received, RefundInHand,
                  MarkShows, Abandoned, Settling, Depositing, Marking, Refunding, On
    <2>2. ASSUME IInv, RefundInv, Next PROVE RefundInv'
      BY <2>2, VisitSettlementAssumption, NextRefund
    <2> QED BY <2>1, <2>2
  <1> QED BY <1>1, <1>2, Invariant, PTL DEF Spec

\* A declined visit nobody works on any more has given its price back, unless it
\* was paid by a debit that marked no payment, or by two debits, or the request
\* that had this refund in hand died (decline_visit, job_confirm_timeout).
THEOREM Declined_Is_Returned == Spec => []DeclinedIsReturned
PROOF
  <1>1. IInv /\ RefundInv => DeclinedIsReturned
    <2> SUFFICES ASSUME IInv, RefundInv, NEW v \in Visits,
                        status[v] = "DECLINED", ~InFlight(v), refunded[v] < Price,
                        ~Abandoned(v), ~(charged[v] > Price)
                 PROVE  charged[v] > 0 /\ ~Received(v)
      BY DEF DeclinedIsReturned
    <2>1. charged[v] \in Nat /\ refunded[v] \in Nat /\ Price \in Nat \ {0}
      BY VisitSettlementAssumption DEF IInv, TypeOK, VisitSettlementAssumption
    <2>2. pay[v] # "REFUNDED"
      BY <2>1 DEF RefundInv, MarkShows
    <2>3. pay[v] # "PAID"
      BY <2>1 DEF RefundInv, RefundInHand, Refunding, InFlight, On
    <2>4. Received(v) \/ charged[v] >= Price
      BY DEF RefundInv, OfferShows, Offered
    <2> QED BY <2>1, <2>2, <2>3, <2>4 DEF Received
  <1> QED BY <1>1, Invariant, Refund_In_Hand, PTL
=============================================================================
