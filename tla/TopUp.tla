-------------------------------- MODULE TopUp --------------------------------
(***************************************************************************)
(* Top-up of a deposit: create_topup_invoice, apply_topup_paid and         *)
(* apply_topup_expired of src/modules/visits/payments.rs, and the webhook  *)
(* and the poll job that decide which handler an event of the gateway      *)
(* reaches.                                                                *)
(*                                                                         *)
(* The gateway reports PAID and EXPIRED for every invoice, and both the    *)
(* webhook and the poll job hand those to the handlers of visits, which    *)
(* read the subject of the payment - here the id of a user - as the id of  *)
(* a visit.  visit[u] is the visit that happens to have the number of user *)
(* u.  TOPUP_PAID and TOPUP_EXPIRED are not states of a gateway invoice:   *)
(* they come from a developer, by xendit_simulate or by a webhook of his   *)
(* own.  Events says which of the four kinds arrive.                       *)
(***************************************************************************)
EXTENDS Wallets

CONSTANTS
    TopUps,          \* rows of payments with subject_type wallet_topup
    By,              \* payments.subject_id                 [TopUps -> Users]
    Amount,          \* payments.amount of a top-up
    Price,           \* price of a visit
    Worker,
    Events           \* kinds of events that are delivered

Procs == Requests \cup {Worker}

ASSUME TopUpAssumption ==
    /\ By \in [TopUps -> Users]
    /\ Amount \in Nat \ {0} /\ Price \in Nat \ {0}
    /\ Worker \notin Requests /\ Nothing \notin TopUps
    /\ Events \subseteq {"PAID", "EXPIRED", "TOPUP_PAID", "TOPUP_EXPIRED"}
    /\ MaxInFlight \in Nat /\ MaxDrops \in Nat

VARIABLES
    pay,             \* payments.status of a top-up
    saved,           \* payments.xendit_invoice_id is set
    invoice,         \* state of the invoice at the gateway
    credited,        \* wallet_transactions TOPUP of a top-up, summed
    visit,           \* status of the visit with the user's number
    given,           \* wallet_transactions REFUND of that visit, summed
    req,             \* requests and jobs in flight
    drops            \* requests that died half-way

visits == <<visit, given>>
vars   == <<pay, saved, invoice, credited, visits, req, drops>>

PayState   == {"NONE", "PENDING", "PAID", "EXPIRED", "REFUNDED"}
Failed     == {"CANCELED", "DECLINED", "PAYMENT_EXPIRED"}
VisitState == {"NONE", "REQUESTED", "WAITING_CONFIRM"} \cup Failed
Steps == {"idle", "issueInvoice", "saveInvoice", "topUpPaid", "creditTopUp", "topUpExpired",
          "markPaid", "rereadPayment", "readVisit", "acceptPaid", "lateCredit", "lateMark",
          "markExpired", "expireVisit"}

Idle == [at |-> "idle", topup |-> Nothing]

TypeOK ==
    /\ pay      \in [TopUps -> PayState]
    /\ saved    \in [TopUps -> BOOLEAN]
    /\ invoice  \in [TopUps -> {"NONE", "PENDING", "PAID", "EXPIRED"}]
    /\ credited \in [TopUps -> Nat]
    /\ visit    \in [Users -> VisitState]
    /\ given    \in [Users -> Nat]
    /\ req      \in [Procs -> [at : Steps, topup : TopUps \cup {Nothing}]]
    /\ drops    \in 0..MaxDrops

Init ==
    /\ pay      = [t \in TopUps |-> "NONE"]
    /\ saved    = [t \in TopUps |-> FALSE]
    /\ invoice  = [t \in TopUps |-> "NONE"]
    /\ credited = [t \in TopUps |-> 0]
    /\ visit    = [u \in Users |-> "NONE"]
    /\ given    = [u \in Users |-> 0]
    /\ req      = [p \in Procs |-> Idle]
    /\ drops    = 0

At(p, step) == req[p].at = step
Begin(p, t, step) == /\ req[p] = Idle
                     /\ Quantify(Procs, LAMBDA q : req[q] # Idle) < MaxInFlight
                     /\ req' = [req EXCEPT ![p] = [at |-> step, topup |-> t]]
Goto(p, step) == req' = [req EXCEPT ![p].at = step]
End(p)        == req' = [req EXCEPT ![p] = Idle]

\* The visit whose id equals the subject_id of the payment p works on.
StrayVisit(p) == By[req[p].topup]

\* UPDATE payments SET status = new WHERE external_id = t AND status = 'PENDING'
ClosePending(t, new) ==
    pay' = IF pay[t] = "PENDING" THEN [pay EXCEPT ![t] = new] ELSE pay

-----------------------------------------------------------------------------
(* Faults the code could have *)

\* A repeated TOPUP_PAID is not told from the first.
TopUpPaidAlways(p) ==
    /\ At(p, "topUpPaid")
    /\ ClosePending(req[p].topup, "PAID")
    /\ Goto(p, "creditTopUp")
    /\ UNCHANGED <<saved, invoice, credited, visits, drops>>

-----------------------------------------------------------------------------
(* create_topup_invoice *)

\* pay_active_uq: one PENDING payment per subject
TopUpRequest(p, t) ==
    /\ pay[t] = "NONE"
    /\ \A s \in TopUps : By[s] = By[t] => pay[s] # "PENDING"
    /\ pay' = [pay EXCEPT ![t] = "PENDING"]
    /\ Begin(p, t, "issueInvoice")
    /\ UNCHANGED <<saved, invoice, credited, visits, drops>>

\* The call fails, with or without an invoice opened, or answers.
IssueInvoice(p) ==
    /\ At(p, "issueInvoice")
    /\ \/ invoice' = [invoice EXCEPT ![req[p].topup] = "PENDING"] /\ Goto(p, "saveInvoice")
       \/ invoice' = [invoice EXCEPT ![req[p].topup] = "PENDING"] /\ End(p)
       \/ End(p) /\ UNCHANGED invoice
    /\ UNCHANGED <<pay, saved, credited, visits, drops>>

SaveInvoice(p) ==
    /\ At(p, "saveInvoice")
    /\ saved' = [saved EXCEPT ![req[p].topup] = TRUE]
    /\ End(p)
    /\ UNCHANGED <<pay, invoice, credited, visits, drops>>

-----------------------------------------------------------------------------
(* xendit_callback, xendit_simulate and job_payment_poll *)

Webhook(p, t) ==
    /\ \/ "PAID" \in Events /\ invoice[t] = "PAID" /\ Begin(p, t, "markPaid")
       \/ "EXPIRED" \in Events /\ invoice[t] = "EXPIRED" /\ Begin(p, t, "markExpired")
    /\ UNCHANGED <<pay, saved, invoice, credited, visits, drops>>

\* A developer's event is not tied to what the gateway knows.
Simulate(p, t) ==
    /\ pay[t] # "NONE"
    /\ \/ "TOPUP_PAID" \in Events /\ Begin(p, t, "topUpPaid")
       \/ "TOPUP_EXPIRED" \in Events /\ Begin(p, t, "topUpExpired")
    /\ UNCHANGED <<pay, saved, invoice, credited, visits, drops>>

\* The poll does not look at the kind of a payment; without a saved invoice
\* id the gateway does not find the invoice.
Poll(t) ==
    /\ pay[t] = "PENDING" /\ saved[t]
    /\ \/ "PAID" \in Events /\ invoice[t] = "PAID" /\ Begin(Worker, t, "markPaid")
       \/ "EXPIRED" \in Events /\ invoice[t] = "EXPIRED" /\ Begin(Worker, t, "markExpired")
    /\ UNCHANGED <<pay, saved, invoice, credited, visits, drops>>

-----------------------------------------------------------------------------
(* apply_topup_paid and apply_topup_expired *)

TopUpPaid(p) ==
    /\ At(p, "topUpPaid")
    /\ ClosePending(req[p].topup, "PAID")
    /\ IF pay[req[p].topup] = "PENDING" THEN Goto(p, "creditTopUp") ELSE End(p)
    /\ UNCHANGED <<saved, invoice, credited, visits, drops>>

CreditTopUp(p) ==
    /\ At(p, "creditTopUp")
    /\ credited' = [credited EXCEPT ![req[p].topup] = @ + Amount]
    /\ End(p)
    /\ UNCHANGED <<pay, saved, invoice, visits, drops>>

TopUpExpired(p) ==
    /\ At(p, "topUpExpired")
    /\ ClosePending(req[p].topup, "EXPIRED")
    /\ End(p)
    /\ UNCHANGED <<saved, invoice, credited, visits, drops>>

-----------------------------------------------------------------------------
(* apply_visit_paid and apply_visit_expired, applied to a top-up *)

MarkPaid(p) ==
    /\ At(p, "markPaid")
    /\ ClosePending(req[p].topup, "PAID")
    /\ Goto(p, IF pay[req[p].topup] = "PENDING" THEN "readVisit" ELSE "rereadPayment")
    /\ UNCHANGED <<saved, invoice, credited, visits, drops>>

RereadPayment(p) ==
    /\ At(p, "rereadPayment")
    /\ IF pay[req[p].topup] = "PAID" THEN Goto(p, "readVisit") ELSE End(p)
    /\ UNCHANGED <<pay, saved, invoice, credited, visits, drops>>

\* "visit hilang" when there is no such visit
ReadVisit(p) ==
    /\ At(p, "readVisit")
    /\ LET s == visit[StrayVisit(p)] IN
         \/ s = "REQUESTED" /\ Goto(p, "acceptPaid")
         \/ s \in Failed /\ Goto(p, "lateCredit")
         \/ s \notin Failed \cup {"REQUESTED"} /\ End(p)
    /\ UNCHANGED <<pay, saved, invoice, credited, visits, drops>>

AcceptPaid(p) ==
    /\ At(p, "acceptPaid")
    /\ visit' = IF visit[StrayVisit(p)] = "REQUESTED"
                THEN [visit EXCEPT ![StrayVisit(p)] = "WAITING_CONFIRM"] ELSE visit
    /\ End(p)
    /\ UNCHANGED <<pay, saved, invoice, credited, given, drops>>

LateCredit(p) ==
    /\ At(p, "lateCredit")
    /\ given' = [given EXCEPT ![StrayVisit(p)] = @ + Price]
    /\ Goto(p, "lateMark")
    /\ UNCHANGED <<pay, saved, invoice, credited, visit, drops>>

LateMark(p) ==
    /\ At(p, "lateMark")
    /\ pay' = [pay EXCEPT ![req[p].topup] = "REFUNDED"]
    /\ End(p)
    /\ UNCHANGED <<saved, invoice, credited, visits, drops>>

MarkExpired(p) ==
    /\ At(p, "markExpired")
    /\ ClosePending(req[p].topup, "EXPIRED")
    /\ IF pay[req[p].topup] = "PENDING" THEN Goto(p, "expireVisit") ELSE End(p)
    /\ UNCHANGED <<saved, invoice, credited, visits, drops>>

ExpireVisit(p) ==
    /\ At(p, "expireVisit")
    /\ visit' = IF visit[StrayVisit(p)] = "REQUESTED"
                THEN [visit EXCEPT ![StrayVisit(p)] = "PAYMENT_EXPIRED"] ELSE visit
    /\ End(p)
    /\ UNCHANGED <<pay, saved, invoice, credited, given, drops>>

-----------------------------------------------------------------------------
(* Environment *)

GatewayMoves(t) ==
    /\ invoice[t] = "PENDING"
    /\ \E new \in {"PAID", "EXPIRED"} : invoice' = [invoice EXCEPT ![t] = new]
    /\ UNCHANGED <<pay, saved, credited, visits, req, drops>>

\* The visit with the user's number has its own life, seen from here: it is
\* booked, paid for, or fails.
VisitMoves(u) ==
    /\ \E next \in {<<"NONE", "REQUESTED">>, <<"REQUESTED", "WAITING_CONFIRM">>,
                   <<"REQUESTED", "CANCELED">>, <<"WAITING_CONFIRM", "CANCELED">>} :
          visit[u] = next[1] /\ visit' = [visit EXCEPT ![u] = next[2]]
    /\ UNCHANGED <<pay, saved, invoice, credited, given, req, drops>>

Drop(p) ==
    /\ req[p] # Idle
    /\ drops < MaxDrops
    /\ drops' = drops + 1
    /\ End(p)
    /\ UNCHANGED <<pay, saved, invoice, credited, visits>>

Next ==
    \/ \E p \in Requests, t \in TopUps : TopUpRequest(p, t) \/ Webhook(p, t) \/ Simulate(p, t)
    \/ \E p \in Procs :
          \/ IssueInvoice(p) \/ SaveInvoice(p)
          \/ TopUpPaid(p) \/ CreditTopUp(p) \/ TopUpExpired(p)
          \/ MarkPaid(p) \/ RereadPayment(p) \/ ReadVisit(p) \/ AcceptPaid(p)
          \/ LateCredit(p) \/ LateMark(p) \/ MarkExpired(p) \/ ExpireVisit(p)
          \/ Drop(p)
    \/ \E t \in TopUps : Poll(t) \/ GatewayMoves(t)
    \/ \E u \in Users : VisitMoves(u)

Spec == Init /\ [][Next]_vars

-----------------------------------------------------------------------------
(* Properties *)

Pending(t) == \E p \in Procs : At(p, "creditTopUp") /\ req[p].topup = t

\* However often a payment event is repeated, and whatever events overlap, a
\* top-up is credited once and in full, and only when its payment is closed
\* as paid (apply_topup_paid: UPDATE guarded by PENDING, then credit).
CreditedOnce ==
    \A t \in TopUps :
        /\ credited[t] \in {0, Amount}
        /\ credited[t] > 0 \/ Pending(t) => pay[t] \in {"PAID", "REFUNDED"}

\* A payment that is closed is not closed again in another way by an event
\* that comes late; only the late branch of apply_visit_paid marks a paid one.
ClosedOnce ==
    [][\A t \in TopUps : pay'[t] # pay[t] =>
         <<pay[t], pay'[t]>> \in {<<"NONE", "PENDING">>, <<"PENDING", "PAID">>,
                                  <<"PENDING", "EXPIRED">>, <<"PAID", "REFUNDED">>}]_vars

-----------------------------------------------------------------------------
(* The inductive invariant *)

\* A request works on a top-up; past the UPDATE guarded by PENDING the payment
\* is closed as paid, and the one about to credit has not done so.
RequestKnows(p) ==
    /\ req[p].at # "idle" => req[p].topup \in TopUps
    /\ req[p].at \in {"readVisit", "acceptPaid", "lateCredit", "lateMark", "creditTopUp"}
         => pay[req[p].topup] \in {"PAID", "REFUNDED"}
    /\ req[p].at = "creditTopUp" => credited[req[p].topup] = 0

OneCredits ==
    \A p, q \in Procs :
        At(p, "creditTopUp") /\ At(q, "creditTopUp") /\ req[p].topup = req[q].topup => p = q

IInv == TypeOK /\ (\A p \in Procs : RequestKnows(p)) /\ OneCredits /\ CreditedOnce

-----------------------------------------------------------------------------
(* Statements of the source the code does not live up to *)

\* docs/api/openapi.yaml:914: the invoice of a top-up fills the balance.
TopUpReachesBalance ==
    \A t \in TopUps :
        pay[t] = "PAID" /\ drops = 0 /\ (\A p \in Procs : req[p] = Idle) => credited[t] = Amount

=============================================================================
