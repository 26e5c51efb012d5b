--------------------------- MODULE VisitSettlement ---------------------------
(***************************************************************************)
(* The money side of a home visit: src/modules/visits (service, payments,  *)
(* handler) over src/modules/wallet, with the Xendit gateway as an         *)
(* external party.                                                         *)
(*                                                                         *)
(* Every HTTP request and worker job runs concurrently with all others,    *)
(* and only one SQL statement, or one BEGIN..COMMIT, is atomic.  A request *)
(* is therefore a small program: req[p] says which visit process p works   *)
(* on and which statement it runs next, and every action below is one      *)
(* statement.  Reads whose result only guards the very next statement, and *)
(* are repeated in its WHERE clause, are merged with it.                   *)
(*                                                                         *)
(* Time is abstracted: a deadline (invoice expiry, confirmation timeout,   *)
(* visit window, review window) may have passed at any moment.  History    *)
(* rows, notifications and chat are left out; the amounts of one visit are *)
(* all equal to Price.  The gateway is the real one, not the mock.         *)
(***************************************************************************)
EXTENDS Integers, Sequences, FiniteSets

CONSTANTS
    Visits,          \* rows of ustadz_visits
    Users,           \* owners of wallets
    Owner,           \* santri who books the visit          [Visits -> Users]
    UstadzOf,        \* ustadz who serves it                [Visits -> Users]
    Price,           \* ustadz_visits.price_total = payments.amount
    Payees,          \* shares of Price, in the order of visit_income_split
    Deposit,         \* opening balances                    [Users -> Nat]
    Requests,        \* request handlers that may be in flight
    Worker,          \* the job worker, one job at a time
    Invoices,        \* invoices the gateway may issue for one payment
    NoVisit, NoInvoice,
    MaxInFlight,     \* bound on requests and jobs in flight at once
    MaxDrops         \* bound on requests that die between two statements

Procs == Requests \cup {Worker}

ASSUME VisitSettlementAssumption ==
    /\ Price \in Nat \ {0}
    /\ MaxInFlight \in Nat
    /\ MaxDrops \in Nat
    /\ Owner \in [Visits -> Users]
    /\ UstadzOf \in [Visits -> Users]
    /\ Deposit \in [Users -> Nat]
    /\ NoVisit \notin Visits
    /\ NoInvoice \notin Invoices
    /\ Worker \notin Requests
    /\ Payees \in Seq([to : Users \cup {"USTADZ", "PLATFORM"}, share : Int])

VARIABLES
    status,          \* ustadz_visits.status
    pay,             \* payments.status of the visit's only payment
    saved,           \* payments.xendit_invoice_id
    invoice,         \* the gateway's invoices for the payment's external_id
    balance,         \* wallets.balance
    charged,         \* wallet_transactions PAYMENT of a visit, summed
    refunded,        \* wallet_transactions REFUND of a visit, summed
    earned,          \* wallet_transactions EARNING per user and visit, summed
    req,             \* requests and jobs in flight
    drops            \* the deaths so far: the declined visit whose refund the
                     \* dead request had in hand, or NoVisit

wallet  == <<balance, charged, refunded, earned>>
gateway == <<saved, invoice>>
vars    == <<status, pay, saved, invoice, balance, charged, refunded, earned, req, drops>>

Served     == {"WAITING_CONFIRM", "CONFIRMED", "IN_PROGRESS", "COMPLETED", "REVIEWED"}
Failed     == {"CANCELED", "DECLINED", "PAYMENT_EXPIRED"}
VisitState == {"NONE", "REQUESTED"} \cup Served \cup Failed
PayState   == {"NONE", "PENDING", "PAID", "EXPIRED", "REFUNDED"}
Collected  == {"PAID", "SETTLED"}
InvState   == {"NONE", "PENDING", "EXPIRED"} \cup Collected
Over       == {"COMPLETED", "REVIEWED", "CANCELED"}

Steps == {"idle",
          "insertPayment", "issueInvoice", "saveInvoice", "checkInvoice",
          "debit", "markDeposit", "acceptDeposit",
          "markPaid", "rereadPayment", "readVisit", "acceptPaid", "lateCredit", "lateMark",
          "markExpired", "expireVisit", "pollInvoice",
          "cancelUnpaid", "cancelPaid", "decline", "forceCancelRefund", "forceCancelKeep",
          "readPaid", "refundCredit", "refundMark",
          "complete", "readIncome", "checkShare", "creditShare"}

Task(step, v, i) == [at |-> step, visit |-> v, inv |-> i, payee |-> 1]
Idle             == Task("idle", NoVisit, NoInvoice)

TypeOK ==
    /\ status   \in [Visits -> VisitState]
    /\ pay      \in [Visits -> PayState]
    /\ saved    \in [Visits -> Invoices \cup {NoInvoice}]
    /\ invoice  \in [Visits -> [Invoices -> InvState]]
    /\ balance  \in [Users -> Nat]
    /\ charged  \in [Visits -> Nat]
    /\ refunded \in [Visits -> Nat]
    /\ earned   \in [Users -> [Visits -> Nat]]
    /\ req      \in [Procs -> [at : Steps, visit : Visits \cup {NoVisit},
                               inv : Invoices \cup {NoInvoice}, payee : Nat]]
    /\ drops    \in Seq(Visits \cup {NoVisit}) /\ Len(drops) <= MaxDrops

Init ==
    /\ status   = [v \in Visits |-> "NONE"]
    /\ pay      = [v \in Visits |-> "NONE"]
    /\ saved    = [v \in Visits |-> NoInvoice]
    /\ invoice  = [v \in Visits |-> [i \in Invoices |-> "NONE"]]
    /\ balance  = Deposit
    /\ charged  = [v \in Visits |-> 0]
    /\ refunded = [v \in Visits |-> 0]
    /\ earned   = [u \in Users |-> [v \in Visits |-> 0]]
    /\ req      = [p \in Procs |-> Idle]
    /\ drops    = <<>>

-----------------------------------------------------------------------------
(* Requests as programs *)

At(p, step)  == req[p].at = step
On(p)        == req[p].visit
Room(p)      == /\ req[p] = Idle
                /\ Cardinality({q \in Procs : req[q] # Idle}) < MaxInFlight
Begin(p, v, step) == /\ Room(p)
                     /\ req' = [req EXCEPT ![p] = Task(step, v, NoInvoice)]
Goto(p, step) == req' = [req EXCEPT ![p].at = step]
End(p)        == req' = [req EXCEPT ![p] = Idle]

\* Fault: the UPDATE names the row but not the status it moves from.
MoveVisitBlindly(v, from, new) == status' = [status EXCEPT ![v] = new]

\* UPDATE ustadz_visits SET status = new WHERE id = v AND status IN from
MoveVisit(v, from, new) ==
    status' = IF status[v] \in from THEN [status EXCEPT ![v] = new] ELSE status

\* UPDATE payments SET status = new WHERE subject = v AND status = 'PENDING'
ClosePending(v, new) ==
    pay' = IF pay[v] = "PENDING" THEN [pay EXCEPT ![v] = new] ELSE pay

\* wallet::credit of a REFUND to the santri, one transaction
CreditRefund(v) ==
    /\ balance'  = [balance EXCEPT ![Owner[v]] = @ + Price]
    /\ refunded' = [refunded EXCEPT ![v] = @ + Price]
    /\ UNCHANGED <<charged, earned>>

\* The request has the refund of the visit before it: it declined the visit, or
\* brings the news that it was paid.
Refunding(p, v) ==
    /\ On(p) = v
    /\ req[p].at \in {"readVisit", "lateCredit", "lateMark", "readPaid", "refundCredit", "refundMark"}

\* payments.status shows that the money came.
Received(v) == pay[v] \in {"PAID", "REFUNDED"}

\* The money of the visit was really taken: by the gateway or off a deposit.
Funded(v) == charged[v] > 0 \/ \E i \in Invoices : invoice[v][i] \in Collected

-----------------------------------------------------------------------------
(* Faults the code could have: each changes one action below, and some       *)
(* property of this module notices it.                                       *)

\* The visit is marked paid before the deposit is debited.
PayDepositUndebited(p, v) ==
    /\ status[v] = "REQUESTED"
    /\ balance[Owner[v]] >= Price
    /\ Begin(p, v, "markDeposit")
    /\ UNCHANGED <<status, pay, gateway, wallet, drops>>

\* The payment is not read again when the UPDATE hit no row.
MarkPaidTrusting(p) ==
    /\ At(p, "markPaid")
    /\ ClosePending(On(p), "PAID")
    /\ Goto(p, "readVisit")
    /\ UNCHANGED <<status, gateway, wallet, drops>>

\* The expiry does not ask for a PENDING payment.
MarkExpiredAlways(p) ==
    /\ At(p, "markExpired")
    /\ pay' = [pay EXCEPT ![On(p)] = "EXPIRED"]
    /\ Goto(p, "expireVisit")
    /\ UNCHANGED <<status, gateway, wallet, drops>>

\* The refund does not ask for a PAID payment.
ReadPaidAny(p) ==
    /\ At(p, "readPaid")
    /\ Goto(p, "refundCredit")
    /\ UNCHANGED <<status, pay, gateway, wallet, drops>>


\* The timeout job forgets the refund.
ConfirmTimeoutKeeping(v) ==
    /\ status[v] = "WAITING_CONFIRM"
    /\ MoveVisit(v, {"WAITING_CONFIRM"}, "DECLINED")
    /\ UNCHANGED <<pay, gateway, wallet, req, drops>>

\* The timeout job updates unpaid visits only.
ConfirmTimeoutMissing(v) ==
    /\ status[v] = "WAITING_CONFIRM"
    /\ MoveVisit(v, {"REQUESTED"}, "DECLINED")
    /\ UNCHANGED <<pay, gateway, wallet, req, drops>>

\* Income is credited before the visit is completed.
CompleteUnfinished(p, v) ==
    /\ status[v] \in {"CONFIRMED", "IN_PROGRESS"}
    /\ Begin(p, v, "readIncome")
    /\ UNCHANGED <<status, pay, gateway, wallet, drops>>

-----------------------------------------------------------------------------
(* create_visit: booking transaction, then payment row, then invoice *)

CreateVisit(p, v) ==
    /\ status[v] = "NONE"
    /\ status' = [status EXCEPT ![v] = "REQUESTED"]
    /\ Begin(p, v, "insertPayment")
    /\ UNCHANGED <<pay, gateway, wallet, drops>>

InsertPayment(p) ==
    /\ At(p, "insertPayment")
    /\ pay' = [pay EXCEPT ![On(p)] = "PENDING"]
    /\ Goto(p, "issueInvoice")
    /\ UNCHANGED <<status, gateway, wallet, drops>>

\* The gateway opens a new invoice for the same external_id; the call may
\* fail before or after the invoice exists.
IssueInvoice(p) ==
    /\ At(p, "issueInvoice")
    /\ \/ \E i \in Invoices :
             /\ invoice[On(p)][i] = "NONE"
             /\ invoice' = [invoice EXCEPT ![On(p)][i] = "PENDING"]
             /\ \/ req' = [req EXCEPT ![p].at = "saveInvoice", ![p].inv = i]
                \/ End(p)
       \/ End(p) /\ UNCHANGED invoice
    /\ UNCHANGED <<status, pay, saved, wallet, drops>>

SaveInvoice(p) ==
    /\ At(p, "saveInvoice")
    /\ saved' = [saved EXCEPT ![On(p)] = req[p].inv]
    /\ End(p)
    /\ UNCHANGED <<status, pay, invoice, wallet, drops>>

-----------------------------------------------------------------------------
(* POST /visits/{id}/pay: reuse the saved invoice or issue another *)

Pay(p, v) ==
    /\ status[v] # "NONE" /\ pay[v] = "PENDING"
    /\ Room(p)
    /\ req' = [req EXCEPT ![p] =
          Task(IF saved[v] = NoInvoice THEN "issueInvoice" ELSE "checkInvoice", v, saved[v])]
    /\ UNCHANGED <<status, pay, gateway, wallet, drops>>

\* get_invoice; a failed call, or a state other than PAID and PENDING,
\* falls through to a new invoice.
CheckInvoice(p) ==
    /\ At(p, "checkInvoice")
    /\ \/ invoice[On(p)][req[p].inv] = "PAID" /\ Goto(p, "markPaid")
       \/ invoice[On(p)][req[p].inv] = "PENDING" /\ End(p)
       \/ Goto(p, "issueInvoice")
    /\ UNCHANGED <<status, pay, gateway, wallet, drops>>

-----------------------------------------------------------------------------
(* POST /visits/{id}/pay-deposit *)

PayDeposit(p, v) ==
    /\ status[v] = "REQUESTED"
    /\ balance[Owner[v]] >= Price
    /\ Begin(p, v, "debit")
    /\ UNCHANGED <<status, pay, gateway, wallet, drops>>

Debit(p) ==
    /\ At(p, "debit")
    /\ LET u == Owner[On(p)] IN
         \/ /\ balance[u] >= Price
            /\ balance' = [balance EXCEPT ![u] = @ - Price]
            /\ charged' = [charged EXCEPT ![On(p)] = @ + Price]
            /\ Goto(p, "markDeposit")
         \/ /\ balance[u] < Price
            /\ End(p)
            /\ UNCHANGED <<balance, charged>>
    /\ UNCHANGED <<status, pay, gateway, refunded, earned, drops>>

\* rows_affected is not looked at
MarkDeposit(p) ==
    /\ At(p, "markDeposit")
    /\ ClosePending(On(p), "PAID")
    /\ Goto(p, "acceptDeposit")
    /\ UNCHANGED <<status, gateway, wallet, drops>>

AcceptDeposit(p) ==
    /\ At(p, "acceptDeposit")
    /\ MoveVisit(On(p), {"REQUESTED"}, "WAITING_CONFIRM")
    /\ End(p)
    /\ UNCHANGED <<pay, gateway, wallet, drops>>

-----------------------------------------------------------------------------
(* apply_visit_paid: webhook, poll job, or /pay that finds a paid invoice *)

WebhookPaid(p, v) ==
    /\ \E i \in Invoices : invoice[v][i] \in Collected
    /\ Begin(p, v, "markPaid")
    /\ UNCHANGED <<status, pay, gateway, wallet, drops>>

MarkPaid(p) ==
    /\ At(p, "markPaid")
    /\ ClosePending(On(p), "PAID")
    /\ Goto(p, IF pay[On(p)] = "PENDING" THEN "readVisit" ELSE "rereadPayment")
    /\ UNCHANGED <<status, gateway, wallet, drops>>

\* n = 0: go on only if the payment is PAID already, else 409
RereadPayment(p) ==
    /\ At(p, "rereadPayment")
    /\ IF pay[On(p)] = "PAID" THEN Goto(p, "readVisit") ELSE End(p)
    /\ UNCHANGED <<status, pay, gateway, wallet, drops>>

ReadVisit(p) ==
    /\ At(p, "readVisit")
    /\ \/ status[On(p)] = "REQUESTED" /\ Goto(p, "acceptPaid")
       \/ status[On(p)] \in Failed /\ Goto(p, "lateCredit")
       \/ status[On(p)] \notin Failed \cup {"REQUESTED"} /\ End(p)
    /\ UNCHANGED <<status, pay, gateway, wallet, drops>>

AcceptPaid(p) ==
    /\ At(p, "acceptPaid")
    /\ MoveVisit(On(p), {"REQUESTED"}, "WAITING_CONFIRM")
    /\ End(p)
    /\ UNCHANGED <<pay, gateway, wallet, drops>>

LateCredit(p) ==
    /\ At(p, "lateCredit")
    /\ CreditRefund(On(p))
    /\ Goto(p, "lateMark")
    /\ UNCHANGED <<status, pay, gateway, drops>>

LateMark(p) ==
    /\ At(p, "lateMark")
    /\ pay' = [pay EXCEPT ![On(p)] = "REFUNDED"]
    /\ End(p)
    /\ UNCHANGED <<status, gateway, wallet, drops>>

-----------------------------------------------------------------------------
(* apply_visit_expired: webhook or poll job *)

WebhookExpired(p, v) ==
    /\ \E i \in Invoices : invoice[v][i] = "EXPIRED"
    /\ Begin(p, v, "markExpired")
    /\ UNCHANGED <<status, pay, gateway, wallet, drops>>

MarkExpired(p) ==
    /\ At(p, "markExpired")
    /\ ClosePending(On(p), "EXPIRED")
    /\ IF pay[On(p)] = "PENDING" THEN Goto(p, "expireVisit") ELSE End(p)
    /\ UNCHANGED <<status, gateway, wallet, drops>>

ExpireVisit(p) ==
    /\ At(p, "expireVisit")
    /\ MoveVisit(On(p), {"REQUESTED"}, "PAYMENT_EXPIRED")
    /\ End(p)
    /\ UNCHANGED <<pay, gateway, wallet, drops>>

\* job_payment_poll, one payment; without a saved invoice id the gateway
\* does not find the invoice and the payment is skipped
PollPayment(v) ==
    /\ pay[v] = "PENDING" /\ saved[v] # NoInvoice
    /\ Room(Worker)
    /\ req' = [req EXCEPT ![Worker] = Task("pollInvoice", v, saved[v])]
    /\ UNCHANGED <<status, pay, gateway, wallet, drops>>

PollInvoice ==
    /\ At(Worker, "pollInvoice")
    /\ LET s == invoice[On(Worker)][req[Worker].inv] IN
         \/ s \in Collected /\ Goto(Worker, "markPaid")
         \/ s = "EXPIRED" /\ Goto(Worker, "markExpired")
         \/ s \notin Collected \cup {"EXPIRED"} /\ End(Worker)
    /\ UNCHANGED <<status, pay, gateway, wallet, drops>>

-----------------------------------------------------------------------------
(* refund_visit_to_deposit *)

ReadPaid(p) ==
    /\ At(p, "readPaid")
    /\ IF pay[On(p)] = "PAID" THEN Goto(p, "refundCredit") ELSE End(p)
    /\ UNCHANGED <<status, pay, gateway, wallet, drops>>

RefundCredit(p) ==
    /\ At(p, "refundCredit")
    /\ CreditRefund(On(p))
    /\ Goto(p, "refundMark")
    /\ UNCHANGED <<status, pay, gateway, drops>>

RefundMark(p) ==
    /\ At(p, "refundMark")
    /\ pay' = [pay EXCEPT ![On(p)] = "REFUNDED"]
    /\ End(p)
    /\ UNCHANGED <<status, gateway, wallet, drops>>

-----------------------------------------------------------------------------
(* Santri cancels.  Neither UPDATE has a WHERE clause. *)

Cancel(p, v) ==
    /\ \/ status[v] = "REQUESTED" /\ Begin(p, v, "cancelUnpaid")
       \/ status[v] = "WAITING_CONFIRM" /\ Begin(p, v, "cancelPaid")
    /\ UNCHANGED <<status, pay, gateway, wallet, drops>>

CancelEveryVisit ==
    status' = [w \in Visits |-> IF status[w] = "NONE" THEN "NONE" ELSE "CANCELED"]

CancelUnpaid(p) ==
    /\ At(p, "cancelUnpaid")
    /\ ClosePending(On(p), "EXPIRED")
    /\ CancelEveryVisit
    /\ End(p)
    /\ UNCHANGED <<gateway, wallet, drops>>

CancelPaid(p) ==
    /\ At(p, "cancelPaid")
    /\ CancelEveryVisit
    /\ Goto(p, "readPaid")
    /\ UNCHANGED <<pay, gateway, wallet, drops>>

-----------------------------------------------------------------------------
(* Ustadz and admin *)

ConfirmVisit(v) ==
    /\ status[v] = "WAITING_CONFIRM"
    /\ MoveVisit(v, {"WAITING_CONFIRM"}, "CONFIRMED")
    /\ UNCHANGED <<pay, gateway, wallet, req, drops>>

StartVisit(v) ==
    /\ status[v] = "CONFIRMED"
    /\ MoveVisit(v, {"CONFIRMED"}, "IN_PROGRESS")
    /\ UNCHANGED <<pay, gateway, wallet, req, drops>>

\* Both reviews are in, or the review window has passed.
RevealReviews(v) ==
    /\ status[v] = "COMPLETED"
    /\ MoveVisit(v, {"COMPLETED"}, "REVIEWED")
    /\ UNCHANGED <<pay, gateway, wallet, req, drops>>

Decline(p, v) ==
    /\ status[v] = "WAITING_CONFIRM"
    /\ Begin(p, v, "decline")
    /\ UNCHANGED <<status, pay, gateway, wallet, drops>>

\* The refund follows whether or not the UPDATE found the row.
DeclineVisit(p) ==
    /\ At(p, "decline")
    /\ MoveVisit(On(p), {"WAITING_CONFIRM"}, "DECLINED")
    /\ Goto(p, "readPaid")
    /\ UNCHANGED <<pay, gateway, wallet, drops>>

\* job_confirm_timeout, one visit: refunds only if its own UPDATE hit.
ConfirmTimeout(v) ==
    /\ status[v] = "WAITING_CONFIRM"
    /\ MoveVisit(v, {"WAITING_CONFIRM"}, "DECLINED")
    /\ Begin(Worker, v, "readPaid")
    /\ UNCHANGED <<pay, gateway, wallet, drops>>

\* complete_visit and admin_force_complete
Complete(p, v) ==
    /\ status[v] \in {"CONFIRMED", "IN_PROGRESS"}
    /\ Begin(p, v, "complete")
    /\ UNCHANGED <<status, pay, gateway, wallet, drops>>

CompleteVisit(p) ==
    /\ At(p, "complete")
    /\ MoveVisit(On(p), {"CONFIRMED", "IN_PROGRESS"}, "COMPLETED")
    /\ Goto(p, "readIncome")
    /\ UNCHANGED <<pay, gateway, wallet, drops>>

ForceCancel(p, v) ==
    /\ status[v] \notin Failed \cup {"NONE", "REVIEWED"}
    /\ \/ /\ status[v] \in {"WAITING_CONFIRM", "CONFIRMED", "COMPLETED"}
          /\ Begin(p, v, "forceCancelRefund")
       \/ Begin(p, v, "forceCancelKeep")
    /\ UNCHANGED <<status, pay, gateway, wallet, drops>>

ForceCancelVisit(p) ==
    /\ \/ At(p, "forceCancelRefund") /\ Goto(p, "readPaid")
       \/ At(p, "forceCancelKeep") /\ End(p)
    /\ status' = [status EXCEPT ![On(p)] = "CANCELED"]
    /\ UNCHANGED <<pay, gateway, wallet, drops>>

-----------------------------------------------------------------------------
(* earn_visit_income: for each share, COUNT the earlier EARNING, credit *)

PayeeOf(v, k) == IF Payees[k].to = "USTADZ" THEN UstadzOf[v] ELSE Payees[k].to

NextShare(p) ==
    IF req[p].payee < Len(Payees)
    THEN req' = [req EXCEPT ![p].at = "checkShare", ![p].payee = @ + 1]
    ELSE End(p)

ReadIncome(p) ==
    /\ At(p, "readIncome")
    /\ IF pay[On(p)] = "PAID" /\ Payees # <<>> THEN Goto(p, "checkShare") ELSE End(p)
    /\ UNCHANGED <<status, pay, gateway, wallet, drops>>

CheckShare(p) ==
    /\ At(p, "checkShare")
    /\ LET u == PayeeOf(On(p), req[p].payee) IN
         IF /\ u \in Users                    \* not PLATFORM
            /\ Payees[req[p].payee].share > 0
            /\ earned[u][On(p)] = 0
         THEN Goto(p, "creditShare")
         ELSE NextShare(p)
    /\ UNCHANGED <<status, pay, gateway, wallet, drops>>

CreditShare(p) ==
    /\ At(p, "creditShare")
    /\ LET u == PayeeOf(On(p), req[p].payee)
           s == Payees[req[p].payee].share IN
         /\ balance' = [balance EXCEPT ![u] = @ + s]
         /\ earned'  = [earned EXCEPT ![u][On(p)] = @ + s]
    /\ NextShare(p)
    /\ UNCHANGED <<status, pay, gateway, charged, refunded, drops>>

-----------------------------------------------------------------------------
(* Environment: the gateway and the death of a request *)

\* The santri pays an open invoice, the money settles, or it expires.
GatewayMoves(v, i) ==
    /\ \E new \in InvState :
          /\ <<invoice[v][i], new>> \in {<<"PENDING", "PAID">>, <<"PENDING", "EXPIRED">>, <<"PAID", "SETTLED">>}
          /\ invoice' = [invoice EXCEPT ![v][i] = new]
    /\ UNCHANGED <<status, pay, saved, wallet, req, drops>>

\* The client hangs up (the handler's future is dropped at an await) or the
\* process dies: what was committed stays, the rest is never run.
Drop(p) ==
    /\ req[p] # Idle
    /\ Len(drops) < MaxDrops
    /\ drops' = Append(drops, IF status[On(p)] = "DECLINED" /\ Refunding(p, On(p))
                              THEN On(p) ELSE NoVisit)
    /\ End(p)
    /\ UNCHANGED <<status, pay, gateway, wallet>>

-----------------------------------------------------------------------------
Arrive(p, v) ==
    \/ CreateVisit(p, v) \/ Pay(p, v) \/ PayDeposit(p, v)
    \/ WebhookPaid(p, v) \/ WebhookExpired(p, v)
    \/ Cancel(p, v) \/ Decline(p, v) \/ Complete(p, v) \/ ForceCancel(p, v)

Step(p) ==
    \/ InsertPayment(p) \/ IssueInvoice(p) \/ SaveInvoice(p) \/ CheckInvoice(p)
    \/ Debit(p) \/ MarkDeposit(p) \/ AcceptDeposit(p)
    \/ MarkPaid(p) \/ RereadPayment(p) \/ ReadVisit(p)
    \/ AcceptPaid(p) \/ LateCredit(p) \/ LateMark(p)
    \/ MarkExpired(p) \/ ExpireVisit(p)
    \/ ReadPaid(p) \/ RefundCredit(p) \/ RefundMark(p)
    \/ CancelUnpaid(p) \/ CancelPaid(p)
    \/ DeclineVisit(p) \/ CompleteVisit(p) \/ ForceCancelVisit(p)
    \/ ReadIncome(p) \/ CheckShare(p) \/ CreditShare(p)

Next ==
    \/ \E p \in Requests, v \in Visits : Arrive(p, v)
    \/ \E p \in Procs : Step(p) \/ Drop(p)
    \/ PollInvoice
    \/ \E v \in Visits :
          \/ ConfirmVisit(v) \/ StartVisit(v) \/ RevealReviews(v)
          \/ ConfirmTimeout(v) \/ PollPayment(v)
          \/ \E i \in Invoices : GatewayMoves(v, i)

Spec == Init /\ [][Next]_vars

\* A statement that was sent is answered, so a request in flight goes on; the
\* hourly confirm_timeout job gets its turn among the worker's jobs; the
\* gateway repeats a PAID webhook until the service takes it.
FairSpec ==
    /\ Spec
    /\ \A p \in Procs : WF_vars(Step(p))
    /\ WF_vars(PollInvoice)
    /\ \A v \in Visits : SF_vars(ConfirmTimeout(v))
    /\ \A v \in Visits : SF_vars(\E p \in Requests : WebhookPaid(p, v))

-----------------------------------------------------------------------------
(* Properties *)

\* The visit is served only after money was taken for it: no order of
\* webhooks, deposit payments, expiries and cancels lets a visit reach the
\* ustadz unpaid (apply_visit_paid, mark_visit_paid_by_deposit).
ServedIsFunded == \A v \in Visits : status[v] \in Served => Funded(v)

\* Nothing is credited to anyone for a visit whose payment was not really
\* received (refund_visit_to_deposit, earn_visit_income, late-PAID branch).
CreditsAreFunded ==
    \A v \in Visits :
        refunded[v] > 0 \/ (\E u \in Users : earned[u][v] > 0)
            => Funded(v) /\ pay[v] \in {"PAID", "REFUNDED"}

\* Income is credited only for a visit that is over: earn_visit_income runs
\* after an UPDATE whose row count is ignored, and still never pays for a
\* visit that may yet be declined or started.
EarnedIsOver ==
    \A v \in Visits : (\E u \in Users : earned[u][v] > 0) => status[v] \in Over

\* A payment is decided once: the UPDATEs to REFUNDED that name only the row
\* never revive an expired payment, and a refunded one is never paid again.
PaymentDecidedOnce ==
    [][\A v \in Visits : pay'[v] # pay[v] =>
         <<pay[v], pay'[v]>> \in {<<"NONE", "PENDING">>, <<"PENDING", "PAID">>,
                                  <<"PENDING", "EXPIRED">>, <<"PAID", "REFUNDED">>}]_vars

InFlight(v)  == \E p \in Procs : req[p].visit = v
Abandoned(v) == \E k \in 1..Len(drops) : drops[k] = v

\* A declined visit nobody works on any more has given its price back
\* (decline_visit, job_confirm_timeout, the late branch of apply_visit_paid), and
\* where it has not, one of exactly three things went before: it was paid off the
\* deposit and that debit marked no payment, because the row was not inserted or
\* already closed as EXPIRED (mark_visit_paid_by_deposit ignores its row count);
\* the deposit was debited twice; or the request that had this refund in hand
\* died.  DeclinedIsRepaid says it without the three, and the code does not keep it.
DeclinedIsReturned ==
    \A v \in Visits :
        status[v] = "DECLINED" /\ ~InFlight(v) /\ refunded[v] < Price
            => \/ charged[v] > 0 /\ ~Received(v)
               \/ charged[v] > Price
               \/ Abandoned(v)

\* A visit does not wait for the ustadz forever: it is confirmed, declined,
\* canceled, or the hourly job times it out (job_confirm_timeout).
WaitingIsResolved ==
    \A v \in Visits : status[v] = "WAITING_CONFIRM" ~> status[v] # "WAITING_CONFIRM"


\* What the booking service promises, with the ledger seen as three flags.
Promise == INSTANCE VisitPromise WITH
    funded   <- [v \in Visits |-> Funded(v)],
    returned <- [v \in Visits |-> refunded[v] > 0],
    earned   <- [v \in Visits |-> \E u \in Users : earned[u][v] > 0]

\* Every step of requests, jobs and gateway is one step of the promise.
KeepsPromise == Promise!Spec

-----------------------------------------------------------------------------
(* The inductive invariant: what a request may rely on between statements *)

Booked(v)   == status[v] # "NONE"
Beyond(v)   == status[v] \notin {"NONE", "REQUESTED"}
Delivered(v) == status[v] \in {"CONFIRMED", "IN_PROGRESS"} \cup Over

\* What each statement knows of its visit from the statements before it,
\* although other requests ran in between.
RequestKnows(p) ==
    LET v == On(p)
        among(steps) == req[p].at \in steps IN
    /\ ~At(p, "idle") => v \in Visits /\ Booked(v)
    /\ among({"saveInvoice", "checkInvoice", "pollInvoice"}) => req[p].inv \in Invoices
    /\ IF among({"checkShare", "creditShare"})
       THEN req[p].payee \in 1..Len(Payees)
       ELSE req[p].payee = 1
    /\ among({"markDeposit", "acceptDeposit"}) => charged[v] > 0
    /\ among({"markPaid", "rereadPayment"}) => Funded(v)
    /\ among({"readVisit", "acceptPaid", "lateCredit", "lateMark", "refundCredit",
              "refundMark", "checkShare", "creditShare"}) => Received(v)
    /\ among({"lateCredit", "lateMark", "decline", "forceCancelRefund", "cancelPaid",
              "readPaid", "refundCredit", "refundMark"}) => Beyond(v)
    /\ among({"complete"}) => Delivered(v)
    /\ among({"readIncome", "checkShare", "creditShare"}) => status[v] \in Over
    /\ among({"creditShare"}) => /\ PayeeOf(v, req[p].payee) \in Users
                                 /\ Payees[req[p].payee].share > 0

VisitInv(v) ==
    /\ pay[v] # "NONE" => Booked(v)
    /\ \A i \in Invoices : invoice[v][i] # "NONE" => Booked(v)
    /\ charged[v] > 0 => Booked(v)
    /\ status[v] \in Served \/ Received(v) => Funded(v)
    /\ refunded[v] > 0 => Received(v) /\ Beyond(v)
    /\ (\E u \in Users : earned[u][v] > 0) => Received(v) /\ status[v] \in Over

\* The payment row is inserted once, by the request that made the booking.
InsertedOnce ==
    \A p \in Procs : At(p, "insertPayment") =>
        /\ pay[On(p)] = "NONE"
        /\ \A q \in Procs : At(q, "insertPayment") /\ On(q) = On(p) => q = p

IInv == /\ TypeOK
        /\ \A v \in Visits : VisitInv(v)
        /\ \A p \in Procs : RequestKnows(p)
        /\ InsertedOnce

-----------------------------------------------------------------------------
(* The inductive invariant behind DeclinedIsReturned: whose duty the refund is *)

Depositing(p, v) == On(p) = v /\ req[p].at \in {"markDeposit", "acceptDeposit"}
Marking(p, v)    == On(p) = v /\ req[p].at = "markDeposit"

\* Deposit payments that overlap have each debited the deposit.
DebitsShow(v) ==
    \A p, q \in Procs :
        /\ Depositing(p, v) => charged[v] >= Price
        /\ Depositing(p, v) /\ Depositing(q, v) /\ p # q => charged[v] >= 2 * Price

\* A visit offered to the ustadz is paid, or was paid by a deposit that found
\* no pending payment; only a second debit can still mark it PAID.
Offered(v) == status[v] \in {"WAITING_CONFIRM", "DECLINED"}
OfferShows(v) ==
    Offered(v) =>
        \/ Received(v)
        \/ /\ charged[v] >= Price
           /\ \A p \in Procs : Marking(p, v) => charged[v] > Price

RefundInHand(v) ==
    status[v] = "DECLINED" /\ pay[v] = "PAID" /\ ~Abandoned(v) /\ charged[v] <= Price
        => \E p \in Procs : Refunding(p, v)

\* A payment is marked REFUNDED only after the money was credited.
Settling(p, v) == On(p) = v /\ req[p].at \in {"lateMark", "refundMark"}
MarkShows(v) ==
    pay[v] = "REFUNDED" \/ (\E p \in Procs : Settling(p, v)) => refunded[v] >= Price

RefundInv == \A v \in Visits : DebitsShow(v) /\ OfferShows(v) /\ RefundInHand(v) /\ MarkShows(v)

-----------------------------------------------------------------------------
(* Statements of the source the code does not live up to *)

Taken(v) == charged[v] + Price * Cardinality({i \in Invoices : invoice[v][i] \in Collected})

\* payments.rs:194: the money that was paid goes back to the santri.  Not
\* more than that.
ReturnsWhatWasTaken == \A v \in Visits : refunded[v] <= Taken(v)

\* service.rs:979, :983: a declined visit is refunded in full.
DeclinedIsRepaid ==
    \A v \in Visits : status[v] = "DECLINED" /\ ~InFlight(v) /\ drops = <<>> => refunded[v] >= Price

\* payments.rs:288-289: income is credited once per payee and visit.
EarnedAtMostOnce ==
    \A v \in Visits, k \in 1..Len(Payees) :
        PayeeOf(v, k) \in Users => earned[PayeeOf(v, k)][v] <= Payees[k].share

\* payments.rs:41: an invoice is reused, never doubled, while one is open.
OneOpenInvoice ==
    \A v \in Visits, i, j \in Invoices :
        invoice[v][i] = "PENDING" /\ invoice[v][j] = "PENDING" => i = j

\* payments.rs:98-100: after the debit the payment is marked PAID.
DepositMarksPaid ==
    \A p \in Procs : At(p, "acceptDeposit") => pay[On(p)] \in {"PAID", "REFUNDED"}

\* service.rs:619: a santri cannot cancel a visit the ustadz has confirmed.
SantriLeavesConfirmed ==
    [][\A v \in Visits :
         status[v] = "CONFIRMED" /\ status'[v] = "CANCELED" =>
            \E p \in Procs : ForceCancelVisit(p)]_vars

\* payments.rs:159: money that arrives after the visit was canceled, declined
\* or expired goes back to the santri's balance.
LateMoneyComesBack ==
    \A v \in Visits :
        status[v] \in Failed /\ (\E i \in Invoices : invoice[v][i] \in Collected)
            ~> refunded[v] > 0

=============================================================================
