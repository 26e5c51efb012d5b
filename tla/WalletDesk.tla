------------------------------ MODULE WalletDesk ------------------------------
(***************************************************************************)
(* Money that leaves a wallet through the admin's desk: withdrawals of     *)
(* ustadz and infaq recipients (src/modules/visits/payments.rs, handler.rs)*)
(* and balance adjustments an admin proposes and the user accepts or       *)
(* rejects (src/modules/wallet/admin_service.rs), over the balances of     *)
(* src/modules/wallet/service.rs.                                          *)
(*                                                                         *)
(* As in VisitSettlement a request is a small program and one statement,   *)
(* or one BEGIN..COMMIT, is one action; reads whose result only guards the *)
(* next statement, and are repeated in its WHERE clause, are merged with   *)
(* it.  Notifications, audit rows and bank details are left out.           *)
(***************************************************************************)
EXTENDS Wallets

CONSTANTS
    Deposit,         \* opening balances                      [Users -> Nat]
    Fee, Minimum,    \* payout_fee_amount and payout_min_amount of the user's
                     \* kind (ustadz or infaq)                [Users -> Nat]
    Amounts,         \* amounts a user may ask to withdraw
    Changes,         \* amounts an admin may propose
    Payouts,         \* rows of payout_requests
    Adjustments,     \* rows of admin_wallet_adjustments
    Nobody

ASSUME WalletDeskAssumption ==
    /\ Deposit \in [Users -> Nat]
    /\ Fee \in [Users -> Nat] /\ Minimum \in [Users -> Nat]
    /\ Amounts \subseteq Int /\ Changes \subseteq Int
    /\ Nobody \notin Users /\ Nothing \notin Payouts \cup Adjustments
    /\ IsFiniteSet(Users) /\ IsFiniteSet(Requests)
    /\ IsFiniteSet(Payouts) /\ IsFiniteSet(Adjustments)
    /\ MaxInFlight \in Nat /\ MaxDrops \in Nat

VARIABLES
    balance,         \* wallets.balance
    drawn,           \* wallet_transactions PAYOUT of a user, summed
    payout,          \* payout_requests
    returned,        \* wallet_transactions REFUND of a payout, summed
    sent,            \* history: what was marked transferred for a payout, fee included
    overtaken,       \* history: what rejections gave back for a payout that
                     \* another decision had taken since they read it
    adjustment,      \* admin_wallet_adjustments
    applied,         \* change of the balance made for an adjustment, summed
    deskReq,         \* requests in flight
    deskDrops        \* requests that died half-way

payouts     == <<drawn, payout, returned, sent, overtaken>>
adjustments == <<adjustment, applied>>
deskVars    == <<balance, payouts, adjustments, deskReq, deskDrops>>

PayoutState     == {"NONE", "PENDING", "APPROVED", "TRANSFERRED", "REJECTED"}
AdjustmentState == {"NONE", "PENDING", "ACCEPTED", "REJECTED"}
DeskSteps       == {"idle", "debitPayout", "insertPayout", "rejectPayout", "acceptAdjustment"}

Task(step, u, item, gross) == [at |-> step, user |-> u, item |-> item, gross |-> gross]
DeskIdle == Task("idle", Nobody, Nothing, 0)

DeskTypeOK ==
    /\ balance    \in [Users -> Nat]
    /\ drawn      \in [Users -> Nat]
    /\ payout     \in [Payouts -> [status : PayoutState, user : Users \cup {Nobody},
                                   net : Int, fee : Nat]]
    /\ returned   \in [Payouts -> Nat]
    /\ sent       \in [Payouts -> Nat] /\ overtaken \in [Payouts -> Nat]
    /\ adjustment \in [Adjustments -> [status : AdjustmentState,
                                       user : Users \cup {Nobody}, amount : Int]]
    /\ applied    \in [Adjustments -> Int]
    /\ deskReq    \in [Requests -> [at : DeskSteps, user : Users \cup {Nobody},
                                    item : Payouts \cup Adjustments \cup {Nothing}, gross : Int]]
    /\ deskDrops  \in 0..MaxDrops

DeskInit ==
    /\ balance    = Deposit
    /\ drawn      = [u \in Users |-> 0]
    /\ payout     = [k \in Payouts |-> [status |-> "NONE", user |-> Nobody, net |-> 0, fee |-> 0]]
    /\ returned   = [k \in Payouts |-> 0]
    /\ sent       = [k \in Payouts |-> 0]
    /\ overtaken  = [k \in Payouts |-> 0]
    /\ adjustment = [a \in Adjustments |-> [status |-> "NONE", user |-> Nobody, amount |-> 0]]
    /\ applied    = [a \in Adjustments |-> 0]
    /\ deskReq    = [p \in Requests |-> DeskIdle]
    /\ deskDrops  = 0

DeskAt(p, step) == deskReq[p].at = step
DeskBegin(p, task) ==
    /\ deskReq[p] = DeskIdle
    /\ Quantify(Requests, LAMBDA q : deskReq[q] # DeskIdle) < MaxInFlight
    /\ deskReq' = [deskReq EXCEPT ![p] = task]
DeskGoto(p, step) == deskReq' = [deskReq EXCEPT ![p].at = step]
DeskEnd(p)        == deskReq' = [deskReq EXCEPT ![p] = DeskIdle]

\* What was debited for a payout: the amount to transfer and the fee.
Gross(k) == payout[k].net + payout[k].fee

\* Payouts whose money is still the desk's to send or to give back.
Undecided == {k \in Payouts : payout[k].status \in {"PENDING", "APPROVED"}}

\* UPDATE payout_requests SET status = new WHERE id = k AND status = old
MovePayout(k, old, new) ==
    /\ payout[k].status = old
    /\ payout' = [payout EXCEPT ![k].status = new]

-----------------------------------------------------------------------------
(* Faults the code could have: each changes one action below. *)

\* The request is stored with the whole amount, the fee on top.
InsertPayoutGross(p) ==
    /\ DeskAt(p, "insertPayout")
    /\ \E k \in Payouts :
          /\ payout[k].status = "NONE"
          /\ payout' = [payout EXCEPT ![k] =
                [status |-> "PENDING", user |-> deskReq[p].user,
                 net |-> deskReq[p].gross, fee |-> Fee[deskReq[p].user]]]
    /\ DeskEnd(p)
    /\ UNCHANGED <<balance, drawn, returned, sent, overtaken, adjustments, deskDrops>>

\* A rejected payout gives back what would have been transferred: the fee is
\* lost (the older admin_reject, payments.rs:666, does so).
RejectPayoutNet(p) ==
    /\ DeskAt(p, "rejectPayout")
    /\ LET k == deskReq[p].item
           u == payout[k].user IN
         /\ payout'   = [payout EXCEPT ![k].status = "REJECTED"]
         /\ balance'  = [balance EXCEPT ![u] = @ + payout[k].net]
         /\ returned' = [returned EXCEPT ![k] = @ + payout[k].net]
    /\ DeskEnd(p)
    /\ UNCHANGED <<drawn, sent, overtaken, adjustments, deskDrops>>

\* The status asked for by mark-transferred is not checked.
MarkTransferredAny(k) ==
    /\ payout[k].status # "NONE"
    /\ payout' = [payout EXCEPT ![k].status = "TRANSFERRED"]
    /\ sent' = [sent EXCEPT ![k] = @ + Gross(k)]
    /\ UNCHANGED <<balance, drawn, returned, overtaken, adjustments, deskReq, deskDrops>>

\* The rejection of an adjustment does not ask for a PENDING one.
RejectAdjustmentAny(a) ==
    /\ adjustment[a].status # "NONE"
    /\ adjustment' = [adjustment EXCEPT ![a].status = "REJECTED"]
    /\ UNCHANGED <<balance, payouts, applied, deskReq, deskDrops>>

\* A rejected payout is marked, and the money stays where it is.
RejectPayoutKeeping(p) ==
    /\ DeskAt(p, "rejectPayout")
    /\ payout' = [payout EXCEPT ![deskReq[p].item].status = "REJECTED"]
    /\ DeskEnd(p)
    /\ UNCHANGED <<balance, drawn, returned, sent, overtaken, adjustments, deskDrops>>

-----------------------------------------------------------------------------
(* create_payout: check the minimum, debit, then insert the request *)

\* A user's own request, or an admin's on behalf of an infaq recipient.
RequestPayout(p, u, a) ==
    /\ a > 0 /\ a >= Minimum[u]
    /\ DeskBegin(p, Task("debitPayout", u, Nothing, a))
    /\ UNCHANGED <<balance, payouts, adjustments, deskDrops>>

DebitPayout(p) ==
    /\ DeskAt(p, "debitPayout")
    /\ LET u == deskReq[p].user
           a == deskReq[p].gross IN
         \/ /\ balance[u] >= a
            /\ balance' = [balance EXCEPT ![u] = @ - a]
            /\ drawn'   = [drawn EXCEPT ![u] = @ + a]
            /\ DeskGoto(p, "insertPayout")
         \/ /\ balance[u] < a
            /\ DeskEnd(p)
            /\ UNCHANGED <<balance, drawn>>
    /\ UNCHANGED <<payout, returned, sent, overtaken, adjustments, deskDrops>>

InsertPayout(p) ==
    /\ DeskAt(p, "insertPayout")
    /\ \E k \in Payouts :
          /\ payout[k].status = "NONE"
          /\ payout' = [payout EXCEPT ![k] =
                [status |-> "PENDING", user |-> deskReq[p].user,
                 net |-> deskReq[p].gross - Fee[deskReq[p].user], fee |-> Fee[deskReq[p].user]]]
    /\ DeskEnd(p)
    /\ UNCHANGED <<balance, drawn, returned, sent, overtaken, adjustments, deskDrops>>

-----------------------------------------------------------------------------
(* The admin's decisions on a payout *)

ApprovePayout(k) ==
    /\ MovePayout(k, "PENDING", "APPROVED")
    /\ UNCHANGED <<balance, drawn, returned, sent, overtaken, adjustments, deskReq, deskDrops>>

\* One id of the list; an id in another status is skipped.
MarkTransferred(k) ==
    /\ MovePayout(k, "APPROVED", "TRANSFERRED")
    /\ sent' = [sent EXCEPT ![k] = @ + Gross(k)]
    /\ UNCHANGED <<balance, drawn, returned, overtaken, adjustments, deskReq, deskDrops>>

\* The status is read outside the transaction ...
Reject(p, k) ==
    /\ k \in Undecided
    /\ DeskBegin(p, Task("rejectPayout", payout[k].user, k, Gross(k)))
    /\ UNCHANGED <<balance, payouts, adjustments, deskDrops>>

\* ... whose UPDATE names the row only.
RejectPayout(p) ==
    /\ DeskAt(p, "rejectPayout")
    /\ LET k == deskReq[p].item IN
         /\ payout'   = [payout EXCEPT ![k].status = "REJECTED"]
         /\ balance'  = [balance EXCEPT ![deskReq[p].user] = @ + deskReq[p].gross]
         /\ returned' = [returned EXCEPT ![k] = @ + deskReq[p].gross]
         /\ overtaken' = IF k \in Undecided THEN overtaken
                         ELSE [overtaken EXCEPT ![k] = @ + deskReq[p].gross]
    /\ DeskEnd(p)
    /\ UNCHANGED <<drawn, sent, adjustments, deskDrops>>

-----------------------------------------------------------------------------
(* Adjustments: proposed by an admin, accepted or rejected by the user *)

ProposeAdjustment(a, u, amount) ==
    /\ adjustment[a].status = "NONE"
    /\ amount # 0
    /\ adjustment' = [adjustment EXCEPT ![a] = [status |-> "PENDING", user |-> u, amount |-> amount]]
    /\ UNCHANGED <<balance, payouts, applied, deskReq, deskDrops>>

\* The status is read outside the transaction ...
Accept(p, a) ==
    /\ adjustment[a].status = "PENDING"
    /\ DeskBegin(p, Task("acceptAdjustment", adjustment[a].user, a, adjustment[a].amount))
    /\ UNCHANGED <<balance, payouts, adjustments, deskDrops>>

\* ... whose UPDATE names the row only.  A deduction the balance does not
\* cover changes no wallet row, and the adjustment is accepted all the same.
AcceptAdjustment(p) ==
    /\ DeskAt(p, "acceptAdjustment")
    /\ LET a == deskReq[p].item
           u == deskReq[p].user
           change == IF deskReq[p].gross > 0 \/ balance[u] >= -deskReq[p].gross THEN deskReq[p].gross ELSE 0 IN
         /\ balance'    = [balance EXCEPT ![u] = @ + change]
         /\ applied'    = [applied EXCEPT ![a] = @ + change]
         /\ adjustment' = [adjustment EXCEPT ![a].status = "ACCEPTED"]
    /\ DeskEnd(p)
    /\ UNCHANGED <<payouts, deskDrops>>

RejectAdjustment(a) ==
    /\ adjustment[a].status = "PENDING"
    /\ adjustment' = [adjustment EXCEPT ![a].status = "REJECTED"]
    /\ UNCHANGED <<balance, payouts, applied, deskReq, deskDrops>>

\* The client hangs up or the process dies between two statements.
DeskDrop(p) ==
    /\ deskReq[p] # DeskIdle
    /\ deskDrops < MaxDrops
    /\ deskDrops' = deskDrops + 1
    /\ DeskEnd(p)
    /\ UNCHANGED <<balance, payouts, adjustments>>

-----------------------------------------------------------------------------
DeskNext ==
    \/ \E p \in Requests :
          \/ \E u \in Users, a \in Amounts : RequestPayout(p, u, a)
          \/ \E k \in Payouts : Reject(p, k)
          \/ \E a \in Adjustments : Accept(p, a)
          \/ DebitPayout(p) \/ InsertPayout(p) \/ RejectPayout(p) \/ AcceptAdjustment(p)
          \/ DeskDrop(p)
    \/ \E k \in Payouts : ApprovePayout(k) \/ MarkTransferred(k)
    \/ \E a \in Adjustments :
          \/ RejectAdjustment(a)
          \/ \E u \in Users, c \in Changes : ProposeAdjustment(a, u, c)

DeskSpec == DeskInit /\ [][DeskNext]_deskVars

-----------------------------------------------------------------------------
(* Properties *)

Inserting(u) == {p \in Requests : DeskAt(p, "insertPayout") /\ deskReq[p].user = u}
PayoutsOf(u) == {k \in Payouts : payout[k].user = u}

Requested(ps) == SumFunctionOnSet([p \in Requests |-> deskReq[p].gross], ps)
Withdrawn(ks) == SumFunctionOnSet([k \in Payouts |-> Gross(k)], ks)

\* Every payout request is backed by a debit of the wallet, through any order
\* of requests: what was debited for a user is what the user's requests and
\* the one being inserted name, and more only if a request died in between
\* (create_payout debits first and inserts afterwards, in two commits).
PayoutsAreDebited ==
    \A u \in Users :
        LET named == Withdrawn(PayoutsOf(u)) + Requested(Inserting(u)) IN
        /\ named <= drawn[u]
        /\ deskDrops = 0 => named = drawn[u]

\* A rejected payout has given back all that was debited, the fee included
\* (admin_payout_reject), whichever request rejected it.
RejectedIsReturned ==
    \A k \in Payouts : payout[k].status = "REJECTED" => returned[k] >= Gross(k)

\* Money that went back to the wallet is not transferred afterwards: no order
\* of rejections, approvals and mark-transferred draws a payout a second time.
ReturnedIsNotTransferred ==
    [][\A k \in Payouts : returned[k] > 0 => payout'[k].status # "TRANSFERRED"]_deskVars

\* Only an adjustment the user accepted has changed the balance: a rejection
\* that overlaps the acceptance does not win over it.
AppliedIsAccepted ==
    \A a \in Adjustments : applied[a] # 0 => adjustment[a].status = "ACCEPTED"

\* Every rupiah is somewhere, whichever requests overlap: the opening balances
\* and what accepted adjustments changed are in the wallets, in payouts that are
\* not decided, in what was transferred, or in the request being inserted.  A
\* request that dies between its debit and its insert loses its amount, no death
\* makes money; and money is made in one way only, by a rejection whose UPDATE
\* names the row alone and finds the payout transferred or rejected since it was
\* read: exactly that payout's gross is then paid a second time, and nothing
\* else makes up for it (admin_payout_reject; TransferredIsKept and ReturnedOnce
\* say that it does not happen, and the code does not keep them).
MoneyIsConserved ==
    LET held  == SumFunctionOnSet(balance, Users)
                 + Withdrawn(Undecided)
                 + SumFunctionOnSet(sent, Payouts)
                 + Requested({p \in Requests : DeskAt(p, "insertPayout")})
        given == SumFunctionOnSet(Deposit, Users)
                 + SumFunctionOnSet([a \in Adjustments |->
                                       IF adjustment[a].status = "ACCEPTED" THEN applied[a] ELSE 0],
                                    Adjustments)
                 + SumFunctionOnSet(overtaken, Payouts)
    IN /\ held <= given
       /\ deskDrops = 0 => held = given

-----------------------------------------------------------------------------
(* The inductive invariant: the rows, and what a request knows of them *)

PayoutInv(k) ==
    IF payout[k].status = "NONE"
    THEN payout[k].user = Nobody /\ returned[k] = 0 /\ Gross(k) = 0
    ELSE /\ payout[k].user \in Users /\ Gross(k) > 0
         /\ returned[k] > 0 => payout[k].status = "REJECTED"

\* What was read of a row outside the transaction is still so: no statement
\* changes the owner or the amount of a payout or an adjustment.
DeskKnows(p) ==
    LET r == deskReq[p] IN
    /\ r.at # "idle" => r.user \in Users
    /\ r.at \in {"debitPayout", "insertPayout"} => r.gross > 0
    /\ r.at = "rejectPayout" => /\ r.item \in Payouts
                                /\ payout[r.item].status # "NONE"
                                /\ r.user = payout[r.item].user /\ r.gross = Gross(r.item)
    /\ r.at = "acceptAdjustment" => /\ r.item \in Adjustments
                                    /\ adjustment[r.item].status # "NONE"

AdjustmentInv(a) == adjustment[a].status # "NONE" => adjustment[a].user \in Users

RowsInv == /\ DeskTypeOK
           /\ \A k \in Payouts : PayoutInv(k)
           /\ \A a \in Adjustments : AdjustmentInv(a)
           /\ \A p \in Requests : DeskKnows(p)
           /\ RejectedIsReturned /\ AppliedIsAccepted

DeskInv == RowsInv /\ PayoutsAreDebited /\ MoneyIsConserved

-----------------------------------------------------------------------------
(* Statements of the source the code does not live up to *)

\* payments.rs:730-731: a rejection gives back what was debited.  Not more.
ReturnedOnce == \A k \in Payouts : returned[k] <= Gross(k)

\* payments.rs:492: the debit at the request prevents a second withdrawal of
\* the same money.
TransferredIsKept ==
    [][\A k \in Payouts : payout[k].status = "TRANSFERRED" => returned'[k] = returned[k]]_deskVars

\* admin_service.rs:101: an accepted adjustment changes the balance.
AcceptedIsApplied ==
    \A a \in Adjustments : adjustment[a].status = "ACCEPTED" => applied[a] = adjustment[a].amount

=============================================================================
