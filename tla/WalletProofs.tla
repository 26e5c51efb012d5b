---------------------------- MODULE WalletProofs ----------------------------
(***************************************************************************)
(* The two ways money moves between a wallet and the world outside the     *)
(* visits, for any number of rows, users, requests and deaths: TopUp, and  *)
(* WalletDesk, whose names begin with Desk where the two would meet.       *)
(*                                                                         *)
(* TopUp: events repeat without bound, and the request that closes a       *)
(* payment is not the transaction that credits it.  A top-up is credited   *)
(* once because only one request can close it as paid, and because no      *)
(* payment that was closed is PENDING again.                               *)
(*                                                                         *)
(* The desk: every statement that moves money names a row whose owner and  *)
(* amount no other statement changes (RowsInv), so each moves one summand  *)
(* of each sum by the same amount.  The lemmas on SumFunctionOnSet it      *)
(* needs are proved first, each from a smallest set that refutes it.       *)
(***************************************************************************)
EXTENDS TopUp, WalletDesk, FiniteSetTheorems, TLAPS

Legal == {<<"NONE", "PENDING">>, <<"PENDING", "PAID">>, <<"PENDING", "EXPIRED">>,
          <<"PAID", "REFUNDED">>}

\* What a step may do to the payments.
ClosesLegally == \A t \in TopUps : pay'[t] # pay[t] => <<pay[t], pay'[t]>> \in Legal

Closed == {"PAID", "REFUNDED"}
After  == {"readVisit", "acceptPaid", "lateCredit", "lateMark", "creditTopUp"}
Tasks  == [at : Steps, topup : TopUps \cup {Nothing}]

\* The variables the invariant only says types of.
OtherTypes ==
    /\ saved   \in [TopUps -> BOOLEAN]
    /\ invoice \in [TopUps -> {"NONE", "PENDING", "PAID", "EXPIRED"}]
    /\ visit   \in [Users -> VisitState]
    /\ given   \in [Users -> Nat]
    /\ drops   \in 0..MaxDrops

\* Request p goes on to task; it is to credit only what was not closed before.
Proceeds(p, task) ==
    /\ req' = [req EXCEPT ![p] = task]
    /\ task \in Tasks
    /\ task.at # "idle" => task.topup \in TopUps
    /\ task.at \in After => pay'[task.topup] \in Closed
    /\ task.at = "creditTopUp" => pay[task.topup] \notin Closed

-----------------------------------------------------------------------------
\* Initially nothing is paid and nobody works.
LEMMA InitInv ==
    ASSUME TopUpAssumption, Init
    PROVE  IInv
  BY DEF TopUpAssumption, Init, IInv, TypeOK, RequestKnows, OneCredits, CreditedOnce, Pending,
         At, Idle, PayState, VisitState, Steps

\* A payment that is PENDING is closed, any other is left alone.
LEMMA Closing ==
    ASSUME TypeOK, NEW t \in TopUps, NEW new \in {"PAID", "EXPIRED"}, ClosePending(t, new)
    PROVE  /\ pay' \in [TopUps -> PayState]
           /\ ClosesLegally
           /\ pay[t] = "PENDING" => pay'[t] = new
           /\ pay[t] # "PENDING" => pay'[t] = pay[t]
  BY DEF TypeOK, ClosePending, ClosesLegally, Legal, PayState

\* A step that credits nothing.
LEMMA ProceedStep ==
    ASSUME TopUpAssumption, IInv, NEW p \in Procs, NEW task, Proceeds(p, task),
           pay' \in [TopUps -> PayState], ClosesLegally, UNCHANGED credited, OtherTypes'
    PROVE  IInv'
PROOF
  <1>1. /\ req'[p] = task
        /\ \A q \in Procs : q # p => req'[q] = req[q]
        /\ req' \in [Procs -> Tasks]
    BY DEF Proceeds, IInv, TypeOK, Tasks
  <1>2. \A t \in TopUps : pay[t] \in Closed => pay'[t] \in Closed
    BY DEF ClosesLegally, Legal, Closed
  <1>3. \A t \in TopUps : pay[t] \notin Closed =>
           /\ credited[t] = 0
           /\ \A q \in Procs : req[q].at = "creditTopUp" => req[q].topup # t
    BY DEF IInv, TypeOK, CreditedOnce, Pending, At, Closed
  <1>4. task.at = "creditTopUp" => task.topup \in TopUps
    BY DEF Proceeds
  <1>5. TypeOK'
    BY <1>1 DEF IInv, TypeOK, OtherTypes, Tasks
  <1>6. (\A q \in Procs : RequestKnows(q))'
    <2> SUFFICES ASSUME NEW q \in Procs PROVE RequestKnows(q)'
      OBVIOUS
    <2>1. CASE q = p
      BY <2>1, <1>1, <1>3, <1>4 DEF Proceeds, RequestKnows, After, Closed
    <2>2. CASE q # p
      BY <2>2, <1>1, <1>2 DEF IInv, RequestKnows, After, Closed
    <2> QED BY <2>1, <2>2
  <1>7. OneCredits'
    <2> SUFFICES ASSUME NEW q \in Procs, NEW r \in Procs,
                        req'[q].at = "creditTopUp", req'[r].at = "creditTopUp",
                        req'[q].topup = req'[r].topup, q # r
                 PROVE  FALSE
      BY DEF OneCredits, At
    <2>1. task.at = "creditTopUp" => pay[task.topup] \notin Closed
      BY DEF Proceeds
    <2>2. CASE q = p
      BY <2>1, <2>2, <1>1, <1>3, <1>4
    <2>3. CASE r = p
      BY <2>1, <2>3, <1>1, <1>3, <1>4
    <2>4. CASE q # p /\ r # p
      BY <2>4, <1>1 DEF IInv, OneCredits, At
    <2> QED BY <2>2, <2>3, <2>4
  <1>8. CreditedOnce'
    <2> SUFFICES ASSUME NEW t \in TopUps
                 PROVE  /\ credited'[t] \in {0, Amount}
                        /\ credited'[t] > 0 \/ Pending(t)' => pay'[t] \in Closed
      BY DEF CreditedOnce, Closed
    <2>1. credited'[t] = credited[t] /\ credited[t] \in {0, Amount}
      BY DEF IInv, CreditedOnce
    <2>2. credited[t] > 0 => pay'[t] \in Closed
      BY <1>2 DEF IInv, CreditedOnce, Closed
    <2>3. Pending(t)' => pay'[t] \in Closed
      BY <1>6 DEF Pending, At, RequestKnows, Closed
    <2> QED BY <2>1, <2>2, <2>3
  <1> QED
    BY <1>5, <1>6, <1>7, <1>8 DEF IInv

\* A request goes on to its next statement.
LEMMA GotoProceeds ==
    ASSUME IInv, NEW p \in Procs, req[p].at # "idle", NEW step \in Steps, Goto(p, step),
           step \in After => pay'[req[p].topup] \in Closed,
           step = "creditTopUp" => pay[req[p].topup] \notin Closed
    PROVE  \E task : Proceeds(p, task)
PROOF
  <1> DEFINE task == [req[p] EXCEPT !.at = step]
  <1>1. req[p] \in Tasks /\ req[p].topup \in TopUps
    BY DEF IInv, TypeOK, Tasks, RequestKnows
  <1>2. task \in Tasks /\ task.at = step /\ task.topup = req[p].topup
    BY <1>1 DEF Tasks
  <1>3. req' = [req EXCEPT ![p] = task]
    BY DEF Goto
  <1> QED BY <1>1, <1>2, <1>3 DEF Proceeds

\* A request ends.
LEMMA EndProceeds ==
    ASSUME TopUpAssumption, NEW p \in Procs, End(p)
    PROVE  \E task : Proceeds(p, task)
PROOF
  <1>1. Proceeds(p, Idle)
    BY DEF End, Idle, Proceeds, Tasks, Steps, After
  <1> QED BY <1>1

\* A request begins with a step that asks for nothing yet.
LEMMA BeginProceeds ==
    ASSUME NEW p \in Procs, NEW t \in TopUps, NEW step \in Steps \ After, Begin(p, t, step)
    PROVE  \E task : Proceeds(p, task)
PROOF
  <1>1. Proceeds(p, [at |-> step, topup |-> t])
    BY DEF Begin, Proceeds, Tasks, After
  <1> QED BY <1>1

-----------------------------------------------------------------------------
(* The actions *)

\* Statements that leave the payments alone.
LEMMA QuietStep ==
    ASSUME TopUpAssumption, IInv, NEW p \in Procs,
           \/ IssueInvoice(p) \/ SaveInvoice(p) \/ RereadPayment(p) \/ ReadVisit(p)
           \/ AcceptPaid(p) \/ LateCredit(p) \/ ExpireVisit(p) \/ Drop(p)
    PROVE  IInv' /\ ClosesLegally
PROOF
  <1>1. UNCHANGED <<pay, credited>>
    BY DEF IssueInvoice, SaveInvoice, RereadPayment, ReadVisit, AcceptPaid, LateCredit,
           ExpireVisit, Drop, visits
  <1>2. ClosesLegally /\ pay' \in [TopUps -> PayState]
    BY <1>1 DEF ClosesLegally, IInv, TypeOK
  <1>3. At(p, "idle") \/ req[p].topup \in TopUps
    BY DEF IInv, RequestKnows, At
  <1>4. OtherTypes' /\ \E task : Proceeds(p, task)
    <2>1. CASE IssueInvoice(p)
      <3>1. OtherTypes'
        BY <2>1, <1>3 DEF IssueInvoice, At, visits, IInv, TypeOK, OtherTypes
      <3>2. Goto(p, "saveInvoice") \/ End(p)
        BY <2>1 DEF IssueInvoice
      <3> QED
        BY <2>1, <3>1, <3>2, GotoProceeds, EndProceeds DEF IssueInvoice, At, Steps, After
    <2>2. CASE SaveInvoice(p)
      <3>1. OtherTypes'
        BY <2>2, <1>3 DEF SaveInvoice, At, visits, IInv, TypeOK, OtherTypes
      <3> QED
        BY <2>2, <3>1, EndProceeds DEF SaveInvoice
    <2>3. CASE RereadPayment(p)
      <3>1. OtherTypes'
        BY <2>3 DEF RereadPayment, visits, IInv, TypeOK, OtherTypes
      <3>2. CASE Goto(p, "readVisit") /\ pay[req[p].topup] = "PAID"
        BY <2>3, <3>1, <3>2, <1>1, GotoProceeds DEF RereadPayment, At, Steps, Closed
      <3> QED
        BY <2>3, <3>1, <3>2, EndProceeds DEF RereadPayment
    <2>4. CASE ReadVisit(p)
      <3>1. OtherTypes'
        BY <2>4 DEF ReadVisit, visits, IInv, TypeOK, OtherTypes
      <3>2. pay[req[p].topup] \in Closed /\ req[p].at = "readVisit"
        BY <2>4 DEF ReadVisit, At, IInv, RequestKnows, Closed
      <3>3. Goto(p, "acceptPaid") \/ Goto(p, "lateCredit") \/ End(p)
        BY <2>4 DEF ReadVisit
      <3> QED
        BY <3>1, <3>2, <3>3, <1>1, GotoProceeds, EndProceeds DEF Steps
    <2>5. CASE AcceptPaid(p)
      <3>1. OtherTypes'
        BY <2>5 DEF AcceptPaid, IInv, TypeOK, OtherTypes, VisitState
      <3> QED
        BY <2>5, <3>1, EndProceeds DEF AcceptPaid
    <2>6. CASE LateCredit(p)
      <3>1. StrayVisit(p) \in Users
        BY <2>6, <1>3, TopUpAssumption DEF LateCredit, At, TopUpAssumption, StrayVisit
      <3>2. OtherTypes'
        BY <2>6, <3>1 DEF LateCredit, IInv, TypeOK, OtherTypes, TopUpAssumption
      <3>3. pay[req[p].topup] \in Closed /\ req[p].at = "lateCredit"
        BY <2>6 DEF LateCredit, At, IInv, RequestKnows, Closed
      <3> QED
        BY <2>6, <3>2, <3>3, <1>1, GotoProceeds DEF LateCredit, Steps
    <2>7. CASE ExpireVisit(p)
      <3>1. OtherTypes'
        BY <2>7 DEF ExpireVisit, IInv, TypeOK, OtherTypes, VisitState, Failed
      <3> QED
        BY <2>7, <3>1, EndProceeds DEF ExpireVisit
    <2>8. CASE Drop(p)
      <3>1. OtherTypes'
        BY <2>8 DEF Drop, visits, IInv, TypeOK, OtherTypes, TopUpAssumption
      <3> QED
        BY <2>8, <3>1, EndProceeds DEF Drop
    <2> QED
      BY <2>1, <2>2, <2>3, <2>4, <2>5, <2>6, <2>7, <2>8
  <1> QED
    BY <1>1, <1>2, <1>4, ProceedStep

\* UPDATEs guarded by PENDING, and what the row count decides.
LEMMA ClosingStep ==
    ASSUME TopUpAssumption, IInv, NEW p \in Procs,
           TopUpPaid(p) \/ TopUpExpired(p) \/ MarkPaid(p) \/ MarkExpired(p)
    PROVE  IInv' /\ ClosesLegally
PROOF
  <1> DEFINE t == req[p].topup
  <1>1. t \in TopUps /\ req[p].at # "idle"
    BY DEF TopUpPaid, TopUpExpired, MarkPaid, MarkExpired, At, IInv, RequestKnows
  <1>2. PICK new \in {"PAID", "EXPIRED"} : ClosePending(t, new)
    BY DEF TopUpPaid, TopUpExpired, MarkPaid, MarkExpired
  <1>3. /\ pay' \in [TopUps -> PayState]
        /\ ClosesLegally
        /\ pay[t] = "PENDING" => pay'[t] = new
        /\ pay[t] # "PENDING" => pay'[t] = pay[t]
    BY <1>1, <1>2, Closing DEF IInv
  <1>4. UNCHANGED credited /\ OtherTypes'
    BY DEF TopUpPaid, TopUpExpired, MarkPaid, MarkExpired, visits, IInv, TypeOK, OtherTypes
  <1>5. \E task : Proceeds(p, task)
    <2>1. CASE TopUpPaid(p)
      <3>1. CASE pay[t] = "PENDING"
        <4>1. pay'[t] = "PAID"
          BY <2>1, <3>1, <1>1, Closing DEF TopUpPaid, IInv
        <4> QED
          BY <2>1, <3>1, <4>1, <1>1, GotoProceeds DEF TopUpPaid, Steps, Closed
      <3> QED
        BY <2>1, <3>1, EndProceeds DEF TopUpPaid
    <2>2. CASE TopUpExpired(p)
      BY <2>2, EndProceeds DEF TopUpExpired
    <2>3. CASE MarkPaid(p)
      <3>1. CASE pay[t] = "PENDING"
        <4>1. pay'[t] = "PAID"
          BY <2>3, <3>1, <1>1, Closing DEF MarkPaid, IInv
        <4> QED
          BY <2>3, <3>1, <4>1, <1>1, GotoProceeds DEF MarkPaid, Steps, Closed
      <3>2. CASE pay[t] # "PENDING"
        BY <2>3, <3>2, <1>1, GotoProceeds DEF MarkPaid, Steps, After
      <3> QED BY <3>1, <3>2
    <2>4. CASE MarkExpired(p)
      <3>1. Goto(p, "expireVisit") \/ End(p)
        BY <2>4 DEF MarkExpired
      <3> QED
        BY <3>1, <1>1, GotoProceeds, EndProceeds DEF Steps, After
    <2> QED BY <2>1, <2>2, <2>3, <2>4
  <1> QED
    BY <1>3, <1>4, <1>5, ProceedStep

\* The late branch marks a payment of a visit it was not made for.
LEMMA LateMarkStep ==
    ASSUME TopUpAssumption, IInv, NEW p \in Procs, LateMark(p)
    PROVE  IInv' /\ ClosesLegally
PROOF
  <1>1. req[p].topup \in TopUps /\ pay[req[p].topup] \in Closed
    BY DEF LateMark, At, IInv, RequestKnows, Closed
  <1>2. pay' \in [TopUps -> PayState] /\ ClosesLegally
    BY <1>1 DEF LateMark, IInv, TypeOK, PayState, ClosesLegally, Legal, Closed
  <1>3. UNCHANGED credited /\ OtherTypes'
    BY DEF LateMark, visits, IInv, TypeOK, OtherTypes
  <1> QED
    BY <1>2, <1>3, EndProceeds, ProceedStep DEF LateMark

\* The credit: by the only request that is to credit this top-up.
LEMMA CreditStep ==
    ASSUME TopUpAssumption, IInv, NEW p \in Procs, CreditTopUp(p)
    PROVE  IInv' /\ ClosesLegally
PROOF
  <1> DEFINE t == req[p].topup
  <1>1. /\ req[p].at = "creditTopUp" /\ t \in TopUps
        /\ pay[t] \in Closed /\ credited[t] = 0
    BY DEF CreditTopUp, At, IInv, RequestKnows, Closed
  <1>2. /\ req'[p] = Idle
        /\ \A q \in Procs : q # p => req'[q] = req[q]
        /\ req' \in [Procs -> Tasks]
    BY DEF CreditTopUp, End, IInv, TypeOK, Idle, Tasks, Steps
  <1>3. /\ credited'[t] = Amount
        /\ \A s \in TopUps : s # t => credited'[s] = credited[s]
        /\ credited' \in [TopUps -> Nat]
    BY <1>1 DEF CreditTopUp, IInv, TypeOK, TopUpAssumption
  <1>4. UNCHANGED pay
    BY DEF CreditTopUp
  <1>5. TypeOK'
    BY <1>2, <1>3 DEF CreditTopUp, visits, IInv, TypeOK, Tasks
  <1>6. \A q \in Procs : q # p /\ req[q].at = "creditTopUp" => req[q].topup # t
    BY <1>1 DEF IInv, OneCredits, At
  <1>7. (\A q \in Procs : RequestKnows(q))'
    <2> SUFFICES ASSUME NEW q \in Procs PROVE RequestKnows(q)'
      OBVIOUS
    <2>1. CASE q = p
      BY <2>1, <1>2 DEF RequestKnows, Idle
    <2>2. CASE q # p
      BY <2>2, <1>2, <1>3, <1>4, <1>6 DEF IInv, RequestKnows
    <2> QED BY <2>1, <2>2
  <1>8. OneCredits'
    BY <1>2 DEF IInv, OneCredits, At, Idle
  <1>9. CreditedOnce'
    <2> SUFFICES ASSUME NEW s \in TopUps
                 PROVE  /\ credited'[s] \in {0, Amount}
                        /\ credited'[s] > 0 \/ Pending(s)' => pay'[s] \in Closed
      BY DEF CreditedOnce, Closed
    <2>1. Pending(s)' => Pending(s)
      BY <1>2 DEF Pending, At, Idle
    <2> QED
      BY <2>1, <1>1, <1>3, <1>4 DEF IInv, CreditedOnce, Closed
  <1> QED
    BY <1>4, <1>5, <1>7, <1>8, <1>9 DEF IInv, ClosesLegally

\* Requests and jobs begin.
LEMMA BeginStep ==
    ASSUME TopUpAssumption, IInv, NEW t \in TopUps,
           Poll(t) \/ \E p \in Requests : TopUpRequest(p, t) \/ Webhook(p, t) \/ Simulate(p, t)
    PROVE  IInv' /\ ClosesLegally
PROOF
  <1>1. CASE \E p \in Requests : TopUpRequest(p, t)
    <2>1. PICK p \in Requests : TopUpRequest(p, t)
      BY <1>1
    <2>2. p \in Procs
      BY DEF Procs
    <2>3. pay' \in [TopUps -> PayState] /\ ClosesLegally
      BY <2>1 DEF TopUpRequest, IInv, TypeOK, PayState, ClosesLegally, Legal
    <2>4. UNCHANGED credited /\ OtherTypes'
      BY <2>1 DEF TopUpRequest, visits, IInv, TypeOK, OtherTypes
    <2>5. \E task : Proceeds(p, task)
      BY <2>1, <2>2, BeginProceeds DEF TopUpRequest, Steps, After
    <2> QED
      BY <2>2, <2>3, <2>4, <2>5, ProceedStep
  <1>2. CASE Poll(t) \/ \E p \in Requests : Webhook(p, t) \/ Simulate(p, t)
    <2>1. PICK p \in Procs, step \in Steps \ After : Begin(p, t, step)
      BY <1>2 DEF Poll, Webhook, Simulate, Procs, Steps, After
    <2>2. UNCHANGED <<pay, credited>> /\ OtherTypes'
      BY <1>2 DEF Poll, Webhook, Simulate, visits, IInv, TypeOK, OtherTypes
    <2>3. ClosesLegally /\ pay' \in [TopUps -> PayState]
      BY <2>2 DEF ClosesLegally, IInv, TypeOK
    <2> QED
      BY <2>1, <2>2, <2>3, BeginProceeds, ProceedStep
  <1> QED
    BY <1>1, <1>2

\* The gateway, and visits, move on their own.
LEMMA OutsideStep ==
    ASSUME TopUpAssumption, IInv,
           (\E t \in TopUps : GatewayMoves(t)) \/ \E u \in Users : VisitMoves(u)
    PROVE  IInv' /\ ClosesLegally
PROOF
  <1>1. UNCHANGED <<pay, credited, req>>
    BY DEF GatewayMoves, VisitMoves, visits
  <1>2. OtherTypes'
    BY DEF GatewayMoves, VisitMoves, visits, IInv, TypeOK, OtherTypes, VisitState, Failed
  <1> QED
    BY <1>1, <1>2 DEF IInv, TypeOK, OtherTypes, RequestKnows, OneCredits, CreditedOnce, Pending,
                      At, ClosesLegally

\* Whatever a step does.
LEMMA NextInv ==
    ASSUME TopUpAssumption, IInv, [Next]_vars
    PROVE  IInv' /\ [ClosesLegally]_vars
PROOF
  <1>1. CASE UNCHANGED vars
    BY <1>1 DEF vars, visits, IInv, TypeOK, RequestKnows, OneCredits, CreditedOnce, Pending, At
  <1>2. CASE Next
    BY <1>2, QuietStep, ClosingStep, LateMarkStep, CreditStep, BeginStep, OutsideStep DEF Next
  <1> QED BY <1>1, <1>2

-----------------------------------------------------------------------------
(* Theorems *)

\* What requests and payments may rely on.
THEOREM TopUp_Invariant == Spec => []IInv
PROOF
  <1>1. Init => IInv
    BY TopUpAssumption, InitInv
  <1>2. IInv /\ [Next]_vars => IInv'
    BY TopUpAssumption, NextInv
  <1> QED BY <1>1, <1>2, PTL DEF Spec

\* A top-up is credited at most once, in full, and only when closed as paid.
THEOREM Credited_Once == Spec => []CreditedOnce
PROOF
  <1>1. IInv => CreditedOnce
    BY DEF IInv
  <1> QED BY <1>1, TopUp_Invariant, PTL

\* A closed payment is not closed again in another way.
THEOREM Closed_Once == Spec => ClosedOnce
PROOF
  <1>1. IInv /\ [Next]_vars => [ClosesLegally]_vars
    BY TopUpAssumption, NextInv
  <1>2. Spec => [][ClosesLegally]_vars
    BY <1>1, TopUp_Invariant, PTL DEF Spec
  <1> QED BY <1>2 DEF ClosedOnce, ClosesLegally, Legal

-----------------------------------------------------------------------------
(* Sums over finite sets *)

\* The element a fold takes next, and the function it is read from.
Pick(s) == CHOOSE x \in s : TRUE
Sums(f, S, g) == g = [s \in SUBSET S |-> IF s = {} THEN 0 ELSE f[Pick(s)] + g[s \ {Pick(s)}]]
Fold(f, S) == CHOOSE g : Sums(f, S, g)

LEMMA SumIsFold == ASSUME NEW f, NEW S PROVE SumFunctionOnSet(f, S) = Fold(f, S)[S]
  BY DEF SumFunctionOnSet, FoldFunctionOnSet, MapThenFoldSet, Fold, Sums, Pick

\* Of the finite sets with some property one has no smaller one in it.
LEMMA SmallestSet ==
    ASSUME NEW S, IsFiniteSet(S), NEW Bad \in SUBSET (SUBSET S), Bad # {}
    PROVE  \E s \in Bad : IsFiniteSet(s) /\ \A t \in SUBSET s : t # s => t \notin Bad
PROOF
  <1>1. \A s \in SUBSET S : IsFiniteSet(s)
    BY FS_Subset
  <1>2. Bad \subseteq FiniteSubsetsOf(S)
    BY <1>1 DEF FiniteSubsetsOf
  <1>3. PICK s \in Bad : \A t \in Bad : <<t, s>> \notin StrictSubsetOrdering(S)
    BY <1>2, FS_StrictSubsetOrderingWellFounded, WFMin
  <1>4. \A t \in SUBSET s : t # s /\ t \in Bad => <<t, s>> \in StrictSubsetOrdering(S)
    BY DEF StrictSubsetOrdering
  <1>5. \A t \in SUBSET s : t # s => t \notin Bad
    BY <1>3, <1>4
  <1>6. IsFiniteSet(s)
    BY <1>1
  <1> QED BY <1>5, <1>6

\* The fold over a set and the one over a larger set agree on what both have.
LEMMA SumsAgree ==
    ASSUME NEW f, NEW S, IsFiniteSet(S), NEW T \in SUBSET S, NEW g, NEW h, Sums(f, S, g), Sums(f, T, h)
    PROVE  \A s \in SUBSET T : g[s] = h[s]
PROOF
  <1> DEFINE Bad == {s \in SUBSET T : g[s] # h[s]}
  <1> SUFFICES ASSUME Bad # {} PROVE FALSE
    OBVIOUS
  <1>1. IsFiniteSet(T)
    BY FS_Subset
  <1>2. PICK s \in Bad : \A t \in SUBSET s : t # s => t \notin Bad
    <2>1. Bad \in SUBSET (SUBSET T)
      OBVIOUS
    <2> HIDE DEF Bad
    <2> QED BY <1>1, <2>1, SmallestSet
  <1>3. s \in SUBSET T /\ s \in SUBSET S
    OBVIOUS
  <1>4. /\ g[s] = IF s = {} THEN 0 ELSE f[Pick(s)] + g[s \ {Pick(s)}]
        /\ h[s] = IF s = {} THEN 0 ELSE f[Pick(s)] + h[s \ {Pick(s)}]
    BY <1>3 DEF Sums
  <1>5. s # {} => Pick(s) \in s
    BY DEF Pick
  <1>6. s # {} => g[s \ {Pick(s)}] = h[s \ {Pick(s)}]
    BY <1>2, <1>3, <1>5
  <1> QED BY <1>4, <1>6

\* The fold over a finite set exists.
LEMMA SumsExist ==
    ASSUME NEW f, NEW S, IsFiniteSet(S)
    PROVE  Sums(f, S, Fold(f, S))
PROOF
  <1> DEFINE Bad == {s \in SUBSET S : ~Sums(f, s, Fold(f, s))}
  <1> SUFFICES ASSUME Bad # {} PROVE FALSE
    OBVIOUS
  <1>1. PICK U \in Bad : IsFiniteSet(U) /\ \A t \in SUBSET U : t # U => t \notin Bad
    <2>1. Bad \in SUBSET (SUBSET S)
      OBVIOUS
    <2> HIDE DEF Bad
    <2> QED BY <2>1, SmallestSet
  <1>2. \A t \in SUBSET U : t # U => Sums(f, t, Fold(f, t)) /\ IsFiniteSet(t)
    BY <1>1, FS_Subset
  <1> DEFINE g == [s \in SUBSET U |-> IF s = {} THEN 0
                      ELSE f[Pick(s)] + Fold(f, s \ {Pick(s)})[s \ {Pick(s)}]]
  <1>3. ASSUME NEW s \in SUBSET U, s # {}
        PROVE  g[s \ {Pick(s)}] = Fold(f, s \ {Pick(s)})[s \ {Pick(s)}]
    <2> DEFINE t == s \ {Pick(s)}
    <2>1. Pick(s) \in s
      BY <1>3 DEF Pick
    <2>2. t \in SUBSET U /\ t # U /\ Sums(f, t, Fold(f, t)) /\ IsFiniteSet(t)
      BY <1>2, <2>1
    <2>3. Fold(f, t)[t] = IF t = {} THEN 0 ELSE f[Pick(t)] + Fold(f, t)[t \ {Pick(t)}]
      BY <2>2 DEF Sums
    <2>4. CASE t = {}
      BY <2>2, <2>3, <2>4
    <2>5. CASE t # {}
      <3> DEFINE r == t \ {Pick(t)}
      <3>1. Pick(t) \in t
        BY <2>5 DEF Pick
      <3>2. r \in SUBSET U /\ r # U /\ r \in SUBSET t /\ Sums(f, r, Fold(f, r))
        BY <1>2, <2>2, <3>1
      <3>3. Fold(f, t)[r] = Fold(f, r)[r]
        BY <2>2, <3>2, SumsAgree
      <3>4. g[t] = f[Pick(t)] + Fold(f, r)[r]
        BY <2>2, <2>5
      <3> QED BY <2>3, <2>5, <3>3, <3>4
    <2> QED BY <2>4, <2>5
  <1>4. Sums(f, U, g)
    BY <1>3 DEF Sums
  <1>5. Sums(f, U, Fold(f, U))
    BY <1>4 DEF Fold
  <1> QED BY <1>5

\* What a sum is read from its elements, in the order the fold takes them.
LEMMA SumStep ==
    ASSUME NEW f, NEW S, IsFiniteSet(S)
    PROVE  SumFunctionOnSet(f, S) =
             IF S = {} THEN 0 ELSE f[Pick(S)] + SumFunctionOnSet(f, S \ {Pick(S)})
PROOF
  <1>1. Fold(f, S)[S] = IF S = {} THEN 0 ELSE f[Pick(S)] + Fold(f, S)[S \ {Pick(S)}]
    <2>1. Sums(f, S, Fold(f, S)) /\ S \in SUBSET S
      BY SumsExist
    <2> DEFINE g == Fold(f, S)
    <2> HIDE DEF g
    <2>2. Sums(f, S, g)
      BY <2>1 DEF g
    <2>3. g[S] = IF S = {} THEN 0 ELSE f[Pick(S)] + g[S \ {Pick(S)}]
      BY <2>2 DEF Sums
    <2> QED BY <2>3 DEF g
  <1>2. CASE S = {}
    BY <1>1, <1>2, SumIsFold
  <1>3. CASE S # {}
    <2> DEFINE T == S \ {Pick(S)}
    <2>1. IsFiniteSet(T) /\ T \in SUBSET S
      BY FS_Subset
    <2> HIDE DEF T
    <2>2. Sums(f, S, Fold(f, S)) /\ Sums(f, T, Fold(f, T))
      BY <2>1, SumsExist
    <2>3. Fold(f, S)[T] = Fold(f, T)[T]
      BY <2>1, <2>2, SumsAgree
    <2> QED BY <1>1, <1>3, <2>3, SumIsFold DEF T
  <1> QED BY <1>2, <1>3

LEMMA SumEmpty == ASSUME NEW f PROVE SumFunctionOnSet(f, {}) = 0
  BY SumStep, FS_EmptySet

\* The sum of integers is an integer.
LEMMA SumInt ==
    ASSUME NEW f, NEW S, IsFiniteSet(S), \A x \in S : f[x] \in Int
    PROVE  SumFunctionOnSet(f, S) \in Int
PROOF
  <1> DEFINE Bad == {s \in SUBSET S : SumFunctionOnSet(f, s) \notin Int}
  <1> SUFFICES ASSUME Bad # {} PROVE FALSE
    OBVIOUS
  <1>1. PICK s \in Bad : IsFiniteSet(s) /\ \A t \in SUBSET s : t # s => t \notin Bad
    <2>1. Bad \in SUBSET (SUBSET S)
      OBVIOUS
    <2> HIDE DEF Bad
    <2> QED BY <2>1, SmallestSet
  <1>2. s # {} => Pick(s) \in s
    BY DEF Pick
  <1>3. s # {} => SumFunctionOnSet(f, s \ {Pick(s)}) \in Int
    BY <1>1, <1>2
  <1>4. s # {} => f[Pick(s)] \in Int
    BY <1>2
  <1> QED BY <1>1, <1>3, <1>4, SumStep

\* Any element may be taken first.
LEMMA SumRemove ==
    ASSUME NEW f, NEW S, IsFiniteSet(S), \A x \in S : f[x] \in Int, NEW a \in S
    PROVE  SumFunctionOnSet(f, S) = f[a] + SumFunctionOnSet(f, S \ {a})
PROOF
  <1> DEFINE Bad == {s \in SUBSET S : \E x \in s : SumFunctionOnSet(f, s) # f[x] + SumFunctionOnSet(f, s \ {x})}
  <1> SUFFICES ASSUME Bad # {} PROVE FALSE
    OBVIOUS
  <1>1. PICK s \in Bad : IsFiniteSet(s) /\ \A t \in SUBSET s : t # s => t \notin Bad
    <2>1. Bad \in SUBSET (SUBSET S)
      OBVIOUS
    <2> HIDE DEF Bad
    <2> QED BY <2>1, SmallestSet
  <1>2. PICK x \in s : SumFunctionOnSet(f, s) # f[x] + SumFunctionOnSet(f, s \ {x})
    OBVIOUS
  <1> DEFINE y == Pick(s)
  <1>3. y \in s /\ f[x] \in Int /\ f[y] \in Int
    BY DEF Pick
  <1>4. SumFunctionOnSet(f, s) = f[y] + SumFunctionOnSet(f, s \ {y})
    BY <1>1, <1>3, SumStep
  <1>5. x # y
    BY <1>2, <1>4
  <1>6. /\ SumFunctionOnSet(f, s \ {y}) = f[x] + SumFunctionOnSet(f, (s \ {y}) \ {x})
        /\ SumFunctionOnSet(f, s \ {x}) = f[y] + SumFunctionOnSet(f, (s \ {x}) \ {y})
    <2>1. s \ {y} \in SUBSET s /\ s \ {y} # s /\ x \in s \ {y} /\ s \ {y} \in SUBSET S
      BY <1>3, <1>5
    <2>2. s \ {x} \in SUBSET s /\ s \ {x} # s /\ y \in s \ {x} /\ s \ {x} \in SUBSET S
      BY <1>3, <1>5
    <2> HIDE DEF y
    <2>3. SumFunctionOnSet(f, s \ {y}) = f[x] + SumFunctionOnSet(f, (s \ {y}) \ {x})
      BY <1>1, <2>1
    <2>4. SumFunctionOnSet(f, s \ {x}) = f[y] + SumFunctionOnSet(f, (s \ {x}) \ {y})
      BY <1>1, <2>2
    <2> QED BY <2>3, <2>4
  <1>7. (s \ {y}) \ {x} = (s \ {x}) \ {y}
    OBVIOUS
  <1>8. SumFunctionOnSet(f, (s \ {x}) \ {y}) \in Int
    BY <1>1, FS_Subset, SumInt
  <1> HIDE DEF y
  <1> DEFINE rest == SumFunctionOnSet(f, (s \ {x}) \ {y})
  <1>9. /\ SumFunctionOnSet(f, s) = f[y] + (f[x] + rest)
        /\ f[x] + SumFunctionOnSet(f, s \ {x}) = f[x] + (f[y] + rest)
    BY <1>4, <1>6, <1>7
  <1>10. rest \in Int
    BY <1>8
  <1> HIDE DEF rest
  <1>11. f[y] + (f[x] + rest) = f[x] + (f[y] + rest)
    BY <1>3, <1>10
  <1> QED BY <1>2, <1>9, <1>11

\* The sum looks at the summed values only.
LEMMA SumSame ==
    ASSUME NEW f, NEW g, NEW S, IsFiniteSet(S), \A x \in S : f[x] = g[x]
    PROVE  SumFunctionOnSet(f, S) = SumFunctionOnSet(g, S)
PROOF
  <1> DEFINE Bad == {s \in SUBSET S : SumFunctionOnSet(f, s) # SumFunctionOnSet(g, s)}
  <1> SUFFICES ASSUME Bad # {} PROVE FALSE
    OBVIOUS
  <1>1. PICK s \in Bad : IsFiniteSet(s) /\ \A t \in SUBSET s : t # s => t \notin Bad
    <2>1. Bad \in SUBSET (SUBSET S)
      OBVIOUS
    <2> HIDE DEF Bad
    <2> QED BY <2>1, SmallestSet
  <1>2. s # {} => Pick(s) \in s
    BY DEF Pick
  <1>3. s # {} => SumFunctionOnSet(f, s \ {Pick(s)}) = SumFunctionOnSet(g, s \ {Pick(s)})
    BY <1>1, <1>2
  <1>4. s # {} => f[Pick(s)] = g[Pick(s)]
    BY <1>2
  <1> QED BY <1>1, <1>3, <1>4, SumStep

\* Changing one value changes the sum by as much.
LEMMA SumChange ==
    ASSUME NEW f, NEW g, NEW S, IsFiniteSet(S), \A x \in S : f[x] \in Int /\ g[x] \in Int,
           NEW a \in S, \A x \in S \ {a} : f[x] = g[x]
    PROVE  SumFunctionOnSet(g, S) = SumFunctionOnSet(f, S) - f[a] + g[a]
PROOF
  <1>1. IsFiniteSet(S \ {a})
    BY FS_Subset
  <1>2. SumFunctionOnSet(f, S \ {a}) = SumFunctionOnSet(g, S \ {a})
    BY <1>1, SumSame
  <1>3. SumFunctionOnSet(f, S \ {a}) \in Int
    BY <1>1, SumInt
  <1> QED BY <1>2, <1>3, SumRemove

\* Nothing adds up to nothing.
LEMMA SumZero ==
    ASSUME NEW f, NEW S, IsFiniteSet(S), \A x \in S : f[x] = 0
    PROVE  SumFunctionOnSet(f, S) = 0
PROOF
  <1> DEFINE Bad == {s \in SUBSET S : SumFunctionOnSet(f, s) # 0}
  <1> SUFFICES ASSUME Bad # {} PROVE FALSE
    OBVIOUS
  <1>1. PICK s \in Bad : IsFiniteSet(s) /\ \A t \in SUBSET s : t # s => t \notin Bad
    <2>1. Bad \in SUBSET (SUBSET S)
      OBVIOUS
    <2> HIDE DEF Bad
    <2> QED BY <2>1, SmallestSet
  <1>2. s # {} => Pick(s) \in s
    BY DEF Pick
  <1>3. s # {} => SumFunctionOnSet(f, s \ {Pick(s)}) = 0
    BY <1>1, <1>2
  <1>4. s # {} => f[Pick(s)] = 0
    BY <1>2
  <1> QED BY <1>1, <1>3, <1>4, SumStep

\* An element that joins adds its value.
LEMMA SumAdd ==
    ASSUME NEW f, NEW S, IsFiniteSet(S), NEW a, a \notin S, \A x \in S \cup {a} : f[x] \in Int
    PROVE  SumFunctionOnSet(f, S \cup {a}) = f[a] + SumFunctionOnSet(f, S)
PROOF
  <1>1. IsFiniteSet(S \cup {a}) /\ (S \cup {a}) \ {a} = S /\ a \in S \cup {a}
    BY FS_AddElement
  <1>2. SumFunctionOnSet(f, S \cup {a}) = f[a] + SumFunctionOnSet(f, (S \cup {a}) \ {a})
    BY <1>1, SumRemove
  <1> QED BY <1>1, <1>2

-----------------------------------------------------------------------------
(* The admin's desk: rows of payouts and adjustments *)

\* A request that begins was idle.
LEMMA DeskBegins ==
    ASSUME RowsInv, NEW p \in Requests, NEW task, DeskBegin(p, task)
    PROVE  /\ deskReq[p] = DeskIdle
           /\ deskReq' = [deskReq EXCEPT ![p] = task]
  BY DEF DeskBegin

LEMMA DeskInitRows ==
    ASSUME WalletDeskAssumption, DeskInit
    PROVE  RowsInv
PROOF
  <1>1. DeskTypeOK
    BY DEF WalletDeskAssumption, DeskInit, DeskTypeOK, PayoutState,
           AdjustmentState, DeskSteps, DeskIdle, Task
  <1>2. \A k \in Payouts : PayoutInv(k)
    BY DEF DeskInit, PayoutInv, Gross
  <1> QED
    BY <1>1, <1>2 DEF DeskInit, RowsInv, AdjustmentInv, DeskKnows, DeskIdle,
       Task, RejectedIsReturned, AppliedIsAccepted

\* What no statement changes: the owner and the amount of a payout row; and
\* no row is new again.
RowsStay ==
    /\ \A k \in Payouts : payout[k].status # "NONE" =>
          /\ payout'[k].status # "NONE" /\ payout'[k].user = payout[k].user
          /\ Gross(k)' = Gross(k)
    /\ \A a \in Adjustments : adjustment[a].status # "NONE" => adjustment'[a].status # "NONE"

\* A step of request p, or of none, that knows what it does.
LEMMA DeskStep ==
    ASSUME RowsInv, RowsStay, DeskTypeOK',
           \A k \in Payouts : PayoutInv(k)', \A a \in Adjustments : AdjustmentInv(a)',
           RejectedIsReturned', AppliedIsAccepted',
           \A q \in Requests : deskReq'[q] = deskReq[q] \/ DeskKnows(q)'
    PROVE  RowsInv'
PROOF
  <1>1. ASSUME NEW q \in Requests PROVE DeskKnows(q)'
    BY DEF RowsInv, DeskKnows, RowsStay
  <1> QED BY <1>1 DEF RowsInv

\* Statements that write requests only.
LEMMA DeskReads ==
    ASSUME RowsInv, UNCHANGED <<balance, drawn, payout, returned, sent, overtaken, adjustment, applied>>,
           deskDrops' \in 0..MaxDrops,
           NEW p \in Requests, NEW task, deskReq' = [deskReq EXCEPT ![p] = task],
           task \in [at : DeskSteps, user : Users \cup {Nobody},
                     item : Payouts \cup Adjustments \cup {Nothing}, gross : Int],
           DeskKnows(p)'
    PROVE  RowsInv'
PROOF
  <1>1. DeskTypeOK'
    BY DEF RowsInv, DeskTypeOK
  <1>2. \A q \in Requests \ {p} : deskReq'[q] = deskReq[q]
    BY DEF RowsInv, DeskTypeOK
  <1>3. /\ \A k \in Payouts : PayoutInv(k)' /\ (Gross(k)' = Gross(k))
        /\ \A a \in Adjustments : AdjustmentInv(a)'
        /\ RejectedIsReturned' /\ AppliedIsAccepted'
    BY DEF RowsInv, PayoutInv, AdjustmentInv, RejectedIsReturned,
           AppliedIsAccepted, Gross
  <1> QED BY <1>1, <1>2, <1>3, DeskStep DEF RowsStay

\* create_payout, admin_payout_reject and accept read the row they go on to write.
LEMMA DeskArrives ==
    ASSUME WalletDeskAssumption, RowsInv, NEW p \in Requests,
           \/ \E u \in Users, a \in Amounts : RequestPayout(p, u, a)
           \/ \E k \in Payouts : Reject(p, k)
           \/ \E a \in Adjustments : Accept(p, a)
    PROVE  RowsInv'
PROOF
  <1> DEFINE Tasks1 == [at : DeskSteps, user : Users \cup {Nobody},
                        item : Payouts \cup Adjustments \cup {Nothing}, gross : Int]
  <1>1. ASSUME NEW u \in Users, NEW a \in Amounts, RequestPayout(p, u, a) PROVE RowsInv'
    <2> DEFINE task == Task("debitPayout", u, Nothing, a)
    <2>1. /\ deskReq' = [deskReq EXCEPT ![p] = task] /\ a > 0
          /\ UNCHANGED <<balance, drawn, payout, returned, sent, overtaken, adjustment, applied, deskDrops>>
      BY <1>1, DeskBegins DEF RequestPayout, payouts, adjustments
    <2>2. task \in Tasks1 /\ deskDrops' \in 0..MaxDrops
      BY <2>1 DEF Task, DeskSteps, WalletDeskAssumption, RowsInv, DeskTypeOK
    <2>3. DeskKnows(p)'
      BY <2>1 DEF DeskKnows, Task, RowsInv, DeskTypeOK
    <2> QED BY <2>1, <2>2, <2>3, DeskReads
  <1>2. ASSUME NEW k \in Payouts, Reject(p, k) PROVE RowsInv'
    <2> DEFINE task == Task("rejectPayout", payout[k].user, k, Gross(k))
    <2>1. /\ deskReq' = [deskReq EXCEPT ![p] = task] /\ payout[k].status # "NONE"
          /\ UNCHANGED <<balance, drawn, payout, returned, sent, overtaken, adjustment, applied, deskDrops>>
      BY <1>2, DeskBegins DEF Reject, Undecided, payouts, adjustments
    <2>2. task \in Tasks1 /\ deskDrops' \in 0..MaxDrops /\ payout[k].user \in Users
      BY <2>1 DEF Task, DeskSteps, RowsInv, DeskTypeOK, Gross, PayoutInv
    <2>3. DeskKnows(p)'
      BY <2>1, <2>2 DEF DeskKnows, Task, RowsInv, DeskTypeOK, Gross
    <2> QED BY <2>1, <2>2, <2>3, DeskReads
  <1>3. ASSUME NEW a \in Adjustments, Accept(p, a) PROVE RowsInv'
    <2> DEFINE task == Task("acceptAdjustment", adjustment[a].user, a, adjustment[a].amount)
    <2>1. /\ deskReq' = [deskReq EXCEPT ![p] = task] /\ adjustment[a].status = "PENDING"
          /\ UNCHANGED <<balance, drawn, payout, returned, sent, overtaken, adjustment, applied, deskDrops>>
      BY <1>3, DeskBegins DEF Accept, payouts, adjustments
    <2>2. task \in Tasks1 /\ deskDrops' \in 0..MaxDrops /\ adjustment[a].user \in Users
      BY <2>1 DEF Task, DeskSteps, RowsInv, DeskTypeOK, AdjustmentInv
    <2>3. DeskKnows(p)'
      BY <2>1, <2>2 DEF DeskKnows, Task, RowsInv, DeskTypeOK
    <2> QED BY <2>1, <2>2, <2>3, DeskReads
  <1> QED BY <1>1, <1>2, <1>3

\* A request that ends, or goes on to step, stays a well-typed record.
LEMMA DeskTask ==
    ASSUME RowsInv, NEW p \in Requests, NEW step \in DeskSteps,
           DeskGoto(p, step) \/ DeskEnd(p)
    PROVE  /\ deskReq' \in [Requests -> [at : DeskSteps, user : Users \cup {Nobody},
                                item : Payouts \cup Adjustments \cup {Nothing}, gross : Int]]
           /\ \A q \in Requests \ {p} : deskReq'[q] = deskReq[q]
           /\ DeskGoto(p, step) => deskReq'[p] = [deskReq[p] EXCEPT !.at = step]
           /\ DeskEnd(p) => deskReq'[p] = DeskIdle /\ DeskKnows(p)'
PROOF
  <1> DEFINE Tasks1 == [at : DeskSteps, user : Users \cup {Nobody},
                        item : Payouts \cup Adjustments \cup {Nothing}, gross : Int]
  <1>1. deskReq \in [Requests -> Tasks1]
    BY DEF RowsInv, DeskTypeOK
  <1>2. CASE DeskGoto(p, step)
    <2> DEFINE task == [deskReq[p] EXCEPT !.at = step]
    <2>1. deskReq' = [deskReq EXCEPT ![p] = task] /\ task \in Tasks1
      BY <1>1, <1>2 DEF DeskGoto
    <2>2. DeskEnd(p) => deskReq'[p] = DeskIdle /\ DeskKnows(p)'
      BY <1>1 DEF DeskEnd, DeskIdle, Task, DeskKnows
    <2> QED BY <1>1, <2>1, <2>2
  <1>3. CASE DeskEnd(p)
    <2>1. DeskIdle \in Tasks1
      BY DEF DeskIdle, Task, DeskSteps
    <2>2. deskReq' = [deskReq EXCEPT ![p] = DeskIdle]
      BY <1>3 DEF DeskEnd
    <2>3. deskReq'[p] = DeskIdle /\ DeskKnows(p)'
      BY <1>1, <2>2 DEF DeskIdle, Task, DeskKnows
    <2>4. DeskGoto(p, step) => deskReq'[p] = [deskReq[p] EXCEPT !.at = step]
      BY <1>1 DEF DeskGoto
    <2> QED BY <1>1, <2>1, <2>2, <2>3, <2>4
  <1> QED BY <1>2, <1>3

\* create_payout, the debit: the balance covers it.
LEMMA DebitPayoutRows ==
    ASSUME RowsInv, NEW p \in Requests, DebitPayout(p)
    PROVE  RowsInv'
PROOF
  <1> DEFINE u == deskReq[p].user
             a == deskReq[p].gross
  <1>1. /\ deskReq[p].at = "debitPayout" /\ u \in Users /\ a \in Int /\ a > 0
        /\ UNCHANGED <<payout, returned, sent, overtaken, adjustment, applied, deskDrops>>
    BY DEF DebitPayout, DeskAt, adjustments, RowsInv, DeskKnows, DeskTypeOK
  <1>2. /\ balance' \in [Users -> Nat] /\ drawn' \in [Users -> Nat]
        /\ DeskGoto(p, "insertPayout") \/ DeskEnd(p)
    <2>1. /\ balance \in [Users -> Nat] /\ drawn \in [Users -> Nat]
          /\ balance[u] \in Nat /\ drawn[u] \in Nat
      BY <1>1 DEF RowsInv, DeskTypeOK
    <2>2. CASE /\ balance[u] >= a
               /\ balance' = [balance EXCEPT ![u] = @ - a]
               /\ drawn'   = [drawn EXCEPT ![u] = @ + a]
               /\ DeskGoto(p, "insertPayout")
      <3>1. balance[u] - a \in Nat /\ drawn[u] + a \in Nat
        BY <1>1, <2>1, <2>2
      <3> QED BY <1>1, <2>1, <2>2, <3>1
    <2>3. CASE DeskEnd(p) /\ UNCHANGED <<balance, drawn>>
      BY <2>1, <2>3
    <2> QED BY <2>2, <2>3 DEF DebitPayout
  <1>3. /\ deskReq' \in [Requests -> [at : DeskSteps, user : Users \cup {Nobody},
                                item : Payouts \cup Adjustments \cup {Nothing}, gross : Int]]
        /\ \A q \in Requests \ {p} : deskReq'[q] = deskReq[q]
        /\ DeskKnows(p)'
    <2>1. "insertPayout" \in DeskSteps
      BY DEF DeskSteps
    <2>2. CASE DeskEnd(p)
      BY <2>1, <2>2, DeskTask
    <2>3. CASE DeskGoto(p, "insertPayout")
      <3>1. deskReq'[p] = [deskReq[p] EXCEPT !.at = "insertPayout"]
        BY <2>1, <2>3, DeskTask
      <3>2. DeskKnows(p)'
        BY <1>1, <3>1 DEF DeskKnows, RowsInv, DeskTypeOK
      <3> QED BY <2>1, <2>3, <3>2, DeskTask
    <2> QED BY <1>2, <2>2, <2>3
  <1>4. DeskTypeOK'
    BY <1>1, <1>2, <1>3 DEF RowsInv, DeskTypeOK
  <1>5. /\ \A k \in Payouts : PayoutInv(k)' /\ (Gross(k)' = Gross(k))
        /\ \A b \in Adjustments : AdjustmentInv(b)'
        /\ RejectedIsReturned' /\ AppliedIsAccepted'
    BY <1>1 DEF RowsInv, PayoutInv, AdjustmentInv, RejectedIsReturned,
           AppliedIsAccepted, Gross
  <1> QED BY <1>1, <1>3, <1>4, <1>5, DeskStep DEF RowsStay

\* create_payout, the INSERT: the row is new, and names what was debited.
LEMMA InsertPayoutRows ==
    ASSUME WalletDeskAssumption, RowsInv, NEW p \in Requests, NEW k \in Payouts,
           deskReq[p].at = "insertPayout", DeskEnd(p), payout[k].status = "NONE",
           payout' = [payout EXCEPT ![k] =
                [status |-> "PENDING", user |-> deskReq[p].user,
                 net |-> deskReq[p].gross - Fee[deskReq[p].user], fee |-> Fee[deskReq[p].user]]],
           UNCHANGED <<balance, drawn, returned, sent, overtaken, adjustment, applied, deskDrops>>
    PROVE  /\ RowsInv'
           /\ Gross(k)' = deskReq[p].gross
           /\ payout'[k].user = deskReq[p].user
           /\ \A i \in Payouts \ {k} : payout'[i] = payout[i]
PROOF
  <1> DEFINE u == deskReq[p].user
             a == deskReq[p].gross
             row == [status |-> "PENDING", user |-> u, net |-> a - Fee[u], fee |-> Fee[u]]
  <1>1. u \in Users /\ a \in Int /\ a > 0 /\ Fee[u] \in Nat
    BY DEF RowsInv, DeskKnows, DeskTypeOK, WalletDeskAssumption
  <1>2. /\ payout' = [payout EXCEPT ![k] = row]
        /\ row \in [status : PayoutState, user : Users \cup {Nobody}, net : Int, fee : Nat]
    BY <1>1 DEF PayoutState
  <1>3. payout'[k] = row /\ \A i \in Payouts \ {k} : payout'[i] = payout[i]
    BY <1>2 DEF RowsInv, DeskTypeOK
  <1>4. row.net + row.fee = a
    BY <1>1
  <1>5. /\ deskReq' \in [Requests -> [at : DeskSteps, user : Users \cup {Nobody},
                                item : Payouts \cup Adjustments \cup {Nothing}, gross : Int]]
        /\ \A q \in Requests \ {p} : deskReq'[q] = deskReq[q]
        /\ DeskKnows(p)'
    BY DeskTask DEF DeskSteps
  <1>6. DeskTypeOK'
    BY <1>2, <1>5 DEF RowsInv, DeskTypeOK
  <1>7. Gross(k)' = a /\ \A i \in Payouts \ {k} : Gross(i)' = Gross(i)
    BY <1>3, <1>4 DEF Gross
  <1>8. returned[k] = 0
    BY DEF RowsInv, PayoutInv
  <1>9. ASSUME NEW i \in Payouts PROVE PayoutInv(i)'
    <2>1. CASE i = k
      BY <1>1, <1>3, <1>7, <1>8, <2>1 DEF PayoutInv
    <2>2. CASE i # k
      BY <1>3, <1>7, <2>2 DEF RowsInv, PayoutInv
    <2> QED BY <2>1, <2>2
  <1>10. RejectedIsReturned' /\ AppliedIsAccepted' /\ \A b \in Adjustments : AdjustmentInv(b)'
    BY <1>3, <1>7 DEF RowsInv, RejectedIsReturned, AppliedIsAccepted, AdjustmentInv
  <1>11. RowsStay
    BY <1>3, <1>7 DEF RowsStay
  <1>12. RowsInv'
    BY <1>5, <1>6, <1>9, <1>10, <1>11, DeskStep
  <1> QED BY <1>3, <1>7, <1>12

\* A status of a payout moves, to REJECTED with the money given back.
LEMMA PayoutMovesRows ==
    ASSUME RowsInv, NEW k \in Payouts, payout[k].status # "NONE",
           NEW new \in {"APPROVED", "TRANSFERRED", "REJECTED"},
           payout' = [payout EXCEPT ![k].status = new],
           balance' \in [Users -> Nat], returned' \in [Payouts -> Nat],
           sent' \in [Payouts -> Nat], overtaken' \in [Payouts -> Nat],
           \A i \in Payouts \ {k} : returned'[i] = returned[i],
           IF new = "REJECTED" THEN returned'[k] >= Gross(k) ELSE returned'[k] = 0,
           UNCHANGED <<drawn, adjustment, applied, deskDrops>>,
           deskReq' \in [Requests -> [at : DeskSteps, user : Users \cup {Nobody},
                                item : Payouts \cup Adjustments \cup {Nothing}, gross : Int]],
           \A q \in Requests : deskReq'[q] = deskReq[q] \/ DeskKnows(q)'
    PROVE  RowsInv'
PROOF
  <1>1. /\ payout'[k] = [payout[k] EXCEPT !.status = new]
        /\ \A i \in Payouts \ {k} : payout'[i] = payout[i]
    BY DEF RowsInv, DeskTypeOK
  <1>2. /\ payout'[k].status = new /\ payout'[k].user = payout[k].user
        /\ payout'[k].net = payout[k].net /\ payout'[k].fee = payout[k].fee
    BY <1>1 DEF RowsInv, DeskTypeOK
  <1>3. \A i \in Payouts : Gross(i)' = Gross(i)
    BY <1>1, <1>2 DEF Gross
  <1>4. DeskTypeOK'
    <2> DEFINE Rows == [status : PayoutState, user : Users \cup {Nobody}, net : Int, fee : Nat]
               row == [payout[k] EXCEPT !.status = new]
    <2>1. payout \in [Payouts -> Rows] /\ new \in PayoutState
      BY DEF RowsInv, DeskTypeOK, PayoutState
    <2>2. row \in Rows /\ payout' = [payout EXCEPT ![k] = row]
      BY <2>1
    <2>3. payout' \in [Payouts -> Rows]
      BY <2>1, <2>2
    <2> QED BY <2>3 DEF RowsInv, DeskTypeOK
  <1>5. ASSUME NEW i \in Payouts PROVE PayoutInv(i)'
    BY <1>1, <1>2, <1>3 DEF RowsInv, PayoutInv
  <1>6. RejectedIsReturned' /\ AppliedIsAccepted' /\ \A b \in Adjustments : AdjustmentInv(b)'
    BY <1>1, <1>2, <1>3 DEF RowsInv, RejectedIsReturned, AppliedIsAccepted, AdjustmentInv
  <1>7. RowsStay
    BY <1>1, <1>2, <1>3 DEF RowsStay
  <1> QED BY <1>4, <1>5, <1>6, <1>7, DeskStep

\* admin_payout_reject, the transaction: what was read of the row still holds.
LEMMA RejectPayoutRows ==
    ASSUME RowsInv, NEW p \in Requests, RejectPayout(p)
    PROVE  /\ RowsInv'
           /\ deskReq[p].item \in Payouts /\ payout[deskReq[p].item].status # "NONE"
           /\ deskReq[p].user = payout[deskReq[p].item].user /\ deskReq[p].user \in Users
           /\ deskReq[p].gross = Gross(deskReq[p].item) /\ deskReq[p].gross \in Nat \ {0}
PROOF
  <1> DEFINE k == deskReq[p].item
             u == deskReq[p].user
             a == deskReq[p].gross
  <1>1. /\ deskReq[p].at = "rejectPayout" /\ DeskEnd(p)
        /\ payout'   = [payout EXCEPT ![k].status = "REJECTED"]
        /\ balance'  = [balance EXCEPT ![u] = @ + a]
        /\ returned' = [returned EXCEPT ![k] = @ + a]
        /\ overtaken' = IF k \in Undecided THEN overtaken ELSE [overtaken EXCEPT ![k] = @ + a]
        /\ UNCHANGED <<drawn, sent, adjustment, applied, deskDrops>>
    BY DEF RejectPayout, DeskAt, adjustments
  <1>2. /\ k \in Payouts /\ payout[k].status # "NONE"
        /\ u = payout[k].user /\ a = Gross(k) /\ u \in Users /\ a \in Int
        /\ balance \in [Users -> Nat] /\ returned \in [Payouts -> Nat]
        /\ sent \in [Payouts -> Nat] /\ overtaken \in [Payouts -> Nat]
    BY <1>1 DEF RowsInv, DeskKnows, DeskTypeOK
  <1>3. a > 0
    BY <1>2 DEF RowsInv, PayoutInv
  <1> HIDE DEF k, u, a
  <1>4. /\ balance[u] + a \in Nat /\ returned[k] + a \in Nat /\ returned[k] + a >= a
        /\ overtaken[k] + a \in Nat
    BY <1>2, <1>3
  <1>5. /\ balance' \in [Users -> Nat] /\ returned' \in [Payouts -> Nat]
        /\ \A i \in Payouts \ {k} : returned'[i] = returned[i]
        /\ returned'[k] >= Gross(k)
        /\ sent' \in [Payouts -> Nat] /\ overtaken' \in [Payouts -> Nat]
    BY <1>1, <1>2, <1>4
  <1>6. RowsInv'
    BY <1>1, <1>2, <1>5, DeskTask, PayoutMovesRows DEF DeskSteps
  <1> QED BY <1>2, <1>3, <1>6 DEF k, u, a

\* admin_payout_approve and mark_transferred: nothing was given back.
LEMMA MovePayoutRows ==
    ASSUME RowsInv, NEW k \in Payouts, ApprovePayout(k) \/ MarkTransferred(k)
    PROVE  RowsInv'
PROOF
  <1>1. PICK new \in {"APPROVED", "TRANSFERRED"} :
          /\ payout' = [payout EXCEPT ![k].status = new]
          /\ payout[k].status \notin {"NONE", "REJECTED"}
          /\ UNCHANGED <<balance, drawn, returned, overtaken, adjustment, applied, deskReq, deskDrops>>
    BY DEF ApprovePayout, MarkTransferred, MovePayout, adjustments
  <1>2. /\ balance \in [Users -> Nat] /\ returned \in [Payouts -> Nat]
        /\ overtaken \in [Payouts -> Nat]
        /\ deskReq \in [Requests -> [at : DeskSteps, user : Users \cup {Nobody},
                                item : Payouts \cup Adjustments \cup {Nothing}, gross : Int]]
    BY DEF RowsInv, DeskTypeOK
  <1>3. returned[k] = 0
    BY <1>1, <1>2 DEF RowsInv, PayoutInv
  <1>4. sent' \in [Payouts -> Nat]
    <2>1. sent \in [Payouts -> Nat] /\ Gross(k) \in Nat
      BY <1>1 DEF RowsInv, DeskTypeOK, PayoutInv, Gross
    <2> QED BY <2>1 DEF ApprovePayout, MarkTransferred
  <1> QED BY <1>1, <1>2, <1>3, <1>4, PayoutMovesRows

\* The rows of adjustments move, the payouts stay.
LEMMA AdjustmentRows ==
    ASSUME RowsInv, UNCHANGED <<drawn, payout, returned, sent, overtaken, deskDrops>>,
           balance' \in [Users -> Nat], applied' \in [Adjustments -> Int],
           adjustment' \in [Adjustments -> [status : AdjustmentState,
                                       user : Users \cup {Nobody}, amount : Int]],
           \A b \in Adjustments : AdjustmentInv(b)',
           \A b \in Adjustments : adjustment[b].status # "NONE" => adjustment'[b].status # "NONE",
           \A b \in Adjustments : applied'[b] # 0 => adjustment'[b].status = "ACCEPTED",
           deskReq' \in [Requests -> [at : DeskSteps, user : Users \cup {Nobody},
                                item : Payouts \cup Adjustments \cup {Nothing}, gross : Int]],
           \A q \in Requests : deskReq'[q] = deskReq[q] \/ DeskKnows(q)'
    PROVE  RowsInv'
PROOF
  <1>1. DeskTypeOK'
    BY DEF RowsInv, DeskTypeOK
  <1>2. \A i \in Payouts : PayoutInv(i)' /\ (Gross(i)' = Gross(i))
    BY DEF RowsInv, PayoutInv, Gross
  <1>3. RejectedIsReturned' /\ AppliedIsAccepted'
    BY <1>2 DEF RowsInv, RejectedIsReturned, AppliedIsAccepted
  <1> QED BY <1>1, <1>2, <1>3, DeskStep DEF RowsStay

\* An admin proposes, or the user rejects: nothing was applied.
LEMMA ProposalRows ==
    ASSUME WalletDeskAssumption, RowsInv, NEW a \in Adjustments,
           \/ RejectAdjustment(a)
           \/ \E u \in Users, c \in Changes : ProposeAdjustment(a, u, c)
    PROVE  RowsInv' /\ applied[a] = 0
PROOF
  <1> DEFINE Rows == [status : AdjustmentState, user : Users \cup {Nobody}, amount : Int]
  <1>1. adjustment \in [Adjustments -> Rows]
    BY DEF RowsInv, DeskTypeOK
  <1>2. /\ UNCHANGED <<balance, drawn, payout, returned, sent, overtaken, applied, deskReq, deskDrops>>
        /\ adjustment[a].status # "ACCEPTED"
    BY DEF RejectAdjustment, ProposeAdjustment, payouts
  <1>3. PICK row \in Rows : /\ adjustment' = [adjustment EXCEPT ![a] = row]
                         /\ row.user \in Users /\ row.status # "NONE"
    <2>1. CASE RejectAdjustment(a)
      <3> DEFINE row == [adjustment[a] EXCEPT !.status = "REJECTED"]
      <3>1. adjustment' = [adjustment EXCEPT ![a] = row]
        BY <2>1 DEF RejectAdjustment
      <3>2. adjustment[a].user \in Users
        BY <2>1 DEF RejectAdjustment, RowsInv, AdjustmentInv
      <3>3. adjustment[a] \in Rows
        BY <1>1
      <3>4. row \in Rows /\ row.user \in Users /\ row.status # "NONE"
        BY <3>2, <3>3 DEF AdjustmentState
      <3> QED BY <3>1, <3>4
    <2>2. ASSUME NEW u \in Users, NEW c \in Changes, ProposeAdjustment(a, u, c)
          PROVE  \E row \in Rows : /\ adjustment' = [adjustment EXCEPT ![a] = row]
                                   /\ row.user \in Users /\ row.status # "NONE"
      <3> DEFINE row == [status |-> "PENDING", user |-> u, amount |-> c]
      <3>1. row \in Rows /\ row.user \in Users /\ row.status # "NONE"
        BY DEF WalletDeskAssumption, AdjustmentState
      <3>2. adjustment' = [adjustment EXCEPT ![a] = row]
        BY <2>2 DEF ProposeAdjustment
      <3> QED BY <3>1, <3>2
    <2> QED BY <2>1, <2>2
  <1>4. /\ adjustment' \in [Adjustments -> Rows]
        /\ \A b \in Adjustments : AdjustmentInv(b)'
        /\ \A b \in Adjustments : adjustment[b].status # "NONE" => adjustment'[b].status # "NONE"
    BY <1>1, <1>3 DEF RowsInv, AdjustmentInv
  <1>5. applied[a] = 0
    BY <1>2 DEF RowsInv, AppliedIsAccepted
  <1>6. \A b \in Adjustments : applied'[b] # 0 => adjustment'[b].status = "ACCEPTED"
    BY <1>1, <1>2, <1>3, <1>5 DEF RowsInv, AppliedIsAccepted
  <1>7. /\ balance \in [Users -> Nat] /\ applied \in [Adjustments -> Int]
        /\ deskReq \in [Requests -> [at : DeskSteps, user : Users \cup {Nobody},
                                item : Payouts \cup Adjustments \cup {Nothing}, gross : Int]]
    BY DEF RowsInv, DeskTypeOK
  <1> QED BY <1>2, <1>4, <1>5, <1>6, <1>7, AdjustmentRows

\* accept, the transaction: the balance never goes below zero.
LEMMA AcceptAdjustmentRows ==
    ASSUME RowsInv, NEW p \in Requests, AcceptAdjustment(p)
    PROVE  /\ RowsInv'
           /\ deskReq[p].at = "acceptAdjustment" /\ DeskEnd(p)
           /\ UNCHANGED <<drawn, payout, returned, sent, overtaken, deskDrops>>
           /\ deskReq[p].item \in Adjustments /\ deskReq[p].user \in Users
           /\ \E change \in Int :
                 /\ balance' = [balance EXCEPT ![deskReq[p].user] = @ + change]
                 /\ applied' = [applied EXCEPT ![deskReq[p].item] = @ + change]
           /\ adjustment' = [adjustment EXCEPT ![deskReq[p].item].status = "ACCEPTED"]
PROOF
  <1> DEFINE a == deskReq[p].item
             u == deskReq[p].user
             g == deskReq[p].gross
             change == IF g > 0 \/ balance[u] >= -g THEN g ELSE 0
             Rows == [status : AdjustmentState, user : Users \cup {Nobody}, amount : Int]
  <1>1. /\ deskReq[p].at = "acceptAdjustment" /\ DeskEnd(p)
        /\ balance'    = [balance EXCEPT ![u] = @ + change]
        /\ applied'    = [applied EXCEPT ![a] = @ + change]
        /\ adjustment' = [adjustment EXCEPT ![a].status = "ACCEPTED"]
        /\ UNCHANGED <<drawn, payout, returned, sent, overtaken, deskDrops>>
    BY DEF AcceptAdjustment, DeskAt, payouts
  <1>2. /\ a \in Adjustments /\ u \in Users /\ g \in Int
        /\ balance \in [Users -> Nat] /\ applied \in [Adjustments -> Int]
        /\ adjustment \in [Adjustments -> Rows]
    BY <1>1 DEF RowsInv, DeskKnows, DeskTypeOK
  <1>3. change \in Int /\ balance[u] + change \in Nat /\ applied[a] + change \in Int
    BY <1>2
  <1> HIDE DEF change, a, u
  <1>4. balance' \in [Users -> Nat] /\ applied' \in [Adjustments -> Int]
    BY <1>1, <1>2, <1>3
  <1>5. /\ adjustment' \in [Adjustments -> Rows] /\ adjustment'[a].status = "ACCEPTED"
        /\ adjustment'[a].user = adjustment[a].user
        /\ \A b \in Adjustments \ {a} : adjustment'[b] = adjustment[b] /\ applied'[b] = applied[b]
    <2> DEFINE row == [adjustment[a] EXCEPT !.status = "ACCEPTED"]
    <2>1. row \in Rows /\ row.status = "ACCEPTED" /\ row.user = adjustment[a].user
      BY <1>2 DEF AdjustmentState
    <2>2. adjustment' = [adjustment EXCEPT ![a] = row]
      BY <1>1
    <2> QED BY <1>1, <1>2, <2>1, <2>2
  <1>6. RowsInv'
    <2>1. \A b \in Adjustments : applied'[b] # 0 => adjustment'[b].status = "ACCEPTED"
      BY <1>5 DEF RowsInv, AppliedIsAccepted
    <2>2. adjustment[a].user \in Users
      BY <1>1, <1>2 DEF RowsInv, AdjustmentInv, DeskKnows, a
    <2>3. /\ \A b \in Adjustments : AdjustmentInv(b)'
          /\ \A b \in Adjustments : adjustment[b].status # "NONE" => adjustment'[b].status # "NONE"
      BY <1>2, <1>5, <2>2 DEF RowsInv, AdjustmentInv
    <2>4. deskReq' \in [Requests -> [at : DeskSteps, user : Users \cup {Nobody},
                                item : Payouts \cup Adjustments \cup {Nothing}, gross : Int]]
      BY <1>1, DeskTask DEF DeskSteps
    <2>6. \A q \in Requests : deskReq'[q] = deskReq[q] \/ DeskKnows(q)'
      BY <1>1, DeskTask DEF DeskSteps
    <2>5. adjustment' \in [Adjustments -> Rows]
      BY <1>5
    <2> HIDE DEF Rows
    <2> QED BY <1>1, <1>4, <2>1, <2>3, <2>4, <2>5, <2>6, AdjustmentRows DEF Rows
  <1> QED BY <1>1, <1>2, <1>3, <1>6 DEF a, u

\* A request that dies leaves the rows as they are.
LEMMA DeskDropRows ==
    ASSUME WalletDeskAssumption, RowsInv, NEW p \in Requests, DeskDrop(p)
    PROVE  RowsInv' /\ deskDrops' > 0 /\ DeskEnd(p)
PROOF
  <1>1. /\ DeskEnd(p) /\ deskDrops' = deskDrops + 1 /\ deskDrops < MaxDrops
        /\ UNCHANGED <<balance, drawn, payout, returned, sent, overtaken, adjustment, applied>>
    BY DEF DeskDrop, payouts, adjustments
  <1>2. deskDrops \in 0..MaxDrops /\ MaxDrops \in Nat
    BY DEF RowsInv, DeskTypeOK, WalletDeskAssumption
  <1>3. deskReq' = [deskReq EXCEPT ![p] = DeskIdle] /\ DeskKnows(p)'
    BY <1>1, DeskTask DEF DeskEnd, DeskSteps
  <1>4. DeskIdle \in [at : DeskSteps, user : Users \cup {Nobody},
                       item : Payouts \cup Adjustments \cup {Nothing}, gross : Int]
    BY DEF DeskIdle, Task, DeskSteps
  <1>5. deskDrops' \in 0..MaxDrops /\ deskDrops' > 0
    BY <1>1, <1>2
  <1> QED BY <1>1, <1>3, <1>4, <1>5, DeskReads

\* Every step keeps the rows in order.
LEMMA DeskNextRows ==
    ASSUME WalletDeskAssumption, RowsInv, [DeskNext]_deskVars
    PROVE  RowsInv'
PROOF
  <1>1. CASE UNCHANGED deskVars
    <2>1. UNCHANGED <<balance, drawn, payout, returned, sent, overtaken, adjustment, applied, deskReq, deskDrops>>
      BY <1>1 DEF deskVars, payouts, adjustments
    <2>2. \A i \in Payouts : PayoutInv(i)' /\ (Gross(i)' = Gross(i))
      BY <2>1 DEF RowsInv, PayoutInv, Gross
    <2>3. /\ DeskTypeOK' /\ \A b \in Adjustments : AdjustmentInv(b)'
          /\ RejectedIsReturned' /\ AppliedIsAccepted'
      BY <2>1, <2>2 DEF RowsInv, DeskTypeOK, AdjustmentInv, RejectedIsReturned,
                        AppliedIsAccepted
    <2> QED BY <2>1, <2>2, <2>3, DeskStep DEF RowsStay
  <1>2. ASSUME NEW p \in Requests, InsertPayout(p) PROVE RowsInv'
    <2>1. PICK k \in Payouts :
             /\ payout[k].status = "NONE"
             /\ payout' = [payout EXCEPT ![k] =
                   [status |-> "PENDING", user |-> deskReq[p].user,
                    net |-> deskReq[p].gross - Fee[deskReq[p].user], fee |-> Fee[deskReq[p].user]]]
      BY <1>2 DEF InsertPayout
    <2>2. /\ deskReq[p].at = "insertPayout" /\ DeskEnd(p)
          /\ UNCHANGED <<balance, drawn, returned, sent, overtaken, adjustment, applied, deskDrops>>
      BY <1>2 DEF InsertPayout, DeskAt, adjustments
    <2> QED BY <2>1, <2>2, InsertPayoutRows
  <1>3. ASSUME DeskNext PROVE RowsInv'
    BY <1>2, <1>3, DeskArrives, DebitPayoutRows, RejectPayoutRows, AcceptAdjustmentRows,
       DeskDropRows, MovePayoutRows, ProposalRows DEF DeskNext
  <1> QED BY <1>1, <1>3

\* Whatever requests overlap, every one of them finds the row it has read
\* with the owner and the amount it had.
THEOREM Desk_Rows == DeskSpec => []RowsInv
PROOF
  <1>1. DeskInit => RowsInv
    BY WalletDeskAssumption, DeskInitRows
  <1>2. RowsInv /\ [DeskNext]_deskVars => RowsInv'
    BY WalletDeskAssumption, DeskNextRows
  <1> QED BY <1>1, <1>2, PTL DEF DeskSpec

\* A rejected payout has given back all that was debited (admin_payout_reject).
THEOREM Rejected_Is_Returned == DeskSpec => []RejectedIsReturned
PROOF
  <1>1. RowsInv => RejectedIsReturned
    BY DEF RowsInv
  <1> QED BY <1>1, Desk_Rows, PTL

\* Only an accepted adjustment has changed a balance (accept, reject).
THEOREM Applied_Is_Accepted == DeskSpec => []AppliedIsAccepted
PROOF
  <1>1. RowsInv => AppliedIsAccepted
    BY DEF RowsInv
  <1> QED BY <1>1, Desk_Rows, PTL

\* Money that went back is not transferred afterwards (mark_transferred).
THEOREM Returned_Is_Not_Transferred == DeskSpec => ReturnedIsNotTransferred
PROOF
  <1>1. RowsInv /\ [DeskNext]_deskVars =>
          [\A k \in Payouts : returned[k] > 0 => payout'[k].status # "TRANSFERRED"]_deskVars
    <2>1. ASSUME RowsInv, DeskNext, NEW k \in Payouts, returned[k] > 0,
                 payout'[k].status = "TRANSFERRED"
          PROVE  FALSE
      <3>1. payout[k].status = "REJECTED"
        BY <2>1 DEF RowsInv, PayoutInv, DeskTypeOK
      <3>2. ASSUME NEW i \in Payouts, payout[i].status # "REJECTED", NEW row,
                   payout' = [payout EXCEPT ![i] = row]
            PROVE  FALSE
        BY <2>1, <3>1, <3>2 DEF RowsInv, DeskTypeOK
      <3>3. payout' # payout
        BY <2>1, <3>1
      <3>4. ASSUME NEW p \in Requests, InsertPayout(p) PROVE FALSE
        BY <3>2, <3>4 DEF InsertPayout
      <3>5. ASSUME NEW i \in Payouts, ApprovePayout(i) \/ MarkTransferred(i) PROVE FALSE
        <4>1. PICK new \in {"APPROVED", "TRANSFERRED"} :
                 payout' = [payout EXCEPT ![i] = [payout[i] EXCEPT !.status = new]]
          BY <3>5 DEF ApprovePayout, MarkTransferred, MovePayout
        <4>2. payout[i].status # "REJECTED"
          BY <3>5 DEF ApprovePayout, MarkTransferred, MovePayout
        <4> QED BY <3>2, <4>1, <4>2
      <3>6. ASSUME NEW p \in Requests, RejectPayout(p) PROVE FALSE
        BY <2>1, <3>1, <3>6 DEF RejectPayout, RowsInv, DeskTypeOK
      <3> QED BY <2>1, <3>3, <3>4, <3>5, <3>6 DEF DeskNext, RequestPayout, DebitPayout,
           Reject, ProposeAdjustment, Accept, AcceptAdjustment,
           RejectAdjustment, DeskDrop, payouts
    <2> QED BY <2>1
  <1> QED BY <1>1, Desk_Rows, PTL DEF DeskSpec, ReturnedIsNotTransferred

-----------------------------------------------------------------------------
(* The admin's desk: the sums *)

GrossOf    == [k \in Payouts |-> Gross(k)]
AskedOf    == [p \in Requests |-> deskReq[p].gross]
AcceptedOf == [a \in Adjustments |-> IF adjustment[a].status = "ACCEPTED" THEN applied[a] ELSE 0]

InsertingNow == {p \in Requests : deskReq[p].at = "insertPayout"}
InsertingOf(u) == {p \in Requests : deskReq[p].at = "insertPayout" /\ deskReq[p].user = u}

\* PayoutsAreDebited and MoneyIsConserved over these sums.
DebitsHold(u) ==
    LET named == SumFunctionOnSet(GrossOf, PayoutsOf(u)) + SumFunctionOnSet(AskedOf, InsertingOf(u)) IN
    /\ named <= drawn[u]
    /\ deskDrops = 0 => named = drawn[u]

Held == SumFunctionOnSet(balance, Users) + SumFunctionOnSet(GrossOf, Undecided)
        + SumFunctionOnSet(sent, Payouts) + SumFunctionOnSet(AskedOf, InsertingNow)
Given == SumFunctionOnSet(Deposit, Users) + SumFunctionOnSet(AcceptedOf, Adjustments)
         + SumFunctionOnSet(overtaken, Payouts)

Conserved == Held <= Given /\ (deskDrops = 0 => Held = Given)

SumsInv == Conserved /\ \A u \in Users : DebitsHold(u)

\* The invariant is what the module states of these sums.
LEMMA SumsInvSays ==
    ASSUME SumsInv
    PROVE  PayoutsAreDebited /\ MoneyIsConserved
PROOF
  <1>1. PayoutsAreDebited
    BY DEF SumsInv, DebitsHold, GrossOf, AskedOf, InsertingOf, PayoutsAreDebited,
       Withdrawn, Requested, Inserting, DeskAt
  <1>2. MoneyIsConserved
    BY DEF SumsInv, Conserved, Held, Given, GrossOf, AskedOf, AcceptedOf,
       InsertingNow, MoneyIsConserved, Withdrawn, Requested, DeskAt
  <1> QED BY <1>1, <1>2

\* Every set summed over is finite.
LEMMA DeskFinite ==
    ASSUME WalletDeskAssumption
    PROVE  /\ IsFiniteSet(Users) /\ IsFiniteSet(Requests)
           /\ IsFiniteSet(Payouts) /\ IsFiniteSet(Adjustments)
  BY DEF WalletDeskAssumption

\* Everything summed is an integer.
LEMMA SumTypes ==
    ASSUME WalletDeskAssumption, RowsInv
    PROVE  /\ \A k \in Payouts : GrossOf[k] = Gross(k) /\ GrossOf[k] \in Int
           /\ \A p \in Requests : AskedOf[p] = deskReq[p].gross /\ AskedOf[p] \in Int
           /\ \A a \in Adjustments : AcceptedOf[a] \in Int
           /\ \A u \in Users : balance[u] \in Int /\ Deposit[u] \in Int
           /\ \A S : S \subseteq Payouts => IsFiniteSet(S) /\ SumFunctionOnSet(GrossOf, S) \in Int
           /\ \A S : S \subseteq Requests => IsFiniteSet(S) /\ SumFunctionOnSet(AskedOf, S) \in Int
           /\ IsFiniteSet(Users) /\ SumFunctionOnSet(balance, Users) \in Int
           /\ SumFunctionOnSet(Deposit, Users) \in Int
           /\ IsFiniteSet(Adjustments) /\ SumFunctionOnSet(AcceptedOf, Adjustments) \in Int
           /\ SumFunctionOnSet(sent, Payouts) \in Int /\ SumFunctionOnSet(overtaken, Payouts) \in Int
PROOF
  <1>1. /\ \A k \in Payouts : GrossOf[k] = Gross(k) /\ GrossOf[k] \in Int
        /\ \A p \in Requests : AskedOf[p] = deskReq[p].gross /\ AskedOf[p] \in Int
        /\ \A a \in Adjustments : AcceptedOf[a] \in Int
        /\ \A u \in Users : balance[u] \in Int /\ Deposit[u] \in Int
        /\ \A k \in Payouts : sent[k] \in Int /\ overtaken[k] \in Int
    BY DEF GrossOf, AskedOf, AcceptedOf, Gross, RowsInv, DeskTypeOK, WalletDeskAssumption
  <1>2. /\ IsFiniteSet(Users) /\ IsFiniteSet(Requests)
        /\ IsFiniteSet(Payouts) /\ IsFiniteSet(Adjustments)
    BY DeskFinite
  <1>3. ASSUME NEW S, S \subseteq Payouts
        PROVE  IsFiniteSet(S) /\ SumFunctionOnSet(GrossOf, S) \in Int
    <2>1. IsFiniteSet(S) /\ \A k \in S : GrossOf[k] \in Int
      BY <1>1, <1>2, <1>3, FS_Subset
    <2> QED BY <2>1, SumInt
  <1>4. ASSUME NEW S, S \subseteq Requests
        PROVE  IsFiniteSet(S) /\ SumFunctionOnSet(AskedOf, S) \in Int
    <2>1. IsFiniteSet(S) /\ \A p \in S : AskedOf[p] \in Int
      BY <1>1, <1>2, <1>4, FS_Subset
    <2> QED BY <2>1, SumInt
  <1>5. /\ SumFunctionOnSet(balance, Users) \in Int /\ SumFunctionOnSet(Deposit, Users) \in Int
        /\ SumFunctionOnSet(AcceptedOf, Adjustments) \in Int
        /\ SumFunctionOnSet(sent, Payouts) \in Int /\ SumFunctionOnSet(overtaken, Payouts) \in Int
    BY <1>1, <1>2, SumInt
  <1> QED BY <1>1, <1>2, <1>3, <1>4, <1>5

\* What inserting requests have asked for changes with who is inserting only.
LEMMA AskedStays ==
    ASSUME WalletDeskAssumption, NEW S \in SUBSET Requests,
           \A q \in S : deskReq'[q].gross = deskReq[q].gross
    PROVE  SumFunctionOnSet(AskedOf', S) = SumFunctionOnSet(AskedOf, S)
PROOF
  <1>1. IsFiniteSet(S)
    BY FS_Subset, DeskFinite
  <1>2. \A q \in S : AskedOf[q] = AskedOf'[q]
    BY DEF AskedOf
  <1> HIDE DEF AskedOf
  <1> QED BY <1>1, <1>2, SumSame

\* What a payout names, and who is being inserted with what.
SamePayouts == \A k \in Payouts : GrossOf'[k] = GrossOf[k] /\ payout'[k].user = payout[k].user
SameInserting == InsertingNow' = InsertingNow /\ \A q \in InsertingNow : deskReq'[q] = deskReq[q]

\* Steps that neither debit nor insert.
LEMMA DebitsQuiet ==
    ASSUME WalletDeskAssumption, SumsInv, SamePayouts, SameInserting,
           UNCHANGED <<drawn, deskDrops>>
    PROVE  /\ \A u \in Users : DebitsHold(u)'
           /\ SumFunctionOnSet(AskedOf', InsertingNow') = SumFunctionOnSet(AskedOf, InsertingNow)
           /\ GrossOf' = GrossOf
PROOF
  <1>1. GrossOf' = GrossOf
    BY DEF GrossOf, SamePayouts
  <1>2. ASSUME NEW S \in SUBSET InsertingNow
        PROVE  SumFunctionOnSet(AskedOf', S) = SumFunctionOnSet(AskedOf, S)
    <2>1. S \in SUBSET Requests /\ \A q \in S : deskReq'[q].gross = deskReq[q].gross
      BY DEF InsertingNow, SameInserting
    <2> QED BY <2>1, AskedStays
  <1>3. ASSUME NEW u \in Users PROVE DebitsHold(u)'
    <2>1. InsertingOf(u)' = InsertingOf(u) /\ InsertingOf(u) \in SUBSET InsertingNow
      BY DEF InsertingOf, InsertingNow, SameInserting
    <2>2. PayoutsOf(u)' = PayoutsOf(u)
      BY DEF PayoutsOf, SamePayouts
    <2>3. DebitsHold(u)
      BY DEF SumsInv
    <2>4. SumFunctionOnSet(AskedOf', InsertingOf(u)') = SumFunctionOnSet(AskedOf, InsertingOf(u))
      BY <1>2, <2>1
    <2> QED BY <1>1, <2>2, <2>3, <2>4 DEF DebitsHold
  <1>4. SumFunctionOnSet(AskedOf', InsertingNow') = SumFunctionOnSet(AskedOf, InsertingNow)
    BY <1>2 DEF SameInserting
  <1> QED BY <1>1, <1>3, <1>4

\* Steps that move nothing.
LEMMA SumsQuiet ==
    ASSUME WalletDeskAssumption, SumsInv, SamePayouts, SameInserting,
           UNCHANGED <<balance, drawn, sent, overtaken, deskDrops>>,
           Undecided' = Undecided, AcceptedOf' = AcceptedOf
    PROVE  SumsInv'
PROOF
  <1>1. /\ \A u \in Users : DebitsHold(u)'
        /\ SumFunctionOnSet(AskedOf', InsertingNow') = SumFunctionOnSet(AskedOf, InsertingNow)
        /\ GrossOf' = GrossOf
    BY DebitsQuiet
  <1>3. Held' = Held /\ Given' = Given
    BY <1>1 DEF Held, Given
  <1>4. Conserved
    BY DEF SumsInv
  <1>5. Conserved'
    BY <1>3, <1>4 DEF Conserved
  <1> QED BY <1>1, <1>5 DEF SumsInv

\* A request that is not inserting, and does not come to it, leaves the sums
\* over the inserting ones alone.
LEMMA InsertingStays ==
    ASSUME NEW p \in Requests, deskReq[p].at # "insertPayout", deskReq'[p].at # "insertPayout",
           \A q \in Requests \ {p} : deskReq'[q] = deskReq[q]
    PROVE  SameInserting
  BY DEF SameInserting, InsertingNow

\* Requests that arrive, and the debit a balance does not cover.
LEMMA ArriveSums ==
    ASSUME WalletDeskAssumption, RowsInv, SumsInv, NEW p \in Requests, NEW task,
           deskReq' = [deskReq EXCEPT ![p] = task],
           deskReq[p].at # "insertPayout", task.at # "insertPayout",
           UNCHANGED <<balance, drawn, payout, returned, sent, overtaken, adjustment, applied, deskDrops>>
    PROVE  SumsInv'
PROOF
  <1>1. SameInserting
    BY InsertingStays DEF RowsInv, DeskTypeOK
  <1>2. SamePayouts /\ Undecided' = Undecided /\ AcceptedOf' = AcceptedOf
    BY DEF SamePayouts, GrossOf, Gross, Undecided, AcceptedOf
  <1> QED BY <1>1, <1>2, SumsQuiet

\* The value of one payout in a sum moves by change.
LEMMA PayoutSumMoves ==
    ASSUME WalletDeskAssumption, NEW f, NEW g, NEW k \in Payouts, NEW change \in Int,
           \A i \in Payouts : f[i] \in Int /\ g[i] \in Int,
           \A i \in Payouts \ {k} : f[i] = g[i], g[k] = f[k] + change
    PROVE  SumFunctionOnSet(g, Payouts) = SumFunctionOnSet(f, Payouts) + change
PROOF
  <1>1. IsFiniteSet(Payouts)
    BY DeskFinite
  <1>2. SumFunctionOnSet(g, Payouts) = SumFunctionOnSet(f, Payouts) - f[k] + g[k]
    BY <1>1, SumChange
  <1>3. SumFunctionOnSet(f, Payouts) \in Int
    BY <1>1, SumInt
  <1> QED BY <1>2, <1>3

\* A payout that is decided takes its gross out of what the desk has to decide.
LEMMA DecidedSums ==
    ASSUME WalletDeskAssumption, RowsInv, NEW k \in Payouts, k \in Undecided,
           payout'[k].status \notin {"PENDING", "APPROVED"},
           \A i \in Payouts \ {k} : payout'[i] = payout[i]
    PROVE  /\ Undecided' = Undecided \ {k}
           /\ SumFunctionOnSet(GrossOf, Undecided)
              = Gross(k) + SumFunctionOnSet(GrossOf, Undecided \ {k})
           /\ SumFunctionOnSet(GrossOf, Undecided \ {k}) \in Int /\ Gross(k) \in Int
PROOF
  <1>1. Undecided' = Undecided \ {k} /\ Undecided \in SUBSET Payouts
    BY DEF Undecided
  <1>2. IsFiniteSet(Undecided) /\ \A i \in Undecided : GrossOf[i] \in Int
    BY <1>1, SumTypes
  <1>3. SumFunctionOnSet(GrossOf, Undecided) = GrossOf[k] + SumFunctionOnSet(GrossOf, Undecided \ {k})
    BY <1>2, SumRemove
  <1>4. GrossOf[k] = Gross(k) /\ GrossOf[k] \in Int
    BY SumTypes
  <1>5. Undecided \ {k} \subseteq Payouts
    BY <1>1
  <1>6. SumFunctionOnSet(GrossOf, Undecided \ {k}) \in Int
    BY <1>5, SumTypes
  <1> QED BY <1>1, <1>3, <1>4, <1>6

\* approve leaves the money to be decided; mark-transferred sends it.
LEMMA MovePayoutSums ==
    ASSUME WalletDeskAssumption, RowsInv, SumsInv, NEW k \in Payouts,
           ApprovePayout(k) \/ MarkTransferred(k)
    PROVE  SumsInv'
PROOF
  <1>1. PICK new \in {"APPROVED", "TRANSFERRED"} :
          /\ payout' = [payout EXCEPT ![k].status = new] /\ k \in Undecided
          /\ UNCHANGED <<balance, drawn, overtaken, adjustment, applied, deskReq, deskDrops>>
          /\ IF new = "APPROVED" THEN sent' = sent ELSE sent' = [sent EXCEPT ![k] = @ + Gross(k)]
    BY DEF ApprovePayout, MarkTransferred, MovePayout, adjustments, Undecided
  <1>2. /\ payout'[k] = [payout[k] EXCEPT !.status = new]
        /\ \A i \in Payouts \ {k} : payout'[i] = payout[i]
    BY <1>1 DEF RowsInv, DeskTypeOK
  <1>3. /\ payout'[k].status = new /\ payout'[k].user = payout[k].user
        /\ payout'[k].net = payout[k].net /\ payout'[k].fee = payout[k].fee
    BY <1>2 DEF RowsInv, DeskTypeOK
  <1>4. SamePayouts
    BY <1>2, <1>3 DEF SamePayouts, GrossOf, Gross
  <1>5. SameInserting /\ AcceptedOf' = AcceptedOf
    BY <1>1 DEF SameInserting, InsertingNow, AcceptedOf
  <1>6. CASE new = "APPROVED"
    <2>1. Undecided' = Undecided
      BY <1>1, <1>2, <1>3, <1>6 DEF Undecided
    <2> QED BY <1>1, <1>4, <1>5, <1>6, <2>1, SumsQuiet
  <1>7. CASE new = "TRANSFERRED"
    <2>1. /\ \A v \in Users : DebitsHold(v)'
          /\ SumFunctionOnSet(AskedOf', InsertingNow') = SumFunctionOnSet(AskedOf, InsertingNow)
          /\ GrossOf' = GrossOf
      BY <1>1, <1>4, <1>5, DebitsQuiet
    <2>2. /\ Undecided' = Undecided \ {k}
          /\ SumFunctionOnSet(GrossOf, Undecided)
             = Gross(k) + SumFunctionOnSet(GrossOf, Undecided \ {k})
          /\ SumFunctionOnSet(GrossOf, Undecided \ {k}) \in Int /\ Gross(k) \in Int
      BY <1>1, <1>2, <1>3, <1>7, DecidedSums
    <2>3. SumFunctionOnSet(sent', Payouts) = SumFunctionOnSet(sent, Payouts) + Gross(k)
      <3>1. sent \in [Payouts -> Nat] /\ Gross(k) \in Nat
        BY <1>1 DEF RowsInv, DeskTypeOK, PayoutInv, Gross, Undecided
      <3>2. sent' = [sent EXCEPT ![k] = @ + Gross(k)]
        BY <1>1, <1>7
      <3>3. /\ \A i \in Payouts : sent[i] \in Int /\ sent'[i] \in Int
            /\ \A i \in Payouts \ {k} : sent[i] = sent'[i]
            /\ sent'[k] = sent[k] + Gross(k) /\ Gross(k) \in Int
        BY <3>1, <3>2
      <3> QED BY <3>3, PayoutSumMoves
    <2>4. /\ SumFunctionOnSet(balance, Users) \in Int /\ SumFunctionOnSet(sent, Payouts) \in Int
          /\ SumFunctionOnSet(AskedOf, InsertingNow) \in Int
      <3>1. InsertingNow \subseteq Requests
        BY DEF InsertingNow
      <3> QED BY <3>1, SumTypes
    <2>5. Held' = Held
      BY <1>1, <2>1, <2>2, <2>3, <2>4 DEF Held
    <2>6. Given' = Given
      BY <1>1, <1>5 DEF Given
    <2> QED BY <1>1, <2>1, <2>5, <2>6 DEF SumsInv, Conserved
  <1> QED BY <1>6, <1>7

\* A proposal and its rejection: nothing was applied.
LEMMA ProposalSums ==
    ASSUME WalletDeskAssumption, RowsInv, SumsInv, NEW a \in Adjustments,
           \/ RejectAdjustment(a)
           \/ \E u \in Users, c \in Changes : ProposeAdjustment(a, u, c)
    PROVE  SumsInv'
PROOF
  <1>1. /\ UNCHANGED <<balance, drawn, payout, returned, sent, overtaken, applied, deskReq, deskDrops>>
        /\ \E row : adjustment' = [adjustment EXCEPT ![a] = row]
    BY DEF RejectAdjustment, ProposeAdjustment, payouts
  <1>2. applied[a] = 0
    BY ProposalRows
  <1>3. \A b \in Adjustments \ {a} : adjustment'[b] = adjustment[b]
    BY <1>1 DEF RowsInv, DeskTypeOK
  <1>4. AcceptedOf' = AcceptedOf
    BY <1>1, <1>2, <1>3 DEF AcceptedOf
  <1>5. SamePayouts /\ SameInserting /\ Undecided' = Undecided
    BY <1>1 DEF SamePayouts, GrossOf, Gross, SameInserting, InsertingNow, Undecided
  <1> QED BY <1>1, <1>4, <1>5, SumsQuiet

\* create_payout, the debit: what leaves the balance is in the request's hand.
LEMMA DebitPayoutSums ==
    ASSUME WalletDeskAssumption, RowsInv, SumsInv, NEW p \in Requests, DebitPayout(p)
    PROVE  SumsInv'
PROOF
  <1> DEFINE u == deskReq[p].user
             a == deskReq[p].gross
  <1>1. /\ deskReq[p].at = "debitPayout" /\ u \in Users /\ a \in Int
        /\ UNCHANGED <<payout, returned, sent, overtaken, adjustment, applied, deskDrops>>
    BY DEF DebitPayout, DeskAt, adjustments, RowsInv, DeskKnows, DeskTypeOK
  <1>2. CASE DeskEnd(p) /\ UNCHANGED <<balance, drawn>>
    <2>1. deskReq' = [deskReq EXCEPT ![p] = DeskIdle] /\ DeskIdle.at # "insertPayout"
      BY <1>2 DEF DeskEnd, DeskIdle, Task
    <2> QED BY <1>1, <1>2, <2>1, ArriveSums
  <1>3. CASE /\ balance' = [balance EXCEPT ![u] = @ - a]
             /\ drawn'   = [drawn EXCEPT ![u] = @ + a]
             /\ DeskGoto(p, "insertPayout")
    <2>1. /\ deskReq'[p].at = "insertPayout" /\ deskReq'[p].user = u /\ deskReq'[p].gross = a
          /\ \A q \in Requests \ {p} : deskReq'[q] = deskReq[q]
      BY <1>3 DEF DeskGoto, RowsInv, DeskTypeOK
    <2>2. /\ balance \in [Users -> Nat] /\ drawn \in [Users -> Nat]
          /\ \A q \in Requests : deskReq[q].gross \in Int
      BY DEF RowsInv, DeskTypeOK
    <2>3. /\ balance'[u] = balance[u] - a /\ drawn'[u] = drawn[u] + a
          /\ \A v \in Users \ {u} : balance'[v] = balance[v] /\ drawn'[v] = drawn[v]
      BY <1>1, <1>3, <2>2
    <2>4. /\ GrossOf' = GrossOf /\ Undecided' = Undecided /\ AcceptedOf' = AcceptedOf
          /\ \A v \in Users : PayoutsOf(v)' = PayoutsOf(v)
          /\ sent' = sent /\ overtaken' = overtaken /\ deskDrops' = deskDrops
      BY <1>1 DEF GrossOf, Gross, Undecided, AcceptedOf, PayoutsOf
    <2> HIDE DEF u, a
    \* p joins a set of inserting requests, with a.
    <2>5. ASSUME NEW S \in SUBSET Requests, p \notin S
          PROVE  SumFunctionOnSet(AskedOf', S \cup {p}) = a + SumFunctionOnSet(AskedOf, S)
      <3>1. IsFiniteSet(S)
        BY FS_Subset, DeskFinite
      <3>2. \A q \in S \cup {p} : AskedOf'[q] \in Int
        BY <2>1, <2>2, <1>1 DEF AskedOf
      <3>3. SumFunctionOnSet(AskedOf', S) = SumFunctionOnSet(AskedOf, S)
        <4>1. \A q \in S : deskReq'[q].gross = deskReq[q].gross
          BY <2>1, <2>5
        <4> QED BY <4>1, AskedStays
      <3>4. AskedOf'[p] = a
        BY <2>1 DEF AskedOf
      <3>5. SumFunctionOnSet(AskedOf', S \cup {p}) = AskedOf'[p] + SumFunctionOnSet(AskedOf', S)
        BY <2>5, <3>1, <3>2, SumAdd
      <3> QED BY <3>3, <3>4, <3>5
    <2>6. ASSUME NEW v \in Users PROVE DebitsHold(v)'
      <3>1. /\ DebitsHold(v) /\ SumFunctionOnSet(GrossOf, PayoutsOf(v)) \in Int
            /\ SumFunctionOnSet(AskedOf, InsertingOf(v)) \in Int /\ drawn[v] \in Int
        <4>1. PayoutsOf(v) \subseteq Payouts /\ InsertingOf(v) \subseteq Requests
          BY DEF PayoutsOf, InsertingOf
        <4> QED BY <2>2, <4>1, SumTypes DEF SumsInv
      <3>2. CASE v = u
        <4>1. InsertingOf(v)' = InsertingOf(v) \cup {p} /\ p \notin InsertingOf(v)
          BY <1>1, <2>1, <3>2 DEF InsertingOf, u
        <4>2. SumFunctionOnSet(AskedOf', InsertingOf(v) \cup {p})
              = a + SumFunctionOnSet(AskedOf, InsertingOf(v))
          <5>1. InsertingOf(v) \in SUBSET Requests
            BY DEF InsertingOf
          <5> QED BY <2>5, <4>1, <5>1
        <4>3. drawn'[v] = drawn[v] + a /\ a \in Int
          BY <1>1, <2>3, <3>2 DEF a
        <4> QED BY <1>1, <2>3, <2>4, <3>1, <4>1, <4>2, <4>3 DEF DebitsHold
      <3>3. CASE v # u
        <4>1. InsertingOf(v)' = InsertingOf(v) /\ p \notin InsertingOf(v)
              /\ InsertingOf(v) \in SUBSET Requests
          BY <1>1, <2>1, <3>3 DEF InsertingOf, u
        <4>2. \A q \in InsertingOf(v) : deskReq'[q].gross = deskReq[q].gross
          BY <2>1, <4>1
        <4>3. SumFunctionOnSet(AskedOf', InsertingOf(v)) = SumFunctionOnSet(AskedOf, InsertingOf(v))
          BY <4>1, <4>2, AskedStays
        <4> QED BY <2>3, <2>4, <3>1, <3>3, <4>1, <4>3 DEF DebitsHold
      <3> QED BY <3>2, <3>3
    <2>7. Held' = Held /\ Given' = Given
      <3>1. SumFunctionOnSet(balance', Users) = SumFunctionOnSet(balance, Users) - balance[u] + balance'[u]
        <4>1. \A v \in Users : balance[v] \in Int /\ balance'[v] \in Int
          BY <1>1, <2>2, <2>3
        <4>2. \A v \in Users \ {u} : balance[v] = balance'[v]
          BY <2>3
        <4> QED BY <1>1, <4>1, <4>2, DeskFinite, SumChange
      <3>2. InsertingNow' = InsertingNow \cup {p} /\ p \notin InsertingNow
            /\ InsertingNow \in SUBSET Requests
        BY <1>1, <2>1 DEF InsertingNow
      <3>3. SumFunctionOnSet(AskedOf', InsertingNow') = a + SumFunctionOnSet(AskedOf, InsertingNow)
        BY <2>5, <3>2
      <3>4. /\ SumFunctionOnSet(balance, Users) \in Int /\ balance[u] \in Int
            /\ SumFunctionOnSet(GrossOf, Undecided) \in Int
            /\ SumFunctionOnSet(sent, Payouts) \in Int
            /\ SumFunctionOnSet(AskedOf, InsertingNow) \in Int
        <4>1. Undecided \subseteq Payouts /\ InsertingNow \subseteq Requests
          BY DEF Undecided, InsertingNow
        <4> QED BY <1>1, <4>1, SumTypes
      <3>5. Held' = Held
        BY <1>1, <2>3, <2>4, <3>1, <3>3, <3>4 DEF Held
      <3> QED BY <2>4, <3>5 DEF Given
    <2> QED BY <2>4, <2>6, <2>7 DEF SumsInv, Conserved
  <1> QED BY <1>2, <1>3 DEF DebitPayout

\* create_payout, the INSERT: the row takes over what the request held.
LEMMA InsertPayoutSums ==
    ASSUME WalletDeskAssumption, RowsInv, SumsInv, NEW p \in Requests, InsertPayout(p)
    PROVE  SumsInv'
PROOF
  <1>1. PICK k \in Payouts :
           /\ payout[k].status = "NONE"
           /\ payout' = [payout EXCEPT ![k] =
                 [status |-> "PENDING", user |-> deskReq[p].user,
                  net |-> deskReq[p].gross - Fee[deskReq[p].user], fee |-> Fee[deskReq[p].user]]]
    BY DEF InsertPayout
  <1>2. /\ deskReq[p].at = "insertPayout" /\ DeskEnd(p)
        /\ UNCHANGED <<balance, drawn, returned, sent, overtaken, adjustment, applied, deskDrops>>
    BY DEF InsertPayout, DeskAt, adjustments
  <1> DEFINE u == deskReq[p].user
             a == deskReq[p].gross
  <1>3. /\ RowsInv' /\ Gross(k)' = a /\ payout'[k].user = u
        /\ \A i \in Payouts \ {k} : payout'[i] = payout[i]
    BY <1>1, <1>2, InsertPayoutRows
  <1>4. /\ u \in Users /\ a \in Int /\ Nobody \notin Users
        /\ payout[k].user = Nobody /\ returned[k] = 0 /\ Gross(k) = 0
    BY <1>1, <1>2 DEF RowsInv, DeskKnows, PayoutInv, DeskTypeOK, WalletDeskAssumption
  <1>5. /\ \A q \in Requests \ {p} : deskReq'[q] = deskReq[q]
        /\ deskReq'[p].at # "insertPayout"
    <2>1. "idle" \in DeskSteps
      BY DEF DeskSteps
    <2>2. deskReq'[p] = DeskIdle /\ \A q \in Requests \ {p} : deskReq'[q] = deskReq[q]
      BY <1>2, <2>1, DeskTask
    <2> QED BY <2>2 DEF DeskIdle, Task
  <1>6. /\ GrossOf'[k] = a /\ GrossOf[k] = 0
        /\ \A i \in Payouts \ {k} : GrossOf'[i] = GrossOf[i]
        /\ \A i \in Payouts : GrossOf[i] \in Int /\ GrossOf'[i] \in Int
    <2>1. GrossOf'[k] = a /\ \A i \in Payouts \ {k} : GrossOf'[i] = GrossOf[i]
      BY <1>3 DEF GrossOf, Gross
    <2>2. GrossOf[k] = 0 /\ \A i \in Payouts : GrossOf[i] \in Int
      BY <1>4, SumTypes
    <2> QED BY <1>4, <2>1, <2>2
  <1>7. Undecided' = Undecided \cup {k} /\ k \notin Undecided /\ Undecided \in SUBSET Payouts
    <2>1. payout'[k].status = "PENDING"
      BY <1>1 DEF RowsInv, DeskTypeOK
    <2> QED BY <1>1, <1>3, <2>1 DEF Undecided
  <1>8. AcceptedOf' = AcceptedOf
    BY <1>2 DEF AcceptedOf
  <1> HIDE DEF u, a
  \* What a set of payouts names grows by a when k joins it, or is in it.
  <1>9. ASSUME NEW S \in SUBSET Payouts, k \notin S
        PROVE  /\ SumFunctionOnSet(GrossOf', S) = SumFunctionOnSet(GrossOf, S)
               /\ SumFunctionOnSet(GrossOf', S \cup {k}) = a + SumFunctionOnSet(GrossOf, S)
               /\ SumFunctionOnSet(GrossOf, S \cup {k}) = SumFunctionOnSet(GrossOf, S)
    <2>1. IsFiniteSet(S)
      BY FS_Subset, DeskFinite
    <2>2. SumFunctionOnSet(GrossOf', S) = SumFunctionOnSet(GrossOf, S)
      <3>1. \A i \in S : GrossOf'[i] = GrossOf[i]
        BY <1>6, <1>9
      <3> QED BY <2>1, <3>1, SumSame
    <2>3. \A i \in S \cup {k} : GrossOf[i] \in Int /\ GrossOf'[i] \in Int
      BY <1>6
    <2>4. /\ SumFunctionOnSet(GrossOf', S \cup {k}) = GrossOf'[k] + SumFunctionOnSet(GrossOf', S)
          /\ SumFunctionOnSet(GrossOf, S \cup {k}) = GrossOf[k] + SumFunctionOnSet(GrossOf, S)
      BY <1>9, <2>1, <2>3, SumAdd
    <2>5. SumFunctionOnSet(GrossOf, S) \in Int
      BY <2>1, <1>6, SumInt
    <2> QED BY <1>6, <2>2, <2>4, <2>5
  \* What a set of inserting requests has asked for shrinks by a when p leaves it.
  <1>10. ASSUME NEW S \in SUBSET Requests
         PROVE  /\ p \notin S => SumFunctionOnSet(AskedOf', S) = SumFunctionOnSet(AskedOf, S)
                /\ p \in S => SumFunctionOnSet(AskedOf, S) = a + SumFunctionOnSet(AskedOf', S \ {p})
    <2>1. \A T \in SUBSET Requests : p \notin T => SumFunctionOnSet(AskedOf', T) = SumFunctionOnSet(AskedOf, T)
      <3>1. ASSUME NEW T \in SUBSET Requests, p \notin T
            PROVE  SumFunctionOnSet(AskedOf', T) = SumFunctionOnSet(AskedOf, T)
        <4>1. \A q \in T : deskReq'[q].gross = deskReq[q].gross
          BY <1>5, <3>1
        <4> QED BY <4>1, AskedStays
      <3> QED BY <3>1
    <2>2. ASSUME p \in S PROVE SumFunctionOnSet(AskedOf, S) = a + SumFunctionOnSet(AskedOf, S \ {p})
      <3>1. IsFiniteSet(S) /\ \A q \in S : AskedOf[q] \in Int
        BY SumTypes
      <3>2. AskedOf[p] = a
        BY DEF AskedOf, a
      <3> QED BY <2>2, <3>1, <3>2, SumRemove
    <2>3. S \ {p} \in SUBSET Requests /\ p \notin S \ {p}
      OBVIOUS
    <2> QED BY <2>1, <2>2, <2>3
  <1>11. ASSUME NEW v \in Users PROVE DebitsHold(v)'
    <2>1. /\ DebitsHold(v) /\ SumFunctionOnSet(GrossOf, PayoutsOf(v)) \in Int
          /\ PayoutsOf(v) \in SUBSET Payouts /\ k \notin PayoutsOf(v)
          /\ InsertingOf(v) \in SUBSET Requests
      <3>1. /\ PayoutsOf(v) \in SUBSET Payouts /\ k \notin PayoutsOf(v)
            /\ InsertingOf(v) \in SUBSET Requests
        BY <1>4 DEF PayoutsOf, InsertingOf
      <3> QED BY <3>1, SumTypes DEF SumsInv
    <2>2. CASE v = u
      <3>1. /\ PayoutsOf(v)' = PayoutsOf(v) \cup {k}
            /\ InsertingOf(v)' = InsertingOf(v) \ {p} /\ p \in InsertingOf(v)
        BY <1>2, <1>3, <1>5, <2>2 DEF PayoutsOf, InsertingOf, u
      <3>2. /\ SumFunctionOnSet(GrossOf', PayoutsOf(v) \cup {k})
               = a + SumFunctionOnSet(GrossOf, PayoutsOf(v))
            /\ SumFunctionOnSet(AskedOf, InsertingOf(v)) = a + SumFunctionOnSet(AskedOf', InsertingOf(v) \ {p})
        BY <1>9, <1>10, <2>1, <3>1
      <3>3. SumFunctionOnSet(AskedOf', InsertingOf(v) \ {p}) \in Int
        <4>1. InsertingOf(v) \ {p} \in SUBSET Requests /\ p \notin InsertingOf(v) \ {p}
          BY <2>1
        <4>2. SumFunctionOnSet(AskedOf, InsertingOf(v) \ {p}) \in Int
          BY <4>1, SumTypes
        <4> QED BY <1>10, <4>1, <4>2
      <3>4. a \in Int
        BY <1>4 DEF a
      <3>5. /\ drawn' = drawn /\ deskDrops' = deskDrops
        BY <1>2
      <3> QED BY <2>1, <3>1, <3>2, <3>3, <3>4, <3>5 DEF DebitsHold
    <2>3. CASE v # u
      <3>1. /\ PayoutsOf(v)' = PayoutsOf(v)
            /\ InsertingOf(v)' = InsertingOf(v) /\ p \notin InsertingOf(v)
        BY <1>2, <1>3, <1>4, <1>5, <2>3 DEF PayoutsOf, InsertingOf, u
      <3>2. /\ SumFunctionOnSet(GrossOf', PayoutsOf(v)) = SumFunctionOnSet(GrossOf, PayoutsOf(v))
            /\ SumFunctionOnSet(AskedOf', InsertingOf(v)) = SumFunctionOnSet(AskedOf, InsertingOf(v))
        BY <1>9, <1>10, <2>1, <3>1
      <3>3. /\ drawn' = drawn /\ deskDrops' = deskDrops
        BY <1>2
      <3> QED BY <2>1, <3>1, <3>2, <3>3 DEF DebitsHold
    <2> QED BY <2>2, <2>3
  <1>12. Held' = Held
    <2>1. Undecided' = Undecided \cup {k} /\ k \notin Undecided /\ Undecided \in SUBSET Payouts
      BY <1>7
    <2>2. SumFunctionOnSet(GrossOf', Undecided') = a + SumFunctionOnSet(GrossOf, Undecided)
      BY <1>9, <2>1
    <2>3. InsertingNow' = InsertingNow \ {p} /\ InsertingNow \in SUBSET Requests /\ p \in InsertingNow
      BY <1>2, <1>5 DEF InsertingNow
    <2>4. SumFunctionOnSet(AskedOf, InsertingNow) = a + SumFunctionOnSet(AskedOf', InsertingNow')
      BY <1>10, <2>3
    <2>5. /\ SumFunctionOnSet(balance, Users) \in Int /\ SumFunctionOnSet(GrossOf, Undecided) \in Int
          /\ SumFunctionOnSet(sent, Payouts) \in Int /\ a \in Int
      BY <1>4, <2>1, SumTypes DEF a
    <2>6. SumFunctionOnSet(AskedOf', InsertingNow') \in Int
      <3>1. InsertingNow \ {p} \in SUBSET Requests /\ p \notin InsertingNow \ {p}
        BY <2>3
      <3>2. SumFunctionOnSet(AskedOf, InsertingNow \ {p}) \in Int
        BY <3>1, SumTypes
      <3> QED BY <1>10, <2>3, <3>1, <3>2
    <2>7. balance' = balance /\ sent' = sent
      BY <1>2
    <2> QED BY <2>1, <2>2, <2>4, <2>5, <2>6, <2>7 DEF Held
  <1>13. Given' = Given /\ deskDrops' = deskDrops
    BY <1>2, <1>8 DEF Given
  <1> QED BY <1>11, <1>12, <1>13 DEF SumsInv, Conserved

\* A request that ends without inserting.
LEMMA EndsQuiet ==
    ASSUME RowsInv, NEW p \in Requests, deskReq[p].at # "insertPayout", DeskEnd(p)
    PROVE  SameInserting
PROOF
  <1>1. "idle" \in DeskSteps
    BY DEF DeskSteps
  <1>2. deskReq'[p] = DeskIdle /\ \A q \in Requests \ {p} : deskReq'[q] = deskReq[q]
    BY <1>1, DeskTask
  <1>3. deskReq'[p].at # "insertPayout"
    BY <1>2 DEF DeskIdle, Task
  <1> QED BY <1>2, <1>3, InsertingStays

\* A user's balance moves by change.
LEMMA BalanceMoves ==
    ASSUME WalletDeskAssumption, RowsInv, NEW u \in Users, NEW change \in Int,
           balance' = [balance EXCEPT ![u] = @ + change]
    PROVE  SumFunctionOnSet(balance', Users) = SumFunctionOnSet(balance, Users) + change
PROOF
  <1>1. balance \in [Users -> Nat]
    BY DEF RowsInv, DeskTypeOK
  <1>2. balance'[u] = balance[u] + change /\ balance[u] \in Int
    BY <1>1
  <1>3. SumFunctionOnSet(balance', Users) = SumFunctionOnSet(balance, Users) - balance[u] + balance'[u]
    <2>1. \A v \in Users \ {u} : balance[v] = balance'[v]
      BY <1>1
    <2>2. \A v \in Users : balance[v] \in Int /\ balance'[v] \in Int
      BY <1>1, <1>2, <2>1
    <2> DEFINE before == balance
               after  == balance'
    <2>3. /\ \A v \in Users \ {u} : before[v] = after[v]
          /\ \A v \in Users : before[v] \in Int /\ after[v] \in Int
      BY <2>1, <2>2
    <2>4. IsFiniteSet(Users)
      BY DeskFinite
    <2> HIDE DEF before, after
    <2>5. SumFunctionOnSet(after, Users) = SumFunctionOnSet(before, Users) - before[u] + after[u]
      BY <2>3, <2>4, SumChange
    <2> QED BY <2>5 DEF before, after
  <1>4. SumFunctionOnSet(balance, Users) \in Int
    BY SumTypes
  <1> QED BY <1>2, <1>3, <1>4

\* admin_payout_reject: what the row named is back in the balance, and comes
\* out of what the desk has to decide, or counts as overtaken.
LEMMA RejectPayoutSums ==
    ASSUME WalletDeskAssumption, RowsInv, SumsInv, NEW p \in Requests, RejectPayout(p)
    PROVE  SumsInv'
PROOF
  <1> DEFINE k == deskReq[p].item
             u == deskReq[p].user
             a == deskReq[p].gross
  <1>1. /\ deskReq[p].at = "rejectPayout" /\ DeskEnd(p)
        /\ payout'   = [payout EXCEPT ![k].status = "REJECTED"]
        /\ balance'  = [balance EXCEPT ![u] = @ + a]
        /\ returned' = [returned EXCEPT ![k] = @ + a]
        /\ overtaken' = IF k \in Undecided THEN overtaken ELSE [overtaken EXCEPT ![k] = @ + a]
        /\ UNCHANGED <<drawn, sent, adjustment, applied, deskDrops>>
    BY DEF RejectPayout, DeskAt, adjustments
  <1>2. /\ k \in Payouts /\ payout[k].status # "NONE" /\ u \in Users
        /\ a = Gross(k) /\ a \in Nat \ {0}
    BY RejectPayoutRows
  <1>3. SameInserting
    BY <1>1, EndsQuiet
  <1> HIDE DEF k, u, a
  <1>4. /\ payout'[k] = [payout[k] EXCEPT !.status = "REJECTED"]
        /\ \A i \in Payouts \ {k} : payout'[i] = payout[i]
    BY <1>1, <1>2 DEF RowsInv, DeskTypeOK
  <1>5. /\ payout'[k].status = "REJECTED" /\ payout'[k].user = payout[k].user
        /\ payout'[k].net = payout[k].net /\ payout'[k].fee = payout[k].fee
    BY <1>2, <1>4 DEF RowsInv, DeskTypeOK
  <1>6. SamePayouts
    BY <1>4, <1>5 DEF SamePayouts, GrossOf, Gross
  <1>7. /\ \A v \in Users : DebitsHold(v)'
        /\ SumFunctionOnSet(AskedOf', InsertingNow') = SumFunctionOnSet(AskedOf, InsertingNow)
        /\ GrossOf' = GrossOf
    BY <1>1, <1>3, <1>6, DebitsQuiet
  <1>8. SumFunctionOnSet(balance', Users) = SumFunctionOnSet(balance, Users) + a
    <2>1. a \in Int
      BY <1>2
    <2> QED BY <1>1, <1>2, <2>1, BalanceMoves
  <1>9. /\ SumFunctionOnSet(balance, Users) \in Int /\ SumFunctionOnSet(Deposit, Users) \in Int
        /\ SumFunctionOnSet(sent, Payouts) \in Int /\ SumFunctionOnSet(overtaken, Payouts) \in Int
        /\ SumFunctionOnSet(GrossOf, Undecided) \in Int
        /\ SumFunctionOnSet(AskedOf, InsertingNow) \in Int
        /\ SumFunctionOnSet(AcceptedOf, Adjustments) \in Int
    <2>1. Undecided \subseteq Payouts /\ InsertingNow \subseteq Requests
      BY DEF Undecided, InsertingNow
    <2> QED BY <2>1, SumTypes
  <1>10. AcceptedOf' = AcceptedOf /\ sent' = sent /\ Conserved /\ deskDrops' = deskDrops
    BY <1>1 DEF AcceptedOf, SumsInv
  <1>11. CASE k \in Undecided
    <2>1. /\ Undecided' = Undecided \ {k}
          /\ SumFunctionOnSet(GrossOf, Undecided)
             = Gross(k) + SumFunctionOnSet(GrossOf, Undecided \ {k})
          /\ SumFunctionOnSet(GrossOf, Undecided \ {k}) \in Int
      BY <1>2, <1>4, <1>5, <1>11, DecidedSums
    <2>2. Held' = Held
      BY <1>2, <1>7, <1>8, <1>9, <1>10, <2>1 DEF Held
    <2>3. Given' = Given
      BY <1>1, <1>10, <1>11 DEF Given
    <2> QED BY <1>7, <1>10, <2>2, <2>3 DEF SumsInv, Conserved
  <1>12. CASE k \notin Undecided
    <2>1. Undecided' = Undecided
      BY <1>4, <1>5, <1>12 DEF Undecided
    <2>2. Held' = Held + a
      BY <1>2, <1>7, <1>8, <1>9, <1>10, <2>1 DEF Held
    <2>3. SumFunctionOnSet(overtaken', Payouts) = SumFunctionOnSet(overtaken, Payouts) + a
      <3>1. overtaken \in [Payouts -> Nat] /\ a \in Nat
        BY <1>2 DEF RowsInv, DeskTypeOK
      <3>2. overtaken' = [overtaken EXCEPT ![k] = @ + a]
        BY <1>1, <1>12
      <3>3. /\ \A i \in Payouts : overtaken[i] \in Int /\ overtaken'[i] \in Int
            /\ \A i \in Payouts \ {k} : overtaken[i] = overtaken'[i]
            /\ overtaken'[k] = overtaken[k] + a /\ a \in Int
        BY <1>2, <3>1, <3>2
      <3> QED BY <1>2, <3>3, PayoutSumMoves
    <2>4. Given' = Given + a
      BY <1>2, <1>9, <1>10, <2>3 DEF Given
    <2>5. Held \in Int /\ Given \in Int
      BY <1>9 DEF Held, Given
    <2> QED BY <1>2, <1>7, <1>10, <2>2, <2>4, <2>5 DEF SumsInv, Conserved
  <1> QED BY <1>11, <1>12

\* accept: the balance and the accepted adjustment move by the same change.
LEMMA AcceptAdjustmentSums ==
    ASSUME WalletDeskAssumption, RowsInv, SumsInv, NEW p \in Requests, AcceptAdjustment(p)
    PROVE  SumsInv'
PROOF
  <1> DEFINE b == deskReq[p].item
             u == deskReq[p].user
  <1>1. /\ RowsInv' /\ deskReq[p].at = "acceptAdjustment" /\ DeskEnd(p)
        /\ UNCHANGED <<drawn, payout, returned, sent, overtaken, deskDrops>>
        /\ b \in Adjustments /\ u \in Users
        /\ adjustment' = [adjustment EXCEPT ![b].status = "ACCEPTED"]
    BY AcceptAdjustmentRows
  <1>2. PICK change \in Int : /\ balance' = [balance EXCEPT ![u] = @ + change]
                              /\ applied' = [applied EXCEPT ![b] = @ + change]
    BY AcceptAdjustmentRows
  <1>3. SameInserting
    BY <1>1, EndsQuiet
  <1> HIDE DEF b, u
  <1>4. SamePayouts /\ Undecided' = Undecided /\ sent' = sent /\ overtaken' = overtaken
    BY <1>1 DEF SamePayouts, GrossOf, Gross, Undecided
  <1>5. /\ \A v \in Users : DebitsHold(v)'
        /\ SumFunctionOnSet(AskedOf', InsertingNow') = SumFunctionOnSet(AskedOf, InsertingNow)
        /\ GrossOf' = GrossOf
    BY <1>1, <1>3, <1>4, DebitsQuiet
  <1>6. SumFunctionOnSet(balance', Users) = SumFunctionOnSet(balance, Users) + change
    BY <1>1, <1>2, BalanceMoves
  <1>7. SumFunctionOnSet(AcceptedOf', Adjustments) = SumFunctionOnSet(AcceptedOf, Adjustments) + change
    <2>1. /\ adjustment'[b].status = "ACCEPTED" /\ applied'[b] = applied[b] + change
          /\ \A i \in Adjustments \ {b} : adjustment'[i] = adjustment[i] /\ applied'[i] = applied[i]
          /\ \A i \in Adjustments : applied[i] \in Int /\ applied'[i] \in Int
      BY <1>1, <1>2 DEF RowsInv, DeskTypeOK
    <2>2. AcceptedOf[b] = applied[b]
      BY <1>1 DEF AcceptedOf, RowsInv, AppliedIsAccepted
    <2>3. AcceptedOf'[b] = applied[b] + change
      BY <1>1, <2>1 DEF AcceptedOf
    <2>4. \A i \in Adjustments \ {b} : AcceptedOf[i] = AcceptedOf'[i]
      BY <2>1 DEF AcceptedOf
    <2>5. \A i \in Adjustments : AcceptedOf[i] \in Int /\ AcceptedOf'[i] \in Int
      BY <2>1 DEF AcceptedOf
    <2>6. SumFunctionOnSet(AcceptedOf', Adjustments)
          = SumFunctionOnSet(AcceptedOf, Adjustments) - AcceptedOf[b] + AcceptedOf'[b]
      BY <1>1, <2>4, <2>5, DeskFinite, SumChange
    <2>7. SumFunctionOnSet(AcceptedOf, Adjustments) \in Int /\ applied[b] \in Int
      BY <1>1, <2>1, SumTypes
    <2> QED BY <1>2, <2>2, <2>3, <2>6, <2>7
  <1>8. /\ Held' = Held + change /\ Given' = Given + change
        /\ Held \in Int /\ Given \in Int
    <2>1. /\ SumFunctionOnSet(balance, Users) \in Int /\ SumFunctionOnSet(Deposit, Users) \in Int
          /\ SumFunctionOnSet(GrossOf, Undecided) \in Int
          /\ SumFunctionOnSet(AskedOf, InsertingNow) \in Int
          /\ SumFunctionOnSet(AcceptedOf, Adjustments) \in Int
          /\ SumFunctionOnSet(sent, Payouts) \in Int /\ SumFunctionOnSet(overtaken, Payouts) \in Int
      <3>1. Undecided \subseteq Payouts /\ InsertingNow \subseteq Requests
        BY DEF Undecided, InsertingNow
      <3> QED BY <3>1, SumTypes
    <2>2. Held' = Held + change /\ Held \in Int
      BY <1>2, <1>4, <1>5, <1>6, <2>1 DEF Held
    <2>3. Given' = Given + change /\ Given \in Int
      BY <1>2, <1>4, <1>7, <2>1 DEF Given
    <2> QED BY <2>2, <2>3
  <1>9. Conserved'
    <2>1. Conserved /\ deskDrops' = deskDrops
      BY <1>1 DEF SumsInv
    <2> QED BY <1>2, <1>8, <2>1 DEF Conserved
  <1> QED BY <1>5, <1>9 DEF SumsInv

\* A request that dies takes what it was about to insert with it.
LEMMA DropSums ==
    ASSUME WalletDeskAssumption, RowsInv, SumsInv, NEW p \in Requests, DeskDrop(p)
    PROVE  SumsInv'
PROOF
  <1>1. /\ deskDrops' > 0 /\ DeskEnd(p) /\ deskDrops' # 0
        /\ UNCHANGED <<balance, drawn, payout, returned, sent, overtaken, adjustment, applied>>
    <2>1. /\ deskDrops' > 0 /\ DeskEnd(p)
      BY DeskDropRows
    <2>2. UNCHANGED <<balance, drawn, payout, returned, sent, overtaken, adjustment, applied>>
      BY DEF DeskDrop, payouts, adjustments
    <2> QED BY <2>1, <2>2
  <1>2. deskReq'[p] = DeskIdle /\ \A q \in Requests \ {p} : deskReq'[q] = deskReq[q]
    <2>1. "idle" \in DeskSteps
      BY DEF DeskSteps
    <2> QED BY <1>1, <2>1, DeskTask
  <1>3. GrossOf' = GrossOf /\ \A v \in Users : PayoutsOf(v)' = PayoutsOf(v)
    BY <1>1 DEF GrossOf, Gross, PayoutsOf
  \* A set of inserting requests has asked for no more without p.
  <1>4. ASSUME NEW T \in SUBSET InsertingNow
        PROVE  /\ SumFunctionOnSet(AskedOf', T \ {p}) <= SumFunctionOnSet(AskedOf, T)
               /\ SumFunctionOnSet(AskedOf', T \ {p}) \in Int /\ SumFunctionOnSet(AskedOf, T) \in Int
    <2> DEFINE S == T \ {p}
    <2>1. S \in SUBSET Requests /\ T \in SUBSET Requests /\ p \notin S
      BY DEF InsertingNow
    <2>2. SumFunctionOnSet(AskedOf', S) = SumFunctionOnSet(AskedOf, S)
      <3>1. \A q \in S : deskReq'[q].gross = deskReq[q].gross
        BY <1>2, <2>1
      <3> HIDE DEF S
      <3> QED BY <2>1, <3>1, AskedStays
    <2>3. /\ SumFunctionOnSet(AskedOf, S) \in Int /\ SumFunctionOnSet(AskedOf, T) \in Int
          /\ IsFiniteSet(T)
      <3> HIDE DEF S
      <3> QED BY <2>1, SumTypes
    <2>4. SumFunctionOnSet(AskedOf, S) <= SumFunctionOnSet(AskedOf, T)
      <3>1. CASE p \notin T
        BY <2>3, <3>1
      <3>2. CASE p \in T
        <4>1. AskedOf[p] > 0 /\ AskedOf[p] \in Int
          BY <3>2 DEF InsertingNow, AskedOf, RowsInv, DeskKnows, DeskTypeOK
        <4>2. \A q \in T : AskedOf[q] \in Int
          BY <2>1, SumTypes
        <4>3. SumFunctionOnSet(AskedOf, T) = AskedOf[p] + SumFunctionOnSet(AskedOf, S)
          BY <2>3, <3>2, <4>2, SumRemove
        <4> QED BY <2>3, <4>1, <4>3
      <3> QED BY <3>1, <3>2
    <2> HIDE DEF S
    <2>5. /\ SumFunctionOnSet(AskedOf', S) <= SumFunctionOnSet(AskedOf, T)
          /\ SumFunctionOnSet(AskedOf', S) \in Int
      BY <2>2, <2>3, <2>4
    <2> QED BY <2>3, <2>5 DEF S
  <1>5. ASSUME NEW v \in Users PROVE DebitsHold(v)'
    <2>1. InsertingOf(v)' = InsertingOf(v) \ {p} /\ InsertingOf(v) \in SUBSET InsertingNow
      BY <1>2 DEF InsertingOf, InsertingNow, DeskIdle, Task
    <2>2. /\ SumFunctionOnSet(AskedOf', InsertingOf(v) \ {p}) <= SumFunctionOnSet(AskedOf, InsertingOf(v))
          /\ SumFunctionOnSet(AskedOf', InsertingOf(v) \ {p}) \in Int
          /\ SumFunctionOnSet(AskedOf, InsertingOf(v)) \in Int
      BY <1>4, <2>1
    <2>3. DebitsHold(v) /\ drawn' = drawn /\ drawn[v] \in Int
      BY <1>1 DEF SumsInv, RowsInv, DeskTypeOK
    <2>4. SumFunctionOnSet(GrossOf, PayoutsOf(v)) \in Int
      <3>1. PayoutsOf(v) \subseteq Payouts
        BY DEF PayoutsOf
      <3> QED BY <3>1, SumTypes
    <2> QED BY <1>1, <1>3, <2>1, <2>2, <2>3, <2>4 DEF DebitsHold
  <1>6. Given' = Given /\ Undecided' = Undecided /\ balance' = balance /\ sent' = sent
    BY <1>1 DEF Given, AcceptedOf, Undecided
  <1>7. Held' <= Held /\ Held \in Int /\ Held' \in Int
    <2>1. InsertingNow' = InsertingNow \ {p}
      BY <1>2 DEF InsertingNow, DeskIdle, Task
    <2>2. /\ SumFunctionOnSet(AskedOf', InsertingNow \ {p}) <= SumFunctionOnSet(AskedOf, InsertingNow)
          /\ SumFunctionOnSet(AskedOf', InsertingNow \ {p}) \in Int
          /\ SumFunctionOnSet(AskedOf, InsertingNow) \in Int
      BY <1>4
    <2>3. /\ SumFunctionOnSet(balance, Users) \in Int /\ SumFunctionOnSet(sent, Payouts) \in Int
          /\ SumFunctionOnSet(GrossOf, Undecided) \in Int
      <3>1. Undecided \subseteq Payouts
        BY DEF Undecided
      <3> QED BY <3>1, SumTypes
    <2> QED BY <1>3, <1>6, <2>1, <2>2, <2>3 DEF Held
  <1>8. Given \in Int /\ Conserved
    BY SumTypes DEF Given, SumsInv
  <1>9. Conserved'
    BY <1>1, <1>6, <1>7, <1>8 DEF Conserved
  <1> QED BY <1>5, <1>9 DEF SumsInv

\* Every step moves one summand on each side, or none.
LEMMA DeskNextSums ==
    ASSUME WalletDeskAssumption, RowsInv, SumsInv, [DeskNext]_deskVars
    PROVE  SumsInv'
PROOF
  <1>1. CASE UNCHANGED deskVars
    <2>1. UNCHANGED <<balance, drawn, payout, returned, sent, overtaken, adjustment, applied, deskReq, deskDrops>>
      BY <1>1 DEF deskVars, payouts, adjustments
    <2>2. /\ SamePayouts /\ SameInserting /\ Undecided' = Undecided /\ AcceptedOf' = AcceptedOf
      BY <2>1 DEF SamePayouts, GrossOf, Gross, SameInserting, InsertingNow, Undecided, AcceptedOf
    <2> QED BY <2>1, <2>2, SumsQuiet
  <1>2. ASSUME NEW p \in Requests,
               \/ \E u \in Users, a \in Amounts : RequestPayout(p, u, a)
               \/ \E k \in Payouts : Reject(p, k)
               \/ \E a \in Adjustments : Accept(p, a)
        PROVE  SumsInv'
    <2>1. PICK task : /\ DeskBegin(p, task) /\ task.at # "insertPayout"
                      /\ UNCHANGED <<balance, drawn, payout, returned, sent, overtaken, adjustment, applied, deskDrops>>
      BY <1>2 DEF RequestPayout, Reject, Accept, Task, payouts, adjustments
    <2>2. deskReq[p].at # "insertPayout" /\ deskReq' = [deskReq EXCEPT ![p] = task]
      BY <2>1, DeskBegins DEF DeskIdle, Task
    <2> QED BY <2>1, <2>2, ArriveSums
  <1>3. ASSUME DeskNext PROVE SumsInv'
    BY <1>2, <1>3, DebitPayoutSums, InsertPayoutSums, RejectPayoutSums, AcceptAdjustmentSums,
       DropSums, MovePayoutSums, ProposalSums DEF DeskNext
  <1> QED BY <1>1, <1>3

\* Nothing is withdrawn yet, and everything is in the balances.
LEMMA DeskInitSums ==
    ASSUME WalletDeskAssumption, DeskInit
    PROVE  SumsInv
PROOF
  <1>1. InsertingNow = {} /\ \A u \in Users : InsertingOf(u) = {}
    BY DEF DeskInit, InsertingNow, InsertingOf, DeskIdle, Task
  <1>2. \A u \in Users : PayoutsOf(u) = {}
    BY DEF DeskInit, PayoutsOf, WalletDeskAssumption
  <1>3. SumFunctionOnSet(AskedOf, {}) = 0 /\ SumFunctionOnSet(GrossOf, {}) = 0
    BY SumEmpty
  <1>4. \A u \in Users : DebitsHold(u)
    <2>1. \A u \in Users : drawn[u] = 0
      BY DEF DeskInit
    <2> QED BY <1>1, <1>2, <1>3, <2>1 DEF DebitsHold
  <1>5. /\ SumFunctionOnSet(GrossOf, Undecided) = 0 /\ SumFunctionOnSet(AcceptedOf, Adjustments) = 0
        /\ SumFunctionOnSet(sent, Payouts) = 0 /\ SumFunctionOnSet(overtaken, Payouts) = 0
    <2>1. /\ \A k \in Undecided : GrossOf[k] = 0
          /\ \A k \in Payouts : sent[k] = 0 /\ overtaken[k] = 0
      BY DEF Undecided, GrossOf, Gross, DeskInit
    <2>2. \A a \in Adjustments : AcceptedOf[a] = 0
      BY DEF AcceptedOf, DeskInit
    <2>3. IsFiniteSet(Undecided) /\ IsFiniteSet(Adjustments) /\ IsFiniteSet(Payouts)
      <3>1. Undecided \in SUBSET Payouts
        BY DEF Undecided
      <3> QED BY <3>1, FS_Subset, DeskFinite
    <2> QED BY <2>1, <2>2, <2>3, SumZero
  <1>6. balance = Deposit
    BY DEF DeskInit
  <1>7. Conserved
    <2>1. SumFunctionOnSet(Deposit, Users) \in Int
      BY DeskInitRows, SumTypes
    <2> QED BY <1>1, <1>3, <1>5, <1>6, <2>1 DEF Conserved, Held, Given
  <1> QED BY <1>4, <1>7 DEF SumsInv

\* The rows and the sums, over every order of requests and deaths.
THEOREM Desk_Invariant == DeskSpec => []DeskInv
PROOF
  <1>1. DeskInit => RowsInv /\ SumsInv
    BY WalletDeskAssumption, DeskInitRows, DeskInitSums
  <1>2. (RowsInv /\ SumsInv) /\ [DeskNext]_deskVars => (RowsInv /\ SumsInv)'
    BY WalletDeskAssumption, DeskNextRows, DeskNextSums
  <1>3. RowsInv /\ SumsInv => DeskInv
    BY SumsInvSays DEF DeskInv
  <1> QED BY <1>1, <1>2, <1>3, PTL DEF DeskSpec

\* Every payout is backed by a debit (create_payout), for any tables, amounts
\* and order of requests.
THEOREM Payouts_Are_Debited == DeskSpec => []PayoutsAreDebited
PROOF
  <1>1. DeskInv => PayoutsAreDebited
    BY DEF DeskInv
  <1> QED BY <1>1, Desk_Invariant, PTL

\* The desk loses money only with a request that dies between its debit and its
\* insert, and makes money only by a rejection of a payout that was transferred
\* or rejected since it was read: exactly that payout's gross.
THEOREM Money_Is_Conserved == DeskSpec => []MoneyIsConserved
PROOF
  <1>1. DeskInv => MoneyIsConserved
    BY DEF DeskInv
  <1> QED BY <1>1, Desk_Invariant, PTL
=============================================================================
