---------------------------- MODULE KhatmilProofs ----------------------------
(***************************************************************************)
(* Khatmil for any number of santri, assignments, juz and requests.        *)
(*                                                                         *)
(* What a request has read may be old when it writes; what holds the       *)
(* properties up is the unique index on the active row of a juz, and that  *)
(* a row, once inserted, keeps its juz and its reader (Kept).              *)
(*                                                                         *)
(* The quota is overshot by joins that looked before it was reached: those *)
(* who are in and those who are coming are counted together (ComingInv).   *)
(***************************************************************************)
EXTENDS Khatmil, FiniteSetTheorems, TLAPS

\* Row r alone changes, to a; it keeps its juz and reader if it had them, and
\* is one of a participant if not; if it is active afterwards, no other row
\* holds its juz; if it was finished, it is not released.
Writes(r, a) ==
    /\ assignment' = [assignment EXCEPT ![r] = a]
    /\ a \in Assignment
    /\ assignment[r] # Free => a.juz = assignment[r].juz /\ a.user = assignment[r].user
    /\ assignment[r] = Free => a.status = "ASSIGNED" /\ a.user \in joined
    /\ assignment[r].status = "COMPLETED" => a.status # "CANCELLED"
    /\ a.status \in Active => Unique(r, a.juz)
    /\ a.status = "COMPLETED" <=> ReadToEnd(a.juz, a.read)

\* What one step does to the assignments.
Kept == UNCHANGED assignment \/ \E r \in Rows, a \in Assignment : Writes(r, a)

\* What one step does to the requests and the rest of the campaign.
Others ==
    /\ campaign' \in [status : CampaignState \cup {"NONE"}, groups : Groups]
    /\ \/ UNCHANGED joined
       \/ UNCHANGED assignment /\ \E u \in Users : joined' = joined \cup {u}
    /\ req' \in [Requests -> Task \cup {Idle}]
    /\ \A p \in Requests : At(p, "report")' =>
          req'[p] = req[p] \/ assignment[req'[p].row] # Free
    /\ \A p \in Requests : At(p, "claim")' =>
          req'[p] = req[p] \/ req'[p].user \in joined

-----------------------------------------------------------------------------
\* No row of the table is mistaken for a free one.
LEMMA RowIsNotFree ==
    ASSUME KhatmilAssumption
    PROVE  /\ Free \notin Assignment
           /\ Free.status \notin Active
           /\ Free.status # "COMPLETED"
  BY DEF KhatmilAssumption, Free, Assignment, Active

\* The count reaches the number of verses exactly if it leaves none out.
LEMMA CountedToEnd ==
    ASSUME KhatmilAssumption, NEW j \in Juz, NEW pos
    PROVE  ReadToEnd(j, pos) <=> \A x \in Ayat[j] : code(x) <= code(pos)
PROOF
  <1> DEFINE S == {x \in Ayat[j] : code(x) <= code(pos)}
  <1>1. IsFiniteSet(Ayat[j]) /\ S \subseteq Ayat[j]
    BY DEF KhatmilAssumption
  <1> HIDE DEF S
  <1>2. /\ Cardinality(S) <= Cardinality(Ayat[j])
        /\ Cardinality(S) = Cardinality(Ayat[j]) => S = Ayat[j]
    BY <1>1, FS_Subset
  <1>3. IsFiniteSet(S) /\ Cardinality(S) \in Nat /\ Cardinality(Ayat[j]) \in Nat
    BY <1>1, FS_Subset, FS_CardinalityType
  <1>4. Cardinality(S) >= Cardinality(Ayat[j]) <=> S = Ayat[j]
    BY <1>2, <1>3
  <1>5. S = Ayat[j] <=> \A x \in Ayat[j] : code(x) <= code(pos)
    BY DEF S
  <1> QED BY <1>4, <1>5 DEF ReadToEnd, ayat_offset, S

\* Verses, numbered below 1000, are in the same order as pairs and as numbers.
LEMMA VersesInOrder ==
    ASSUME KhatmilAssumption, NEW j \in Juz, NEW x \in Ayat[j], NEW y \in Ayat[j]
    PROVE  code(x) <= code(y) <=> Before(x, y)
PROOF
  <1>1. Ayat[j] \subseteq (Nat \ {0}) \X (1..999)
    BY DEF KhatmilAssumption
  <1>2. \A z \in (Nat \ {0}) \X (1..999) : \E s \in Nat, a \in 1..999 : z = <<s, a>>
    OBVIOUS
  <1>3. PICK s \in Nat, a \in 1..999 : x = <<s, a>>
    BY <1>1, <1>2
  <1>4. PICK t \in Nat, b \in 1..999 : y = <<t, b>>
    BY <1>1, <1>2
  <1>5. s * 1000 + a <= t * 1000 + b <=> (s < t \/ (s = t /\ a <= b))
    OBVIOUS
  <1> QED BY <1>3, <1>4, <1>5 DEF code, Before

\* A juz of which nothing was reported is not read to the end.
LEMMA UnreadIsNotTheEnd ==
    ASSUME KhatmilAssumption, NEW j \in Juz
    PROVE  ~ReadToEnd(j, Unread)
PROOF
  <1>1. PICK x \in Ayat[j] : x \in (Nat \ {0}) \X (1..999)
    BY DEF KhatmilAssumption
  <1>2. x[1] \in Nat /\ x[2] \in Nat /\ x[2] > 0
    BY <1>1
  <1>3. code(x) > code(Unread) /\ code(x) \in Int /\ code(Unread) \in Int
    BY <1>2 DEF code, Unread
  <1> QED BY <1>3, CountedToEnd

\* What the writer of a row decides is what the invariant says of it.
Agrees(a) == a.status = "COMPLETED" <=> ReadToEnd(a.juz, a.read)

LEMMA AgreesSays ==
    ASSUME KhatmilAssumption, NEW a \in Assignment
    PROVE  Agrees(a) <=>
             /\ a.status = "COMPLETED" <=> \A x \in Ayat[a.juz] : code(x) <= code(a.read)
             /\ a.read \in Ayat[a.juz] =>
                   (a.status = "COMPLETED" <=> \A x \in Ayat[a.juz] : Before(x, a.read))
PROOF
  <1>1. a.juz \in Juz
    BY DEF Assignment
  <1>2. ASSUME a.read \in Ayat[a.juz]
        PROVE  (\A x \in Ayat[a.juz] : code(x) <= code(a.read)) <=>
               (\A x \in Ayat[a.juz] : Before(x, a.read))
    BY <1>1, <1>2, VersesInOrder
  <1>3. ReadToEnd(a.juz, a.read) <=> \A x \in Ayat[a.juz] : code(x) <= code(a.read)
    BY <1>1, CountedToEnd
  <1> QED BY <1>2, <1>3, Zenon DEF Agrees

LEMMA ReadToEndSays ==
    ASSUME KhatmilAssumption, TypeOK
    PROVE  CompletedIsReadToEnd <=>
             \A r \in Rows : assignment[r] # Free => Agrees(assignment[r])
PROOF
  <1>1. \A r \in Rows : assignment[r] # Free => assignment[r] \in Assignment
    BY DEF TypeOK
  <1> QED BY <1>1, AgreesSays, Zenon DEF CompletedIsReadToEnd

\* Position and status of a row, written by one UPDATE.
LEMMA WriteProgress ==
    ASSUME NEW b \in Assignment, NEW read, NEW new
    PROVE  [b EXCEPT !.read = read, !.status = new] =
           [status |-> new, user |-> b.user, juz |-> b.juz, group |-> b.group, read |-> read]
PROOF
  <1>1. b = [status |-> b.status, user |-> b.user, juz |-> b.juz, group |-> b.group, read |-> b.read]
    BY DEF Assignment
  <1>2. [b EXCEPT !.read = read] =
          [status |-> b.status, user |-> b.user, juz |-> b.juz, group |-> b.group, read |-> read]
    BY <1>1
  <1>3. [[status |-> b.status, user |-> b.user, juz |-> b.juz, group |-> b.group, read |-> read]
            EXCEPT !.status = new] =
          [status |-> new, user |-> b.user, juz |-> b.juz, group |-> b.group, read |-> read]
    OBVIOUS
  <1> QED BY <1>2, <1>3, Zenon

\* A request that begins with a legal task.
LEMMA BeginOthers ==
    ASSUME KhatmilAssumption, TypeOK, NEW p \in Requests, NEW task \in Task, Begin(p, task),
           task.at = "report" => assignment[task.row] # Free,
           task.at = "claim" => task.user \in joined,
           UNCHANGED <<campaign, joined>>
    PROVE  Others
  BY DEF TypeOK, Others, Begin, At

\* A request that ends.
LEMMA EndOthers ==
    ASSUME KhatmilAssumption, TypeOK, NEW p \in Requests, End(p),
           campaign' \in [status : CampaignState \cup {"NONE"}, groups : Groups],
           \/ UNCHANGED joined
           \/ UNCHANGED assignment /\ \E u \in Users : joined' = joined \cup {u}
    PROVE  Others
  BY DEF TypeOK, Others, End, Idle, At

-----------------------------------------------------------------------------
(* One lemma per action *)

\* create_campaign touches the campaign only.
LEMMA CreateCampaignStep ==
    ASSUME KhatmilAssumption, IInv, NEW s \in CampaignState, NEW g \in Groups, CreateCampaign(s, g)
    PROVE  Kept /\ Others
  BY DEF IInv, TypeOK, CreateCampaign, Kept, Others, At

\* A handler that reads and checks leaves every row as it is.
LEMMA ArriveStep ==
    ASSUME KhatmilAssumption, IInv, NEW p \in Requests, Arrive(p)
    PROVE  Kept /\ Others
PROOF
  <1>1. UNCHANGED <<campaign, joined, assignment>>
    BY DEF Arrive, UpdateCampaign, Join, Claim, PostProgress
  <1>2. ASSUME NEW s \in CampaignState, NEW g \in Groups, UpdateCampaign(p, s, g)
        PROVE  Others
    <2>1. [at |-> "update", status |-> s, groups |-> g] \in Task
      BY DEF Task
    <2> QED BY <1>1, <1>2, <2>1, BeginOthers DEF IInv, UpdateCampaign
  <1>3. ASSUME NEW u \in Users, Join(p, u)
        PROVE  Others
    <2>1. [at |-> "join", user |-> u] \in Task
      BY DEF Task
    <2> QED BY <1>1, <1>3, <2>1, BeginOthers DEF IInv, Join
  <1>4. ASSUME NEW u \in Users, NEW j \in Juz, NEW g \in Groups, Claim(p, u, j, g)
        PROVE  Others
    <2>1. [at |-> "claim", user |-> u, juz |-> j, group |-> g] \in Task
      BY DEF Task
    <2> QED BY <1>1, <1>4, <2>1, BeginOthers DEF IInv, Claim
  <1>5. ASSUME NEW r \in Rows, NEW pos \in Positions, PostProgress(p, r, pos)
        PROVE  Others
    <2>1. [at |-> "report", row |-> r, read |-> pos] \in Task
      BY DEF Task
    <2> QED BY <1>1, <1>5, <2>1, BeginOthers DEF IInv, PostProgress
  <1> QED BY <1>1, <1>2, <1>3, <1>4, <1>5 DEF Arrive, Kept

\* update_campaign: the UPDATE names the campaign only.
LEMMA SaveCampaignStep ==
    ASSUME KhatmilAssumption, IInv, NEW p \in Requests, SaveCampaign(p)
    PROVE  Kept /\ Others
PROOF
  <1>1. req[p] \in Task /\ req[p].at = "update"
    BY DEF IInv, TypeOK, SaveCampaign, At, Idle
  <1>2. req[p].status \in CampaignState /\ req[p].groups \in Groups
    BY <1>1 DEF Task
  <1> QED BY <1>2, EndOthers DEF SaveCampaign, IInv, TypeOK, Kept

\* join: INSERT IGNORE of the participant.
LEMMA InsertParticipantStep ==
    ASSUME KhatmilAssumption, IInv, NEW p \in Requests, InsertParticipant(p)
    PROVE  Kept /\ Others
PROOF
  <1>1. req[p] \in Task /\ req[p].at = "join"
    BY DEF IInv, TypeOK, InsertParticipant, At, Idle
  <1>2. req[p].user \in Users
    BY <1>1 DEF Task
  <1> QED BY <1>2, EndOthers DEF InsertParticipant, IInv, TypeOK, Kept

\* claim: the unique index decides whether the row is inserted.
LEMMA InsertAssignmentStep ==
    ASSUME KhatmilAssumption, IInv, NEW p \in Requests, InsertAssignment(p)
    PROVE  Kept /\ Others
PROOF
  <1>1. req[p] \in Task /\ req[p].at = "claim"
    BY DEF IInv, TypeOK, InsertAssignment, At, Idle
  <1>2. /\ req[p].user \in Users /\ req[p].juz \in Juz /\ req[p].group \in Groups
        /\ req[p].user \in joined
    BY <1>1 DEF Task, IInv, ClaimsByMembers, At
  <1>3. Others
    BY EndOthers DEF InsertAssignment, IInv, TypeOK
  <1>4. PICK r \in Rows :
          /\ assignment[r] = Free
          /\ IF Unique(r, req[p].juz)
             THEN assignment' = [assignment EXCEPT ![r] =
                     [status |-> "ASSIGNED", user |-> req[p].user, juz |-> req[p].juz,
                      group |-> req[p].group, read |-> Unread]]
             ELSE UNCHANGED assignment
    BY DEF InsertAssignment
  <1> DEFINE a == [status |-> "ASSIGNED", user |-> req[p].user, juz |-> req[p].juz,
                   group |-> req[p].group, read |-> Unread]
  <1>5. a \in Assignment
    BY <1>2 DEF Assignment, Active
  <1>6. CASE Unique(r, req[p].juz)
    <2>1. Writes(r, a)
      BY <1>2, <1>4, <1>5, <1>6, RowIsNotFree, UnreadIsNotTheEnd DEF Writes
    <2> QED BY <1>3, <1>5, <2>1 DEF Kept
  <1>7. CASE ~Unique(r, req[p].juz)
    BY <1>3, <1>4, <1>7 DEF Kept
  <1> QED BY <1>6, <1>7

\* post_progress: the transaction writes the row whoever holds the juz by now,
\* unless the unique index undoes it.
LEMMA SaveReportStep ==
    ASSUME KhatmilAssumption, IInv, NEW p \in Requests, SaveReport(p)
    PROVE  Kept /\ Others
PROOF
  <1>1. req[p] \in Task /\ req[p].at = "report"
    BY DEF IInv, TypeOK, SaveReport, At, Idle
  <1>2. Others
    BY EndOthers DEF SaveReport, IInv, TypeOK
  <1> DEFINE r   == req[p].row
             new == IF ReadToEnd(assignment[r].juz, req[p].read) THEN "COMPLETED" ELSE "IN_PROGRESS"
             a   == [status |-> new, user |-> assignment[r].user, juz |-> assignment[r].juz,
                     group |-> assignment[r].group, read |-> req[p].read]
  <1>3. r \in Rows /\ req[p].read \in Positions
    BY <1>1 DEF Task
  <1>4. assignment[r] \in Assignment /\ assignment[r] # Free
    BY <1>1, <1>3 DEF IInv, TypeOK, ReportsOnRows, At
  <1>5. a \in Assignment
    BY <1>3, <1>4 DEF Assignment, Active
  <1>6. CASE new = "COMPLETED" \/ Unique(r, assignment[r].juz)
    <2>1. assignment' = [assignment EXCEPT ![r] = a]
      <3>1. assignment' = [assignment EXCEPT ![r] = [@ EXCEPT !.read = req[p].read, !.status = new]]
        BY <1>6 DEF SaveReport
      <3>2. PICK b : b = assignment[r]
        OBVIOUS
      <3>3. PICK st : st = new
        OBVIOUS
      <3>4. assignment' = [assignment EXCEPT ![r] = [b EXCEPT !.read = req[p].read, !.status = st]]
        BY <3>1, <3>2, <3>3, Zenon
      <3>5. [b EXCEPT !.read = req[p].read, !.status = st] = a
        BY <1>4, <3>2, <3>3, WriteProgress, Zenon
      <3> QED BY <3>4, <3>5, Zenon
    <2>2. Writes(r, a)
      BY <1>4, <1>5, <1>6, <2>1 DEF Writes, Active
    <2> QED BY <1>2, <1>3, <1>5, <2>2 DEF Kept
  <1>7. CASE ~(new = "COMPLETED" \/ Unique(r, assignment[r].juz))
    BY <1>2, <1>7 DEF SaveReport, Kept
  <1> QED BY <1>6, <1>7

\* cancel_assignment: one guarded UPDATE.
LEMMA CancelAssignmentStep ==
    ASSUME KhatmilAssumption, IInv, NEW r \in Rows, CancelAssignment(r)
    PROVE  Kept /\ Others
PROOF
  <1> DEFINE a == [assignment[r] EXCEPT !.status = "CANCELLED"]
  <1>1. assignment[r] \in Assignment /\ assignment[r] # Free /\ assignment[r].status # "COMPLETED"
    BY DEF IInv, TypeOK, CancelAssignment
  <1>2. a \in Assignment /\ a.juz = assignment[r].juz /\ a.user = assignment[r].user
        /\ a.status = "CANCELLED" /\ a.read = assignment[r].read
    BY <1>1 DEF Assignment
  <1>3. assignment' = [assignment EXCEPT ![r] = a]
    BY DEF CancelAssignment
  <1>4. Writes(r, a)
    <2>1. ~ReadToEnd(assignment[r].juz, assignment[r].read)
      BY <1>1, ReadToEndSays DEF IInv, Agrees
    <2> QED BY <1>1, <1>2, <1>3, <2>1 DEF Writes, Active
  <1>5. Others
    BY DEF CancelAssignment, IInv, TypeOK, Others, At
  <1> QED BY <1>2, <1>4, <1>5 DEF Kept

\* Every step of the campaign is one of these.
LEMMA NextStep ==
    ASSUME KhatmilAssumption, IInv, Next
    PROVE  Kept /\ Others
  BY CreateCampaignStep, ArriveStep, SaveCampaignStep, InsertParticipantStep,
     InsertAssignmentStep, SaveReportStep, CancelAssignmentStep DEF Next, Step

-----------------------------------------------------------------------------
(* What follows for the invariant and the holders *)

\* Nothing is there at first.
LEMMA InitInv ==
    ASSUME KhatmilAssumption, Init
    PROVE  IInv
PROOF
  <1>1. TypeOK
    BY DEF Init, TypeOK, KhatmilAssumption, Groups
  <1>2. OneHolder /\ CompletedIsReadToEnd
    BY RowIsNotFree DEF Init, OneHolder, CompletedIsReadToEnd, Held
  <1>3. ReportsOnRows /\ ClaimsByMembers
    BY DEF Init, ReportsOnRows, ClaimsByMembers, At, Idle
  <1> QED BY <1>1, <1>2, <1>3 DEF IInv

\* A row that is written keeps the invariant.
LEMMA WritesInv ==
    ASSUME KhatmilAssumption, IInv, NEW r \in Rows, NEW a \in Assignment, Writes(r, a), Others
    PROVE  IInv'
PROOF
  <1>1. /\ assignment'[r] = a
        /\ \A s \in Rows \ {r} : assignment'[s] = assignment[s]
    BY DEF Writes, IInv, TypeOK
  <1>2. TypeOK'
    BY DEF Writes, Others, IInv, TypeOK
  <1>3. OneHolder'
    <2> SUFFICES ASSUME NEW s \in Rows, NEW t \in Rows, s # t,
                        assignment'[s].status \in Active, assignment'[t].status \in Active,
                        assignment'[s].juz = assignment'[t].juz
                 PROVE  FALSE
      BY DEF OneHolder, Held
    <2>1. CASE s # r /\ t # r
      BY <1>1, <2>1 DEF IInv, OneHolder, Held
    <2>2. CASE s = r
      BY <1>1, <2>2 DEF Writes, Unique, Held
    <2>3. CASE t = r
      BY <1>1, <2>3 DEF Writes, Unique, Held
    <2> QED BY <2>1, <2>2, <2>3
  <1>4. CompletedIsReadToEnd'
    <2> SUFFICES ASSUME NEW s \in Rows, assignment'[s] # Free
                 PROVE  assignment'[s] \in Assignment /\ Agrees(assignment'[s])
      BY AgreesSays, Zenon DEF CompletedIsReadToEnd
    <2>1. CASE s = r
      BY <1>1, <2>1 DEF Writes, Agrees
    <2>2. CASE s # r
      <3>1. assignment'[s] = assignment[s] /\ assignment[s] \in Assignment
        BY <1>1, <2>2 DEF IInv, TypeOK
      <3>2. Agrees(assignment[s])
        BY <3>1, ReadToEndSays DEF IInv
      <3> QED BY <3>1, <3>2
    <2> QED BY <2>1, <2>2
  <1>5. ReportsOnRows'
    <2> SUFFICES ASSUME NEW p \in Requests, At(p, "report")'
                 PROVE  assignment'[req'[p].row] # Free
      BY DEF ReportsOnRows
    <2>1. req'[p].row \in Rows
      BY DEF Others, At, Task, Idle
    <2>2. assignment[req'[p].row] # Free
      BY DEF Others, IInv, ReportsOnRows, At
    <2>3. a # Free
      BY RowIsNotFree
    <2> QED BY <1>1, <2>1, <2>2, <2>3, Zenon
  <1>6. ClaimsByMembers'
    BY DEF Others, IInv, ClaimsByMembers, At
  <1> QED BY <1>2, <1>3, <1>4, <1>5, <1>6 DEF IInv

\* A step that writes no row keeps it too.
LEMMA StaysInv ==
    ASSUME KhatmilAssumption, IInv, UNCHANGED assignment, Others
    PROVE  IInv'
PROOF
  <1>1. TypeOK' /\ ReportsOnRows' /\ ClaimsByMembers'
    BY DEF IInv, TypeOK, Others, ReportsOnRows, ClaimsByMembers, At
  <1>2. OneHolder' /\ CompletedIsReadToEnd'
    BY DEF IInv, OneHolder, Held, CompletedIsReadToEnd
  <1> QED BY <1>1, <1>2 DEF IInv

\* Every step preserves the invariant.
LEMMA NextInv ==
    ASSUME KhatmilAssumption, IInv, [Next]_vars
    PROVE  IInv'
PROOF
  <1>1. CASE Next
    BY <1>1, NextStep, WritesInv, StaysInv DEF Kept
  <1>2. CASE UNCHANGED vars
    BY <1>2 DEF vars, IInv, TypeOK, OneHolder, Held, CompletedIsReadToEnd,
                 ReportsOnRows, ClaimsByMembers, At
  <1> QED BY <1>1, <1>2

\* No step gives a juz from one reader to another.
LEMMA WritesHandsOver ==
    ASSUME KhatmilAssumption, IInv, NEW r \in Rows, NEW a \in Assignment, Writes(r, a),
           NEW j \in Juz, Holders(j) # {}
    PROVE  Holders(j)' \in {{}, Holders(j)}
PROOF
  <1>1. /\ assignment'[r] = a
        /\ \A s \in Rows \ {r} : assignment'[s] = assignment[s]
    BY DEF Writes, IInv, TypeOK
  <1>2. PICK h \in Rows : assignment[h].status \in Active /\ assignment[h].juz = j
    BY DEF Holders, Held
  <1>3. Holders(j) = {assignment[h].user}
    BY <1>2 DEF Holders, Held, IInv, OneHolder
  <1>4. assignment[h] # Free
    BY <1>2, RowIsNotFree
  <1>5. \A s \in Rows : assignment'[s].status \in Active /\ assignment'[s].juz = j => s = h
    <2> SUFFICES ASSUME NEW s \in Rows, assignment'[s].status \in Active,
                        assignment'[s].juz = j, s # h
                 PROVE  FALSE
      OBVIOUS
    <2>1. CASE s = r
      BY <1>1, <1>2, <2>1 DEF Writes, Unique, Held
    <2>2. CASE s # r
      BY <1>1, <1>2, <2>2 DEF IInv, OneHolder, Held
    <2> QED BY <2>1, <2>2
  <1>6. assignment'[h].user = assignment[h].user
    BY <1>1, <1>4 DEF Writes
  <1> QED BY <1>3, <1>5, <1>6 DEF Holders, Held

-----------------------------------------------------------------------------
(* The register of readings *)

\* The readings that Khatmil's rows stand for.
readings == [r \in Rows |-> Entry(assignment[r])]

KeepsIt == [Register!Next]_(Register!vars)

\* A step that changes neither the rows nor who takes part.
LEMMA StaysRegister ==
    ASSUME UNCHANGED <<assignment, joined>>
    PROVE  KeepsIt
  BY DEF KeepsIt, Register!vars, Entry

\* How the register sees the rows.
LEMMA SeenByRegister ==
    ASSUME KhatmilAssumption, TypeOK, NEW r \in Rows
    PROVE  /\ assignment[r] \in Assignment \cup {Free}
           /\ readings[r].user = assignment[r].user
           /\ readings[r].juz = assignment[r].juz
           /\ readings[r].state = "ACTIVE" <=> r \in Held
           /\ r \notin Held => readings[r].state = assignment[r].status
           /\ assignment[r] # Free =>
                readings[r].state \in {"ACTIVE", "COMPLETED", "CANCELLED"}
  BY DEF TypeOK, readings, Entry, Held, Assignment, Free, Active

\* What the unique index asks for is what the register asks for.
LEMMA UniqueIsVacant ==
    ASSUME KhatmilAssumption, TypeOK, NEW r \in Rows, NEW j, Unique(r, j)
    PROVE  Register!Vacant(r, j)
PROOF
  <1> SUFFICES ASSUME NEW s \in Rows \ {r}, readings[s].state = "ACTIVE"
               PROVE  readings[s].juz # j
    BY DEF Register!Vacant, readings
  <1> QED BY SeenByRegister DEF Unique

\* One row is written: one reading is.
LEMMA WritesReading ==
    ASSUME TypeOK, NEW r \in Rows, NEW a, assignment' = [assignment EXCEPT ![r] = a]
    PROVE  readings' = [readings EXCEPT ![r] = Entry(a)]
  BY DEF TypeOK, readings

\* A write of the status is a change of the state.
LEMMA StateOfReading ==
    ASSUME NEW r \in Rows, NEW a, a.user = assignment[r].user, a.juz = assignment[r].juz,
           readings' = [readings EXCEPT ![r] = Entry(a)]
    PROVE  readings' = [readings EXCEPT ![r].state =
              IF a.status \in Active THEN "ACTIVE" ELSE a.status]
PROOF
  <1>1. readings[r] = Entry(assignment[r])
    BY DEF readings
  <1>2. Entry(a) = [readings[r] EXCEPT !.state = IF a.status \in Active THEN "ACTIVE" ELSE a.status]
    BY <1>1 DEF Entry
  <1> QED BY <1>2

\* A write of one row is one step of its reading, or none.
LEMMA WritesRegister ==
    ASSUME KhatmilAssumption, IInv, NEW r \in Rows, NEW a \in Assignment, Writes(r, a),
           UNCHANGED joined
    PROVE  KeepsIt
PROOF
  <1> DEFINE state == IF a.status \in Active THEN "ACTIVE" ELSE a.status
  <1>1. TypeOK /\ readings' = [readings EXCEPT ![r] = Entry(a)]
    BY WritesReading DEF Writes, IInv
  <1>2. CASE assignment[r] = Free
    <2>1. a.status = "ASSIGNED" /\ a.user \in joined /\ Unique(r, a.juz)
      BY <1>2 DEF Writes, Active
    <2>2. readings[r] = Register!Blank
      BY <1>2 DEF readings, Entry, Register!Blank, Free, Active
    <2>3. Entry(a) = [state |-> "ACTIVE", user |-> a.user, juz |-> a.juz]
      BY <2>1 DEF Entry, Active
    <2>4. Register!Take(r, a.user, a.juz)
      BY <1>1, <2>1, <2>2, <2>3, UniqueIsVacant DEF Register!Take, readings
    <2>5. a.user \in Users /\ a.juz \in Juz
      BY DEF Assignment
    <2> QED BY <2>4, <2>5 DEF KeepsIt, Register!Next
  <1>3. CASE assignment[r] # Free
    <2>1. readings' = [readings EXCEPT ![r].state = state]
      BY <1>1, <1>3, StateOfReading DEF Writes
    <2>2. CASE state = readings[r].state
      <3>1. Entry(a) = readings[r]
        BY <1>3, <2>2 DEF Writes, readings, Entry
      <3>2. readings' = readings
        BY <1>1, <3>1 DEF readings
      <3> QED BY <3>2 DEF KeepsIt, Register!vars, readings
    <2>3. CASE state # readings[r].state
      <3>1. readings[r].state \in {"ACTIVE", "COMPLETED", "CANCELLED"}
        BY <1>1, <1>3, SeenByRegister
      <3>2. state \in {"ACTIVE", "COMPLETED", "CANCELLED"}
        BY DEF Assignment
      <3>3. CASE state = "ACTIVE"
        <4>1. Unique(r, readings[r].juz)
          BY <1>1, <1>3, <3>3, SeenByRegister DEF Writes, Assignment
        <4>2. Register!TakeUp(r)
          BY <1>1, <2>1, <2>3, <3>1, <3>3, <4>1, UniqueIsVacant
          DEF Register!TakeUp, Register!Become, readings
        <4> QED BY <4>2 DEF KeepsIt, Register!Next
      <3>4. CASE state = "COMPLETED"
        <4>1. Register!Finish(r)
          BY <2>1, <2>3, <3>1, <3>4 DEF Register!Finish, Register!Become, readings
        <4> QED BY <4>1 DEF KeepsIt, Register!Next
      <3>5. CASE state = "CANCELLED"
        <4>1. readings[r].state # "COMPLETED"
          BY <1>1, <3>5, SeenByRegister DEF Writes
        <4>2. Register!PutBack(r)
          BY <2>1, <2>3, <3>1, <3>5, <4>1 DEF Register!PutBack, Register!Become, readings
        <4> QED BY <4>2 DEF KeepsIt, Register!Next
      <3> QED BY <3>2, <3>3, <3>4, <3>5
    <2> QED BY <2>2, <2>3
  <1> QED BY <1>2, <1>3

\* Every step is a step of the register, or a stutter of it.
LEMMA NextRegister ==
    ASSUME KhatmilAssumption, IInv, [Next]_vars
    PROVE  KeepsIt
PROOF
  <1>1. CASE UNCHANGED vars
    BY <1>1, StaysRegister DEF vars
  <1>2. CASE Next
    <2>1. Kept /\ Others
      BY <1>2, NextStep
    <2>2. CASE UNCHANGED assignment /\ \E u \in Users : joined' = joined \cup {u}
      BY <2>2 DEF KeepsIt, Register!Next, Register!Join
    <2>3. CASE UNCHANGED <<assignment, joined>>
      BY <2>3, StaysRegister
    <2>4. CASE UNCHANGED joined /\ \E r \in Rows, a \in Assignment : Writes(r, a)
      BY <2>4, WritesRegister
    <2> QED BY <2>1, <2>2, <2>3, <2>4 DEF Kept, Others
  <1> QED BY <1>1, <1>2

-----------------------------------------------------------------------------
(* The quota, and the joins that have looked at it *)

\* What is counted is finite.
LEMMA CountedSets ==
    ASSUME KhatmilAssumption, TypeOK
    PROVE  /\ IsFiniteSet(joined) /\ Cardinality(joined) \in Nat
           /\ IsFiniteSet(Joining) /\ Cardinality(Joining) \in Nat
           /\ Cardinality(Joining) <= Cardinality(Requests)
           /\ Cardinality(Requests) \in Nat /\ Quota \in Nat
PROOF
  <1>1. IsFiniteSet(Users) /\ IsFiniteSet(Requests) /\ Quota \in Nat
    BY DEF KhatmilAssumption
  <1>2. joined \in SUBSET Users /\ Joining \in SUBSET Requests
    BY DEF TypeOK, Joining
  <1>3. IsFiniteSet(joined) /\ IsFiniteSet(Joining) /\ Cardinality(Joining) <= Cardinality(Requests)
    BY <1>1, <1>2, FS_Subset
  <1> QED BY <1>1, <1>3, FS_CardinalityType

\* Nobody is in or coming, and there is a request to be made.
LEMMA InitComing ==
    ASSUME KhatmilAssumption, Init
    PROVE  ComingInv
PROOF
  <1>1. joined = {} /\ Joining = {}
    BY DEF Init, Joining, At, Idle
  <1>2. Cardinality({}) = 0 /\ Cardinality(Requests) # 0
    BY FS_EmptySet DEF KhatmilAssumption
  <1>3. Cardinality(Requests) \in Nat /\ Quota \in Nat
    BY FS_CardinalityType DEF KhatmilAssumption
  <1> QED BY <1>1, <1>2, <1>3 DEF ComingInv

\* A step that lets nobody in and starts no join.
LEMMA ComingStays ==
    ASSUME KhatmilAssumption, TypeOK, ComingInv, joined' = joined, Joining' \subseteq Joining
    PROVE  ComingInv'
PROOF
  <1>1. /\ Cardinality(Joining') <= Cardinality(Joining) /\ Cardinality(Joining') \in Nat
    BY CountedSets, FS_Subset, FS_CardinalityType
  <1>2. /\ Cardinality(joined) \in Nat /\ Cardinality(Joining) \in Nat
        /\ Cardinality(Requests) \in Nat /\ Quota \in Nat
    BY CountedSets
  <1> QED BY <1>1, <1>2 DEF ComingInv

\* A request that begins with another task, or ends.
LEMMA NoJoin ==
    ASSUME TypeOK, NEW p \in Requests, joined' = joined,
           End(p) \/ \E task : task.at # "join" /\ Begin(p, task)
    PROVE  Joining' \subseteq Joining
PROOF
  <1>1. PICK task : task.at # "join" /\ req' = [req EXCEPT ![p] = task]
    <2>1. Idle.at # "join"
      BY DEF Idle
    <2> QED BY <2>1 DEF End, Begin
  <1> QED BY <1>1 DEF TypeOK, Joining, At

\* join looks at the quota: all requests at most are coming by then.
LEMMA JoinComing ==
    ASSUME KhatmilAssumption, IInv, NEW p \in Requests, NEW u \in Users, Join(p, u)
    PROVE  ComingInv'
PROOF
  <1>1. Cardinality(joined) < Quota /\ joined' = joined
    BY DEF Join
  <1>2. Cardinality(Joining') <= Cardinality(Requests) /\ Cardinality(Joining') \in Nat
    <2>1. Joining' \in SUBSET Requests /\ IsFiniteSet(Requests)
      BY DEF Joining, KhatmilAssumption
    <2> QED BY <2>1, FS_Subset, FS_CardinalityType
  <1>3. /\ Cardinality(joined) \in Nat /\ Cardinality(Requests) \in Nat /\ Quota \in Nat
    BY CountedSets DEF IInv
  <1> QED BY <1>1, <1>2, <1>3 DEF ComingInv

\* Who was coming is in.
LEMMA InsertComing ==
    ASSUME KhatmilAssumption, IInv, ComingInv, NEW p \in Requests, InsertParticipant(p)
    PROVE  ComingInv'
PROOF
  <1>1. joined' = joined \cup {req[p].user} /\ p \in Joining /\ End(p)
    BY DEF InsertParticipant, Joining
  <1>2. Joining' = Joining \ {p}
    BY <1>1 DEF IInv, TypeOK, Joining, At, End, Idle
  <1>3. /\ Cardinality(joined) \in Nat /\ Cardinality(Joining) \in Nat
        /\ IsFiniteSet(joined) /\ IsFiniteSet(Joining)
        /\ Cardinality(Requests) \in Nat /\ Quota \in Nat
    BY CountedSets DEF IInv
  <1>4. Cardinality(joined') \in {Cardinality(joined), Cardinality(joined) + 1}
    BY <1>1, <1>3, FS_AddElement
  <1>5. Cardinality(Joining') = Cardinality(Joining) - 1
    BY <1>1, <1>2, <1>3, FS_RemoveElement
  <1> QED BY <1>3, <1>4, <1>5 DEF ComingInv

LEMMA NextComing ==
    ASSUME KhatmilAssumption, IInv, ComingInv, [Next]_vars
    PROVE  ComingInv'
PROOF
  <1>1. ASSUME NEW p \in Requests, Arrive(p) PROVE ComingInv'
    <2>1. CASE \E u \in Users : Join(p, u)
      BY <2>1, JoinComing
    <2>2. CASE ~\E u \in Users : Join(p, u)
      <3>1. joined' = joined /\ \E task : task.at # "join" /\ Begin(p, task)
        BY <1>1, <2>2 DEF Arrive, UpdateCampaign, Claim, PostProgress
      <3> QED BY <3>1, NoJoin, ComingStays DEF IInv
    <2> QED BY <2>1, <2>2
  <1>2. ASSUME NEW p \in Requests, Step(p) PROVE ComingInv'
    <2>1. CASE InsertParticipant(p)
      BY <2>1, InsertComing
    <2>2. CASE SaveCampaign(p) \/ InsertAssignment(p) \/ SaveReport(p)
      <3>1. joined' = joined /\ End(p)
        BY <2>2 DEF SaveCampaign, InsertAssignment, SaveReport
      <3> QED BY <3>1, NoJoin, ComingStays DEF IInv
    <2> QED BY <1>2, <2>1, <2>2 DEF Step
  <1>3. ASSUME UNCHANGED <<joined, req>> PROVE ComingInv'
    BY <1>3 DEF ComingInv, Joining, At
  <1> QED BY <1>1, <1>2, <1>3 DEF Next, CreateCampaign, CancelAssignment, vars

-----------------------------------------------------------------------------
(* Theorems *)

\* What requests and rows may rely on, for every campaign.
THEOREM Campaign_Invariant == Spec => []IInv
PROOF
  <1>1. Init => IInv
    BY KhatmilAssumption, InitInv
  <1>2. IInv /\ [Next]_vars => IInv'
    BY KhatmilAssumption, NextInv
  <1> QED BY <1>1, <1>2, PTL DEF Spec

\* Types of campaign, participants, assignments and requests.
THEOREM Campaign_Types == Spec => []TypeOK
PROOF
  <1>1. IInv => TypeOK
    BY DEF IInv
  <1> QED BY <1>1, Campaign_Invariant, PTL

\* A juz has one active holder, whoever claims or reports at the same moment.
THEOREM One_Holder == Spec => []OneHolder
PROOF
  <1>1. IInv => OneHolder
    BY DEF IInv
  <1> QED BY <1>1, Campaign_Invariant, PTL

\* COMPLETED goes with a position that leaves no verse of the juz behind, and
\* among its verses with the last one, however reports and releases overlap.
THEOREM Completed_Is_Read_To_End == Spec => []CompletedIsReadToEnd
PROOF
  <1>1. IInv => CompletedIsReadToEnd
    BY DEF IInv
  <1> QED BY <1>1, Campaign_Invariant, PTL

\* A juz passes on only by being free in between.
THEOREM Never_Handed_Over == Spec => NeverHandedOver
PROOF
  <1>1. IInv /\ [Next]_vars =>
          [\A j \in Juz : Holders(j) # {} => Holders(j)' \in {{}, Holders(j)}]_vars
    <2>1. ASSUME IInv, Next, NEW j \in Juz, Holders(j) # {}
          PROVE  Holders(j)' \in {{}, Holders(j)}
      <3>1. Kept
        BY <2>1, KhatmilAssumption, NextStep
      <3>2. CASE UNCHANGED assignment
        BY <3>2 DEF Holders, Held
      <3>3. CASE \E r \in Rows, a \in Assignment : Writes(r, a)
        BY <2>1, <3>3, KhatmilAssumption, WritesHandsOver
      <3> QED BY <3>1, <3>2, <3>3 DEF Kept
    <2> QED BY <2>1
  <1> QED BY <1>1, Campaign_Invariant, PTL DEF Spec, NeverHandedOver

\* Whatever claims, reports and releases decided on before they write, their
\* writes are steps of the register of readings.
THEOREM Keeps_Register == Spec => KeepsRegister
PROOF
  <1>1. Init => Register!Init
    BY DEF Init, Register!Init, Register!Blank, Entry, Free, Active
  <1>2. IInv /\ [Next]_vars => KeepsIt
    BY KhatmilAssumption, NextRegister
  <1> QED BY <1>1, <1>2, Campaign_Invariant, PTL DEF Spec, KeepsRegister, Register!Spec, KeepsIt

\* However many joins look at the quota at the same moment, it is overshot by
\* fewer than there are of them.
THEOREM Quota_Overshot == Spec => []QuotaOvershot
PROOF
  <1>1. Init => IInv /\ ComingInv
    BY KhatmilAssumption, InitInv, InitComing
  <1>2. (IInv /\ ComingInv) /\ [Next]_vars => (IInv /\ ComingInv)'
    BY KhatmilAssumption, NextInv, NextComing
  <1>3. IInv /\ ComingInv => QuotaOvershot
    BY KhatmilAssumption, CountedSets DEF IInv, ComingInv, QuotaOvershot
  <1> QED BY <1>1, <1>2, <1>3, PTL DEF Spec
=============================================================================
