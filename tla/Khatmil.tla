------------------------------- MODULE Khatmil -------------------------------
(***************************************************************************)
(* One campaign of reading the Qur'an together: its life cycle, the        *)
(* participants, and the juz they take, read and release (src/modules/     *)
(* khatmil/service.rs).                                                    *)
(*                                                                         *)
(* A request reads, checks and then writes; the writes of one statement or *)
(* one transaction are one action, and what was read for it may be old by  *)
(* then.  The rate gates of the handlers let a user's next request in      *)
(* after some seconds, whether or not the one before has ended, so they    *)
(* are not modelled.  A position is a surah and a number of a verse, as    *)
(* the santri sends it; nothing asks whether the surah has that verse.     *)
(* The rows of khatmil_groups, made by ensure_groups before every use, are *)
(* the numbers up to group_count; slugs, covers, dates, notifications and  *)
(* the read-only reports are left out.                                     *)
(***************************************************************************)
EXTENDS Integers, FiniteSetsExt

CONSTANTS
    Users,           \* santri
    Rows,            \* rows of khatmil_juz_assignments
    Juz,             \* numbers of the juz
    Ayat,            \* verses of each juz, <<surah, ayah>>: quran_ayahs
    Positions,       \* positions a santri may send
    MaxGroups,       \* limit of group_count
    GroupSize,       \* active assignments that fill a group
    Quota,           \* max_participants
    Requests,        \* request handlers that may be in flight
    Nobody

ASSUME KhatmilAssumption ==
    /\ Juz \subseteq Nat
    /\ Ayat \in [Juz -> SUBSET ((Nat \ {0}) \X (1..999))]
    /\ \A j \in Juz : Ayat[j] # {} /\ IsFiniteSet(Ayat[j])
    /\ Positions \subseteq (Nat \ {0}) \X (Nat \ {0})
    /\ MaxGroups \in Nat \ {0}
    /\ GroupSize \in Nat /\ Quota \in Nat
    /\ Nobody \notin Users /\ Requests # {}
    /\ IsFiniteSet(Users) /\ IsFiniteSet(Rows) /\ IsFiniteSet(Requests)

VARIABLES
    campaign,        \* khatmil_campaigns.status and group_count
    joined,          \* users of khatmil_participants
    assignment,      \* khatmil_juz_assignments, with the position of its progress
    req              \* requests in flight

vars == <<campaign, joined, assignment, req>>

CampaignState == {"DRAFT", "SCHEDULED", "ACTIVE", "COMPLETED", "CANCELLED"}
Active        == {"ASSIGNED", "IN_PROGRESS"}
Groups        == 1..MaxGroups

Unread == <<0, 0>>

Free == [status |-> "NONE", user |-> Nobody, juz |-> 0, group |-> 0, read |-> Unread]
Idle == [at |-> "idle"]

Assignment == [status : Active \cup {"COMPLETED", "CANCELLED"}, user : Users, juz : Juz,
               group : Groups, read : Positions \cup {Unread}]
Task == [at : {"join"}, user : Users]
          \cup [at : {"claim"}, user : Users, juz : Juz, group : Groups]
          \cup [at : {"report"}, row : Rows, read : Positions]
          \cup [at : {"update"}, status : CampaignState, groups : Groups]

TypeOK ==
    /\ campaign   \in [status : CampaignState \cup {"NONE"}, groups : Groups]
    /\ joined     \subseteq Users
    /\ assignment \in [Rows -> Assignment \cup {Free}]
    /\ req        \in [Requests -> Task \cup {Idle}]

Init ==
    /\ campaign   = [status |-> "NONE", groups |-> 1]
    /\ joined     = {}
    /\ assignment = [r \in Rows |-> Free]
    /\ req        = [p \in Requests |-> Idle]

At(p, step)    == req[p].at = step
Begin(p, task) == req[p] = Idle /\ req' = [req EXCEPT ![p] = task]
End(p)         == req' = [req EXCEPT ![p] = Idle]

\* Rows with an active_marker.
Held     == {r \in Rows : assignment[r].status \in Active}
HeldBy(u) == {r \in Held : assignment[r].user = u}

\* khatmil_juz_active_uq: row r may become, or stay, the active one of juz j.
Unique(r, j) == \A s \in Held \ {r} : assignment[s].juz # j

\* Positions are compared as surah and ayah when a report is checked, ...
Before(x, y) == x[1] < y[1] \/ (x[1] = y[1] /\ x[2] <= y[2])

\* ensure_position_in_juz: not before the first verse of the juz, not after the last.
InJuz(j, pos) == (\E x \in Ayat[j] : Before(x, pos)) /\ (\E x \in Ayat[j] : Before(pos, x))

\* ... and as one number when the verses read are counted.
code(pos) == pos[1] * 1000 + pos[2]

\* Fault: the verse at the position is not counted.
ayat_offsetBefore(j, pos) == Cardinality({x \in Ayat[j] : code(x) < code(pos)})

ayat_offset(j, pos) == Cardinality({x \in Ayat[j] : code(x) <= code(pos)})
ReadToEnd(j, pos)   == ayat_offset(j, pos) >= Cardinality(Ayat[j])

Running == campaign.status \in {"SCHEDULED", "ACTIVE"}

-----------------------------------------------------------------------------
(* Faults the code could have *)

\* A campaign is joined without a look at the number of participants.
JoinUncounted(p, u) ==
    /\ Running
    /\ Begin(p, [at |-> "join", user |-> u])
    /\ UNCHANGED <<campaign, joined, assignment>>

\* The juz is looked up before the insert, and no unique index holds.
InsertAssignmentAnyway(p) ==
    /\ At(p, "claim")
    /\ \E r \in Rows :
          /\ assignment[r] = Free
          /\ assignment' = [assignment EXCEPT ![r] =
                [status |-> "ASSIGNED", user |-> req[p].user, juz |-> req[p].juz,
                 group |-> req[p].group, read |-> Unread]]
    /\ End(p)
    /\ UNCHANGED <<campaign, joined>>

\* A report is saved whoever holds the juz by now.
SaveReportAnyway(p) ==
    /\ At(p, "report")
    /\ LET r == req[p].row IN
         assignment' = [assignment EXCEPT ![r].read = req[p].read, ![r].status =
             IF ReadToEnd(assignment[r].juz, req[p].read) THEN "COMPLETED" ELSE "IN_PROGRESS"]
    /\ End(p)
    /\ UNCHANGED <<campaign, joined>>

\* The release does not ask whether the juz is done.
CancelAssignmentDone(r) ==
    /\ assignment[r] # Free
    /\ campaign.status # "COMPLETED"
    /\ assignment' = [assignment EXCEPT ![r].status = "CANCELLED"]
    /\ UNCHANGED <<campaign, joined, req>>

-----------------------------------------------------------------------------
(* The campaign: create_campaign, update_campaign *)

CreateCampaign(status, groups) ==
    /\ campaign.status = "NONE"
    /\ campaign' = [status |-> status, groups |-> groups]
    /\ UNCHANGED <<joined, assignment, req>>

transition_ok(from, to) ==
    \/ from = to
    \/ <<from, to>> \in {<<"DRAFT", "SCHEDULED">>, <<"DRAFT", "ACTIVE">>, <<"SCHEDULED", "ACTIVE">>,
                         <<"SCHEDULED", "CANCELLED">>, <<"ACTIVE", "COMPLETED">>,
                         <<"ACTIVE", "CANCELLED">>}

\* A group that is cut must have no assignment ...
UpdateCampaign(p, new, groups) ==
    /\ campaign.status # "NONE"
    /\ transition_ok(campaign.status, new)
    /\ groups < campaign.groups =>
          \A r \in Rows : assignment[r] = Free \/ assignment[r].group <= groups
    /\ Begin(p, [at |-> "update", status |-> new, groups |-> groups])
    /\ UNCHANGED <<campaign, joined, assignment>>

\* ... and the UPDATE names the campaign only.
SaveCampaign(p) ==
    /\ At(p, "update")
    /\ campaign' = [status |-> req[p].status, groups |-> req[p].groups]
    /\ End(p)
    /\ UNCHANGED <<joined, assignment>>

-----------------------------------------------------------------------------
(* A santri: join, claim, post_progress, cancel_assignment *)

Join(p, u) ==
    /\ Running
    /\ Cardinality(joined) < Quota
    /\ Begin(p, [at |-> "join", user |-> u])
    /\ UNCHANGED <<campaign, joined, assignment>>

\* INSERT IGNORE
InsertParticipant(p) ==
    /\ At(p, "join")
    /\ joined' = joined \cup {req[p].user}
    /\ End(p)
    /\ UNCHANGED <<campaign, assignment>>

GroupFull(g) == Quantify(Held, LAMBDA r : assignment[r].group = g) >= GroupSize

\* While the campaign is ACTIVE a juz that is held locks a new one.  A group
\* that is the only one is not checked for being full.
Claim(p, u, j, g) ==
    /\ Running
    /\ u \in joined
    /\ campaign.status = "ACTIVE" => HeldBy(u) = {}
    /\ g <= campaign.groups
    /\ campaign.groups > 1 => ~GroupFull(g)
    /\ Begin(p, [at |-> "claim", user |-> u, juz |-> j, group |-> g])
    /\ UNCHANGED <<campaign, joined, assignment>>

InsertAssignment(p) ==
    /\ At(p, "claim")
    /\ \E r \in Rows :
          /\ assignment[r] = Free
          /\ IF Unique(r, req[p].juz)
             THEN assignment' = [assignment EXCEPT ![r] =
                     [status |-> "ASSIGNED", user |-> req[p].user, juz |-> req[p].juz,
                      group |-> req[p].group, read |-> Unread]]
             ELSE UNCHANGED assignment
    /\ End(p)
    /\ UNCHANGED <<campaign, joined>>

\* Any assignment that is not COMPLETED, a released one too, whose reader
\* holds no lower juz; the position must lie in the juz, and the one it is at
\* already is answered at once.
PostProgress(p, r, read) ==
    /\ assignment[r] # Free
    /\ assignment[r].status # "COMPLETED"
    /\ campaign.status = "ACTIVE"
    /\ \A s \in HeldBy(assignment[r].user) : assignment[s].juz >= assignment[r].juz
    /\ InJuz(assignment[r].juz, read)
    /\ assignment[r].read # read
    /\ Begin(p, [at |-> "report", row |-> r, read |-> read])
    /\ UNCHANGED <<campaign, joined, assignment>>

\* Event, position and status in one transaction, which names the row only;
\* the unique index undoes it if the juz has another active row by now.
SaveReport(p) ==
    /\ At(p, "report")
    /\ LET r   == req[p].row
           new == IF ReadToEnd(assignment[r].juz, req[p].read) THEN "COMPLETED" ELSE "IN_PROGRESS" IN
         IF new = "COMPLETED" \/ Unique(r, assignment[r].juz)
         THEN assignment' = [assignment EXCEPT ![r] = [@ EXCEPT !.read = req[p].read, !.status = new]]
         ELSE UNCHANGED assignment
    /\ End(p)
    /\ UNCHANGED <<campaign, joined>>

\* One guarded UPDATE.
CancelAssignment(r) ==
    /\ assignment[r] # Free
    /\ assignment[r].status # "COMPLETED"
    /\ campaign.status # "COMPLETED"
    /\ assignment' = [assignment EXCEPT ![r].status = "CANCELLED"]
    /\ UNCHANGED <<campaign, joined, req>>

-----------------------------------------------------------------------------
Arrive(p) ==
    \/ \E s \in CampaignState, g \in Groups : UpdateCampaign(p, s, g)
    \/ \E u \in Users : Join(p, u)
    \/ \E u \in Users, j \in Juz, g \in Groups : Claim(p, u, j, g)
    \/ \E r \in Rows, pos \in Positions : PostProgress(p, r, pos)

Step(p) ==
    \/ SaveCampaign(p) \/ InsertParticipant(p) \/ InsertAssignment(p) \/ SaveReport(p)

Next ==
    \/ \E s \in CampaignState, g \in Groups : CreateCampaign(s, g)
    \/ \E p \in Requests : Arrive(p) \/ Step(p)
    \/ \E r \in Rows : CancelAssignment(r)

Spec == Init /\ [][Next]_vars

-----------------------------------------------------------------------------
(* Properties *)

\* A juz of the campaign has one active holder, whoever claims it at the same
\* moment and whichever released row a late report revives (migrations/0009:
\* khatmil_juz_active_uq; claim, post_progress).
OneHolder ==
    \A r, s \in Held : assignment[r].juz = assignment[s].juz => r = s

Holders(j) == {assignment[r].user : r \in {s \in Held : assignment[s].juz = j}}

\* A juz passes from one reader to another only by being free in between: no
\* order of claims, reports and releases takes it away from who reads it.
NeverHandedOver ==
    [][\A j \in Juz : Holders(j) # {} => Holders(j)' \in {{}, Holders(j)}]_vars

\* Status and position of a juz agree, also after reports and releases that
\* overlap (post_progress, cancel_assignment): it is COMPLETED exactly if no
\* verse of it has a number past that of its position, and at a position that is
\* a verse of the juz exactly if this is the last one.  What was read to the end
\* is not released, what was reopened by a late report has its position back.
\* The range check lets positions through that are no verse: there a juz is
\* COMPLETED away from its last verse, which CompletedIsLastVerse denies.
CompletedIsReadToEnd ==
    \A r \in Rows : assignment[r] # Free =>
        LET a == assignment[r] IN
        /\ a.status = "COMPLETED" <=> \A x \in Ayat[a.juz] : code(x) <= code(a.read)
        /\ a.read \in Ayat[a.juz] =>
              (a.status = "COMPLETED" <=> \A x \in Ayat[a.juz] : Before(x, a.read))

\* The quota is overshot at most by the joins that had looked at it before it
\* was reached (join).
QuotaOvershot ==
    Cardinality(joined) < Quota + Cardinality(Requests)

\* An assignment as the register sees it: all its active states are one.
Entry(a) ==
    [state |-> IF a.status \in Active THEN "ACTIVE" ELSE a.status, user |-> a.user, juz |-> a.juz]

Register == INSTANCE JuzRegister WITH
    members <- joined,
    reading <- [r \in Rows |-> Entry(assignment[r])]

\* Claims, reports and releases, although they write what they decided on
\* before, are steps of a register of readings that knows nothing of requests:
\* only a participant takes a juz, and only one nobody has; no report makes a
\* reading that was not taken; no release undoes one that is finished (claim,
\* post_progress, cancel_assignment).
KeepsRegister == Register!Spec

-----------------------------------------------------------------------------
(* The inductive invariant *)

\* A report in flight works on a row that is there.
ReportsOnRows == \A p \in Requests : At(p, "report") => assignment[req[p].row] # Free

\* A claim in flight is one of a participant, who stays one.
ClaimsByMembers == \A p \in Requests : At(p, "claim") => req[p].user \in joined

\* What every row and every request in flight may rely on: the facts OneHolder
\* and CompletedIsReadToEnd rest on nothing but themselves and that a report
\* never writes a row that was not inserted (post_progress).
IInv == TypeOK /\ OneHolder /\ CompletedIsReadToEnd /\ ReportsOnRows /\ ClaimsByMembers

\* A join in flight is a participant to come: those who are in and those who
\* are coming stay within the bound of QuotaOvershot together.
Joining   == {p \in Requests : At(p, "join")}
ComingInv == Cardinality(joined) + Cardinality(Joining) < Quota + Cardinality(Requests)

-----------------------------------------------------------------------------
(* Statements of the source the code does not live up to *)

\* service.rs:2: a juz is COMPLETED exactly at its last verse.
CompletedIsLastVerse ==
    \A r \in Rows : assignment[r] # Free =>
        LET a == assignment[r] IN
        a.status = "COMPLETED" <=>
            a.read \in Ayat[a.juz] /\ \A x \in Ayat[a.juz] : Before(x, a.read)

\* service.rs:398-400: while the campaign is ACTIVE, a juz that is held and not
\* finished locks a new one.
NewJuzIsLocked ==
    [][\A r \in Rows :
         /\ campaign.status = "ACTIVE" /\ r \notin Held /\ assignment'[r].status \in Active
         => HeldBy(assignment'[r].user) = {}]_vars

\* service.rs:162: a group that is cut holds no assignment.
NoneInCutGroup ==
    \A r \in Rows : assignment[r] # Free => assignment[r].group <= campaign.groups

=============================================================================
