------------------------------- MODULE Notices -------------------------------
(***************************************************************************)
(* Who writes notifications into the Outbox: the assignment of an ustadz   *)
(* to a khatmil group, which the ustadz has to accept                      *)
(* (src/modules/khatmil/penugasan.rs), the reminders the worker sends      *)
(* (job_reminder of visits/payments.rs, job_stale_reminder of              *)
(* khatmil/service.rs), and what an admin sends to many (admin/mod.rs).    *)
(*                                                                         *)
(* No transactions: a request reads, updates, then tells one user after    *)
(* the other.  A worker runs one reminder job at a time, several workers   *)
(* run theirs together (JobQueue); each job looks into the notifications   *)
(* for what was told before.  Campaigns are open, and the ustadz named are *)
(* active.                                                                 *)
(***************************************************************************)
EXTENDS Outbox, VisitRequests

CONSTANTS
    Admins, Ustadz,
    Workers,         \* worker processes
    Groups,          \* khatmil_groups
    Asked,           \* for each group, the ustadz who was asked before, or Nobody
    Santri, Leader,  \* of the visits, which begin within two hours: their santri and ustadz
    Mentions,        \* for each visit, those whose number begins with its number
    Juz, Reader      \* khatmil assignments nobody has worked on for days, and whose

ASSUME NoticesAssumption ==
    /\ Admins \subseteq Users /\ Ustadz \subseteq Users
    /\ Asked \in [Groups -> Ustadz \cup {Nobody}]
    /\ Subjects = Visits \cup Groups \cup Juz \cup {"broadcast"}
    /\ Visits \cap (Groups \cup Juz) = {} /\ Groups \cap Juz = {}
    /\ "broadcast" \notin Visits \cup Groups \cup Juz
    /\ Santri \in [Visits -> Users] /\ Leader \in [Visits -> Users] /\ Reader \in [Juz -> Users]
    /\ Mentions \in [Visits -> SUBSET Visits] /\ \A v \in Visits : v \in Mentions[v]
    /\ Nothing \notin Subjects

VARIABLES
    group,           \* khatmil_groups: its ustadz, and the one asked to be
    task,            \* requests: what they are about to write, and to whom
    consent,         \* ustadz who have called accept_group while asked
    untold,          \* groups and ustadz asked before, or by a request that died
    fresh,           \* notifications about a juz, of the last day
    job,             \* for each worker, the reminder job it runs
    by               \* history: the worker that wrote a notification, or Nobody

noticeVars == <<group, task, consent, untold, fresh, job, by>>
inboxVars  == <<outboxVars, noticeVars>>

NoticeIdle == [at |-> "idle", user |-> Nobody, group |-> Nothing, to |-> {}]
JobOff     == [at |-> "idle", left |-> {}, one |-> Nothing]

NoticesTypeOK ==
    /\ OutboxTypeOK
    /\ group   \in [Groups -> [ustadz : Ustadz \cup {Nobody}, pending : Ustadz \cup {Nobody}]]
    /\ task    \in [Requests -> [at : {"idle", "assign", "accept", "tell"},
                                 user : Ustadz \cup {Nobody}, group : Groups \cup {Nothing},
                                 to : SUBSET Users]]
    /\ consent \subseteq Groups \X Ustadz /\ untold \subseteq Groups \X Ustadz
    /\ fresh   \subseteq Notes
    /\ job     \in [Workers ->
                      [at : {"idle", "check", "santri", "ustadz", "nudgeCheck", "nudge"},
                       left : SUBSET (Visits \cup Juz), one : Visits \cup Juz \cup {Nothing}]]
    /\ by      \in [Notes -> Workers \cup {Nobody}]

NoticesInit ==
    /\ OutboxInit
    /\ group = [g \in Groups |-> [ustadz |-> Nobody, pending |-> Asked[g]]]
    /\ task  = [p \in Requests |-> NoticeIdle]
    /\ consent = {} /\ fresh = {}
    /\ untold = {r \in Groups \X Ustadz : r[2] = Asked[r[1]]}
    /\ job   = [w \in Workers |-> JobOff]
    /\ by    = [n \in Notes |-> Nobody]

\* A notification is written, by a worker or a request.  One about a juz is a
\* new one for a day.
Write(users, about, who) ==
    /\ Tell(users, about)
    /\ by'    = [n \in Notes |-> IF note'[n] # note[n] THEN who ELSE by[n]]
    /\ fresh' = fresh \cup {n \in Notes : note'[n] # note[n] /\ about \in Juz}
    /\ UNCHANGED <<phone, registering, pump, pushes, lost, deaths, cut>>

Dies == deaths < MaxDeaths /\ deaths' = deaths + 1

OutboxRests == UNCHANGED <<note, phone, registering, pump, pushes, lost, deaths, cut>>

-----------------------------------------------------------------------------
(* The ustadz of a group *)

NoticeAt(p, step) == task[p].at = step
NoticeEnd(p)      == task' = [task EXCEPT ![p] = NoticeIdle]
NoticeBegin(p, new) ==
    /\ task[p] = NoticeIdle
    /\ MayBegin
    /\ task' = [task EXCEPT ![p] = new]
    /\ OutboxRests
    /\ UNCHANGED <<untold, fresh, job, by>>

admin_assign(p, g, u) ==
    /\ NoticeBegin(p, [at |-> "assign", user |-> u, group |-> g, to |-> {u}])
    /\ UNCHANGED <<group, consent>>

\* By id alone: whoever was asked before is asked no more.
Assign(p) ==
    /\ NoticeAt(p, "assign")
    /\ group' = [group EXCEPT ![task[p].group].pending = task[p].user]
    /\ task'  = [task EXCEPT ![p].at = "tell"]
    /\ UNCHANGED <<outboxVars, consent, untold, fresh, job, by>>

accept_group(p, g, u) ==
    /\ group[g].pending = u
    /\ NoticeBegin(p, [at |-> "accept", user |-> u, group |-> g, to |-> Admins])
    /\ consent' = consent \cup {<<g, u>>}
    /\ UNCHANGED group

\* Fault: whoever is asked by now becomes the ustadz of the group.
AcceptById(p) ==
    /\ NoticeAt(p, "accept")
    /\ LET g == task[p].group IN
         IF group[g].pending # Nobody
         THEN /\ group' = [group EXCEPT ![g] = [ustadz |-> @.pending, pending |-> Nobody]]
              /\ task'  = [task EXCEPT ![p].at = "tell"]
         ELSE NoticeEnd(p) /\ UNCHANGED group
    /\ UNCHANGED <<outboxVars, consent, untold, fresh, job, by>>

Accept(p) ==
    /\ NoticeAt(p, "accept")
    /\ LET g == task[p].group IN
         IF group[g].pending = task[p].user
         THEN /\ group' = [group EXCEPT ![g] = [ustadz |-> @.pending, pending |-> Nobody]]
              /\ task'  = [task EXCEPT ![p].at = "tell"]
         ELSE NoticeEnd(p) /\ UNCHANGED group
    /\ UNCHANGED <<outboxVars, consent, untold, fresh, job, by>>

reject_group(p, g, u) ==
    /\ group[g].pending = u
    /\ NoticeBegin(p, [at |-> "tell", user |-> u, group |-> g, to |-> Admins])
    /\ group' = [group EXCEPT ![g].pending = Nobody]
    /\ UNCHANGED consent

\* notify and notify_admins
TellOne(p) ==
    /\ NoticeAt(p, "tell")
    /\ \E u \in task[p].to :
          /\ Write({u}, task[p].group, Nobody)
          /\ IF task[p].to = {u} THEN NoticeEnd(p)
             ELSE task' = [task EXCEPT ![p].to = @ \ {u}]
    /\ UNCHANGED <<group, begun, consent, untold, job>>

\* Admins are not told if a statement fails; the ustadz who is asked should be.
Drop(p) ==
    /\ task[p] # NoticeIdle
    /\ Dies
    /\ untold'   = untold \cup ({<<task[p].group, u>> : u \in task[p].to} \cap (Groups \X Ustadz))
    /\ NoticeEnd(p)
    /\ UNCHANGED <<note, phone, registering, pump, pushes, lost, begun, cut, group, consent, fresh, job, by>>

-----------------------------------------------------------------------------
(* Many at once *)

\* Active users: all, those of a role, or one.
Audience == {Users, Ustadz} \cup {{u} : u \in Users}

notifications_send(users) ==
    /\ MayBegin
    /\ Write(users, "broadcast", Nobody)
    /\ UNCHANGED <<group, task, consent, untold, job>>

-----------------------------------------------------------------------------
(* The reminders *)

DayPasses ==
    /\ fresh # {}
    /\ fresh' = {}
    /\ UNCHANGED <<outboxVars, group, task, consent, untold, job, by>>

\* A worker takes a reminder job that is due.
Run(w, at, left) ==
    /\ job[w] = JobOff /\ left # {}
    /\ MayBegin
    /\ job' = [job EXCEPT ![w] = [at |-> at, left |-> left, one |-> Nothing]]
    /\ OutboxRests
    /\ UNCHANGED <<group, task, consent, untold, fresh, by>>

job_reminder(w)       == Run(w, "check", Visits)
job_stale_reminder(w) == Run(w, "nudgeCheck", Juz)

\* Worker w goes on with what is left of its list.
Resume(w, left, at) ==
    job' = [job EXCEPT ![w] = IF left = {} THEN JobOff ELSE [at |-> at, left |-> left, one |-> Nothing]]

\* Worker w writes about x, the one of its list it counted nothing for.
Found(w, x, at) ==
    job' = [job EXCEPT ![w] = [at |-> at, left |-> @.left \ {x}, one |-> x]]

\* Fault: reminded are those of whom both parties were told.
RemindedBoth(v) ==
    /\ \E x \in Mentions[v] : Told(Santri[x], x) # {}
    /\ \E x \in Mentions[v] : Told(Leader[x], x) # {}

\* LIKE '%visit:<id>%' finds the reminders of longer numbers, too.
Reminded(v) == \E n \in Notes : note[n].about \in Mentions[v]

CountReminders(w, v) ==
    /\ job[w].at = "check" /\ v \in job[w].left
    /\ IF Reminded(v) THEN Resume(w, job[w].left \ {v}, "check") ELSE Found(w, v, "santri")
    /\ UNCHANGED <<outboxVars, group, task, consent, untold, fresh, by>>

TellSantri(w) ==
    /\ job[w].at = "santri"
    /\ Write({Santri[job[w].one]}, job[w].one, w)
    /\ job' = [job EXCEPT ![w].at = "ustadz"]
    /\ UNCHANGED <<group, task, begun, consent, untold>>

TellUstadz(w) ==
    /\ job[w].at = "ustadz"
    /\ Write({Leader[job[w].one]}, job[w].one, w)
    /\ Resume(w, job[w].left, "check")
    /\ UNCHANGED <<group, task, begun, consent, untold>>

CountNudges(w, j) ==
    /\ job[w].at = "nudgeCheck" /\ j \in job[w].left
    /\ IF Told(Reader[j], j) \cap fresh # {} THEN Resume(w, job[w].left \ {j}, "nudgeCheck")
       ELSE Found(w, j, "nudge")
    /\ UNCHANGED <<outboxVars, group, task, consent, untold, fresh, by>>

Nudge(w) ==
    /\ job[w].at = "nudge"
    /\ Write({Reader[job[w].one]}, job[w].one, w)
    /\ Resume(w, job[w].left, "nudgeCheck")
    /\ UNCHANGED <<group, task, begun, consent, untold>>

\* A statement fails, or the worker dies and starts again.
JobFails(w) ==
    /\ job[w] # JobOff
    /\ Dies
    /\ job' = [job EXCEPT ![w] = JobOff]
    /\ UNCHANGED <<note, phone, registering, pump, pushes, lost, begun, cut, group, task,
                   consent, untold, fresh, by>>

Reminds(w) ==
    \/ job_reminder(w) \/ job_stale_reminder(w)
    \/ \E v \in Visits : CountReminders(w, v)
    \/ \E j \in Juz : CountNudges(w, j)
    \/ TellSantri(w) \/ TellUstadz(w) \/ Nudge(w) \/ JobFails(w)

-----------------------------------------------------------------------------

NoticesNext ==
    \/ OutboxNext /\ UNCHANGED noticeVars
    \/ \E p \in Requests :
          \/ \E g \in Groups, u \in Ustadz :
                admin_assign(p, g, u) \/ accept_group(p, g, u) \/ reject_group(p, g, u)
          \/ Assign(p) \/ Accept(p) \/ TellOne(p) \/ Drop(p)
    \/ \E users \in Audience : notifications_send(users)
    \/ \E w \in Workers : Reminds(w)
    \/ DayPasses

NoticesSpec == NoticesInit /\ [][NoticesNext]_inboxVars

\* The server runs, and its pump with it.
NoticesFairSpec == NoticesSpec /\ WF_inboxVars(PumpStep /\ UNCHANGED noticeVars)

-----------------------------------------------------------------------------
(* Properties *)

\* Reminders of a visit a user is due.
AsSantri(u, v) == IF u = Santri[v] THEN 1 ELSE 0
AsLeader(u, v) == IF u = Leader[v] THEN 1 ELSE 0

\* The ustadz of a group has called accept_group while being the one asked,
\* although the admin may ask another at any moment in between; and whoever is
\* asked since was told so, unless the request that asked died or has yet to tell.
PembinaHasAgreed ==
    \A g \in Groups :
        /\ group[g].ustadz # Nobody => <<g, group[g].ustadz>> \in consent
        /\ LET u == group[g].pending IN
             u # Nobody => \/ Told(u, g) # {} \/ <<g, u>> \in untold
                           \/ \E p \in Requests : NoticeAt(p, "tell") /\ task[p].group = g /\ u \in task[p].to

\* No worker reminds a party of a visit twice (an ustadz whose role was changed
\* may book himself, and is both), nor the reader of a juz twice a day, however
\* often its jobs run, at whatever step they fail and whatever the other workers
\* do meanwhile: all that reminds a second time is another worker whose count came
\* before the first note, so there are never more reminders than workers.
RemindedOnce ==
    \A w \in Workers :
        /\ \A v \in Visits, u \in Users :
              Cardinality({n \in Told(u, v) : by[n] = w}) <= AsSantri(u, v) + AsLeader(u, v)
        /\ \A j \in Juz : Cardinality({n \in Told(Reader[j], j) \cap fresh : by[n] = w}) <= 1

-----------------------------------------------------------------------------
(* The inductive invariant *)

\* A request that accepts has been called by the ustadz, one that assigns has
\* nobody but the ustadz to tell.
AgreeInv ==
    /\ PembinaHasAgreed
    /\ \A p \in Requests : task[p].at # "idle" =>
          /\ task[p].group \in Groups
          /\ NoticeAt(p, "assign") => task[p].user \in Ustadz /\ task[p].to = {task[p].user}
          /\ NoticeAt(p, "accept") => task[p].user \in Ustadz /\ <<task[p].group, task[p].user>> \in consent

\* Of a visit or a juz, notes a worker has written.
Mine(w, u, about) == {n \in Told(u, about) : by[n] = w}

\* Between its count and its note a worker has written nothing of the visit or
\* the juz, whatever other workers have.
RemindInv ==
    /\ RemindedOnce
    /\ \A w \in Workers :
          LET one == job[w].one IN
          /\ job[w].at \in {"santri", "ustadz"} => one \in Visits
          /\ job[w].at = "santri" => \A u \in Users : Mine(w, u, one) = {}
          /\ job[w].at = "ustadz" => \A u \in Users : Cardinality(Mine(w, u, one)) <= AsSantri(u, one)
          /\ job[w].at = "nudge"  => one \in Juz /\ Mine(w, Reader[one], one) \cap fresh = {}

NoticesInv == NoticesTypeOK /\ PumpInv /\ AgreeInv /\ RemindInv

-----------------------------------------------------------------------------
(* Statements of the source the code does not live up to *)

\* "anti-spam" (khatmil/service.rs:840), "if sent > 0 { continue; }"
\* (payments.rs:427): what was reminded is not reminded again.  Of two workers
\* that both count nothing both remind.
RemindedOnceInAll ==
    /\ \A v \in Visits, u \in Users : Cardinality(Told(u, v)) <= AsSantri(u, v) + AsLeader(u, v)
    /\ \A j \in Juz : Cardinality(Told(Reader[j], j) \cap fresh) <= 1

\* "Kunjungan kurang 2 jam lagi" (payments.rs:431, :433): of a visit that
\* counts as reminded both parties were told.  The reminder of visit 12 counts
\* for visit 1, and when the job fails between the two only the santri hears.
RemindedIsTold ==
    \A v \in Visits : (\A w \in Workers : job[w] = JobOff) /\ Reminded(v) =>
        Told(Santri[v], v) # {} /\ Told(Leader[v], v) # {}
=============================================================================
