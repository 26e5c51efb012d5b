------------------------------- MODULE JobQueue -------------------------------
(***************************************************************************)
(* The worker process and its table scheduled_jobs (src/bin/worker.rs):    *)
(* periodic jobs are inserted under a dedupe key, claimed one by one,      *)
(* executed outside the lock and finished; a job left RUNNING is recovered.*)
(*                                                                         *)
(* A job is named by its dedupe key, which is unique: its type and the     *)
(* number of the period it was inserted in.  What a job does is left to    *)
(* the modules of its type; here it succeeds or fails.                     *)
(***************************************************************************)
EXTENDS Integers, FiniteSets

CONSTANTS
    Types,           \* job types
    Period,          \* granularity of the dedupe key, in minutes [Types -> Nat]
    Delay,           \* from the insert to run_at                [Types -> Nat]
    Stale,           \* age at which a RUNNING job is recovered
    MaxAttempts,     \* attempts after which a job is DEAD
    MaxBatch,        \* jobs after which the loop rests
    Workers, NoJob,
    Horizon,         \* bound on the clock
    MaxErrors,       \* bound on statements that fail
    MaxCrashes       \* bound on crashes of a worker

ASSUME JobQueueAssumption ==
    /\ Period \in [Types -> Nat \ {0}]
    /\ Delay \in [Types -> Nat]
    /\ Stale \in Nat /\ MaxAttempts \in Nat \ {0} /\ MaxBatch \in Nat
    /\ Horizon \in Nat /\ MaxErrors \in Nat /\ MaxCrashes \in Nat

Jobs == Types \X (0..Horizon)

ASSUME NoJobAssumption == NoJob \notin Jobs

VARIABLES
    status,          \* scheduled_jobs.status, "NONE" before the insert
    runAt,           \* scheduled_jobs.run_at
    attempts,        \* scheduled_jobs.attempts
    lockedAt,        \* scheduled_jobs.locked_at
    runs,            \* times the job was executed to its end
    worker,          \* what each worker process does
    clock,
    errors, crashes

rows == <<status, runAt, attempts, lockedAt>>
vars == <<rows, runs, worker, clock, errors, crashes>>

JobState == {"NONE", "PENDING", "RUNNING", "DONE", "FAILED", "DEAD"}
Phases   == {"ensure", "recover", "claim", "execute", "finishOk", "finishErr"}

Task(phase, j, n, done) == [at |-> phase, job |-> j, attempts |-> n, done |-> done]
Fresh == Task("ensure", NoJob, 0, 0)

TypeOK ==
    /\ status   \in [Jobs -> JobState]
    /\ runAt    \in [Jobs -> Nat]
    /\ attempts \in [Jobs -> 0..MaxAttempts]
    /\ lockedAt \in [Jobs -> 0..Horizon]
    /\ runs     \in [Jobs -> Nat]
    /\ worker   \in [Workers -> [at : Phases, job : Jobs \cup {NoJob},
                                 attempts : 0..MaxAttempts, done : 0..MaxBatch]]
    /\ clock    \in 0..Horizon
    /\ errors   \in 0..MaxErrors
    /\ crashes  \in 0..MaxCrashes

Init ==
    /\ status   = [j \in Jobs |-> "NONE"]
    /\ runAt    = [j \in Jobs |-> 0]
    /\ attempts = [j \in Jobs |-> 0]
    /\ lockedAt = [j \in Jobs |-> 0]
    /\ runs     = [j \in Jobs |-> 0]
    /\ worker   = [w \in Workers |-> Fresh]
    /\ clock    = 0
    /\ errors   = 0
    /\ crashes  = 0

At(w, phase) == worker[w].at = phase
Goto(w, phase) == worker' = [worker EXCEPT ![w].at = phase]

\* The dedupe key of the present period.
Key(t) == <<t, clock \div Period[t]>>

Due == {j \in Jobs : status[j] = "PENDING" /\ runAt[j] <= clock}

\* ORDER BY run_at
First == {j \in Due : \A k \in Due : runAt[j] <= runAt[k]}

-----------------------------------------------------------------------------
(* Faults the code could have *)

\* A recovered job goes back to the queue at once.
RecoverStaleAgain(w) ==
    /\ At(w, "recover")
    /\ status' = [j \in Jobs |->
          IF status[j] = "RUNNING" /\ lockedAt[j] < clock - Stale THEN "PENDING" ELSE status[j]]
    /\ Goto(w, "claim")
    /\ UNCHANGED <<runAt, attempts, lockedAt, runs, clock, errors, crashes>>

\* RUNNING jobs are never looked at again.
RecoverStaleNever(w) ==
    /\ At(w, "recover")
    /\ Goto(w, "claim")
    /\ UNCHANGED <<rows, runs, clock, errors, crashes>>

\* The job is taken without being marked.
ClaimUnmarked(w) ==
    /\ At(w, "claim")
    /\ \/ \E j \in First :
             /\ worker' = [worker EXCEPT ![w] = Task("execute", j, attempts[j], worker[w].done)]
             /\ UNCHANGED <<status, lockedAt>>
       \/ /\ Due = {}
          /\ worker' = [worker EXCEPT ![w] = Fresh]
          /\ UNCHANGED <<status, lockedAt>>
    /\ UNCHANGED <<runAt, attempts, runs, clock, errors, crashes>>

\* The oldest job that is not done is looked at; one that failed is in its way.
ClaimBehindFailed(w) ==
    /\ At(w, "claim")
    /\ LET open == {j \in Jobs : status[j] \in {"PENDING", "FAILED"} /\ runAt[j] <= clock}
           head == {j \in open : \A k \in open : runAt[j] <= runAt[k]} \cap Due IN
         \/ \E j \in head :
               /\ status'   = [status EXCEPT ![j] = "RUNNING"]
               /\ lockedAt' = [lockedAt EXCEPT ![j] = clock]
               /\ worker' = [worker EXCEPT ![w] = Task("execute", j, attempts[j], worker[w].done)]
         \/ /\ head = {}
            /\ worker' = [worker EXCEPT ![w] = Fresh]
            /\ UNCHANGED <<status, lockedAt>>
    /\ UNCHANGED <<runAt, attempts, runs, clock, errors, crashes>>

-----------------------------------------------------------------------------
(* The loop of the worker *)

\* ensure_cleanup_job, ensure_visit_jobs, ensure_khatmil_job: INSERT IGNORE of
\* one job per type.
Ensure(w) ==
    /\ At(w, "ensure")
    /\ LET new == {j \in {Key(t) : t \in Types} : status[j] = "NONE"} IN
         /\ status' = [j \in Jobs |-> IF j \in new THEN "PENDING" ELSE status[j]]
         /\ runAt'  = [j \in Jobs |-> IF j \in new THEN clock + Delay[j[1]] ELSE runAt[j]]
    /\ Goto(w, "recover")
    /\ UNCHANGED <<attempts, lockedAt, runs, clock, errors, crashes>>

RecoverStale(w) ==
    /\ At(w, "recover")
    /\ status' = [j \in Jobs |->
          IF status[j] = "RUNNING" /\ lockedAt[j] < clock - Stale THEN "FAILED" ELSE status[j]]
    /\ Goto(w, "claim")
    /\ UNCHANGED <<runAt, attempts, lockedAt, runs, clock, errors, crashes>>

\* claim_next; an error of the UPDATE or the commit is ignored, and the job
\* runs without being marked.  Nothing due: the loop sleeps and starts over.
Claim(w) ==
    /\ At(w, "claim")
    /\ \/ \E j \in First :
             /\ \/ /\ status'   = [status EXCEPT ![j] = "RUNNING"]
                   /\ lockedAt' = [lockedAt EXCEPT ![j] = clock]
                   /\ UNCHANGED errors
                \/ /\ errors < MaxErrors
                   /\ errors' = errors + 1
                   /\ UNCHANGED <<status, lockedAt>>
             /\ worker' = [worker EXCEPT ![w] = Task("execute", j, attempts[j], worker[w].done)]
       \/ /\ Due = {}
          /\ worker' = [worker EXCEPT ![w] = Fresh]
          /\ UNCHANGED <<status, lockedAt, errors>>
    /\ UNCHANGED <<runAt, attempts, runs, clock, crashes>>

\* execute: the job ends well or with an error.
Execute(w) ==
    /\ At(w, "execute")
    /\ runs' = [runs EXCEPT ![worker[w].job] = @ + 1]
    /\ Goto(w, "finishOk") \/ Goto(w, "finishErr")
    /\ UNCHANGED <<rows, clock, errors, crashes>>

\* After MaxBatch jobs the loop rests; an error of the UPDATE is ignored.
Rest(w) ==
    worker' = [worker EXCEPT ![w] =
        IF worker[w].done = MaxBatch THEN Fresh ELSE Task("claim", NoJob, 0, worker[w].done + 1)]

Finish(w) ==
    /\ At(w, "finishOk") \/ At(w, "finishErr")
    /\ LET j == worker[w].job
           n == worker[w].attempts + 1 IN
         \/ /\ At(w, "finishOk")
            /\ status' = [status EXCEPT ![j] = "DONE"]
            /\ UNCHANGED <<attempts, runAt, errors>>
         \/ /\ At(w, "finishErr")
            /\ status'   = [status EXCEPT ![j] = IF n >= MaxAttempts THEN "DEAD" ELSE "FAILED"]
            /\ attempts' = [attempts EXCEPT ![j] = n]
            /\ runAt'    = [runAt EXCEPT ![j] = clock + IF n >= MaxAttempts THEN 0 ELSE 5 * n]
            /\ UNCHANGED errors
         \/ /\ errors < MaxErrors
            /\ errors' = errors + 1
            /\ UNCHANGED <<status, attempts, runAt>>
    /\ Rest(w)
    /\ UNCHANGED <<lockedAt, runs, clock, crashes>>

\* The process dies and is started again.
Crash(w) ==
    /\ worker[w] # Fresh
    /\ crashes < MaxCrashes
    /\ crashes' = crashes + 1
    /\ worker' = [worker EXCEPT ![w] = Fresh]
    /\ UNCHANGED <<rows, runs, clock, errors>>

Tick ==
    /\ clock < Horizon
    /\ clock' = clock + 1
    /\ UNCHANGED <<rows, runs, worker, errors, crashes>>

-----------------------------------------------------------------------------
Work(w) == Ensure(w) \/ RecoverStale(w) \/ Claim(w) \/ Execute(w) \/ Finish(w)

Next ==
    \/ \E w \in Workers : Work(w) \/ Crash(w)
    \/ Tick

Spec == Init /\ [][Next]_vars

\* Every worker process goes round its loop, and time passes.
FairSpec ==
    /\ Spec
    /\ \A w \in Workers : WF_vars(Work(w))
    /\ WF_vars(Tick)

-----------------------------------------------------------------------------
(* Properties *)

Runs(w, j) == worker[w].job = j /\ (At(w, "execute") \/ At(w, "finishOk") \/ At(w, "finishErr"))

\* As long as no statement failed a job has one runner, with several workers
\* polling, jobs that take longer than the stale limit and workers that die.
OneRunner ==
    errors = 0 => \A v, w \in Workers, j \in Jobs : Runs(v, j) /\ Runs(w, j) => v = w

\* A job with side effects is executed at most once: recovering a stale job
\* never gives it to a second worker while the first may still be at it.
ExecutedOnce == errors = 0 => \A j \in Jobs : runs[j] <= 1

\* What was done stays done: a job marked DONE was executed, and is not
\* recovered as stale, claimed or failed afterwards by another worker.
DoneIsFinal ==
    [][\A j \in Jobs : status[j] = "DONE" => runs[j] > 0 /\ (errors' = 0 => status'[j] = "DONE")]_vars

\* A job that is due is taken, however many others are inserted (claim_next
\* takes the oldest, the loop rests after MaxBatch jobs).
DueIsTaken ==
    \A j \in Jobs : status[j] = "PENDING" /\ runAt[j] <= clock ~> status[j] # "PENDING"

\* A job whose worker died, or whose finish was lost, does not stay RUNNING.
RunningEnds ==
    \A j \in Jobs :
        status[j] = "RUNNING" /\ lockedAt[j] + Stale < Horizon ~> status[j] # "RUNNING"

-----------------------------------------------------------------------------
(* The inductive invariant *)

Working == {"execute", "finishOk", "finishErr"}

\* A worker has a job exactly while it works on it, as taken on its first
\* attempt: no job ever goes back to the queue.
WorkerKnows(w) ==
    /\ worker[w].at \in Working <=> worker[w].job # NoJob
    /\ worker[w].attempts = 0
    /\ worker[w].at \in {"finishOk", "finishErr"} => runs[worker[w].job] > 0

JobKnows(j) ==
    /\ status[j] \in {"NONE", "PENDING"} => attempts[j] = 0
    /\ status[j] = "DONE" => runs[j] > 0

\* As long as no statement failed: what a worker has is marked, what is not
\* marked was not executed, and no two workers have the same job.
NothingLost ==
    /\ \A w \in Workers : worker[w].at \in Working =>
          /\ status[worker[w].job] \in {"RUNNING", "FAILED"}
          /\ worker[w].at = "execute" => runs[worker[w].job] = 0
    /\ \A j \in Jobs : /\ status[j] \in {"NONE", "PENDING"} => runs[j] = 0
                       /\ runs[j] <= 1
    /\ \A v, w \in Workers :
          worker[v].at \in Working /\ worker[v].job = worker[w].job => v = w

IInv == /\ TypeOK
        /\ \A w \in Workers : WorkerKnows(w)
        /\ \A j \in Jobs : JobKnows(j)
        /\ errors = 0 => NothingLost

-----------------------------------------------------------------------------
(* Statements of the source the code does not live up to *)

\* worker.rs:3: a job that failed is tried again, until it is DEAD.
FailedIsRetried == \A j \in Jobs : status[j] = "FAILED" ~> status[j] # "FAILED"

\* worker.rs:59: payment_poll and reminder run every 15 minutes: two jobs of
\* a type are one interval apart.
JobsAreSpaced ==
    \A j, k \in Jobs :
        /\ j[1] = k[1] /\ j # k
        /\ status[j] = "PENDING" /\ status[k] = "PENDING"
        => runAt[j] >= runAt[k] + Delay[k[1]] \/ runAt[k] >= runAt[j] + Delay[j[1]]

=============================================================================
