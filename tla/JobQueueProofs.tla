---------------------------- MODULE JobQueueProofs ----------------------------
(***************************************************************************)
(* JobQueue for any number of workers, types of jobs, failed statements    *)
(* and crashes.                                                            *)
(*                                                                         *)
(* Nothing in the table says whose a RUNNING job is.  That it has one      *)
(* runner rests on this: a status moves away from PENDING and never back,  *)
(* so that a job is claimed once, unless a claim was lost (IInv).          *)
(***************************************************************************)
EXTENDS JobQueue, TLAPS

\* What was done before a step was executed, and is done after it.
DoneStays ==
    \A j \in Jobs : status[j] = "DONE" => runs[j] > 0 /\ (errors' = 0 => status'[j] = "DONE")

Tasks == [at : Phases, job : Jobs \cup {NoJob}, attempts : 0..MaxAttempts, done : 0..MaxBatch]

\* What the worker that takes a step brings with it.
Brings(task, w) == worker' = [worker EXCEPT ![w] = task] /\ task \in Tasks

-----------------------------------------------------------------------------
\* A worker that starts over.
LEMMA FreshTask ==
    ASSUME JobQueueAssumption
    PROVE  /\ Fresh \in Tasks
           /\ Fresh.job = NoJob /\ Fresh.at = "ensure" /\ Fresh.attempts = 0
  BY DEF JobQueueAssumption, Fresh, Task, Tasks, Phases

\* A worker between two jobs.
LEMMA NextTask ==
    ASSUME JobQueueAssumption, NEW n \in 0..MaxBatch
    PROVE  /\ Task("claim", NoJob, 0, n) \in Tasks
           /\ Task("claim", NoJob, 0, n).job = NoJob
           /\ Task("claim", NoJob, 0, n).at = "claim"
           /\ Task("claim", NoJob, 0, n).attempts = 0
  BY DEF JobQueueAssumption, Task, Tasks, Phases

\* Initially there are no jobs and nobody works.
LEMMA InitInv ==
    ASSUME JobQueueAssumption, NoJobAssumption, Init
    PROVE  IInv
PROOF
  <1>1. TypeOK
    BY FreshTask DEF JobQueueAssumption, Init, TypeOK, JobState, Tasks
  <1>2. \A w \in Workers : worker[w].at = "ensure" /\ worker[w].job = NoJob /\ worker[w].attempts = 0
    BY FreshTask DEF Init
  <1> QED
    BY <1>1, <1>2 DEF Init, IInv, WorkerKnows, JobKnows, NothingLost, Working

-----------------------------------------------------------------------------
(* One lemma for each step of a worker *)

\* New jobs are PENDING; what there was is left alone.
LEMMA EnsureStep ==
    ASSUME JobQueueAssumption, NoJobAssumption, IInv, NEW w \in Workers, Ensure(w)
    PROVE  IInv' /\ DoneStays
PROOF
  <1>1. \A j \in Jobs : status'[j] = status[j] \/ (status[j] = "NONE" /\ status'[j] = "PENDING")
    BY DEF Ensure
  <1>2. worker' = [worker EXCEPT ![w].at = "recover"] /\ worker[w].at = "ensure"
    BY DEF Ensure, Goto, At
  <1>3. \A v \in Workers : /\ worker'[v].job = worker[v].job
                           /\ worker'[v].attempts = worker[v].attempts
                           /\ worker'[v].at \in Working \/ worker[v].at \in Working
                                => worker'[v].at = worker[v].at
    BY <1>2 DEF IInv, TypeOK, Working
  <1>4. TypeOK'
    <2>1. status' \in [Jobs -> JobState] /\ runAt' \in [Jobs -> Nat]
      BY DEF Ensure, IInv, TypeOK, JobState, JobQueueAssumption, Jobs
    <2>2. worker' \in [Workers -> Tasks]
      BY <1>2 DEF IInv, TypeOK, Tasks, Phases
    <2> QED
      BY <2>1, <2>2 DEF Ensure, IInv, TypeOK, Tasks
  <1>5. (\A v \in Workers : WorkerKnows(v))' /\ (\A j \in Jobs : JobKnows(j))'
    BY <1>1, <1>3 DEF Ensure, IInv, TypeOK, WorkerKnows, JobKnows, Working
  <1>6. errors' = 0 => NothingLost'
    <2> SUFFICES ASSUME errors' = 0 PROVE NothingLost'
      OBVIOUS
    <2>1. NothingLost
      BY DEF IInv, Ensure
    <2>2. \A v \in Workers : worker[v].at \in Working => worker[v].job \in Jobs
      BY DEF IInv, TypeOK, WorkerKnows
    <2> QED
      BY <1>1, <1>3, <2>1, <2>2 DEF Ensure, NothingLost, Working
  <1> QED
    BY <1>1, <1>4, <1>5, <1>6 DEF IInv, DoneStays, JobKnows

\* A stale job is FAILED, never PENDING again.
LEMMA RecoverStep ==
    ASSUME JobQueueAssumption, NoJobAssumption, IInv, NEW w \in Workers, RecoverStale(w)
    PROVE  IInv' /\ DoneStays
PROOF
  <1>1. \A j \in Jobs : status'[j] = status[j] \/ (status[j] = "RUNNING" /\ status'[j] = "FAILED")
    BY DEF RecoverStale
  <1>2. worker' = [worker EXCEPT ![w].at = "claim"] /\ worker[w].at = "recover"
    BY DEF RecoverStale, Goto, At
  <1>3. \A v \in Workers : /\ worker'[v].job = worker[v].job
                           /\ worker'[v].attempts = worker[v].attempts
                           /\ worker'[v].at \in Working \/ worker[v].at \in Working
                                => worker'[v].at = worker[v].at
    BY <1>2 DEF IInv, TypeOK, Working
  <1>4. TypeOK'
    <2>1. status' \in [Jobs -> JobState]
      BY DEF RecoverStale, IInv, TypeOK, JobState
    <2>2. worker' \in [Workers -> Tasks]
      BY <1>2 DEF IInv, TypeOK, Tasks, Phases
    <2> QED
      BY <2>1, <2>2 DEF RecoverStale, IInv, TypeOK, Tasks
  <1>5. (\A v \in Workers : WorkerKnows(v))' /\ (\A j \in Jobs : JobKnows(j))'
    BY <1>1, <1>3 DEF RecoverStale, IInv, TypeOK, WorkerKnows, JobKnows, Working
  <1>6. errors' = 0 => NothingLost'
    <2> SUFFICES ASSUME errors' = 0 PROVE NothingLost'
      OBVIOUS
    <2>1. NothingLost
      BY DEF IInv, RecoverStale
    <2>2. \A v \in Workers : worker[v].at \in Working => worker[v].job \in Jobs
      BY DEF IInv, TypeOK, WorkerKnows
    <2> QED
      BY <1>1, <1>3, <2>1, <2>2 DEF RecoverStale, NothingLost, Working
  <1> QED
    BY <1>1, <1>4, <1>5, <1>6 DEF IInv, DoneStays, JobKnows

\* A job that is claimed was PENDING, hence nobody's.
LEMMA ClaimStep ==
    ASSUME JobQueueAssumption, NoJobAssumption, IInv, NEW w \in Workers, Claim(w)
    PROVE  IInv' /\ DoneStays
PROOF
  <1>1. CASE UNCHANGED <<status, lockedAt, errors>> /\ worker' = [worker EXCEPT ![w] = Fresh]
    <2>1. \A v \in Workers : v # w => worker'[v] = worker[v]
      BY <1>1
    <2>2. worker'[w] = Fresh
      BY <1>1 DEF IInv, TypeOK
    <2>3. TypeOK'
      BY <1>1, FreshTask DEF Claim, IInv, TypeOK, Tasks
    <2>4. (\A v \in Workers : WorkerKnows(v))' /\ (\A j \in Jobs : JobKnows(j))'
      BY <1>1, <2>1, <2>2, FreshTask DEF Claim, IInv, WorkerKnows, JobKnows, Working
    <2>5. errors' = 0 => NothingLost'
      BY <1>1, <2>1, <2>2, FreshTask DEF Claim, IInv, WorkerKnows, NothingLost, Working
    <2> QED
      BY <1>1, <2>3, <2>4, <2>5 DEF IInv, DoneStays, JobKnows
  <1>2. CASE \E j \in First : worker' = [worker EXCEPT ![w] =
                                 Task("execute", j, attempts[j], worker[w].done)]
    <2>1. PICK j \in First : worker' = [worker EXCEPT ![w] =
                               Task("execute", j, attempts[j], worker[w].done)]
      BY <1>2
    <2>2. j \in Jobs /\ status[j] = "PENDING" /\ attempts[j] = 0 /\ j # NoJob
      BY <2>1, NoJobAssumption DEF First, Due, IInv, JobKnows
    <2>3. \A v \in Workers : v # w => worker'[v] = worker[v]
      BY <2>1
    <2>4. /\ worker'[w].at = "execute" /\ worker'[w].job = j /\ worker'[w].attempts = 0
          /\ worker'[w] \in Tasks
      BY <2>1, <2>2 DEF IInv, TypeOK, Task, Tasks, Phases
    <2>5. \/ /\ status' = [status EXCEPT ![j] = "RUNNING"]
             /\ lockedAt' = [lockedAt EXCEPT ![j] = clock] /\ UNCHANGED errors
          \/ errors' \in (1..MaxErrors) /\ UNCHANGED <<status, lockedAt>>
      <3>1. PICK k \in First :
              /\ \/ /\ status'   = [status EXCEPT ![k] = "RUNNING"]
                    /\ lockedAt' = [lockedAt EXCEPT ![k] = clock]
                    /\ UNCHANGED errors
                 \/ /\ errors < MaxErrors
                    /\ errors' = errors + 1
                    /\ UNCHANGED <<status, lockedAt>>
              /\ worker' = [worker EXCEPT ![w] =
                              Task("execute", k, attempts[k], worker[w].done)]
        <4>1. worker'[w].job # NoJob
          BY <2>2, <2>4
        <4>2. worker' # [worker EXCEPT ![w] = Fresh]
          BY <4>1, FreshTask DEF IInv, TypeOK
        <4> QED BY <4>2 DEF Claim
      <3>2. worker'[w].job = k
        BY <3>1 DEF IInv, TypeOK, Task
      <3> QED
        BY <3>1, <3>2, <2>4, JobQueueAssumption DEF IInv, TypeOK, JobQueueAssumption
    <2>6. TypeOK'
      <3>1. status' \in [Jobs -> JobState] /\ lockedAt' \in [Jobs -> 0..Horizon]
        BY <2>5 DEF IInv, TypeOK, JobState
      <3>2. worker' \in [Workers -> Tasks]
        BY <2>1, <2>3, <2>4 DEF IInv, TypeOK, Tasks
      <3>3. errors' \in 0..MaxErrors
        BY <2>5 DEF IInv, TypeOK, JobQueueAssumption
      <3> QED
        BY <3>1, <3>2, <3>3 DEF Claim, IInv, TypeOK, Tasks
    <2>7. (\A v \in Workers : WorkerKnows(v))'
      BY <2>2, <2>3, <2>4 DEF Claim, IInv, WorkerKnows, Working
    <2>8. (\A i \in Jobs : JobKnows(i))'
      BY <2>2, <2>5 DEF Claim, IInv, TypeOK, JobKnows
    <2>9. errors' = 0 => NothingLost'
      <3> SUFFICES ASSUME errors' = 0 PROVE NothingLost'
        OBVIOUS
      <3>1. errors = 0 /\ status' = [status EXCEPT ![j] = "RUNNING"]
        BY <2>5
      <3>2. NothingLost /\ UNCHANGED runs
        BY <3>1 DEF IInv, Claim
      <3>3. \A v \in Workers : worker[v].at \in Working => worker[v].job \in Jobs \ {j}
        BY <2>2, <3>2 DEF IInv, TypeOK, WorkerKnows, NothingLost
      <3>4. \A v \in Workers : v # w => worker'[v].job # j
        BY <2>2, <2>3, <3>3 DEF IInv, WorkerKnows
      <3>5. \A v \in Workers : v # w /\ worker'[v].at \in Working =>
              status'[worker'[v].job] = status[worker[v].job]
        BY <2>3, <3>1, <3>3 DEF IInv, TypeOK
      <3>6. status'[j] = "RUNNING" /\ runs[j] = 0
        BY <2>2, <3>1, <3>2 DEF IInv, TypeOK, NothingLost
      <3>7. \A i \in Jobs : i # j => status'[i] = status[i]
        BY <3>1
      <3> QED
        BY <2>3, <2>4, <3>2, <3>4, <3>5, <3>6, <3>7 DEF NothingLost, Working
    <2> QED
      BY <2>2, <2>5, <2>6, <2>7, <2>8, <2>9 DEF Claim, IInv, TypeOK, DoneStays, JobKnows
  <1> QED
    BY <1>1, <1>2 DEF Claim

\* A job is executed by the one that has it, for the first time.
LEMMA ExecuteStep ==
    ASSUME JobQueueAssumption, NoJobAssumption, IInv, NEW w \in Workers, Execute(w)
    PROVE  IInv' /\ DoneStays
PROOF
  <1> DEFINE j == worker[w].job
  <1>1. worker[w].at = "execute" /\ j \in Jobs /\ j # NoJob
    BY DEF Execute, At, IInv, TypeOK, WorkerKnows, Working
  <1>2. PICK at \in {"finishOk", "finishErr"} : worker' = [worker EXCEPT ![w].at = at]
    BY DEF Execute, Goto
  <1>3. runs' = [runs EXCEPT ![j] = @ + 1] /\ UNCHANGED <<rows, errors>>
    BY DEF Execute
  <1>4. /\ worker'[w].at = at /\ worker'[w].job = j
        /\ worker'[w].attempts = worker[w].attempts
        /\ \A v \in Workers : v # w => worker'[v] = worker[v]
    BY <1>2 DEF IInv, TypeOK
  <1>5. TypeOK'
    <2>1. worker' \in [Workers -> Tasks]
      BY <1>2 DEF IInv, TypeOK, Tasks, Phases
    <2>2. runs' \in [Jobs -> Nat]
      BY <1>1, <1>3 DEF IInv, TypeOK
    <2> QED
      BY <2>1, <2>2 DEF Execute, rows, IInv, TypeOK, Tasks
  <1>6. runs'[j] = runs[j] + 1 /\ \A i \in Jobs : i # j => runs'[i] = runs[i]
    BY <1>1, <1>3 DEF IInv, TypeOK
  <1>7. \A i \in Jobs : runs'[i] >= runs[i] /\ runs[i] \in Nat
    BY <1>6 DEF IInv, TypeOK
  <1>8. (\A v \in Workers : WorkerKnows(v))'
    <2> SUFFICES ASSUME NEW v \in Workers PROVE WorkerKnows(v)'
      OBVIOUS
    <2>1. CASE v = w
      BY <2>1, <1>1, <1>4, <1>6, <1>7 DEF IInv, WorkerKnows, Working
    <2>2. CASE v # w
      <3>1. worker[v].at \in Working => worker[v].job \in Jobs
        BY DEF IInv, TypeOK, WorkerKnows
      <3>2. worker'[v] = worker[v] /\ WorkerKnows(v)
        BY <2>2, <1>4 DEF IInv
      <3>3. worker[v].at \in {"finishOk", "finishErr"} => runs'[worker[v].job] > 0
        <4> SUFFICES ASSUME worker[v].at \in {"finishOk", "finishErr"}
                     PROVE  runs'[worker[v].job] > 0
          OBVIOUS
        <4>1. worker[v].job \in Jobs /\ runs[worker[v].job] > 0
          BY <3>1, <3>2 DEF WorkerKnows, Working
        <4>2. runs'[worker[v].job] >= runs[worker[v].job] /\ runs[worker[v].job] \in Nat
          BY <4>1, <1>7
        <4>3. runs'[worker[v].job] \in Nat
          BY <4>1, <1>5 DEF TypeOK
        <4> QED BY <4>1, <4>2, <4>3
      <3> QED BY <3>2, <3>3 DEF WorkerKnows
    <2> QED BY <2>1, <2>2
  <1>9. (\A i \in Jobs : JobKnows(i))'
    BY <1>3, <1>7 DEF rows, IInv, JobKnows
  <1>10. errors' = 0 => NothingLost'
    <2> SUFFICES ASSUME errors' = 0 PROVE NothingLost'
      OBVIOUS
    <2>1. NothingLost
      BY <1>3 DEF IInv
    <2>2. runs[j] = 0 /\ status[j] \in {"RUNNING", "FAILED"}
      BY <1>1, <2>1 DEF NothingLost, Working
    <2>3. \A v \in Workers : v # w => worker[v].job # j
      BY <1>1, <2>1 DEF NothingLost, Working
    <2>4. \A v \in Workers : worker[v].at \in Working => worker[v].job \in Jobs
      BY DEF IInv, TypeOK, WorkerKnows
    <2>5. \A v \in Workers : worker'[v].at \in Working =>
             /\ status'[worker'[v].job] \in {"RUNNING", "FAILED"}
             /\ worker'[v].at = "execute" => runs'[worker'[v].job] = 0
      BY <1>3, <1>4, <1>6, <2>1, <2>2, <2>3, <2>4 DEF rows, NothingLost, Working
    <2>6. \A i \in Jobs : /\ status'[i] \in {"NONE", "PENDING"} => runs'[i] = 0
                          /\ runs'[i] <= 1
      BY <1>3, <1>6, <2>1, <2>2 DEF rows, NothingLost
    <2>7. \A u, v \in Workers :
             worker'[u].at \in Working /\ worker'[u].job = worker'[v].job => u = v
      BY <1>1, <1>4, <2>1, <2>3 DEF NothingLost, Working
    <2> QED
      BY <2>5, <2>6, <2>7 DEF NothingLost
  <1> QED
    BY <1>3, <1>5, <1>8, <1>9, <1>10 DEF rows, IInv, DoneStays, JobKnows

\* What was executed is closed by the one that has it, who gives it up.
LEMMA FinishStep ==
    ASSUME JobQueueAssumption, NoJobAssumption, IInv, NEW w \in Workers, Finish(w)
    PROVE  IInv' /\ DoneStays
PROOF
  <1> DEFINE j == worker[w].job
  <1>1. /\ worker[w].at \in {"finishOk", "finishErr"} /\ j \in Jobs
        /\ worker[w].attempts = 0 /\ runs[j] > 0
    BY DEF Finish, At, IInv, TypeOK, WorkerKnows, Working
  <1>2. PICK task \in Tasks :
          /\ worker' = [worker EXCEPT ![w] = task]
          /\ task.job = NoJob /\ task.at \notin Working /\ task.attempts = 0
    <2>1. worker[w].done \in 0..MaxBatch
      BY DEF IInv, TypeOK
    <2>2. worker[w].done # MaxBatch => worker[w].done + 1 \in 0..MaxBatch
      BY <2>1 DEF JobQueueAssumption
    <2> QED
      BY <2>2, FreshTask, NextTask DEF Finish, Rest, Working
  <1>3. /\ worker'[w] = task
        /\ \A v \in Workers : v # w => worker'[v] = worker[v]
    BY <1>2 DEF IInv, TypeOK
  <1>4. /\ \/ /\ \E s \in {"DONE", "FAILED", "DEAD"} : status' = [status EXCEPT ![j] = s]
              /\ UNCHANGED errors
           \/ UNCHANGED status /\ errors' \in 1..MaxErrors
        /\ UNCHANGED runs
    BY DEF Finish, IInv, TypeOK, JobQueueAssumption
  <1>5. /\ attempts' = attempts \/ attempts' = [attempts EXCEPT ![j] = 1]
        /\ runAt' \in [Jobs -> Nat]
    <2>1. CASE UNCHANGED <<attempts, runAt>>
      BY <2>1 DEF IInv, TypeOK
    <2>2. CASE /\ attempts' = [attempts EXCEPT ![j] = worker[w].attempts + 1]
               /\ runAt' = [runAt EXCEPT ![j] = clock +
                     IF worker[w].attempts + 1 >= MaxAttempts THEN 0
                     ELSE 5 * (worker[w].attempts + 1)]
      <3>1. clock + (IF worker[w].attempts + 1 >= MaxAttempts THEN 0
                     ELSE 5 * (worker[w].attempts + 1)) \in Nat
        BY <1>1 DEF IInv, TypeOK, JobQueueAssumption
      <3> QED BY <1>1, <2>2, <3>1 DEF IInv, TypeOK
    <2> QED
      BY <2>1, <2>2 DEF Finish
  <1>6. TypeOK'
    <2>1. worker' \in [Workers -> Tasks]
      BY <1>2 DEF IInv, TypeOK, Tasks
    <2>2. status' \in [Jobs -> JobState] /\ errors' \in 0..MaxErrors
      BY <1>1, <1>4 DEF IInv, TypeOK, JobState, JobQueueAssumption
    <2>3. attempts' \in [Jobs -> 0..MaxAttempts]
      BY <1>1, <1>5 DEF IInv, TypeOK, JobQueueAssumption
    <2> QED
      BY <1>5, <2>1, <2>2, <2>3 DEF Finish, IInv, TypeOK, Tasks
  <1>7. \A v \in Workers : worker'[v].at \in Working => v # w /\ worker[v].at \in Working
    BY <1>2, <1>3
  <1>8. (\A v \in Workers : WorkerKnows(v))'
    <2> SUFFICES ASSUME NEW v \in Workers PROVE WorkerKnows(v)'
      OBVIOUS
    <2>1. CASE v = w
      BY <2>1, <1>2, <1>3 DEF WorkerKnows, Working
    <2>2. CASE v # w
      BY <2>2, <1>3, <1>4 DEF IInv, WorkerKnows
    <2> QED BY <2>1, <2>2
  <1>9. \A i \in Jobs : i # j => status'[i] = status[i] /\ attempts'[i] = attempts[i]
    BY <1>1, <1>4, <1>5 DEF IInv, TypeOK
  <1>10. status'[j] \in {"DONE", "FAILED", "DEAD"} \/ status'[j] = status[j]
    BY <1>1, <1>4 DEF IInv, TypeOK
  <1>11. (\A i \in Jobs : JobKnows(i))'
    <2> SUFFICES ASSUME NEW i \in Jobs PROVE JobKnows(i)'
      OBVIOUS
    <2>1. CASE i # j
      BY <2>1, <1>4, <1>9 DEF IInv, JobKnows
    <2>2. CASE i = j
      <3>1. status'[j] \in {"NONE", "PENDING"} => attempts'[j] = 0
        <4>1. CASE UNCHANGED attempts
          BY <4>1, <1>1, <1>10 DEF IInv, JobKnows
        <4>2. CASE status'[j] \in {"FAILED", "DEAD"}
          BY <4>2
        <4>3. attempts' = attempts \/ status'[j] \in {"FAILED", "DEAD"}
          BY <1>1 DEF Finish, IInv, TypeOK
        <4> QED BY <4>1, <4>2, <4>3
      <3> QED BY <2>2, <3>1, <1>1, <1>4 DEF JobKnows
    <2> QED BY <2>1, <2>2
  <1>12. errors' = 0 =>
           /\ NothingLost
           /\ status[j] \in {"RUNNING", "FAILED"}
           /\ status'[j] \notin {"NONE", "PENDING"}
           /\ \A v \in Workers : v # w /\ worker[v].at \in Working => worker[v].job # j
    <2> SUFFICES ASSUME errors' = 0
                 PROVE  /\ NothingLost
                        /\ status[j] \in {"RUNNING", "FAILED"}
                        /\ status'[j] \notin {"NONE", "PENDING"}
                        /\ \A v \in Workers : v # w /\ worker[v].at \in Working =>
                              worker[v].job # j
      OBVIOUS
    <2>1. NothingLost
      BY <1>4 DEF IInv
    <2>2. status[j] \in {"RUNNING", "FAILED"}
      BY <1>1, <2>1 DEF NothingLost, Working
    <2> QED
      BY <1>1, <1>10, <2>1, <2>2 DEF NothingLost
  <1>13. errors' = 0 => NothingLost'
    <2> SUFFICES ASSUME errors' = 0 PROVE NothingLost'
      OBVIOUS
    <2>1. \A v \in Workers : worker[v].at \in Working => worker[v].job \in Jobs
      BY DEF IInv, TypeOK, WorkerKnows
    <2>2. \A v \in Workers : worker'[v].at \in Working =>
             /\ status'[worker'[v].job] \in {"RUNNING", "FAILED"}
             /\ worker'[v].at = "execute" => runs'[worker'[v].job] = 0
      BY <1>3, <1>4, <1>7, <1>9, <1>12, <2>1 DEF NothingLost
    <2>3. \A i \in Jobs : /\ status'[i] \in {"NONE", "PENDING"} => runs'[i] = 0
                          /\ runs'[i] <= 1
      BY <1>4, <1>9, <1>12 DEF NothingLost
    <2>4. \A u, v \in Workers :
             worker'[u].at \in Working /\ worker'[u].job = worker'[v].job => u = v
      <3> SUFFICES ASSUME NEW u \in Workers, NEW v \in Workers,
                          worker'[u].at \in Working, worker'[u].job = worker'[v].job
                   PROVE  u = v
        OBVIOUS
      <3>1. u # w /\ worker'[u] = worker[u] /\ worker[u].job # NoJob
        BY <1>3, <1>7, <2>1, NoJobAssumption
      <3>2. v # w
        BY <1>2, <1>3, <3>1
      <3> QED
        BY <1>3, <1>12, <3>1, <3>2 DEF NothingLost
    <2> QED
      BY <2>2, <2>3, <2>4 DEF NothingLost
  <1>14. DoneStays
    BY <1>9, <1>12 DEF DoneStays, IInv, JobKnows
  <1> QED
    BY <1>6, <1>8, <1>11, <1>13, <1>14 DEF IInv

\* A worker that dies gives its job up; a tick changes nothing but the clock.
LEMMA CrashStep ==
    ASSUME JobQueueAssumption, NoJobAssumption, IInv, NEW w \in Workers, Crash(w)
    PROVE  IInv' /\ DoneStays
PROOF
  <1>1. /\ worker'[w] = Fresh
        /\ \A v \in Workers : v # w => worker'[v] = worker[v]
        /\ worker' \in [Workers -> Tasks]
    BY FreshTask DEF Crash, IInv, TypeOK, Tasks
  <1>2. UNCHANGED <<rows, runs, clock, errors>> /\ crashes' \in 0..MaxCrashes
    BY DEF Crash, IInv, TypeOK, JobQueueAssumption
  <1>3. TypeOK'
    BY <1>1, <1>2 DEF rows, IInv, TypeOK, Tasks
  <1>4. (\A v \in Workers : WorkerKnows(v))' /\ (\A j \in Jobs : JobKnows(j))'
    BY <1>1, <1>2, FreshTask DEF rows, IInv, WorkerKnows, JobKnows, Working
  <1>5. errors' = 0 => NothingLost'
    BY <1>1, <1>2, FreshTask DEF rows, IInv, WorkerKnows, NothingLost, Working
  <1> QED
    BY <1>2, <1>3, <1>4, <1>5 DEF rows, IInv, DoneStays, JobKnows

\* Whatever a step does.
LEMMA NextInv ==
    ASSUME JobQueueAssumption, NoJobAssumption, IInv, [Next]_vars
    PROVE  IInv' /\ [DoneStays]_vars
PROOF
  <1>1. CASE UNCHANGED vars
    BY <1>1 DEF vars, rows, IInv, TypeOK, WorkerKnows, JobKnows, NothingLost
  <1>2. CASE Tick
    <2>1. TypeOK'
      BY <1>2 DEF Tick, rows, IInv, TypeOK, JobQueueAssumption
    <2> QED
      BY <1>2, <2>1 DEF Tick, rows, IInv, WorkerKnows, JobKnows, NothingLost, DoneStays
  <1>3. ASSUME NEW w \in Workers, Work(w) \/ Crash(w) PROVE IInv' /\ DoneStays
    BY <1>3, EnsureStep, RecoverStep, ClaimStep, ExecuteStep, FinishStep, CrashStep DEF Work
  <1> QED
    BY <1>1, <1>2, <1>3 DEF Next

-----------------------------------------------------------------------------
(* Theorems *)

\* What workers and rows may rely on, for any number of them.
THEOREM Queue_Invariant == Spec => []IInv
PROOF
  <1>1. Init => IInv
    BY JobQueueAssumption, NoJobAssumption, InitInv
  <1>2. IInv /\ [Next]_vars => IInv'
    BY JobQueueAssumption, NoJobAssumption, NextInv
  <1> QED BY <1>1, <1>2, PTL DEF Spec

\* No two workers have the same job, as long as no statement of a claim or a
\* finish was lost.
THEOREM One_Runner == Spec => []OneRunner
PROOF
  <1>1. IInv => OneRunner
    BY DEF IInv, OneRunner, NothingLost, Runs, At, Working
  <1> QED BY <1>1, Queue_Invariant, PTL

\* No job is executed twice, however long it takes and whoever dies.
THEOREM Executed_Once == Spec => []ExecutedOnce
PROOF
  <1>1. IInv => ExecutedOnce
    BY DEF IInv, ExecutedOnce, NothingLost
  <1> QED BY <1>1, Queue_Invariant, PTL

\* What is DONE was executed, and is not recovered, claimed or failed again.
THEOREM Done_Is_Final == Spec => DoneIsFinal
PROOF
  <1>1. IInv /\ [Next]_vars => [DoneStays]_vars
    BY JobQueueAssumption, NoJobAssumption, NextInv
  <1>2. Spec => [][DoneStays]_vars
    BY <1>1, Queue_Invariant, PTL DEF Spec
  <1> QED BY <1>2 DEF DoneIsFinal, DoneStays
=============================================================================
