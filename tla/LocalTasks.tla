----------------------------- MODULE LocalTasks -----------------------------
(***************************************************************************)
(* The durable background queue of the PandaProbe backend: the table       *)
(* local_jobs (LocalJobRepository), the single-concurrency LocalTaskRunner *)
(* that claims and settles its rows, the LocalScheduler that feeds it      *)
(* periodic tasks, and the FastAPI process both live in, which may crash   *)
(* or be shut down between any two awaits and is started again.            *)
(*                                                                         *)
(* Rows are numbered in the order of created_at.  Of a row we keep the     *)
(* columns the code branches on; available_at is the Boolean due           *)
(* (available_at <= now).  Database faults are the cases in which a        *)
(* statement's effect and its exception disagree with the normal path: a   *)
(* claim that commits while its answer is lost, and a settling update that *)
(* is never applied.  A fault without effect on the claim is a stutter.    *)
(***************************************************************************)
EXTENDS Naturals, FiniteSets

CONSTANTS
    MaxJobs,         \* rows the model may create
    Tasks,           \* task names occurring in local_jobs.task_name
    Registered,      \* keys of TASK_DEFINITIONS
    Periodic,        \* task names of PERIODIC_TASKS
    MaxRetries,      \* TASK_DEFINITIONS[t].max_retries
    RetryOnTimeout,  \* tasks whose definition sets retry_on_timeout
    MaxStarts,       \* bound on process starts
    MaxFaults        \* bound on database faults

JobIds == 1..MaxJobs

NoJob == 0

ASSUME LocalTasksAssumption ==
    /\ MaxJobs \in Nat
    /\ MaxStarts \in Nat
    /\ MaxFaults \in Nat
    /\ Tasks # {}
    /\ Registered \subseteq Tasks
    /\ Periodic \subseteq Registered
    /\ RetryOnTimeout \subseteq Registered
    /\ MaxRetries \in [Tasks -> Nat]

VARIABLES
    task,       \* [JobIds -> Tasks]: column task_name (arbitrary while ABSENT)
    status,     \* column status, ABSENT for a row not inserted yet
    attempts,   \* column attempts
    due,        \* available_at <= now
    lastError,  \* column last_error: none, or what the message reports
    created,    \* number of rows inserted so far
    runner,     \* where the worker loop stands
    cur,        \* the job object _execute_job holds
    verdict,    \* how the handler of cur ended
    sched,      \* where each periodic loop stands
    starts,     \* process starts so far
    faults,     \* database faults so far
    ran,        \* history: how often the handler of a job returned normally
    orphans     \* history: rows left RUNNING by a fault of this process

rowVars == <<task, status, attempts, due, lastError, created>>
runnerVars == <<runner, cur, verdict>>
histVars == <<starts, faults, ran, orphans>>
vars == <<rowVars, runnerVars, sched, histVars>>

LocalJobStatus == {"PENDING", "RUNNING", "RETRY", "COMPLETED", "FAILED"}
Verdicts == {"ok", "error", "timeout", "unknown"}
Terminal == {"COMPLETED", "FAILED"}

(* The one type invariant of the module.                                   *)
TypeOK ==
    /\ task \in [JobIds -> Tasks]
    /\ status \in [JobIds -> LocalJobStatus \cup {"ABSENT"}]
    /\ attempts \in [JobIds -> Nat]
    /\ due \in [JobIds -> BOOLEAN]
    /\ lastError \in [JobIds -> {"none", "error", "timeout", "unknown"}]
    /\ created \in 0..MaxJobs
    /\ runner \in {"down", "polling", "executing", "settling"}
    /\ cur \in JobIds \cup {NoJob}
    /\ verdict \in Verdicts \cup {"none"}
    /\ sched \in [Periodic -> {"stopped", "waiting", "checked"}]
    /\ starts \in 0..MaxStarts
    /\ faults \in 0..MaxFaults
    /\ ran \in [JobIds -> Nat]
    /\ orphans \subseteq JobIds

(* An empty table and no process.                                          *)
Init ==
    /\ task = [i \in JobIds |-> CHOOSE t \in Tasks : TRUE]
    /\ status = [i \in JobIds |-> "ABSENT"]
    /\ attempts = [i \in JobIds |-> 0]
    /\ due = [i \in JobIds |-> FALSE]
    /\ lastError = [i \in JobIds |-> "none"]
    /\ created = 0
    /\ runner = "down"
    /\ cur = NoJob
    /\ verdict = "none"
    /\ sched = [t \in Periodic |-> "stopped"]
    /\ starts = 0
    /\ faults = 0
    /\ ran = [i \in JobIds |-> 0]
    /\ orphans = {}

Up == runner # "down"

-----------------------------------------------------------------------------
(* LocalJobRepository *)

(* create: insert a row that is ready for immediate execution.             *)
Create(t) ==
    LET i == created + 1 IN
    /\ created < MaxJobs
    /\ created' = i
    /\ task' = [task EXCEPT ![i] = t]
    /\ status' = [status EXCEPT ![i] = "PENDING"]
    /\ due' = [due EXCEPT ![i] = TRUE]
    /\ UNCHANGED <<attempts, lastError>>

Active == {"PENDING", "RUNNING", "RETRY"}

(* Mutant: a row that is being executed does not count as active.          *)
HasActiveTaskIgnoresRunning(t) ==
    \E i \in JobIds : task[i] = t /\ status[i] \in {"PENDING", "RETRY"}

HasActiveTask(t) == \E i \in JobIds : task[i] = t /\ status[i] \in Active

Claimable(i) == status[i] \in {"PENDING", "RETRY"} /\ due[i]

(* claim_next: the oldest ready row becomes RUNNING.                       *)
ClaimNext(i) ==
    /\ Claimable(i)
    /\ \A k \in JobIds : Claimable(k) => i <= k
    /\ status' = [status EXCEPT ![i] = "RUNNING"]
    /\ attempts' = [attempts EXCEPT ![i] = @ + 1]
    /\ UNCHANGED <<task, due, lastError, created>>

MarkCompleted(i) ==
    /\ status' = [status EXCEPT ![i] = "COMPLETED"]
    /\ lastError' = [lastError EXCEPT ![i] = "none"]
    /\ UNCHANGED due

ScheduleRetry(i, error) ==
    /\ status' = [status EXCEPT ![i] = "RETRY"]
    /\ due' = [due EXCEPT ![i] = FALSE]
    /\ lastError' = [lastError EXCEPT ![i] = error]

MarkFailed(i, error) ==
    /\ status' = [status EXCEPT ![i] = "FAILED"]
    /\ lastError' = [lastError EXCEPT ![i] = error]
    /\ UNCHANGED due

(* Mutant: recovery forgets the rows a previous process left RUNNING.      *)
RecoverNothing == UNCHANGED rowVars

(* Mutant: recovery revives every row that is not COMPLETED.               *)
RecoverUnfinished ==
    /\ status' = [i \in JobIds |-> IF status[i] \in {"RUNNING", "FAILED"} THEN "PENDING" ELSE status[i]]
    /\ due' = [i \in JobIds |-> IF status[i] \in {"RUNNING", "FAILED"} THEN TRUE ELSE due[i]]
    /\ UNCHANGED <<task, attempts, lastError, created>>

(* recover_running: every RUNNING row goes back to PENDING, ready now.     *)
RecoverRunning ==
    /\ status' = [i \in JobIds |-> IF status[i] = "RUNNING" THEN "PENDING" ELSE status[i]]
    /\ due' = [i \in JobIds |-> IF status[i] = "RUNNING" THEN TRUE ELSE due[i]]
    /\ UNCHANGED <<task, attempts, lastError, created>>

-----------------------------------------------------------------------------
(* Producers *)

(* A request or a running handler enqueues a non-periodic job; the row is  *)
(* committed in a session of its own.                                      *)
Enqueue(t) ==
    /\ Up
    /\ t \notin Periodic
    /\ Create(t)
    /\ UNCHANGED <<runnerVars, sched, histVars>>

(* A periodic loop's interval elapses and enqueue_registered_job finds no  *)
(* active row.  A tick that finds one changes nothing.                     *)
SchedulerCheck(t) ==
    /\ sched[t] = "waiting"
    /\ ~HasActiveTask(t)
    /\ sched' = [sched EXCEPT ![t] = "checked"]
    /\ UNCHANGED <<rowVars, runnerVars, histVars>>

(* The insert that follows the check, after another await.                 *)
SchedulerCreate(t) ==
    /\ sched[t] = "checked"
    /\ Create(t)
    /\ sched' = [sched EXCEPT ![t] = "waiting"]
    /\ UNCHANGED <<runnerVars, histVars>>

(* The insert raises: the loop logs it and waits for the next interval.    *)
SchedulerCreateFails(t) ==
    /\ sched[t] = "checked"
    /\ faults < MaxFaults
    /\ faults' = faults + 1
    /\ sched' = [sched EXCEPT ![t] = "waiting"]
    /\ UNCHANGED <<rowVars, runnerVars, starts, ran, orphans>>

-----------------------------------------------------------------------------
(* LocalTaskRunner *)

(* _worker_loop takes the next job into _execute_job.                      *)
Claim(i) ==
    /\ runner = "polling"
    /\ ClaimNext(i)
    /\ runner' = "executing"
    /\ cur' = i
    /\ UNCHANGED <<verdict, sched, histVars>>

(* The claim commits but its session raises: the loop logs, sleeps and     *)
(* polls again, and nobody holds the row.                                  *)
ClaimAnswerLost(i) ==
    /\ runner = "polling"
    /\ faults < MaxFaults
    /\ ClaimNext(i)
    /\ faults' = faults + 1
    /\ orphans' = orphans \cup {i}
    /\ UNCHANGED <<runnerVars, sched, starts, ran>>

(* The handler returns, raises, or ends with TimeoutError (its time limit, *)
(* or a TimeoutError of its own); an unregistered task has no handler.     *)
HandlerEnds(v) ==
    /\ runner = "executing"
    /\ (v = "unknown") <=> (task[cur] \notin Registered)
    /\ runner' = "settling"
    /\ verdict' = v
    /\ ran' = [ran EXCEPT ![cur] = IF v = "ok" THEN @ + 1 ELSE @]
    /\ UNCHANGED <<rowVars, cur, sched, starts, faults, orphans>>

(* Mutant: no retry budget is consulted.                                   *)
MayRetryForever(i, v) == v = "error" \/ (v = "timeout" /\ task[i] \in RetryOnTimeout)

(* attempts <= max_retries, and for a timeout the definition's leave.      *)
MayRetry(i, v) ==
    /\ attempts[i] <= MaxRetries[task[i]]
    /\ \/ v = "error"
       \/ v = "timeout" /\ task[i] \in RetryOnTimeout

(* _mark_completed, _handle_error, _handle_timeout, or _mark_failed.       *)
Settle ==
    /\ runner = "settling"
    /\ \/ verdict = "ok" /\ MarkCompleted(cur)
       \/ verdict # "ok" /\ MayRetry(cur, verdict) /\ ScheduleRetry(cur, verdict)
       \/ verdict # "ok" /\ ~MayRetry(cur, verdict) /\ MarkFailed(cur, verdict)
    /\ runner' = "polling"
    /\ cur' = NoJob
    /\ verdict' = "none"
    /\ UNCHANGED <<task, attempts, created, sched, histVars>>

(* The settling update raises and is not applied: _worker_loop logs        *)
(* iteration_failed and goes on, the row stays RUNNING.                    *)
SettleFails ==
    /\ runner = "settling"
    /\ faults < MaxFaults
    /\ faults' = faults + 1
    /\ orphans' = orphans \cup {cur}
    /\ runner' = "polling"
    /\ cur' = NoJob
    /\ verdict' = "none"
    /\ UNCHANGED <<rowVars, sched, starts, ran>>

(* Time passes the available_at of a retry.                                *)
RetryDelayElapses(i) ==
    /\ status[i] = "RETRY"
    /\ ~due[i]
    /\ due' = [due EXCEPT ![i] = TRUE]
    /\ UNCHANGED <<task, status, attempts, lastError, created, runnerVars, sched, histVars>>

-----------------------------------------------------------------------------
(* The process: lifespan of the FastAPI application *)

(* Startup: the runner recovers interrupted rows before its loop exists,   *)
(* then one loop per periodic task starts waiting.                         *)
Start ==
    /\ ~Up
    /\ starts < MaxStarts
    /\ RecoverRunning
    /\ runner' = "polling"
    /\ sched' = [t \in Periodic |-> "waiting"]
    /\ starts' = starts + 1
    /\ orphans' = {}
    /\ UNCHANGED <<cur, verdict, faults, ran>>

(* local_scheduler.stop lets a loop that is enqueueing finish.             *)
StopScheduler ==
    /\ Up
    /\ starts < MaxStarts
    /\ Periodic # {}
    /\ \A t \in Periodic : sched[t] = "waiting"
    /\ sched' = [t \in Periodic |-> "stopped"]
    /\ UNCHANGED <<rowVars, runnerVars, histVars>>

(* The process loses what it holds in memory; the rows stay as they are.   *)
LoseProcess ==
    /\ Up
    /\ starts < MaxStarts
    /\ runner' = "down"
    /\ cur' = NoJob
    /\ verdict' = "none"
    /\ sched' = [t \in Periodic |-> "stopped"]
    /\ UNCHANGED <<rowVars, histVars>>

(* local_task_runner.stop cancels the loop at whatever await it is in.     *)
StopRunner == (\A t \in Periodic : sched[t] = "stopped") /\ LoseProcess

Crash == LoseProcess

-----------------------------------------------------------------------------

RunnerStep ==
    \/ \E i \in JobIds : Claim(i)
    \/ \E v \in Verdicts : HandlerEnds(v)
    \/ Settle

Next ==
    \/ \E t \in Tasks : Enqueue(t)
    \/ \E t \in Periodic : SchedulerCheck(t) \/ SchedulerCreate(t) \/ SchedulerCreateFails(t)
    \/ RunnerStep
    \/ \E i \in JobIds : ClaimAnswerLost(i)
    \/ SettleFails
    \/ \E i \in JobIds : RetryDelayElapses(i)
    \/ Start \/ StopScheduler \/ StopRunner \/ Crash

(* The event loop keeps running the worker loop, a handler ends (every     *)
(* definition has a time limit), time passes, a shutdown that has stopped  *)
(* the scheduler goes on to stop the runner, and a process that is down is *)
(* started again; nothing forces a producer, a fault or a crash.           *)
Fairness ==
    /\ WF_vars(RunnerStep)
    /\ \A i \in JobIds : WF_vars(RetryDelayElapses(i))
    /\ WF_vars(Start)
    /\ WF_vars(StopRunner)

Spec == Init /\ [][Next]_vars

FairSpec == Spec /\ Fairness

-----------------------------------------------------------------------------
(* Properties *)

(* The rows that are RUNNING are exactly the one the runner holds and the  *)
(* ones a fault of this process orphaned: no attempt is ever executed by   *)
(* two loops, and nothing is RUNNING that nobody accounts for.             *)
SingleFlight ==
    Up => {i \in JobIds : status[i] = "RUNNING"} =
          orphans \cup (IF cur = NoJob THEN {} ELSE {cur})

(* A job is claimed at most max_retries + 1 times plus once for every      *)
(* restart (process starts after the first): recover_running keeps         *)
(* attempts and claim_next never looks at the budget, so only a restart    *)
(* can take a job past it.                                                 *)
AttemptsBounded ==
    \A i \in JobIds : attempts[i] <= MaxRetries[task[i]] + starts

(* A row is COMPLETED only if its handler returned normally at least once, *)
(* and FAILED for a registered task only if the last attempt was out of    *)
(* retries, or timed out where the definition forbids a retry.             *)
SettledForCause ==
    \A i \in JobIds :
        /\ status[i] = "COMPLETED" => ran[i] > 0
        /\ status[i] = "FAILED" =>
              \/ attempts[i] > MaxRetries[task[i]]
              \/ lastError[i] = "timeout" /\ task[i] \notin RetryOnTimeout
              \/ task[i] \notin Registered

(* The scheduler never queues a periodic task twice: the check and the     *)
(* insert are separate statements, and only one loop inserts each task.    *)
PeriodicUnique ==
    \A i, k \in JobIds :
        /\ task[i] = task[k] /\ task[i] \in Periodic
        /\ status[i] \in Active /\ status[k] \in Active
        => i = k

(* Every job that is queued is eventually settled or orphaned by a fault.  *)
QueuedIsSettled ==
    \A i \in JobIds :
        status[i] \in {"PENDING", "RETRY"} ~> (status[i] \in Terminal \/ i \in orphans)

(* The contract's view of a row.                                           *)
Contract == INSTANCE JobContract WITH
    Jobs <- JobIds,
    Kinds <- Tasks,
    Budget <- MaxRetries,
    Fragile <- Tasks \ RetryOnTimeout,
    phase <- [i \in JobIds |->
                 CASE status[i] = "ABSENT" -> "none"
                   [] status[i] \in {"PENDING", "RETRY"} -> "queued"
                   [] status[i] = "RUNNING" -> "held"
                   [] status[i] = "COMPLETED" -> "finished"
                   [] status[i] = "FAILED" -> "abandoned"],
    kind <- task,
    tries <- attempts,
    work <- ran,
    cut <- [i \in JobIds |-> lastError[i] \in {"timeout", "unknown"}]

(* The table, the runner, the scheduler and the restarts together keep the *)
(* contract: at-least-once execution under a retry budget.                 *)
ImplementsContract == Contract!Spec

=============================================================================
