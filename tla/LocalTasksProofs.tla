-------------------------- MODULE LocalTasksProofs --------------------------
(***************************************************************************)
(* Proofs about LocalTasks, for every number of rows, every set of tasks,  *)
(* every retry budget and any number of restarts and faults.               *)
(***************************************************************************)
EXTENDS LocalTasks, TLAPS

(* The runner holds a job exactly while it executes or settles one, and    *)
(* knows the handler's verdict exactly while it settles; without a process *)
(* there are no scheduler loops.                                           *)
RunnerShape ==
    /\ cur = NoJob <=> runner \in {"down", "polling"}
    /\ verdict = "none" <=> runner # "settling"
    /\ runner = "down" => \A t \in Periodic : sched[t] = "stopped"

TypeInv == TypeOK /\ RunnerShape

(* The initial state is well typed.                                        *)
LEMMA InitType == Init => TypeInv
  BY LocalTasksAssumption
  DEF Init, TypeInv, TypeOK, RunnerShape, JobIds, NoJob, LocalJobStatus, Verdicts

(* Every action of LocalTasks preserves the type invariant.  The shape of  *)
(* the runner is needed because SettleFails orphans the job it holds.      *)
LEMMA NextType == TypeInv /\ [Next]_vars => TypeInv'
<1> SUFFICES ASSUME TypeInv, [Next]_vars PROVE TypeInv'
  OBVIOUS
<1> USE LocalTasksAssumption
        DEF TypeInv, TypeOK, RunnerShape, LocalJobStatus, Verdicts, rowVars, runnerVars, histVars
<1>a. NoJob \notin JobIds
  BY DEF NoJob, JobIds
<1>b. Periodic \subseteq Tasks
  OBVIOUS
<1>c. created < MaxJobs => created + 1 \in 0..MaxJobs /\ created + 1 \in JobIds
  BY DEF JobIds
<1>1. ASSUME NEW t \in Tasks, Enqueue(t) PROVE TypeInv'
  BY <1>1, <1>c DEF Enqueue, Create
<1>2. ASSUME NEW t \in Periodic, SchedulerCheck(t) PROVE TypeInv'
  BY <1>2 DEF SchedulerCheck
<1>3. ASSUME NEW t \in Periodic, SchedulerCreate(t) PROVE TypeInv'
  BY <1>3, <1>b, <1>c DEF SchedulerCreate, Create
<1>4. ASSUME NEW t \in Periodic, SchedulerCreateFails(t) PROVE TypeInv'
  BY <1>4 DEF SchedulerCreateFails
<1>5. ASSUME NEW i \in JobIds, Claim(i) PROVE TypeInv'
  BY <1>5, <1>a DEF Claim, ClaimNext
<1>6. ASSUME NEW v \in Verdicts, HandlerEnds(v) PROVE TypeInv'
  BY <1>6 DEF HandlerEnds
<1>7. CASE Settle
  <2>1. /\ UNCHANGED <<task, attempts, created, sched, starts, faults, ran, orphans>>
        /\ runner' = "polling" /\ cur' = NoJob /\ verdict' = "none"
        /\ cur \in JobIds /\ verdict \in Verdicts
    BY <1>7 DEF Settle
  <2> DEFINE Rows == /\ status' \in [JobIds -> LocalJobStatus \cup {"ABSENT"}]
                     /\ due' \in [JobIds -> BOOLEAN]
                     /\ lastError' \in [JobIds -> {"none", "error", "timeout", "unknown"}]
  <2>2. Rows
    <3>1. ASSUME MarkCompleted(cur) PROVE Rows
      BY <2>1, <3>1 DEF MarkCompleted
    <3>2. ASSUME verdict # "ok", ScheduleRetry(cur, verdict) PROVE Rows
      BY <2>1, <3>2 DEF ScheduleRetry
    <3>3. ASSUME verdict # "ok", MarkFailed(cur, verdict) PROVE Rows
      BY <2>1, <3>3 DEF MarkFailed
    <3> QED
      BY <1>7, <3>1, <3>2, <3>3 DEF Settle
  <2> QED
    BY <2>1, <2>2
<1>8. ASSUME NEW i \in JobIds, ClaimAnswerLost(i) PROVE TypeInv'
  BY <1>8 DEF ClaimAnswerLost, ClaimNext
<1>9. CASE SettleFails
  BY <1>9 DEF SettleFails
<1>10. ASSUME NEW i \in JobIds, RetryDelayElapses(i) PROVE TypeInv'
  BY <1>10 DEF RetryDelayElapses
<1>11. CASE Start
  <2>1. status' \in [JobIds -> LocalJobStatus \cup {"ABSENT"}] /\ due' \in [JobIds -> BOOLEAN]
    BY <1>11 DEF Start, RecoverRunning
  <2>2. starts' \in 0..MaxStarts
    BY <1>11 DEF Start
  <2> QED
    BY <1>11, <2>1, <2>2 DEF Start, RecoverRunning, Up
<1>12. CASE StopScheduler
  BY <1>12 DEF StopScheduler
<1>13. CASE LoseProcess
  BY <1>13 DEF LoseProcess
<1>14. CASE UNCHANGED vars
  BY <1>14 DEF vars
<1> QED
  BY <1>1, <1>2, <1>3, <1>4, <1>5, <1>6, <1>7, <1>8, <1>9, <1>10, <1>11, <1>12,
     <1>13, <1>14 DEF Next, RunnerStep, StopRunner, Crash

(* Type correctness of the queue, the runner and the scheduler.            *)
THEOREM TypeCorrect == Spec => []TypeOK
<1>1. TypeInv => TypeOK
  BY DEF TypeInv
<1> QED
  BY <1>1, InitType, NextType, PTL DEF Spec

-----------------------------------------------------------------------------
(* The inductive strengthening.                                            *)

(* Rows exist in the order of their ids, and a row not inserted yet has no *)
(* attempts and no active status.                                          *)
RowsFresh ==
    \A i \in JobIds :
        /\ i > created => status[i] = "ABSENT"
        /\ status[i] = "ABSENT" => attempts[i] = 0

(* Who holds the RUNNING rows while the process is up.                     *)
Held ==
    /\ SingleFlight
    /\ cur \notin orphans
    /\ Up => starts > 0

(* The retry budget by status: a queued row has its next attempt left.     *)
BudgetLeft ==
    \A i \in JobIds :
        /\ status[i] = "RETRY" => attempts[i] <= MaxRetries[task[i]]
        /\ status[i] = "PENDING" => attempts[i] + 1 <= MaxRetries[task[i]] + starts
        /\ attempts[i] <= MaxRetries[task[i]] + starts

(* What the runner knows when it settles.                                  *)
VerdictFounded ==
    /\ verdict = "ok" => ran[cur] > 0
    /\ verdict = "unknown" => task[cur] \notin Registered

(* A periodic loop that found no active row still finds none.              *)
GateHeld ==
    /\ PeriodicUnique
    /\ \A t \in Periodic : sched[t] = "checked" => ~HasActiveTask(t)

IndInv ==
    /\ TypeInv
    /\ RowsFresh
    /\ Held
    /\ BudgetLeft
    /\ VerdictFounded
    /\ SettledForCause
    /\ GateHeld

(* The strengthening holds initially.                                      *)
LEMMA InitInd == Init => IndInv
<1> SUFFICES ASSUME Init PROVE IndInv
  OBVIOUS
<1>1. TypeInv
  BY InitType
<1>2. RowsFresh /\ SettledForCause /\ VerdictFounded
  BY DEF Init, RowsFresh, SettledForCause, VerdictFounded
<1>3. Held
  BY DEF Init, Held, SingleFlight, Up, NoJob, JobIds
<1>4. BudgetLeft
  BY <1>1, LocalTasksAssumption DEF Init, BudgetLeft, TypeInv, TypeOK
<1>5. GateHeld
  BY DEF Init, GateHeld, PeriodicUnique, HasActiveTask, Active
<1> QED
  BY <1>1, <1>2, <1>3, <1>4, <1>5 DEF IndInv

(* Inserting a row, whoever does it, keeps what is said about rows.        *)
LEMMA CreateKeepsRows ==
    ASSUME IndInv, NEW t \in Tasks, Create(t), Up,
           UNCHANGED <<runnerVars, starts, ran, orphans>>
    PROVE  RowsFresh' /\ Held' /\ BudgetLeft' /\ VerdictFounded' /\ SettledForCause'
<1> USE LocalTasksAssumption DEF IndInv, TypeInv, TypeOK, Create, runnerVars
<1> DEFINE n == created + 1
<1>1. n \in JobIds /\ status[n] = "ABSENT" /\ attempts[n] = 0 /\ created \in Nat
  BY DEF JobIds, RowsFresh
<1>2. RowsFresh'
  BY <1>1 DEF RowsFresh, JobIds
<1>3. cur # n /\ n \notin orphans
  <2>1. n \notin orphans \cup (IF cur = NoJob THEN {} ELSE {cur})
    BY <1>1 DEF Held, SingleFlight
  <2>2. n # NoJob
    BY <1>1 DEF NoJob, JobIds
  <2> QED
    BY <2>1, <2>2
<1>4. Held'
  <2>1. \A i \in JobIds : status'[i] = "RUNNING" <=> status[i] = "RUNNING"
    BY <1>1
  <2>2. {i \in JobIds : status'[i] = "RUNNING"} = {i \in JobIds : status[i] = "RUNNING"}
    BY <2>1
  <2> QED
    BY <2>2 DEF Held, SingleFlight, Up
<1>5. BudgetLeft'
  BY <1>1 DEF BudgetLeft, Held
<1>6. VerdictFounded'
  BY <1>1, <1>3 DEF VerdictFounded, RunnerShape
<1>7. SettledForCause'
  BY <1>1 DEF SettledForCause
<1> QED
  BY <1>2, <1>4, <1>5, <1>6, <1>7

(* A claim, whether or not its answer reaches the runner.                  *)
LEMMA ClaimKeepsRows ==
    ASSUME IndInv, NEW i \in JobIds, ClaimNext(i), Up,
           UNCHANGED <<sched, starts, ran>>
    PROVE  RowsFresh' /\ BudgetLeft' /\ SettledForCause' /\ GateHeld'
<1> USE LocalTasksAssumption DEF IndInv, TypeInv, TypeOK, ClaimNext, Claimable
<1>1. RowsFresh'
  BY DEF RowsFresh
<1>2. BudgetLeft'
  BY DEF BudgetLeft, Held
<1>3. SettledForCause'
  BY DEF SettledForCause
<1>4. \A k \in JobIds : status'[k] \in Active <=> status[k] \in Active
  BY DEF Active
<1>5. GateHeld'
  BY <1>4 DEF GateHeld, PeriodicUnique, HasActiveTask
<1> QED
  BY <1>1, <1>2, <1>3, <1>5

(* Settling the job in hand: the row leaves RUNNING, nothing else moves.   *)
LEMMA SettleKeepsInd == ASSUME IndInv, Settle PROVE RowsFresh' /\ Held' /\ BudgetLeft'
                              /\ VerdictFounded' /\ SettledForCause' /\ GateHeld'
<1> USE LocalTasksAssumption DEF IndInv, TypeInv, TypeOK, histVars
<1>1. cur \in JobIds /\ status[cur] = "RUNNING"
  BY DEF Settle, RunnerShape, Held, SingleFlight, Up
<1>2. /\ status' = [status EXCEPT ![cur] = status'[cur]]
      /\ lastError' = [lastError EXCEPT ![cur] = lastError'[cur]]
      /\ status'[cur] \in {"COMPLETED", "RETRY", "FAILED"}
      /\ status'[cur] = "COMPLETED" => verdict = "ok"
      /\ status'[cur] = "RETRY" => attempts[cur] <= MaxRetries[task[cur]]
      /\ status'[cur] = "FAILED" => lastError'[cur] = verdict /\ verdict # "ok" /\ ~MayRetry(cur, verdict)
  BY <1>1 DEF Settle, MarkCompleted, ScheduleRetry, MarkFailed, MayRetry
<1>3. UNCHANGED <<task, attempts, created, sched, starts, ran, orphans>>
      /\ runner' = "polling" /\ cur' = NoJob /\ verdict' = "none" /\ runner = "settling"
  BY DEF Settle
<1>4. RowsFresh'
  BY <1>1, <1>2, <1>3 DEF RowsFresh
<1>5. Held'
  <2>1. /\ {i \in JobIds : status[i] = "RUNNING"} = orphans \cup {cur}
        /\ cur \notin orphans
        /\ starts > 0
    BY <1>1, <1>3 DEF Held, SingleFlight, Up, NoJob, JobIds
  <2>2. \A i \in JobIds : status'[i] = "RUNNING" <=> status[i] = "RUNNING" /\ i # cur
    BY <1>1, <1>2
  <2>3. {i \in JobIds : status'[i] = "RUNNING"} = orphans
    BY <2>1, <2>2
  <2>4. NoJob \notin orphans
    BY DEF NoJob, JobIds
  <2> QED
    BY <1>3, <2>1, <2>3, <2>4 DEF Held, SingleFlight, Up
<1>6. BudgetLeft'
  BY <1>1, <1>2, <1>3 DEF BudgetLeft
<1>7. VerdictFounded'
  BY <1>3 DEF VerdictFounded
<1>8. SettledForCause'
  <2>1. status'[cur] = "COMPLETED" => ran[cur] > 0
    BY <1>2 DEF VerdictFounded
  <2>2. verdict \in {"ok", "error", "timeout", "unknown"}
    BY <1>3 DEF RunnerShape, Verdicts
  <2>3. status'[cur] = "FAILED" =>
              \/ attempts[cur] > MaxRetries[task[cur]]
              \/ lastError'[cur] = "timeout" /\ task[cur] \notin RetryOnTimeout
              \/ task[cur] \notin Registered
    BY <1>1, <1>2, <2>2 DEF MayRetry, VerdictFounded
  <2> QED
    BY <1>1, <1>2, <1>3, <2>1, <2>3 DEF SettledForCause
<1>9. GateHeld'
  <2>1. \A k \in JobIds : status'[k] \in Active => status[k] \in Active
    BY <1>1, <1>2 DEF Active
  <2> QED
    BY <1>3, <2>1 DEF GateHeld, PeriodicUnique, HasActiveTask
<1> QED
  BY <1>4, <1>5, <1>6, <1>7, <1>8, <1>9

(* Startup recovery hands every RUNNING row back to the queue.             *)
LEMMA StartKeepsInd == ASSUME IndInv, Start PROVE RowsFresh' /\ Held' /\ BudgetLeft'
                              /\ VerdictFounded' /\ SettledForCause' /\ GateHeld'
<1> USE LocalTasksAssumption DEF IndInv, TypeInv, TypeOK, Start, RecoverRunning
<1>0. cur = NoJob /\ verdict = "none"
  BY DEF Up, RunnerShape
<1>1. \A i \in JobIds : /\ status'[i] # "RUNNING"
                        /\ status[i] # "RUNNING" => status'[i] = status[i]
                        /\ status[i] = "RUNNING" => status'[i] = "PENDING"
  OBVIOUS
<1>2. RowsFresh'
  BY <1>1 DEF RowsFresh
<1>3. Held'
  BY <1>0, <1>1 DEF Held, SingleFlight, Up, NoJob, JobIds
<1>4. BudgetLeft'
  BY <1>1 DEF BudgetLeft
<1>5. VerdictFounded'
  BY <1>0 DEF VerdictFounded
<1>6. SettledForCause'
  BY <1>1 DEF SettledForCause
<1>7. GateHeld'
  <2>1. \A k \in JobIds : status'[k] \in Active <=> status[k] \in Active
    BY <1>1 DEF Active
  <2> QED
    BY <2>1 DEF GateHeld, PeriodicUnique, HasActiveTask
<1> QED
  BY <1>2, <1>3, <1>4, <1>5, <1>6, <1>7

(* Every action preserves the strengthening.                               *)
LEMMA NextInd == IndInv /\ [Next]_vars => IndInv'
<1> SUFFICES ASSUME IndInv, [Next]_vars PROVE IndInv'
  OBVIOUS
<1> DEFINE Parts == RowsFresh /\ Held /\ BudgetLeft /\ VerdictFounded /\ SettledForCause /\ GateHeld
<1>0. TypeInv'
  BY NextType DEF IndInv
<1> SUFFICES Parts'
  BY <1>0 DEF IndInv
<1> USE DEF rowVars, runnerVars, histVars
<1>1. ASSUME NEW t \in Tasks, Enqueue(t) PROVE Parts'
  <2>1. RowsFresh' /\ Held' /\ BudgetLeft' /\ VerdictFounded' /\ SettledForCause'
    BY <1>1, CreateKeepsRows DEF Enqueue
  <2>2. GateHeld'
    BY <1>1, LocalTasksAssumption
    DEF Enqueue, Create, GateHeld, PeriodicUnique, HasActiveTask, IndInv, TypeInv, TypeOK
  <2> QED
    BY <2>1, <2>2
<1>2. ASSUME NEW t \in Periodic, SchedulerCheck(t) PROVE Parts'
  BY <1>2 DEF SchedulerCheck, IndInv, TypeInv, TypeOK, RowsFresh, Held, SingleFlight, Up,
     BudgetLeft, VerdictFounded, SettledForCause, GateHeld, PeriodicUnique, HasActiveTask
<1>3. ASSUME NEW t \in Periodic, SchedulerCreate(t) PROVE Parts'
  <2>1. Up
    BY <1>3 DEF SchedulerCreate, IndInv, TypeInv, RunnerShape, Up
  <2>2. RowsFresh' /\ Held' /\ BudgetLeft' /\ VerdictFounded' /\ SettledForCause'
    BY <1>3, <2>1, CreateKeepsRows, LocalTasksAssumption DEF SchedulerCreate
  <2>3. GateHeld'
    BY <1>3, LocalTasksAssumption
    DEF SchedulerCreate, Create, GateHeld, PeriodicUnique, HasActiveTask, Active, IndInv, TypeInv, TypeOK
  <2> QED
    BY <2>2, <2>3
<1>4. ASSUME NEW t \in Periodic, SchedulerCreateFails(t) PROVE Parts'
  BY <1>4 DEF SchedulerCreateFails, IndInv, TypeInv, TypeOK, RowsFresh, Held, SingleFlight, Up,
     BudgetLeft, VerdictFounded, SettledForCause, GateHeld, PeriodicUnique, HasActiveTask
<1>5. ASSUME NEW i \in JobIds, Claim(i) PROVE Parts'
  <2>1. RowsFresh' /\ BudgetLeft' /\ SettledForCause' /\ GateHeld'
    BY <1>5, ClaimKeepsRows DEF Claim, Up
  <2>2. Held'
    BY <1>5 DEF Claim, ClaimNext, Claimable, IndInv, TypeInv, TypeOK, Held, SingleFlight, Up,
       RunnerShape, NoJob, JobIds
  <2>3. VerdictFounded'
    BY <1>5 DEF Claim, IndInv, TypeInv, RunnerShape, VerdictFounded
  <2> QED
    BY <2>1, <2>2, <2>3
<1>6. ASSUME NEW v \in Verdicts, HandlerEnds(v) PROVE Parts'
  BY <1>6 DEF HandlerEnds, IndInv, TypeInv, TypeOK, RunnerShape, Verdicts, RowsFresh, Held, SingleFlight, Up,
     BudgetLeft, VerdictFounded, SettledForCause, GateHeld, PeriodicUnique, HasActiveTask
<1>7. CASE Settle
  BY <1>7, SettleKeepsInd
<1>8. ASSUME NEW i \in JobIds, ClaimAnswerLost(i) PROVE Parts'
  <2>1. RowsFresh' /\ BudgetLeft' /\ SettledForCause' /\ GateHeld'
    BY <1>8, ClaimKeepsRows DEF ClaimAnswerLost, Up
  <2>2. Held'
    BY <1>8 DEF ClaimAnswerLost, ClaimNext, Claimable, IndInv, TypeInv, TypeOK, Held, SingleFlight, Up,
       RunnerShape, NoJob, JobIds
  <2>3. VerdictFounded'
    BY <1>8 DEF ClaimAnswerLost, IndInv, TypeInv, RunnerShape, VerdictFounded
  <2> QED
    BY <2>1, <2>2, <2>3
<1>9. CASE SettleFails
  <2>1. Held'
    BY <1>9 DEF SettleFails, IndInv, TypeInv, TypeOK, Held, SingleFlight, Up, RunnerShape, NoJob, JobIds
  <2>2. VerdictFounded'
    BY <1>9 DEF SettleFails, VerdictFounded
  <2> QED
    BY <1>9, <2>1, <2>2 DEF SettleFails, IndInv, RowsFresh, BudgetLeft, SettledForCause, GateHeld,
       PeriodicUnique, HasActiveTask
<1>10. ASSUME NEW i \in JobIds, RetryDelayElapses(i) PROVE Parts'
  BY <1>10 DEF RetryDelayElapses, IndInv, RowsFresh, Held, SingleFlight, Up,
     BudgetLeft, VerdictFounded, SettledForCause, GateHeld, PeriodicUnique, HasActiveTask
<1>11. CASE Start
  BY <1>11, StartKeepsInd
<1>12. CASE StopScheduler
  BY <1>12 DEF StopScheduler, IndInv, RowsFresh, Held, SingleFlight, Up,
     BudgetLeft, VerdictFounded, SettledForCause, GateHeld, PeriodicUnique, HasActiveTask
<1>13. CASE LoseProcess
  BY <1>13 DEF LoseProcess, IndInv, TypeInv, TypeOK, RowsFresh, Held, SingleFlight, Up, NoJob, JobIds,
     BudgetLeft, VerdictFounded, SettledForCause, GateHeld, PeriodicUnique, HasActiveTask
<1>14. CASE UNCHANGED vars
  BY <1>14 DEF vars, IndInv, RowsFresh, Held, SingleFlight, Up,
     BudgetLeft, VerdictFounded, SettledForCause, GateHeld, PeriodicUnique, HasActiveTask
<1> QED
  BY <1>1, <1>2, <1>3, <1>4, <1>5, <1>6, <1>7, <1>8, <1>9, <1>10, <1>11, <1>12,
     <1>13, <1>14 DEF Next, RunnerStep, StopRunner, Crash

(* The strengthening holds in every reachable state.                       *)
THEOREM IndCorrect == Spec => []IndInv
  BY InitInd, NextInd, PTL DEF Spec

(* No attempt runs twice at a time and every RUNNING row is accounted for. *)
THEOREM SingleFlightCorrect == Spec => []SingleFlight
<1>1. IndInv => SingleFlight
  BY DEF IndInv, Held
<1> QED
  BY <1>1, IndCorrect, PTL

(* Only restarts take a job past its retry budget.                         *)
THEOREM AttemptsCorrect == Spec => []AttemptsBounded
<1>1. IndInv => AttemptsBounded
  BY DEF IndInv, BudgetLeft, AttemptsBounded
<1> QED
  BY <1>1, IndCorrect, PTL

(* No job is completed without its work or abandoned before its time.      *)
THEOREM SettledCorrect == Spec => []SettledForCause
<1>1. IndInv => SettledForCause
  BY DEF IndInv
<1> QED
  BY <1>1, IndCorrect, PTL

(* At most one active row per periodic task.                               *)
THEOREM PeriodicCorrect == Spec => []PeriodicUnique
<1>1. IndInv => PeriodicUnique
  BY DEF IndInv, GateHeld
<1> QED
  BY <1>1, IndCorrect, PTL

-----------------------------------------------------------------------------
(* LocalTasks implements JobContract.                                      *)

(* The contract's phase of a row with the given status, and the rows seen  *)
(* through the mapping.                                                    *)
PhaseOf(s) ==
    CASE s = "ABSENT" -> "none"
      [] s \in {"PENDING", "RETRY"} -> "queued"
      [] s = "RUNNING" -> "held"
      [] s = "COMPLETED" -> "finished"
      [] s = "FAILED" -> "abandoned"

Phase == [i \in JobIds |-> PhaseOf(status[i])]

CutShort(error) == error \in {"timeout", "unknown"}

Cut == [i \in JobIds |-> CutShort(lastError[i])]

(* The phase of each status.                                               *)
LEMMA PhaseTable ==
    /\ PhaseOf("ABSENT") = "none"
    /\ PhaseOf("PENDING") = "queued"
    /\ PhaseOf("RETRY") = "queued"
    /\ PhaseOf("RUNNING") = "held"
    /\ PhaseOf("COMPLETED") = "finished"
    /\ PhaseOf("FAILED") = "abandoned"
  BY DEF PhaseOf

(* Only a RUNNING row is held.                                             *)
LEMMA HeldIsRunning ==
    ASSUME NEW s \in LocalJobStatus \cup {"ABSENT"}
    PROVE  PhaseOf(s) = "held" <=> s = "RUNNING"
  BY PhaseTable DEF LocalJobStatus

(* An update of one row's status is an update of that row's phase.         *)
LEMMA PhaseUpdate ==
    ASSUME TypeOK, NEW i \in JobIds, NEW s,
           status' = [status EXCEPT ![i] = s]
    PROVE  Phase' = [Phase EXCEPT ![i] = PhaseOf(s)]
  BY DEF TypeOK, Phase

(* Writing an error to a row changes of Cut only what that row says.       *)
LEMMA CutUpdate ==
    ASSUME TypeOK, NEW i \in JobIds, NEW error,
           lastError' = [lastError EXCEPT ![i] = error]
    PROVE  Cut' = [Cut EXCEPT ![i] = CutShort(error)]
  BY DEF TypeOK, Cut

(* The mapped variables of the instance are these views.                   *)
LEMMA ContractVars ==
    /\ Contract!contractVars = <<Phase, task, attempts, ran, Cut>>
    /\ Contract!contractVars' = <<Phase, task, attempts, ran, Cut>>'
  BY DEF Contract!contractVars, Phase, PhaseOf, Cut, CutShort

(* Inserting a row submits the job.                                        *)
LEMMA SubmitStep ==
    ASSUME IndInv, NEW t \in Tasks, Create(t), UNCHANGED ran
    PROVE  Contract!Next
<1>0. created + 1 \in JobIds
  BY LocalTasksAssumption DEF Create, IndInv, TypeInv, TypeOK, JobIds
<1> PICK i \in JobIds : i = created + 1
  BY <1>0
<1>1. i \in JobIds /\ status[i] = "ABSENT" /\ TypeOK
  BY LocalTasksAssumption DEF Create, IndInv, TypeInv, TypeOK, RowsFresh, JobIds
<1>2. Phase[i] = "none" /\ Phase' = [Phase EXCEPT ![i] = "queued"]
  <2>1. status' = [status EXCEPT ![i] = "PENDING"]
    BY DEF Create
  <2>2. Phase' = [Phase EXCEPT ![i] = PhaseOf("PENDING")]
    BY <1>1, <2>1, PhaseUpdate
  <2> QED
    BY <1>1, <2>2, PhaseTable DEF Phase
<1>3. Cut' = Cut /\ task' = [task EXCEPT ![i] = t] /\ UNCHANGED attempts
  BY DEF Create, Cut
<1>4. Contract!Submit(i)
  BY <1>2, <1>3 DEF Contract!Submit, Phase, PhaseOf, Cut, CutShort
<1> QED
  BY <1>1, <1>4 DEF Contract!Next

(* A claim, heard of or not, takes the job.                                *)
LEMMA TakeStep ==
    ASSUME IndInv, NEW i \in JobIds, ClaimNext(i), UNCHANGED ran
    PROVE  Contract!Next
<1>1. Phase[i] = "queued" /\ Phase' = [Phase EXCEPT ![i] = "held"]
  <2>1. TypeOK /\ status' = [status EXCEPT ![i] = "RUNNING"]
    BY DEF IndInv, TypeInv, ClaimNext
  <2>2. Phase' = [Phase EXCEPT ![i] = PhaseOf("RUNNING")]
    BY <2>1, PhaseUpdate
  <2> QED
    BY <2>2, PhaseTable DEF Phase, ClaimNext, Claimable
<1>2. Cut' = Cut /\ attempts' = [attempts EXCEPT ![i] = @ + 1] /\ UNCHANGED task
  BY DEF ClaimNext, Cut
<1>3. Contract!Take(i)
  BY <1>1, <1>2 DEF Contract!Take, Phase, PhaseOf, Cut, CutShort
<1> QED
  BY <1>3 DEF Contract!Next

(* The job in hand is one the contract calls held.                         *)
LEMMA CurIsHeld ==
    ASSUME IndInv, runner \in {"executing", "settling"}
    PROVE  cur \in JobIds /\ status[cur] = "RUNNING" /\ Phase[cur] = "held"
<1>1. cur \in JobIds /\ status[cur] = "RUNNING"
  BY DEF IndInv, TypeInv, TypeOK, RunnerShape, Held, SingleFlight, Up
<1> QED
  BY <1>1, PhaseTable DEF Phase

(* The end of a handler does the job's work if it returned normally, and   *)
(* is invisible to the contract otherwise.                                 *)
LEMMA WorkStep ==
    ASSUME IndInv, NEW v \in Verdicts, HandlerEnds(v)
    PROVE  Contract!Next \/ UNCHANGED <<Phase, task, attempts, ran, Cut>>
<1>1. cur \in JobIds /\ Phase[cur] = "held"
  BY CurIsHeld DEF HandlerEnds
<1>2. UNCHANGED <<Phase, task, attempts, Cut>>
  BY DEF HandlerEnds, rowVars, Phase, Cut
<1>3. CASE v = "ok"
  <2>1. ran' = [ran EXCEPT ![cur] = @ + 1]
    BY <1>1, <1>3 DEF HandlerEnds, IndInv, TypeInv, TypeOK
  <2>2. Contract!Work(cur)
    BY <1>1, <1>2, <2>1 DEF Contract!Work, Phase, PhaseOf, Cut, CutShort
  <2> QED
    BY <1>1, <2>2 DEF Contract!Next
<1>4. CASE v # "ok"
  BY <1>2, <1>4 DEF HandlerEnds, IndInv, TypeInv, TypeOK
<1> QED
  BY <1>3, <1>4

(* Settling finishes, puts back or abandons the job in hand, each only     *)
(* where the contract allows it.                                           *)
LEMMA SettleStep ==
    ASSUME IndInv, Settle
    PROVE  Contract!Next
<1>0. TypeOK /\ verdict \in Verdicts /\ UNCHANGED <<task, attempts, ran>>
  BY DEF IndInv, TypeInv, TypeOK, RunnerShape, Settle, histVars
<1> PICK i \in JobIds : i = cur
  BY CurIsHeld DEF Settle
<1>1. i \in JobIds /\ Phase[i] = "held"
  BY CurIsHeld DEF Settle
<1>2. CASE verdict = "ok" /\ MarkCompleted(i)
  <2>1. ran[i] > 0
    BY <1>2 DEF IndInv, VerdictFounded
  <2>2. Phase' = [Phase EXCEPT ![i] = "finished"]
    <3>1. status' = [status EXCEPT ![i] = "COMPLETED"]
      BY <1>2 DEF MarkCompleted
    <3>2. Phase' = [Phase EXCEPT ![i] = PhaseOf("COMPLETED")]
      BY <1>0, <1>1, <3>1, PhaseUpdate
    <3> QED
      BY <3>2, PhaseTable
  <2>3. Cut' = [Cut EXCEPT ![i] = FALSE]
    <3>1. lastError' = [lastError EXCEPT ![i] = "none"]
      BY <1>2 DEF MarkCompleted
    <3>2. Cut' = [Cut EXCEPT ![i] = CutShort("none")]
      BY <1>0, <1>1, <3>1, CutUpdate
    <3>3. CutShort("none") = FALSE
      BY DEF CutShort
    <3> QED
      BY <3>2, <3>3
  <2>4. Contract!Finish(i)
    BY <1>0, <1>1, <2>1, <2>2, <2>3 DEF Contract!Finish, Phase, PhaseOf, Cut, CutShort
  <2> QED
    BY <1>1, <2>4 DEF Contract!Next
<1>3. CASE verdict # "ok" /\ MayRetry(i, verdict) /\ ScheduleRetry(i, verdict)
  <2>1. attempts[i] <= MaxRetries[task[i]]
    BY <1>3 DEF MayRetry
  <2>2. Phase' = [Phase EXCEPT ![i] = "queued"]
    <3>1. status' = [status EXCEPT ![i] = "RETRY"]
      BY <1>3 DEF ScheduleRetry
    <3>2. Phase' = [Phase EXCEPT ![i] = PhaseOf("RETRY")]
      BY <1>0, <1>1, <3>1, PhaseUpdate
    <3> QED
      BY <3>2, PhaseTable
  <2>3. Cut' = [Cut EXCEPT ![i] = CutShort(verdict)]
    BY <1>0, <1>1, <1>3, CutUpdate DEF ScheduleRetry
  <2>c. CutShort(verdict) \in BOOLEAN
    BY DEF CutShort
  <2>4. Contract!PutBack(i)
    BY <1>0, <1>1, <2>1, <2>2, <2>3, <2>c DEF Contract!PutBack, Phase, PhaseOf, Cut, CutShort
  <2> QED
    BY <1>1, <2>4 DEF Contract!Next
<1>4. CASE verdict # "ok" /\ ~MayRetry(i, verdict) /\ MarkFailed(i, verdict)
  <2>1. \/ attempts[i] > MaxRetries[task[i]]
        \/ CutShort(verdict) /\ task[i] \in Tasks \ RetryOnTimeout
    <3>1. attempts[i] \in Nat /\ task[i] \in Tasks /\ MaxRetries[task[i]] \in Nat
      BY <1>0, <1>1, LocalTasksAssumption DEF TypeOK
    <3>2. verdict = "unknown" => task[i] \notin RetryOnTimeout
      BY LocalTasksAssumption DEF IndInv, VerdictFounded
    <3> QED
      BY <1>0, <1>4, <3>1, <3>2 DEF MayRetry, Verdicts, CutShort
  <2>2. Phase' = [Phase EXCEPT ![i] = "abandoned"]
    <3>1. status' = [status EXCEPT ![i] = "FAILED"]
      BY <1>4 DEF MarkFailed
    <3>2. Phase' = [Phase EXCEPT ![i] = PhaseOf("FAILED")]
      BY <1>0, <1>1, <3>1, PhaseUpdate
    <3> QED
      BY <3>2, PhaseTable
  <2>3. Cut' = [Cut EXCEPT ![i] = CutShort(verdict)]
    BY <1>0, <1>1, <1>4, CutUpdate DEF MarkFailed
  <2>c. CutShort(verdict) \in BOOLEAN
    BY DEF CutShort
  <2>4. Contract!Abandon(i)
    BY <1>0, <1>1, <2>1, <2>2, <2>3, <2>c DEF Contract!Abandon, Phase, PhaseOf, Cut, CutShort
  <2> QED
    BY <1>1, <2>4 DEF Contract!Next
<1> QED
  BY <1>2, <1>3, <1>4 DEF Settle

(* Startup recovery is the contract's loss of the holder.                  *)
LEMMA LoseHolderStep ==
    ASSUME IndInv, Start
    PROVE  Contract!Next
<1>1. UNCHANGED <<task, attempts, ran, Cut>>
  BY DEF Start, RecoverRunning, Cut
<1>2. Phase' = [i \in JobIds |-> IF Phase[i] = "held" THEN "queued" ELSE Phase[i]]
  <2> SUFFICES ASSUME NEW i \in JobIds
               PROVE  Phase'[i] = IF Phase[i] = "held" THEN "queued" ELSE Phase[i]
    BY DEF Phase
  <2>1. status[i] \in LocalJobStatus \cup {"ABSENT"}
    BY DEF IndInv, TypeInv, TypeOK
  <2>2. Phase[i] = "held" <=> status[i] = "RUNNING"
    BY <2>1, HeldIsRunning DEF Phase
  <2>3. status'[i] = IF status[i] = "RUNNING" THEN "PENDING" ELSE status[i]
    BY DEF Start, RecoverRunning
  <2> QED
    BY <2>2, <2>3, PhaseTable DEF Phase
<1>3. Contract!LoseHolder
  BY <1>1, <1>2 DEF Contract!LoseHolder, Phase, PhaseOf, Cut, CutShort
<1> QED
  BY <1>3 DEF Contract!Next

(* Every step of the queue is a step of its contract or invisible to it.   *)
LEMMA ContractStep == IndInv /\ [Next]_vars => [Contract!Next]_(Contract!contractVars)
<1> DEFINE Seen == <<Phase, task, attempts, ran, Cut>>
<1> SUFFICES ASSUME IndInv, [Next]_vars PROVE Contract!Next \/ UNCHANGED Seen
  BY ContractVars, Zenon
<1> USE DEF rowVars, runnerVars, histVars
<1>1. ASSUME NEW t \in Tasks, Enqueue(t) PROVE Contract!Next
  BY <1>1, SubmitStep DEF Enqueue
<1>2. ASSUME NEW t \in Periodic, SchedulerCreate(t) PROVE Contract!Next
  BY <1>2, SubmitStep, LocalTasksAssumption DEF SchedulerCreate
<1>3. ASSUME NEW i \in JobIds, Claim(i) \/ ClaimAnswerLost(i) PROVE Contract!Next
  BY <1>3, TakeStep DEF Claim, ClaimAnswerLost
<1>4. ASSUME NEW v \in Verdicts, HandlerEnds(v) PROVE Contract!Next \/ UNCHANGED Seen
  BY <1>4, WorkStep
<1>5. CASE Settle
  BY <1>5, SettleStep
<1>6. CASE Start
  BY <1>6, LoseHolderStep
<1>7. ASSUME UNCHANGED <<task, status, attempts, lastError, ran>> PROVE UNCHANGED Seen
  BY <1>7 DEF Phase, Cut
<1>8. ASSUME NEW t \in Periodic, SchedulerCheck(t) \/ SchedulerCreateFails(t) PROVE UNCHANGED Seen
  BY <1>7, <1>8 DEF SchedulerCheck, SchedulerCreateFails
<1>9. ASSUME NEW i \in JobIds, RetryDelayElapses(i) PROVE UNCHANGED Seen
  BY <1>7, <1>9 DEF RetryDelayElapses
<1>10. CASE SettleFails \/ StopScheduler \/ LoseProcess
  BY <1>7, <1>10 DEF SettleFails, StopScheduler, LoseProcess
<1>11. CASE UNCHANGED vars
  BY <1>7, <1>11 DEF vars
<1> QED
  BY <1>1, <1>2, <1>3, <1>4, <1>5, <1>6, <1>8, <1>9, <1>10, <1>11
  DEF Next, RunnerStep, StopRunner, Crash

(* The table, the runner, the scheduler and the restarts together keep     *)
(* what the queue promises, whatever the tasks, their budgets and the      *)
(* number of rows, faults and process starts.                              *)
THEOREM ContractCorrect == Spec => ImplementsContract
<1>1. Init => Contract!Init
  <2> SUFFICES ASSUME Init PROVE Contract!Init
    OBVIOUS
  <2>1. Phase = [i \in JobIds |-> "none"]
    BY PhaseTable DEF Init, Phase
  <2>2. Cut = [i \in JobIds |-> FALSE]
    <3>1. CutShort("none") = FALSE
      BY DEF CutShort
    <3>2. Cut = [i \in JobIds |-> CutShort("none")]
      BY DEF Init, Cut
    <3> QED
      BY <3>1, <3>2
  <2>3. task \in [JobIds -> Tasks]
    BY InitType DEF TypeInv, TypeOK
  <2> QED
    BY <2>1, <2>2, <2>3 DEF Init, Contract!Init, Phase, PhaseOf, Cut, CutShort
<1> QED
  BY <1>1, ContractStep, IndCorrect, PTL DEF Spec, ImplementsContract, Contract!Spec

=============================================================================
