--------------------------- MODULE MonitorsProofs ---------------------------
(***************************************************************************)
(* Proofs about Monitors, for any set of monitors, with and without        *)
(* only_if_changed, and any number of queued jobs and faults.              *)
(***************************************************************************)
EXTENDS Monitors, TLAPS

Working == {"read", "spawn", "commit", "dispatch"}

(* What the tick has read or moved is kept while it is at work, and the    *)
(* runner holds a monitor with a job exactly while it works on that job.   *)
RunnerShape ==
    /\ picked # {} => pc = "tick"
    /\ todo # {} => pc = "enqueue"
    /\ pc \in Working <=> cur # NoMonitor
    /\ \A m \in Monitors : cur = m => jobs[m] > 0

(* A monitor that is not there has no schedule, and a request that will    *)
(* write one holds the monitor's row.                                      *)
GoneUnscheduled ==
    /\ \A m \in Monitors : ~Exists(m) => next[m] = "none"
    /\ \A m \in Monitors : req = m /\ ~committed => Exists(m)
    /\ committed => req # NoMonitor

\* m is due, or the tick is about to move it or to enqueue its job
Coming(m) == m \in todo \/ m \in picked \/ next[m] = "due"

\* the next occurrence has come before the last one was enqueued
Twice(m) == m \in todo /\ next[m] = "due"

(* An occurrence that the tick will enqueue has come, and was not enqueued *)
(* before.                                                                 *)
Accounted ==
    \A m \in Monitors :
        /\ Coming(m) => reached[m] >= 1
        /\ Twice(m) => reached[m] >= 2

(* The instance has room for the jobs that are about to be queued.         *)
Room ==
    \A m \in Monitors :
        /\ Coming(m) => jobs[m] + 1 <= MaxQueued
        /\ Twice(m) => jobs[m] + 2 <= MaxQueued

IndInv ==
    /\ TypeOK
    /\ RunnerShape
    /\ GoneUnscheduled
    /\ Accounted
    /\ Room
    /\ ActiveIsScheduled

-----------------------------------------------------------------------------

(* Before any monitor is created the invariant holds.                      *)
LEMMA InitInv == Init => IndInv
<1> SUFFICES ASSUME Init PROVE IndInv
  OBVIOUS
<1>1. TypeOK
  <2>1. committed \in BOOLEAN /\ stored \in BOOLEAN
    BY DEF Init
  <2> QED
    BY <2>1, MonitorsAssumption DEF Init, TypeOK
<1>2. RunnerShape
  BY MonitorsAssumption DEF Init, RunnerShape, Working
<1>3. GoneUnscheduled /\ ActiveIsScheduled
  BY MonitorsAssumption DEF Init, GoneUnscheduled, ActiveIsScheduled, Exists
<1>4. Accounted /\ Room
  BY DEF Init, Accounted, Room, Coming, Twice
<1> QED
  BY <1>1, <1>2, <1>3, <1>4 DEF IndInv

(* A request that sets status and schedule together keeps the invariant if *)
(* it leaves an ACTIVE monitor scheduled and one that is gone unscheduled. *)
LEMMA SetMonitorInv ==
    ASSUME IndInv, NEW m \in Monitors,
           NEW s \in MonitorStatus \cup {"DELETED"},
           NEW n \in {"none", "later"},
           SetMonitor(m, s, n),
           s = "ACTIVE" => n # "none",
           s = "DELETED" => n = "none" /\ ~(req = m /\ ~committed)
    PROVE  IndInv'
<1> USE DEF IndInv, SetMonitor, dataVars, reqVars, runnerVars, MonitorStatus
<1>1. TypeOK'
  BY DEF TypeOK
<1>2. RunnerShape'
  BY DEF RunnerShape
<1>3. GoneUnscheduled'
  BY DEF GoneUnscheduled, Exists, TypeOK
<1>4. \A k \in Monitors : /\ Coming(k)' => Coming(k)
                          /\ Twice(k)' => Twice(k)
  BY DEF Coming, Twice, TypeOK
<1>5. Accounted' /\ Room'
  BY <1>4 DEF Accounted, Room
<1>6. ActiveIsScheduled'
  BY DEF ActiveIsScheduled, TypeOK
<1> QED
  BY <1>1, <1>2, <1>3, <1>5, <1>6

(* The occurrence that comes finds room, and is counted beside the one the *)
(* tick may still have in hand.                                            *)
LEMMA ElapseInv == ASSUME IndInv, NEW m \in Monitors, Elapse(m) PROVE IndInv'
<1> USE MonitorsAssumption DEF IndInv, Elapse, dataVars, reqVars, runnerVars
<1>1. jobs[m] \in Nat /\ reached[m] \in Nat /\ reached[m] <= MaxQueued /\ jobs[m] < MaxQueued
  BY DEF TypeOK
<1>2. TypeOK'
  BY <1>1 DEF TypeOK
<1>3. RunnerShape' /\ GoneUnscheduled' /\ ActiveIsScheduled'
  BY DEF RunnerShape, GoneUnscheduled, ActiveIsScheduled, Exists, TypeOK
<1>4. \A k \in Monitors \ {m} : /\ Coming(k)' <=> Coming(k)
                                /\ Twice(k)' <=> Twice(k)
                                /\ reached'[k] = reached[k] /\ jobs'[k] = jobs[k]
  BY DEF Coming, Twice, TypeOK
<1>5. reached'[m] >= 1 /\ jobs'[m] + 1 <= MaxQueued
  BY <1>1 DEF TypeOK
<1>6. Twice(m)' => reached'[m] >= 2 /\ jobs'[m] + 2 <= MaxQueued
  <2> SUFFICES ASSUME m \in todo PROVE reached'[m] >= 2 /\ jobs'[m] + 2 <= MaxQueued
    BY DEF Twice
  <2>1. reached[m] >= 1
    BY DEF Accounted, Coming
  <2>2. jobs[m] + 1 < MaxQueued
    OBVIOUS
  <2> QED
    BY <1>1, <2>1, <2>2 DEF TypeOK
<1>7. Accounted' /\ Room'
  BY <1>4, <1>5, <1>6 DEF Accounted, Room
<1> QED
  BY <1>2, <1>3, <1>7

(* Reading, moving and enqueueing by the tick, whatever has become of the  *)
(* monitors in between; none of it disturbs who is scheduled.              *)
LEMMA TickInv ==
    ASSUME IndInv,
           TickRead \/ TickReschedule \/ TickFails \/ \E m \in Monitors : TickEnqueue(m)
    PROVE  IndInv'
<1> USE MonitorsAssumption DEF IndInv, dataVars, reqVars
<1>1. CASE TickRead
  <2>1. TypeOK' /\ RunnerShape' /\ GoneUnscheduled' /\ ActiveIsScheduled'
    BY <1>1 DEF TickRead, TypeOK, RunnerShape, GoneUnscheduled, ActiveIsScheduled, Exists, Working
  <2>2. \A k \in Monitors : (Coming(k)' => Coming(k)) /\ (Twice(k)' => Twice(k))
    BY <1>1 DEF TickRead, Coming, Twice, Due
  <2>3. Accounted' /\ Room'
    BY <1>1, <2>2 DEF TickRead, Accounted, Room
  <2> QED
    BY <2>1, <2>3
<1>2. CASE TickReschedule
  <2>1. TypeOK' /\ RunnerShape'
    BY <1>2 DEF TickReschedule, TypeOK, RunnerShape, Working
  <2>2. GoneUnscheduled' /\ ActiveIsScheduled'
    BY <1>2 DEF TickReschedule, GoneUnscheduled, ActiveIsScheduled, Exists, TypeOK
  <2>3. \A k \in Monitors : Coming(k)' => Coming(k)
    BY <1>2 DEF TickReschedule, Coming, TypeOK
  <2>4. \A k \in Monitors : ~Twice(k)'
    BY <1>2 DEF TickReschedule, Twice, GoneUnscheduled, TypeOK
  <2>5. Accounted' /\ Room'
    BY <1>2, <2>3, <2>4 DEF TickReschedule, Accounted, Room
  <2> QED
    BY <2>1, <2>2, <2>5
<1>3. CASE TickFails
  <2>1. TypeOK' /\ RunnerShape' /\ GoneUnscheduled' /\ ActiveIsScheduled'
    BY <1>3 DEF TickFails, TypeOK, RunnerShape, GoneUnscheduled, ActiveIsScheduled, Exists, Working
  <2>2. \A k \in Monitors : (Coming(k)' => Coming(k)) /\ ~Twice(k)'
    BY <1>3 DEF TickFails, Coming, Twice
  <2>3. Accounted' /\ Room'
    BY <1>3, <2>2 DEF TickFails, Accounted, Room
  <2> QED
    BY <2>1, <2>3
<1>4. ASSUME NEW m \in Monitors, TickEnqueue(m) PROVE IndInv'
  <2> USE <1>4 DEF TickEnqueue
  <2>1. /\ jobs[m] \in Nat /\ jobs[m] + 1 <= MaxQueued
        /\ reached[m] \in Nat /\ reached[m] >= 1 /\ reached[m] <= MaxQueued
    BY DEF TypeOK, Room, Accounted, Coming
  <2>2. TypeOK'
    BY <2>1 DEF TypeOK
  <2>3. RunnerShape' /\ GoneUnscheduled' /\ ActiveIsScheduled'
    BY <2>1 DEF TypeOK, RunnerShape, GoneUnscheduled, ActiveIsScheduled, Exists, Working
  <2>4. \A k \in Monitors \ {m} : /\ Coming(k)' => Coming(k)
                                  /\ Twice(k)' => Twice(k)
                                  /\ reached'[k] = reached[k] /\ jobs'[k] = jobs[k]
    BY DEF Coming, Twice, TypeOK
  <2>5. ~Twice(m)' /\ (Coming(m)' => Twice(m))
    BY DEF Coming, Twice, RunnerShape
  <2>6. /\ reached'[m] = reached[m] - 1
        /\ jobs'[m] = jobs[m] + 1
    BY <2>1 DEF TypeOK
  <2>7. Coming(m)' => reached'[m] >= 1 /\ jobs'[m] + 1 <= MaxQueued
    BY <2>1, <2>5, <2>6 DEF Accounted, Room
  <2>8. Accounted' /\ Room'
    BY <2>4, <2>5, <2>7 DEF Accounted, Room
  <2> QED
    BY <2>2, <2>3, <2>8
<1> QED
  BY <1>1, <1>2, <1>3, <1>4

(* Resolving, covering and handing over keep the types of the data.        *)
DataTypes ==
    /\ ran \subseteq OnlyIfChanged
    /\ fresh \subseteq Monitors
    /\ stored \in BOOLEAN
    /\ inRun \subseteq Monitors
    /\ holding \subseteq Spawners
    /\ newer \subseteq Spawners

LEMMA ResolveTypes ==
    ASSUME TypeOK, NEW m \in Monitors, NEW a \in Spawners, Resolve(m, a)
    PROVE  DataTypes'
  BY DEF TypeOK, DataTypes, Resolve

LEMMA CoveredTypes ==
    ASSUME TypeOK, NEW m \in Monitors, NEW a \in Spawners, Covered(m, a)
    PROVE  DataTypes'
  BY MonitorsAssumption DEF TypeOK, DataTypes, Covered

LEMMA HandOverTypes ==
    ASSUME TypeOK, NEW m \in Monitors, NEW a \in Spawners, NEW e \in BOOLEAN, HandOver(m, a, e)
    PROVE  DataTypes'
  BY DEF TypeOK, DataTypes, HandOver

(* The job of a monitor leaves schedules alone; jobs only become fewer.    *)
LEMMA ProcessInv ==
    ASSUME IndInv,
           \/ \E m \in Monitors : StartProcess(m)
           \/ ProcessSkips \/ ProcessGoesOn \/ SpawnRun \/ SpawnRefused \/ CommitRun \/ DispatchRun
           \/ ProcessFails \/ DispatchFails
    PROVE  IndInv'
<1> USE MonitorsAssumption DEF IndInv, dataVars, reqVars
<1>1. CASE \E m \in Monitors : StartProcess(m)
  BY <1>1 DEF StartProcess, TypeOK, RunnerShape, GoneUnscheduled, ActiveIsScheduled, Exists,
              Accounted, Room, Coming, Twice, Working
<1>2. CASE ProcessGoesOn \/ SpawnRun \/ CommitRun
  <2>1. /\ pc \in Working /\ pc' \in {"spawn", "commit", "dispatch"}
        /\ DataTypes'
        /\ UNCHANGED <<status, next, jobs, picked, todo, cur, req, committed, reached, faults>>
    <3>1. cur \in Monitors
      BY <1>2 DEF ProcessGoesOn, SpawnRun, CommitRun, TypeOK, RunnerShape, Working
    <3>2. DataTypes'
      BY <1>2, <3>1, ResolveTypes, CoveredTypes
      DEF ProcessGoesOn, SpawnRun, CommitRun, TypeOK, DataTypes, Spawners
    <3> QED
      BY <1>2, <3>2 DEF ProcessGoesOn, SpawnRun, CommitRun, Resolve, Covered, Working
  <2> QED
    BY <2>1 DEF TypeOK, DataTypes, RunnerShape, GoneUnscheduled, ActiveIsScheduled, Exists,
                Accounted, Room, Coming, Twice, Working
<1>3. CASE ProcessSkips \/ DispatchRun \/ SpawnRefused \/ ProcessFails \/ DispatchFails
  <2>1. PICK left \in {jobs[cur], jobs[cur] - 1} : EndProcess(left)
    BY <1>3 DEF ProcessSkips, DispatchRun, SpawnRefused, ProcessFails, DispatchFails
  <2>2. /\ pc \in Working /\ faults' \in 0..MaxFaults
        /\ UNCHANGED <<status, next, picked, todo, req, committed, reached>>
    <3>1. /\ pc \in Working
          /\ UNCHANGED <<status, next, picked, todo, req, committed, reached>>
      BY <1>3 DEF ProcessSkips, DispatchRun, SpawnRefused, ProcessFails, DispatchFails, Working
    <3>2. UNCHANGED faults \/ (faults < MaxFaults /\ faults' = faults + 1)
      BY <1>3, Zenon DEF ProcessSkips, DispatchRun, SpawnRefused, ProcessFails, DispatchFails
    <3> QED
      BY <3>1, <3>2 DEF TypeOK
  <2>3. cur \in Monitors /\ jobs[cur] \in 1..MaxQueued
    BY <2>2 DEF RunnerShape, TypeOK
  <2>4. DataTypes'
    <3>1. \/ UNCHANGED dataVars
          \/ \E enqueued \in BOOLEAN : HandOver(cur, "job", enqueued)
      BY <1>3 DEF ProcessSkips, DispatchRun, SpawnRefused, ProcessFails, DispatchFails
    <3> QED
      <4>1. CASE UNCHANGED dataVars
        BY <4>1 DEF TypeOK, DataTypes
      <4>2. CASE \E enqueued \in BOOLEAN : HandOver(cur, "job", enqueued)
        BY <4>2, <2>3, HandOverTypes DEF Spawners
      <4> QED
        BY <3>1, <4>1, <4>2
  <2>5. jobs' \in [Monitors -> 0..MaxQueued] /\ \A m \in Monitors : jobs'[m] <= jobs[m]
    BY <2>1, <2>3 DEF EndProcess, TypeOK
  <2>6. TypeOK'
    <3>1. cur' = NoMonitor /\ pc' = "idle"
      BY <2>1 DEF EndProcess
    <3> QED
      BY <2>2, <2>4, <2>5, <3>1 DEF TypeOK, DataTypes
  <2>7. picked = {} /\ todo = {}
    BY <2>2 DEF RunnerShape, Working
  <2>8. RunnerShape'
    BY <2>1, <2>2, <2>7 DEF EndProcess, RunnerShape, Working
  <2>9. GoneUnscheduled' /\ ActiveIsScheduled' /\ Accounted'
    BY <2>2 DEF GoneUnscheduled, ActiveIsScheduled, Exists, Accounted, Coming, Twice
  <2>10. Room'
    BY <2>2, <2>5 DEF Room, Coming, Twice, TypeOK
  <2> QED
    BY <2>6, <2>8, <2>9, <2>10
<1> QED
  BY <1>1, <1>2, <1>3

(* Every step keeps the invariant.                                         *)
LEMMA NextInv == IndInv /\ [Next]_vars => IndInv'
<1> SUFFICES ASSUME IndInv, [Next]_vars PROVE IndInv'
  OBVIOUS
<1>1. ASSUME NEW m \in Monitors,
             \/ CreateMonitor(m) \/ PauseMonitor(m) \/ ResumeMonitor(m)
             \/ UpdateCadence(m) \/ DeleteMonitor(m)
      PROVE  IndInv'
  <2>1. PICK s \in MonitorStatus \cup {"DELETED"}, n \in {"none", "later"} :
           /\ SetMonitor(m, s, n)
           /\ s = "ACTIVE" => n # "none"
           /\ s = "DELETED" => n = "none" /\ ~(req = m /\ ~committed)
    BY <1>1 DEF CreateMonitor, PauseMonitor, ResumeMonitor, UpdateCadence, DeleteMonitor,
                Exists, MonitorStatus
  <2> QED
    BY <2>1, SetMonitorInv
<1>2. ASSUME NEW m \in Monitors, PrepareTrigger(m) PROVE IndInv'
  <2>1. DataTypes'
    BY <1>2, ResolveTypes DEF IndInv, PrepareTrigger, Spawners
  <2> QED
    BY <1>2, <2>1
    DEF IndInv, PrepareTrigger, Resolve, runnerVars, TypeOK, DataTypes, RunnerShape, GoneUnscheduled,
        ActiveIsScheduled, Exists, Accounted, Room, Coming, Twice
<1>3. ASSUME NEW m \in Monitors, Elapse(m) PROVE IndInv'
  BY <1>3, ElapseInv
<1>4. CASE CommitTrigger
  <2> USE <1>4, MonitorsAssumption DEF IndInv, CommitTrigger, runnerVars
  <2>1. req \in Monitors /\ Exists(req)
    BY DEF TypeOK, GoneUnscheduled
  <2>2. DataTypes'
    BY <2>1, CoveredTypes DEF Spawners
  <2>3. TypeOK' /\ RunnerShape'
    BY <2>1, <2>2 DEF TypeOK, DataTypes, RunnerShape
  <2>4. GoneUnscheduled' /\ ActiveIsScheduled'
    BY <2>1 DEF GoneUnscheduled, ActiveIsScheduled, Exists, TypeOK
  <2>5. \A k \in Monitors : (Coming(k)' => Coming(k)) /\ (Twice(k)' => Twice(k))
    BY <2>1 DEF Coming, Twice, TypeOK
  <2>6. Accounted' /\ Room'
    BY <2>5 DEF Accounted, Room
  <2> QED
    BY <2>3, <2>4, <2>6
<1>5. CASE DispatchTrigger \/ TriggerFails \/ TriggerIsLost
  <2>1. req \in Monitors
    BY <1>5 DEF IndInv, TypeOK, GoneUnscheduled, DispatchTrigger, TriggerFails, TriggerIsLost
  <2>2. PICK enqueued \in BOOLEAN : HandOver(req, "request", enqueued)
    BY <1>5 DEF DispatchTrigger, TriggerFails, TriggerIsLost
  <2>3. DataTypes'
    BY <2>1, <2>2, HandOverTypes DEF IndInv, Spawners
  <2>4. /\ UNCHANGED <<status, next, jobs, picked, todo, pc, cur, reached>>
        /\ req' = NoMonitor /\ committed' = FALSE
    BY <1>5, Zenon DEF DispatchTrigger, TriggerFails, TriggerIsLost, EndRequest, runnerVars
  <2>5. UNCHANGED faults \/ (faults < MaxFaults /\ faults' = faults + 1)
    BY <1>5, Zenon DEF DispatchTrigger, TriggerFails, TriggerIsLost
  <2>6. faults' \in 0..MaxFaults
    BY <2>5, MonitorsAssumption DEF IndInv, TypeOK
  <2> QED
    BY <2>3, <2>4, <2>6, MonitorsAssumption
    DEF IndInv, TypeOK, DataTypes, RunnerShape, GoneUnscheduled, ActiveIsScheduled, Exists,
        Accounted, Room, Coming, Twice
<1>6. ASSUME NEW m \in Monitors, TraceArrives(m) PROVE IndInv'
  BY <1>6
  DEF IndInv, TraceArrives, Resolved, runnerVars, reqVars, TypeOK, RunnerShape, GoneUnscheduled,
      ActiveIsScheduled, Exists, Accounted, Room, Coming, Twice
<1>7. CASE RunnerStep \/ TickFails \/ ProcessFails \/ DispatchFails
  BY <1>7, TickInv, ProcessInv DEF RunnerStep
<1>8. CASE UNCHANGED vars
  BY <1>8
  DEF IndInv, vars, runnerVars, reqVars, dataVars, TypeOK, RunnerShape, GoneUnscheduled, ActiveIsScheduled,
      Exists, Accounted, Room, Coming, Twice
<1> QED
  BY <1>1, <1>2, <1>3, <1>4, <1>5, <1>6, <1>7, <1>8 DEF Next

-----------------------------------------------------------------------------

(* The invariant holds always.                                             *)
LEMMA InvCorrect == Spec => []IndInv
  BY InitInv, NextInv, PTL DEF Spec

(* The rows of the monitors, the runner and the requests keep their types; *)
(* no more jobs are queued than there is room for.                         *)
THEOREM TypeCorrect == Spec => []TypeOK
<1>1. IndInv => TypeOK
  BY DEF IndInv
<1> QED
  BY <1>1, InvCorrect, PTL

(* However requests and the tick's blind writes overlap (eval_service.py,  *)
(* handlers.py), a monitor that is ACTIVE has a next run.                  *)
THEOREM ScheduledCorrect == Spec => []ActiveIsScheduled
<1>1. IndInv => ActiveIsScheduled
  BY DEF IndInv
<1> QED
  BY <1>1, InvCorrect, PTL

(* Only the tick adds a job, and it has an occurrence for it.              *)
LEMMA EnqueueHasCause ==
    IndInv /\ [Next]_vars => [\A m \in Monitors : jobs'[m] > jobs[m] => reached[m] > 0]_vars
<1> SUFFICES ASSUME IndInv, Next, NEW m \in Monitors, jobs'[m] > jobs[m]
             PROVE  reached[m] > 0
  OBVIOUS
<1>1. jobs \in [Monitors -> Nat] /\ reached \in [Monitors -> Nat]
  BY MonitorsAssumption DEF IndInv, TypeOK
<1>2. jobs' # jobs
  BY <1>1
<1>3. CASE \E k \in Monitors : TickEnqueue(k)
  <2>1. PICK k \in Monitors : TickEnqueue(k)
    BY <1>3
  <2>2. k = m
    BY <1>1, <2>1 DEF TickEnqueue
  <2> QED
    BY <1>1, <2>1, <2>2 DEF TickEnqueue, IndInv, Accounted, Coming
<1>4. CASE ProcessSkips \/ DispatchRun \/ SpawnRefused \/ ProcessFails \/ DispatchFails
  <2>1. PICK left \in {jobs[cur], jobs[cur] - 1} : jobs' = [jobs EXCEPT ![cur] = left]
    BY <1>4 DEF ProcessSkips, DispatchRun, SpawnRefused, ProcessFails, DispatchFails, EndProcess
  <2> QED
    BY <1>1, <2>1
<1> QED
  BY <1>2, <1>3, <1>4
  DEF Next, RunnerStep, CreateMonitor, PauseMonitor, ResumeMonitor, UpdateCadence, DeleteMonitor,
      SetMonitor, PrepareTrigger, Elapse, CommitTrigger, DispatchTrigger, TriggerFails, TriggerIsLost,
      TraceArrives, TickRead,
      TickReschedule, TickFails, StartProcess, ProcessGoesOn, SpawnRun, CommitRun, vars, runnerVars

(* For any number of monitors and faults, no occurrence of a schedule is   *)
(* enqueued twice, whatever the tick has left undone.                      *)
THEOREM EnqueuedOnceCorrect == Spec => EnqueuedOnce
<1> QED
  BY InvCorrect, EnqueueHasCause, PTL DEF Spec, EnqueuedOnce

=============================================================================
