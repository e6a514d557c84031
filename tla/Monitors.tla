------------------------------ MODULE Monitors ------------------------------
(***************************************************************************)
(* Evaluation monitors: the periodic tick that finds due monitors, moves   *)
(* their schedule and then enqueues one job for each; the job that decides *)
(* whether there is anything new and spawns a run; and the requests that   *)
(* create, update, pause, resume, trigger and delete monitors meanwhile.   *)
(*                                                                         *)
(* Times are kept as what the code compares: next_run_at is unset, ahead   *)
(* or reached; a trace is newer than last_run_at or not.  The runner works *)
(* on one job at a time (LocalTasks), so tick and job share one place.     *)
(*                                                                         *)
(* A run takes every trace that matches its filters, old and new, when its *)
(* targets are resolved.  So one trace, any one that matches, is followed  *)
(* from its arrival to the runs that are dispatched with it; of all others *)
(* only counts whether one is newer than last_run_at.  Monitors that       *)
(* sample (sampling_rate below 1) are left out.                            *)
(***************************************************************************)
EXTENDS Naturals

CONSTANTS
    Monitors,       \* monitor identifiers
    OnlyIfChanged,  \* the monitors with that flag
    MaxQueued,      \* bound on the jobs of a monitor that are queued or about to be
    MaxFaults       \* bound on exceptions and process losses

NoMonitor == "no monitor"

ASSUME MonitorsAssumption ==
    /\ NoMonitor \notin Monitors
    /\ OnlyIfChanged \subseteq Monitors
    /\ MaxQueued \in Nat
    /\ MaxFaults \in Nat

VARIABLES
    status,    \* eval_monitors.status, ABSENT before creation, DELETED after
    next,      \* next_run_at: none, later (in the future) or due (reached)
    ran,       \* of OnlyIfChanged, the monitors whose last_run_at is set
    fresh,     \* of ran, those with a trace that started after last_run_at
    stored,    \* history: the trace that is followed is stored
    inRun,     \* history: monitors that dispatched a run with it
    holding,   \* of job and request, those whose resolved targets contain it
    newer,     \* of job and request, those after whose "now" a trace has started
    jobs,      \* queued process_single_monitor jobs of each monitor
    picked,    \* monitors the tick has read as due
    todo,      \* monitors the tick has rescheduled and not yet enqueued
    pc, cur,   \* what the runner does, and for which monitor
    req,       \* the monitor that a trigger request has resolved targets for
    committed, \* that request has committed its run
    reached,   \* history: how many occurrences of its schedule are not yet enqueued
    faults

runnerVars == <<picked, todo, pc, cur>>
reqVars == <<req, committed>>
dataVars == <<ran, fresh, stored, inRun, holding, newer>>
vars == <<status, next, dataVars, jobs, runnerVars, reqVars, reached, faults>>

Spawners == {"job", "request"}

MonitorStatus == {"ACTIVE", "PAUSED"}
Exists(m) == status[m] \in MonitorStatus

(* The one type invariant of the module.                                   *)
TypeOK ==
    /\ status \in [Monitors -> MonitorStatus \cup {"ABSENT", "DELETED"}]
    /\ next \in [Monitors -> {"none", "later", "due"}]
    /\ ran \subseteq OnlyIfChanged
    /\ fresh \subseteq Monitors
    /\ stored \in BOOLEAN
    /\ inRun \subseteq Monitors
    /\ holding \subseteq Spawners
    /\ newer \subseteq Spawners
    /\ jobs \in [Monitors -> 0..MaxQueued]
    /\ picked \subseteq Monitors
    /\ todo \subseteq Monitors
    /\ pc \in {"idle", "tick", "enqueue", "read", "spawn", "commit", "dispatch"}
    /\ cur \in Monitors \cup {NoMonitor}
    /\ req \in Monitors \cup {NoMonitor}
    /\ committed \in BOOLEAN
    /\ reached \in [Monitors -> 0..MaxQueued]
    /\ faults \in 0..MaxFaults

Init ==
    /\ status = [m \in Monitors |-> "ABSENT"]
    /\ next = [m \in Monitors |-> "none"]
    /\ ran = {}
    /\ fresh = {}
    /\ stored = FALSE
    /\ inRun = {}
    /\ holding = {}
    /\ newer = {}
    /\ jobs = [m \in Monitors |-> 0]
    /\ picked = {}
    /\ todo = {}
    /\ pc = "idle"
    /\ cur = NoMonitor
    /\ req = NoMonitor
    /\ committed = FALSE
    /\ reached = [m \in Monitors |-> 0]
    /\ faults = 0

-----------------------------------------------------------------------------
(* The data a run takes *)

(* _resolve_trace_ids: the targets of a run are all that is stored.        *)
Resolve(m, spawner) ==
    /\ holding' = IF stored /\ m \notin inRun THEN holding \cup {spawner}
                  ELSE holding \ {spawner}
    /\ newer' = newer \ {spawner}
    /\ UNCHANGED <<ran, fresh, stored, inRun>>

(* advance_monitor: last_run_at is the spawner's now, a moment after its   *)
(* targets were resolved.                                                  *)
Covered(m, spawner) ==
    /\ ran' = ran \cup ({m} \cap OnlyIfChanged)
    /\ fresh' = IF spawner \in newer THEN fresh \cup {m} ELSE fresh \ {m}
    /\ UNCHANGED <<stored, inRun, holding, newer>>

(* The spawner is done with its run: it was enqueued, or it was not.       *)
HandOver(m, spawner, enqueued) ==
    /\ inRun' = IF enqueued /\ spawner \in holding THEN inRun \cup {m} ELSE inRun
    /\ holding' = holding \ {spawner}
    /\ newer' = newer \ {spawner}
    /\ UNCHANGED <<ran, fresh, stored>>

-----------------------------------------------------------------------------
(* Requests *)

SetMonitor(m, s, n) ==
    /\ status' = [status EXCEPT ![m] = s]
    /\ next' = [next EXCEPT ![m] = n]
    /\ UNCHANGED <<dataVars, jobs, runnerVars, reqVars, reached, faults>>

CreateMonitor(m) == status[m] = "ABSENT" /\ SetMonitor(m, "ACTIVE", "later")

PauseMonitor(m) == status[m] = "ACTIVE" /\ SetMonitor(m, "PAUSED", "none")

(* Mutant: resuming does not compute the next run.                         *)
ResumeUnscheduled(m) == status[m] = "PAUSED" /\ SetMonitor(m, "ACTIVE", next[m])

ResumeMonitor(m) == status[m] = "PAUSED" /\ SetMonitor(m, "ACTIVE", "later")

(* update_monitor with a cadence: paused or not, a next run is computed.   *)
UpdateCadence(m) == Exists(m) /\ SetMonitor(m, status[m], "later")

(* A run row that refers to the monitor and is not committed blocks the    *)
(* deletion until it is.                                                   *)
DeleteMonitor(m) ==
    /\ Exists(m)
    /\ ~(pc = "commit" /\ cur = m)
    /\ ~(req = m /\ ~committed)
    /\ SetMonitor(m, "DELETED", "none")

(* prepare_trigger_monitor: targets are resolved and the run is inserted.  *)
PrepareTrigger(m) ==
    /\ Exists(m)
    /\ req = NoMonitor
    /\ req' = m
    /\ Resolve(m, "request")
    /\ UNCHANGED <<status, next, jobs, runnerVars, committed, reached, faults>>

(* The charge, advance_monitor with a next run, and the commit.            *)
CommitTrigger ==
    /\ req # NoMonitor
    /\ ~committed
    /\ committed' = TRUE
    /\ next' = [next EXCEPT ![req] = "later"]
    /\ Covered(req, "request")
    /\ UNCHANGED <<status, jobs, runnerVars, req, reached, faults>>

EndRequest ==
    /\ req' = NoMonitor
    /\ committed' = FALSE

(* _dispatch_monitor_run, which enqueues the run.                          *)
DispatchTrigger ==
    /\ committed
    /\ HandOver(req, "request", TRUE)
    /\ EndRequest
    /\ UNCHANGED <<status, next, jobs, runnerVars, reached, faults>>

(* The request fails before its commit: no targets, or no quota.           *)
TriggerFails ==
    /\ req # NoMonitor
    /\ ~committed
    /\ HandOver(req, "request", FALSE)
    /\ EndRequest
    /\ UNCHANGED <<status, next, jobs, runnerVars, reached, faults>>

(* It fails after its commit: the run stays PENDING and has no job, though *)
(* last_run_at has moved.                                                  *)
TriggerIsLost ==
    /\ committed
    /\ faults < MaxFaults
    /\ faults' = faults + 1
    /\ HandOver(req, "request", FALSE)
    /\ EndRequest
    /\ UNCHANGED <<status, next, jobs, runnerVars, reached>>

-----------------------------------------------------------------------------
(* Time and data *)

(* The time of the next run comes.  The bound: not while as many jobs of   *)
(* the monitor are outstanding as the instance has room for.               *)
Elapse(m) ==
    /\ next[m] = "later"
    /\ jobs[m] + (IF m \in todo THEN 1 ELSE 0) < MaxQueued
    /\ next' = [next EXCEPT ![m] = "due"]
    /\ reached' = [reached EXCEPT ![m] = IF @ < MaxQueued THEN @ + 1 ELSE @]
    /\ UNCHANGED <<status, dataVars, jobs, runnerVars, reqVars, faults>>

(* The spawners that have resolved their targets for m.                    *)
Resolved(m) ==
    {a \in Spawners : (a = "job" /\ cur = m /\ pc \in {"commit", "dispatch"})
                       \/ (a = "request" /\ req = m)}

(* A trace is stored that matches the filters of m, the one that is        *)
(* followed or another.  Its started_at is the client's: it may lie after  *)
(* last_run_at or, stored late, before, and after the now of a spawner or  *)
(* not; should_skip_monitor sees no more of it.                            *)
TraceArrives(m) ==
    /\ \E recent \in BOOLEAN, S \in SUBSET Resolved(m) :
          /\ recent => m \in OnlyIfChanged
          /\ S # {} => recent
          /\ fresh' = IF recent /\ m \in ran THEN fresh \cup {m} ELSE fresh
          /\ newer' = newer \cup S
    /\ stored' \in {stored, TRUE}
    /\ UNCHANGED <<status, next, ran, inRun, holding, jobs, runnerVars, reqVars, reached, faults>>

-----------------------------------------------------------------------------
(* check_eval_monitors *)

Due(m) == status[m] = "ACTIVE" /\ next[m] = "due"

(* get_due_monitors.                                                       *)
TickRead ==
    /\ pc = "idle"
    /\ \E m \in Monitors : Due(m)
    /\ picked' = {m \in Monitors : Due(m)}
    /\ pc' = "tick"
    /\ UNCHANGED <<status, next, dataVars, jobs, todo, cur, reqVars, reached, faults>>

(* Mutant: the jobs are enqueued although the schedule is not moved.       *)
TickWithoutReschedule ==
    /\ pc = "tick"
    /\ todo' = picked
    /\ picked' = {}
    /\ pc' = "enqueue"
    /\ UNCHANGED <<status, next, dataVars, jobs, cur, reqVars, reached, faults>>

(* reschedule_monitor for each, without another look at the status, and    *)
(* the commit.                                                             *)
TickReschedule ==
    /\ pc = "tick"
    /\ next' = [m \in Monitors |-> IF m \in picked /\ Exists(m) THEN "later" ELSE next[m]]
    /\ todo' = picked
    /\ picked' = {}
    /\ pc' = "enqueue"
    /\ UNCHANGED <<status, dataVars, jobs, cur, reqVars, reached, faults>>

TickEnqueue(m) ==
    /\ pc = "enqueue"
    /\ m \in todo
    /\ jobs' = [jobs EXCEPT ![m] = @ + 1]
    /\ todo' = todo \ {m}
    /\ pc' = IF todo' = {} THEN "idle" ELSE pc
    /\ reached' = [reached EXCEPT ![m] = IF @ > 0 THEN @ - 1 ELSE 0]
    /\ UNCHANGED <<status, next, dataVars, picked, cur, reqVars, faults>>

(* An exception is swallowed, and a restart does not help either: what was *)
(* not enqueued is left to the next occurrence.                            *)
TickFails ==
    /\ pc \in {"tick", "enqueue"}
    /\ faults < MaxFaults
    /\ faults' = faults + 1
    /\ picked' = {}
    /\ todo' = {}
    /\ pc' = "idle"
    /\ UNCHANGED <<status, next, dataVars, jobs, cur, reqVars, reached>>

-----------------------------------------------------------------------------
(* process_single_monitor *)

StartProcess(m) ==
    /\ pc = "idle"
    /\ jobs[m] > 0
    /\ cur' = m
    /\ pc' = "read"
    /\ UNCHANGED <<status, next, dataVars, jobs, picked, todo, reqVars, reached, faults>>

EndProcess(left) ==
    /\ jobs' = [jobs EXCEPT ![cur] = left]
    /\ cur' = NoMonitor
    /\ pc' = "idle"

(* Mutant: the comparison is the wrong way round.                          *)
ShouldSkipInverted(m) == m \in OnlyIfChanged /\ m \in ran /\ m \in fresh

(* should_skip_monitor.                                                    *)
ShouldSkip(m) == m \in OnlyIfChanged /\ m \in ran /\ m \notin fresh

(* The monitor is gone, or nothing is new.                                 *)
ProcessSkips ==
    /\ pc = "read"
    /\ ~Exists(cur) \/ ShouldSkip(cur)
    /\ EndProcess(jobs[cur] - 1)
    /\ UNCHANGED <<status, next, dataVars, picked, todo, reqVars, reached, faults>>

ProcessGoesOn ==
    /\ pc = "read"
    /\ Exists(cur)
    /\ ~ShouldSkip(cur)
    /\ pc' = "spawn"
    /\ UNCHANGED <<status, next, dataVars, jobs, picked, todo, cur, reqVars, reached, faults>>

(* _spawn_run_for_monitor resolves the targets and inserts the run, which  *)
(* refers to the monitor.                                                  *)
SpawnRun ==
    /\ pc = "spawn"
    /\ Exists(cur)
    /\ pc' = "commit"
    /\ Resolve(cur, "job")
    /\ UNCHANGED <<status, next, jobs, picked, todo, cur, reqVars, reached, faults>>

(* The charge, advance_monitor without a next run, and the commit.         *)
CommitRun ==
    /\ pc = "commit"
    /\ Covered(cur, "job")
    /\ pc' = "dispatch"
    /\ UNCHANGED <<status, next, jobs, picked, todo, cur, reqVars, reached, faults>>

(* _dispatch_monitor_run; the job is done.                                 *)
DispatchRun ==
    /\ pc = "dispatch"
    /\ HandOver(cur, "job", TRUE)
    /\ EndProcess(jobs[cur] - 1)
    /\ UNCHANGED <<status, next, picked, todo, reqVars, reached, faults>>

(* The monitor was deleted before the run was inserted: the job fails, and *)
(* its next attempt finds no monitor.                                      *)
SpawnRefused ==
    /\ pc = "spawn"
    /\ ~Exists(cur)
    /\ EndProcess(jobs[cur])
    /\ UNCHANGED <<status, next, dataVars, picked, todo, reqVars, reached, faults>>

(* Before its commit the job ends without a run: the quota is exhausted,   *)
(* which the handler of the task takes for done, or something raises or    *)
(* the process dies, and the job is tried again or has used its attempts.  *)
ProcessFails ==
    /\ pc \in {"read", "spawn", "commit"}
    /\ faults < MaxFaults
    /\ faults' = faults + 1
    /\ HandOver(cur, "job", FALSE)
    /\ \E left \in {jobs[cur], jobs[cur] - 1} : EndProcess(left)
    /\ UNCHANGED <<status, next, picked, todo, reqVars, reached>>

(* The same after its commit: the run stays PENDING and has no job of its  *)
(* own, or it was enqueued and the answer is what is lost.                 *)
DispatchFails ==
    /\ pc = "dispatch"
    /\ faults < MaxFaults
    /\ faults' = faults + 1
    /\ \E enqueued \in BOOLEAN : HandOver(cur, "job", enqueued)
    /\ \E left \in {jobs[cur], jobs[cur] - 1} : EndProcess(left)
    /\ UNCHANGED <<status, next, picked, todo, reqVars, reached>>

RunnerStep ==
    \/ TickRead
    \/ TickReschedule
    \/ \E m \in Monitors : TickEnqueue(m) \/ StartProcess(m)
    \/ ProcessSkips \/ ProcessGoesOn \/ SpawnRun \/ SpawnRefused \/ CommitRun \/ DispatchRun

Next ==
    \/ \E m \in Monitors : \/ CreateMonitor(m) \/ PauseMonitor(m) \/ ResumeMonitor(m)
                           \/ UpdateCadence(m) \/ DeleteMonitor(m) \/ PrepareTrigger(m)
                           \/ Elapse(m)
    \/ \E m \in Monitors : TraceArrives(m)
    \/ CommitTrigger \/ DispatchTrigger \/ TriggerFails \/ TriggerIsLost
    \/ RunnerStep
    \/ TickFails \/ ProcessFails \/ DispatchFails

Spec == Init /\ [][Next]_vars

(* Time passes, a request goes on to the end, and the runner works through *)
(* what it has: the queue is served in order and the tick comes every 300  *)
(* seconds, so neither is passed over forever.                             *)
FairSpec ==
    /\ Spec
    /\ \A m \in Monitors :
          /\ WF_vars(Elapse(m))
          /\ WF_vars(TickEnqueue(m))
          /\ SF_vars(StartProcess(m))
    /\ WF_vars(CommitTrigger \/ DispatchTrigger \/ TriggerFails)
    /\ SF_vars(TickRead)
    /\ WF_vars(TickReschedule \/ ProcessSkips \/ ProcessGoesOn \/ SpawnRun
               \/ SpawnRefused \/ CommitRun \/ DispatchRun)

-----------------------------------------------------------------------------
(* Properties *)

(* The schedule of a monitor that is ACTIVE is never lost, whatever order  *)
(* pauses, resumes, triggers and the tick's blind writes come in.          *)
ActiveIsScheduled == \A m \in Monitors : status[m] = "ACTIVE" => next[m] # "none"

(* One occurrence of a monitor's schedule enqueues at most one job, even   *)
(* when the tick fails half way and runs again.                            *)
EnqueuedOnce ==
    [][\A m \in Monitors : jobs'[m] > jobs[m] => reached[m] > 0]_vars

(* only_if_changed holds nothing back: the flag is off, there was no run,  *)
(* or something is newer than the last one.                                *)
Changed(m) == m \in OnlyIfChanged => m \notin ran \/ m \in fresh

(* Runs went by without the trace: last_run_at is past it, and no run that *)
(* is being spawned contains it.                                           *)
PassedBy(m) == ~Changed(m) /\ Resolved(m) \cap holding = {}

(* A stored trace gets into a run that is dispatched, as long as the       *)
(* monitor stays ACTIVE, whatever the tick, the job and the requests have  *)
(* left undone.  Only a monitor with only_if_changed may pass it by: when  *)
(* it was stored between the resolution of a run and its last_run_at, or   *)
(* its run was committed and lost before the dispatch; and then only until *)
(* something newer is stored.  A user who forever changes the cadence      *)
(* before it is due can prevent a run.                                     *)
StoredReachesRun ==
    <>[][\A m \in Monitors : ~UpdateCadence(m)]_vars =>
        \A m \in Monitors :
            stored /\ status[m] = "ACTIVE" /\ Changed(m) ~>
                m \in inRun \/ status[m] # "ACTIVE" \/ PassedBy(m)

=============================================================================
