------------------------------ MODULE EvalRuns ------------------------------
(***************************************************************************)
(* The life of an evaluation run: the requests that create the row, or     *)
(* another one for the pairs that failed, and enqueue the job; the handler *)
(* run_eval_run that scores the run's traces in one transaction per trace; *)
(* fail_eval_run and the settling of the job; users who edit and delete    *)
(* scores, traces and runs at any moment; and a process that may die       *)
(* between any two commits.                                                *)
(*                                                                         *)
(* The queue is the abstract JobContract that LocalTasks implements: every *)
(* step on a job below is a step of the contract.  A run has at most one   *)
(* job, so both are named by the run.  Scores of a trace and metric are    *)
(* two counts, of SUCCESS and of FAILED rows, so a duplicate is visible.   *)
(***************************************************************************)
EXTENDS Naturals, FiniteSets, FiniteSetsExt

CONSTANTS
    Runs,        \* run (and job) identifiers
    Targets,     \* number of traces a run may have
    Metrics,     \* metric_names of a run
    MaxRetries,  \* max_retries of execute_eval_run
    MaxCrashes,  \* bound on process losses
    MaxFaults,   \* bound on database faults outside the handler
    MaxEdits     \* bound on scores and traces changed by users

NoRun == "no run"

ASSUME EvalRunsAssumption ==
    /\ NoRun \notin Runs
    /\ Targets \in Nat \ {0}
    /\ Metrics # {} /\ IsFiniteSet(Metrics)
    /\ MaxRetries \in Nat
    /\ MaxCrashes \in Nat
    /\ MaxFaults \in Nat
    /\ MaxEdits \in Nat

VARIABLES
    phase, tries, work, cut,  \* the job of a run, as JobContract sees it
    plan,        \* the job's payload: pairs of trace and metric to evaluate
    status,      \* eval_runs.status, ABSENT before the insert, DELETED after
    evaluated,   \* eval_runs.evaluated_count
    failed,      \* eval_runs.failed_count
    scores,      \* [run -> [pair -> [ok, bad]]]: rows with this eval_run_id
    touched,     \* history: runs whose scores a user changed since their Setup
    dispatching, \* runs whose request is between its commit and the enqueue
    cur,         \* the run whose job is being executed
    pc,          \* where run_eval_run, or the runner after it, stands
    todo,        \* traces this attempt has still to go through
    crashes, faults, edits

Traces == 1..Targets
Pairs == Traces \X Metrics
OneKind == {"execute_eval_run"}

Job == INSTANCE JobContract WITH
    Jobs <- Runs,
    Kinds <- OneKind,
    Budget <- [k \in OneKind |-> MaxRetries],
    Fragile <- OneKind,
    kind <- [r \in Runs |-> "execute_eval_run"]

jobVars == <<phase, tries, work, cut>>
scoreVars == <<failed, scores, touched>>
rowVars == <<plan, status, evaluated, scoreVars>>
handlerVars == <<cur, pc, todo>>
vars == <<jobVars, rowVars, dispatching, handlerVars, crashes, faults, edits>>

NoScore == [ok |-> 0, bad |-> 0]
NoScores == [p \in Pairs |-> NoScore]
TracesOf(pairs) == {p[1] : p \in pairs}
FailedPairs(r) == {p \in Pairs : scores[r][p].bad > 0}

(* The one type invariant of the module.                                   *)
TypeOK ==
    /\ phase \in [Runs -> {"none", "queued", "held", "finished", "abandoned"}]
    /\ tries \in [Runs -> Nat]
    /\ work \in [Runs -> Nat]
    /\ cut \in [Runs -> BOOLEAN]
    /\ plan \in [Runs -> SUBSET Pairs]
    /\ status \in [Runs -> {"ABSENT", "PENDING", "RUNNING", "COMPLETED", "FAILED", "DELETED"}]
    /\ evaluated \in [Runs -> Nat]
    /\ failed \in [Runs -> Nat]
    /\ scores \in [Runs -> [Pairs -> [ok : Nat, bad : Nat]]]
    /\ touched \subseteq Runs
    /\ dispatching \subseteq Runs
    /\ cur \in Runs \cup {NoRun}
    /\ pc \in {"idle", "setup", "scoring", "done", "error", "timeout", "settleOk",
               "settleError", "settleTimeout"}
    /\ todo \subseteq Traces
    /\ crashes \in 0..MaxCrashes
    /\ faults \in 0..MaxFaults
    /\ edits \in 0..MaxEdits

Init ==
    /\ phase = [r \in Runs |-> "none"]
    /\ tries = [r \in Runs |-> 0]
    /\ work = [r \in Runs |-> 0]
    /\ cut = [r \in Runs |-> FALSE]
    /\ plan = [r \in Runs |-> {}]
    /\ status = [r \in Runs |-> "ABSENT"]
    /\ evaluated = [r \in Runs |-> 0]
    /\ failed = [r \in Runs |-> 0]
    /\ scores = [r \in Runs |-> NoScores]
    /\ touched = {}
    /\ dispatching = {}
    /\ cur = NoRun
    /\ pc = "idle"
    /\ todo = {}
    /\ crashes = 0
    /\ faults = 0
    /\ edits = 0

Exists(r) == status[r] \notin {"ABSENT", "DELETED"}

(* An UPDATE of the run's row; no row, no effect.                          *)
SetStatus(r, s) == status' = IF Exists(r) THEN [status EXCEPT ![r] = s] ELSE status

-----------------------------------------------------------------------------
(* Requests *)

(* prepare_*, check_and_increment and the commit of dispatch_run: the row  *)
(* and the charge become visible together.                                 *)
Insert(r, pairs) ==
    /\ status[r] = "ABSENT"
    /\ status' = [status EXCEPT ![r] = "PENDING"]
    /\ plan' = [plan EXCEPT ![r] = pairs]
    /\ dispatching' = dispatching \cup {r}
    /\ UNCHANGED <<jobVars, evaluated, scoreVars, handlerVars, crashes, faults, edits>>

(* Filters, a sample or a list select n traces, perhaps none.              *)
CreateRun(r, n) == Insert(r, (1..n) \X Metrics)

(* A new run for the pairs that failed in another one, which is left       *)
(* alone: whichever pairs they are.                                        *)
RetryFailed(r, pairs) ==
    /\ pairs # {}
    /\ Insert(r, pairs)

(* enqueue_local_job in a session of its own, then the 202 answer.         *)
Dispatch(r) ==
    /\ r \in dispatching
    /\ Job!Submit(r)
    /\ dispatching' = dispatching \ {r}
    /\ UNCHANGED <<rowVars, handlerVars, crashes, faults, edits>>

(* The enqueue raises and the request answers an error: get_db_session     *)
(* rolls the compensating decrement back; the committed row, and the       *)
(* charge that went with it, stay.                                         *)
DispatchFails(r) ==
    /\ r \in dispatching
    /\ faults < MaxFaults
    /\ faults' = faults + 1
    /\ dispatching' = dispatching \ {r}
    /\ UNCHANGED <<jobVars, rowVars, handlerVars, crashes, edits>>

(* delete_eval_run: the row goes; its scores go too, or lose their         *)
(* eval_run_id (ON DELETE SET NULL).  The job is left alone.               *)
DeleteRun(r) ==
    /\ Exists(r)
    /\ status' = [status EXCEPT ![r] = "DELETED"]
    /\ evaluated' = [evaluated EXCEPT ![r] = 0]
    /\ failed' = [failed EXCEPT ![r] = 0]
    /\ scores' = [scores EXCEPT ![r] = NoScores]
    /\ UNCHANGED <<jobVars, plan, touched, dispatching, handlerVars, crashes, faults, edits>>

SetScores(s) ==
    /\ edits < MaxEdits
    /\ edits' = edits + 1
    /\ scores' = s
    /\ touched' = touched \cup {r \in Runs : s[r] # scores[r]}
    /\ UNCHANGED <<jobVars, plan, status, evaluated, failed, dispatching, handlerVars, crashes, faults>>

(* A user's edit makes a FAILED score a SUCCESS; the counter is left alone. *)
UpdateScore(r, p) ==
    /\ scores[r][p].bad > 0
    /\ SetScores([scores EXCEPT ![r][p] = [ok |-> @.ok + 1, bad |-> @.bad - 1]])

DeleteScore(r, p) ==
    /\ scores[r][p] # NoScore
    /\ SetScores([scores EXCEPT ![r][p] = NoScore])

(* The scores of a trace are deleted with it (ON DELETE CASCADE).          *)
DeleteTrace(t) ==
    SetScores([r \in Runs |-> [p \in Pairs |-> IF p[1] = t THEN NoScore ELSE scores[r][p]]])

-----------------------------------------------------------------------------
(* run_eval_run *)

TakeJob(r) ==
    /\ cur = NoRun
    /\ Job!Take(r)
    /\ cur' = r
    /\ pc' = "setup"
    /\ UNCHANGED todo
    /\ UNCHANGED <<rowVars, dispatching, crashes, faults, edits>>

(* Mutant: scores are dropped by trace, whatever run they are of.          *)
SetupDropsByTrace ==
    /\ pc = "setup"
    /\ scores' = [r \in Runs |-> [p \in Pairs |-> IF p \in plan[cur] THEN NoScore ELSE scores[r][p]]]
    /\ evaluated' = [evaluated EXCEPT ![cur] = 0]
    /\ failed' = [failed EXCEPT ![cur] = 0]
    /\ touched' = touched \ {cur}
    /\ SetStatus(cur, "RUNNING")
    /\ pc' = IF Exists(cur) THEN "scoring" ELSE "error"
    /\ todo' = TracesOf(plan[cur])
    /\ UNCHANGED <<jobVars, plan, dispatching, cur, crashes, faults, edits>>

(* Mutant: a new attempt keeps the counters of the one before.             *)
SetupKeepsCounters ==
    /\ pc = "setup"
    /\ scores' = [scores EXCEPT ![cur] = NoScores]
    /\ touched' = touched \ {cur}
    /\ SetStatus(cur, "RUNNING")
    /\ pc' = IF Exists(cur) THEN "scoring" ELSE "error"
    /\ todo' = TracesOf(plan[cur])
    /\ UNCHANGED <<jobVars, plan, evaluated, failed, dispatching, cur, crashes, faults, edits>>

(* Mutant: a new attempt keeps the scores of the one before.               *)
SetupKeepsScores ==
    /\ pc = "setup"
    /\ evaluated' = [evaluated EXCEPT ![cur] = 0]
    /\ failed' = [failed EXCEPT ![cur] = 0]
    /\ touched' = touched \ {cur}
    /\ SetStatus(cur, "RUNNING")
    /\ pc' = IF Exists(cur) THEN "scoring" ELSE "error"
    /\ todo' = TracesOf(plan[cur])
    /\ UNCHANGED <<jobVars, plan, scores, dispatching, cur, crashes, faults, edits>>

(* First transaction: drop earlier scores, zero the counters, RUNNING;     *)
(* then the row is read, and a run deleted meanwhile is an error.          *)
Setup ==
    /\ pc = "setup"
    /\ scores' = [scores EXCEPT ![cur] = NoScores]
    /\ evaluated' = [evaluated EXCEPT ![cur] = 0]
    /\ failed' = [failed EXCEPT ![cur] = 0]
    /\ touched' = touched \ {cur}
    /\ SetStatus(cur, "RUNNING")
    /\ pc' = IF Exists(cur) THEN "scoring" ELSE "error"
    /\ todo' = TracesOf(plan[cur])
    /\ UNCHANGED <<jobVars, plan, dispatching, cur, crashes, faults, edits>>

NextTrace == Min(todo)
PairsToScore == {p \in plan[cur] : p[1] = NextTrace}

(* One transaction per trace: its metrics run, those in bad raise and      *)
(* leave FAILED scores, and the progress counter moves.  Once the run is   *)
(* deleted the first score violates the foreign key: the attempt fails.    *)
ScoreTrace(bad) ==
    /\ pc = "scoring"
    /\ todo # {}
    /\ bad \subseteq PairsToScore
    /\ IF Exists(cur)
       THEN /\ scores' = [scores EXCEPT ![cur] = [p \in Pairs |->
                             [ok |-> @[p].ok + (IF p \in PairsToScore \ bad THEN 1 ELSE 0),
                              bad |-> @[p].bad + (IF p \in bad THEN 1 ELSE 0)]]]
            /\ failed' = [failed EXCEPT ![cur] = @ + Cardinality(bad)]
            /\ evaluated' = [evaluated EXCEPT ![cur] = @ + 1]
            /\ todo' = todo \ {NextTrace}
            /\ pc' = pc
       ELSE /\ pc' = "error"
            /\ UNCHANGED <<scores, failed, evaluated, todo>>
    /\ UNCHANGED <<jobVars, plan, status, touched, dispatching, cur, crashes, faults, edits>>

(* A trace deleted since the run was created only moves the counter.       *)
MissingTrace ==
    /\ pc = "scoring"
    /\ todo # {}
    /\ evaluated' = IF Exists(cur) THEN [evaluated EXCEPT ![cur] = @ + 1] ELSE evaluated
    /\ todo' = todo \ {NextTrace}
    /\ UNCHANGED <<jobVars, plan, status, scoreVars, dispatching, cur, pc, crashes, faults, edits>>

(* Last transaction.                                                       *)
CompleteRun ==
    /\ pc = "scoring"
    /\ todo = {}
    /\ SetStatus(cur, "COMPLETED")
    /\ pc' = "done"
    /\ UNCHANGED <<jobVars, plan, evaluated, scoreVars, dispatching, cur, todo, crashes, faults, edits>>

HandlerReturns ==
    /\ pc = "done"
    /\ Job!Work(cur)
    /\ pc' = "settleOk"
    /\ UNCHANGED <<rowVars, dispatching, cur, todo, crashes, faults, edits>>

(* The handler raises, or its time limit cancels it, at any await: the     *)
(* open transaction is lost, the committed ones stay.                      *)
HandlerRaises(e) ==
    /\ pc \in {"setup", "scoring", "done"}
    /\ pc' = e
    /\ UNCHANGED <<jobVars, rowVars, dispatching, cur, todo, crashes, faults, edits>>

-----------------------------------------------------------------------------
(* The runner around it *)

(* Mutant: the timeout path forgets the run.                               *)
FailRunOnErrorOnly ==
    /\ pc \in {"error", "timeout"}
    /\ IF pc = "error" THEN SetStatus(cur, "FAILED") ELSE UNCHANGED status
    /\ pc' = IF pc = "error" THEN "settleError" ELSE "settleTimeout"
    /\ UNCHANGED <<jobVars, plan, evaluated, scoreVars, dispatching, cur, todo, crashes, faults, edits>>

(* fail_eval_run, before the job is settled, whether or not it is retried. *)
FailRun ==
    /\ pc \in {"error", "timeout"}
    /\ SetStatus(cur, "FAILED")
    /\ pc' = IF pc = "error" THEN "settleError" ELSE "settleTimeout"
    /\ UNCHANGED <<jobVars, plan, evaluated, scoreVars, dispatching, cur, todo, crashes, faults, edits>>

(* Its own failure is swallowed.                                           *)
FailRunIsLost ==
    /\ pc \in {"error", "timeout"}
    /\ faults < MaxFaults
    /\ faults' = faults + 1
    /\ pc' = IF pc = "error" THEN "settleError" ELSE "settleTimeout"
    /\ UNCHANGED <<jobVars, rowVars, dispatching, cur, todo, crashes, edits>>

PutDown ==
    /\ cur' = NoRun
    /\ pc' = "idle"
    /\ todo' = {}

(* _mark_completed, _schedule_retry or _mark_failed; a time limit is final *)
(* for this task.                                                          *)
SettleJob ==
    /\ \/ pc = "settleOk" /\ Job!Finish(cur)
       \/ /\ pc = "settleError"
          /\ IF tries[cur] <= MaxRetries THEN Job!PutBack(cur) ELSE Job!Abandon(cur)
          /\ cut' = [cut EXCEPT ![cur] = FALSE]
       \/ /\ pc = "settleTimeout"
          /\ Job!Abandon(cur)
          /\ cut' = [cut EXCEPT ![cur] = TRUE]
    /\ PutDown
    /\ UNCHANGED <<rowVars, dispatching, crashes, faults, edits>>

(* The update is not applied: the job stays RUNNING until a restart.       *)
SettleIsLost ==
    /\ pc \in {"settleOk", "settleError", "settleTimeout"}
    /\ faults < MaxFaults
    /\ faults' = faults + 1
    /\ PutDown
    /\ UNCHANGED <<jobVars, rowVars, dispatching, crashes, edits>>

(* The process dies and comes back: requests and the handler are gone,     *)
(* recover_running puts the held jobs back.                                *)
CrashAndRestart ==
    /\ crashes < MaxCrashes
    /\ crashes' = crashes + 1
    /\ Job!LoseHolder
    /\ dispatching' = {}
    /\ PutDown
    /\ UNCHANGED <<rowVars, faults, edits>>

HandlerStep ==
    \/ \E r \in Runs : TakeJob(r)
    \/ Setup
    \/ \E bad \in SUBSET Pairs : ScoreTrace(bad)
    \/ MissingTrace
    \/ CompleteRun
    \/ HandlerReturns
    \/ FailRun
    \/ SettleJob

Next ==
    \/ \E r \in Runs, n \in 0..Targets : CreateRun(r, n)
    \/ \E r \in Runs, pairs \in SUBSET Pairs : RetryFailed(r, pairs)
    \/ \E r \in Runs : Dispatch(r) \/ DispatchFails(r) \/ DeleteRun(r)
    \/ \E r \in Runs, p \in Pairs : UpdateScore(r, p) \/ DeleteScore(r, p)
    \/ \E t \in Traces : DeleteTrace(t)
    \/ HandlerStep
    \/ \E e \in {"error", "timeout"} : HandlerRaises(e)
    \/ FailRunIsLost
    \/ SettleIsLost
    \/ CrashAndRestart

Spec == Init /\ [][Next]_vars

(* The event loop runs the handler and the requests it has accepted.       *)
FairSpec ==
    /\ Spec
    /\ WF_vars(HandlerStep)
    /\ \A r \in Runs : WF_vars(Dispatch(r))

-----------------------------------------------------------------------------
(* Properties *)

(* Whatever attempts, crashes and deletions came before, the counters of a *)
(* run agree with its score rows: failed_count counts the FAILED ones, a   *)
(* trace has all its scores or none, never twice, and no more traces have  *)
(* scores than evaluated_count says.  Once a user has changed scores,      *)
(* there may only be fewer.  A deleted run has none whatever its job does. *)
CountersMatchScores ==
    \A r \in Runs :
        LET Scored(t) == {p \in plan[r] : p[1] = t /\ scores[r][p] # NoScore}
        IN  /\ Cardinality(FailedPairs(r)) <= failed[r]
            /\ Cardinality({t \in Traces : Scored(t) # {}}) <= evaluated[r]
            /\ \A p \in Pairs : scores[r][p].ok + scores[r][p].bad <= IF p \in plan[r] THEN 1 ELSE 0
            /\ r \notin touched =>
                  /\ failed[r] = Cardinality(FailedPairs(r))
                  /\ \A t \in Traces : Scored(t) \in {{}, {p \in plan[r] : p[1] = t}}
            /\ status[r] = "DELETED" => scores[r] = NoScores

(* A run whose job has succeeded is COMPLETED, and a COMPLETED run has     *)
(* gone through exactly its targets: no progress of an earlier attempt is  *)
(* counted in it, and no failure of one has the last word.                 *)
CompletedIsWhole ==
    \A r \in Runs :
        /\ phase[r] = "finished" => status[r] \in {"COMPLETED", "DELETED"}
        /\ status[r] = "COMPLETED" => evaluated[r] = Cardinality(TracesOf(plan[r]))

(* An accepted run ends: COMPLETED, FAILED or deleted, and then for good   *)
(* unless a lost settling write leaves its job to the next restart.        *)
AcceptedRunEnds ==
    \A r \in Runs :
        (phase[r] # "none" /\ faults = 0) ~>
            (faults > 0 \/ [](status[r] \in {"COMPLETED", "FAILED", "DELETED"}))

=============================================================================
