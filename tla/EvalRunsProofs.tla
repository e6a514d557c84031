---------------------------- MODULE EvalRunsProofs ----------------------------
(***************************************************************************)
(* Proofs about EvalRuns and SessionRuns, for any number of runs, targets, *)
(* metrics, attempts, crashes, faults and edits, and about the scores that *)
(* SessionMetrics makes of a session, for any signals and weights.         *)
(***************************************************************************)
EXTENDS SessionScores, SetSums, SequenceTheorems

(* Traces and pairs can be counted.                                        *)
LEMMA Countable ==
    /\ IsFiniteSet(Traces) /\ IsFiniteSet(Pairs)
    /\ \A S \in SUBSET Pairs : /\ IsFiniteSet(S) /\ Cardinality(S) \in Nat
                               /\ TracesOf(S) \subseteq Traces
    /\ \A S \in SUBSET Traces : IsFiniteSet(S) /\ Cardinality(S) \in Nat
<1>1. IsFiniteSet(Traces)
  BY FS_Interval, EvalRunsAssumption DEF Traces
<1>2. IsFiniteSet(Pairs)
  BY <1>1, FS_Product, EvalRunsAssumption DEF Pairs
<1>3. \A S \in SUBSET Pairs : IsFiniteSet(S) /\ Cardinality(S) \in Nat
  BY <1>2, FS_Subset, FS_CardinalityType
<1>4. \A S \in SUBSET Pairs : TracesOf(S) \subseteq Traces
  BY DEF TracesOf, Pairs
<1>5. \A S \in SUBSET Traces : IsFiniteSet(S) /\ Cardinality(S) \in Nat
  BY <1>1, FS_Subset, FS_CardinalityType
<1> QED
  BY <1>2, <1>3, <1>1, <1>4, <1>5

(* A part of a finite set is finite and no larger.                         *)
LEMMA Fewer ==
    ASSUME NEW S, IsFiniteSet(S), NEW T \in SUBSET S
    PROVE  /\ IsFiniteSet(T) /\ Cardinality(T) \in Nat
           /\ Cardinality(S) \in Nat /\ Cardinality(T) <= Cardinality(S)
  BY FS_Subset, FS_CardinalityType

(* The next trace of an attempt is one of those that are left.             *)
LEMMA NextTraceIs ==
    ASSUME TypeOK, cur \in Runs, todo # {}
    PROVE  NextTrace \in todo /\ NextTrace \in Traces /\ PairsToScore \subseteq Pairs
<1>1. todo \in SUBSET Nat
  BY DEF TypeOK, Traces
<1>2. NextTrace \in todo
  BY <1>1, MinOfSet DEF NextTrace
<1>3. PairsToScore \subseteq plan[cur]
  BY DEF PairsToScore
<1> QED
  BY <1>2, <1>3 DEF TypeOK, PairsToScore, Pairs

-----------------------------------------------------------------------------
(* Type correctness, and what a job, its run and the handler know of each  *)
(* other.                                                                  *)

(* Users and session runs change scores that are not of this module.       *)
EditElsewhere ==
    /\ edits < MaxEdits
    /\ edits' = edits + 1
    /\ UNCHANGED <<jobVars, rowVars, dispatching, handlerVars, crashes, faults>>

(* The handler works on a held job; a run that does not exist yet has none *)
(* and is not being dispatched; a job that settles as done has been worked.*)
JobInv ==
    /\ pc = "idle" <=> cur = NoRun
    /\ cur # NoRun => phase[cur] = "held"
    /\ pc = "settleOk" => work[cur] > 0
    /\ \A r \in Runs : status[r] = "ABSENT" => phase[r] = "none" /\ r \notin dispatching

TypeInv == TypeOK /\ JobInv

(* set_run_status writes the status of its run if the row is there, and of *)
(* no other.                                                               *)
LEMMA SetStatusIs ==
    ASSUME TypeOK, NEW r \in Runs,
           NEW s \in {"PENDING", "RUNNING", "COMPLETED", "FAILED"}, SetStatus(r, s)
    PROVE  /\ status' \in [Runs -> {"ABSENT", "PENDING", "RUNNING", "COMPLETED", "FAILED", "DELETED"}]
           /\ \A q \in Runs : status'[q] = IF q = r /\ Exists(r) THEN s ELSE status[q]
  BY DEF SetStatus, TypeOK

(* The handler has a run whenever it is not idle.                          *)
LEMMA CurIs ==
    ASSUME TypeInv, pc # "idle"
    PROVE  cur \in Runs /\ phase[cur] = "held" /\ status[cur] # "ABSENT"
  BY DEF TypeInv, TypeOK, JobInv

(* Every step of a run keeps the types of its state.                       *)
LEMMA NextKeepsTypeOK == ASSUME TypeInv, Next PROVE TypeOK'
<1> USE DEF rowVars, scoreVars, handlerVars, jobVars
<1>i. ASSUME NEW r \in Runs, NEW pairs \in SUBSET Pairs, Insert(r, pairs) PROVE TypeOK'
  BY <1>i DEF Insert, TypeInv, TypeOK
<1>1. ASSUME NEW r \in Runs, NEW n \in 0..Targets, CreateRun(r, n) PROVE TypeOK'
  <2>1. (1..n) \X Metrics \in SUBSET Pairs
    BY EvalRunsAssumption DEF Pairs, Traces
  <2> QED
    BY <1>1, <1>i, <2>1 DEF CreateRun
<1>2. ASSUME NEW r \in Runs, NEW pairs \in SUBSET Pairs, RetryFailed(r, pairs) PROVE TypeOK'
  BY <1>2, <1>i DEF RetryFailed
<1>3. ASSUME NEW r \in Runs, Dispatch(r) PROVE TypeOK'
  BY <1>3 DEF Dispatch, Job!Submit, TypeInv, TypeOK
<1>4. ASSUME NEW r \in Runs, DispatchFails(r) PROVE TypeOK'
  BY <1>4, EvalRunsAssumption DEF DispatchFails, TypeInv, TypeOK
<1>5. ASSUME NEW r \in Runs, DeleteRun(r) PROVE TypeOK'
  <2>1. NoScores \in [Pairs -> [ok : Nat, bad : Nat]]
    BY DEF NoScores, NoScore
  <2> QED
    BY <1>5, <2>1 DEF DeleteRun, TypeInv, TypeOK
<1>s. ASSUME NEW s \in [Runs -> [Pairs -> [ok : Nat, bad : Nat]]], SetScores(s) PROVE TypeOK'
  BY <1>s, EvalRunsAssumption DEF SetScores, TypeInv, TypeOK
<1>6. ASSUME NEW r \in Runs, NEW p \in Pairs, UpdateScore(r, p) PROVE TypeOK'
  <2>1. [scores EXCEPT ![r][p] = [ok |-> @.ok + 1, bad |-> @.bad - 1]]
            \in [Runs -> [Pairs -> [ok : Nat, bad : Nat]]]
    <3>1. scores[r][p].ok \in Nat /\ scores[r][p].bad \in Nat /\ scores[r][p].bad > 0
      BY <1>6 DEF UpdateScore, TypeInv, TypeOK
    <3>2. [ok |-> scores[r][p].ok + 1, bad |-> scores[r][p].bad - 1] \in [ok : Nat, bad : Nat]
      BY <3>1
    <3> QED
      BY <3>2 DEF TypeInv, TypeOK
  <2> QED
    BY <1>6, <1>s, <2>1 DEF UpdateScore
<1>7. ASSUME NEW r \in Runs, NEW p \in Pairs, DeleteScore(r, p) PROVE TypeOK'
  <2>1. [scores EXCEPT ![r][p] = NoScore] \in [Runs -> [Pairs -> [ok : Nat, bad : Nat]]]
    BY DEF NoScore, TypeInv, TypeOK
  <2> QED
    BY <1>7, <1>s, <2>1 DEF DeleteScore
<1>8. ASSUME NEW t \in Traces, DeleteTrace(t) PROVE TypeOK'
  <2>1. [r \in Runs |-> [p \in Pairs |-> IF p[1] = t THEN NoScore ELSE scores[r][p]]]
            \in [Runs -> [Pairs -> [ok : Nat, bad : Nat]]]
    BY DEF NoScore, TypeInv, TypeOK
  <2> QED
    BY <1>8, <1>s, <2>1 DEF DeleteTrace
<1>9. ASSUME NEW r \in Runs, TakeJob(r) PROVE TypeOK'
  BY <1>9 DEF TakeJob, Job!Take, TypeInv, TypeOK
<1>10. CASE Setup
  <2>1. cur \in Runs
    BY <1>10, CurIs DEF Setup
  <2>2. NoScores \in [Pairs -> [ok : Nat, bad : Nat]]
    BY DEF NoScores, NoScore
  <2>3. SetStatus(cur, "RUNNING") /\ TracesOf(plan[cur]) \subseteq Traces
    BY <1>10, <2>1, Countable DEF Setup, TypeInv, TypeOK
  <2>4. scores' \in [Runs -> [Pairs -> [ok : Nat, bad : Nat]]]
    BY <1>10, <2>1, <2>2 DEF Setup, TypeInv, TypeOK
  <2> QED
    BY <1>10, <2>1, <2>3, <2>4, SetStatusIs DEF Setup, TypeInv, TypeOK
<1>11. ASSUME NEW bad \in SUBSET Pairs, ScoreTrace(bad) PROVE TypeOK'
  <2>1. cur \in Runs /\ Cardinality(bad) \in Nat
    BY <1>11, CurIs, Countable DEF ScoreTrace
  <2>2. scores' \in [Runs -> [Pairs -> [ok : Nat, bad : Nat]]]
    <3> DEFINE more == [p \in Pairs |->
                            [ok |-> scores[cur][p].ok + (IF p \in PairsToScore \ bad THEN 1 ELSE 0),
                             bad |-> scores[cur][p].bad + (IF p \in bad THEN 1 ELSE 0)]]
    <3>1. more \in [Pairs -> [ok : Nat, bad : Nat]]
      <4> SUFFICES ASSUME NEW p \in Pairs
                   PROVE  [ok |-> scores[cur][p].ok + (IF p \in PairsToScore \ bad THEN 1 ELSE 0),
                           bad |-> scores[cur][p].bad + (IF p \in bad THEN 1 ELSE 0)]
                              \in [ok : Nat, bad : Nat]
        OBVIOUS
      <4>1. scores[cur][p].ok \in Nat /\ scores[cur][p].bad \in Nat
        BY <2>1 DEF TypeInv, TypeOK
      <4> QED
        BY <4>1
    <3>2. scores' = scores \/ scores' = [scores EXCEPT ![cur] = more]
      BY <1>11 DEF ScoreTrace
    <3> HIDE DEF more
    <3> QED
      BY <2>1, <3>1, <3>2 DEF TypeInv, TypeOK
  <2>3. /\ failed' \in [Runs -> Nat]
        /\ evaluated' \in [Runs -> Nat]
        /\ todo' \subseteq Traces /\ pc' \in {"scoring", "error"}
    <3>1. /\ failed' = failed \/ failed' = [failed EXCEPT ![cur] = @ + Cardinality(bad)]
          /\ evaluated' = evaluated \/ evaluated' = [evaluated EXCEPT ![cur] = @ + 1]
          /\ todo' = todo \/ todo' = todo \ {NextTrace}
          /\ pc' \in {"scoring", "error"}
      BY <1>11 DEF ScoreTrace
    <3>2. failed' \in [Runs -> Nat]
      BY <2>1, <3>1 DEF TypeInv, TypeOK
    <3>3. evaluated' \in [Runs -> Nat]
      <4>1. evaluated \in [Runs -> Nat]
        BY DEF TypeInv, TypeOK
      <4>2. [evaluated EXCEPT ![cur] = @ + 1] \in [Runs -> Nat]
        BY <2>1, <4>1
      <4> QED
        BY <3>1, <4>1, <4>2
    <3> QED
      BY <3>1, <3>2, <3>3 DEF TypeInv, TypeOK
  <2> QED
    BY <1>11, <2>2, <2>3 DEF ScoreTrace, TypeInv, TypeOK
<1>12. CASE MissingTrace
  BY <1>12, CurIs DEF MissingTrace, TypeInv, TypeOK
<1>13. CASE CompleteRun
  <2>1. cur \in Runs /\ SetStatus(cur, "COMPLETED")
    BY <1>13, CurIs DEF CompleteRun
  <2> QED
    BY <1>13, <2>1, SetStatusIs DEF CompleteRun, TypeInv, TypeOK
<1>14. CASE HandlerReturns
  BY <1>14, CurIs DEF HandlerReturns, Job!Work, TypeInv, TypeOK
<1>15. ASSUME NEW e \in {"error", "timeout"}, HandlerRaises(e) PROVE TypeOK'
  BY <1>15 DEF HandlerRaises, TypeInv, TypeOK
<1>16. CASE FailRun
  <2>1. cur \in Runs /\ SetStatus(cur, "FAILED")
    BY <1>16, CurIs DEF FailRun
  <2> QED
    BY <1>16, <2>1, SetStatusIs DEF FailRun, TypeInv, TypeOK
<1>17. CASE FailRunIsLost
  BY <1>17, EvalRunsAssumption DEF FailRunIsLost, TypeInv, TypeOK
<1>18. CASE SettleJob
  <2>1. phase' \in [Runs -> {"none", "queued", "held", "finished", "abandoned"}]
    BY <1>18 DEF SettleJob, Job!Finish, Job!PutBack, Job!Abandon, TypeInv, TypeOK
  <2>2. cut' \in [Runs -> BOOLEAN] /\ UNCHANGED <<tries, work>>
    BY <1>18 DEF SettleJob, Job!Finish, Job!PutBack, Job!Abandon, TypeInv, TypeOK
  <2> QED
    BY <1>18, <2>1, <2>2 DEF SettleJob, PutDown, TypeInv, TypeOK
<1>19. CASE SettleIsLost
  BY <1>19, EvalRunsAssumption DEF SettleIsLost, PutDown, TypeInv, TypeOK
<1>20. CASE CrashAndRestart
  BY <1>20, EvalRunsAssumption DEF CrashAndRestart, PutDown, Job!LoseHolder, TypeInv, TypeOK
<1> QED
  BY <1>1, <1>2, <1>3, <1>4, <1>5, <1>6, <1>7, <1>8, <1>9, <1>10, <1>11, <1>12, <1>13,
     <1>14, <1>15, <1>16, <1>17, <1>18, <1>19, <1>20 DEF Next, HandlerStep

(* Every step keeps what job, run and handler know of each other.          *)
LEMMA NextKeepsJobInv == ASSUME TypeInv, TypeOK', Next PROVE JobInv'
<1> USE DEF rowVars, scoreVars, handlerVars, jobVars
<1>0. NoRun \notin Runs
  BY EvalRunsAssumption
<1>r. ASSUME NEW r \in Runs, Exists(r), status' = [status EXCEPT ![r] = "DELETED"],
             UNCHANGED <<phase, work, dispatching, cur, pc>>
      PROVE  JobInv'
  BY <1>r DEF JobInv, TypeInv, TypeOK, Exists
<1>i. ASSUME NEW r \in Runs, NEW pairs \in SUBSET Pairs, Insert(r, pairs) PROVE JobInv'
  BY <1>i DEF Insert, JobInv, TypeInv, TypeOK
<1>1. ASSUME NEW r \in Runs, NEW n \in 0..Targets, CreateRun(r, n) PROVE JobInv'
  <2>1. (1..n) \X Metrics \in SUBSET Pairs
    BY EvalRunsAssumption DEF Pairs, Traces
  <2> QED
    BY <1>1, <1>i, <2>1 DEF CreateRun
<1>2. ASSUME NEW r \in Runs, NEW pairs \in SUBSET Pairs, RetryFailed(r, pairs) PROVE JobInv'
  BY <1>2, <1>i DEF RetryFailed
<1>3. ASSUME NEW r \in Runs, Dispatch(r) PROVE JobInv'
  BY <1>3 DEF Dispatch, Job!Submit, JobInv, TypeInv, TypeOK
<1>4. ASSUME NEW r \in Runs, DispatchFails(r) PROVE JobInv'
  BY <1>4 DEF DispatchFails, JobInv, TypeInv, TypeOK
<1>5. ASSUME NEW r \in Runs, DeleteRun(r) PROVE JobInv'
  BY <1>5, <1>r DEF DeleteRun
<1>s. ASSUME NEW s, SetScores(s) PROVE JobInv'
  BY <1>s DEF SetScores, JobInv, TypeInv, TypeOK
<1>6. ASSUME NEW r \in Runs, NEW p \in Pairs, UpdateScore(r, p) \/ DeleteScore(r, p) PROVE JobInv'
  BY <1>6, <1>s DEF UpdateScore, DeleteScore
<1>7. ASSUME NEW t \in Traces, DeleteTrace(t) PROVE JobInv'
  BY <1>7, <1>s DEF DeleteTrace
<1>8. ASSUME NEW r \in Runs, TakeJob(r) PROVE JobInv'
  BY <1>8, <1>0 DEF TakeJob, Job!Take, JobInv, TypeInv, TypeOK
<1>m. ASSUME NEW s \in {"RUNNING", "COMPLETED", "FAILED"}, SetStatus(cur, s), pc # "idle",
             pc' \notin {"idle", "settleOk"}, UNCHANGED <<phase, work, dispatching, cur>>
      PROVE  JobInv'
  <2>1. cur \in Runs /\ phase[cur] = "held"
    BY <1>m, CurIs
  <2>2. \A q \in Runs : status'[q] = IF q = cur /\ Exists(cur) THEN s ELSE status[q]
    BY <1>m, <2>1, SetStatusIs DEF TypeInv
  <2> QED
    BY <1>0, <1>m, <2>1, <2>2 DEF JobInv, TypeInv
<1>9. CASE Setup
  <2>1. pc' \notin {"idle", "settleOk"}
    BY <1>9 DEF Setup
  <2> QED
    BY <1>9, <1>m, <2>1 DEF Setup
<1>10. CASE CompleteRun
  BY <1>10, <1>m DEF CompleteRun
<1>11. CASE FailRun
  <2>1. pc' \notin {"idle", "settleOk"}
    BY <1>11 DEF FailRun
  <2> QED
    BY <1>11, <1>m, <2>1 DEF FailRun
<1>o. ASSUME pc # "idle", pc' \notin {"idle", "settleOk"}, UNCHANGED <<phase, work, status, dispatching, cur>>
      PROVE  JobInv'
  BY <1>o DEF JobInv, TypeInv
<1>12. ASSUME NEW bad \in SUBSET Pairs, ScoreTrace(bad) PROVE JobInv'
  <2>1. pc # "idle" /\ pc' \notin {"idle", "settleOk"}
    BY <1>12 DEF ScoreTrace
  <2> QED
    BY <1>12, <1>o, <2>1 DEF ScoreTrace
<1>13. CASE MissingTrace
  BY <1>13, <1>o DEF MissingTrace
<1>14. ASSUME NEW e \in {"error", "timeout"}, HandlerRaises(e) PROVE JobInv'
  BY <1>14, <1>o DEF HandlerRaises
<1>15. CASE FailRunIsLost
  <2>1. pc # "idle" /\ pc' \notin {"idle", "settleOk"}
    BY <1>15 DEF FailRunIsLost
  <2> QED
    BY <1>15, <1>o, <2>1 DEF FailRunIsLost
<1>16. CASE HandlerReturns
  <2>1. cur \in Runs /\ phase[cur] = "held" /\ work[cur] \in Nat
    BY <1>16, CurIs DEF HandlerReturns, TypeInv, TypeOK
  <2>2. work'[cur] > 0 /\ UNCHANGED phase
    BY <1>16, <2>1 DEF HandlerReturns, Job!Work, TypeInv, TypeOK
  <2> QED
    BY <1>16, <1>0, <2>1, <2>2 DEF HandlerReturns, JobInv, TypeInv
<1>e. ASSUME PutDown, UNCHANGED <<status, work>>,
             \A q \in Runs : phase'[q] = "none" <=> phase[q] = "none",
             dispatching' \subseteq dispatching
      PROVE  JobInv'
  BY <1>e DEF PutDown, JobInv, TypeInv
<1>17. CASE SettleJob
  <2>1. pc # "idle" /\ cur \in Runs /\ phase[cur] = "held"
    BY <1>17, CurIs DEF SettleJob
  <2>2. UNCHANGED work /\ \E f \in {"finished", "queued", "abandoned"} : phase' = [phase EXCEPT ![cur] = f]
    BY <1>17 DEF SettleJob, Job!Finish, Job!PutBack, Job!Abandon
  <2>3. \A q \in Runs : phase'[q] = "none" <=> phase[q] = "none"
    BY <2>1, <2>2 DEF TypeInv, TypeOK
  <2> QED
    BY <1>17, <1>e, <2>2, <2>3 DEF SettleJob
<1>18. CASE SettleIsLost
  BY <1>18, <1>e DEF SettleIsLost
<1>19. CASE CrashAndRestart
  BY <1>19, <1>e DEF CrashAndRestart, Job!LoseHolder
<1> QED
  BY <1>1, <1>2, <1>3, <1>4, <1>5, <1>6, <1>7, <1>8, <1>9, <1>10, <1>11, <1>12, <1>13,
     <1>14, <1>15, <1>16, <1>17, <1>18, <1>19 DEF Next, HandlerStep

(* At the start there is no run and no job.                                *)
LEMMA RunInitTyped == Init => TypeInv
<1>1. NoScores \in [Pairs -> [ok : Nat, bad : Nat]]
  BY DEF NoScores, NoScore
<1> QED
  BY <1>1, EvalRunsAssumption DEF Init, TypeInv, TypeOK, JobInv

(* The type invariant is inductive, also over the edits that SessionRuns   *)
(* adds.                                                                   *)
LEMMA NextKeepsTypes == TypeInv /\ ([Next]_vars \/ EditElsewhere) => TypeInv'
<1>1. ASSUME TypeInv, UNCHANGED vars PROVE TypeInv'
  BY <1>1 DEF vars, jobVars, rowVars, scoreVars, handlerVars, TypeInv, TypeOK, JobInv
<1>2. ASSUME TypeInv, EditElsewhere PROVE TypeInv'
  BY <1>2, EvalRunsAssumption
  DEF EditElsewhere, jobVars, rowVars, scoreVars, handlerVars, TypeInv, TypeOK, JobInv
<1> QED
  BY <1>1, <1>2, NextKeepsTypeOK, NextKeepsJobInv DEF TypeInv

(* Runs are well typed, however attempts, crashes and users interleave.    *)
THEOREM TypeCorrect == Spec => []TypeOK
<1>1. TypeInv => TypeOK
  BY DEF TypeInv
<1> QED
  BY <1>1, RunInitTyped, NextKeepsTypes, PTL DEF Spec

-----------------------------------------------------------------------------
(* The counters of a run agree with its scores.                            *)

PlannedFor(r, t) == {p \in plan[r] : p[1] = t}
Scored(r, t) == {p \in plan[r] : p[1] = t /\ scores[r][p] # NoScore}
ScoredTraces(r) == {t \in Traces : Scored(r, t) # {}}

\* what CountersMatchScores says of one run
RunCounts(r) ==
    /\ Cardinality(FailedPairs(r)) <= failed[r]
    /\ Cardinality(ScoredTraces(r)) <= evaluated[r]
    /\ \A p \in Pairs : scores[r][p].ok + scores[r][p].bad <= IF p \in plan[r] THEN 1 ELSE 0
    /\ r \notin touched =>
          /\ failed[r] = Cardinality(FailedPairs(r))
          /\ \A t \in Traces : Scored(r, t) \in {{}, PlannedFor(r, t)}
    /\ status[r] = "DELETED" => scores[r] = NoScores

(* CountersMatchScores, now and after a step, run by run.                  *)
LEMMA CountersAre ==
    /\ CountersMatchScores <=> \A r \in Runs : RunCounts(r)
    /\ CountersMatchScores' <=> \A r \in Runs : RunCounts(r)'
  BY DEF CountersMatchScores, RunCounts, Scored, ScoredTraces, PlannedFor

(* A run has no scores before it exists, and while an attempt goes through *)
(* the traces, those that are left have none.                              *)
Scoring ==
    /\ \A r \in Runs : RunCounts(r)
    /\ \A r \in Runs : status[r] = "ABSENT" => scores[r] = NoScores
    /\ pc = "scoring" => /\ todo \subseteq TracesOf(plan[cur])
                         /\ \A p \in Pairs : p[1] \in todo => scores[cur][p] = NoScore

(* A run that nothing happens to.                                          *)
LEMMA RunAside ==
    ASSUME NEW r \in Runs, RunCounts(r),
           scores'[r] = scores[r], failed'[r] = failed[r], evaluated'[r] = evaluated[r],
           plan'[r] = plan[r], r \in touched => r \in touched',
           status'[r] = "DELETED" => status[r] = "DELETED"
    PROVE  RunCounts(r)'
<1>1. /\ FailedPairs(r)' = FailedPairs(r)
      /\ ScoredTraces(r)' = ScoredTraces(r)
      /\ \A t : Scored(r, t)' = Scored(r, t) /\ PlannedFor(r, t)' = PlannedFor(r, t)
  BY DEF FailedPairs, ScoredTraces, Scored, PlannedFor
<1> QED
  BY <1>1 DEF RunCounts

(* A run without scores.                                                   *)
LEMMA RunEmpty ==
    ASSUME TypeOK', NEW r \in Runs, scores'[r] = NoScores, r \notin touched' => failed'[r] = 0
    PROVE  RunCounts(r)'
<1>1. \A p \in Pairs : scores'[r][p] = NoScore
  BY DEF NoScores
<1>2. FailedPairs(r)' = {} /\ NoScore.ok = 0 /\ NoScore.bad = 0
  BY <1>1 DEF FailedPairs, NoScore
<1>3. \A t : Scored(r, t)' = {}
  BY <1>1 DEF Scored, TypeOK
<1>4. ScoredTraces(r)' = {}
  BY <1>3 DEF ScoredTraces
<1>5. failed'[r] \in Nat /\ evaluated'[r] \in Nat
  BY DEF TypeOK
<1>6. Cardinality({}) = 0
  BY FS_EmptySet
<1> QED
  BY <1>1, <1>2, <1>3, <1>4, <1>5, <1>6 DEF RunCounts

(* Users take scores away or make them better.                             *)
LEMMA RunEdited ==
    ASSUME TypeOK, TypeOK', NEW r \in Runs, RunCounts(r),
           \A p \in Pairs :
               /\ scores'[r][p].bad > 0 => scores[r][p].bad > 0
               /\ scores'[r][p] # NoScore => scores[r][p] # NoScore
               /\ scores'[r][p].ok + scores'[r][p].bad <= scores[r][p].ok + scores[r][p].bad,
           scores'[r] # scores[r] => r \in touched', r \in touched => r \in touched',
           UNCHANGED <<plan, status, evaluated, failed>>
    PROVE  RunCounts(r)'
<1>1. CASE scores'[r] = scores[r]
  BY <1>1, RunAside
<1>2. CASE scores'[r] # scores[r]
  <2>1. FailedPairs(r)' \in SUBSET FailedPairs(r) /\ FailedPairs(r) \in SUBSET Pairs
    BY DEF FailedPairs
  <2>2. \A t : Scored(r, t)' \subseteq Scored(r, t)
    BY DEF Scored, TypeOK
  <2>3. ScoredTraces(r)' \in SUBSET ScoredTraces(r) /\ ScoredTraces(r) \in SUBSET Traces
    BY <2>2 DEF ScoredTraces
  <2>4. /\ Cardinality(FailedPairs(r)') <= Cardinality(FailedPairs(r))
        /\ Cardinality(ScoredTraces(r)') <= Cardinality(ScoredTraces(r))
        /\ Cardinality(FailedPairs(r)') \in Nat /\ Cardinality(FailedPairs(r)) \in Nat
        /\ Cardinality(ScoredTraces(r)') \in Nat /\ Cardinality(ScoredTraces(r)) \in Nat
    BY <2>1, <2>3, Countable, Fewer
  <2>5. failed[r] \in Nat /\ evaluated[r] \in Nat
    BY DEF TypeOK
  <2>6. ASSUME NEW p \in Pairs
        PROVE  scores'[r][p].ok + scores'[r][p].bad <= IF p \in plan'[r] THEN 1 ELSE 0
    <3>1. /\ scores'[r][p].ok + scores'[r][p].bad <= scores[r][p].ok + scores[r][p].bad
          /\ scores[r][p].ok + scores[r][p].bad <= IF p \in plan[r] THEN 1 ELSE 0
          /\ scores[r][p].ok \in Nat /\ scores[r][p].bad \in Nat
          /\ scores'[r][p].ok \in Nat /\ scores'[r][p].bad \in Nat
      BY DEF RunCounts, TypeOK
    <3> QED
      BY <3>1
  <2>7. status'[r] = "DELETED" => scores'[r] = NoScores
    <3> SUFFICES ASSUME status[r] = "DELETED" PROVE scores'[r] = NoScores
      OBVIOUS
    <3>1. \A p \in Pairs : scores[r][p] = NoScore
      BY DEF RunCounts, NoScores
    <3>2. \A p \in Pairs : scores'[r][p] = NoScore
      BY <3>1
    <3> QED
      BY <3>2 DEF TypeOK, NoScores
  <2> QED
    BY <1>2, <2>4, <2>5, <2>6, <2>7 DEF RunCounts
<1> QED
  BY <1>1, <1>2

(* What a transaction does to the scores of the run.                       *)
LEMMA ScoresOfTrace ==
    ASSUME TypeInv, NEW bad \in SUBSET Pairs, ScoreTrace(bad), Exists(cur)
    PROVE  /\ \A p \in Pairs :
                 /\ scores'[cur][p].ok = scores[cur][p].ok + (IF p \in PairsToScore \ bad THEN 1 ELSE 0)
                 /\ scores'[cur][p].bad = scores[cur][p].bad + (IF p \in bad THEN 1 ELSE 0)
                 /\ p \notin PairsToScore => scores'[cur][p] = scores[cur][p]
           /\ \A q \in Runs : q # cur => scores'[q] = scores[q]
           /\ failed' = [failed EXCEPT ![cur] = @ + Cardinality(bad)]
           /\ evaluated' = [evaluated EXCEPT ![cur] = @ + 1]
           /\ todo' = todo \ {NextTrace} /\ pc' = "scoring" /\ todo # {} /\ bad \subseteq PairsToScore
           /\ cur \in Runs /\ pc = "scoring" /\ UNCHANGED <<plan, status, touched, cur>>
<1> DEFINE more(p) == [ok |-> scores[cur][p].ok + (IF p \in PairsToScore \ bad THEN 1 ELSE 0),
                       bad |-> scores[cur][p].bad + (IF p \in bad THEN 1 ELSE 0)]
<1>1. cur \in Runs /\ pc = "scoring"
  BY CurIs DEF ScoreTrace
<1>2. scores' = [scores EXCEPT ![cur] = [p \in Pairs |-> more(p)]]
  BY DEF ScoreTrace
<1>3. \A p \in Pairs : /\ more(p).ok = scores[cur][p].ok + (IF p \in PairsToScore \ bad THEN 1 ELSE 0)
                       /\ more(p).bad = scores[cur][p].bad + (IF p \in bad THEN 1 ELSE 0)
  OBVIOUS
<1>4. bad \subseteq PairsToScore
  BY DEF ScoreTrace
<1>5. ASSUME NEW p \in Pairs, p \notin PairsToScore PROVE more(p) = scores[cur][p]
  <2>1. scores[cur][p] \in [ok : Nat, bad : Nat]
    BY <1>1 DEF TypeInv, TypeOK
  <2>2. p \notin bad /\ p \notin PairsToScore \ bad
    BY <1>4, <1>5
  <2> QED
    BY <2>1, <2>2
<1> HIDE DEF more
<1>6. /\ \A p \in Pairs : scores'[cur][p] = more(p)
      /\ \A q \in Runs : q # cur => scores'[q] = scores[q]
  BY <1>1, <1>2 DEF TypeInv, TypeOK
<1>7. /\ failed' = [failed EXCEPT ![cur] = @ + Cardinality(bad)]
      /\ evaluated' = [evaluated EXCEPT ![cur] = @ + 1]
      /\ todo' = todo \ {NextTrace} /\ pc' = "scoring" /\ todo # {}
      /\ UNCHANGED <<plan, status, touched, cur>>
  BY DEF ScoreTrace
<1> QED
  BY <1>1, <1>3, <1>4, <1>5, <1>6, <1>7

(* A transaction adds the scores of a trace that had none.                 *)
LEMMA TraceScored ==
    ASSUME TypeInv, TypeOK', Scoring, NEW bad \in SUBSET Pairs, ScoreTrace(bad), Exists(cur)
    PROVE  Scoring'
<1>s. /\ \A p \in Pairs :
            /\ scores'[cur][p].ok = scores[cur][p].ok + (IF p \in PairsToScore \ bad THEN 1 ELSE 0)
            /\ scores'[cur][p].bad = scores[cur][p].bad + (IF p \in bad THEN 1 ELSE 0)
            /\ p \notin PairsToScore => scores'[cur][p] = scores[cur][p]
      /\ \A q \in Runs : q # cur => scores'[q] = scores[q]
      /\ failed' = [failed EXCEPT ![cur] = @ + Cardinality(bad)]
      /\ evaluated' = [evaluated EXCEPT ![cur] = @ + 1]
      /\ todo' = todo \ {NextTrace} /\ pc' = "scoring" /\ todo # {} /\ bad \subseteq PairsToScore
      /\ cur \in Runs /\ pc = "scoring" /\ UNCHANGED <<plan, status, touched, cur>>
  BY ScoresOfTrace
<1>r. PICK r \in Runs : r = cur
  BY <1>s
<1>n. PICK n \in Traces : n = NextTrace /\ n \in todo
  BY <1>s, NextTraceIs DEF TypeInv
<1>p. PICK P \in SUBSET Pairs : P = PairsToScore /\ P = {p \in plan[r] : p[1] = n}
  BY <1>r, <1>n, <1>s, NextTraceIs DEF PairsToScore, TypeInv
<1>0. \A p \in P : scores[r][p] = NoScore
  BY <1>r, <1>n, <1>p, <1>s DEF Scoring
<1>1. \A p \in P : /\ scores'[r][p].ok = IF p \in bad THEN 0 ELSE 1
                   /\ scores'[r][p].bad = IF p \in bad THEN 1 ELSE 0
                   /\ scores'[r][p] # NoScore
  BY <1>0, <1>r, <1>p, <1>s DEF NoScore
<1>2. \A p \in Pairs : p \notin P => scores'[r][p] = scores[r][p]
  BY <1>r, <1>p, <1>s
<1>3. bad \subseteq P
  BY <1>p, <1>s
<1>4. FailedPairs(r)' = FailedPairs(r) \cup bad /\ FailedPairs(r) \cap bad = {}
      /\ FailedPairs(r) \in SUBSET Pairs
  BY <1>0, <1>1, <1>2, <1>3 DEF FailedPairs, NoScore
<1>5. Cardinality(FailedPairs(r)') = Cardinality(FailedPairs(r)) + Cardinality(bad)
      /\ Cardinality(FailedPairs(r)) \in Nat /\ Cardinality(bad) \in Nat
  <2>1. /\ IsFiniteSet(FailedPairs(r)) /\ IsFiniteSet(bad)
        /\ Cardinality(FailedPairs(r)) \in Nat /\ Cardinality(bad) \in Nat
    BY <1>4, Countable
  <2>2. Cardinality(FailedPairs(r) \cup bad)
            = Cardinality(FailedPairs(r)) + Cardinality(bad) - Cardinality(FailedPairs(r) \cap bad)
    BY <2>1, FS_Union
  <2>3. Cardinality(FailedPairs(r) \cap bad) = 0
    BY <1>4, FS_EmptySet
  <2> QED
    BY <1>4, <2>1, <2>2, <2>3
<1>6. \A t \in Traces : Scored(r, t)' = IF t = n THEN PlannedFor(r, n) ELSE Scored(r, t)
  <2> SUFFICES ASSUME NEW t \in Traces
               PROVE  Scored(r, t)' = IF t = n THEN PlannedFor(r, n) ELSE Scored(r, t)
    OBVIOUS
  <2>0. plan'[r] = plan[r] /\ plan[r] \subseteq Pairs
    BY <1>s DEF TypeInv, TypeOK
  <2>1. CASE t = n
    BY <1>p, <1>1, <2>0, <2>1 DEF Scored, PlannedFor
  <2>2. CASE t # n
    BY <1>p, <1>2, <2>0, <2>2 DEF Scored
  <2> QED
    BY <2>1, <2>2
<1>7. ScoredTraces(r)' \in SUBSET (ScoredTraces(r) \cup {n}) /\ ScoredTraces(r) \in SUBSET Traces
  BY <1>6 DEF ScoredTraces
<1>8. Cardinality(ScoredTraces(r)') <= Cardinality(ScoredTraces(r)) + 1
      /\ Cardinality(ScoredTraces(r)) \in Nat /\ Cardinality(ScoredTraces(r)') \in Nat
  <2>1. IsFiniteSet(ScoredTraces(r)) /\ Cardinality(ScoredTraces(r)) \in Nat
    BY <1>7, Countable
  <2>2. /\ IsFiniteSet(ScoredTraces(r) \cup {n})
        /\ Cardinality(ScoredTraces(r) \cup {n}) <= Cardinality(ScoredTraces(r)) + 1
        /\ Cardinality(ScoredTraces(r) \cup {n}) \in Nat
    BY <2>1, FS_AddElement
  <2>3. Cardinality(ScoredTraces(r)') <= Cardinality(ScoredTraces(r) \cup {n})
        /\ Cardinality(ScoredTraces(r)') \in Nat
    BY <1>7, <2>2, Fewer
  <2> QED
    BY <2>1, <2>2, <2>3
<1>9. RunCounts(r)'
  <2>0. RunCounts(r)
    BY DEF Scoring
  <2>1. /\ failed'[r] = failed[r] + Cardinality(bad) /\ failed[r] \in Nat
        /\ evaluated'[r] = evaluated[r] + 1 /\ evaluated[r] \in Nat
        /\ (r \in touched' <=> r \in touched) /\ status'[r] # "DELETED" /\ plan'[r] = plan[r]
    BY <1>r, <1>s DEF TypeInv, TypeOK, Exists
  <2>2. ASSUME NEW p \in Pairs
        PROVE  scores'[r][p].ok + scores'[r][p].bad <= IF p \in plan'[r] THEN 1 ELSE 0
    <3>1. CASE p \in P
      <4>1. p \in plan'[r]
        BY <1>p, <2>1, <3>1
      <4> QED
        BY <1>1, <3>1, <4>1
    <3>2. CASE p \notin P
      BY <1>2, <2>0, <2>1, <3>2 DEF RunCounts
    <3> QED
      BY <3>1, <3>2
  <2>3. Cardinality(FailedPairs(r)') <= failed'[r] /\ Cardinality(ScoredTraces(r)') <= evaluated'[r]
    BY <1>5, <1>8, <2>0, <2>1 DEF RunCounts
  <2>4. ASSUME r \notin touched'
        PROVE  /\ failed'[r] = Cardinality(FailedPairs(r)')
               /\ \A t \in Traces : Scored(r, t)' \in {{}, PlannedFor(r, t)'}
    <3>1. /\ failed[r] = Cardinality(FailedPairs(r))
          /\ \A t \in Traces : Scored(r, t) \in {{}, PlannedFor(r, t)}
      BY <2>0, <2>1, <2>4 DEF RunCounts
    <3>2. \A t : PlannedFor(r, t)' = PlannedFor(r, t)
      BY <2>1 DEF PlannedFor
    <3> QED
      BY <1>5, <1>6, <2>1, <3>1, <3>2
  <2> QED
    BY <2>1, <2>2, <2>3, <2>4 DEF RunCounts
<1>10. ASSUME NEW q \in Runs, q # r PROVE RunCounts(q)'
  BY <1>r, <1>s, <1>10, RunAside DEF Scoring, TypeInv, TypeOK
<1>11. \A p \in Pairs : p[1] \in todo' => scores'[r][p] = NoScore
  <2> SUFFICES ASSUME NEW p \in Pairs, p[1] \in todo' PROVE scores'[r][p] = NoScore
    OBVIOUS
  <2>1. p[1] \in todo /\ p[1] # n
    BY <1>n, <1>s
  <2>2. p \notin P /\ scores[r][p] = NoScore
    BY <1>p, <1>r, <1>s, <2>1 DEF Scoring
  <2> QED
    BY <1>2, <2>2
<1>12. todo' \subseteq TracesOf(plan[r])
  BY <1>r, <1>s DEF Scoring
<1>13. \A q \in Runs : status'[q] = "ABSENT" => scores'[q] = NoScores
  BY <1>r, <1>s, CurIs DEF Scoring
<1> QED
  BY <1>r, <1>s, <1>9, <1>10, <1>11, <1>12, <1>13 DEF Scoring, TracesOf

(* Scoring is inductive: counters and scores grow together, and only for   *)
(* traces still to do.                                                     *)
LEMMA NextKeepsScoring ==
    TypeInv /\ Scoring /\ ([Next]_vars \/ EditElsewhere) => Scoring'
<1> SUFFICES ASSUME TypeInv, Scoring, [Next]_vars \/ EditElsewhere PROVE Scoring'
  OBVIOUS
<1> USE DEF rowVars, scoreVars, handlerVars, jobVars
<1>0. TypeInv' /\ TypeOK /\ TypeOK'
  BY NextKeepsTypes DEF TypeInv
<1>a. ASSUME UNCHANGED <<plan, scores, evaluated, failed, touched>>,
             \A r \in Runs : \/ status'[r] = status[r]
                             \/ status[r] # "ABSENT" /\ status'[r] \notin {"ABSENT", "DELETED"},
             pc' = "scoring" => pc = "scoring" /\ UNCHANGED <<cur, todo>>
      PROVE  Scoring'
  BY <1>a, RunAside DEF Scoring, TracesOf
<1>i. ASSUME NEW r \in Runs, NEW pairs \in SUBSET Pairs, Insert(r, pairs) PROVE Scoring'
  <2>2. status[r] = "ABSENT" /\ scores[r] = NoScores /\ (pc = "scoring" => r # cur)
    BY <1>i, CurIs DEF Insert, Scoring
  <2>3. r \notin touched => failed[r] = 0
    <3>1. FailedPairs(r) = {}
      BY <2>2 DEF FailedPairs, NoScores, NoScore
    <3> QED
      BY <3>1, FS_EmptySet DEF Scoring, RunCounts
  <2>4. UNCHANGED <<scores, evaluated, failed, touched, pc, cur, todo>>
        /\ \A q \in Runs : q # r => plan'[q] = plan[q] /\ status'[q] = status[q]
    BY <1>i, <1>0 DEF Insert, TypeOK
  <2>5. RunCounts(r)'
    BY <1>0, <2>2, <2>3, <2>4, RunEmpty
  <2>6. \A q \in Runs : q # r => RunCounts(q)'
    BY <2>4, RunAside DEF Scoring
  <2>7. pc = "scoring" => plan'[cur] = plan[cur]
    BY <2>2, <2>4, CurIs
  <2> QED
    BY <2>2, <2>4, <2>5, <2>6, <2>7 DEF Scoring, TracesOf
<1>1. ASSUME NEW r \in Runs, NEW n \in 0..Targets, CreateRun(r, n) PROVE Scoring'
  <2>1. (1..n) \X Metrics \in SUBSET Pairs
    BY EvalRunsAssumption DEF Pairs, Traces
  <2> QED
    BY <1>1, <1>i, <2>1 DEF CreateRun
<1>2. ASSUME NEW r \in Runs, NEW pairs \in SUBSET Pairs, RetryFailed(r, pairs) PROVE Scoring'
  BY <1>2, <1>i DEF RetryFailed
<1>3. ASSUME NEW r \in Runs, Dispatch(r) \/ DispatchFails(r) PROVE Scoring'
  BY <1>3, <1>a DEF Dispatch, DispatchFails
<1>4. ASSUME NEW r \in Runs, DeleteRun(r) PROVE Scoring'
  <2>1. /\ scores' = [scores EXCEPT ![r] = NoScores] /\ failed' = [failed EXCEPT ![r] = 0]
        /\ evaluated' = [evaluated EXCEPT ![r] = 0] /\ status' = [status EXCEPT ![r] = "DELETED"]
        /\ UNCHANGED <<plan, touched, pc, cur, todo>>
    BY <1>4 DEF DeleteRun
  <2>2. scores'[r] = NoScores /\ failed'[r] = 0 /\ status'[r] = "DELETED"
    BY <1>0, <2>1 DEF TypeOK
  <2>3. \A q \in Runs : q # r => /\ scores'[q] = scores[q] /\ failed'[q] = failed[q]
                                 /\ evaluated'[q] = evaluated[q] /\ status'[q] = status[q]
    BY <1>0, <2>1 DEF TypeOK
  <2>4. RunCounts(r)'
    BY <1>0, <2>2, RunEmpty
  <2>5. \A q \in Runs : q # r => RunCounts(q)'
    BY <2>1, <2>3, RunAside DEF Scoring
  <2>6. \A p \in Pairs : NoScores[p] = NoScore
    BY DEF NoScores
  <2>7. pc = "scoring" => cur \in Runs
    BY CurIs
  <2> QED
    BY <2>1, <2>2, <2>3, <2>4, <2>5, <2>6, <2>7 DEF Scoring, TracesOf
<1>s. ASSUME NEW s, SetScores(s),
             \A r \in Runs, p \in Pairs :
                 /\ s[r][p].bad > 0 => scores[r][p].bad > 0
                 /\ s[r][p] # NoScore => scores[r][p] # NoScore
                 /\ s[r][p].ok + s[r][p].bad <= scores[r][p].ok + scores[r][p].bad
      PROVE  Scoring'
  <2>1. /\ scores' = s /\ touched' = touched \cup {r \in Runs : s[r] # scores[r]}
        /\ UNCHANGED <<plan, status, evaluated, failed, cur, pc, todo>>
    BY <1>s DEF SetScores
  <2>2. \A r \in Runs : RunCounts(r)'
    BY <1>0, <1>s, <2>1, RunEdited DEF Scoring
  <2>3. \A r \in Runs : scores[r] = NoScores => scores'[r] = NoScores
    <3> SUFFICES ASSUME NEW r \in Runs, scores[r] = NoScores PROVE scores'[r] = NoScores
      OBVIOUS
    <3>1. \A p \in Pairs : scores'[r][p] = NoScore
      BY <1>s, <2>1 DEF NoScores
    <3> QED
      BY <1>0, <3>1 DEF TypeOK, NoScores
  <2>4. pc = "scoring" => \A p \in Pairs : p[1] \in todo => scores'[cur][p] = NoScore
    BY <1>s, <2>1, CurIs DEF Scoring
  <2> QED
    BY <2>1, <2>2, <2>3, <2>4 DEF Scoring
<1>5. ASSUME NEW r \in Runs, NEW p \in Pairs, UpdateScore(r, p) PROVE Scoring'
  <2> DEFINE better == [ok |-> scores[r][p].ok + 1, bad |-> scores[r][p].bad - 1]
             s == [scores EXCEPT ![r][p] = better]
  <2>1. scores[r][p].ok \in Nat /\ scores[r][p].bad \in Nat /\ scores[r][p].bad > 0
    BY <1>0, <1>5 DEF UpdateScore, TypeOK
  <2>2. better.ok = scores[r][p].ok + 1 /\ better.bad = scores[r][p].bad - 1
    OBVIOUS
  <2>3. SetScores(s)
    BY <1>5 DEF UpdateScore
  <2> HIDE DEF better
  <2>4. \A q \in Runs, x \in Pairs :
            s[q][x] = IF q = r /\ x = p THEN better ELSE scores[q][x]
    BY <1>0 DEF TypeOK
  <2>5. \A q \in Runs, x \in Pairs : scores[q][x].ok \in Nat /\ scores[q][x].bad \in Nat
    BY <1>0 DEF TypeOK
  <2> HIDE DEF s
  <2>6. scores[r][p] # NoScore
    BY <2>1 DEF NoScore
  <2>7. \A q \in Runs, x \in Pairs :
            /\ s[q][x].bad > 0 => scores[q][x].bad > 0
            /\ s[q][x] # NoScore => scores[q][x] # NoScore
            /\ s[q][x].ok + s[q][x].bad <= scores[q][x].ok + scores[q][x].bad
    BY <2>1, <2>2, <2>4, <2>5, <2>6
  <2> QED
    BY <1>s, <2>3, <2>7
<1>d. ASSUME NEW s, SetScores(s), \A r \in Runs, p \in Pairs : s[r][p] \in {scores[r][p], NoScore}
      PROVE  Scoring'
  <2>1. \A q \in Runs, x \in Pairs : scores[q][x].ok \in Nat /\ scores[q][x].bad \in Nat
    BY <1>0 DEF TypeOK
  <2>2. NoScore.ok = 0 /\ NoScore.bad = 0
    BY DEF NoScore
  <2>3. \A q \in Runs, x \in Pairs :
            /\ s[q][x].bad > 0 => scores[q][x].bad > 0
            /\ s[q][x] # NoScore => scores[q][x] # NoScore
            /\ s[q][x].ok + s[q][x].bad <= scores[q][x].ok + scores[q][x].bad
    BY <1>d, <2>1, <2>2
  <2> QED
    BY <1>d, <1>s, <2>3
<1>6. ASSUME NEW r \in Runs, NEW p \in Pairs, DeleteScore(r, p) PROVE Scoring'
  <2>1. \A q \in Runs, x \in Pairs : [scores EXCEPT ![r][p] = NoScore][q][x] \in {scores[q][x], NoScore}
    BY <1>0 DEF TypeOK
  <2> QED
    BY <1>6, <1>d, <2>1 DEF DeleteScore
<1>7. ASSUME NEW t \in Traces, DeleteTrace(t) PROVE Scoring'
  BY <1>7, <1>d DEF DeleteTrace
<1>8. ASSUME NEW r \in Runs, TakeJob(r) PROVE Scoring'
  BY <1>8, <1>a DEF TakeJob
<1>9. CASE Setup
  <2>0. PICK r \in Runs : r = cur /\ status[r] # "ABSENT"
    BY <1>9, CurIs DEF Setup
  <2>1. /\ scores' = [scores EXCEPT ![r] = NoScores] /\ failed' = [failed EXCEPT ![r] = 0]
        /\ evaluated' = [evaluated EXCEPT ![r] = 0] /\ touched' = touched \ {r}
        /\ todo' = TracesOf(plan[r]) /\ UNCHANGED <<plan, cur>> /\ SetStatus(r, "RUNNING")
    BY <1>9, <2>0 DEF Setup
  <2>2. scores'[r] = NoScores /\ failed'[r] = 0
    BY <1>0, <2>1 DEF TypeOK
  <2>3. \A q \in Runs : q # r => /\ scores'[q] = scores[q] /\ failed'[q] = failed[q]
                                 /\ evaluated'[q] = evaluated[q] /\ status'[q] = status[q]
                                 /\ (q \in touched' <=> q \in touched)
    BY <1>0, <2>1, SetStatusIs DEF TypeOK
  <2>4. status'[r] # "ABSENT"
    BY <1>0, <2>0, <2>1, SetStatusIs
  <2>5. RunCounts(r)'
    BY <1>0, <2>2, RunEmpty
  <2>6. \A q \in Runs : q # r => RunCounts(q)'
    BY <2>1, <2>3, RunAside DEF Scoring
  <2>7. \A p \in Pairs : NoScores[p] = NoScore
    BY DEF NoScores
  <2> QED
    BY <2>0, <2>1, <2>2, <2>3, <2>4, <2>5, <2>6, <2>7 DEF Scoring, TracesOf
<1>10. ASSUME NEW bad \in SUBSET Pairs, ScoreTrace(bad) PROVE Scoring'
  <2>1. CASE Exists(cur)
    BY <1>0, <1>10, <2>1, TraceScored
  <2>2. CASE ~Exists(cur)
    BY <1>10, <2>2, <1>a DEF ScoreTrace
  <2> QED
    BY <2>1, <2>2
<1>11. CASE MissingTrace
  <2>0. PICK r \in Runs : r = cur
    BY <1>11, CurIs DEF MissingTrace
  <2>1. /\ UNCHANGED <<plan, status, scores, failed, touched, cur, pc>> /\ todo' \subseteq todo
        /\ \A q \in Runs : evaluated'[q] = evaluated[q] \/ evaluated'[q] = evaluated[q] + 1
    BY <1>0, <1>11, <2>0 DEF MissingTrace, TypeOK
  <2>2. ASSUME NEW q \in Runs PROVE RunCounts(q)'
    <3>1. /\ FailedPairs(q)' = FailedPairs(q)
          /\ ScoredTraces(q)' = ScoredTraces(q)
          /\ \A t : Scored(q, t)' = Scored(q, t) /\ PlannedFor(q, t)' = PlannedFor(q, t)
      BY <2>1 DEF FailedPairs, ScoredTraces, Scored, PlannedFor
    <3>2. Cardinality(ScoredTraces(q)) <= evaluated'[q]
      <4>1. Cardinality(ScoredTraces(q)) \in Nat /\ evaluated[q] \in Nat
        BY <1>0, Countable DEF ScoredTraces, TypeOK
      <4>2. Cardinality(ScoredTraces(q)) <= evaluated[q]
        BY DEF Scoring, RunCounts
      <4> QED
        BY <2>1, <4>1, <4>2
    <3> QED
      BY <2>1, <3>1, <3>2 DEF Scoring, RunCounts
  <2> QED
    BY <2>1, <2>2 DEF Scoring, TracesOf
<1>m. ASSUME NEW s \in {"COMPLETED", "FAILED"}, SetStatus(cur, s), pc # "idle"
      PROVE  \A r \in Runs : \/ status'[r] = status[r]
                             \/ status[r] # "ABSENT" /\ status'[r] \notin {"ABSENT", "DELETED"}
  <2>1. cur \in Runs
    BY <1>m, CurIs
  <2> QED
    BY <1>0, <1>m, <2>1, SetStatusIs DEF Exists
<1>12. CASE CompleteRun
  BY <1>12, <1>m, <1>a DEF CompleteRun
<1>13. CASE FailRun
  <2>1. pc # "idle" /\ pc' # "scoring" /\ SetStatus(cur, "FAILED")
    BY <1>13 DEF FailRun
  <2> QED
    BY <1>13, <1>m, <1>a, <2>1 DEF FailRun
<1>14. CASE HandlerReturns
  BY <1>14, <1>a DEF HandlerReturns
<1>15. ASSUME NEW e \in {"error", "timeout"}, HandlerRaises(e) PROVE Scoring'
  BY <1>15, <1>a DEF HandlerRaises
<1>16. CASE FailRunIsLost
  <2>1. pc' # "scoring"
    BY <1>16 DEF FailRunIsLost
  <2> QED
    BY <1>16, <1>a, <2>1 DEF FailRunIsLost
<1>17. CASE SettleJob \/ SettleIsLost \/ CrashAndRestart
  BY <1>17, <1>a DEF SettleJob, SettleIsLost, CrashAndRestart, PutDown
<1>18. CASE UNCHANGED vars \/ EditElsewhere
  BY <1>18, <1>a DEF vars, EditElsewhere
<1> QED
  BY <1>1, <1>2, <1>3, <1>4, <1>5, <1>6, <1>7, <1>8, <1>9, <1>10, <1>11, <1>12, <1>13,
     <1>14, <1>15, <1>16, <1>17, <1>18 DEF Next, HandlerStep

(* No run is being scored at the start.                                    *)
LEMMA InitScoring == Init => Scoring
<1> SUFFICES ASSUME Init PROVE Scoring
  OBVIOUS
<1>1. \A r \in Runs : scores[r] = NoScores /\ failed[r] = 0 /\ evaluated[r] = 0 /\ pc = "idle"
  BY DEF Init
<1>2. \A p \in Pairs : NoScores[p] = NoScore
  BY DEF NoScores
<1>3. TypeInv
  BY RunInitTyped
<1>4. ASSUME NEW r \in Runs PROVE RunCounts(r)
  <2>1. FailedPairs(r) = {} /\ ScoredTraces(r) = {} /\ \A t \in Traces : Scored(r, t) = {}
    <3>1. plan[r] \subseteq Pairs
      BY <1>3 DEF TypeInv, TypeOK
    <3> QED
      BY <1>1, <1>2, <3>1 DEF FailedPairs, ScoredTraces, Scored, NoScore
  <2>2. Cardinality(FailedPairs(r)) = 0 /\ Cardinality(ScoredTraces(r)) = 0
    BY <2>1, FS_EmptySet
  <2>3. \A p \in Pairs : scores[r][p].ok + scores[r][p].bad = 0
    BY <1>1, <1>2 DEF NoScore
  <2>4. plan[r] = {}
    BY DEF Init
  <2> QED
    BY <1>1, <2>1, <2>2, <2>3, <2>4 DEF RunCounts
<1> QED
  BY <1>1, <1>4 DEF Scoring, Init

(* However attempts, crashes, deletions and edits follow each other, the   *)
(* counters of a run agree with the rows of its scores.                    *)
THEOREM CountersCorrect == Spec => []CountersMatchScores
<1>1. Scoring => CountersMatchScores
  BY CountersAre DEF Scoring
<1> QED
  BY <1>1, InitScoring, RunInitTyped, NextKeepsTypes, NextKeepsScoring, PTL DEF Spec

-----------------------------------------------------------------------------
(* A run that is COMPLETED has gone through exactly its targets.           *)

(* An attempt that is scoring has counted the traces it has dealt with; the*)
(* COMPLETED it wrote stands until its job is settled.                     *)
Whole ==
    /\ pc = "scoring" =>
          /\ status[cur] \in {"RUNNING", "DELETED"}
          /\ status[cur] = "RUNNING" =>
                evaluated[cur] + Cardinality(todo) = Cardinality(TracesOf(plan[cur]))
    /\ pc \in {"done", "settleOk"} => status[cur] \in {"COMPLETED", "DELETED"}
    /\ CompletedIsWhole

\* what Whole says of the handler, and what CompletedIsWhole says of a run
Counting ==
    /\ pc = "scoring" =>
          /\ status[cur] \in {"RUNNING", "DELETED"}
          /\ status[cur] = "RUNNING" =>
                evaluated[cur] + Cardinality(todo) = Cardinality(TracesOf(plan[cur]))
    /\ pc \in {"done", "settleOk"} => status[cur] \in {"COMPLETED", "DELETED"}

RunWhole(r) ==
    /\ phase[r] = "finished" => status[r] \in {"COMPLETED", "DELETED"}
    /\ status[r] = "COMPLETED" => evaluated[r] = Cardinality(TracesOf(plan[r]))

(* Whole, now and after a step, run by run.                                *)
LEMMA WholeIs ==
    /\ Whole <=> Counting /\ \A r \in Runs : RunWhole(r)
    /\ Whole' <=> Counting' /\ \A r \in Runs : RunWhole(r)'
  BY DEF Whole, Counting, RunWhole, CompletedIsWhole

(* One trace less is left, whichever way it has been dealt with.           *)
LEMMA TraceDealtWith ==
    ASSUME TypeInv, Counting, pc = "scoring", todo # {}, todo' = todo \ {NextTrace},
           UNCHANGED <<status, plan, cur>>, pc' = "scoring",
           evaluated' = IF Exists(cur) THEN [evaluated EXCEPT ![cur] = @ + 1] ELSE evaluated
    PROVE  /\ Counting'
           /\ \A r \in Runs : RunWhole(r) /\ UNCHANGED phase => RunWhole(r)'
<1>0. cur \in Runs /\ status[cur] \in {"RUNNING", "DELETED"}
  BY CurIs DEF Counting
<1>1. Cardinality(todo') = Cardinality(todo) - 1 /\ Cardinality(todo) \in Nat
  <2>1. todo \in SUBSET Traces /\ NextTrace \in todo
    BY <1>0, NextTraceIs DEF TypeInv, TypeOK
  <2> QED
    BY <2>1, Countable, FS_RemoveElement
<1>2. evaluated[cur] \in Nat
  BY <1>0 DEF TypeInv, TypeOK
<1>3. status[cur] = "RUNNING" => evaluated'[cur] = evaluated[cur] + 1
  BY <1>0 DEF Exists, TypeInv, TypeOK
<1>4. Counting'
  BY <1>0, <1>1, <1>2, <1>3 DEF Counting
<1>5. \A r \in Runs : status[r] # "COMPLETED" \/ evaluated'[r] = evaluated[r]
  BY <1>0 DEF TypeInv, TypeOK
<1> QED
  BY <1>4, <1>5 DEF RunWhole

(* Whole is inductive: what is counted and what is to do make the targets. *)
LEMMA NextKeepsWhole ==
    TypeInv /\ Whole /\ ([Next]_vars \/ EditElsewhere) => Whole'
<1> SUFFICES ASSUME TypeInv, Counting, \A r \in Runs : RunWhole(r), [Next]_vars \/ EditElsewhere
             PROVE  Counting' /\ \A r \in Runs : RunWhole(r)'
  BY WholeIs
<1> USE DEF rowVars, scoreVars, handlerVars, jobVars
<1>0. TypeOK /\ TypeOK'
  BY NextKeepsTypes DEF TypeInv
<1>a. ASSUME UNCHANGED <<plan, status, evaluated>>,
             \A r \in Runs : phase'[r] = "finished" => phase[r] = "finished",
             \/ pc' \notin {"scoring", "done", "settleOk"}
             \/ UNCHANGED <<cur, todo>> /\ (pc' = pc \/ (pc = "done" /\ pc' = "settleOk"))
      PROVE  Counting' /\ \A r \in Runs : RunWhole(r)'
  BY <1>a DEF Counting, RunWhole
<1>u. ASSUME UNCHANGED <<phase, plan, status, evaluated, cur, pc, todo>>
      PROVE  Counting' /\ \A r \in Runs : RunWhole(r)'
  BY <1>u DEF Counting, RunWhole
<1>i. ASSUME NEW r \in Runs, NEW pairs \in SUBSET Pairs, Insert(r, pairs)
      PROVE  Counting' /\ \A q \in Runs : RunWhole(q)'
  <2>1. /\ pc # "idle" => cur # r
        /\ phase[r] = "none" /\ status'[r] = "PENDING"
    BY <1>0, <1>i, CurIs DEF Insert, TypeInv, TypeOK, JobInv
  <2>2. \A q \in Runs : q # r => plan'[q] = plan[q] /\ status'[q] = status[q]
    BY <1>0, <1>i DEF Insert, TypeOK
  <2>3. UNCHANGED <<phase, evaluated, pc, cur, todo>>
    BY <1>i DEF Insert
  <2>4. pc # "idle" => cur \in Runs
    BY CurIs
  <2>5. pc # "idle" => plan'[cur] = plan[cur] /\ status'[cur] = status[cur]
    BY <2>1, <2>2, <2>4
  <2>6. Counting'
    BY <2>3, <2>5 DEF Counting
  <2> QED
    BY <2>1, <2>2, <2>3, <2>6 DEF RunWhole
<1>1. ASSUME NEW r \in Runs, NEW n \in 0..Targets, CreateRun(r, n)
      PROVE  Counting' /\ \A q \in Runs : RunWhole(q)'
  <2>1. (1..n) \X Metrics \in SUBSET Pairs
    BY EvalRunsAssumption DEF Pairs, Traces
  <2> QED
    BY <1>1, <1>i, <2>1 DEF CreateRun
<1>2. ASSUME NEW r \in Runs, NEW pairs \in SUBSET Pairs, RetryFailed(r, pairs)
      PROVE  Counting' /\ \A q \in Runs : RunWhole(q)'
  BY <1>2, <1>i DEF RetryFailed
<1>3. ASSUME NEW r \in Runs, Dispatch(r) \/ DispatchFails(r)
      PROVE  Counting' /\ \A q \in Runs : RunWhole(q)'
  <2>1. CASE Dispatch(r)
    <3>1. UNCHANGED <<plan, status, evaluated, cur, pc, todo>>
      BY <2>1 DEF Dispatch
    <3>2. \A q \in Runs : phase'[q] = "finished" => phase[q] = "finished"
      BY <1>0, <2>1 DEF Dispatch, Job!Submit, TypeOK
    <3> QED
      BY <1>a, <3>1, <3>2
  <2>2. CASE DispatchFails(r)
    BY <2>2, <1>u DEF DispatchFails
  <2> QED
    BY <1>3, <2>1, <2>2
<1>4. ASSUME NEW r \in Runs, DeleteRun(r) PROVE Counting' /\ \A q \in Runs : RunWhole(q)'
  <2>1. /\ status'[r] = "DELETED" /\ UNCHANGED <<phase, plan, pc, cur, todo>>
        /\ \A q \in Runs : q # r => status'[q] = status[q] /\ evaluated'[q] = evaluated[q]
    BY <1>0, <1>4 DEF DeleteRun, TypeOK
  <2>2. pc # "idle" => cur \in Runs
    BY CurIs
  <2> QED
    BY <2>1, <2>2 DEF Counting, RunWhole
<1>5. ASSUME NEW r \in Runs, NEW p \in Pairs, UpdateScore(r, p) \/ DeleteScore(r, p)
      PROVE  Counting' /\ \A q \in Runs : RunWhole(q)'
  BY <1>5, <1>u DEF UpdateScore, DeleteScore, SetScores
<1>6. ASSUME NEW t \in Traces, DeleteTrace(t) PROVE Counting' /\ \A q \in Runs : RunWhole(q)'
  BY <1>6, <1>u DEF DeleteTrace, SetScores
<1>7. ASSUME NEW r \in Runs, TakeJob(r) PROVE Counting' /\ \A q \in Runs : RunWhole(q)'
  BY <1>0, <1>7, <1>a DEF TakeJob, Job!Take, TypeOK
<1>m. ASSUME NEW s \in {"RUNNING", "COMPLETED", "FAILED"}, SetStatus(cur, s), pc # "idle",
             UNCHANGED <<phase, plan>>
      PROVE  /\ status'[cur] = IF Exists(cur) THEN s ELSE "DELETED"
             /\ \A q \in Runs : q # cur /\ evaluated'[q] = evaluated[q] => RunWhole(q)'
  <2>1. cur \in Runs /\ status[cur] # "ABSENT"
    BY <1>m, CurIs
  <2>2. \A q \in Runs : status'[q] = IF q = cur /\ Exists(cur) THEN s ELSE status[q]
    BY <1>0, <1>m, <2>1, SetStatusIs, Zenon
  <2>3. status'[cur] = IF Exists(cur) THEN s ELSE "DELETED"
    BY <2>1, <2>2 DEF Exists
  <2>4. ASSUME NEW q \in Runs, q # cur, evaluated'[q] = evaluated[q] PROVE RunWhole(q)'
    <3>1. RunWhole(q) /\ status'[q] = status[q] /\ phase'[q] = phase[q] /\ plan'[q] = plan[q]
      BY <1>m, <2>2, <2>4
    <3> QED
      BY <2>4, <3>1 DEF RunWhole, TracesOf
  <2> QED
    BY <2>3, <2>4
<1>8. CASE Setup
  <2>0. cur \in Runs /\ phase[cur] = "held"
    BY <1>8, CurIs DEF Setup
  <2>1. /\ evaluated' = [evaluated EXCEPT ![cur] = 0] /\ todo' = TracesOf(plan[cur])
        /\ pc' = IF Exists(cur) THEN "scoring" ELSE "error"
        /\ UNCHANGED <<phase, plan, cur>> /\ SetStatus(cur, "RUNNING") /\ pc # "idle"
    BY <1>8 DEF Setup
  <2>2. evaluated'[cur] = 0 /\ \A q \in Runs : q # cur => evaluated'[q] = evaluated[q]
    BY <1>0, <2>0, <2>1 DEF TypeOK
  <2>3. /\ status'[cur] = IF Exists(cur) THEN "RUNNING" ELSE "DELETED"
        /\ \A q \in Runs : q # cur => RunWhole(q)'
    BY <1>m, <2>1, <2>2
  <2>4. Cardinality(TracesOf(plan[cur])) \in Nat
    BY <1>0, <2>0, Countable DEF TypeOK
  <2>5. Counting'
    BY <2>1, <2>2, <2>3, <2>4 DEF Counting
  <2>6. RunWhole(cur) => \A q \in Runs : q = cur => RunWhole(q)'
    BY <2>0, <2>1, <2>3 DEF RunWhole
  <2> QED
    BY <2>0, <2>3, <2>5, <2>6
<1>9. ASSUME NEW bad \in SUBSET Pairs, ScoreTrace(bad) PROVE Counting' /\ \A q \in Runs : RunWhole(q)'
  <2>1. CASE Exists(cur)
    <3>1. /\ pc = "scoring" /\ todo # {} /\ todo' = todo \ {NextTrace}
          /\ UNCHANGED <<phase, status, plan, cur>> /\ pc' = "scoring"
          /\ evaluated' = IF Exists(cur) THEN [evaluated EXCEPT ![cur] = @ + 1] ELSE evaluated
      BY <1>9, <2>1 DEF ScoreTrace
    <3> QED
      BY <3>1, TraceDealtWith
  <2>2. CASE ~Exists(cur)
    BY <1>9, <2>2, <1>a DEF ScoreTrace
  <2> QED
    BY <2>1, <2>2
<1>10. CASE MissingTrace
  <2>1. /\ pc = "scoring" /\ todo # {} /\ todo' = todo \ {NextTrace}
        /\ UNCHANGED <<phase, status, plan, cur>> /\ pc' = "scoring"
        /\ evaluated' = IF Exists(cur) THEN [evaluated EXCEPT ![cur] = @ + 1] ELSE evaluated
    BY <1>10 DEF MissingTrace
  <2> QED
    BY <2>1, TraceDealtWith
<1>11. CASE CompleteRun
  <2>0. cur \in Runs /\ phase[cur] = "held" /\ evaluated[cur] \in Nat
    BY <1>0, <1>11, CurIs DEF CompleteRun, TypeOK
  <2>1. /\ pc = "scoring" /\ pc' = "done" /\ SetStatus(cur, "COMPLETED") /\ todo = {}
        /\ UNCHANGED <<phase, plan, evaluated, cur>>
    BY <1>11 DEF CompleteRun
  <2>2. /\ status'[cur] = IF Exists(cur) THEN "COMPLETED" ELSE "DELETED"
        /\ \A q \in Runs : q # cur => RunWhole(q)'
    BY <1>m, <2>1
  <2>3. Exists(cur) => evaluated[cur] = Cardinality(TracesOf(plan[cur]))
    BY <2>0, <2>1, FS_EmptySet DEF Counting, Exists
  <2>4. Counting'
    BY <2>1, <2>2 DEF Counting
  <2>5. \A q \in Runs : q = cur => RunWhole(q)'
    <3>1. phase'[cur] = "held" /\ plan'[cur] = plan[cur] /\ evaluated'[cur] = evaluated[cur]
      BY <2>0, <2>1
    <3> QED
      BY <2>2, <2>3, <3>1 DEF RunWhole, TracesOf
  <2> QED
    BY <2>2, <2>4, <2>5
<1>12. CASE HandlerReturns
  BY <1>12, <1>a DEF HandlerReturns, Job!Work
<1>13. ASSUME NEW e \in {"error", "timeout"}, HandlerRaises(e)
       PROVE  Counting' /\ \A q \in Runs : RunWhole(q)'
  BY <1>13, <1>a DEF HandlerRaises
<1>14. CASE FailRun
  <2>0. cur \in Runs /\ phase[cur] = "held"
    BY <1>14, CurIs DEF FailRun
  <2>1. /\ pc # "idle" /\ pc' \in {"settleError", "settleTimeout"} /\ SetStatus(cur, "FAILED")
        /\ UNCHANGED <<phase, plan, evaluated, cur>>
    BY <1>14 DEF FailRun
  <2>2. /\ status'[cur] = IF Exists(cur) THEN "FAILED" ELSE "DELETED"
        /\ \A q \in Runs : q # cur => RunWhole(q)'
    BY <1>m, <2>1
  <2>3. \A q \in Runs : q = cur => RunWhole(q)'
    BY <2>0, <2>1, <2>2 DEF RunWhole
  <2> QED
    BY <2>1, <2>2, <2>3 DEF Counting
<1>15. CASE FailRunIsLost
  <2>1. pc' \in {"settleError", "settleTimeout"}
    BY <1>15 DEF FailRunIsLost
  <2> QED
    BY <1>15, <1>a, <2>1 DEF FailRunIsLost
<1>16. CASE SettleJob
  <2>0. cur \in Runs /\ UNCHANGED <<plan, status, evaluated>> /\ pc' = "idle"
    BY <1>16, CurIs DEF SettleJob, PutDown
  <2>1. CASE pc = "settleOk"
    <3>1. \A q \in Runs : phase'[q] = "finished" => q = cur \/ phase[q] = "finished"
      BY <1>0, <1>16, <2>0, <2>1 DEF SettleJob, Job!Finish, TypeOK
    <3>2. status[cur] \in {"COMPLETED", "DELETED"}
      BY <2>1 DEF Counting
    <3> QED
      BY <2>0, <3>1, <3>2 DEF Counting, RunWhole
  <2>2. CASE pc # "settleOk"
    <3>1. \A q \in Runs : phase'[q] = "finished" => phase[q] = "finished"
      BY <1>0, <1>16, <2>0, <2>2 DEF SettleJob, Job!PutBack, Job!Abandon, TypeOK
    <3> QED
      BY <1>a, <2>0, <3>1
  <2> QED
    BY <2>1, <2>2
<1>17. CASE SettleIsLost
  BY <1>17, <1>a DEF SettleIsLost, PutDown
<1>18. CASE CrashAndRestart
  BY <1>0, <1>18, <1>a DEF CrashAndRestart, PutDown, Job!LoseHolder, TypeOK
<1>19. CASE UNCHANGED vars \/ EditElsewhere
  BY <1>19, <1>u DEF vars, EditElsewhere
<1> QED
  BY <1>1, <1>2, <1>3, <1>4, <1>5, <1>6, <1>7, <1>8, <1>9, <1>10, <1>11, <1>12, <1>13,
     <1>14, <1>15, <1>16, <1>17, <1>18, <1>19 DEF Next, HandlerStep

(* No run is there to be whole at the start.                               *)
LEMMA InitWhole == Init => Whole
  BY DEF Init, Whole, CompletedIsWhole

(* A run whose job has succeeded is COMPLETED, and a COMPLETED run has     *)
(* gone through exactly its targets, whatever attempts came before.        *)
THEOREM WholeCorrect == Spec => []CompletedIsWhole
<1>1. Whole => CompletedIsWhole
  BY DEF Whole
<1> QED
  BY <1>1, InitWhole, RunInitTyped, NextKeepsTypes, NextKeepsWhole, PTL DEF Spec

-----------------------------------------------------------------------------
(* Session runs are runs: each of their steps is a step of EvalRuns, or a  *)
(* change of signals that leaves the run, its job and its scores alone.    *)

(* A step on a session's signals leaves the runs alone; any other is a     *)
(* step of a run.                                                          *)
LEMMA SessionStepIsRunStep ==
    TypeInv /\ [SessionNext]_sessionVars => [Next]_vars \/ EditElsewhere
<1> SUFFICES ASSUME TypeInv, SessionNext PROVE Next \/ UNCHANGED vars \/ EditElsewhere
  BY DEF sessionVars
<1>1. ASSUME NEW r \in Runs, NEW q \in Runs, RetryFailedSessions(r, q) PROVE Next
  <2> DEFINE pairs == TracesOf(FailedPairs(q)) \X {p[2] : p \in FailedPairs(q)}
  <2>1. FailedPairs(q) # {} /\ Insert(r, pairs)
    BY <1>1 DEF RetryFailedSessions
  <2>2. pairs \in SUBSET Pairs
    BY DEF FailedPairs, TracesOf, Pairs
  <2>3. pairs # {}
    <3>1. PICK p \in FailedPairs(q) : TRUE
      BY <2>1
    <3>2. <<p[1], p[2]>> \in pairs
      BY <3>1 DEF TracesOf
    <3> QED
      BY <3>2
  <2>4. RetryFailed(r, pairs)
    BY <2>1, <2>3 DEF RetryFailed
  <2> HIDE DEF pairs
  <2> QED
    BY <2>2, <2>4 DEF Next
<1>2. CASE RunStep
  <2>1. ASSUME NEW r \in Runs, NEW n \in 0..Targets, CreateSessionRun(r, n) PROVE Next
    BY <2>1 DEF CreateSessionRun, Next
  <2>2. ASSUME NEW r \in Runs, Dispatch(r) \/ DispatchFails(r) \/ TakeJob(r) PROVE Next
    BY <2>2 DEF Next, HandlerStep
  <2>3. ASSUME NEW r \in Runs, NEW p \in Pairs, DeleteScore(r, p) PROVE Next
    BY <2>3 DEF Next
  <2>4. ASSUME NEW e \in {"error", "timeout"}, HandlerRaises(e) PROVE Next
    BY <2>4 DEF Next
  <2>5. CASE CompleteRun \/ HandlerReturns \/ FailRun \/ FailRunIsLost
    BY <2>5 DEF Next, HandlerStep
  <2> QED
    BY <1>1, <1>2, <2>1, <2>2, <2>3, <2>4, <2>5 DEF RunStep
<1>3. CASE EndStep
  BY <1>3 DEF EndStep, Next, HandlerStep
<1>4. ASSUME NEW r \in Runs, DeleteSessionRun(r) PROVE Next
  BY <1>4 DEF DeleteSessionRun, Next
<1>5. ASSUME NEW s, NEW seq, ChangeRows(s, seq) PROVE EditElsewhere
  BY <1>5 DEF ChangeRows, EditElsewhere
<1>6. ASSUME NEW s \in Slots, NEW k \in Kinds, CreateScore(s, k) PROVE EditElsewhere
  BY <1>5, <1>6 DEF CreateScore
<1>7. ASSUME NEW s \in Slots, NEW i, NEW k \in Kinds, EditScore(s, i, k) PROVE EditElsewhere
  BY <1>5, <1>7 DEF EditScore
<1>8. ASSUME NEW s \in Slots, NEW i, RemoveScore(s, i) PROVE EditElsewhere
  BY <1>5, <1>8 DEF RemoveScore
<1>9. ASSUME NEW t \in Sessions, DeleteSessionTrace(t) PROVE EditElsewhere
  BY <1>9 DEF DeleteSessionTrace, EditElsewhere
<1>10. CASE SessionSetup
  BY <1>10 DEF SessionSetup, Next, HandlerStep
<1>11. ASSUME NEW broken \in SUBSET Slots, ScoreSignals(broken) PROVE Next \/ UNCHANGED vars
  <2>1. /\ (pc = "scoring" /\ pc' = "error") \/ pc' = pc
        /\ UNCHANGED <<jobVars, rowVars, dispatching, cur, todo, crashes, faults, edits>>
    BY <1>11 DEF ScoreSignals
  <2>2. CASE pc = "scoring" /\ pc' = "error"
    <3>1. HandlerRaises("error")
      BY <2>1, <2>2 DEF HandlerRaises
    <3> QED
      BY <3>1 DEF Next
  <2>3. CASE pc' = pc
    BY <2>1, <2>3 DEF vars, handlerVars
  <2> QED
    BY <2>1, <2>2, <2>3
<1>12. ASSUME NEW bad \in SUBSET Pairs, AggregateSession(bad) PROVE Next
  BY <1>12 DEF AggregateSession, Next, HandlerStep
<1>13. CASE EmptySession
  BY <1>13 DEF EmptySession, Next, HandlerStep
<1> QED
  BY <1>2, <1>3, <1>4, <1>6, <1>7, <1>8, <1>9, <1>10, <1>11, <1>12, <1>13 DEF SessionNext

(* The counters of a session run agree with its session scores, however    *)
(* signals are shared, edited and dropped meanwhile.                       *)
THEOREM SessionCountersCorrect == SessionSpec => []CountersMatchScores
<1>1. SessionInit => TypeInv /\ Scoring
  BY RunInitTyped, InitScoring DEF SessionInit
<1>2. TypeInv /\ Scoring /\ [SessionNext]_sessionVars => TypeInv' /\ Scoring'
  BY SessionStepIsRunStep, NextKeepsTypes, NextKeepsScoring
<1>3. Scoring => CountersMatchScores
  BY CountersAre DEF Scoring
<1> QED
  BY <1>1, <1>2, <1>3, PTL DEF SessionSpec

(* A COMPLETED session run has gone through exactly its sessions.          *)
THEOREM SessionWholeCorrect == SessionSpec => []CompletedIsWhole
<1>1. SessionInit => TypeInv /\ Whole
  BY RunInitTyped, InitWhole DEF SessionInit
<1>2. TypeInv /\ Whole /\ [SessionNext]_sessionVars => TypeInv' /\ Whole'
  BY SessionStepIsRunStep, NextKeepsTypes, NextKeepsWhole
<1>3. Whole => CompletedIsWhole
  BY DEF Whole
<1> QED
  BY <1>1, <1>2, <1>3, PTL DEF SessionSpec

-----------------------------------------------------------------------------
(* The signals of a session.                                               *)

AnyRow == [by : Runs \cup {NoRun}, for : {"session", "other"}, kind : Kinds]

(* What a session run has paid for.                                        *)
Paid(row) == row.for = "session" /\ row.kind = "number"

PaidOnce(seq) == \A i, j \in DOMAIN seq : Paid(seq[i]) /\ Paid(seq[j]) => i = j

NoBlank(seq) == \A i \in DOMAIN seq : seq[i].kind # "blank"

(* Every row of b is one of a, and no two of b's are the same one.         *)
Selects(a, b) ==
    \E f \in [DOMAIN b -> DOMAIN a] :
        /\ \A i, j \in DOMAIN b : f[i] = f[j] => i = j
        /\ \A i \in DOMAIN b : b[i].for = a[f[i]].for /\ b[i].kind = a[f[i]].kind

(* Rows selected from rows that are paid for once, none blank, are so too. *)
LEMMA SelectionKeeps ==
    ASSUME NEW a, NEW b, Selects(a, b), PaidOnce(a), NoBlank(a)
    PROVE  PaidOnce(b) /\ NoBlank(b)
<1>1. PICK f \in [DOMAIN b -> DOMAIN a] :
        /\ \A i, j \in DOMAIN b : f[i] = f[j] => i = j
        /\ \A i \in DOMAIN b : b[i].for = a[f[i]].for /\ b[i].kind = a[f[i]].kind
  BY DEF Selects
<1> QED
  BY <1>1 DEF PaidOnce, NoBlank, Paid

(* Emptied: whatever the rows were.                                        *)
LEMMA EmptySelects == ASSUME NEW a PROVE Selects(a, <<>>)
<1>1. DOMAIN <<>> = {}
  BY EmptySeq, LenProperties
<1>2. [i \in {} |-> i] \in [DOMAIN <<>> -> DOMAIN a]
  BY <1>1
<1> QED
  BY <1>1, <1>2 DEF Selects

(* Removing a row selects the others.                                      *)
LEMMA RemoveAtSelects ==
    ASSUME NEW seq \in Seq(AnyRow), NEW k \in DOMAIN seq
    PROVE  RemoveAt(seq, k) \in Seq(AnyRow) /\ Selects(seq, RemoveAt(seq, k))
<1>1. PICK n \in Nat : n = Len(seq) /\ DOMAIN seq = 1..n /\ \A i \in 1..n : seq[i] \in AnyRow
  BY LenProperties, ElementOfSeq
<1>k. k \in Int /\ 1 <= k /\ k <= n
  BY <1>1
<1> DEFINE a == SubSeq(seq, 1, k - 1)
           b == SubSeq(seq, k + 1, n)
           c == a \o b
<1>2. /\ a \in Seq(AnyRow) /\ Len(a) = k - 1
      /\ \A i \in 1..(k - 1) : a[i] = seq[i]
  BY <1>1, <1>k, SubSeqProperties
<1>3. /\ b \in Seq(AnyRow) /\ Len(b) = n - k
      /\ \A i \in 1..(n - k) : b[i] = seq[k + i]
  BY <1>1, <1>k, SubSeqProperties
<1> HIDE DEF a, b
<1>4. /\ c \in Seq(AnyRow) /\ Len(c) = n - 1
      /\ \A i \in 1..(n - 1) : c[i] = IF i <= k - 1 THEN a[i] ELSE b[i - (k - 1)]
  <2>1. /\ c \in Seq(AnyRow) /\ Len(c) = Len(a) + Len(b)
        /\ \A i \in 1..(Len(a) + Len(b)) : c[i] = IF i <= Len(a) THEN a[i] ELSE b[i - Len(a)]
    BY <1>2, <1>3, ConcatProperties
  <2>2. Len(a) + Len(b) = n - 1
    <3>1. Len(a) = k - 1 /\ Len(b) = n - k
      BY <1>2, <1>3
    <3>2. (k - 1) + (n - k) = n - 1
      BY <1>1, <1>k
    <3> QED
      BY <3>1, <3>2
  <2> QED
    BY <1>2, <2>1, <2>2
<1>5. DOMAIN c = 1..(n - 1)
  BY <1>4, LenProperties
<1>6. \A i \in 1..(n - 1) : c[i] = seq[IF i < k THEN i ELSE i + 1]
  <2> TAKE i \in 1..(n - 1)
  <2>1. CASE i < k
    BY <1>1, <1>k, <1>2, <1>4, <2>1
  <2>2. CASE ~(i < k)
    <3>1. i - (k - 1) \in 1..(n - k) /\ k + (i - (k - 1)) = i + 1 /\ ~(i <= k - 1)
      BY <1>1, <1>k, <2>2
    <3> QED
      BY <1>3, <1>4, <2>2, <3>1
  <2> QED
    BY <2>1, <2>2
<1> HIDE DEF c
<1> DEFINE f == [i \in 1..(n - 1) |-> IF i < k THEN i ELSE i + 1]
<1>7. \A i \in 1..(n - 1) : f[i] = (IF i < k THEN i ELSE i + 1) /\ f[i] \in 1..n
  BY <1>1, <1>k
<1>8. f \in [1..(n - 1) -> 1..n]
  BY <1>7
<1> HIDE DEF f
<1>9. \A i, j \in 1..(n - 1) : f[i] = f[j] => i = j
  BY <1>1, <1>k, <1>7
<1>10. \A i \in 1..(n - 1) : c[i] = seq[f[i]]
  BY <1>6, <1>7
<1>11. Selects(seq, c)
  <2>1. f \in [DOMAIN c -> DOMAIN seq]
    BY <1>1, <1>5, <1>8
  <2>2. \A i, j \in DOMAIN c : f[i] = f[j] => i = j
    BY <1>5, <1>9
  <2>3. \A i \in DOMAIN c : c[i].for = seq[f[i]].for /\ c[i].kind = seq[f[i]].kind
    BY <1>5, <1>10
  <2> QED
    BY <2>1, <2>2, <2>3, Zenon DEF Selects
<1>12. RemoveAt(seq, k) = c
  BY <1>1 DEF RemoveAt, a, b, c
<1> QED
  BY <1>4, <1>11, <1>12

(* A row that is not paid for may take the place of another one.           *)
LEMMA ExceptKeeps ==
    ASSUME NEW seq \in Seq(AnyRow), NEW k \in DOMAIN seq, NEW row \in AnyRow, row.for = "other"
    PROVE  /\ [seq EXCEPT ![k] = row] \in Seq(AnyRow)
           /\ PaidOnce(seq) => PaidOnce([seq EXCEPT ![k] = row])
           /\ NoBlank(seq) /\ row.kind # "blank" => NoBlank([seq EXCEPT ![k] = row])
<1>1. k \in 1..Len(seq) /\ DOMAIN seq = 1..Len(seq)
  BY LenProperties
<1>2. /\ [seq EXCEPT ![k] = row] \in Seq(AnyRow)
      /\ \A j \in 1..Len(seq) : [seq EXCEPT ![k] = row][j] = IF j = k THEN row ELSE seq[j]
  BY <1>1, ExceptSeq
<1>3. DOMAIN [seq EXCEPT ![k] = row] = DOMAIN seq
  OBVIOUS
<1> QED
  BY <1>1, <1>2, <1>3 DEF PaidOnce, NoBlank, Paid

(* A row at the end is paid for once if no other one is.                   *)
LEMMA AppendKeeps ==
    ASSUME NEW seq \in Seq(AnyRow), NEW row \in AnyRow
    PROVE  /\ Append(seq, row) \in Seq(AnyRow)
           /\ PaidOnce(seq) /\ (Paid(row) => \A i \in DOMAIN seq : ~Paid(seq[i])) => PaidOnce(Append(seq, row))
           /\ NoBlank(seq) /\ row.kind # "blank" => NoBlank(Append(seq, row))
<1>1. PICK n \in Nat : n = Len(seq) /\ DOMAIN seq = 1..n
  BY LenProperties
<1>2. /\ Append(seq, row) \in Seq(AnyRow)
      /\ Len(Append(seq, row)) = n + 1
      /\ \A i \in 1..n : Append(seq, row)[i] = seq[i]
      /\ Append(seq, row)[n + 1] = row
  BY <1>1, AppendProperties
<1>3. DOMAIN Append(seq, row) = 1..(n + 1)
  BY <1>2, LenProperties
<1>4. \A i \in 1..(n + 1) : i \in 1..n \/ i = n + 1
  BY <1>1
<1> QED
  BY <1>1, <1>2, <1>3, <1>4 DEF PaidOnce, NoBlank

(* The links of rows to a deleted run are all that is dropped.             *)
LEMMA UnlinkedSelects ==
    ASSUME NEW seq \in Seq(AnyRow), NEW r
    PROVE  Unlinked(seq, r) \in Seq(AnyRow) /\ Selects(seq, Unlinked(seq, r))
<1>1. PICK n \in Nat : n = Len(seq) /\ DOMAIN seq = 1..n /\ \A i \in 1..n : seq[i] \in AnyRow
  BY LenProperties, ElementOfSeq
<1> DEFINE b == Unlinked(seq, r)
           f == [i \in 1..n |-> i]
<1>2. \A i \in 1..n : [seq[i] EXCEPT !.by = NoRun] \in AnyRow
  BY <1>1 DEF AnyRow
<1>3. /\ DOMAIN b = 1..n
      /\ \A i \in 1..n : b[i] \in AnyRow /\ b[i].for = seq[i].for /\ b[i].kind = seq[i].kind
  BY <1>1, <1>2 DEF Unlinked, AnyRow
<1>4. b \in [1..n -> AnyRow]
  BY <1>1, <1>3 DEF Unlinked
<1>5. b \in Seq(AnyRow)
  <2> HIDE DEF b
  <2> QED
    BY <1>1, <1>4, SeqDef
<1>6. f \in [1..n -> 1..n] /\ \A i \in 1..n : f[i] = i
  OBVIOUS
<1> HIDE DEF b, f
<1>7. Selects(seq, b)
  BY <1>1, <1>3, <1>6 DEF Selects
<1> QED
  BY <1>5, <1>7 DEF b

(* The rows that Without keeps, when the first ones have been looked at.   *)
Keeps(kept, seq, r) ==
    kept = [i \in 0..Len(seq) |->
              IF i = 0 THEN <<>>
              ELSE IF seq[i].by = r THEN kept[i - 1] ELSE Append(kept[i - 1], seq[i])]

(* There is a list of the rows that are not of a run, in their order.      *)
LEMMA KeepsExists == ASSUME NEW seq \in Seq(AnyRow), NEW r PROVE \E kept : Keeps(kept, seq, r)
<1>1. PICK n \in Nat : n = Len(seq)
  BY LenProperties
<1> DEFINE Fill(g, i) == IF i = 0 THEN <<>>
                         ELSE IF seq[i].by = r THEN g[i - 1] ELSE Append(g[i - 1], seq[i])
           Filled(m) == \E g : g = [i \in 0..m |-> Fill(g, i)]
           Bad == {m \in Nat : ~Filled(m)}
<1>2. Bad = {}
  <2> SUFFICES ASSUME Bad # {} PROVE FALSE
    OBVIOUS
  <2>1. PICK m \in Bad : \A l \in Bad : m <= l
    <3>1. Bad \in SUBSET Nat
      OBVIOUS
    <3> HIDE DEF Bad
    <3> QED
      BY <3>1, MinOfSet
  <2>2. m \in Nat /\ ~Filled(m)
    OBVIOUS
  <2>3. m # 0
    <3> SUFFICES ASSUME m = 0 PROVE FALSE
      OBVIOUS
    <3> DEFINE g == [i \in 0..0 |-> <<>>]
    <3>1. \A i \in 0..0 : Fill(g, i) = <<>>
      OBVIOUS
    <3>2. g = [i \in 0..0 |-> Fill(g, i)]
      BY <3>1
    <3> QED
      BY <2>2, <3>2
  <2>4. PICK g : g = [i \in 0..(m - 1) |-> Fill(g, i)]
    <3>1. m - 1 \in Nat /\ ~(m <= m - 1)
      BY <2>2, <2>3
    <3>2. m - 1 \notin Bad
      <4> HIDE DEF Bad
      <4> QED
        BY <2>1, <3>1
    <3> QED
      BY <3>1, <3>2
  <2> DEFINE h == [i \in 0..m |-> IF i < m THEN g[i] ELSE Fill(g, m)]
  <2>5. \A i \in 0..(m - 1) : h[i] = g[i] /\ g[i] = Fill(g, i)
    <3>1. \A i \in 0..(m - 1) : i \in 0..m /\ i < m
      BY <2>2
    <3>2. \A i \in 0..(m - 1) : g[i] = Fill(g, i)
      BY <2>4
    <3> HIDE DEF Fill
    <3> QED
      BY <3>1, <3>2
  <2>6. \A i \in 0..m : h[i] = Fill(h, i)
    <3> TAKE i \in 0..m
    <3>1. CASE i = 0
      <4>1. 0 \in 0..(m - 1)
        BY <2>2, <2>3
      <4> QED
        BY <2>5, <3>1, <4>1
    <3>2. CASE i # 0
      <4>1. i - 1 \in 0..(m - 1) /\ (i < m => i \in 0..(m - 1)) /\ (~(i < m) => i = m)
        BY <2>2, <3>2
      <4>2. h[i - 1] = g[i - 1]
        BY <2>5, <4>1
      <4>3. Fill(h, i) = Fill(g, i)
        <5> HIDE DEF h
        <5> QED
          BY <4>2
      <4>4. CASE i < m
        <5> HIDE DEF h, Fill
        <5> QED
          BY <2>5, <4>1, <4>3, <4>4
      <4>5. CASE ~(i < m)
        <5>1. h[i] = Fill(g, m) /\ i = m
          BY <4>1, <4>5
        <5> HIDE DEF h, Fill
        <5> QED
          BY <4>3, <5>1
      <4> QED
        BY <4>4, <4>5
    <3> QED
      BY <3>1, <3>2
  <2>7. h = [i \in 0..m |-> Fill(h, i)]
    <3>1. h = [i \in 0..m |-> h[i]]
      OBVIOUS
    <3> HIDE DEF h, Fill
    <3> QED
      BY <2>6, <3>1
  <2> HIDE DEF h, Fill
  <2>8. Filled(m)
    BY <2>7
  <2> QED
    BY <2>2, <2>8
<1>3. n \notin Bad
  BY <1>2
<1> QED
  BY <1>1, <1>3 DEF Keeps

(* The rows of b are different ones among the first n of a.                *)
Drawn(a, b, n) ==
    \E f \in [DOMAIN b -> 1..n] :
        /\ \A i, j \in DOMAIN b : f[i] = f[j] => i = j
        /\ \A i \in DOMAIN b : b[i] = a[f[i]]

(* Deleting the rows of a run selects the others.                          *)
LEMMA WithoutSelects ==
    ASSUME NEW seq \in Seq(AnyRow), NEW r
    PROVE  Without(seq, r) \in Seq(AnyRow) /\ Selects(seq, Without(seq, r))
<1>1. PICK n \in Nat : n = Len(seq) /\ DOMAIN seq = 1..n /\ \A i \in 1..n : seq[i] \in AnyRow
  BY LenProperties, ElementOfSeq
<1> DEFINE kept == CHOOSE kept : Keeps(kept, seq, r)
<1>2. Without(seq, r) = kept[n]
  BY <1>1 DEF Without, Keeps
<1>3. Keeps(kept, seq, r)
  BY KeepsExists
<1> HIDE DEF kept
<1>4. /\ kept[0] = <<>>
      /\ \A i \in 1..n : kept[i] = IF seq[i].by = r THEN kept[i - 1] ELSE Append(kept[i - 1], seq[i])
  <2> DEFINE Kept(i) == IF i = 0 THEN <<>>
                        ELSE IF seq[i].by = r THEN kept[i - 1] ELSE Append(kept[i - 1], seq[i])
  <2>1. kept = [i \in 0..n |-> Kept(i)]
    BY <1>1, <1>3 DEF Keeps
  <2> HIDE DEF Kept
  <2>2. \A i \in 0..n : kept[i] = Kept(i)
    BY <2>1
  <2>3. 0 \in 0..n /\ \A i \in 1..n : i \in 0..n /\ i # 0
    BY <1>1
  <2> QED
    BY <2>2, <2>3 DEF Kept
<1> DEFINE Good(i) == kept[i] \in Seq(AnyRow) /\ Drawn(seq, kept[i], i)
           Bad == {i \in 0..n : ~Good(i)}
<1>5. Bad = {}
  <2> SUFFICES ASSUME Bad # {} PROVE FALSE
    OBVIOUS
  <2>1. PICK m \in Bad : \A l \in Bad : m <= l
    <3>1. Bad \in SUBSET Nat
      BY <1>1
    <3> HIDE DEF Bad
    <3> QED
      BY <3>1, MinOfSet
  <2>2. m \in 0..n /\ ~Good(m)
    OBVIOUS
  <2>3. m # 0
    <3> SUFFICES ASSUME m = 0 PROVE FALSE
      OBVIOUS
    <3>1. <<>> \in Seq(AnyRow) /\ DOMAIN <<>> = {}
      BY EmptySeq, LenProperties
    <3>2. [i \in {} |-> i] \in [{} -> 1..0]
      OBVIOUS
    <3>3. Drawn(seq, <<>>, 0)
      BY <3>1, <3>2 DEF Drawn
    <3> QED
      BY <1>4, <2>2, <3>1, <3>3
  <2>4. Good(m - 1) /\ m \in 1..n
    <3>1. m \in 1..n /\ m - 1 \in 0..n /\ ~(m <= m - 1)
      BY <1>1, <2>2, <2>3
    <3>2. m - 1 \notin Bad
      <4> HIDE DEF Bad
      <4> QED
        BY <2>1, <3>1
    <3> QED
      BY <3>1, <3>2
  <2>5. PICK f \in [DOMAIN kept[m - 1] -> 1..(m - 1)] :
          /\ \A j, k \in DOMAIN kept[m - 1] : f[j] = f[k] => j = k
          /\ \A j \in DOMAIN kept[m - 1] : kept[m - 1][j] = seq[f[j]]
    BY <2>4 DEF Drawn
  <2>6. PICK l \in Nat : l = Len(kept[m - 1]) /\ DOMAIN kept[m - 1] = 1..l
    BY <2>4, LenProperties
  <2>7. \A j \in 1..l : f[j] \in 1..m /\ f[j] # m
    <3>1. \A x \in 1..(m - 1) : x \in 1..m /\ x # m
      BY <2>4
    <3> QED
      BY <2>5, <2>6, <3>1
  <2>8. CASE seq[m].by = r
    <3>1. kept[m] = kept[m - 1]
      BY <1>4, <2>4, <2>8
    <3>2. f \in [1..l -> 1..m]
      BY <2>5, <2>6, <2>7
    <3>3. Drawn(seq, kept[m - 1], m)
      BY <2>5, <2>6, <3>2 DEF Drawn
    <3> QED
      BY <2>2, <2>4, <3>1, <3>3
  <2>9. CASE seq[m].by # r
    <3>1. kept[m] = Append(kept[m - 1], seq[m]) /\ seq[m] \in AnyRow
      BY <1>1, <1>4, <2>4, <2>9
    <3>2. /\ kept[m] \in Seq(AnyRow)
          /\ Len(kept[m]) = l + 1
          /\ \A i \in 1..l : kept[m][i] = kept[m - 1][i]
          /\ kept[m][l + 1] = seq[m]
      BY <2>4, <2>6, <3>1, AppendProperties
    <3>3. DOMAIN kept[m] = 1..(l + 1) /\ \A i \in 1..(l + 1) : i \in 1..l \/ i = l + 1
      BY <2>6, <3>2, LenProperties
    <3> DEFINE h == [i \in 1..(l + 1) |-> IF i = l + 1 THEN m ELSE f[i]]
    <3>i. \A i \in 1..l : i \in 1..(l + 1) /\ i # l + 1
      BY <2>6
    <3>4. /\ \A i \in 1..l : h[i] = f[i] /\ kept[m - 1][i] = seq[f[i]]
          /\ h[l + 1] = m
      <4>1. l + 1 \in 1..(l + 1)
        BY <2>6
      <4>2. h[l + 1] = m
        BY <4>1
      <4>3. \A i \in 1..l : h[i] = f[i]
        BY <3>i
      <4>4. \A i \in 1..l : kept[m - 1][i] = seq[f[i]]
        BY <2>5, <2>6
      <4> QED
        BY <4>2, <4>3, <4>4
    <3>5. h \in [1..(l + 1) -> 1..m]
      <4>1. \A i \in 1..(l + 1) : h[i] \in 1..m
        BY <2>4, <2>7, <3>3, <3>4
      <4> QED
        BY <4>1
    <3> HIDE DEF h
    <3>6. \A j, k \in 1..(l + 1) : h[j] = h[k] => j = k
      <4>1. \A j \in 1..l : h[j] <= m - 1 /\ h[j] \in Int
        BY <2>7, <3>4
      <4>2. \A j, k \in 1..l : h[j] = h[k] => j = k
        <5>1. \A j, k \in 1..l : f[j] = f[k] => j = k
          BY <2>5, <2>6, Zenon
        <5> QED
          BY <3>4, <5>1, Zenon
      <4>3. \A j \in 1..l : h[j] # h[l + 1]
        BY <2>4, <3>4, <4>1
      <4> QED
        BY <3>3, <4>2, <4>3
    <3>7. \A j \in 1..(l + 1) : kept[m][j] = seq[h[j]]
      BY <3>2, <3>3, <3>4
    <3>8. Drawn(seq, kept[m], m)
      <4>1. h \in [DOMAIN kept[m] -> 1..m]
        BY <3>3, <3>5
      <4>2. \A j, k \in DOMAIN kept[m] : h[j] = h[k] => j = k
        BY <3>3, <3>6, Zenon
      <4>3. \A j \in DOMAIN kept[m] : kept[m][j] = seq[h[j]]
        BY <3>3, <3>7, Zenon
      <4> QED
        BY <4>1, <4>2, <4>3, Zenon DEF Drawn
    <3> QED
      BY <2>2, <3>2, <3>8
  <2> QED
    BY <2>8, <2>9
<1>6. Good(n)
  BY <1>1, <1>5
<1>7. Selects(seq, kept[n])
  <2>1. \A x \in 1..n : seq[x].for = seq[x].for /\ seq[x].kind = seq[x].kind
    OBVIOUS
  <2> QED
    BY <1>1, <1>6, <2>1 DEF Selects, Drawn
<1> QED
  BY <1>2, <1>6, <1>7

(* What find_existing_trace_score returns is the kind of a row, which did  *)
(* not fail; it returns none only when all have failed.                    *)
LEMMA ExistingIs ==
    ASSUME NEW s \in Slots, rows[s] \in Seq(AnyRow)
    PROVE  \/ \E i \in DOMAIN rows[s] : rows[s][i].kind # "failed" /\ Existing(s) = rows[s][i].kind
           \/ Existing(s) = "none" /\ \A i \in DOMAIN rows[s] : rows[s][i].kind = "failed"
<1> DEFINE ok == {i \in DOMAIN rows[s] : rows[s][i].kind # "failed"}
<1>1. PICK n \in Nat : DOMAIN rows[s] = 1..n
  BY LenProperties
<1>2. CASE ok = {}
  BY <1>2 DEF Existing
<1>3. CASE ok # {}
  <2> DEFINE rest == {n - i : i \in ok}
  <2>1. rest \in SUBSET Nat /\ rest # {}
    BY <1>1, <1>3
  <2>2. PICK d \in rest : \A e \in rest : d <= e
    <3> HIDE DEF rest
    <3> QED
      BY <2>1, MinOfSet
  <2>3. PICK i \in ok : d = n - i
    OBVIOUS
  <2>4. \A j \in ok : i >= j
    <3> TAKE j \in ok
    <3>1. n - j \in rest
      OBVIOUS
    <3>2. n - i <= n - j
      BY <2>2, <2>3, <3>1
    <3> QED
      BY <1>1, <3>2
  <2>5. Max(ok) \in ok
    <3> HIDE DEF ok
    <3> QED
      BY <2>4 DEF Max
  <2> QED
    BY <1>3, <2>5 DEF Existing
<1> QED
  BY <1>2, <1>3

(* What the rows of slots may be: typed, and unless a score was blanked,   *)
(* none is blank and no slot is paid for twice.                            *)
SignalRows(rs, b) ==
    /\ rs \in [Slots -> Seq(AnyRow)]
    /\ b \/ \A s \in Slots : PaidOnce(rs[s]) /\ NoBlank(rs[s])

(* The rows of a slot are replaced by some of them.                        *)
LEMMA SelectedRows ==
    ASSUME SignalRows(rows, blanked), blanked' = blanked, NEW rs, rs = [s \in Slots |-> rs[s]],
           \A s \in Slots : rs[s] \in Seq(AnyRow) /\ Selects(rows[s], rs[s])
    PROVE  SignalRows(rs, blanked')
<1>1. rs \in [Slots -> Seq(AnyRow)]
  OBVIOUS
<1>2. CASE ~blanked
  BY <1>2, SelectionKeeps DEF SignalRows
<1> QED
  BY <1>1, <1>2 DEF SignalRows

(* The rows of one slot, by SignalRows.                                    *)
LEMMA SlotRows ==
    ASSUME SignalRows(rows, blanked), NEW s \in Slots
    PROVE  rows[s] \in Seq(AnyRow) /\ (blanked \/ (PaidOnce(rows[s]) /\ NoBlank(rows[s])))
  BY DEF SignalRows

(* One slot changes.                                                       *)
LEMMA ChangedRows ==
    ASSUME SignalRows(rows, blanked), NEW s \in Slots, NEW seq \in Seq(AnyRow),
           NEW b, b = FALSE => ~blanked /\ PaidOnce(seq) /\ NoBlank(seq),
           b \in BOOLEAN, blanked \in BOOLEAN
    PROVE  SignalRows([rows EXCEPT ![s] = seq], b)
<1>1. /\ [rows EXCEPT ![s] = seq] \in [Slots -> Seq(AnyRow)]
      /\ \A q \in Slots : [rows EXCEPT ![s] = seq][q] = IF q = s THEN seq ELSE rows[q]
  BY DEF SignalRows
<1>2. CASE b
  BY <1>1, <1>2 DEF SignalRows
<1>3. CASE ~b
  BY <1>1, <1>3 DEF SignalRows
<1> QED
  BY <1>2, <1>3

(* While ready, a session is being scored or its attempt has failed.       *)
ReadyInv ==
    /\ ready \in BOOLEAN
    /\ ready => pc \in {"scoring", "error", "timeout", "settleError", "settleTimeout"}
    /\ ready /\ pc = "scoring" => todo # {}

SignalInv == SignalRows(rows, blanked) /\ blanked \in BOOLEAN /\ ReadyInv

(* There are no signals at the start.                                      *)
LEMMA InitSignals == SessionInit => SignalInv
<1> SUFFICES ASSUME SessionInit PROVE SignalInv
  OBVIOUS
<1>1. \A s \in Slots : rows[s] = <<>>
  BY DEF SessionInit
<1>2. <<>> \in Seq(AnyRow) /\ PaidOnce(<<>>) /\ NoBlank(<<>>)
  BY EmptySeq, LenProperties DEF PaidOnce, NoBlank
<1>3. rows \in [Slots -> Seq(AnyRow)]
  BY <1>1, <1>2 DEF SessionInit
<1> QED
  BY <1>1, <1>2, <1>3 DEF SessionInit, SignalInv, SignalRows, ReadyInv

(* A session is scored: what is missing is missing for good.               *)
LEMMA ScoredRows ==
    ASSUME TypeInv, SignalInv, NEW broken \in SUBSET Slots, ScoreSignals(broken)
    PROVE  SignalRows(rows', blanked)
<1> DEFINE slots == SlotsOf(NextTrace)
           missing == {s \in slots : Existing(s) \in {"none", "blank", "failed"}}
<1>1. \/ UNCHANGED rows
      \/ rows' = [s \in Slots |-> IF s \in missing THEN Append(rows[s], SignalOf(s, broken)) ELSE rows[s]]
  BY DEF ScoreSignals
<1>2. CASE UNCHANGED rows
  BY <1>2 DEF SignalInv
<1>3. CASE rows' = [s \in Slots |-> IF s \in missing THEN Append(rows[s], SignalOf(s, broken)) ELSE rows[s]]
  <2>1. ASSUME NEW s \in Slots
        PROVE  SignalOf(s, broken) \in AnyRow /\ SignalOf(s, broken).kind # "blank"
    <3>1. cur \in Runs \cup {NoRun}
      BY DEF TypeInv, TypeOK
    <3> QED
      BY <3>1 DEF SignalOf, Row, AnyRow, Kinds
  <2>2. ASSUME NEW s \in Slots, ~blanked, s \in missing
        PROVE  \A i \in DOMAIN rows[s] : ~Paid(rows[s][i])
    <3>1. rows[s] \in Seq(AnyRow) /\ NoBlank(rows[s])
      BY <2>2, SlotRows DEF SignalInv
    <3>2. \/ \E i \in DOMAIN rows[s] : rows[s][i].kind # "failed" /\ Existing(s) = rows[s][i].kind
          \/ \A i \in DOMAIN rows[s] : rows[s][i].kind = "failed"
      BY <3>1, ExistingIs
    <3>3. Existing(s) \in {"none", "blank", "failed"}
      BY <2>2
    <3>4. \A i \in DOMAIN rows[s] : rows[s][i].kind \in Kinds
      <4>1. \A i \in DOMAIN rows[s] : rows[s][i] \in AnyRow
        BY <3>1, LenProperties, ElementOfSeq
      <4> QED
        BY <4>1 DEF AnyRow
    <3> QED
      BY <3>1, <3>2, <3>3, <3>4 DEF NoBlank, Kinds, Paid
  <2>3. ASSUME NEW s \in Slots
        PROVE  /\ rows'[s] \in Seq(AnyRow)
               /\ ~blanked => PaidOnce(rows'[s]) /\ NoBlank(rows'[s])
    <3>1. rows[s] \in Seq(AnyRow) /\ (blanked \/ (PaidOnce(rows[s]) /\ NoBlank(rows[s])))
      BY SlotRows DEF SignalInv
    <3>2. CASE s \in missing
      <4>1. rows'[s] = Append(rows[s], SignalOf(s, broken))
        BY <1>3, <3>2
      <4> HIDE DEF missing
      <4> QED
        BY <2>1, <2>2, <3>1, <3>2, <4>1, AppendKeeps
    <3>3. CASE s \notin missing
      <4>1. rows'[s] = rows[s]
        BY <1>3, <3>3
      <4> QED
        BY <3>1, <4>1
    <3> QED
      BY <3>2, <3>3
  <2> HIDE DEF missing
  <2>4. rows' \in [Slots -> Seq(AnyRow)]
    BY <1>3, <2>3
  <2> QED
    BY <2>3, <2>4 DEF SignalRows
<1> QED
  BY <1>1, <1>2, <1>3

(* No step makes a second row that is paid for, or a blank one unless a    *)
(* user blanks it.                                                         *)
LEMMA NextKeepsRows ==
    ASSUME TypeInv, SignalInv, [SessionNext]_sessionVars
    PROVE  SignalRows(rows', blanked') /\ blanked' \in BOOLEAN
<1>a. SignalRows(rows, blanked) /\ blanked \in BOOLEAN /\ rows \in [Slots -> Seq(AnyRow)]
  BY DEF SignalInv, SignalRows
<1>u. CASE UNCHANGED <<rows, blanked>>
  BY <1>a, <1>u
<1>w. ASSUME NEW r, rows' = [s \in Slots |-> Without(rows[s], r)], UNCHANGED blanked
      PROVE  SignalRows(rows', blanked')
  <2>1. \A s \in Slots : rows'[s] \in Seq(AnyRow) /\ Selects(rows[s], rows'[s])
    BY <1>a, <1>w, WithoutSelects
  <2>2. rows' = [s \in Slots |-> rows'[s]]
    BY <1>w
  <2> QED
    BY <1>a, <1>w, <2>1, <2>2, SelectedRows
<1>c. ASSUME NEW s \in Slots, NEW seq \in Seq(AnyRow), ChangeRows(s, seq), blanked' \in BOOLEAN,
             blanked' = FALSE => ~blanked /\ PaidOnce(seq) /\ NoBlank(seq)
      PROVE  SignalRows(rows', blanked')
  BY <1>a, <1>c, ChangedRows DEF ChangeRows
<1>1. ASSUME NEW r \in Runs, DeleteSessionRun(r)
      PROVE  SignalRows(rows', blanked') /\ blanked' \in BOOLEAN
  <2>1. CASE rows' = [s \in Slots |-> Unlinked(rows[s], r)]
    <3>1. \A s \in Slots : rows'[s] \in Seq(AnyRow) /\ Selects(rows[s], rows'[s])
      BY <1>a, <2>1, UnlinkedSelects
    <3>2. rows' = [s \in Slots |-> rows'[s]]
      BY <2>1
    <3> QED
      BY <1>1, <1>a, <3>1, <3>2, SelectedRows DEF DeleteSessionRun
  <2> QED
    BY <1>1, <1>a, <1>w, <2>1 DEF DeleteSessionRun
<1>2. ASSUME NEW s \in Slots, NEW k \in Kinds, CreateScore(s, k)
      PROVE  SignalRows(rows', blanked') /\ blanked' \in BOOLEAN
  <2>1. /\ Row(NoRun, "other", k) \in AnyRow /\ ~Paid(Row(NoRun, "other", k))
        /\ Row(NoRun, "other", k).kind # "blank"
    BY <1>2 DEF CreateScore, Row, AnyRow, Paid
  <2>2. rows[s] \in Seq(AnyRow) /\ (blanked \/ (PaidOnce(rows[s]) /\ NoBlank(rows[s])))
    BY <1>a, SlotRows
  <2> QED
    BY <1>2, <1>a, <1>c, <2>1, <2>2, AppendKeeps DEF CreateScore
<1>3. ASSUME NEW s \in Slots, NEW i, NEW k \in Kinds, EditScore(s, i, k)
      PROVE  SignalRows(rows', blanked') /\ blanked' \in BOOLEAN
  <2> DEFINE row == Row(rows[s][i].by, "other", k)
             seq == [rows[s] EXCEPT ![i] = row]
  <2>1. rows[s] \in Seq(AnyRow) /\ (blanked \/ (PaidOnce(rows[s]) /\ NoBlank(rows[s])))
    BY <1>a, SlotRows
  <2>2. i \in DOMAIN rows[s] /\ ChangeRows(s, seq) /\ blanked' = (blanked \/ k = "blank")
    BY <1>3 DEF EditScore
  <2>3. rows[s][i] \in AnyRow
    BY <2>1, <2>2, LenProperties, ElementOfSeq
  <2>4. row \in AnyRow /\ row.for = "other" /\ row.kind = k
    BY <2>3 DEF AnyRow, Row
  <2> HIDE DEF row
  <2>5. /\ seq \in Seq(AnyRow)
        /\ PaidOnce(rows[s]) => PaidOnce(seq)
        /\ NoBlank(rows[s]) /\ k # "blank" => NoBlank(seq)
    BY <2>1, <2>2, <2>4, ExceptKeeps
  <2> HIDE DEF seq
  <2> QED
    BY <1>a, <1>c, <2>1, <2>2, <2>5
<1>4. ASSUME NEW s \in Slots, NEW i, RemoveScore(s, i)
      PROVE  SignalRows(rows', blanked') /\ blanked' \in BOOLEAN
  <2>1. rows[s] \in Seq(AnyRow) /\ (blanked \/ (PaidOnce(rows[s]) /\ NoBlank(rows[s])))
    BY <1>a, SlotRows
  <2>2. RemoveAt(rows[s], i) \in Seq(AnyRow) /\ Selects(rows[s], RemoveAt(rows[s], i))
    BY <1>4, <2>1, RemoveAtSelects DEF RemoveScore
  <2>3. blanked \/ (PaidOnce(RemoveAt(rows[s], i)) /\ NoBlank(RemoveAt(rows[s], i)))
    BY <2>1, <2>2, SelectionKeeps
  <2> QED
    BY <1>4, <1>a, <1>c, <2>2, <2>3 DEF RemoveScore
<1>5. ASSUME NEW t \in Sessions, DeleteSessionTrace(t)
      PROVE  SignalRows(rows', blanked') /\ blanked' \in BOOLEAN
  <2>1. \A s \in Slots : <<>> \in Seq(AnyRow) /\ Selects(rows[s], <<>>)
    BY EmptySeq, EmptySelects
  <2>2. \A s \in Slots : rows[s] \in Seq(AnyRow) /\ Selects(rows[s], rows[s])
    <3> TAKE s \in Slots
    <3>1. [i \in DOMAIN rows[s] |-> i] \in [DOMAIN rows[s] -> DOMAIN rows[s]]
      OBVIOUS
    <3> QED
      BY <1>a, <3>1 DEF Selects
  <2>3. rows' = [s \in Slots |-> IF s[1] = t THEN <<>> ELSE rows[s]] /\ UNCHANGED blanked
    BY <1>5 DEF DeleteSessionTrace
  <2>4. \A s \in Slots : rows'[s] \in Seq(AnyRow) /\ Selects(rows[s], rows'[s])
    BY <2>1, <2>2, <2>3
  <2>5. rows' = [s \in Slots |-> rows'[s]]
    BY <2>3
  <2> QED
    BY <1>a, <2>3, <2>4, <2>5, SelectedRows
<1>6. CASE SessionSetup
  BY <1>6, <1>a, <1>w DEF SessionSetup
<1>7. ASSUME NEW broken \in SUBSET Slots, ScoreSignals(broken)
      PROVE  SignalRows(rows', blanked') /\ blanked' \in BOOLEAN
  BY <1>7, <1>a, ScoredRows DEF ScoreSignals
<1>8. CASE \E bad \in SUBSET Pairs : AggregateSession(bad)
  BY <1>8, <1>u DEF AggregateSession
<1>9. CASE EmptySession
  BY <1>9, <1>u DEF EmptySession
<1>10. CASE UNCHANGED sessionVars
  BY <1>10, <1>u DEF sessionVars
<1> QED
  BY <1>u, <1>1, <1>2, <1>3, <1>4, <1>5, <1>6, <1>7, <1>8, <1>9, <1>10 DEF SessionNext

(* Signals are ready only in a handler that scores, with sessions to do,   *)
(* or has just been cut off.                                               *)
LEMMA NextKeepsReady ==
    ASSUME TypeInv, ReadyInv, [SessionNext]_sessionVars
    PROVE  ReadyInv'
<1> USE DEF ReadyInv
<1>e. ASSUME UNCHANGED <<handlerVars, ready>> PROVE ReadyInv'
  BY <1>e DEF handlerVars
<1>f. ASSUME ready' = FALSE PROVE ReadyInv'
  BY <1>f
<1>1. CASE RunStep /\ UNCHANGED <<rows, ready, blanked>>
  <2>1. ASSUME NEW r \in Runs, NEW n \in 0..Targets, CreateSessionRun(r, n) PROVE UNCHANGED handlerVars
    BY <2>1 DEF CreateSessionRun, CreateRun, Insert
  <2>2. ASSUME NEW r \in Runs, NEW q \in Runs, RetryFailedSessions(r, q) PROVE UNCHANGED handlerVars
    BY <2>2 DEF RetryFailedSessions, Insert
  <2>3. ASSUME NEW r \in Runs, Dispatch(r) \/ DispatchFails(r) PROVE UNCHANGED handlerVars
    BY <2>3 DEF Dispatch, DispatchFails
  <2>4. ASSUME NEW r \in Runs, TakeJob(r) PROVE ReadyInv'
    BY <2>4, <1>1 DEF TakeJob, TypeInv, JobInv
  <2>5. ASSUME NEW r \in Runs, NEW p \in Pairs, DeleteScore(r, p) PROVE UNCHANGED handlerVars
    BY <2>5 DEF DeleteScore, SetScores
  <2>6. CASE CompleteRun
    BY <2>6, <1>1 DEF CompleteRun
  <2>7. CASE HandlerReturns
    BY <2>7, <1>1 DEF HandlerReturns
  <2>8. ASSUME NEW e \in {"error", "timeout"}, HandlerRaises(e) PROVE ReadyInv'
    BY <2>8, <1>1 DEF HandlerRaises
  <2>9. CASE FailRun \/ FailRunIsLost
    BY <2>9, <1>1 DEF FailRun, FailRunIsLost
  <2> QED
    BY <1>1, <1>e, <2>1, <2>2, <2>3, <2>4, <2>5, <2>6, <2>7, <2>8, <2>9 DEF RunStep
<1>2. CASE EndStep /\ ready' = FALSE
  BY <1>2, <1>f
<1>3. ASSUME NEW r \in Runs, DeleteSessionRun(r) PROVE ReadyInv'
  BY <1>3, <1>e DEF DeleteSessionRun, DeleteRun
<1>4. ASSUME NEW s, NEW seq, ChangeRows(s, seq) PROVE ReadyInv'
  BY <1>4, <1>e DEF ChangeRows
<1>5. ASSUME NEW s \in Slots, NEW k \in Kinds, CreateScore(s, k) PROVE ReadyInv'
  BY <1>4, <1>5 DEF CreateScore
<1>11. ASSUME NEW s \in Slots, NEW i, NEW k \in Kinds, EditScore(s, i, k) PROVE ReadyInv'
  BY <1>4, <1>11 DEF EditScore
<1>12. ASSUME NEW s \in Slots, NEW i, RemoveScore(s, i) PROVE ReadyInv'
  BY <1>4, <1>12 DEF RemoveScore
<1>6. ASSUME NEW t \in Sessions, DeleteSessionTrace(t) PROVE ReadyInv'
  BY <1>6, <1>e DEF DeleteSessionTrace
<1>7. CASE SessionSetup \/ \E bad \in SUBSET Pairs : AggregateSession(bad)
  BY <1>7, <1>f DEF SessionSetup, AggregateSession
<1>8. ASSUME NEW broken \in SUBSET Slots, ScoreSignals(broken) PROVE ReadyInv'
  BY <1>8 DEF ScoreSignals
<1>9. CASE EmptySession
  BY <1>9 DEF EmptySession, MissingTrace
<1>10. CASE UNCHANGED sessionVars
  BY <1>10, <1>e DEF sessionVars, vars
<1> HIDE DEF ReadyInv
<1> QED
  BY <1>1, <1>2, <1>3, <1>5, <1>6, <1>7, <1>8, <1>9, <1>10, <1>11, <1>12 DEF SessionNext

(* SignalInv is inductive, given the types.                                *)
LEMMA NextKeepsSignals ==
    TypeInv /\ SignalInv /\ [SessionNext]_sessionVars => SignalInv'
  BY NextKeepsRows, NextKeepsReady DEF SignalInv, SignalRows

(* Types and SignalInv hold of every behaviour of session runs.            *)
LEMMA SignalsHold == SessionSpec => [](TypeInv /\ SignalInv)
<1>1. SessionInit => TypeInv /\ SignalInv
  BY RunInitTyped, InitSignals DEF SessionInit
<1>2. TypeInv /\ SignalInv /\ [SessionNext]_sessionVars => TypeInv' /\ SignalInv'
  BY SessionStepIsRunStep, NextKeepsTypes, NextKeepsSignals
<1> QED
  BY <1>1, <1>2, PTL DEF SessionSpec

(* Session runs, their sessions' signals and what is known of them are     *)
(* well typed, whoever adds, edits and deletes scores meanwhile.           *)
THEOREM SessionTypeCorrect == SessionSpec => [](TypeOK /\ SessionTypeOK)
<1>1. TypeInv /\ SignalInv => TypeOK /\ SessionTypeOK
  BY DEF TypeInv, SignalInv, SignalRows, ReadyInv, AnyRow, SessionTypeOK
<1> QED
  BY <1>1, SignalsHold, PTL

(* For any number of session runs, retries, attempts and users who meet at *)
(* a slot: session runs have paid at most once for what stands in it.      *)
THEOREM SignalsCorrect == SessionSpec => []SignalsOnce
<1>1. ASSUME SignalInv PROVE SignalsOnce
  <2>1. ASSUME NEW s \in Slots, ~blanked
        PROVE  Cardinality({i \in DOMAIN rows[s] : rows[s][i].for = "session" /\ rows[s][i].kind = "number"}) <= 1
    <3> DEFINE paid == {i \in DOMAIN rows[s] : rows[s][i].for = "session" /\ rows[s][i].kind = "number"}
    <3>1. \A i, j \in paid : i = j
      BY <1>1, <2>1 DEF SignalInv, SignalRows, PaidOnce, Paid
    <3>2. CASE paid = {}
      <4>1. Cardinality(paid) = 0
        BY <3>2, FS_EmptySet
      <4> HIDE DEF paid
      <4> QED
        BY <4>1 DEF paid
    <3>3. CASE paid # {}
      <4>1. PICK i \in paid : TRUE
        BY <3>3
      <4>2. paid = {i}
        BY <3>1, <4>1
      <4>3. Cardinality({i}) = 1
        BY FS_Singleton
      <4> HIDE DEF paid
      <4>4. Cardinality(paid) <= 1
        BY <4>2, <4>3
      <4> QED
        BY <4>4 DEF paid
    <3> QED
      BY <3>2, <3>3
  <2> QED
    BY <2>1 DEF SignalsOnce
<1> QED
  BY <1>1, SignalsHold, PTL

-----------------------------------------------------------------------------
(* Scores of a session                                                     *)

(* The numerator of 1 less a fraction, kept between 0 and 1.               *)
LEMMA OneLessIs ==
    ASSUME NEW num \in Nat, NEW den \in Nat
    PROVE  OneLess(num, den) = [num |-> IF num >= den THEN 0 ELSE den - num, den |-> den]
<1> DEFINE A == {den, den - num}
           m == den - num
<1>1. Min(A) = m
  <2>1. m \in A /\ \A y \in A : m <= y /\ y \in Int
    OBVIOUS
  <2> HIDE DEF A, m
  <2> QED
    BY <2>1 DEF Min
<1>2. Max({0, m}) = IF num >= den THEN 0 ELSE m
  <2> DEFINE top == IF num >= den THEN 0 ELSE m
             B == {0, m}
  <2>1. top \in B /\ \A y \in B : top >= y /\ y \in Int
    OBVIOUS
  <2> HIDE DEF B, top
  <2>2. Max(B) = top
    BY <2>1 DEF Max
  <2> QED
    BY <2>2 DEF B, top
<1> QED
  BY <1>1, <1>2 DEF OneLess, Fraction

(* Of two fractions that are taken from 1, the greater leaves no more.     *)
LEMMA OneLessMono ==
    ASSUME NEW a \in Nat, NEW b \in Nat, a <= b, NEW den \in Nat
    PROVE  ~Below(OneLess(a, den), OneLess(b, den))
<1> DEFINE x == IF a >= den THEN 0 ELSE den - a
           y == IF b >= den THEN 0 ELSE den - b
<1>1. x \in Nat /\ y \in Nat /\ y <= x
  OBVIOUS
<1>2. OneLess(a, den).num = x /\ OneLess(b, den).num = y
      /\ OneLess(a, den).den = den /\ OneLess(b, den).den = den
  BY OneLessIs
<1> HIDE DEF x, y
<1>3. y * den <= x * den /\ y * den \in Nat /\ x * den \in Nat
  BY <1>1
<1> QED
  BY <1>2, <1>3 DEF Below

(* Sums of risks are sums of a function.                                   *)
LEMMA TotalIs == ASSUME NEW risk, NEW some PROVE Total(risk, some) = Sums(risk, some)
  BY DEF Total, Sums

Totals(k, risk) == {Total(risk, some) : some \in kSubset(k, DOMAIN risk)}

(* The sum of the greatest risks is the sum of some, and none of as many   *)
(* is greater.                                                             *)
LEMMA LargestIs ==
    ASSUME NEW D, IsFiniteSet(D), NEW risk \in [D -> Nat], NEW k \in Nat, k <= Cardinality(D)
    PROVE  /\ Largest(k, risk) \in Nat
           /\ \E some \in kSubset(k, D) : Largest(k, risk) = Sums(risk, some)
           /\ \A some \in kSubset(k, D) : Largest(k, risk) >= Sums(risk, some)
<1> DEFINE Ks == kSubset(k, D)
           f == [some \in Ks |-> Sums(risk, some)]
           image == {f[some] : some \in Ks}
<1>1. \A some \in Ks : some \in SUBSET D /\ IsFiniteSet(some) /\ Sums(risk, some) \in Nat
  <2> TAKE some \in Ks
  <2>1. some \in SUBSET D
    BY DEF kSubset
  <2>2. IsFiniteSet(some) /\ \A x \in some : risk[x] \in Nat
    BY <2>1, FS_Subset
  <2> QED
    BY <2>1, <2>2, SumsNat
<1>2. Ks # {}
  BY SomeOfSize
<1>3. IsFiniteSet(Ks)
  <2>1. IsFiniteSet(SUBSET D) /\ Ks \in SUBSET (SUBSET D)
    BY FS_SUBSET DEF kSubset
  <2> HIDE DEF Ks
  <2> QED
    BY <2>1, FS_Subset
<1>4. f = [some \in Ks |-> f[some]]
  OBVIOUS
<1>5. Totals(k, risk) = image
  BY TotalIs DEF Totals
<1>6. image \in SUBSET Nat /\ image # {}
  BY <1>1, <1>2
<1>7. \A some \in Ks : f[some] = Sums(risk, some)
  OBVIOUS
<1> HIDE DEF Ks, f
<1>8. IsFiniteSet(image)
  BY <1>3, <1>4, ImageFinite
<1>9. Max(image) \in image /\ \A n \in image : Max(image) >= n
  <2>1. image \in SUBSET Int
    BY <1>6
  <2> HIDE DEF image
  <2> QED
    BY <1>6, <1>8, <2>1, MaxOf
<1>10. Largest(k, risk) = Max(image)
  BY <1>5 DEF Largest, Totals
<1>11. Largest(k, risk) \in image /\ \A some \in Ks : Largest(k, risk) >= f[some]
  <2>1. \A some \in Ks : f[some] \in image
    OBVIOUS
  <2> HIDE DEF image
  <2> QED
    BY <1>9, <1>10, <2>1
<1>12. \E some \in Ks : Largest(k, risk) = f[some]
  BY <1>11
<1>13. Largest(k, risk) \in Nat
  BY <1>6, <1>11
<1> QED
  BY <1>7, <1>11, <1>12, <1>13 DEF Ks

(* Greater risks have greater sums of the greatest.                        *)
LEMMA LargestMono ==
    ASSUME NEW D, IsFiniteSet(D), NEW k \in Nat, k <= Cardinality(D),
           NEW r \in [D -> Nat], NEW q \in [D -> Nat], \A x \in D : r[x] <= q[x]
    PROVE  Largest(k, r) <= Largest(k, q)
<1>1. PICK some \in kSubset(k, D) : Largest(k, r) = Sums(r, some)
  BY LargestIs
<1>2. some \in SUBSET D /\ IsFiniteSet(some)
  <2>1. some \in SUBSET D
    BY DEF kSubset
  <2> QED
    BY <2>1, FS_Subset
<1>3. Sums(r, some) <= Sums(q, some)
  <2>1. \A x \in some : r[x] \in Int /\ q[x] \in Int /\ r[x] <= q[x]
    BY <1>2
  <2> QED
    BY <1>2, <2>1, SumsMono
<1>4. Largest(k, q) >= Sums(q, some) /\ Largest(k, q) \in Nat /\ Largest(k, r) \in Nat
  BY LargestIs
<1>5. Sums(q, some) \in Nat
  <2>1. \A x \in some : q[x] \in Nat
    BY <1>2
  <2> QED
    BY <1>2, <2>1, SumsNat
<1> QED
  BY <1>1, <1>3, <1>4, <1>5

(* How many risks are the top ones: at least one, and no more than there   *)
(* are; up to thirteen traces, two.                                        *)
LEMMA TopKIs ==
    ASSUME NEW n \in Nat, n > 0
    PROVE  TopK(n) \in 1..n /\ (n <= 13 => TopK(n) <= 2)
<1> DEFINE c == (15 * n + 99) \div 100
           A == {1, c}
<1>1. c \in Nat /\ 100 * c <= 15 * n + 99
  OBVIOUS
<1>2. c <= n /\ (n <= 13 => c <= 2)
  <2> HIDE DEF c
  <2> QED
    BY <1>1
<1>3. TopK(n) \in A
  <2>1. \E x \in A : \A y \in A : x >= y
    <3> HIDE DEF c
    <3> QED
      BY <1>1
  <2> QED
    BY <2>1 DEF TopK, Max
<1> HIDE DEF c
<1>4. TopK(n) >= 1
  <2>1. \E x \in A : \A y \in A : x >= y
    BY <1>1
  <2>2. 1 \in A
    OBVIOUS
  <2> HIDE DEF A
  <2>3. \A y \in A : Max(A) >= y
    BY <2>1 DEF Max
  <2> QED
    BY <2>2, <2>3 DEF TopK, A, c
<1> QED
  BY <1>1, <1>2, <1>3, <1>4

(* The unit of signals is a positive number.                               *)
LEMMA ScaleIs == Scale \in Nat /\ Scale > 0
<1>1. Scale \in Nat \ {0}
  BY SessionMetricsAssumption, Zenon
<1> QED
  BY <1>1

(* There are finitely many signals.                                        *)
LEMMA SignalsFinite == IsFiniteSet(SignalNames)
<1>1. IsFiniteSet({"confidence"})
  BY FS_Singleton
<1>2. IsFiniteSet({"confidence"} \cup {"loop_detection"})
  BY <1>1, FS_AddElement
<1>3. IsFiniteSet({"confidence"} \cup {"loop_detection"} \cup {"tool_correctness"})
  BY <1>2, FS_AddElement
<1>4. IsFiniteSet({"confidence"} \cup {"loop_detection"} \cup {"tool_correctness"} \cup {"coherence"})
  BY <1>3, FS_AddElement
<1>5. SignalNames = {"confidence"} \cup {"loop_detection"} \cup {"tool_correctness"} \cup {"coherence"}
  BY DEF SignalNames
<1> QED
  BY <1>4, <1>5

Natural(given) == \A s \in DOMAIN given : given[s] \in Nat

(* Weights that are not negative stay so when the defaults are filled in.  *)
LEMMA WeightsAre == ASSUME NEW given, Natural(given) PROVE Weights(given) \in [SignalNames -> Nat]
<1>1. \A s \in SignalNames : Weights(given)[s] \in Nat
  BY DEF Weights, Natural, DefaultWeights
<1> QED
  BY <1>1 DEF Weights

(* A trace has some signals, and the risk of each is a natural number.     *)
LEMMA RiskNat ==
    ASSUME NEW w \in [SignalNames -> Nat], NEW t \in AllTraces
    PROVE  /\ DOMAIN t \in SUBSET SignalNames /\ IsFiniteSet(DOMAIN t)
           /\ \A s \in DOMAIN t : t[s] \in 0..Scale /\ Risk(w, t, s) \in Nat
<1>1. PICK S \in SUBSET SignalNames : t \in [S -> 0..Scale]
  BY DEF AllTraces
<1>2. IsFiniteSet(S)
  BY SignalsFinite, FS_Subset
<1>3. ASSUME NEW s \in S PROVE Risk(w, t, s) \in Nat
  <2>1. w[s] \in Nat /\ t[s] \in 0..Scale /\ Scale \in Nat
    BY <1>1, ScaleIs
  <2>2. Scale - t[s] \in Nat
    BY <2>1
  <2> DEFINE d == Scale - t[s]
  <2> HIDE DEF d
  <2>3. w[s] * d \in Nat
    BY <2>1, <2>2 DEF d
  <2> QED
    BY <2>3 DEF Risk, d
<1> QED
  BY <1>1, <1>2, <1>3

(* The risk of a trace is that of one of its signals, and no signal of it  *)
(* has a greater.                                                          *)
LEMMA StepRiskIs ==
    ASSUME NEW w \in [SignalNames -> Nat], NEW t \in AllTraces, DOMAIN t # {}
    PROVE  /\ StepRisk(w, t) \in Nat
           /\ \E s \in DOMAIN t : StepRisk(w, t) = Risk(w, t, s)
           /\ \A s \in DOMAIN t : StepRisk(w, t) >= Risk(w, t, s)
<1> DEFINE S == DOMAIN t
           f == [s \in S |-> Risk(w, t, s)]
           image == {f[s] : s \in S}
<1>1. IsFiniteSet(S) /\ \A s \in S : Risk(w, t, s) \in Nat
  BY RiskNat
<1>2. f = [s \in S |-> f[s]] /\ \A s \in S : f[s] = Risk(w, t, s)
  OBVIOUS
<1>3. StepRisk(w, t) = Max(image)
  BY DEF StepRisk
<1> HIDE DEF S, f
<1>4. IsFiniteSet(image)
  BY <1>1, <1>2, ImageFinite
<1>5. image \in SUBSET Int /\ image # {}
  BY <1>1, <1>2 DEF S
<1>6. Max(image) \in image /\ \A n \in image : Max(image) >= n
  <2> HIDE DEF image
  <2> QED
    BY <1>4, <1>5, MaxOf
<1>7. \A s \in S : f[s] \in image
  OBVIOUS
<1>8. \E s \in S : StepRisk(w, t) = f[s]
  BY <1>3, <1>6
<1>9. \A s \in S : StepRisk(w, t) >= f[s]
  <2> HIDE DEF image
  <2> QED
    BY <1>3, <1>6, <1>7
<1> QED
  BY <1>1, <1>2, <1>8, <1>9 DEF S

Evaluable(session) == {j \in DOMAIN session : DOMAIN session[j] # {}}
Risks(given, session) == [i \in Evaluable(session) |-> StepRisk(Weights(given), session[i])]

(* The score of a session with a trace that has a signal.                  *)
LEMMA ReliabilityIs ==
    ASSUME NEW given, NEW session, Evaluable(session) # {}
    PROVE  LET k == TopK(Cardinality(Evaluable(session)))
               r == Risks(given, session)
           IN  Reliability(given, session) = OneLess(9 * Largest(k, r) + k * Largest(1, r), 10 * k * Full)
  BY Zenon DEF Reliability, Risks, Evaluable

(* The risks of a session's traces are natural numbers.                    *)
LEMMA RisksAre ==
    ASSUME NEW given, Natural(given), NEW session \in Seq(AllTraces)
    PROVE  /\ IsFiniteSet(Evaluable(session))
           /\ Risks(given, session) \in [Evaluable(session) -> Nat]
<1>1. PICK n \in Nat : n = Len(session) /\ DOMAIN session = 1..n
  OBVIOUS
<1>2. IsFiniteSet(Evaluable(session))
  <2>1. IsFiniteSet(1..n) /\ Evaluable(session) \in SUBSET (1..n)
    BY <1>1, FS_Interval DEF Evaluable
  <2> QED
    BY <2>1, FS_Subset
<1>3. \A i \in Evaluable(session) : session[i] \in AllTraces /\ DOMAIN session[i] # {}
  BY <1>1 DEF Evaluable
<1>4. \A i \in Evaluable(session) : StepRisk(Weights(given), session[i]) \in Nat
  BY <1>3, WeightsAre, StepRiskIs
<1> QED
  BY <1>2, <1>4 DEF Risks

(* In a session of up to thirteen traces, one whose risk is full shows.    *)
LEMMA FullShows ==
    ASSUME NEW D, IsFiniteSet(D), NEW risk \in [D -> Nat], Cardinality(D) <= 13,
           NEW x \in D, risk[x] >= Full
    PROVE  LET k == TopK(Cardinality(D))
           IN  Below(OneLess(9 * Largest(k, risk) + k * Largest(1, risk), 10 * k * Full), Fraction(1, 2))
<1> DEFINE n == Cardinality(D)
           k == TopK(n)
           a == Largest(k, risk)
           b == Largest(1, risk)
<1>1. n \in Nat /\ n > 0
  <2>1. n \in Nat
    BY FS_CardinalityType
  <2>2. n # 0
    BY FS_EmptySet
  <2> QED
    BY <2>1, <2>2
<1>2. k \in 1..n /\ k <= 2
  <2> HIDE DEF n
  <2> QED
    BY <1>1, TopKIs DEF n
<1>3. Full \in Nat /\ Full > 0
  BY ScaleIs DEF Full
<1>4. Cardinality({x}) = 1 /\ IsFiniteSet({x}) /\ Sums(risk, {x}) = risk[x]
  <2>1. Cardinality({x}) = 1 /\ IsFiniteSet({x})
    BY FS_Singleton
  <2>2. Sums(risk, {x}) = risk[x] + Sums(risk, {x} \ {x}) /\ Sums(risk, {}) = 0
    <3>1. \A y \in {x} : risk[y] \in Int
      OBVIOUS
    <3> QED
      BY <2>1, <3>1, SumsRec
  <2>3. {x} \ {x} = {}
    OBVIOUS
  <2> QED
    BY <2>1, <2>2, <2>3
<1>5. b \in Nat /\ b >= Full
  <2>1. {x} \in kSubset(1, D)
    BY <1>4 DEF kSubset
  <2>2. b \in Nat /\ b >= Sums(risk, {x})
    BY <1>1, <2>1, LargestIs
  <2> QED
    BY <1>3, <1>4, <2>2
<1>6. a \in Nat /\ a >= Full
  <2>1. PICK some \in kSubset(k, D) : x \in some
    <3>1. CASE k = 1
      BY <1>4, <3>1 DEF kSubset
    <3>2. CASE k = 2
      <4>1. PICK y \in D : y # x
        <5> SUFFICES ASSUME \A y \in D : y = x PROVE FALSE
          OBVIOUS
        <5>1. D = {x}
          OBVIOUS
        <5> QED
          BY <1>2, <1>4, <3>2, <5>1
      <4>2. Cardinality({x} \cup {y}) = 2
        <5>1. y \notin {x}
          BY <4>1
        <5>2. Cardinality({x} \cup {y}) = Cardinality({x}) + 1
          BY <1>4, <5>1, FS_AddElement
        <5> QED
          BY <1>4, <5>2
      <4>3. {x} \cup {y} \in kSubset(2, D)
        BY <4>1, <4>2 DEF kSubset
      <4> QED
        BY <3>2, <4>3
    <3> HIDE DEF k
    <3> QED
      BY <1>2, <3>1, <3>2
  <2>2. some \in SUBSET D /\ IsFiniteSet(some)
    <3>1. some \in SUBSET D
      BY DEF kSubset
    <3> QED
      BY <3>1, FS_Subset
  <2>3. Sums(risk, {x}) <= Sums(risk, some) /\ Sums(risk, some) \in Nat
    <3>1. {x} \in SUBSET some /\ \A y \in some : risk[y] \in Nat
      BY <2>1, <2>2
    <3> QED
      BY <2>2, <3>1, SumsPart, SumsNat
  <2>4. a \in Nat /\ a >= Sums(risk, some)
    <3>1. k \in Nat /\ k <= Cardinality(D)
      <4> HIDE DEF k
      <4> QED
        BY <1>1, <1>2
    <3> HIDE DEF k
    <3> QED
      BY <3>1, LargestIs
  <2> QED
    BY <1>3, <1>4, <2>3, <2>4
<1> DEFINE num == 9 * a + k * b
           den == 10 * k * Full
           left == IF num >= den THEN 0 ELSE den - num
<1> HIDE DEF a, b, n, k
<1>7. k = 1 \/ k = 2
  BY <1>1, <1>2
<1>8. num \in Nat /\ den \in Nat /\ den > 0 /\ left * 2 < den
  BY <1>3, <1>5, <1>6, <1>7
<1>9. OneLess(num, den) = [num |-> left, den |-> den]
  <2> HIDE DEF num, den
  <2> QED
    BY <1>8, OneLessIs DEF left
<1> HIDE DEF num, den, left
<1>10. Below(OneLess(num, den), Fraction(1, 2))
  BY <1>8, <1>9 DEF Below, Fraction
<1> QED
  BY <1>10 DEF num, den, a, b, k, n

(* What a session of perfect traces and one that fails in a signal is.     *)
LEMMA OneFailsIs ==
    ASSUME NEW n \in Nat, NEW m \in 1..n, NEW s \in SignalNames
    PROVE  /\ OneFails(n, m, s) \in Seq(AllTraces)
           /\ Evaluable(OneFails(n, m, s)) = 1..n
           /\ s \in DOMAIN OneFails(n, m, s)[m]
           /\ OneFails(n, m, s)[m][s] = 0
<1> DEFINE bad == [Perfect EXCEPT ![s] = 0]
           session == OneFails(n, m, s)
<1>1. Perfect \in [SignalNames -> 0..Scale] /\ bad \in [SignalNames -> 0..Scale] /\ bad[s] = 0
  BY ScaleIs DEF Perfect
<1>2. Perfect \in AllTraces /\ bad \in AllTraces
  BY <1>1 DEF AllTraces
<1>3. DOMAIN session = 1..n /\ \A i \in 1..n : session[i] = IF i = m THEN bad ELSE Perfect
  BY DEF OneFails
<1> HIDE DEF bad
<1>4. session \in [1..n -> AllTraces]
  BY <1>2 DEF OneFails, bad
<1>5. session \in Seq(AllTraces)
  BY <1>4
<1>6. \A i \in 1..n : DOMAIN session[i] # {}
  BY <1>1, <1>3 DEF SignalNames
<1> QED
  BY <1>1, <1>3, <1>5, <1>6 DEF Evaluable

(* One trace without any value in a signal with full weight is enough to   *)
(* fail a session of up to thirteen traces, whatever its place: there are  *)
(* at most two top risks, so that its risk is at least half their mean.    *)
THEOREM WorstShows == WorstTraceShows
<1> SUFFICES ASSUME NEW n \in 1..MaxTraces, NEW s \in SignalNames \ {"tool_correctness"},
                    NEW m \in 1..n
             PROVE  Below(Reliability(<<>>, OneFails(n, m, s)), Fraction(1, 2))
  BY DEF WorstTraceShows
<1> DEFINE session == OneFails(n, m, s)
           w == Weights(<<>>)
           r == Risks(<<>>, session)
           D == Evaluable(session)
<1>1. n \in Nat /\ n <= 13
  BY SessionsAssumption
<1>2. /\ session \in Seq(AllTraces) /\ D = 1..n
      /\ s \in DOMAIN session[m] /\ session[m][s] = 0
  BY <1>1, OneFailsIs
<1>3. Natural(<<>>) /\ w \in [SignalNames -> Nat] /\ w[s] = 10
  <2>1. DOMAIN <<>> = {}
    OBVIOUS
  <2>2. Natural(<<>>)
    BY <2>1 DEF Natural
  <2>3. w[s] = 10
    BY <2>1 DEF Weights, DefaultWeights
  <2> QED
    BY <2>2, <2>3, WeightsAre
<1>4. IsFiniteSet(D) /\ r \in [D -> Nat]
  BY <1>2, <1>3, RisksAre
<1>5. Cardinality(D) = n /\ m \in D
  BY <1>1, <1>2, FS_Interval
<1>6. r[m] >= Full
  <2>1. r[m] = StepRisk(w, session[m])
    BY <1>5 DEF Risks
  <2>2. session[m] \in AllTraces
    BY <1>1, <1>2, <1>5 DEF Evaluable
  <2>3. StepRisk(w, session[m]) >= Risk(w, session[m], s)
    BY <1>2, <1>3, <2>2, StepRiskIs
  <2>4. Risk(w, session[m], s) = Full
    <3> DEFINE x == session[m][s]
    <3>1. x = 0 /\ Risk(w, session[m], s) = w[s] * (Scale - x)
      BY <1>2 DEF Risk
    <3> HIDE DEF w, x
    <3> QED
      BY <1>3, <3>1, ScaleIs DEF Full
  <2> QED
    BY <2>1, <2>3, <2>4
<1> DEFINE k == TopK(Cardinality(D))
<1>7. Reliability(<<>>, session) = OneLess(9 * Largest(k, r) + k * Largest(1, r), 10 * k * Full)
  <2>1. Evaluable(session) # {}
    BY <1>5
  <2> QED
    BY <2>1, ReliabilityIs, Zenon
<1>8. Below(OneLess(9 * Largest(k, r) + k * Largest(1, r), 10 * k * Full), Fraction(1, 2))
  <2>1. Cardinality(D) <= 13
    BY <1>1, <1>5
  <2> HIDE DEF D, r
  <2> QED
    BY <1>4, <1>5, <1>6, <2>1, FullShows, Zenon
<1> QED
  BY <1>7, <1>8, Zenon

-----------------------------------------------------------------------------
(* Scores of a session whose signals are worse                             *)

\* no signal of u is better
Worse(t, u) == DOMAIN t = DOMAIN u /\ \A s \in DOMAIN t : u[s] <= t[s]

WorseSession(before, after) ==
    DOMAIN before = DOMAIN after /\ \A i \in DOMAIN before : Worse(before[i], after[i])

(* A product of greater natural numbers is no less.                        *)
LEMMA ProductMono ==
    ASSUME NEW a \in Nat, NEW b \in Nat, NEW x \in Nat, NEW y \in Nat, a <= x, b <= y
    PROVE  a * b \in Nat /\ x * y \in Nat /\ a * b <= x * y
<1>1. PICK d \in Nat : x = a + d
  <2>1. x - a \in Nat /\ x = a + (x - a)
    OBVIOUS
  <2> QED
    BY <2>1
<1>2. PICK e \in Nat : y = b + e
  <2>1. y - b \in Nat /\ y = b + (y - b)
    OBVIOUS
  <2> QED
    BY <2>1
<1>3. x * y = a * b + a * e + d * b + d * e
  BY <1>1, <1>2
<1>4. a * b \in Nat /\ a * e \in Nat /\ d * b \in Nat /\ d * e \in Nat
  BY <1>1, <1>2
<1> QED
  BY <1>3, <1>4

(* A worse signal is a greater risk.                                       *)
LEMMA RiskMono ==
    ASSUME NEW w \in [SignalNames -> Nat], NEW t \in AllTraces, NEW u \in AllTraces, Worse(t, u),
           NEW s \in DOMAIN t
    PROVE  Risk(w, t, s) \in Nat /\ Risk(w, u, s) \in Nat /\ Risk(w, t, s) <= Risk(w, u, s)
<1>1. s \in SignalNames /\ t[s] \in 0..Scale /\ u[s] \in 0..Scale /\ u[s] <= t[s]
  BY RiskNat DEF Worse
<1> DEFINE x == Scale - t[s]
           y == Scale - u[s]
<1>2. x \in Nat /\ y \in Nat /\ x <= y
  BY <1>1, ScaleIs
<1>3. w[s] \in Nat /\ Risk(w, t, s) = w[s] * x /\ Risk(w, u, s) = w[s] * y
  BY <1>1 DEF Risk
<1> HIDE DEF x, y
<1> QED
  BY <1>2, <1>3, ProductMono

(* A trace with worse signals has a greater risk.                          *)
LEMMA StepRiskMono ==
    ASSUME NEW w \in [SignalNames -> Nat], NEW t \in AllTraces, NEW u \in AllTraces, Worse(t, u),
           DOMAIN t # {}
    PROVE  StepRisk(w, t) <= StepRisk(w, u)
<1>1. PICK s \in DOMAIN t : StepRisk(w, t) = Risk(w, t, s)
  BY StepRiskIs
<1>2. Risk(w, t, s) <= Risk(w, u, s) /\ Risk(w, t, s) \in Nat /\ Risk(w, u, s) \in Nat
  BY RiskMono
<1>3. StepRisk(w, u) \in Nat /\ StepRisk(w, u) >= Risk(w, u, s)
  BY StepRiskIs DEF Worse
<1> QED
  BY <1>1, <1>2, <1>3

(* A session with worse signals is not scored better by agent_reliability. *)
LEMMA ReliabilityMono ==
    ASSUME NEW given, Natural(given), NEW before \in Seq(AllTraces), NEW after \in Seq(AllTraces),
           WorseSession(before, after)
    PROVE  ~Below(Reliability(given, before), Reliability(given, after))
<1> DEFINE D == Evaluable(before)
           w == Weights(given)
           r == Risks(given, before)
           q == Risks(given, after)
           k == TopK(Cardinality(D))
<1>1. Evaluable(after) = D
  BY DEF Evaluable, WorseSession, Worse
<1>2. CASE D = {}
  <2>1. Reliability(given, before) = One /\ Reliability(given, after) = One
    BY <1>1, <1>2 DEF Reliability, Evaluable
  <2> QED
    BY <2>1 DEF Below, One, Fraction
<1>3. CASE D # {}
  <2>1. IsFiniteSet(D) /\ r \in [D -> Nat] /\ q \in [D -> Nat]
    <3>1. q \in [Evaluable(after) -> Nat]
      BY RisksAre
    <3> QED
      BY <1>1, <3>1, RisksAre
  <2>2. ASSUME NEW i \in D PROVE r[i] <= q[i]
    <3>1. /\ before[i] \in AllTraces /\ after[i] \in AllTraces
          /\ DOMAIN before[i] # {} /\ Worse(before[i], after[i])
      BY DEF Evaluable, WorseSession
    <3>2. r[i] = StepRisk(w, before[i]) /\ q[i] = StepRisk(w, after[i])
      BY <1>1 DEF Risks
    <3>3. w \in [SignalNames -> Nat]
      BY WeightsAre
    <3> HIDE DEF w, r, q
    <3> QED
      BY <3>1, <3>2, <3>3, StepRiskMono
  <2>3. k \in Nat /\ k <= Cardinality(D) /\ 1 <= Cardinality(D)
    <3> DEFINE n == Cardinality(D)
    <3>1. n \in Nat /\ n # 0
      <4> HIDE DEF D
      <4> QED
        BY <1>3, <2>1, FS_CardinalityType, FS_EmptySet
    <3> HIDE DEF n
    <3>2. TopK(n) \in 1..n
      BY <3>1, TopKIs
    <3> QED
      BY <3>1, <3>2 DEF n
  <2>4. Reliability(given, before) = OneLess(9 * Largest(k, r) + k * Largest(1, r), 10 * k * Full)
    BY <1>3, ReliabilityIs, Zenon
  <2>5. Reliability(given, after) = OneLess(9 * Largest(k, q) + k * Largest(1, q), 10 * k * Full)
    <3> HIDE DEF D
    <3>1. Evaluable(after) # {}
      BY <1>1, <1>3
    <3>2. LET j == TopK(Cardinality(Evaluable(after)))
              p == Risks(given, after)
          IN  Reliability(given, after) = OneLess(9 * Largest(j, p) + j * Largest(1, p), 10 * j * Full)
      BY <3>1, ReliabilityIs, Zenon
    <3> QED
      BY <1>1, <3>2, Zenon
  <2> HIDE DEF D, r, q, k
  <2>6. /\ Largest(k, r) <= Largest(k, q) /\ Largest(1, r) <= Largest(1, q)
        /\ Largest(k, r) \in Nat /\ Largest(k, q) \in Nat
        /\ Largest(1, r) \in Nat /\ Largest(1, q) \in Nat
    BY <2>1, <2>2, <2>3, LargestMono, LargestIs
  <2> DEFINE a == Largest(k, r)
             b == Largest(k, q)
             x == Largest(1, r)
             y == Largest(1, q)
             m == 9 * a + k * x
             n == 9 * b + k * y
             den == 10 * k * Full
  <2>7. m \in Nat /\ n \in Nat /\ m <= n /\ den \in Nat
    <3> HIDE DEF a, b, x, y
    <3>1. k * x \in Nat /\ k * y \in Nat /\ k * x <= k * y
      BY <2>3, <2>6, ProductMono DEF x, y
    <3>2. a \in Nat /\ b \in Nat /\ a <= b
      BY <2>6 DEF a, b
    <3>3. den \in Nat
      <4>1. Full \in Nat
        BY ScaleIs DEF Full
      <4> QED
        BY <2>3, <4>1
    <3> QED
      BY <3>1, <3>2, <3>3
  <2>8. Reliability(given, before) = OneLess(m, den) /\ Reliability(given, after) = OneLess(n, den)
    BY <2>4, <2>5, Zenon
  <2> HIDE DEF m, n, den
  <2>9. ~Below(OneLess(m, den), OneLess(n, den))
    BY <2>7, OneLessMono
  <2> QED
    BY <2>8, <2>9
<1> QED
  BY <1>2, <1>3

\* the signals that amplify low confidence
Others(t) == DOMAIN t \ {"confidence"}
RisksOf(w, t) == [s \in Others(t) |-> Risk(w, t, s)]

(* The penalty is a sum of a function.                                     *)
LEMMA PenaltyIs == ASSUME NEW w, NEW t PROVE Penalty(w, t) = Sums(RisksOf(w, t), Others(t))
<1> DEFINE f == RisksOf(w, t)
           S == Others(t)
           A(it) == [s \in SUBSET S |-> IF s = {} THEN 0
                       ELSE Risk(w, t, CHOOSE x \in s : TRUE) + it[s \ {CHOOSE x \in s : TRUE}]]
           B(it) == [s \in SUBSET S |-> IF s = {} THEN 0
                       ELSE f[CHOOSE x \in s : TRUE] + it[s \ {CHOOSE x \in s : TRUE}]]
<1>1. \A it : A(it) = B(it)
  BY DEF RisksOf
<1>2. Penalty(w, t) = (CHOOSE it : it = A(it))[S]
  BY DEF Penalty, Others, MapThenSumSet, MapThenFoldSet
<1>3. Sums(f, S) = (CHOOSE it : it = B(it))[S]
  BY DEF Sums, MapThenSumSet, MapThenFoldSet
<1> HIDE DEF A, B, f, S
<1>4. (CHOOSE it : it = A(it)) = (CHOOSE it : it = B(it))
  BY <1>1, Zenon
<1>5. Penalty(w, t) = Sums(f, S)
  BY <1>2, <1>3, <1>4
<1> QED
  BY <1>5 DEF f, S

(* Worse signals amplify more.                                             *)
LEMMA PenaltyMono ==
    ASSUME NEW w \in [SignalNames -> Nat], NEW t \in AllTraces, NEW u \in AllTraces, Worse(t, u)
    PROVE  Penalty(w, t) \in Nat /\ Penalty(w, u) \in Nat /\ Penalty(w, t) <= Penalty(w, u)
<1> DEFINE S == Others(t)
           f == RisksOf(w, t)
           g == RisksOf(w, u)
<1>1. Others(u) = S /\ IsFiniteSet(S)
  <2>1. IsFiniteSet(DOMAIN t) /\ S \in SUBSET DOMAIN t
    BY RiskNat DEF Others
  <2>2. IsFiniteSet(S)
    BY <2>1, FS_Subset
  <2> QED
    BY <2>2 DEF Others, Worse
<1>2. \A s \in S : f[s] \in Nat /\ g[s] \in Nat /\ f[s] <= g[s]
  <2> TAKE s \in S
  <2>1. s \in DOMAIN t /\ f[s] = Risk(w, t, s) /\ g[s] = Risk(w, u, s)
    BY DEF Others, RisksOf, Worse
  <2> HIDE DEF S, f, g
  <2> QED
    BY <2>1, RiskMono
<1>3. Penalty(w, t) = Sums(f, S) /\ Penalty(w, u) = Sums(g, S)
  BY <1>1, PenaltyIs
<1> HIDE DEF S, f, g
<1>4. Sums(f, S) \in Nat /\ Sums(g, S) \in Nat
  BY <1>1, <1>2, SumsNat
<1>5. Sums(f, S) <= Sums(g, S)
  <2>1. \A s \in S : f[s] \in Int /\ g[s] \in Int /\ f[s] <= g[s]
    BY <1>2
  <2> QED
    BY <1>1, <2>1, SumsMono
<1> QED
  BY <1>3, <1>4, <1>5

(* A trace with worse signals is more uncertain.                           *)
LEMMA UncertaintyMono ==
    ASSUME NEW w \in [SignalNames -> Nat], NEW t \in AllTraces, NEW u \in AllTraces, Worse(t, u),
           "confidence" \in DOMAIN t
    PROVE  /\ WeightedUncertainty(w, t) \in Nat /\ WeightedUncertainty(w, u) \in Nat
           /\ WeightedUncertainty(w, t) <= WeightedUncertainty(w, u)
<1> DEFINE a == Full + Penalty(w, t)
           b == Full + Penalty(w, u)
           x == Risk(w, t, "confidence")
           y == Risk(w, u, "confidence")
<1>1. x \in Nat /\ y \in Nat /\ x <= y
  BY RiskMono
<1>2. a \in Nat /\ b \in Nat /\ a <= b
  <2>1. Full \in Nat
    BY ScaleIs DEF Full
  <2>2. Penalty(w, t) \in Nat /\ Penalty(w, u) \in Nat /\ Penalty(w, t) <= Penalty(w, u)
    BY PenaltyMono
  <2> QED
    BY <2>1, <2>2
<1>3. WeightedUncertainty(w, t) = a * x /\ WeightedUncertainty(w, u) = b * y
  BY DEF WeightedUncertainty
<1> HIDE DEF a, b, x, y
<1>4. a * x \in Nat /\ b * y \in Nat /\ a * x <= b * y
  BY <1>1, <1>2, ProductMono
<1> QED
  BY <1>3, <1>4

Uncertain(session) == {i \in DOMAIN session : "confidence" \in DOMAIN session[i]}
Uncertainties(given, session) ==
    [i \in Uncertain(session) |-> WeightedUncertainty(Weights(given), session[i])]
Squares(given, session) ==
    LET wu == Uncertainties(given, session) IN [i \in Uncertain(session) |-> wu[i] * wu[i]]

(* What agent_consistency makes of a session.                              *)
LEMMA InstabilityIs ==
    ASSUME NEW given, NEW session
    PROVE  /\ Instability(given, session).sum = Sums(Squares(given, session), Uncertain(session))
           /\ Instability(given, session).of = Cardinality(Uncertain(session))
  BY TotalIs DEF Instability, Squares, Uncertain, Uncertainties

(* A session with worse signals is not scored better by agent_consistency: *)
(* it is scored by as many traces, and the sum of their squares is no less.*)
LEMMA InstabilityMono ==
    ASSUME NEW given, Natural(given), NEW before \in Seq(AllTraces), NEW after \in Seq(AllTraces),
           WorseSession(before, after)
    PROVE  /\ Instability(given, before).of = Instability(given, after).of
           /\ Instability(given, before).sum <= Instability(given, after).sum
<1> DEFINE U == Uncertain(before)
           w == Weights(given)
           f == Squares(given, before)
           g == Squares(given, after)
<1>1. Uncertain(after) = U
  BY DEF Uncertain, WorseSession, Worse
<1>2. IsFiniteSet(U)
  <2>1. PICK n \in Nat : DOMAIN before = 1..n
    OBVIOUS
  <2>2. IsFiniteSet(1..n) /\ U \in SUBSET (1..n)
    BY <2>1, FS_Interval DEF Uncertain
  <2> QED
    BY <2>2, FS_Subset
<1>3. \A i \in U : f[i] \in Int /\ g[i] \in Int /\ f[i] <= g[i]
  <2> TAKE i \in U
  <2>1. /\ before[i] \in AllTraces /\ after[i] \in AllTraces
        /\ "confidence" \in DOMAIN before[i] /\ Worse(before[i], after[i])
    BY DEF Uncertain, WorseSession
  <2> DEFINE x == WeightedUncertainty(w, before[i])
             y == WeightedUncertainty(w, after[i])
  <2>2. f[i] = x * x /\ g[i] = y * y
    <3>1. i \in Uncertain(before) /\ i \in Uncertain(after)
      BY <1>1
    <3> QED
      BY <3>1 DEF Squares, Uncertainties
  <2>3. w \in [SignalNames -> Nat]
    BY WeightsAre
  <2> HIDE DEF w, f, g, U
  <2>4. x \in Nat /\ y \in Nat /\ x <= y
    BY <2>1, <2>3, UncertaintyMono
  <2> HIDE DEF x, y
  <2>5. x * x \in Nat /\ y * y \in Nat /\ x * x <= y * y
    BY <2>4, ProductMono
  <2> QED
    BY <2>2, <2>5
<1>4. /\ Instability(given, before).sum = Sums(f, U) /\ Instability(given, after).sum = Sums(g, U)
      /\ Instability(given, before).of = Cardinality(U) /\ Instability(given, after).of = Cardinality(U)
  BY <1>1, InstabilityIs
<1> HIDE DEF U, f, g
<1>5. Sums(f, U) <= Sums(g, U)
  BY <1>2, <1>3, SumsMono
<1> QED
  BY <1>4, <1>5

(* A trace that gets worse in a signal, at the end of a session.           *)
LEMMA OneWorse ==
    ASSUME NEW c \in Seq(AllTraces), NEW t \in AllTraces, NEW s \in DOMAIN t, t[s] > 0
    PROVE  LET after == Append(c, [t EXCEPT ![s] = @ - 1])
           IN  /\ Append(c, t) \in Seq(AllTraces) /\ after \in Seq(AllTraces)
               /\ WorseSession(Append(c, t), after)
<1> DEFINE u == [t EXCEPT ![s] = @ - 1]
<1>1. PICK S \in SUBSET SignalNames : t \in [S -> 0..Scale]
  BY DEF AllTraces
<1>2. u \in [S -> 0..Scale] /\ u[s] <= t[s] /\ \A x \in S : u[x] <= t[x]
  <2>1. t[s] - 1 \in 0..Scale /\ \A x \in S : t[x] \in 0..Scale
    BY <1>1, ScaleIs
  <2> QED
    BY <1>1, <2>1
<1>3. u \in AllTraces /\ Worse(t, u)
  BY <1>1, <1>2 DEF AllTraces, Worse
<1> HIDE DEF u
<1>4. \A i \in 1..Len(c) : Worse(c[i], c[i])
  <2> TAKE i \in 1..Len(c)
  <2>1. c[i] \in AllTraces
    OBVIOUS
  <2>2. PICK R \in SUBSET SignalNames : c[i] \in [R -> 0..Scale]
    BY <2>1 DEF AllTraces
  <2> QED
    BY <2>2 DEF Worse
<1>5. /\ Append(c, t) \in Seq(AllTraces) /\ Append(c, u) \in Seq(AllTraces)
      /\ WorseSession(Append(c, t), Append(c, u))
  <2>1. \A x \in AllTraces : /\ Append(c, x) \in Seq(AllTraces)
                             /\ DOMAIN Append(c, x) = 1..(Len(c) + 1)
                             /\ Append(c, x)[Len(c) + 1] = x
                             /\ \A i \in 1..Len(c) : Append(c, x)[i] = c[i]
    OBVIOUS
  <2>2. \A i \in 1..(Len(c) + 1) : i \in 1..Len(c) \/ i = Len(c) + 1
    OBVIOUS
  <2> QED
    BY <1>3, <1>4, <2>1, <2>2 DEF WorseSession
<1> QED
  BY <1>5 DEF u

(* Whatever the weights, the other traces and the signals of each, neither *)
(* metric of a session scores better what has a worse signal.              *)
THEOREM WorseShows == WorseIsNotBetter
<1> SUFFICES ASSUME NEW given \in Weightings, NEW c \in Contexts, NEW t \in AllTraces,
                    NEW s \in DOMAIN t, t[s] > 0
             PROVE  LET before == Append(c, t)
                        after == Append(c, [t EXCEPT ![s] = @ - 1])
                    IN  /\ ~Below(Reliability(given, before), Reliability(given, after))
                        /\ Instability(given, before).of = Instability(given, after).of
                        /\ Instability(given, before).sum <= Instability(given, after).sum
  BY DEF WorseIsNotBetter
<1> DEFINE before == Append(c, t)
           after == Append(c, [t EXCEPT ![s] = @ - 1])
<1>1. Natural(given) /\ c \in Seq(AllTraces)
  BY SessionsAssumption DEF Natural
<1>2. before \in Seq(AllTraces) /\ after \in Seq(AllTraces) /\ WorseSession(before, after)
  BY <1>1, OneWorse
<1> HIDE DEF before, after
<1>3. /\ ~Below(Reliability(given, before), Reliability(given, after))
      /\ Instability(given, before).of = Instability(given, after).of
      /\ Instability(given, before).sum <= Instability(given, after).sum
  BY <1>1, <1>2, ReliabilityMono, InstabilityMono
<1> QED
  BY <1>3 DEF before, after

-----------------------------------------------------------------------------
(* loop_detection                                                          *)

Last3(previous) == {previous[i] : i \in {j \in DOMAIN previous : j > Len(previous) - 3}}

(* The slice that is compared holds the last three outputs, or all of them *)
(* when they are fewer.                                                    *)
LEMMA WindowIs ==
    ASSUME NEW S, NEW previous \in Seq(S)
    PROVE  Range(Window(previous)) = Last3(previous)
<1> DEFINE A == {1, Len(previous) - 2}
           m == IF Len(previous) > 3 THEN Len(previous) - 2 ELSE 1
<1>1. PICK n \in Nat : n = Len(previous) /\ DOMAIN previous = 1..n
  OBVIOUS
<1>2. Max(A) = m /\ m \in Nat /\ m >= 1
  <2>1. m \in A /\ m \in Nat /\ m >= 1 /\ \A x \in A : x \in Int /\ m >= x
    BY <1>1
  <2> HIDE DEF A, m
  <2>2. Max(A) \in A /\ \A x \in A : Max(A) >= x
    BY <2>1 DEF Max
  <2>3. Max(A) \in Int /\ m >= Max(A) /\ Max(A) >= m
    BY <2>1, <2>2
  <2> QED
    BY <2>1, <2>3
<1>3. Window(previous) = SubSeq(previous, m, n)
  BY <1>1, <1>2 DEF Window
<1>4. Range(Window(previous)) = {previous[i + m - 1] : i \in 1..(1 + n - m)}
  <2>1. m \in Int /\ n \in Int /\ m <= n + 1 /\ \A i \in m..n : previous[i] \in S
    BY <1>1
  <2> HIDE DEF m
  <2>2. /\ Len(SubSeq(previous, m, n)) = n - m + 1
        /\ SubSeq(previous, m, n) \in Seq(S)
        /\ \A i \in 1..n - m + 1 : SubSeq(previous, m, n)[i] = previous[m + i - 1]
    <3>1. (IF m <= n THEN n - m + 1 ELSE 0) = n - m + 1
      BY <2>1
    <3> QED
      BY <2>1, <3>1, SubSeqProperties
  <2> DEFINE window == SubSeq(previous, m, n)
  <2>3. DOMAIN window = 1..(1 + n - m) /\ \A i \in 1..(1 + n - m) : window[i] = previous[i + m - 1]
    <3>1. n - m + 1 = 1 + n - m /\ \A i \in 1..(1 + n - m) : m + i - 1 = i + m - 1
      BY <1>1, <1>2
    <3>2. DOMAIN window = 1..Len(window)
      BY <2>2
    <3> HIDE DEF window
    <3> QED
      BY <2>2, <3>1, <3>2 DEF window
  <2> HIDE DEF window
  <2> QED
    BY <1>3, <2>3 DEF Range, window
<1>5. Last3(previous) = {previous[j] : j \in m..n}
  <2>1. {j \in DOMAIN previous : j > Len(previous) - 3} = m..n
    BY <1>1
  <2> HIDE DEF m
  <2> QED
    BY <2>1 DEF Last3
<1> HIDE DEF m
<1>6. \A j \in m..n : j - m + 1 \in 1..(1 + n - m) /\ (j - m + 1) + m - 1 = j
  BY <1>1, <1>2
<1>7. \A i \in 1..(1 + n - m) : i + m - 1 \in m..n
  BY <1>1, <1>2
<1>8. {previous[i + m - 1] : i \in 1..(1 + n - m)} = {previous[j] : j \in m..n}
  BY <1>6, <1>7
<1> QED
  BY <1>4, <1>5, <1>8

(* The overlap of two sets of words is a fraction of a positive number.    *)
LEMMA JaccardIs ==
    ASSUME NEW a, NEW b, IsFiniteSet(a), IsFiniteSet(b)
    PROVE  /\ Jaccard(a, b).num \in Nat /\ Jaccard(a, b).den \in Nat /\ Jaccard(a, b).den > 0
           /\ a \cap b = {} => Jaccard(a, b).num = 0
           /\ a = b /\ a # {} => Jaccard(a, b).num = Jaccard(a, b).den
<1>1. CASE a \cup b = {}
  <2>1. Jaccard(a, b) = [num |-> 0, den |-> 1]
    BY <1>1 DEF Jaccard, Fraction
  <2> QED
    BY <1>1, <2>1
<1>2. CASE a \cup b # {}
  <2>1. Jaccard(a, b) = [num |-> Cardinality(a \cap b), den |-> Cardinality(a \cup b)]
    BY <1>2 DEF Jaccard, Fraction
  <2>2. IsFiniteSet(a \cup b) /\ IsFiniteSet(a \cap b)
    BY FS_Union, FS_Intersection
  <2>3. Cardinality(a \cup b) \in Nat /\ Cardinality(a \cap b) \in Nat /\ Cardinality(a \cup b) # 0
    BY <1>2, <2>2, FS_CardinalityType, FS_EmptySet
  <2>4. a \cap b = {} => Cardinality(a \cap b) = 0
    BY FS_EmptySet
  <2>5. a = b => a \cap b = a \cup b
    OBVIOUS
  <2> QED
    BY <2>1, <2>3, <2>4, <2>5
<1> QED
  BY <1>1, <1>2

(* The distance of two outputs is a fraction of a positive number, at      *)
(* most 1; of an output with words from itself it is 0, and of outputs     *)
(* that share no word, 1.                                                  *)
LEMMA HybridIs ==
    ASSUME NEW o \in Outputs, NEW p \in Outputs
    PROVE  /\ Hybrid(o, p).num \in Nat /\ Hybrid(o, p).den \in Nat /\ Hybrid(o, p).den > 0
           /\ o = p /\ Words[o] # {} => Hybrid(o, p).num = 0
           /\ Words[o] \cap Words[p] = {} => Hybrid(o, p).num = Hybrid(o, p).den
<1> DEFINE j == Jaccard(Words[o], Words[p])
           c == Cosine[o, p]
           a == j.num
           b == j.den
           num == c * a
           den == Scale * b
<1>1. /\ a \in Nat /\ b \in Nat /\ b > 0
      /\ Words[o] \cap Words[p] = {} => a = 0
      /\ o = p /\ Words[o] # {} => a = b
  <2>1. IsFiniteSet(Words[o]) /\ IsFiniteSet(Words[p])
    BY SessionMetricsAssumption
  <2> QED
    BY <2>1, JaccardIs
<1>2. c \in Nat /\ (o = p => c = Scale)
  <2>1. Cosine \in [Outputs \X Outputs -> 0..Scale]
    BY SessionMetricsAssumption, Zenon
  <2>2. c \in 0..Scale
    BY <2>1
  <2>3. \A x, y \in Outputs : Cosine[x, y] = Cosine[y, x] /\ Cosine[x, x] = Scale
    BY SessionMetricsAssumption, Zenon
  <2>4. Cosine[o, o] = Scale
    BY <2>3, Zenon
  <2>5. o = p => c = Scale
    BY <2>4, Zenon
  <2> HIDE DEF c
  <2> QED
    BY <2>2, <2>5, ScaleIs
<1>3. Hybrid(o, p) = OneLess(num, den)
  BY DEF Hybrid
<1> HIDE DEF j, a, b, c
<1>4. num \in Nat /\ den \in Nat /\ den > 0
  <2>1. Scale \in Nat /\ Scale > 0
    BY ScaleIs
  <2>2. den >= b
    <3>1. PICK e \in Nat : Scale = e + 1
      <4>1. Scale - 1 \in Nat /\ Scale = (Scale - 1) + 1
        BY <2>1
      <4> QED
        BY <4>1
    <3>2. den = e * b + b /\ e * b \in Nat
      BY <1>1, <3>1
    <3> QED
      BY <1>1, <3>2
  <2>3. num \in Nat /\ den \in Nat
    BY <1>1, <1>2, <2>1
  <2> QED
    BY <1>1, <2>2, <2>3
<1>5. /\ Words[o] \cap Words[p] = {} => num = 0
      /\ o = p /\ Words[o] # {} => num = den
  BY <1>1, <1>2, ScaleIs
<1> HIDE DEF num, den
<1>6. Hybrid(o, p) = [num |-> IF num >= den THEN 0 ELSE den - num, den |-> den]
  BY <1>3, <1>4, OneLessIs
<1> QED
  BY <1>4, <1>5, <1>6

Compared(previous) == Last3(previous) \ {NoOutput}

\* of the outputs that are compared, x is what the closest is scored
Closest(o, previous, x) ==
    /\ \E p \in Compared(previous) : x = Hybrid(o, p)
    /\ \A p \in Compared(previous) : ~Below(Hybrid(o, p), x)

(* loop_detection scores the closest, if any output can be called so.      *)
LEMMA LoopScoreIs ==
    ASSUME NEW S, NEW previous \in Seq(S), NEW o, o # NoOutput, Compared(previous) # {},
           NEW x, Closest(o, previous, x)
    PROVE  Closest(o, previous, LoopScore(o, previous))
<1> DEFINE C == {Hybrid(o, p) : p \in Compared(previous)}
<1>1. Range(Window(previous)) \ {NoOutput} = Compared(previous)
  BY WindowIs DEF Compared
<1>2. LoopScore(o, previous) =
        CHOOSE y \in C : \A p \in Compared(previous) : ~Below(Hybrid(o, p), y)
  BY <1>1 DEF LoopScore
<1>3. \E y \in C : \A p \in Compared(previous) : ~Below(Hybrid(o, p), y)
  BY DEF Closest
<1> DEFINE z == CHOOSE y \in C : \A p \in Compared(previous) : ~Below(Hybrid(o, p), y)
<1>4. z \in C /\ \A p \in Compared(previous) : ~Below(Hybrid(o, p), z)
  BY <1>3
<1> HIDE DEF z
<1>5. \E p \in Compared(previous) : z = Hybrid(o, p)
  BY <1>4
<1> QED
  BY <1>2, <1>4, <1>5 DEF Closest, z

(* In a session of any length, an output with words that is one of the     *)
(* last three is scored 0.                                                 *)
THEOREM RepeatedIsLoop ==
    ASSUME NEW previous \in Seq(Outputs \cup {NoOutput}), NEW o \in Outputs,
           o \in Last3(previous), Words[o] # {}
    PROVE  LoopScore(o, previous).num = 0
<1>1. o # NoOutput /\ o \in Compared(previous)
  BY SessionMetricsAssumption DEF Compared
<1>2. \A p \in Compared(previous) : p \in Outputs
  BY DEF Compared, Last3
<1>3. Hybrid(o, o).num = 0
  BY HybridIs
<1>4. Closest(o, previous, Hybrid(o, o))
  <2>1. ASSUME NEW p \in Compared(previous) PROVE ~Below(Hybrid(o, p), Hybrid(o, o))
    <3>1. Hybrid(o, p).num \in Nat /\ Hybrid(o, o).den \in Nat /\ Hybrid(o, p).den \in Nat
      BY <1>2, HybridIs
    <3>2. Hybrid(o, p).num * Hybrid(o, o).den \in Nat /\ Hybrid(o, o).num * Hybrid(o, p).den = 0
      BY <1>3, <3>1
    <3> QED
      BY <3>2 DEF Below
  <2> QED
    BY <1>1, <2>1 DEF Closest
<1>5. Closest(o, previous, LoopScore(o, previous))
  BY <1>1, <1>4, LoopScoreIs
<1> DEFINE x == LoopScore(o, previous)
<1>6. PICK p \in Compared(previous) : x = Hybrid(o, p)
  BY <1>5 DEF Closest
<1>7. x.num \in Nat /\ ~Below(Hybrid(o, o), x)
  <2>1. Hybrid(o, p).num \in Nat
    BY <1>2, HybridIs
  <2> QED
    BY <1>1, <1>5, <1>6, <2>1 DEF Closest
<1>8. Hybrid(o, o).den \in Nat /\ Hybrid(o, o).den > 0
  BY HybridIs
<1> DEFINE n == x.num
           d == Hybrid(o, o).den
<1>9. ~(0 * x.den < n * d)
  BY <1>3, <1>7 DEF Below
<1>10. x.den \in Nat
  <2>1. Hybrid(o, p).den \in Nat
    BY <1>2, HybridIs
  <2> QED
    BY <1>6, <2>1
<1>11. n \in Nat /\ d \in Nat /\ d > 0 /\ ~(0 < n * d)
  BY <1>7, <1>8, <1>9, <1>10
<1> HIDE DEF n, d, x
<1>12. n = 0
  <2> SUFFICES ASSUME n # 0 PROVE FALSE
    OBVIOUS
  <2>1. 1 * 1 <= n * d
    BY <1>11, ProductMono
  <2> QED
    BY <1>11, <2>1
<1> QED
  BY <1>12 DEF n, x

(* In a session of any length, an output that shares no word with the last *)
(* three is scored 1.                                                      *)
THEOREM UnlikeIsNoLoop ==
    ASSUME NEW previous \in Seq(Outputs \cup {NoOutput}), NEW o \in Outputs,
           \A x \in Compared(previous) : Words[x] \cap Words[o] = {}
    PROVE  ~Below(LoopScore(o, previous), One)
<1>1. o # NoOutput /\ \A p \in Compared(previous) : p \in Outputs
  <2>1. NoOutput \notin Outputs
    BY SessionMetricsAssumption
  <2> QED
    BY <2>1 DEF Compared, Last3
<1>2. CASE Compared(previous) = {}
  <2>1. LoopScore(o, previous) = One
    <3>1. Range(Window(previous)) \ {NoOutput} = {}
      BY <1>2, WindowIs DEF Compared
    <3> QED
      BY <3>1 DEF LoopScore
  <2> QED
    BY <2>1 DEF Below, One, Fraction
<1>3. CASE Compared(previous) # {}
  <2>1. \A p \in Compared(previous) :
           Hybrid(o, p).num \in Nat /\ Hybrid(o, p).num = Hybrid(o, p).den
    <3> TAKE p \in Compared(previous)
    <3>1. Words[o] \cap Words[p] = {}
      OBVIOUS
    <3> QED
      BY <1>1, <3>1, HybridIs
  <2>2. PICK q \in Compared(previous) : TRUE
    BY <1>3
  <2>3. Closest(o, previous, Hybrid(o, q))
    <3>1. ASSUME NEW p \in Compared(previous) PROVE ~Below(Hybrid(o, p), Hybrid(o, q))
      <4> DEFINE m == Hybrid(o, p).num
                 n == Hybrid(o, q).num
      <4>1. m \in Nat /\ n \in Nat /\ Hybrid(o, p).den = m /\ Hybrid(o, q).den = n
        BY <2>1
      <4>2. Below(Hybrid(o, p), Hybrid(o, q)) <=> m * n < n * m
        BY <4>1 DEF Below
      <4> HIDE DEF m, n
      <4>3. m * n = n * m /\ m * n \in Nat
        BY <4>1
      <4> QED
        BY <4>2, <4>3
    <3> QED
      BY <3>1 DEF Closest
  <2>4. Closest(o, previous, LoopScore(o, previous))
    BY <1>1, <1>3, <2>3, LoopScoreIs
  <2>5. PICK p \in Compared(previous) : LoopScore(o, previous) = Hybrid(o, p)
    BY <2>4 DEF Closest
  <2> QED
    BY <2>1, <2>5 DEF Below, One, Fraction
<1> QED
  BY <1>2, <1>3

(* The two, for the sessions that are checked.                             *)
THEOREM RepetitionsShow == RepetitionShows
<1> SUFFICES ASSUME NEW previous \in Sessions3(4), NEW o \in Outputs
             PROVE  /\ o \in Last3(previous) /\ Words[o] # {} => LoopScore(o, previous).num = 0
                    /\ (\A x \in Last3(previous) \ {NoOutput} : Words[x] \cap Words[o] = {}) =>
                          ~Below(LoopScore(o, previous), One)
  BY DEF RepetitionShows, Last3
<1>1. previous \in Seq(Outputs \cup {NoOutput})
  <2>1. PICK k \in 0..4 : previous \in [1..k -> Outputs \cup {NoOutput}]
    BY DEF Sessions3
  <2> QED
    BY <2>1
<1> QED
  BY <1>1, RepeatedIsLoop, UnlikeIsNoLoop DEF Compared

===============================================================================
