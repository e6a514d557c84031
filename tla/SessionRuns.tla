----------------------------- MODULE SessionRuns -----------------------------
(***************************************************************************)
(* Session evaluation runs.  The request, the job, the counters and what   *)
(* happens around the handler are those of EvalRuns, with sessions for     *)
(* targets and session_scores for scores.  What run_session_eval adds are  *)
(* signals: scores of the session's traces, which it looks up, computes    *)
(* when there are none, and commits before it aggregates them.  Signals    *)
(* are ordinary trace scores, so all session runs share them with trace    *)
(* runs and with the users who add, edit and delete scores.                *)
(*                                                                         *)
(* A session is given one trace; the scores of that trace under one signal *)
(* metric are a slot, the oldest first, as created_at orders them.         *)
(***************************************************************************)
EXTENDS EvalRuns, Sequences, SequencesExt

CONSTANT Signals  \* SIGNAL_METRICS

ASSUME SessionRunsAssumption == Signals # {} /\ IsFiniteSet(Signals)

VARIABLES
    rows,    \* [slot -> sequence of trace_scores]
    ready,   \* the signals of the session at hand are committed
    blanked  \* history: a FAILED score was edited without giving it a value

sessionVars == <<vars, rows, ready, blanked>>

Sessions == Traces
Slots == Sessions \X Signals
SlotsOf(t) == {s \in Slots : s[1] = t}

(* A row is made for a session run or by somebody else (a trace run, a     *)
(* user, the SDK, or the user who edited it), and is FAILED, or a SUCCESS  *)
(* with a number, with a text float() refuses, or with no value.           *)
Kinds == {"failed", "number", "text", "blank"}
Row(r, for, k) == [by |-> r, for |-> for, kind |-> k]

SessionTypeOK ==
    /\ rows \in [Slots -> Seq([by : Runs \cup {NoRun}, for : {"session", "other"}, kind : Kinds])]
    /\ ready \in BOOLEAN
    /\ blanked \in BOOLEAN
    /\ ready => pc \notin {"idle", "setup", "done", "settleOk"}

SessionInit ==
    /\ Init
    /\ rows = [s \in Slots |-> <<>>]
    /\ ready = FALSE
    /\ blanked = FALSE

-----------------------------------------------------------------------------
(* Requests *)

(* Filters, a sample or a list select n sessions.                          *)
CreateSessionRun(r, n) == CreateRun(r, n)

(* The failed sessions times the failed metrics, whichever pairs they were. *)
RetryFailedSessions(r, q) ==
    LET bad == FailedPairs(q)
    IN  /\ Exists(q)
        /\ bad # {}
        /\ Insert(r, TracesOf(bad) \X {p[2] : p \in bad})

Without(seq, r) ==
    LET kept[i \in 0..Len(seq)] ==
            IF i = 0 THEN <<>>
            ELSE IF seq[i].by = r THEN kept[i - 1] ELSE Append(kept[i - 1], seq[i])
    IN  kept[Len(seq)]
Unlinked(seq, r) == [i \in DOMAIN seq |-> IF seq[i].by = r THEN [seq[i] EXCEPT !.by = NoRun] ELSE seq[i]]

(* The signals of the run are deleted with it, or lose their eval_run_id.  *)
DeleteSessionRun(r) ==
    /\ DeleteRun(r)
    /\ \/ rows' = [s \in Slots |-> Without(rows[s], r)]
       \/ rows' = [s \in Slots |-> Unlinked(rows[s], r)]
    /\ UNCHANGED <<ready, blanked>>

ChangeRows(s, seq) ==
    /\ edits < MaxEdits
    /\ edits' = edits + 1
    /\ rows' = [rows EXCEPT ![s] = seq]
    /\ UNCHANGED <<jobVars, rowVars, dispatching, handlerVars, crashes, faults, ready>>

(* A trace run scores the metric, or a user or the SDK posts a score of    *)
(* any data type under its name.                                           *)
CreateScore(s, k) ==
    /\ k # "blank"
    /\ ChangeRows(s, Append(rows[s], Row(NoRun, "other", k)))
    /\ UNCHANGED blanked

(* update_score: a SUCCESS and an ANNOTATION from now on, with or without  *)
(* a value.                                                                *)
EditScore(s, i, k) ==
    LET row == rows[s][i]
    IN  /\ i \in DOMAIN rows[s]
        /\ CASE row.kind \in {"failed", "blank"} -> k \in {"number", "blank"}
             [] row.kind = "text" -> k \in {"number", "text"}
             [] OTHER -> k = "number"
        /\ ChangeRows(s, [rows[s] EXCEPT ![i] = Row(row.by, "other", k)])
        /\ blanked' = (blanked \/ k = "blank")

RemoveScore(s, i) ==
    /\ i \in DOMAIN rows[s]
    /\ ChangeRows(s, RemoveAt(rows[s], i))
    /\ UNCHANGED blanked

(* Session scores have no reference to traces and stay.                    *)
DeleteSessionTrace(t) ==
    /\ edits < MaxEdits
    /\ edits' = edits + 1
    /\ rows' = [s \in Slots |-> IF s[1] = t THEN <<>> ELSE rows[s]]
    /\ UNCHANGED <<jobVars, rowVars, dispatching, handlerVars, crashes, faults, ready, blanked>>

-----------------------------------------------------------------------------
(* run_session_eval *)

(* Setup drops the signals of the earlier attempt too, even those that     *)
(* other runs have used since.                                             *)
SessionSetup ==
    /\ Setup
    /\ rows' = [s \in Slots |-> Without(rows[s], cur)]
    /\ ready' = FALSE
    /\ UNCHANGED blanked

(* Mutant: failed scores are not left out.                                 *)
ExistingAnyStatus(s) == IF rows[s] = <<>> THEN "none" ELSE Last(rows[s]).kind

(* find_existing_trace_score: the newest SUCCESS, of whatever origin.      *)
Existing(s) ==
    LET successes == {i \in DOMAIN rows[s] : rows[s][i].kind # "failed"}
    IN  IF successes = {} THEN "none" ELSE rows[s][Max(successes)].kind

SignalOf(s, broken) == Row(cur, "session", IF s \in broken THEN "failed" ELSE "number")

(* All signals of the session in one transaction: a value that is there is *)
(* used, the others are computed, those in broken raise and leave FAILED   *)
(* rows.  A value that is not a number raises outside the try, and a row   *)
(* of a deleted run violates the foreign key: the attempt fails.           *)
ScoreSignals(broken) ==
    LET slots == SlotsOf(NextTrace)
        missing == {s \in slots : Existing(s) \in {"none", "blank", "failed"}}
    IN  /\ pc = "scoring"
        /\ todo # {}
        /\ ~ready
        /\ broken \subseteq missing
        /\ IF (\E s \in slots : Existing(s) = "text") \/ (missing # {} /\ ~Exists(cur))
           THEN /\ pc' = "error"
                /\ UNCHANGED <<rows, ready>>
           ELSE /\ rows' = [s \in Slots |-> IF s \in missing THEN Append(rows[s], SignalOf(s, broken)) ELSE rows[s]]
                /\ ready' = TRUE
                /\ pc' = pc
        /\ UNCHANGED <<jobVars, rowVars, dispatching, cur, todo, crashes, faults, edits, blanked>>

(* The metrics of the session are aggregated from its signals and stored   *)
(* with the progress in the next transaction.                              *)
AggregateSession(bad) ==
    /\ ready
    /\ ScoreTrace(bad)
    /\ ready' = FALSE
    /\ UNCHANGED <<rows, blanked>>

(* No trace is left in the session.                                        *)
EmptySession ==
    /\ ~ready
    /\ MissingTrace
    /\ \A s \in SlotsOf(NextTrace) : rows[s] = <<>>
    /\ UNCHANGED <<rows, ready, blanked>>

(* The steps that are the same for both kinds of run.                      *)
RunStep ==
    \/ \E r \in Runs, n \in 0..Targets : CreateSessionRun(r, n)
    \/ \E r, q \in Runs : RetryFailedSessions(r, q)
    \/ \E r \in Runs : Dispatch(r) \/ DispatchFails(r) \/ TakeJob(r)
    \/ \E r \in Runs, p \in Pairs : DeleteScore(r, p)
    \/ CompleteRun
    \/ HandlerReturns
    \/ \E e \in {"error", "timeout"} : HandlerRaises(e)
    \/ FailRun
    \/ FailRunIsLost

(* The attempt is over, one way or another.                                *)
EndStep == SettleJob \/ SettleIsLost \/ CrashAndRestart

SessionNext ==
    \/ RunStep /\ UNCHANGED <<rows, ready, blanked>>
    \/ EndStep /\ ready' = FALSE /\ UNCHANGED <<rows, blanked>>
    \/ \E r \in Runs : DeleteSessionRun(r)
    \/ \E s \in Slots, k \in Kinds : CreateScore(s, k)
    \/ \E s \in Slots, i \in 1..(MaxEdits + Cardinality(Runs)), k \in Kinds : EditScore(s, i, k)
    \/ \E s \in Slots, i \in 1..(MaxEdits + Cardinality(Runs)) : RemoveScore(s, i)
    \/ \E t \in Sessions : DeleteSessionTrace(t)
    \/ SessionSetup
    \/ \E broken \in SUBSET Slots : ScoreSignals(broken)
    \/ \E bad \in SUBSET Pairs : AggregateSession(bad)
    \/ EmptySession

SessionSpec == SessionInit /\ [][SessionNext]_sessionVars

-----------------------------------------------------------------------------
(* Properties *)

(* However session runs, their retries, trace runs and users meet at a     *)
(* slot, session runs pay for a signal once: no two of its values were     *)
(* computed by session runs.  A user who makes a SUCCESS of a FAILED score *)
(* without a value hides the value that is there.                          *)
SignalsOnce ==
    blanked \/ \A s \in Slots :
        Cardinality({i \in DOMAIN rows[s] : rows[s][i].for = "session" /\ rows[s][i].kind = "number"}) <= 1

=============================================================================
