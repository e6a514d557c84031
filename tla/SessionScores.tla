---------------------------- MODULE SessionScores ----------------------------
(***************************************************************************)
(* What the scores of a session run rest on: the state of SessionRuns, and *)
(* the metrics of SessionMetrics that turn signals into a score.           *)
(***************************************************************************)
EXTENDS SessionRuns, SessionMetrics

(* Whenever the signals of a session are committed and it is about to be   *)
(* scored, its scores will go by the signals: one trace that fails shows,  *)
(* a worse signal scores no better, and a repeated output is a loop.       *)
ScoresFollowSignals == ready => WorstTraceShows /\ WorseIsNotBetter /\ RepetitionShows

=============================================================================
