----------------------------- MODULE MCEvalRuns -----------------------------
(***************************************************************************)
(* TLC instances of EvalRuns.  Runs share no row and the runner takes one  *)
(* job at a time, so what attempts leave to each other shows in one run    *)
(* with two traces, two metrics and three attempts, whatever pairs it is *)
(* made for.  A run and the retry of it are in MCSessionRuns.              *)
(***************************************************************************)
EXTENDS EvalRuns

=============================================================================
