---------------------------- MODULE MCLocalTasks ----------------------------
(***************************************************************************)
(* TLC instance of LocalTasks.  Three kinds of task: one retried after     *)
(* errors only (like process_trace), one periodic without retries (like    *)
(* check_eval_monitors), one retried after timeouts too (like              *)
(* bill_single_org), and a name that is no longer registered.              *)
(***************************************************************************)
EXTENDS LocalTasks

MCRetries == [t \in Tasks |-> IF t \in Periodic THEN 0 ELSE 1]

=============================================================================
