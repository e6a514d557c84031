---------------------------- MODULE MCTraceStore ----------------------------
(***************************************************************************)
(* TLC instance of TraceStore: a full payload and a bare one, and a PATCH  *)
(* that renames, adds metadata and clears a column.                        *)
(***************************************************************************)
EXTENDS TraceStore, TLC

CONSTANTS p1, p2

MCContent == (p1 :> [json |-> TRUE, text |-> TRUE, spans |-> Spans]) @@
             (p2 :> [json |-> FALSE, text |-> FALSE, spans |-> {}])

MCFieldSets == {{"head", "keys", "text"}}

=============================================================================
