---------------------------- MODULE MCDashboard ------------------------------
(***************************************************************************)
(* TLC instance of Dashboard.  The kinds are those the queries tell apart; *)
(* every listing is sorted by what the client may ask for.                 *)
(***************************************************************************)
EXTENDS Dashboard

Score(target, type, status, value) ==
    [target |-> target, name |-> "m", type |-> type, status |-> status, value |-> value, run |-> None]

MCScoreKinds ==
    {Score(1, "NUMERIC", "SUCCESS", 4), Score(2, "NUMERIC", "SUCCESS", 1),
     Score(1, "NUMERIC", "FAILED", None), Score(2, "BOOLEAN", "SUCCESS", None)}

Run(type, status, monitor) == [type |-> type, status |-> status, monitor |-> monitor]

MCRunKinds ==
    {Run("TRACE", "PENDING", None), Run("TRACE", "COMPLETED", "watch"), Run("SESSION", "PENDING", "watch")}

Span(started, tokens, model) == [started |-> started, tokens |-> tokens, model |-> model]

Trace(session, user, status, started, ended, spans) ==
    [session |-> session, user |-> user, status |-> status, started |-> started, ended |-> ended,
     spans |-> spans]

MCTraceKinds ==
    {Trace(1, "u", "COMPLETED", 1, 2, {Span(1, 2, "gpt"), Span(2, 1, None)}),
     Trace(1, "v", "ERROR", 2, 3, {}),
     Trace(1, None, "RUNNING", 3, None, {Span(3, 0, None)}),
     Trace(2, "v", "COMPLETED", 1, 1, {Span(3, 4, "gpt")}),
     Trace(None, "u", "COMPLETED", 2, 3, {})}

NoScoreFilter ==
    [name |-> None, target |-> None, status |-> None, type |-> None, run |-> None, window |-> Always]
NoRunFilter == [status |-> None, type |-> None, monitor |-> None]
NoSessionFilter == [user |-> None, error |-> None, window |-> Always]

List(list, filter, by, desc) == [list |-> list, filter |-> filter, by |-> by, desc |-> desc]

MCListings ==
    {List("trace_scores", [NoScoreFilter EXCEPT !.status = "FAILED"], "created_at", TRUE),
     List("session_scores", [NoScoreFilter EXCEPT !.target = 1], "created_at", TRUE),
     List("comparison", [NoScoreFilter EXCEPT !.name = "m"], "score", FALSE),
     List("comparison", [NoScoreFilter EXCEPT !.name = "m"], "score", TRUE),
     List("eval_runs", [NoRunFilter EXCEPT !.status = "PENDING"], "created_at", TRUE),
     List("monitor_runs", [NoRunFilter EXCEPT !.monitor = "watch"], "created_at", TRUE),
     List("traces", NoTraceFilter, "started_at", TRUE),
     List("traces", NoTraceFilter, "ended_at", FALSE),
     List("traces", [NoTraceFilter EXCEPT !.user = "u"], "latency", TRUE),
     List("sessions", NoSessionFilter, "recent", TRUE),
     List("sessions", [NoSessionFilter EXCEPT !.error = FALSE], "trace_count", FALSE),
     List("users", NoTraceFilter, "last_seen", TRUE)}

=============================================================================
