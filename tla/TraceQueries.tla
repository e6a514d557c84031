---------------------------- MODULE TraceQueries -----------------------------
(***************************************************************************)
(* The queries over traces and their spans (trace_repo.py), as operators   *)
(* on a set of rows.  A trace row carries its spans; a span has its start, *)
(* tokens (prompt and completion together) and a model, or None.  Costs    *)
(* are summed the way tokens are, and left out.  created_at of two rows    *)
(* differs, so that it names a row.                                        *)
(***************************************************************************)
EXTENDS Integers, Sequences, FiniteSets, FiniteSetsExt, SequencesExt

CONSTANTS
    None  \* NULL, and a filter that is not given

\* started_after is included, started_before is not
Started(t, w) == (w.from # None => t >= w.from) /\ (w.to # None => t < w.to)

Given(filter, column) == filter \in {None, column}

(* _apply_trace_filters; tags and names are filtered the way users are.    *)
TracesMatching(traces, f) ==
    {t \in traces : /\ Given(f.session, t.session)
                    /\ Given(f.status, t.status)
                    /\ Given(f.user, t.user)
                    /\ Started(t.started, f.window)}

(* _span_stats_subquery for one trace.  Without a span it has no row, for  *)
(* which callers put zeros.                                                *)
SpanStats(t) ==
    [count |-> Cardinality(t.spans), tokens |-> MapThenSumSet(LAMBDA s : s.tokens, t.spans)]

Tokens(traces) == MapThenSumSet(LAMBDA t : SpanStats(t).tokens, traces)
SpanCount(traces) == MapThenSumSet(LAMBDA t : SpanStats(t).count, traces)

(* ended_at - started_at, NULL of a trace that has not ended.              *)
Latency(t) == IF t.ended = None THEN None ELSE t.ended - t.started

\* SUM, which leaves NULL out and is NULL of nothing else
TotalLatency(traces) ==
    LET ended == {t \in traces : t.ended # None}
    IN  IF ended = {} THEN None ELSE MapThenSumSet(Latency, ended)

(* The user of the first trace that has one: any of those that started     *)
(* then, for nothing breaks the tie.                                       *)
FirstUsers(traces) ==
    LET known == {t \in traces : t.user # None}
    IN  IF known = {} THEN {None}
        ELSE {t.user : t \in {u \in known : \A v \in known : u.started <= v.started}}

\* bool_or(status = ERROR)
HasError(traces) == \E t \in traces : t.status = "ERROR"

LastEnd(traces) ==
    LET ends == {t.ended : t \in traces} \ {None} IN IF ends = {} THEN None ELSE Max(ends)

SessionsIn(traces) == {t.session : t \in traces} \ {None}
OfSession(traces, s) == {t \in traces : t.session = s}

(* Mutant: traces without spans are lost in the join.                      *)
SessionRowInner(traces, s) ==
    LET own == {t \in traces : t.session = s /\ t.spans # {}}
    IN  [count |-> Cardinality(own),
         first |-> IF own = {} THEN None ELSE Min({t.started : t \in own}),
         last |-> LastEnd(own),
         latency |-> TotalLatency(own), error |-> HasError(own), users |-> FirstUsers(own),
         spans |-> SpanCount(own), tokens |-> Tokens(own)]

(* The aggregates that list_sessions and get_session_summary make of a     *)
(* session's traces.                                                       *)
SessionRow(traces, s) ==
    LET own == OfSession(traces, s)
    IN  [count |-> Cardinality(own),
         first |-> Min({t.started : t \in own}),
         last |-> LastEnd(own),
         latency |-> TotalLatency(own), error |-> HasError(own), users |-> FirstUsers(own),
         spans |-> SpanCount(own), tokens |-> Tokens(own)]

(* get_session_summary.                                                    *)
SessionSummary(traces, s) ==
    IF OfSession(traces, s) = {} THEN None ELSE SessionRow(traces, s)

(* The traces that list_sessions counts: filters are of traces, not of     *)
(* sessions, so that figures of a session leave its other traces out.      *)
SessionTraces(traces, f) ==
    {t \in traces : t.session # None /\ Given(f.user, t.user) /\ Started(t.started, f.window)}

(* list_sessions: the sessions that have a row; has_error is asked of the  *)
(* aggregate.                                                              *)
ListSessions(traces, f) ==
    LET counted == SessionTraces(traces, f)
    IN  {s \in SessionsIn(counted) : f.error \in {None, HasError(OfSession(counted, s))}}

\* what sessions are sorted by
SessionSortKey(traces, s, by) ==
    LET own == OfSession(traces, s)
    IN  CASE by = "trace_count" -> Cardinality(own)
          [] by = "latency" -> TotalLatency(own)
          [] OTHER -> Max({t.created : t \in own})

(* _resolve_sort_column; names and statuses sort by their text, with many  *)
(* rows for a key, as latencies do.                                        *)
TraceSortKey(t, by) ==
    CASE by = "ended_at" -> t.ended
      [] by = "latency" -> Latency(t)
      [] OTHER -> t.started

(* get_trace_analytics: a line per period of g time units.                 *)
TraceAnalytics(traces, w, g) ==
    LET within == {t \in traces : Started(t.started, w)}
    IN  {LET here == {t \in within : t.started \div g = k}
         IN  [bucket |-> k, count |-> Cardinality(here),
              errors |-> Cardinality({t \in here : t.status = "ERROR"}),
              latency |-> TotalLatency(here)]
         : k \in {t.started \div g : t \in within}}

(* get_session_analytics: a session counts where the first of its traces   *)
(* in the window lies, with those of its traces that the window has.       *)
SessionAnalytics(traces, w, g) ==
    LET within == {t \in traces : t.session # None /\ Started(t.started, w)}
        First(s) == Min({t.started : t \in OfSession(within, s)})
    IN  {LET here == {s \in SessionsIn(within) : First(s) \div g = k}
         IN  [bucket |-> k, count |-> Cardinality(here),
              traces |-> MapThenSumSet(LAMBDA s : Cardinality(OfSession(within, s)), here)]
         : k \in {First(s) \div g : s \in SessionsIn(within)}}

\* spans are told apart by their trace
SpansOf(traces, w) ==
    UNION {{[of |-> t.created, span |-> s] : s \in {x \in t.spans : Started(x.started, w)}}
           : t \in traces}

(* get_token_cost_analytics: by the start of the span, not of its trace.   *)
TokenAnalytics(traces, w, g) ==
    LET within == SpansOf(traces, w)
    IN  {[bucket |-> k,
          tokens |-> MapThenSumSet(LAMBDA x : x.span.tokens,
                                   {x \in within : x.span.started \div g = k})]
         : k \in {x.span.started \div g : x \in within}}

(* get_top_models, all of them: the route's limit is ten.                  *)
TopModels(traces, w) ==
    LET within == {x \in SpansOf(traces, w) : x.span.model # None}
    IN  {LET mine == {x \in within : x.span.model = m}
         IN  [model |-> m, calls |-> Cardinality(mine),
              tokens |-> MapThenSumSet(LAMBDA x : x.span.tokens, mine)]
         : m \in {x.span.model : x \in within}}

(* list_trace_users: latest first.                                         *)
TraceUsers(traces) ==
    {LET mine == {t \in traces : t.user = u}
     IN  [user |-> u, count |-> Cardinality(mine), first |-> Min({t.started : t \in mine}),
          last |-> Max({t.started : t \in mine}),
          errors |-> Cardinality({t \in mine : t.status = "ERROR"})]
     : u \in {t.user : t \in traces} \ {None}}

=============================================================================
