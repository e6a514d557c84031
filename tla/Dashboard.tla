----------------------------- MODULE Dashboard -------------------------------
(***************************************************************************)
(* A client of the API that reads while the tables change: it lists rows   *)
(* page by page, each page answered by two statements (the number of rows, *)
(* then the rows), or opens a session, which takes four.  Statements are   *)
(* READ COMMITTED, so that commits of others fall between them.            *)
(*                                                                         *)
(* Who changes the tables is the subject of TraceStore, EvalRuns and       *)
(* SessionRuns; here a commit adds, changes or deletes a row.  created_at  *)
(* is taken before the commit, so that a row may appear behind newer ones. *)
(***************************************************************************)
EXTENDS Integers, Sequences, FiniteSets, FiniteSetsExt, SequencesExt

CONSTANTS
    Times,       \* instants: started_at, ended_at and created_at
    Scale,       \* a score of 1.0
    Buckets,     \* buckets of a distribution
    Period,      \* instants in a period of the analytics
    ScoreKinds,  \* what a score can be, but for its created_at
    RunKinds,    \* what a run can be, but for its created_at
    TraceKinds,  \* what a trace can be, but for its created_at
    Listings,    \* what the client lists: table, filter, order
    Limit,       \* rows of a page
    DetailLimit, \* traces in the answer about a session
    MaxCommits,  \* bound on the commits of others while the client reads
    None

OrNull == Int \cup {None}

(* Of the columns, the queries calculate with and sort by these; sessions  *)
(* that are scored sort by their id.                                       *)
ScoreColumns == {"target", "name", "type", "status", "value", "run"}
RunColumns == {"type", "status", "monitor"}
TraceColumns == {"session", "user", "status", "started", "ended", "spans"}

ListNames ==
    {"trace_scores", "session_scores", "eval_runs", "monitor_runs",
     "traces", "sessions", "users", "comparison"}

ASSUME DashboardAssumption ==
    /\ Times \subseteq Nat /\ IsFiniteSet(Times)
    /\ None \notin Int /\ None \notin [sum : Int, of : Nat] /\ None \notin {"NUMERIC", "SUCCESS", "m"}
    /\ Scale \in Nat \ {0} /\ Buckets \in Nat \ {0} /\ Period \in Nat \ {0}
    /\ Limit \in Nat \ {0} /\ DetailLimit \in Nat \ {0} /\ MaxCommits \in Nat
    /\ \A k \in ScoreKinds :
          DOMAIN k = ScoreColumns /\ k.target \in Int /\ k.value \in OrNull /\ k.name # None
    /\ \A k \in RunKinds : DOMAIN k = RunColumns
    /\ \A k \in TraceKinds :
          /\ DOMAIN k = TraceColumns /\ k.started \in Int /\ k.ended \in OrNull
          /\ IsFiniteSet(k.spans) /\ \A s \in k.spans : s.started \in Int /\ s.tokens \in Int
    /\ \A p \in Listings : p.list \in ListNames /\ p.desc \in BOOLEAN

S == INSTANCE ScoreQueries
T == INSTANCE TraceQueries

(* Buckets as they are answered: one that is listed has a score, and       *)
(* created_at tells scores apart.                                          *)
Bars ==
    {[bucket |-> k, bounds |-> S!BucketBounds(k, Buckets), count |-> c]
     : k \in 0..(Buckets + 1), c \in 1..Cardinality(Times)}

ASSUME NoneAssumption == \A bars \in SUBSET Bars : bars # None

Tables == {"trace_scores", "session_scores", "eval_runs", "traces"}

VARIABLES
    db,      \* the rows of each table
    busy,    \* the table that changes in this behaviour
    client,  \* what the client is at, and what it has been answered
    commits  \* commits of others since the client began

dashboardVars == <<db, busy, client, commits>>

Away == [at |-> "idle"]

DashboardInit ==
    /\ db = [t \in Tables |-> {}]
    /\ busy \in Tables
    /\ client = Away
    /\ commits = 0

Always == [from |-> None, to |-> None]
NoTraceFilter == [session |-> None, status |-> None, user |-> None, window |-> Always]

-----------------------------------------------------------------------------
(* The listings: which rows, named by an id, with their sort key and a key *)
(* that breaks ties (most have none).                                      *)

Row(rows, id) == CHOOSE r \in rows : r.created = id
ByCreated(rows) == [id \in {r.created : r \in rows} |-> <<id, 0>>]

ListTraceScores(d, p) == ByCreated(S!ListScores(d["trace_scores"], p.filter))
ListSessionScores(d, p) == ByCreated(S!ListScores(d["session_scores"], p.filter))

\* trace-runs, session-runs and, by its monitor, a monitor's runs
ListEvalRuns(d, p) ==
    ByCreated({r \in d["eval_runs"] : S!Is(p.filter.status, r.status) /\ S!Is(p.filter.type, r.type)})
ListMonitorRuns(d, p) ==
    ByCreated({r \in d["eval_runs"] : r.monitor = p.filter.monitor})

ListTraces(d, p) ==
    LET rows == T!TracesMatching(d["traces"], p.filter)
    IN  [id \in {t.created : t \in rows} |-> <<T!TraceSortKey(Row(rows, id), p.by), 0>>]

ListSessions(d, p) ==
    [s \in T!ListSessions(d["traces"], p.filter) |->
       <<T!SessionSortKey(T!SessionTraces(d["traces"], p.filter), s, p.by), 0>>]

ListTraceUsers(d, p) ==
    [u \in {x.user : x \in T!TraceUsers(d["traces"])} |->
       <<(CHOOSE x \in T!TraceUsers(d["traces"]) : x.user = u).last, 0>>]

Comparison(d, p) ==
    [s \in {r.target : r \in S!ScoreComparison(d["session_scores"], p.filter.name)} |->
       <<(CHOOSE r \in S!ScoreComparison(d["session_scores"], p.filter.name) : r.target = s).value, s>>]

KeysOf(d, p) ==
    CASE p.list = "trace_scores" -> ListTraceScores(d, p)
      [] p.list = "session_scores" -> ListSessionScores(d, p)
      [] p.list = "eval_runs" -> ListEvalRuns(d, p)
      [] p.list = "monitor_runs" -> ListMonitorRuns(d, p)
      [] p.list = "traces" -> ListTraces(d, p)
      [] p.list = "sessions" -> ListSessions(d, p)
      [] p.list = "users" -> ListTraceUsers(d, p)
      [] p.list = "comparison" -> Comparison(d, p)

\* NULL is larger than any value
Larger(x, y) == x # y /\ (x = None \/ (y # None /\ x > y))

\* nulls_last in a comparison, whichever way it goes
Sooner(p, x, y) ==
    IF p.desc /\ ~(p.list = "comparison" /\ None \in {x, y})
    THEN Larger(x, y) ELSE Larger(y, x)

Ahead(p, x, y) == Sooner(p, x[1], y[1]) \/ (x[1] = y[1] /\ x[2] < y[2])

Tied(keys) == \E i, j \in DOMAIN keys : i # j /\ keys[i] = keys[j]

(* ORDER BY: any order that the keys allow.                                *)
Sorted(p, keys) ==
    {s \in SetToSeqs(DOMAIN keys) :
       \A i, j \in 1..Len(s) : i < j => ~Ahead(p, keys[s[j]], keys[s[i]])}

(* Mutant: the offset is the number of the first row, counted from one.    *)
PageFromOne(s, offset, limit) == SubSeq(s, Max({1, offset}), Min({offset + limit, Len(s)}))

(* OFFSET and LIMIT.                                                       *)
Page(s, offset, limit) == SubSeq(s, offset + 1, Min({offset + limit, Len(s)}))

-----------------------------------------------------------------------------
(* Listing *)

TableOf(p) ==
    CASE p.list \in {"traces", "sessions", "users"} -> "traces"
      [] p.list = "monitor_runs" -> "eval_runs"
      [] p.list = "comparison" -> "session_scores"
      [] OTHER -> p.list

Open(p) ==
    /\ client = Away
    /\ TableOf(p) = busy
    /\ client' = [at |-> "count", p |-> p, offset |-> 0, total |-> 0, got |-> <<>>,
                  first |-> KeysOf(db, p), moved |-> {}, entered |-> FALSE, left |-> FALSE,
                  torn |-> FALSE, tied |-> Tied(KeysOf(db, p))]
    /\ UNCHANGED <<db, busy, commits>>

(* Mutant: the rows are counted after LIMIT.                               *)
CountOfPage ==
    /\ client.at = "count"
    /\ client' = [client EXCEPT !.at = "page",
                                !.total = Min({Limit, Cardinality(DOMAIN KeysOf(db, client.p))})]
    /\ UNCHANGED <<db, busy, commits>>

CountRows ==
    /\ client.at = "count"
    /\ client' = [client EXCEPT !.at = "page", !.total = Cardinality(DOMAIN KeysOf(db, client.p))]
    /\ UNCHANGED <<db, busy, commits>>

(* The client goes on until it has asked for as many as there were.        *)
FetchPage ==
    /\ client.at = "page"
    /\ \E s \in Sorted(client.p, KeysOf(db, client.p)) :
          client' = [client EXCEPT
                       !.got = @ \o Page(s, client.offset, Limit),
                       !.offset = @ + Limit,
                       !.at = IF client.offset + Limit < client.total THEN "count" ELSE "listed"]
    /\ UNCHANGED <<db, busy, commits>>

-----------------------------------------------------------------------------
(* A session and its traces *)

ReadSummary(s) ==
    /\ client = Away
    /\ busy = "traces"
    /\ client' = IF T!SessionSummary(db["traces"], s) = None
                 THEN [at |-> "not_found", session |-> s]
                 ELSE [at |-> "traces", session |-> s, torn |-> FALSE,
                       summary |-> T!SessionSummary(db["traces"], s),
                       shown |-> <<>>, spans |-> <<>>, tokens |-> <<>>]
    /\ UNCHANGED <<db, busy, commits>>

(* get_session_traces; the number of rows it counts is not in the answer.  *)
ReadTraces ==
    /\ client.at = "traces"
    /\ LET own == T!OfSession(db["traces"], client.session)
           keys == [t \in {u.created : u \in own} |-> <<Row(own, t).started, 0>>]
       IN  \E s \in Sorted([desc |-> FALSE], keys) :
              client' = [client EXCEPT
                           !.at = "spans",
                           !.shown = [i \in 1..Len(Page(s, 0, DetailLimit)) |-> Row(own, s[i])]]
    /\ UNCHANGED <<db, busy, commits>>

StillThere(t) == {u \in db["traces"] : u.created = t.created}

(* selectinload: the spans of the traces just read.                        *)
ReadSpans ==
    /\ client.at = "spans"
    /\ client' = [client EXCEPT
                    !.at = "stats",
                    !.spans = [i \in DOMAIN client.shown |-> T!SpanCount(StillThere(client.shown[i]))]]
    /\ UNCHANGED <<db, busy, commits>>

(* get_trace_span_stats; zeros for a trace it has no row of.               *)
ReadStats ==
    /\ client.at = "stats"
    /\ client' = [client EXCEPT
                    !.at = "shown",
                    !.tokens = [i \in DOMAIN client.shown |-> T!Tokens(StillThere(client.shown[i]))]]
    /\ UNCHANGED <<db, busy, commits>>

-----------------------------------------------------------------------------
(* Commits of others *)

Reading == client.at \in {"count", "page", "traces", "spans", "stats"}

(* What a commit means to the client that reads.                           *)
Track ==
    client' =
      CASE client.at \in {"count", "page"} ->
             LET p == client.p
                 old == KeysOf(db, p)
                 new == KeysOf(db', p)
                 both == DOMAIN old \cap DOMAIN new
                 forward == {i \in both : Ahead(p, new[i], old[i])}
             IN  [client EXCEPT
                    !.moved = @ \cup {i \in both : new[i] # old[i]},
                    !.entered = @ \/ forward # {} \/ DOMAIN new \ DOMAIN old # {},
                    !.left = @ \/ DOMAIN old \ DOMAIN new # {}
                               \/ \E i \in both : Ahead(p, old[i], new[i]),
                    !.torn = @ \/ (client.at = "page" /\ new # old),
                    !.tied = @ \/ Tied(new)]
        [] client.at \in {"traces", "spans", "stats"} -> [client EXCEPT !.torn = TRUE]
        [] OTHER -> client

Change(t, rows) ==
    /\ busy = t
    /\ client = Away \/ (Reading /\ commits < MaxCommits)
    /\ rows # db[t]
    /\ db' = [db EXCEPT ![t] = rows]
    /\ commits' = IF Reading THEN commits + 1 ELSE 0
    /\ Track
    /\ UNCHANGED busy

Unused(t) == Times \ {r.created : r \in db[t]}
Born(kind, c) == [x \in DOMAIN kind \cup {"created"} |-> IF x = "created" THEN c ELSE kind[x]]
Put(t, kind, c) == {r \in db[t] : r.created # c} \cup {Born(kind, c)}

CreateScore(t, kind, c) ==
    /\ t \in {"trace_scores", "session_scores"}
    /\ c \in Unused(t)
    /\ Change(t, Put(t, kind, c))

(* PATCH of a trace score: SUCCESS, whether or not a value is given.       *)
UpdateScore(s, value) ==
    /\ s \in db["trace_scores"]
    /\ value # None => s.type = "NUMERIC"
    /\ Change("trace_scores",
              (db["trace_scores"] \ {s})
                \cup {[s EXCEPT !.status = "SUCCESS", !.value = IF value = None THEN @ ELSE value]})

DeleteScore(t, s) ==
    /\ t \in {"trace_scores", "session_scores"}
    /\ Change(t, db[t] \ {s})

CreateRun(kind, c) == c \in Unused("eval_runs") /\ Change("eval_runs", Put("eval_runs", kind, c))

UpdateRunStatus(r, status) ==
    /\ r \in db["eval_runs"]
    /\ Change("eval_runs", (db["eval_runs"] \ {r}) \cup {[r EXCEPT !.status = status]})

DeleteRun(r) == Change("eval_runs", db["eval_runs"] \ {r})

(* A payload, a patch or more spans: a new trace, or an old one changed.   *)
StoreTrace(kind, c) == Change("traces", Put("traces", kind, c))

DropTrace(t) == Change("traces", db["traces"] \ {t})

DropSession(s) == Change("traces", db["traces"] \ T!OfSession(db["traces"], s))

-----------------------------------------------------------------------------

Sessions == {k.session : k \in TraceKinds} \ {None}
Values == {k.value : k \in ScoreKinds}

DashboardNext ==
    \/ \E p \in Listings : Open(p)
    \/ CountRows \/ FetchPage
    \/ \E s \in Sessions : ReadSummary(s)
    \/ ReadTraces \/ ReadSpans \/ ReadStats
    \/ \E t \in Tables, k \in ScoreKinds, c \in Times : CreateScore(t, k, c)
    \/ \E s \in db["trace_scores"], v \in Values : UpdateScore(s, v)
    \/ \E t \in Tables : \E s \in db[t] : DeleteScore(t, s)
    \/ \E k \in RunKinds, c \in Times : CreateRun(k, c)
    \/ \E r \in db["eval_runs"], k \in RunKinds : UpdateRunStatus(r, k.status)
    \/ \E r \in db["eval_runs"] : DeleteRun(r)
    \/ \E k \in TraceKinds, c \in Times : StoreTrace(k, c)
    \/ \E t \in db["traces"] : DropTrace(t)
    \/ \E s \in Sessions : DropSession(s)

DashboardSpec == DashboardInit /\ [][DashboardNext]_dashboardVars

-----------------------------------------------------------------------------
(* Properties *)

Seen == {client.got[i] : i \in DOMAIN client.got}

(* A client that pages by offset sees every row that was there from the    *)
(* beginning and kept its place, whatever rows are added or come forward   *)
(* meanwhile, as long as none leaves the list or falls back, none shares   *)
(* its sort key with another one, and no commit falls between the two      *)
(* statements of one request.                                              *)
PagesSkipNothing ==
    client.at = "listed" /\ ~client.left /\ ~client.tied /\ ~client.torn =>
        DOMAIN client.first \ client.moved \subseteq Seen

(* Nor does it see a row twice, whatever rows are deleted, unless one came *)
(* in or forward, or shares its sort key with another one.                 *)
PagesRepeatNothing ==
    client.at = "listed" /\ ~client.entered /\ ~client.tied /\ client.moved = {} =>
        IsInjective(client.got)

Shown == {client.shown[i] : i \in DOMAIN client.shown}
Total(seq) == MapThenSumSet(LAMBDA i : seq[i], DOMAIN seq)

(* "Summary fields are computed via SQL aggregation over all traces in the *)
(* session, regardless of the pagination window" (sessions.py): unless a   *)
(* commit falls between the statements, what the summary says of a session *)
(* is what its traces say one by one, as far as the answer has room.       *)
DetailAddsUp ==
    client.at = "shown" /\ ~client.torn =>
        LET sum == client.summary
        IN  /\ Len(client.shown) = Min({sum.count, DetailLimit})
            /\ Len(client.shown) = sum.count =>
                 /\ sum.spans = Total(client.spans)
                 /\ sum.tokens = Total(client.tokens)
                 /\ sum.error = (\E t \in Shown : t.status = "ERROR")
                 /\ sum.latency = T!TotalLatency(Shown)
                 /\ sum.users = T!FirstUsers(Shown)
            /\ sum.first = client.shown[1].started

Windows == {[from |-> f, to |-> t] : f, t \in Times \cup {None}}

CountOf(lines) == MapThenSumSet(LAMBDA x : x.count, lines)
TokensOf(lines) == MapThenSumSet(LAMBDA x : x.tokens, lines)

(* GET /traces/analytics: three sets of figures under one name.            *)
TraceFigures(d, metric, w) ==
    CASE metric \in {"volume", "errors", "latency"} -> T!TraceAnalytics(d["traces"], w, Period)
      [] metric \in {"cost", "tokens"} -> T!TokenAnalytics(d["traces"], w, Period)
      [] metric = "models" -> T!TopModels(d["traces"], w)

(* GET /sessions/analytics.                                                *)
SessionFigures(d, w) == T!SessionAnalytics(d["traces"], w, Period)

TraceFiguresAgree ==
    LET traces == db["traces"]
        all == T!SpansOf(traces, Always)
    IN  /\ \A w \in Windows :
             LET listed == T!TracesMatching(traces, [NoTraceFilter EXCEPT !.window = w])
                 f == [user |-> None, error |-> None, window |-> w]
                 perSession == SessionFigures(db, w)
             IN  /\ CountOf(TraceFigures(db, "volume", w)) = Cardinality(listed)
                 /\ CountOf(perSession) = Cardinality(T!ListSessions(traces, f))
                 /\ MapThenSumSet(LAMBDA x : x.traces, perSession)
                      = MapThenSumSet(LAMBDA s : T!SessionRow(T!SessionTraces(traces, f), s).count,
                                      T!ListSessions(traces, f))
        /\ TokensOf(TraceFigures(db, "tokens", Always)) = T!Tokens(traces)
        /\ MapThenSumSet(LAMBDA m : m.calls, TraceFigures(db, "models", Always))
             = Cardinality({x \in all : x.span.model # None})
        /\ CountOf(T!TraceUsers(traces)) = Cardinality({t \in traces : t.user # None})

(* Session scores have queries of their own, which are written like those  *)
(* of trace scores.                                                        *)
ScoreSummary(d, t, w) == S!ScoreSummary(d[t], w)
ScoreDistribution(d, t, n, w) == S!ScoreDistribution(d[t], n, w, Buckets)
ScoreTrend(d, t, n, w) == S!ScoreTrend(d[t], n, w, Period)

(* The scores of one session over time, as its page asks for them.         *)
ScoreHistory(d, s, n) == S!ScoreHistory(d["session_scores"], s, n, Cardinality(Times))

ScoreFilter(n, w) ==
    [name |-> n, target |-> None, status |-> "SUCCESS", type |-> "NUMERIC", run |-> None, window |-> w]

ScoreFiguresAgree ==
    \A t \in {"trace_scores", "session_scores"}, w \in Windows :
        /\ \A n \in {s.name : s \in db[t]} :
             LET good == S!ListScores(db[t], ScoreFilter(n, w))
                 bars == ScoreDistribution(db, t, n, w)
             IN  /\ CountOf(ScoreTrend(db, t, n, w)) = Cardinality(good)
                 /\ IF bars = None THEN \E s \in good : s.value = None
                    ELSE /\ CountOf(bars) = Cardinality(good)
                         /\ \A s \in good : s.value \in 0..Scale =>
                              \E b \in bars : s.value \in b.bounds.min..b.bounds.max
        /\ \A n \in DOMAIN ScoreSummary(db, t, w) :
             LET line == ScoreSummary(db, t, w)[n]
                 good == S!ListScores(db[t], ScoreFilter(n, w))
             IN  /\ line.success >= Cardinality(good)
                 /\ (line.avg = None) = (line.median = None)
                 /\ line.avg # None => line.avg.of <= Cardinality(good)

(* The dashboard shows the same rows through several queries that were     *)
(* written separately: analytics, lists and summaries of traces, sessions  *)
(* and scores come to the same totals for every window, a value lies in    *)
(* the bounds of its bucket, and a session's rank is by the last success   *)
(* of its history.  (Every content of the tables is reached without a      *)
(* client.)                                                                *)
FiguresAgree ==
  client = Away =>
    /\ TraceFiguresAgree
    /\ ScoreFiguresAgree
    /\ \A r \in S!ScoreComparison(db["session_scores"], "m") :
         LET history == ScoreHistory(db, r.target, "m")
         IN  r.created = Max({s.created : s \in {x \in history : x.status = "SUCCESS"}})
    /\ \A t \in {s.target : s \in db["trace_scores"]} :
         LET own == {s \in db["trace_scores"] : s.target = t}
         IN  \A s \in S!LatestScores(db["trace_scores"], t) :
               \A u \in own : u.name = s.name => u.created <= s.created

=============================================================================
