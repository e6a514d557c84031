---------------------------- MODULE ScoreQueries -----------------------------
(***************************************************************************)
(* The queries over scores (eval_repo.py), as operators on a set of rows.  *)
(* trace_scores and session_scores have the same columns but for what they *)
(* score, here target.  created_at of two rows differs, so that it names a *)
(* row.  A value is a whole number, v standing for v / Scale, or None; an  *)
(* average is a sum and a count.  Columns that are filtered the same way   *)
(* as those here (source, environment, project) are left out.              *)
(***************************************************************************)
EXTENDS Integers, Sequences, FiniteSets, FiniteSetsExt, SequencesExt

CONSTANTS
    Scale,  \* the value that stands for 1.0
    None    \* NULL, and a filter that is not given

(* date_from is included, date_to is not.                                  *)
InWindow(t, w) == (w.from # None => t >= w.from) /\ (w.to # None => t < w.to)

Is(filter, column) == filter \in {None, column}

(* list_scores, list_session_scores, before they are sorted and cut.       *)
ListScores(rows, f) ==
    {s \in rows : /\ Is(f.name, s.name)
                  /\ Is(f.target, s.target)
                  /\ Is(f.status, s.status)
                  /\ Is(f.type, s.type)
                  /\ Is(f.run, s.run)
                  /\ InWindow(s.created, f.window)}

Numeric(s) == s.type = "NUMERIC" /\ s.status = "SUCCESS"
NumericOf(rows, name, w) ==
    {s \in rows : s.name = name /\ Numeric(s) /\ InWindow(s.created, w)}

Newest(rows) == CHOOSE s \in rows : \A t \in rows : s.created >= t.created

(* get_latest_scores_for_trace: DISTINCT ON the name, newest first,        *)
(* whatever its status.                                                    *)
LatestScores(rows, target) ==
    LET own == {s \in rows : s.target = target}
    IN  {Newest({s \in own : s.name = n}) : n \in {s.name : s \in own}}

(* Aggregates leave NULL out; over no row they are NULL.                   *)
Valued(rows) == {s \in rows : s.value # None}
Average(rows) ==
    IF Valued(rows) = {} THEN None
    ELSE [sum |-> MapThenSumSet(LAMBDA s : s.value, Valued(rows)), of |-> Cardinality(Valued(rows))]

(* percentile_cont(0.5), doubled: the sum of the two values in the middle. *)
TwiceMedian(rows) ==
    IF Valued(rows) = {} THEN None
    ELSE LET n == Cardinality(Valued(rows))
             Upto(v) == Cardinality({s \in Valued(rows) : s.value <= v})
             Nth(k) == Min({v \in {s.value : s \in Valued(rows)} : Upto(v) >= k})
         IN  Nth((n + 1) \div 2) + Nth((n + 2) \div 2)

(* get_score_summary: a line per metric.                                   *)
ScoreSummary(rows, w) ==
    LET all == {s \in rows : InWindow(s.created, w)}
    IN  [n \in {s.name : s \in all} |->
           LET named == {s \in all : s.name = n}
               good == {s \in named : Numeric(s)}
           IN  [success |-> Cardinality({s \in named : s.status = "SUCCESS"}),
                failed |-> Cardinality({s \in named : s.status = "FAILED"}),
                avg |-> Average(good),
                median |-> TwiceMedian(good),
                latest |-> Newest(named).created]]

(* width_bucket(v, 0, 1, b): 0 below the range, b + 1 from its end on.     *)
WidthBucket(v, b) ==
    CASE v < 0 -> 0
      [] v >= Scale -> b + 1
      [] OTHER -> (v * b) \div Scale + 1

(* The bounds that are answered for bucket k.                              *)
BucketBounds(k, b) ==
    [min |-> Max({0, ((k - 1) * Scale) \div b}), max |-> Min({Scale, (k * Scale) \div b})]

(* get_score_distribution.  The bounds of a row without a value cannot be  *)
(* computed, and the request fails with a TypeError: None.                 *)
ScoreDistribution(rows, name, w, b) ==
    LET good == NumericOf(rows, name, w)
    IN  IF \E s \in good : s.value = None THEN None
        ELSE {[bucket |-> k, bounds |-> BucketBounds(k, b),
               count |-> Cardinality({s \in good : WidthBucket(s.value, b) = k})]
              : k \in {WidthBucket(s.value, b) : s \in good}}

(* get_score_trend: a line per period, of g time units, with scores in it. *)
ScoreTrend(rows, name, w, g) ==
    LET good == NumericOf(rows, name, w)
    IN  {LET here == {s \in good : s.created \div g = k}
         IN  [bucket |-> k, avg |-> Average(here), count |-> Cardinality(here)]
         : k \in {s.created \div g : s \in good}}

(* get_session_score_history: the first rows, whatever became of them.     *)
ScoreHistory(rows, target, name, limit) ==
    LET own == {s \in rows : s.target = target /\ s.type = "NUMERIC" /\ Is(name, s.name)}
        older(s) == Cardinality({t \in own : t.created < s.created})
    IN  {s \in own : older(s) < limit}

(* Mutant: the first score of a session is ranked.                         *)
ComparisonOldest(rows, name) ==
    LET good == NumericOf(rows, name, [from |-> None, to |-> None])
    IN  {CHOOSE s \in good : s.target = t /\ \A u \in good : u.target = t => s.created <= u.created
         : t \in {s.target : s \in good}}

(* get_session_score_comparison: the newest success of each session.       *)
ScoreComparison(rows, name) ==
    LET good == NumericOf(rows, name, [from |-> None, to |-> None])
    IN  {Newest({s \in good : s.target = t}) : t \in {s.target : s \in good}}

=============================================================================
