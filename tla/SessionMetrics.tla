---------------------------- MODULE SessionMetrics ----------------------------
(***************************************************************************)
(* The metrics that are computed without a judge: loop_detection, which    *)
(* compares words and embeddings of outputs, and agent_reliability and     *)
(* agent_consistency, which aggregate the signals of a session's traces.   *)
(* Of coherence, one cosine, only the signal is used.                      *)
(*                                                                         *)
(* A signal is a whole number, v standing for v / Scale; weights are in    *)
(* tenths.  A trace is the function of those signals that it has.  Scores  *)
(* are fractions [num, den]; their rounding to four digits is left out.    *)
(***************************************************************************)
EXTENDS Integers, Sequences, FiniteSets, FiniteSetsExt, SequencesExt

CONSTANTS
    Scale,     \* the signal that stands for 1.0
    Outputs,   \* outputs of traces
    Words,     \* what _tokenize leaves of an output
    Cosine,    \* 1.0 - cosine_distance of two embeddings, up to Scale
    NoOutput   \* no output, or an empty one

ASSUME SessionMetricsAssumption ==
    /\ Scale \in Nat \ {0}
    /\ NoOutput \notin Outputs
    /\ DOMAIN Words = Outputs
    /\ \A o \in Outputs : IsFiniteSet(Words[o])
    /\ Cosine \in [Outputs \X Outputs -> 0..Scale]
    /\ \A x, y \in Outputs : Cosine[x, y] = Cosine[y, x] /\ Cosine[x, x] = Scale

SignalNames == {"confidence", "loop_detection", "tool_correctness", "coherence"}

DefaultWeights == [s \in SignalNames |-> IF s = "tool_correctness" THEN 8 ELSE 10]

(* {**DEFAULT_SIGNAL_WEIGHTS, **signal_weights}                             *)
Weights(given) == [s \in SignalNames |-> IF s \in DOMAIN given THEN given[s] ELSE DefaultWeights[s]]

Full == 10 * Scale

Fraction(num, den) == [num |-> num, den |-> den]
One == Fraction(1, 1)
Below(x, y) == x.num * y.den < y.num * x.den
OneLess(num, den) == Fraction(Max({0, Min({den, den - num})}), den)

-----------------------------------------------------------------------------
(* Signals of a trace *)

Jaccard(a, b) == IF a \cup b = {} THEN Fraction(0, 1)
                 ELSE Fraction(Cardinality(a \cap b), Cardinality(a \cup b))

(* session_traces[-DEFAULT_WINDOW:], empty outputs included.               *)
Window(previous) == SubSeq(previous, Max({1, Len(previous) - 2}), Len(previous))

(* The hybrid similarity of two outputs, nearness times overlap, from one. *)
Hybrid(output, other) ==
    LET j == Jaccard(Words[output], Words[other])
    IN  OneLess(Cosine[output, other] * j.num, Scale * j.den)

(* loop_detection goes by the output that is closest.                      *)
LoopScore(output, previous) ==
    LET compared == Range(Window(previous)) \ {NoOutput}
    IN  IF output = NoOutput \/ compared = {} THEN One
        ELSE CHOOSE x \in {Hybrid(output, o) : o \in compared} :
                \A o \in compared : ~Below(Hybrid(output, o), x)

-----------------------------------------------------------------------------
(* Scores of a session, a sequence of traces *)

Risk(w, trace, s) == w[s] * (Scale - trace[s])

(* The greatest risk of a signal that was found or computed.               *)
StepRisk(w, trace) == Max({Risk(w, trace, s) : s \in DOMAIN trace})

\* max(1, ceil(0.15 * n))
TopK(n) == Max({1, (15 * n + 99) \div 100})

Total(risk, some) == MapThenSumSet(LAMBDA i : risk[i], some)

(* Mutant: the risks are sorted the wrong way round.                       *)
Smallest(k, risk) == Min({Total(risk, some) : some \in kSubset(k, DOMAIN risk)})

(* sum(sorted_risks[:k]), the risks sorted in descending order.            *)
Largest(k, risk) == Max({Total(risk, some) : some \in kSubset(k, DOMAIN risk)})

(* agent_reliability: nine tenths the mean of the top risks, one the       *)
(* worst.  A trace without any signal is left out.                         *)
Reliability(given, session) ==
    LET risk == [i \in {j \in DOMAIN session : DOMAIN session[j] # {}} |->
                    StepRisk(Weights(given), session[i])]
        k == TopK(Cardinality(DOMAIN risk))
    IN  IF DOMAIN risk = {} THEN One
        ELSE OneLess(9 * Largest(k, risk) + k * Largest(1, risk), 10 * k * Full)

(* What the other signals add to the risk of low confidence.               *)
Penalty(w, trace) == MapThenSumSet(LAMBDA s : Risk(w, trace, s), DOMAIN trace \ {"confidence"})
WeightedUncertainty(w, trace) == (Full + Penalty(w, trace)) * Risk(w, trace, "confidence")

(* agent_consistency is 1 less the root mean square of these, at least 0:  *)
(* the sum of their squares, and for how many traces.  A trace without     *)
(* confidence is left out.                                                 *)
Instability(given, session) ==
    LET scored == {i \in DOMAIN session : "confidence" \in DOMAIN session[i]}
        wu == [i \in scored |-> WeightedUncertainty(Weights(given), session[i])]
        squares == [i \in scored |-> wu[i] * wu[i]]
    IN  [sum |-> Total(squares, scored), of |-> Cardinality(scored)]

-----------------------------------------------------------------------------
(* Properties *)

CONSTANTS
    MaxTraces,   \* traces of a session of which one fails
    Weightings,  \* signal_weights that runs are given
    Contexts     \* other traces of the session

AllTraces == UNION {[S -> 0..Scale] : S \in SUBSET SignalNames}
Perfect == [s \in SignalNames |-> Scale]

(* From fourteen traces on there are three top risks, and one is diluted.  *)
(* The API does not look at the weights it is given; they are taken not to *)
(* be negative.                                                            *)
ASSUME SessionsAssumption ==
    /\ MaxTraces \in 1..13
    /\ \A given \in Weightings : \A s \in DOMAIN given : given[s] \in Nat
    /\ \A c \in Contexts : c \in Seq(AllTraces)

\* the trace at m fails in signal s, the others are perfect
OneFails(n, m, s) == [i \in 1..n |-> IF i = m THEN [Perfect EXCEPT ![s] = 0] ELSE Perfect]

(* A session with one catastrophic trace is below the threshold of 0.5,    *)
(* wherever the trace stands and whichever signal with full weight shows   *)
(* it.                                                                     *)
WorstTraceShows ==
    \A n \in 1..MaxTraces, s \in SignalNames \ {"tool_correctness"} : \A m \in 1..n :
        Below(Reliability(<<>>, OneFails(n, m, s)), Fraction(1, 2))

(* No session is scored better for a signal that is worse, whatever the    *)
(* weights, the other traces, and the signals that could not be computed.  *)
WorseIsNotBetter ==
    \A given \in Weightings, c \in Contexts, t \in AllTraces : \A s \in DOMAIN t :
        t[s] > 0 =>
            LET before == Append(c, t)
                after == Append(c, [t EXCEPT ![s] = @ - 1])
            IN  /\ ~Below(Reliability(given, before), Reliability(given, after))
                /\ Instability(given, before).of = Instability(given, after).of
                /\ Instability(given, before).sum <= Instability(given, after).sum

Sessions3(n) == UNION {[1..k -> Outputs \cup {NoOutput}] : k \in 0..n}

(* An output that repeats, word for word, one of the last three is a loop  *)
(* beyond doubt, if it has any word that counts; one that shares no word   *)
(* with them is none.                                                      *)
RepetitionShows ==
    \A previous \in Sessions3(4), o \in Outputs :
        LET last == {previous[i] : i \in {j \in DOMAIN previous : j > Len(previous) - 3}}
        IN  /\ o \in last /\ Words[o] # {} => LoopScore(o, previous).num = 0
            /\ (\A x \in last \ {NoOutput} : Words[x] \cap Words[o] = {}) =>
                  ~Below(LoopScore(o, previous), One)

=============================================================================
