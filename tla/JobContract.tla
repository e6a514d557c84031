----------------------------- MODULE JobContract -----------------------------
(***************************************************************************)
(* What the background queue promises to the code that enqueues a job,     *)
(* independently of rows, runner and process: at-least-once execution with *)
(* a retry budget.  A job is queued, then held by an attempt; an attempt   *)
(* may do the job's work; a held job is finished (only if the work was     *)
(* done), abandoned (only for cause), put back by a failed attempt, or put *)
(* back together with every other held job when the holder is lost.        *)
(***************************************************************************)
EXTENDS Naturals

CONSTANTS Jobs, Kinds, Budget, Fragile

\* phase: where each job is; kind: what the job is of; tries: attempts
\* entered; work: how often the work was done; cut: the last attempt of the
\* job was cut short in a way its kind does not retry
VARIABLES phase, kind, tries, work, cut

contractVars == <<phase, kind, tries, work, cut>>

Init ==
    /\ phase = [j \in Jobs |-> "none"]
    /\ kind \in [Jobs -> Kinds]
    /\ tries = [j \in Jobs |-> 0]
    /\ work = [j \in Jobs |-> 0]
    /\ cut = [j \in Jobs |-> FALSE]

Submit(j) ==
    /\ phase[j] = "none"
    /\ phase' = [phase EXCEPT ![j] = "queued"]
    /\ \E k \in Kinds : kind' = [kind EXCEPT ![j] = k]
    /\ UNCHANGED <<tries, work, cut>>

Take(j) ==
    /\ phase[j] = "queued"
    /\ phase' = [phase EXCEPT ![j] = "held"]
    /\ tries' = [tries EXCEPT ![j] = @ + 1]
    /\ UNCHANGED <<kind, work, cut>>

Work(j) ==
    /\ phase[j] = "held"
    /\ work' = [work EXCEPT ![j] = @ + 1]
    /\ UNCHANGED <<phase, kind, tries, cut>>

Finish(j) ==
    /\ phase[j] = "held"
    /\ work[j] > 0
    /\ phase' = [phase EXCEPT ![j] = "finished"]
    /\ cut' = [cut EXCEPT ![j] = FALSE]
    /\ UNCHANGED <<kind, tries, work>>

PutBack(j) ==
    /\ phase[j] = "held"
    /\ tries[j] <= Budget[kind[j]]
    /\ phase' = [phase EXCEPT ![j] = "queued"]
    /\ \E c \in BOOLEAN : cut' = [cut EXCEPT ![j] = c]
    /\ UNCHANGED <<kind, tries, work>>

Abandon(j) ==
    /\ phase[j] = "held"
    /\ \E c \in BOOLEAN :
          /\ tries[j] > Budget[kind[j]] \/ (c /\ kind[j] \in Fragile)
          /\ cut' = [cut EXCEPT ![j] = c]
    /\ phase' = [phase EXCEPT ![j] = "abandoned"]
    /\ UNCHANGED <<kind, tries, work>>

LoseHolder ==
    /\ phase' = [j \in Jobs |-> IF phase[j] = "held" THEN "queued" ELSE phase[j]]
    /\ UNCHANGED <<kind, tries, work, cut>>

Next ==
    \/ \E j \in Jobs :
          Submit(j) \/ Take(j) \/ Work(j) \/ Finish(j) \/ PutBack(j) \/ Abandon(j)
    \/ LoseHolder

Spec == Init /\ [][Next]_contractVars

=============================================================================
