----------------------------- MODULE MCBilling ------------------------------
(* Two webhook requests, one category, two Stripe periods, one fault.      *)
EXTENDS Subscriptions, TLC
CONSTANTS h1, h2
HookSymmetry == Permutations(Hooks)

Units == MapThenSumSet(LAMBDA p : count[p][1], Periods)

(* Explored further: two units over all periods, two webhooks at a time    *)
(* until something fails, and no subscription that a reset put astray.     *)
Bound ==
    /\ Units <= 2
    /\ paid => period \in StripePeriods
    /\ faults > 0 => Cardinality({h \in Hooks : act[h].at # "idle"}) <= 1
=============================================================================
