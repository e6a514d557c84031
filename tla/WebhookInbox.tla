---------------------------- MODULE WebhookInbox ----------------------------
(***************************************************************************)
(* The Stripe webhook endpoint and its idempotency table: every delivery   *)
(* claims the event in stripe_webhook_events and commits the claim, runs   *)
(* the billing handler (which commits its own work), then marks the event  *)
(* COMPLETED, or FAILED after an exception.  A claim older than five       *)
(* minutes may be taken over.  Deliveries of the same event overlap, the   *)
(* process may die inside any of them, and Stripe may send an event again  *)
(* at any time.                                                            *)
(***************************************************************************)
EXTENDS Naturals

CONSTANTS
    Events,         \* event ids of handled types
    Workers,        \* concurrent requests to the endpoint
    MaxInboxFaults       \* bound on exceptions, lost writes and crashes

ASSUME WebhookAssumption ==
    /\ Events # {}
    /\ MaxInboxFaults \in Nat

VARIABLES
    eventStatus,   \* stripe_webhook_events.status, NONE without a row
    stale,         \* events whose locked_at is at least five minutes old
    at,            \* where each worker's request stands
    event,         \* the event each worker's request carries
    effects,       \* history: how often the handler of an event committed
    acked,         \* events Stripe has seen answered 2xx
    overran,       \* history: some handler has outlived its claim
    inboxFaults

inboxVars == <<eventStatus, stale, at, event, effects, acked, overran, inboxFaults>>

WebhookEventStatus == {"PROCESSING", "COMPLETED", "FAILED"}
Places == {"idle", "claim", "handle", "complete", "fail", "ok", "error"}

(* The one type invariant of the module.                                   *)
InboxTypeOK ==
    /\ eventStatus \in [Events -> WebhookEventStatus \cup {"NONE"}]
    /\ stale \subseteq Events
    /\ at \in [Workers -> Places]
    /\ event \in [Workers -> Events]
    /\ effects \in [Events -> Nat]
    /\ acked \subseteq Events
    /\ overran \in BOOLEAN
    /\ inboxFaults \in 0..MaxInboxFaults

InboxInit ==
    /\ eventStatus = [e \in Events |-> "NONE"]
    /\ stale = {}
    /\ at = [w \in Workers |-> "idle"]
    /\ event \in [Workers -> {CHOOSE e \in Events : TRUE}]
    /\ effects = [e \in Events |-> 0]
    /\ acked = {}
    /\ overran = FALSE
    /\ inboxFaults = 0

Goto(w, p) == at' = [at EXCEPT ![w] = p]

(* The worker is past its claim of e and before the end of its marking.    *)
Owns(w, e) == event[w] = e /\ at[w] \in {"handle", "complete", "fail"}

InboxFault == inboxFaults < MaxInboxFaults /\ inboxFaults' = inboxFaults + 1

-----------------------------------------------------------------------------

(* Stripe sends an event, for the first time or again.  Signature checks   *)
(* and event types that are not handled end before the claim and change    *)
(* nothing.                                                                *)
Deliver(w, e) ==
    /\ at[w] = "idle"
    /\ Goto(w, "claim")
    /\ event' = [event EXCEPT ![w] = e]
    /\ UNCHANGED <<eventStatus, stale, effects, acked, overran, inboxFaults>>

(* Mutant: a claim in progress does not keep others away.                  *)
ClaimableOverProcessing(e) == eventStatus[e] # "COMPLETED"

(* Mutant: a failed event cannot be claimed again.                         *)
ClaimableNotFailed(e) == eventStatus[e] = "NONE" \/ (eventStatus[e] = "PROCESSING" /\ e \in stale)

(* New, failed, or stale.                                                  *)
Claimable(e) ==
    \/ eventStatus[e] \in {"NONE", "FAILED"}
    \/ eventStatus[e] = "PROCESSING" /\ e \in stale

(* Mutant: the claim is acknowledged, and nothing handles the event.       *)
TryClaimAnswers(w) ==
    LET e == event[w] IN
    /\ at[w] = "claim"
    /\ eventStatus' = [eventStatus EXCEPT ![e] = IF Claimable(e) THEN "PROCESSING" ELSE @]
    /\ Goto(w, "ok")
    /\ UNCHANGED <<stale, event, effects, acked, overran, inboxFaults>>

(* try_claim and its commit; a duplicate is answered 200 at once.          *)
TryClaim(w) ==
    LET e == event[w] IN
    /\ at[w] = "claim"
    /\ IF Claimable(e)
       THEN /\ eventStatus' = [eventStatus EXCEPT ![e] = "PROCESSING"]
            /\ stale' = stale \ {e}
            /\ Goto(w, "handle")
       ELSE /\ Goto(w, "ok")
            /\ UNCHANGED <<eventStatus, stale>>
    /\ UNCHANGED <<event, effects, acked, overran, inboxFaults>>

(* The billing handler commits.                                            *)
Handle(w) ==
    /\ at[w] = "handle"
    /\ effects' = [effects EXCEPT ![event[w]] = @ + 1]
    /\ Goto(w, "complete")
    /\ UNCHANGED <<eventStatus, stale, event, acked, overran, inboxFaults>>

(* mark_completed and its commit.                                          *)
MarkCompleted(w) ==
    /\ at[w] = "complete"
    /\ eventStatus' = [eventStatus EXCEPT ![event[w]] = "COMPLETED"]
    /\ Goto(w, "ok")
    /\ UNCHANGED <<stale, event, effects, acked, overran, inboxFaults>>

(* The handler raises before its commit, or mark_completed raises after    *)
(* it: both lead to the except branch.                                     *)
Raises(w) ==
    /\ at[w] \in {"handle", "complete"}
    /\ InboxFault
    /\ Goto(w, "fail")
    /\ UNCHANGED <<eventStatus, stale, event, effects, acked, overran>>

(* rollback, mark_failed and its commit, then the exception again.         *)
MarkFailed(w) ==
    /\ at[w] = "fail"
    /\ eventStatus' = [eventStatus EXCEPT ![event[w]] = "FAILED"]
    /\ Goto(w, "error")
    /\ UNCHANGED <<stale, event, effects, acked, overran, inboxFaults>>

(* mark_failed raises too: the row stays PROCESSING.                       *)
MarkFailedRaises(w) ==
    /\ at[w] = "fail"
    /\ InboxFault
    /\ Goto(w, "error")
    /\ UNCHANGED <<eventStatus, stale, event, effects, acked, overran>>

(* The answer reaches Stripe.                                              *)
Answer(w) ==
    /\ at[w] \in {"ok", "error"}
    /\ acked' = IF at[w] = "ok" THEN acked \cup {event[w]} ELSE acked
    /\ Goto(w, "idle")
    /\ UNCHANGED <<eventStatus, stale, event, effects, overran, inboxFaults>>

(* The process dies with every request in it, and restarts.                *)
Crash ==
    /\ InboxFault
    /\ \E w \in Workers : at[w] # "idle"
    /\ at' = [w \in Workers |-> "idle"]
    /\ UNCHANGED <<eventStatus, stale, event, effects, acked, overran>>

(* Five minutes pass since the claim of e, its handler still at work or    *)
(* not.                                                                    *)
ClaimAges(e) ==
    /\ eventStatus[e] = "PROCESSING"
    /\ e \notin stale
    /\ stale' = stale \cup {e}
    /\ overran' = (overran \/ \E w \in Workers : Owns(w, e))
    /\ UNCHANGED <<eventStatus, at, event, effects, acked, inboxFaults>>

Step(w) == TryClaim(w) \/ Handle(w) \/ MarkCompleted(w) \/ MarkFailed(w) \/ Answer(w)

InboxNext ==
    \/ \E w \in Workers, e \in Events : Deliver(w, e)
    \/ \E w \in Workers : Step(w) \/ Raises(w) \/ MarkFailedRaises(w)
    \/ Crash
    \/ \E e \in Events : ClaimAges(e)

InboxSpec == InboxInit /\ [][InboxNext]_inboxVars

(* Requests run to their end, time passes, and Stripe keeps sending what   *)
(* it has reason to send.                                                  *)
FairInboxSpec ==
    /\ InboxSpec
    /\ \A w \in Workers : WF_inboxVars(Step(w))
    /\ \A e \in Events : WF_inboxVars(ClaimAges(e)) /\ SF_inboxVars(\E w \in Workers : Deliver(w, e))

-----------------------------------------------------------------------------
(* Properties *)

(* As long as no handler has outlived its claim, an event is in one handler at *)
(* a time, however many deliveries overlap and whatever was retried.       *)
OneHandlerPerEvent ==
    ~overran => \A e \in Events, v, w \in Workers : Owns(v, e) /\ Owns(w, e) => v = w

(* As long as no handler has outlived its claim, COMPLETED is final, although  *)
(* mark_failed does not look at the status it overwrites.                  *)
CompletedIsFinal ==
    [][~overran' => \A e \in Events :
          eventStatus[e] = "COMPLETED" => eventStatus'[e] = "COMPLETED"]_inboxVars

(* Duplicates alone never repeat an event's effects: a handler commits     *)
(* more often than once only after an exception, a lost write or a crash,  *)
(* and then at most once per fault.                                        *)
EffectsBounded ==
    ~overran => \A e \in Events : effects[e] <= 1 + inboxFaults

(* A Stripe that went on sending would get every event handled: no failure *)
(* leaves a row that no later delivery can claim.                          *)
EventuallyHandled ==
    \A e \in Events : <>(effects[e] > 0 /\ eventStatus[e] = "COMPLETED")

(* A 2xx answer tells Stripe not to send again.  While nothing fails, an   *)
(* event that is answered so and that no request is working on has had its *)
(* effects.  (With a fault it may not: the duplicate of a delivery that is *)
(* still at work is answered 200, and the delivery may be lost after.)     *)
AckedIsProcessed ==
    inboxFaults = 0 =>
        \A e \in acked : effects[e] > 0 \/ \E w \in Workers : at[w] # "idle" /\ event[w] = e

=============================================================================
