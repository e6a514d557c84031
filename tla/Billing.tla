------------------------------ MODULE Billing -------------------------------
(***************************************************************************)
(* Metered billing of one organization: requests count usage under the     *)
(* lock of the subscription row; the hourly job and three Stripe webhooks  *)
(* report the overage above a watermark as Stripe invoice items; webhooks  *)
(* move the subscription from period to period.  A webhook handler reads   *)
(* the subscription before it tries the lock and keeps using what it read. *)
(*                                                                         *)
(* Period 0 is the free period before checkout, 1..MaxPeriod are Stripe's, *)
(* and MaxPeriod + 1 is the free one after a cancellation.  The customer   *)
(* has one paid plan, so plan and stripe_subscription_id change together   *)
(* (paid).  Usage is counted in single units.                              *)
(***************************************************************************)
EXTENDS Naturals, FiniteSets

CONSTANTS
    NumCategories, \* usage categories, in the order they are reported
    Base,          \* units a period of the paid plan includes
    FreeBase,      \* units a free period is limited to
    MaxUsage,      \* bound on the units of a category in a period
    MaxPeriod,     \* bound on Stripe's periods
    MaxFree,       \* bound on the free periods started by a reset
    Hooks,         \* concurrent webhook requests
    InOrder,       \* events of a renewal are handled in the order of Rank
    Contended,     \* SKIP LOCKED may find the row locked
    MaxFaults      \* bound on exceptions and on repeated deliveries

Job == "job"
Request == "request"
Free == "free"

ASSUME BillingAssumption ==
    /\ NumCategories \in Nat
    /\ Base \in Nat
    /\ FreeBase \in Nat
    /\ MaxUsage \in Nat
    /\ MaxPeriod \in Nat \ {0}
    /\ MaxFree \in Nat
    /\ Hooks \cap {Job, Request, Free} = {}
    /\ InOrder \in BOOLEAN
    /\ Contended \in BOOLEAN
    /\ MaxFaults \in Nat

VARIABLES
    paid, status, period,           \* the subscriptions row
    exists, billed,                 \* periods with a usage record; the billed ones
    count, reported,                \* its counters and their watermark
    lock,                           \* who holds the lock of the subscription row
    open,                           \* the increment of the request that holds it
    act,                            \* the job and the webhook requests
    items, charged,                 \* Stripe: idempotency keys seen, units invoiced
    stripeNow, canceled, pending,   \* Stripe: current period, events to deliver
    faults

subVars == <<paid, status, period>>
recordVars == <<exists, billed, count, reported>>
stripeVars == <<items, charged, stripeNow, canceled, pending>>
vars == <<subVars, recordVars, lock, open, act, stripeVars, faults>>

Categories == 1..NumCategories
Periods == 0..MaxPeriod + 1 + MaxFree
StripePeriods == 1..MaxPeriod
HobbyAgain == MaxPeriod + 1
Actors == Hooks \cup {Job}

SubscriptionStatus == {"ACTIVE", "PAST_DUE", "CANCELED"}
EventTypes == {"checkout", "signup", "created", "failed", "renewal", "updated", "deleted"}
Event == [type : EventTypes, per : Periods]
Bill == [type |-> "bill", per |-> 0]

(* What a handler has read of the subscription row.                        *)
Seen == [paid : BOOLEAN, status : SubscriptionStatus, period : Periods]
Actor == [at : {"idle", "queued", "lock", "report", "apply"},
          ev : Event \cup {Bill}, seen : Seen]
Now == [paid |-> paid, status |-> status, period |-> period]
NoWork == [at |-> "idle", ev |-> Bill,
           seen |-> [paid |-> FALSE, status |-> "ACTIVE", period |-> 0]]

(* The one type invariant of the module.                                   *)
TypeOK ==
    /\ paid \in BOOLEAN
    /\ status \in SubscriptionStatus
    /\ period \in Periods
    /\ exists \subseteq Periods
    /\ billed \subseteq Periods
    /\ count \in [Periods -> [Categories -> Nat]]
    /\ reported \in [Periods -> [Categories -> Nat]]
    /\ lock \in Actors \cup {Request, Free}
    /\ open \in [per : Periods, cat : Categories] \cup {[per |-> 0, cat |-> 0]}
    /\ act \in [Actors -> Actor]
    /\ items \subseteq Periods \X Categories \X Nat
    /\ charged \in [Periods -> [Categories -> Nat]]
    /\ stripeNow \in 0..MaxPeriod
    /\ canceled \in BOOLEAN
    /\ pending \subseteq Event
    /\ faults \in 0..MaxFaults

NoUsage == [p \in Periods |-> [c \in Categories |-> 0]]

Init ==
    /\ paid = FALSE
    /\ status = "ACTIVE"
    /\ period = 0
    /\ exists = {0}
    /\ billed = {}
    /\ count = NoUsage
    /\ reported = NoUsage
    /\ lock = Free
    /\ open = [per |-> 0, cat |-> 0]
    /\ act = [a \in Actors |-> NoWork]
    /\ items = {}
    /\ charged = NoUsage
    /\ stripeNow = 0
    /\ canceled = FALSE
    /\ pending = {}
    /\ faults = 0

(* The units beyond those a paid period includes.                          *)
Over(n) == IF n > Base THEN n - Base ELSE 0

Fault == faults < MaxFaults /\ faults' = faults + 1

-----------------------------------------------------------------------------
(* Requests *)

(* check_and_increment: lock the row, find or create the record of its     *)
(* period, add one unit; the free plan stops at its limit.  Nothing is     *)
(* visible to others until the request ends.                               *)
Reserve(c) ==
    /\ lock = Free
    /\ status \in {"ACTIVE", "PAST_DUE"}
    /\ count[period][c] < IF paid THEN MaxUsage ELSE FreeBase
    /\ lock' = Request
    /\ open' = [per |-> period, cat |-> c]
    /\ UNCHANGED <<subVars, recordVars, act, stripeVars, faults>>

(* The request's commit.                                                   *)
CommitRequest ==
    /\ lock = Request
    /\ exists' = exists \cup {open.per}
    /\ count' = [count EXCEPT ![open.per][open.cat] = @ + 1]
    /\ lock' = Free
    /\ open' = [per |-> 0, cat |-> 0]
    /\ UNCHANGED <<subVars, billed, reported, act, stripeVars, faults>>

(* The request fails and get_db_session rolls it back.                     *)
RollbackRequest ==
    /\ lock = Request
    /\ lock' = Free
    /\ open' = [per |-> 0, cat |-> 0]
    /\ UNCHANGED <<subVars, recordVars, act, stripeVars, faults>>

-----------------------------------------------------------------------------
(* Reporting *)

Reporting == {"bill", "created", "signup", "renewal", "deleted"}

(* Mutant: what was reported before is not taken off.                      *)
DeltaIgnoresWatermark(p, c) == Over(count[p][c])

(* calculate_unreported_overages, for one category.                        *)
Delta(p, c) ==
    IF Over(count[p][c]) > Over(reported[p][c])
    THEN Over(count[p][c]) - Over(reported[p][c])
    ELSE 0

(* Mutant: the key forgets the period.                                     *)
ItemKeyNoPeriod(p, c) == <<0, c, count[p][c]>>

(* The idempotency key: period, category and snapshot.                     *)
ItemKey(p, c) == <<p, c, count[p][c]>>

(* A report is made of an open record of a pay-as-you-go plan.             *)
Billable(a) ==
    LET s == act[a].seen IN s.paid /\ s.period \in exists /\ s.period \notin billed

(* Mutant: the last category is left out.                                  *)
DueButLast(a, k) == {c \in 1..k : c < k /\ Billable(a) /\ Delta(act[a].seen.period, c) > 0}

(* What is to be invoiced of the first k categories.                       *)
Due(a, k) == {c \in 1..k : Billable(a) /\ Delta(act[a].seen.period, c) > 0}

(* InvoiceItem.create for each; a key that Stripe knows adds nothing.      *)
CreateItems(a, k) ==
    LET p == act[a].seen.period
        new == {c \in Due(a, k) : ItemKey(p, c) \notin items}
    IN  /\ items' = items \cup {ItemKey(p, c) : c \in new}
        /\ charged' = [charged EXCEPT ![p] =
                         [c \in Categories |-> IF c \in new THEN @[c] + Delta(p, c) ELSE @[c]]]

(* update_reported_usage, when there was something to report.              *)
Watermark(a) ==
    IF lock = a /\ Due(a, NumCategories) # {}
    THEN [reported EXCEPT ![act[a].seen.period] = count[act[a].seen.period]]
    ELSE reported

-----------------------------------------------------------------------------
(* The hourly job *)

Become(a, w) == act' = [act EXCEPT ![a] = w]

(* dispatch_overage_billing finds the organization.                        *)
DispatchBill ==
    /\ act[Job].at = "idle"
    /\ paid
    /\ status = "ACTIVE"
    /\ Become(Job, [NoWork EXCEPT !.at = "queued"])
    /\ UNCHANGED <<subVars, recordVars, lock, open, stripeVars, faults>>

(* bill_single_org starts.                                                 *)
StartBill ==
    /\ act[Job].at = "queued"
    /\ Become(Job, [act[Job] EXCEPT !.at = "lock"])
    /\ UNCHANGED <<subVars, recordVars, lock, open, stripeVars, faults>>

-----------------------------------------------------------------------------
(* Webhook handlers *)

(* The order in which Stripe creates the events of one change.             *)
Rank(e) ==
    CASE e.type \in {"checkout", "created"} -> 1
      [] e.type \in {"signup", "failed"} -> 2
      [] e.type = "renewal" -> 3
      [] e.type = "updated" -> 4
      [] e.type = "deleted" -> 5

(* A delivery whose claim succeeded reads the subscription; an event of an *)
(* unknown subscription is done.                                           *)
StartHook(a, e) ==
    /\ act[a].at = "idle"
    /\ e \in pending
    /\ \A b \in Hooks : act[b].at = "idle" \/ act[b].ev # e
    /\ InOrder => \A f \in pending : Rank(e) <= Rank(f)
    /\ IF paid \/ e.type = "checkout"
       THEN /\ Become(a, [at |-> IF e.type \in Reporting THEN "lock" ELSE "apply",
                          ev |-> e, seen |-> Now])
            /\ UNCHANGED pending
       ELSE /\ pending' = pending \ {e}
            /\ UNCHANGED act
    /\ UNCHANGED <<subVars, recordVars, lock, open, items, charged, stripeNow, canceled, faults>>

(* Which handlers go on without the lock.                                  *)
GoesOnUnlocked(e) == e.type \in {"signup", "renewal", "deleted"}

(* try_acquire_overage_lock.  The job reads the subscription only now.     *)
TryLock(a) ==
    /\ act[a].at = "lock"
    /\ \/ /\ lock = Free
          /\ lock' = a
          /\ Become(a, [act[a] EXCEPT !.at = "report", !.seen = IF a = Job THEN Now ELSE @])
          /\ UNCHANGED pending
       \/ /\ Contended
          /\ lock # Free
          /\ GoesOnUnlocked(act[a].ev)
          /\ Become(a, [act[a] EXCEPT !.at = "apply"])
          /\ UNCHANGED <<lock, pending>>
       \/ /\ Contended
          /\ lock # Free
          /\ ~GoesOnUnlocked(act[a].ev)
          /\ Become(a, NoWork)
          /\ pending' = pending \ {act[a].ev}
          /\ UNCHANGED lock
    /\ UNCHANGED <<subVars, recordVars, open, items, charged, stripeNow, canceled, faults>>

(* report_overages_to_stripe up to its last call of Stripe.                *)
Report(a) ==
    /\ act[a].at = "report"
    /\ CreateItems(a, NumCategories)
    /\ Become(a, [act[a] EXCEPT !.at = "apply"])
    /\ UNCHANGED <<subVars, recordVars, lock, open, stripeNow, canceled, pending, faults>>

(* An exception ends the transaction: the locks and the writes are gone,   *)
(* the items created so far are not.  The job is queued again, the event   *)
(* is delivered again.                                                     *)
GiveUp(a) ==
    /\ Become(a, IF a = Job THEN [NoWork EXCEPT !.at = "queued"] ELSE NoWork)
    /\ lock' = IF lock = a THEN Free ELSE lock

ReportRaises(a, k) ==
    /\ act[a].at = "report"
    /\ Fault
    /\ CreateItems(a, k)
    /\ GiveUp(a)
    /\ UNCHANGED <<subVars, recordVars, open, stripeNow, canceled, pending>>

HandlerRaises(a) ==
    /\ act[a].at \in {"lock", "apply"}
    /\ Fault
    /\ GiveUp(a)
    /\ UNCHANGED <<subVars, recordVars, open, stripeVars>>

(* A column that is set to the value it was loaded with is not written.    *)
Write(new, loaded, current) == IF new = loaded THEN current ELSE new

(* The handlers that mark the record of the period they saw as billed.     *)
Closes(e) == e.type \in {"renewal", "deleted"}

(* The period the subscription is in after the handler's commit.           *)
NewPeriod(e, seen) ==
    CASE e.type \in {"signup", "renewal"} -> stripeNow
      [] e.type = "checkout" -> Write(stripeNow, seen.period, period)
      [] e.type = "updated" -> Write(e.per, seen.period, period)
      [] e.type = "deleted" -> HobbyAgain
      [] OTHER -> period

(* The commit, with everything before it that writes the database.  An     *)
(* update of the subscription row waits for the lock.  s is the status in  *)
(* a subscription.updated payload.                                         *)
Apply(a, s) ==
    LET e == act[a].ev
        seen == act[a].seen
        now == NewPeriod(e, seen)
    IN
    /\ act[a].at = "apply"
    /\ lock \in {Free, a}
    /\ reported' = Watermark(a)
    /\ billed' = IF Closes(e) /\ seen.period \in exists
                 THEN billed \cup {seen.period} ELSE billed
    /\ period' = now
    /\ exists' = IF e.type \in {"checkout", "signup", "renewal", "deleted"}
                 THEN exists \cup {now} ELSE exists
    /\ paid' = CASE e.type = "checkout" -> Write(TRUE, seen.paid, paid)
                 [] e.type = "deleted" -> FALSE
                 [] OTHER -> paid
    /\ status' = CASE e.type \in {"checkout", "signup", "renewal", "deleted"} ->
                            Write("ACTIVE", seen.status, status)
                   [] e.type = "failed" -> Write("PAST_DUE", seen.status, status)
                   [] e.type = "updated" -> Write(s, seen.status, status)
                   [] OTHER -> status
    /\ lock' = Free
    /\ Become(a, NoWork)
    /\ \/ pending' = pending \ {e} /\ UNCHANGED faults
       \/ a # Job /\ Fault /\ UNCHANGED pending  \* mark_completed is lost
    /\ UNCHANGED <<count, open, items, charged, stripeNow, canceled>>

-----------------------------------------------------------------------------
(* Stripe: a change happens a month after the last one, when the events of *)
(* the last one have been handled.                                         *)

Settled == pending = {} /\ \A b \in Hooks : act[b].at = "idle"

Emit(types, p) == pending' = {[type |-> t, per |-> p] : t \in types}

Subscribe ==
    /\ Settled
    /\ stripeNow = 0
    /\ stripeNow' = 1
    /\ Emit({"checkout", "signup"}, 1)
    /\ UNCHANGED <<subVars, recordVars, lock, open, act, items, charged, canceled, faults>>

Renew(alsoFails) ==
    /\ Settled
    /\ stripeNow \in 1..MaxPeriod - 1
    /\ ~canceled
    /\ stripeNow' = stripeNow + 1
    /\ Emit({"created", "renewal", "updated"} \cup (IF alsoFails THEN {"failed"} ELSE {}), stripeNow + 1)
    /\ UNCHANGED <<subVars, recordVars, lock, open, act, items, charged, canceled, faults>>

Cancel ==
    /\ Settled
    /\ stripeNow > 0
    /\ ~canceled
    /\ canceled' = TRUE
    /\ Emit({"deleted"}, stripeNow)
    /\ UNCHANGED <<subVars, recordVars, lock, open, act, items, charged, stripeNow, faults>>

Next ==
    \/ \E c \in Categories : Reserve(c)
    \/ CommitRequest \/ RollbackRequest
    \/ DispatchBill \/ StartBill
    \/ \E a \in Hooks, e \in Event : StartHook(a, e)
    \/ \E a \in Actors : TryLock(a) \/ Report(a) \/ HandlerRaises(a)
    \/ \E a \in Actors, k \in 0..NumCategories : ReportRaises(a, k)
    \/ \E a \in Actors, s \in SubscriptionStatus : Apply(a, s)
    \/ Subscribe \/ Cancel
    \/ \E f \in BOOLEAN : Renew(f)

Spec == Init /\ [][Next]_vars

-----------------------------------------------------------------------------
(* Properties *)

(* Whatever fails, overlaps or repeats, the watermark never runs ahead of  *)
(* Stripe: units the record calls reported have been invoiced.  Items are  *)
(* created before the watermark is written, their keys do not collide      *)
(* across periods and categories, and the lock keeps the snapshot still.   *)
WatermarkIsInvoiced ==
    \A p \in Periods, c \in Categories : charged[p][c] >= Over(reported[p][c])

(* While nothing fails, no unit is invoiced twice: the job and overlapping *)
(* webhooks together never invoice more than the overage.                  *)
InvoicedOnce ==
    faults = 0 => \A p \in Periods, c \in Categories : charged[p][c] <= Over(count[p][c])

(* A period that the subscription has left, or whose record is closed, has *)
(* all of its overage invoiced.                                            *)
NothingForfeited ==
    \A p \in StripePeriods : p \in billed \/ p # period =>
        \A c \in Categories : charged[p][c] >= Over(count[p][c])

(* The current period of a paying organization can still be billed.        *)
CurrentPeriodBillable == paid => period \notin billed

=============================================================================
