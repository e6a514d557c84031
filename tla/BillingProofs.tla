--------------------------- MODULE BillingProofs ----------------------------
(***************************************************************************)
(* Proofs about Billing and Subscriptions, for any number of categories,   *)
(* periods, concurrent webhooks and faults, and for events in any order;   *)
(* and about WebhookInbox, for any events, any number of overlapping       *)
(* deliveries and any number of faults.                                    *)
(***************************************************************************)
EXTENDS Subscriptions, WebhookInbox, SetSums

(* Who holds the lock is where only a holder can be, and a request that    *)
(* holds it has an increment open.                                         *)
LockShape ==
    /\ lock = Request => open \in [per : Periods, cat : Categories]
    /\ \A a \in Actors : lock = a => act[a].at \in {"report", "apply"}

TypeInv == TypeOK /\ LockShape

(* The constants that name periods are periods.                            *)
LEMMA PeriodFacts ==
    /\ 0 \in Periods
    /\ HobbyAgain \in Periods
    /\ 1 \in 0..MaxPeriod
    /\ 0..MaxPeriod \subseteq Periods
  BY BillingAssumption DEF Periods, HobbyAgain

(* The job, the request and the free lock differ from every webhook.       *)
LEMMA LockFacts ==
    /\ Job \in Actors
    /\ Request \notin Actors
    /\ Free \notin Actors
    /\ Request # Free
  BY BillingAssumption DEF Job, Request, Free, Actors

(* The overage of a count is a natural number.                             *)
LEMMA OverNat == ASSUME NEW n \in Nat PROVE Over(n) \in Nat
  BY BillingAssumption DEF Over

(* The initial state is well typed.                                        *)
LEMMA InitType == Init => TypeInv
<1> SUFFICES ASSUME Init PROVE TypeInv
  OBVIOUS
<1> USE BillingAssumption, PeriodFacts, LockFacts DEF Init
<1>1. NoWork \in Actor
  BY DEF NoWork, Actor, Seen, SubscriptionStatus, Bill
<1>2. NoUsage \in [Periods -> [Categories -> Nat]]
  BY DEF NoUsage
<1>3. TypeOK
  <2>1. act \in [Actors -> Actor]
    BY <1>1
  <2>2. /\ count \in [Periods -> [Categories -> Nat]]
        /\ reported \in [Periods -> [Categories -> Nat]]
        /\ charged \in [Periods -> [Categories -> Nat]]
    BY <1>2
  <2>3. stripeNow \in 0..MaxPeriod /\ faults \in 0..MaxFaults
    OBVIOUS
  <2> QED
    BY <2>1, <2>2, <2>3 DEF TypeOK, SubscriptionStatus
<1>4. LockShape
  BY DEF LockShape
<1> QED
  BY <1>3, <1>4 DEF TypeInv

(* An actor that is given new work is well typed.                          *)
LEMMA BecomeType ==
    ASSUME TypeOK, NEW a \in Actors, NEW w \in Actor, Become(a, w)
    PROVE  /\ act' \in [Actors -> Actor]
           /\ act' = [act EXCEPT ![a] = w]
  BY DEF TypeOK, Become

(* An unreported overage is a natural number.                              *)
LEMMA DeltaNat ==
    ASSUME TypeOK, NEW p \in Periods, NEW c \in Categories
    PROVE  Delta(p, c) \in Nat
  BY BillingAssumption DEF TypeOK, Delta, Over

(* Reporting keeps Stripe's side well typed.                               *)
LEMMA ItemsType ==
    ASSUME TypeOK, NEW a \in Actors, NEW k \in 0..NumCategories, CreateItems(a, k)
    PROVE  /\ items' \subseteq Periods \X Categories \X Nat
           /\ charged' \in [Periods -> [Categories -> Nat]]
<1> DEFINE p == act[a].seen.period
           new == {c \in Due(a, k) : ItemKey(p, c) \notin items}
<1>1. p \in Periods
  BY DEF TypeOK, Actor, Seen
<1>2. new \subseteq Categories
  BY BillingAssumption DEF Due, Categories
<1>3. \A c \in new : ItemKey(p, c) \in Periods \X Categories \X Nat
  BY <1>1, <1>2 DEF ItemKey, TypeOK
<1>4. [c \in Categories |-> IF c \in new THEN charged[p][c] + Delta(p, c) ELSE charged[p][c]]
        \in [Categories -> Nat]
  <2>1. \A c \in Categories : charged[p][c] \in Nat /\ Delta(p, c) \in Nat
    BY <1>1, DeltaNat DEF TypeOK
  <2> QED
    BY <2>1
<1>5. items' = items \cup {ItemKey(p, c) : c \in new}
  BY DEF CreateItems
<1>6. charged' = [charged EXCEPT ![p] =
         [c \in Categories |-> IF c \in new THEN charged[p][c] + Delta(p, c) ELSE charged[p][c]]]
  BY DEF CreateItems
<1>7. items' \subseteq Periods \X Categories \X Nat
  BY <1>3, <1>5 DEF TypeOK
<1> HIDE DEF new
<1>8. charged' \in [Periods -> [Categories -> Nat]]
  BY <1>1, <1>4, <1>6 DEF TypeOK
<1> QED
  BY <1>7, <1>8

(* A period that an event or the subscription names is a period.           *)
LEMMA NewPeriodType ==
    ASSUME TypeOK, NEW a \in Actors
    PROVE  NewPeriod(act[a].ev, act[a].seen) \in Periods
<1> USE PeriodFacts
<1>1. act[a].ev \in Event \cup {Bill} /\ period \in Periods /\ stripeNow \in Periods
  BY DEF TypeOK, Actor
<1>2. act[a].ev.type = "updated" => act[a].ev.per \in Periods
  BY <1>1 DEF Event, Bill
<1> QED
  BY <1>1, <1>2 DEF NewPeriod, Write

(* Every action preserves the type invariant.                              *)
LEMMA NextType == TypeInv /\ [Next]_vars => TypeInv'
<1> SUFFICES ASSUME TypeInv, [Next]_vars PROVE TypeInv'
  OBVIOUS
<1> USE BillingAssumption, LockFacts DEF TypeInv
<1>t. NoWork \in Actor /\ [NoWork EXCEPT !.at = "queued"] \in Actor
  BY PeriodFacts DEF NoWork, Actor, Seen, SubscriptionStatus, Bill
<1>n. Now \in Seen
  BY DEF TypeOK, Now, Seen
<1>1. ASSUME NEW c \in Categories, Reserve(c) PROVE TypeInv'
  BY <1>1 DEF Reserve, TypeOK, LockShape, subVars, recordVars, stripeVars
<1>2. CASE CommitRequest
  <2>1. open \in [per : Periods, cat : Categories]
    BY <1>2 DEF CommitRequest, LockShape
  <2>2. count' \in [Periods -> [Categories -> Nat]]
    BY <1>2, <2>1 DEF CommitRequest, TypeOK
  <2>3. exists' \subseteq Periods
    BY <1>2, <2>1 DEF CommitRequest, TypeOK
  <2> QED
    BY <1>2, <2>2, <2>3 DEF CommitRequest, TypeOK, LockShape, subVars, stripeVars
<1>3. CASE RollbackRequest
  BY <1>3 DEF RollbackRequest, TypeOK, LockShape, subVars, recordVars, stripeVars
<1>4. CASE DispatchBill
  <2>1. act' \in [Actors -> Actor] /\ act' = [act EXCEPT ![Job] = [NoWork EXCEPT !.at = "queued"]]
    BY <1>4, <1>t, BecomeType DEF DispatchBill
  <2> QED
    BY <1>4, <2>1 DEF DispatchBill, TypeOK, LockShape, subVars, recordVars, stripeVars
<1>5. CASE StartBill
  <2>0. [act[Job] EXCEPT !.at = "lock"] \in Actor
    BY DEF TypeOK, Actor
  <2>1. act' \in [Actors -> Actor] /\ act' = [act EXCEPT ![Job] = [act[Job] EXCEPT !.at = "lock"]]
    BY <1>5, <2>0, BecomeType DEF StartBill
  <2> QED
    BY <1>5, <2>1 DEF StartBill, TypeOK, LockShape, subVars, recordVars, stripeVars
<1>6. ASSUME NEW a \in Hooks, NEW e \in Event, StartHook(a, e) PROVE TypeInv'
  <2> DEFINE w == [at |-> IF e.type \in Reporting THEN "lock" ELSE "apply", ev |-> e, seen |-> Now]
  <2>a. a \in Actors
    BY DEF Actors
  <2>0. w \in Actor
    BY <1>n DEF Actor
  <2>1. act' \in [Actors -> Actor] /\ (act' = act \/ act' = [act EXCEPT ![a] = w])
    BY <1>6, <2>a, <2>0, BecomeType DEF StartHook, TypeOK
  <2>2. lock # a
    BY <1>6, <2>a DEF StartHook, LockShape
  <2>3. pending' \subseteq Event
    BY <1>6 DEF StartHook, TypeOK
  <2>4. TypeOK'
    BY <1>6, <2>1, <2>3 DEF StartHook, TypeOK, subVars, recordVars
  <2> HIDE DEF w
  <2>5. LockShape'
    BY <1>6, <2>1, <2>2, <2>a DEF StartHook, TypeOK, LockShape
  <2> QED
    BY <2>4, <2>5
<1>7. ASSUME NEW a \in Actors, TryLock(a) PROVE TypeInv'
  <2>0. PICK w \in Actor : /\ Become(a, w)
                          /\ \/ lock' = a /\ w.at = "report"
                             \/ lock' = lock
    <3>1. [act[a] EXCEPT !.at = "report", !.seen = IF a = Job THEN Now ELSE @] \in Actor
      BY <1>n DEF TypeOK, Actor
    <3>2. [act[a] EXCEPT !.at = "apply"] \in Actor
      BY DEF TypeOK, Actor
    <3>3. [act[a] EXCEPT !.at = "report", !.seen = IF a = Job THEN Now ELSE @].at = "report"
      BY DEF TypeOK, Actor
    <3> QED
      BY <1>7, <1>t, <3>1, <3>2, <3>3 DEF TryLock
  <2>1. act' \in [Actors -> Actor] /\ act' = [act EXCEPT ![a] = w]
    BY <2>0, BecomeType
  <2>2. lock # a /\ (lock' = a => act'[a].at = "report")
    <3>1. lock # a
      BY <1>7 DEF TryLock, LockShape
    <3> QED
      BY <2>0, <2>1, <3>1 DEF TypeOK
  <2>3. pending' \subseteq Event /\ lock' \in {a, lock}
    BY <1>7 DEF TryLock, TypeOK
  <2>4. TypeOK'
    BY <1>7, <2>1, <2>3 DEF TryLock, TypeOK, subVars, recordVars
  <2>5. LockShape'
    BY <1>7, <2>1, <2>2, <2>3 DEF TryLock, TypeOK, LockShape
  <2> QED
    BY <2>4, <2>5
<1>8. ASSUME NEW a \in Actors, Report(a) PROVE TypeInv'
  <2>0. [act[a] EXCEPT !.at = "apply"] \in Actor
    BY DEF TypeOK, Actor
  <2>1. act' \in [Actors -> Actor] /\ act' = [act EXCEPT ![a] = [act[a] EXCEPT !.at = "apply"]]
    BY <1>8, <2>0, BecomeType DEF Report
  <2>2. NumCategories \in 0..NumCategories /\ CreateItems(a, NumCategories)
    BY <1>8 DEF Report
  <2>3. /\ items' \subseteq Periods \X Categories \X Nat
        /\ charged' \in [Periods -> [Categories -> Nat]]
    BY <2>2, ItemsType
  <2>4. TypeOK'
    BY <1>8, <2>1, <2>3 DEF Report, TypeOK, subVars, recordVars
  <2>5. act[a].at = "report" /\ act'[a].at = "apply"
    BY <1>8, <2>1 DEF Report, TypeOK, Actor
  <2>6. LockShape'
    BY <1>8, <2>1, <2>5 DEF Report, TypeOK, LockShape
  <2> QED
    BY <2>4, <2>6
<1>9. ASSUME NEW a \in Actors, GiveUp(a), UNCHANGED <<subVars, recordVars, open>>
      PROVE  /\ act' \in [Actors -> Actor]
             /\ lock' \in Actors \cup {Request, Free}
             /\ LockShape'
  <2> DEFINE w == IF a = Job THEN [NoWork EXCEPT !.at = "queued"] ELSE NoWork
  <2>1. w \in Actor
    BY <1>t
  <2>2. act' \in [Actors -> Actor] /\ act' = [act EXCEPT ![a] = w]
    BY <1>9, <2>1, BecomeType DEF GiveUp
  <2>3. lock' # a /\ lock' \in {Free, lock}
    BY <1>9 DEF GiveUp
  <2> HIDE DEF w
  <2> QED
    BY <1>9, <2>2, <2>3 DEF TypeOK, LockShape
<1>10. ASSUME NEW a \in Actors, NEW k \in 0..NumCategories, ReportRaises(a, k) PROVE TypeInv'
  <2>1. /\ items' \subseteq Periods \X Categories \X Nat
        /\ charged' \in [Periods -> [Categories -> Nat]]
    BY <1>10, ItemsType DEF ReportRaises
  <2>2. GiveUp(a) /\ UNCHANGED <<subVars, recordVars, open>>
    BY <1>10 DEF ReportRaises
  <2> QED
    BY <1>9, <1>10, <2>1, <2>2 DEF ReportRaises, Fault, TypeOK, subVars, recordVars
<1>11. ASSUME NEW a \in Actors, HandlerRaises(a) PROVE TypeInv'
  <2>2. GiveUp(a) /\ UNCHANGED <<subVars, recordVars, open>>
    BY <1>11 DEF HandlerRaises
  <2> QED
    BY <1>9, <1>11, <2>2 DEF HandlerRaises, Fault, TypeOK, subVars, recordVars, stripeVars
<1>12. ASSUME NEW a \in Actors, NEW s \in SubscriptionStatus, Apply(a, s) PROVE TypeInv'
  <2>1. act' \in [Actors -> Actor] /\ act' = [act EXCEPT ![a] = NoWork]
    BY <1>12, <1>t, BecomeType DEF Apply
  <2>2. act[a].seen \in Seen /\ act[a].seen.period \in Periods
    BY DEF TypeOK, Actor, Seen
  <2>3. reported' \in [Periods -> [Categories -> Nat]]
    BY <1>12, <2>2 DEF Apply, Watermark, TypeOK
  <2>4. billed' \subseteq Periods
    BY <1>12, <2>2 DEF Apply, TypeOK
  <2>5. period' \in Periods /\ exists' \subseteq Periods
    BY <1>12, NewPeriodType DEF Apply, TypeOK
  <2>6. paid' \in BOOLEAN /\ status' \in SubscriptionStatus
    BY <1>12 DEF Apply, TypeOK, Write, SubscriptionStatus
  <2>7. pending' \subseteq Event /\ faults' \in 0..MaxFaults
    BY <1>12 DEF Apply, Fault, TypeOK
  <2>8. lock' = Free /\ UNCHANGED <<count, open, items, charged, stripeNow, canceled>>
    BY <1>12 DEF Apply
  <2>9. TypeOK'
    BY <2>1, <2>3, <2>4, <2>5, <2>6, <2>7, <2>8 DEF TypeOK
  <2> QED
    BY <2>8, <2>9 DEF LockShape
<1>13. CASE Subscribe
  <2>1. pending' \subseteq Event
    BY <1>13, PeriodFacts DEF Subscribe, Emit, Event, EventTypes
  <2>2. stripeNow' \in 0..MaxPeriod
    BY <1>13, PeriodFacts DEF Subscribe
  <2> QED
    BY <1>13, <2>1, <2>2 DEF Subscribe, TypeOK, LockShape, subVars, recordVars
<1>14. CASE Cancel
  <2>1. stripeNow \in Periods
    BY PeriodFacts DEF TypeOK
  <2>2. pending' \subseteq Event
    BY <1>14, <2>1 DEF Cancel, Emit, Event, EventTypes
  <2> QED
    BY <1>14, <2>2 DEF Cancel, TypeOK, LockShape, subVars, recordVars
<1>15. ASSUME NEW f \in BOOLEAN, Renew(f) PROVE TypeInv'
  <2>1. stripeNow + 1 \in 0..MaxPeriod /\ stripeNow + 1 \in Periods
    BY <1>15 DEF Renew, TypeOK, Periods
  <2>2. pending' \subseteq Event
    BY <1>15, <2>1 DEF Renew, Emit, Event, EventTypes
  <2> QED
    BY <1>15, <2>1, <2>2 DEF Renew, TypeOK, LockShape, subVars, recordVars
<1>16. CASE UNCHANGED vars
  BY <1>16 DEF vars, subVars, recordVars, stripeVars, TypeOK, LockShape
<1> QED
  BY <1>1, <1>2, <1>3, <1>4, <1>5, <1>6, <1>7, <1>8, <1>10, <1>11, <1>12, <1>13,
     <1>14, <1>15, <1>16
  DEF Next

(* Billing's states are well typed, for every value of the constants.      *)
THEOREM TypeCorrect == Spec => []TypeOK
<1>1. Spec => []TypeInv
  BY InitType, NextType, PTL DEF Spec
<1>2. TypeInv => TypeOK
  BY DEF TypeInv
<1> QED
  BY <1>1, <1>2, PTL

-----------------------------------------------------------------------------
(* The watermark *)

(* Units under an idempotency key that Stripe has seen are invoiced: this  *)
(* is why a repeated key may be skipped.                                   *)
KeysInvoiced ==
    \A p \in Periods, c \in Categories, n \in Nat :
        <<p, c, n>> \in items => charged[p][c] >= Over(n)

(* Between the report and its commit the lock keeps the snapshot still:    *)
(* what the watermark is about to claim is invoiced.                       *)
SnapshotInvoiced ==
    \A a \in Actors : lock = a /\ act[a].at = "apply" /\ Billable(a) =>
        \A c \in Categories :
            charged[act[a].seen.period][c] >= Over(count[act[a].seen.period][c])

WatermarkInv == TypeInv /\ KeysInvoiced /\ SnapshotInvoiced /\ WatermarkIsInvoiced

(* What reporting the first k categories does to Stripe's totals.          *)
LEMMA ItemsCharge ==
    ASSUME WatermarkInv, NEW a \in Actors, NEW k \in 0..NumCategories, CreateItems(a, k)
    PROVE  /\ \A q \in Periods, c \in Categories : charged'[q][c] >= charged[q][c]
           /\ \A c \in Due(a, k) :
                 charged'[act[a].seen.period][c] >= Over(count[act[a].seen.period][c])
           /\ \A q \in Periods, c \in Categories, n \in Nat :
                 <<q, c, n>> \in items' => charged'[q][c] >= Over(n)
<1> USE BillingAssumption DEF WatermarkInv, TypeInv
<1> DEFINE p == act[a].seen.period
           new == {c \in Due(a, k) : ItemKey(p, c) \notin items}
<1>1. p \in Periods /\ Due(a, k) \subseteq Categories
  <2>1. p \in Periods
    BY DEF TypeOK, Actor, Seen
  <2>2. 1..k \subseteq Categories
    BY DEF Categories
  <2> QED
    BY <2>1, <2>2 DEF Due
<1>2. items' = items \cup {ItemKey(p, c) : c \in new}
  BY DEF CreateItems
<1>3. \A q \in Periods, c \in Categories :
         charged'[q][c] = IF q = p /\ c \in new THEN charged[p][c] + Delta(p, c) ELSE charged[q][c]
  <2>1. charged' = [charged EXCEPT ![p] =
           [c \in Categories |-> IF c \in new THEN charged[p][c] + Delta(p, c) ELSE charged[p][c]]]
    BY DEF CreateItems
  <2> HIDE DEF new
  <2> QED
    BY <1>1, <2>1 DEF TypeOK
<1>4. \A q \in Periods, c \in Categories :
         /\ charged[q][c] \in Nat
         /\ count[q][c] \in Nat
         /\ Over(count[q][c]) \in Nat
         /\ Over(reported[q][c]) \in Nat
         /\ Delta(q, c) \in Nat
  BY OverNat, DeltaNat DEF TypeOK
<1>5. \A q \in Periods, c \in Categories : charged'[q][c] >= charged[q][c]
  <2> HIDE DEF new
  <2> QED
    BY <1>3, <1>4, <1>1
<1>6. ASSUME NEW c \in Due(a, k) PROVE charged'[p][c] >= Over(count[p][c])
  <2>1. c \in Categories
    BY <1>1
  <2>2. CASE ItemKey(p, c) \in items
    <3>1. charged[p][c] >= Over(count[p][c])
      BY <1>1, <1>4, <2>1, <2>2 DEF KeysInvoiced, ItemKey
    <3>2. charged'[p][c] = charged[p][c]
      BY <1>1, <1>3, <2>1, <2>2
    <3> QED
      BY <3>1, <3>2
  <2>3. CASE ItemKey(p, c) \notin items
    <3>1. charged'[p][c] = charged[p][c] + Delta(p, c)
      BY <1>1, <1>3, <2>1, <2>3
    <3>2. charged[p][c] >= Over(reported[p][c])
      BY <1>1, <2>1 DEF WatermarkIsInvoiced
    <3>3. Over(reported[p][c]) + Delta(p, c) >= Over(count[p][c])
      BY <1>1, <1>4, <2>1 DEF Delta
    <3> QED
      BY <1>1, <1>4, <2>1, <3>1, <3>2, <3>3
  <2> QED
    BY <2>2, <2>3
<1>7. ASSUME NEW q \in Periods, NEW c \in Categories, NEW n \in Nat, <<q, c, n>> \in items'
      PROVE  charged'[q][c] >= Over(n)
  <2>1. CASE <<q, c, n>> \in items
    <3>1. charged[q][c] >= Over(n)
      BY <2>1 DEF KeysInvoiced
    <3>2. charged'[q][c] >= charged[q][c] /\ charged[q][c] \in Nat /\ charged'[q][c] \in Nat
      BY <1>5, <1>4, ItemsType
    <3> QED
      BY <3>1, <3>2, OverNat
  <2>2. CASE <<q, c, n>> \notin items
    <3>1. PICK d \in new : <<q, c, n>> = ItemKey(p, d)
      BY <1>2, <1>7, <2>2
    <3>2. q = p /\ c = d /\ n = count[p][c]
      BY <3>1 DEF ItemKey
    <3> QED
      BY <1>6, <3>1, <3>2
  <2> QED
    BY <2>1, <2>2
<1> QED
  BY <1>5, <1>6, <1>7

(* No action lets the watermark run ahead.  Only a report moves Stripe's   *)
(* totals, only a commit under the lock moves the watermark, and while an  *)
(* actor holds the lock no request moves a counter.                        *)
LEMMA NextWatermark == WatermarkInv /\ [Next]_vars => WatermarkInv'
<1> SUFFICES ASSUME WatermarkInv, [Next]_vars PROVE WatermarkInv'
  OBVIOUS
<1> USE BillingAssumption, LockFacts
<1>a. TypeInv /\ TypeInv' /\ TypeOK /\ TypeOK'
  BY NextType DEF WatermarkInv, TypeInv
<1>b. \A a \in Actors : act[a].seen.period \in Periods /\ act'[a].seen.period \in Periods
  BY <1>a DEF TypeOK, Actor, Seen
<1>c. \A q \in Periods, c \in Categories :
         /\ charged[q][c] \in Nat /\ charged'[q][c] \in Nat
         /\ Over(count[q][c]) \in Nat /\ Over(reported[q][c]) \in Nat
  BY <1>a, OverNat DEF TypeOK
<1>q. ASSUME UNCHANGED <<items, charged, reported>> PROVE KeysInvoiced' /\ WatermarkIsInvoiced'
  BY <1>q DEF WatermarkInv, KeysInvoiced, WatermarkIsInvoiced
<1>s. ASSUME UNCHANGED <<exists, billed, count, charged>>,
             \A a \in Actors : lock' = a /\ act'[a].at = "apply" => lock = a /\ act'[a] = act[a]
      PROVE  SnapshotInvoiced'
  BY <1>s DEF WatermarkInv, SnapshotInvoiced, Billable
<1>f. ASSUME lock' = Free \/ lock' = Request PROVE SnapshotInvoiced'
  BY <1>f DEF SnapshotInvoiced
<1>1. ASSUME NEW c \in Categories, Reserve(c) PROVE WatermarkInv'
  BY <1>1, <1>a, <1>q, <1>f DEF Reserve, WatermarkInv, recordVars, stripeVars
<1>2. CASE CommitRequest
  BY <1>2, <1>a, <1>q, <1>f DEF CommitRequest, WatermarkInv, stripeVars
<1>3. CASE RollbackRequest
  BY <1>3, <1>a, <1>q, <1>f DEF RollbackRequest, WatermarkInv, recordVars, stripeVars
<1>4. CASE DispatchBill
  <2>1. \A a \in Actors : lock' = a /\ act'[a].at = "apply" => lock = a /\ act'[a] = act[a]
    BY <1>4, <1>a DEF DispatchBill, Become, NoWork, TypeOK
  <2> QED
    BY <1>4, <2>1, <1>a, <1>q, <1>s DEF DispatchBill, WatermarkInv, recordVars, stripeVars
<1>5. CASE StartBill
  <2>1. \A a \in Actors : lock' = a /\ act'[a].at = "apply" => lock = a /\ act'[a] = act[a]
    BY <1>5, <1>a DEF StartBill, Become, TypeOK, Actor
  <2> QED
    BY <1>5, <2>1, <1>a, <1>q, <1>s DEF StartBill, WatermarkInv, recordVars, stripeVars
<1>6. ASSUME NEW h \in Hooks, NEW e \in Event, StartHook(h, e) PROVE WatermarkInv'
  <2>1. h \in Actors /\ lock # h
    BY <1>6, <1>a DEF StartHook, TypeInv, LockShape, Actors
  <2>2. lock' = lock /\ \A a \in Actors : a # h => act'[a] = act[a]
    BY <1>6, <1>a DEF StartHook, Become, TypeOK
  <2> QED
    BY <1>6, <2>1, <2>2, <1>a, <1>q, <1>s DEF StartHook, WatermarkInv, recordVars
<1>7. ASSUME NEW h \in Actors, TryLock(h) PROVE WatermarkInv'
  <2>1. lock # h
    BY <1>7, <1>a DEF TryLock, TypeInv, LockShape
  <2>2. \A a \in Actors : a # h => act'[a] = act[a]
    BY <1>7, <1>a DEF TryLock, Become, TypeOK
  <2>3. (lock' = h /\ act'[h].at = "report") \/ lock' = lock
    <3> DEFINE w == [act[h] EXCEPT !.at = "report", !.seen = IF h = Job THEN Now ELSE @]
    <3>1. w.at = "report"
      BY <1>a DEF TypeOK, Actor
    <3>2. (lock' = h /\ act' = [act EXCEPT ![h] = w]) \/ lock' = lock
      BY <1>7 DEF TryLock, Become
    <3> HIDE DEF w
    <3> QED
      BY <1>a, <3>1, <3>2 DEF TypeOK
  <2>4. \A a \in Actors : lock' = a /\ act'[a].at = "apply" => lock = a /\ act'[a] = act[a]
    BY <2>1, <2>2, <2>3
  <2>5. UNCHANGED <<exists, billed, count, reported, items, charged>>
    BY <1>7 DEF TryLock, recordVars
  <2> QED
    BY <2>4, <2>5, <1>a, <1>q, <1>s DEF WatermarkInv
<1>8. ASSUME NEW h \in Actors, NEW k \in 0..NumCategories, CreateItems(h, k), reported' = reported
      PROVE  KeysInvoiced' /\ WatermarkIsInvoiced'
  <2>1. KeysInvoiced'
    BY <1>8, ItemsCharge DEF KeysInvoiced
  <2>2. \A q \in Periods, c \in Categories :
           charged'[q][c] >= charged[q][c] /\ charged[q][c] >= Over(reported[q][c])
    BY <1>8, ItemsCharge DEF WatermarkInv, WatermarkIsInvoiced
  <2>3. WatermarkIsInvoiced'
    BY <1>8, <1>c, <2>2 DEF WatermarkIsInvoiced
  <2> QED
    BY <2>1, <2>3
<1>9. ASSUME NEW h \in Actors, Report(h) PROVE WatermarkInv'
  <2>1. NumCategories \in 0..NumCategories /\ CreateItems(h, NumCategories)
    BY <1>9 DEF Report
  <2>2. KeysInvoiced' /\ WatermarkIsInvoiced'
    BY <1>8, <1>9, <2>1 DEF Report, recordVars
  <2>3. ASSUME NEW a \in Actors, lock' = a, act'[a].at = "apply", Billable(a)',
               NEW c \in Categories
        PROVE  (charged[act[a].seen.period][c] >= Over(count[act[a].seen.period][c]))'
    <3>1. act'[a].seen = act[a].seen /\ UNCHANGED <<exists, billed, count, reported, lock>>
      BY <1>9, <1>a DEF Report, Become, TypeOK, Actor, recordVars
    <3> DEFINE p == act[a].seen.period
    <3>2. Billable(a) /\ p \in Periods /\ act'[a].seen.period = p
      BY <2>3, <3>1, <1>b DEF Billable
    <3>3. charged'[p][c] >= charged[p][c]
      BY <2>1, <3>2, ItemsCharge
    <3>4. CASE a = h
      <4>1. CASE c \in Due(h, NumCategories)
        BY <2>1, <3>1, <3>2, <3>4, <4>1, ItemsCharge
      <4>2. CASE c \notin Due(h, NumCategories)
        <5>1. ~(Delta(p, c) > 0)
          BY <3>2, <3>4, <4>2 DEF Due, Categories
        <5>2. Over(reported[p][c]) >= Over(count[p][c])
          BY <5>1, <3>2, <1>c DEF Delta
        <5>3. charged[p][c] >= Over(reported[p][c])
          BY <3>2 DEF WatermarkInv, WatermarkIsInvoiced
        <5> QED
          BY <5>2, <5>3, <3>1, <3>2, <3>3, <1>c
      <4> QED
        BY <4>1, <4>2
    <3>5. CASE a # h
      <4>1. act'[a] = act[a] /\ lock = a
        BY <1>9, <2>3, <3>1, <3>5, <1>a DEF Report, Become, TypeOK
      <4>2. charged[p][c] >= Over(count[p][c])
        BY <2>3, <3>2, <4>1 DEF WatermarkInv, SnapshotInvoiced
      <4> QED
        BY <3>1, <3>2, <3>3, <4>2, <1>c
    <3> QED
      BY <3>4, <3>5
  <2>4. SnapshotInvoiced'
    BY <2>3 DEF SnapshotInvoiced
  <2> QED
    BY <1>a, <2>2, <2>4 DEF WatermarkInv
<1>10. ASSUME NEW h \in Actors, GiveUp(h), UNCHANGED recordVars,
              \A q \in Periods, c \in Categories : charged'[q][c] >= charged[q][c]
       PROVE  SnapshotInvoiced'
  <2>1. \A a \in Actors : lock' = a => a # h /\ lock = a /\ act'[a] = act[a]
    BY <1>10, <1>a DEF GiveUp, Become, TypeOK
  <2> SUFFICES ASSUME NEW a \in Actors, lock' = a, act'[a].at = "apply", Billable(a)',
                      NEW c \in Categories
               PROVE  (charged[act[a].seen.period][c] >= Over(count[act[a].seen.period][c]))'
    BY DEF SnapshotInvoiced
  <2> DEFINE p == act[a].seen.period
  <2>2. act'[a] = act[a] /\ Billable(a) /\ UNCHANGED count /\ p \in Periods
    BY <1>10, <2>1, <1>b DEF Billable, recordVars
  <2>3. charged[p][c] >= Over(count[p][c])
    BY <2>1, <2>2 DEF WatermarkInv, SnapshotInvoiced
  <2>4. charged'[p][c] >= charged[p][c]
    BY <1>10, <2>2
  <2> QED
    BY <2>2, <2>3, <2>4, <1>c
<1>11. ASSUME NEW h \in Actors, NEW k \in 0..NumCategories, ReportRaises(h, k) PROVE WatermarkInv'
  <2>1. \A q \in Periods, c \in Categories : charged'[q][c] >= charged[q][c]
    BY <1>11, ItemsCharge DEF ReportRaises
  <2>2. KeysInvoiced' /\ WatermarkIsInvoiced'
    BY <1>8, <1>11 DEF ReportRaises, recordVars
  <2>3. SnapshotInvoiced'
    BY <1>10, <1>11, <2>1 DEF ReportRaises
  <2> QED
    BY <1>a, <2>2, <2>3 DEF WatermarkInv
<1>12. ASSUME NEW h \in Actors, HandlerRaises(h) PROVE WatermarkInv'
  <2>1. \A q \in Periods, c \in Categories : charged'[q][c] >= charged[q][c]
    BY <1>12, <1>c DEF HandlerRaises, stripeVars
  <2>2. SnapshotInvoiced'
    BY <1>10, <1>12, <2>1 DEF HandlerRaises
  <2> QED
    BY <1>a, <1>q, <1>12, <2>2 DEF HandlerRaises, WatermarkInv, recordVars, stripeVars
<1>13. ASSUME NEW h \in Actors, NEW s \in SubscriptionStatus, Apply(h, s) PROVE WatermarkInv'
  <2>1. reported' = Watermark(h) /\ UNCHANGED <<items, charged, count>> /\ lock' = Free
    BY <1>13 DEF Apply
  <2>2. SnapshotInvoiced'
    BY <2>1, <1>f
  <2>3. KeysInvoiced'
    BY <2>1 DEF WatermarkInv, KeysInvoiced
  <2>4. WatermarkIsInvoiced'
    <3> DEFINE p == act[h].seen.period
    <3>1. CASE lock = h /\ Due(h, NumCategories) # {}
      <4>1. Billable(h) /\ p \in Periods
        BY <3>1, <1>b DEF Due
      <4>2. \A c \in Categories : charged[p][c] >= Over(count[p][c])
        BY <1>13, <3>1, <4>1 DEF Apply, WatermarkInv, SnapshotInvoiced
      <4>3. reported' = [reported EXCEPT ![p] = count[p]]
        BY <2>1, <3>1 DEF Watermark
      <4> QED
        BY <2>1, <4>1, <4>2, <4>3, <1>a DEF WatermarkInv, WatermarkIsInvoiced, TypeOK
    <3>2. CASE ~(lock = h /\ Due(h, NumCategories) # {})
      BY <2>1, <3>2 DEF Watermark, WatermarkInv, WatermarkIsInvoiced
    <3> QED
      BY <3>1, <3>2
  <2> QED
    BY <1>a, <2>2, <2>3, <2>4 DEF WatermarkInv
<1>14. ASSUME UNCHANGED <<exists, billed, count, reported, lock, act, items, charged>>
       PROVE  WatermarkInv'
  BY <1>14, <1>a, <1>q, <1>s DEF WatermarkInv
<1>15. CASE Subscribe
  BY <1>14, <1>15 DEF Subscribe, recordVars
<1>16. CASE Cancel
  BY <1>14, <1>16 DEF Cancel, recordVars
<1>17. ASSUME NEW f \in BOOLEAN, Renew(f) PROVE WatermarkInv'
  BY <1>14, <1>17 DEF Renew, recordVars
<1>18. CASE UNCHANGED vars
  BY <1>14, <1>18 DEF vars, recordVars, stripeVars
<1> QED
  BY <1>1, <1>2, <1>3, <1>4, <1>5, <1>6, <1>7, <1>9, <1>11, <1>12, <1>13,
     <1>15, <1>16, <1>17, <1>18
  DEF Next

(* For any number of categories, webhooks, faults and periods, and events  *)
(* in any order, the units that a usage record calls reported have been    *)
(* invoiced at Stripe.                                                     *)
THEOREM WatermarkCorrect == Spec => []WatermarkIsInvoiced
<1>1. Init => WatermarkInv
  <2> SUFFICES ASSUME Init PROVE WatermarkInv
    OBVIOUS
  <2>1. TypeInv
    BY InitType
  <2>2. KeysInvoiced /\ SnapshotInvoiced
    BY LockFacts DEF Init, KeysInvoiced, SnapshotInvoiced
  <2>3. WatermarkIsInvoiced
    BY BillingAssumption DEF Init, WatermarkIsInvoiced, NoUsage, Over
  <2> QED
    BY <2>1, <2>2, <2>3 DEF WatermarkInv
<1>2. WatermarkInv => WatermarkIsInvoiced
  BY DEF WatermarkInv
<1> QED
  BY <1>1, <1>2, NextWatermark, PTL DEF Spec

-----------------------------------------------------------------------------
(* No unit twice *)

(* A report is made under the lock.                                        *)
ReportLocked == \A a \in Actors : act[a].at = "report" => lock = a

(* No record calls more units reported than it has counted.                *)
ReportedBelow == \A p \in Periods, c \in Categories : reported[p][c] <= count[p][c]

(* The actor that is between its report of period p and the commit.        *)
Reported(a, p) == lock = a /\ act[a].at = "apply" /\ act[a].seen.period = p /\ Billable(a)

(* Stripe's total is exactly what the watermark says, or what the holder   *)
(* of the lock is about to make it say.                                    *)
ExactTotals ==
    \A p \in Periods, c \in Categories :
        \/ charged[p][c] = Over(reported[p][c])
        \/ charged[p][c] = Over(count[p][c]) /\ \E a \in Actors : Reported(a, p)

OnceInv == WatermarkInv /\ ReportLocked /\ ReportedBelow /\ (faults = 0 => ExactTotals)

(* The overage grows with the count.                                       *)
LEMMA OverMonotone ==
    ASSUME NEW m \in Nat, NEW n \in Nat, m <= n PROVE Over(m) <= Over(n)
  BY BillingAssumption DEF Over

(* A category without a delta has nothing left to report.                  *)
LEMMA NoDelta ==
    ASSUME OnceInv, NEW p \in Periods, NEW c \in Categories, ~(Delta(p, c) > 0)
    PROVE  Over(reported[p][c]) = Over(count[p][c])
<1>1. reported[p][c] \in Nat /\ count[p][c] \in Nat /\ reported[p][c] <= count[p][c]
  BY DEF OnceInv, WatermarkInv, TypeInv, TypeOK, ReportedBelow
<1>2. Over(reported[p][c]) <= Over(count[p][c])
  BY <1>1, OverMonotone
<1>3. Over(reported[p][c]) \in Nat /\ Over(count[p][c]) \in Nat
  BY <1>1, OverNat
<1> QED
  BY <1>2, <1>3 DEF Delta

(* A complete report that nothing preceded brings the totals of its period *)
(* to the overage and leaves the others alone.                             *)
LEMMA ReportIsExact ==
    ASSUME OnceInv, NEW a \in Actors, Report(a), faults = 0
    PROVE  \A q \in Periods, c \in Categories :
              IF q = act[a].seen.period /\ Billable(a)
              THEN charged'[q][c] = Over(count[q][c])
              ELSE charged'[q][c] = Over(reported[q][c])
<1> USE BillingAssumption
<1> DEFINE p == act[a].seen.period
           new == {c \in Due(a, NumCategories) : ItemKey(p, c) \notin items}
<1>a. TypeOK /\ p \in Periods
  BY DEF OnceInv, WatermarkInv, TypeInv, TypeOK, Actor, Seen
<1>1. lock = a /\ act[a].at = "report"
  BY DEF OnceInv, ReportLocked, Report
<1>2. \A q \in Periods, c \in Categories : charged[q][c] = Over(reported[q][c])
  <2>1. \A q \in Periods, b \in Actors : ~Reported(b, q)
    BY <1>1 DEF Reported
  <2> QED
    BY <2>1 DEF OnceInv, ExactTotals
<1>3. \A q \in Periods, c \in Categories :
         charged'[q][c] = IF q = p /\ c \in new THEN charged[p][c] + Delta(p, c) ELSE charged[q][c]
  <2>1. charged' = [charged EXCEPT ![p] =
           [c \in Categories |-> IF c \in new THEN charged[p][c] + Delta(p, c) ELSE charged[p][c]]]
    BY DEF Report, CreateItems
  <2> HIDE DEF new
  <2> QED
    BY <1>a, <2>1 DEF TypeOK
<1>4. \A q \in Periods, c \in Categories :
         Over(count[q][c]) \in Nat /\ Over(reported[q][c]) \in Nat /\ count[q][c] \in Nat
  BY <1>a, OverNat DEF TypeOK
<1>5. ASSUME NEW c \in Categories, Billable(a) PROVE charged'[p][c] = Over(count[p][c])
  <2>1. CASE ~(Delta(p, c) > 0)
    <3>1. c \notin new
      BY <2>1 DEF Due
    <3>2. Over(reported[p][c]) = Over(count[p][c])
      BY <2>1, <1>a, NoDelta
    <3> QED
      BY <1>2, <1>3, <1>a, <3>1, <3>2
  <2>2. CASE Delta(p, c) > 0
    <3>1. Over(count[p][c]) > Over(reported[p][c])
          /\ Delta(p, c) = Over(count[p][c]) - Over(reported[p][c])
      BY <2>2, <1>a, <1>4 DEF Delta
    <3>2. ItemKey(p, c) \notin items
      <4>1. ItemKey(p, c) \in items => charged[p][c] >= Over(count[p][c])
        BY <1>a, <1>4 DEF OnceInv, WatermarkInv, KeysInvoiced, ItemKey
      <4> QED
        BY <4>1, <3>1, <1>2, <1>4, <1>a
    <3>3. c \in new
      BY <3>2, <2>2, <1>5 DEF Due, Categories
    <3>4. charged'[p][c] = Over(reported[p][c]) + Delta(p, c)
      BY <1>2, <1>3, <1>a, <3>3
    <3> QED
      BY <3>1, <3>4, <1>4, <1>a
  <2> QED
    BY <2>1, <2>2
<1>6. ASSUME NEW q \in Periods, NEW c \in Categories, ~(q = p /\ Billable(a))
      PROVE  charged'[q][c] = Over(reported[q][c])
  <2>1. ~(q = p /\ c \in new)
    BY <1>6 DEF Due
  <2> QED
    BY <2>1, <1>2, <1>3
<1> QED
  BY <1>5, <1>6

(* Every action preserves the exact totals, as long as nothing fails.      *)
LEMMA NextOnce == OnceInv /\ [Next]_vars => OnceInv'
<1> SUFFICES ASSUME OnceInv, [Next]_vars PROVE OnceInv'
  OBVIOUS
<1> USE BillingAssumption, LockFacts
<1>a. WatermarkInv /\ WatermarkInv' /\ TypeOK /\ TypeOK'
  BY NextWatermark DEF OnceInv, WatermarkInv, TypeInv
<1>b. \A a \in Actors : act[a].seen.period \in Periods
  BY <1>a DEF TypeOK, Actor, Seen
<1>u. ASSUME UNCHANGED <<count, reported>> PROVE ReportedBelow'
  BY <1>u DEF OnceInv, ReportedBelow
<1>n. faults \in Nat
  BY <1>a DEF TypeOK
<1>s. ASSUME UNCHANGED <<exists, billed, count, reported, charged, faults>>,
             \A a \in Actors : lock = a /\ act[a].at = "apply" => lock' = a /\ act'[a] = act[a]
      PROVE  faults' = 0 => ExactTotals'
  BY <1>s DEF OnceInv, ExactTotals, Reported, Billable
<1>f. ASSUME lock = Free \/ lock = Request, faults = 0
      PROVE  \A q \in Periods, c \in Categories : charged[q][c] = Over(reported[q][c])
  BY <1>f DEF OnceInv, ExactTotals, Reported
<1>1. ASSUME NEW c \in Categories, Reserve(c) PROVE OnceInv'
  <2>1. ReportLocked'
    BY <1>1 DEF Reserve, OnceInv, ReportLocked
  <2>2. faults' = 0 => ExactTotals'
    BY <1>1, <1>f DEF Reserve, ExactTotals, recordVars, stripeVars
  <2> QED
    BY <1>1, <1>a, <1>u, <2>1, <2>2 DEF Reserve, OnceInv, recordVars
<1>2. CASE CommitRequest
  <2>1. ReportLocked'
    BY <1>2 DEF CommitRequest, OnceInv, ReportLocked
  <2>2. faults' = 0 => ExactTotals'
    BY <1>2, <1>f DEF CommitRequest, ExactTotals, stripeVars
  <2>3. open \in [per : Periods, cat : Categories]
    BY <1>2, <1>a DEF CommitRequest, WatermarkInv, TypeInv, LockShape
  <2>4. \A q \in Periods, c \in Categories :
           count'[q][c] >= count[q][c] /\ count'[q][c] \in Nat /\ count[q][c] \in Nat
           /\ reported[q][c] \in Nat
    BY <1>2, <1>a, <2>3 DEF CommitRequest, TypeOK
  <2>5. ReportedBelow'
    BY <1>2, <2>4 DEF CommitRequest, OnceInv, ReportedBelow
  <2> QED
    BY <1>a, <2>1, <2>2, <2>5 DEF OnceInv
<1>3. CASE RollbackRequest
  <2>1. ReportLocked'
    BY <1>3 DEF RollbackRequest, OnceInv, ReportLocked
  <2>2. faults' = 0 => ExactTotals'
    BY <1>3, <1>f DEF RollbackRequest, ExactTotals, recordVars, stripeVars
  <2> QED
    BY <1>3, <1>a, <1>u, <2>1, <2>2 DEF RollbackRequest, OnceInv, recordVars
<1>4. ASSUME NEW h \in Actors, act[h].at \in {"idle", "queued"}, act'[h].at # "report",
             \A a \in Actors : a # h => act'[a] = act[a],
             UNCHANGED <<recordVars, lock, charged, faults>>
      PROVE  OnceInv'
  <2>1. ReportLocked'
    BY <1>4 DEF OnceInv, ReportLocked
  <2>2. \A a \in Actors : lock = a /\ act[a].at = "apply" => lock' = a /\ act'[a] = act[a]
    BY <1>4
  <2>3. UNCHANGED <<exists, billed, count, reported, charged, faults>>
    BY <1>4 DEF recordVars
  <2> QED
    BY <1>a, <1>u, <1>s, <2>1, <2>2, <2>3 DEF OnceInv
<1>5. CASE DispatchBill
  <2>1. act' = [act EXCEPT ![Job] = [NoWork EXCEPT !.at = "queued"]]
    BY <1>5 DEF DispatchBill, Become
  <2>2. act'[Job].at = "queued" /\ \A a \in Actors : a # Job => act'[a] = act[a]
    BY <1>a, <2>1 DEF TypeOK, NoWork
  <2> QED
    BY <1>4, <1>5, <2>2 DEF DispatchBill, stripeVars
<1>6. CASE StartBill
  <2>1. act' = [act EXCEPT ![Job] = [act[Job] EXCEPT !.at = "lock"]]
    BY <1>6 DEF StartBill, Become
  <2>2. act'[Job].at = "lock" /\ \A a \in Actors : a # Job => act'[a] = act[a]
    BY <1>a, <2>1 DEF TypeOK, Actor
  <2> QED
    BY <1>4, <1>6, <2>2 DEF StartBill, stripeVars
<1>7. ASSUME NEW h \in Hooks, NEW e \in Event, StartHook(h, e) PROVE OnceInv'
  <2> DEFINE w == [at |-> IF e.type \in Reporting THEN "lock" ELSE "apply", ev |-> e, seen |-> Now]
  <2>1. h \in Actors /\ w.at # "report"
    BY DEF Actors
  <2>2. act' = act \/ act' = [act EXCEPT ![h] = w]
    BY <1>7 DEF StartHook, Become
  <2>3. act[h].at = "idle"
    BY <1>7 DEF StartHook
  <2> HIDE DEF w
  <2>4. act'[h].at # "report" /\ \A a \in Actors : a # h => act'[a] = act[a]
    BY <1>a, <2>1, <2>2, <2>3 DEF TypeOK
  <2> QED
    BY <1>4, <1>7, <2>1, <2>3, <2>4 DEF StartHook
<1>8. ASSUME NEW h \in Actors, TryLock(h) PROVE OnceInv'
  <2>1. /\ act[h].at = "lock"
        /\ UNCHANGED <<exists, billed, count, reported, charged, faults>>
        /\ \A a \in Actors : a # h => act'[a] = act[a]
    BY <1>8, <1>a DEF TryLock, Become, TypeOK, recordVars
  <2>2. lock # h
    BY <1>a, <2>1 DEF WatermarkInv, TypeInv, LockShape
  <2>3. (lock = Free /\ lock' = h) \/ (lock' = lock /\ act'[h].at # "report")
    <3>1. CASE lock = Free /\ lock' = h
      BY <3>1
    <3>2. CASE Become(h, [act[h] EXCEPT !.at = "apply"]) /\ UNCHANGED lock
      BY <1>a, <3>2 DEF Become, TypeOK, Actor
    <3>3. CASE Become(h, NoWork) /\ UNCHANGED lock
      BY <1>a, <3>3 DEF Become, TypeOK, NoWork
    <3> QED
      BY <1>8, <3>1, <3>2, <3>3 DEF TryLock
  <2>4. ReportLocked'
    BY <2>1, <2>3 DEF OnceInv, ReportLocked
  <2>5. \A a \in Actors : lock = a /\ act[a].at = "apply" => lock' = a /\ act'[a] = act[a]
    BY <2>1, <2>2, <2>3
  <2> QED
    BY <1>a, <1>u, <1>s, <2>1, <2>4, <2>5 DEF OnceInv
<1>9. ASSUME NEW h \in Actors, Report(h) PROVE OnceInv'
  <2>1. /\ lock = h
        /\ UNCHANGED <<exists, billed, count, reported, lock, faults>>
        /\ act' = [act EXCEPT ![h] = [act[h] EXCEPT !.at = "apply"]]
    BY <1>9 DEF Report, Become, recordVars, OnceInv, ReportLocked
  <2>2. /\ act'[h].at = "apply"
        /\ act'[h].seen = act[h].seen
        /\ \A a \in Actors : a # h => act'[a] = act[a]
    BY <1>a, <2>1 DEF TypeOK, Actor
  <2>3. ReportLocked'
    BY <2>1, <2>2 DEF OnceInv, ReportLocked
  <2>4. Billable(h) => Reported(h, act[h].seen.period)'
    BY <2>1, <2>2 DEF Reported, Billable
  <2>5. faults = 0 => ExactTotals'
    BY <1>9, <2>1, <2>4, ReportIsExact DEF ExactTotals
  <2> QED
    BY <1>a, <1>u, <2>1, <2>3, <2>5 DEF OnceInv
<1>10. ASSUME NEW h \in Actors, GiveUp(h), Fault, UNCHANGED recordVars PROVE OnceInv'
  <2>1. act'[h].at # "report" /\ \A a \in Actors : a # h => act'[a] = act[a]
    <3>1. act' = [act EXCEPT ![h] = IF h = Job THEN [NoWork EXCEPT !.at = "queued"] ELSE NoWork]
      BY <1>10 DEF GiveUp, Become
    <3>2. NoWork.at = "idle" /\ [NoWork EXCEPT !.at = "queued"].at = "queued"
      BY DEF NoWork
    <3> QED
      BY <1>a, <3>1, <3>2 DEF TypeOK
  <2>2. ReportLocked'
    BY <1>10, <2>1 DEF GiveUp, OnceInv, ReportLocked
  <2>3. faults' # 0
    BY <1>10, <1>n DEF Fault
  <2> QED
    BY <1>a, <1>u, <1>10, <2>2, <2>3 DEF OnceInv, recordVars
<1>11. ASSUME NEW h \in Actors, NEW k \in 0..NumCategories, ReportRaises(h, k) PROVE OnceInv'
  BY <1>10, <1>11 DEF ReportRaises
<1>12. ASSUME NEW h \in Actors, HandlerRaises(h) PROVE OnceInv'
  BY <1>10, <1>12 DEF HandlerRaises
<1>13. ASSUME NEW h \in Actors, NEW s \in SubscriptionStatus, Apply(h, s) PROVE OnceInv'
  <2> DEFINE p == act[h].seen.period
  <2>1. /\ act[h].at = "apply" /\ lock \in {Free, h}
        /\ reported' = Watermark(h) /\ UNCHANGED <<count, charged>> /\ lock' = Free
        /\ act' = [act EXCEPT ![h] = NoWork]
    BY <1>13 DEF Apply, Become
  <2>2. ReportLocked'
    <3>1. act'[h].at = "idle" /\ \A a \in Actors : a # h => act'[a] = act[a]
      BY <1>a, <2>1 DEF TypeOK, NoWork
    <3> QED
      BY <2>1, <3>1 DEF OnceInv, ReportLocked
  <2>3. ReportedBelow'
    <3>1. CASE lock = h /\ Due(h, NumCategories) # {}
      <4>1. reported' = [reported EXCEPT ![p] = count[p]] /\ p \in Periods
        BY <2>1, <3>1, <1>b DEF Watermark
      <4> QED
        BY <2>1, <4>1, <1>a DEF OnceInv, ReportedBelow, TypeOK
    <3>2. CASE ~(lock = h /\ Due(h, NumCategories) # {})
      BY <2>1, <3>2, <1>u DEF Watermark
    <3> QED
      BY <3>1, <3>2
  <2>4. faults' = 0 => faults = 0
    BY <1>13, <1>n DEF Apply, Fault
  <2>5. ASSUME faults = 0 PROVE ExactTotals'
    <3>1. \A a \in Actors, q \in Periods : Reported(a, q) => a = h /\ lock = h /\ q = p /\ Billable(h)
      BY <2>1 DEF Reported
    <3>2. ASSUME NEW q \in Periods, NEW c \in Categories PROVE charged[q][c] = Over(reported'[q][c])
      <4>1. CASE lock = h /\ Due(h, NumCategories) # {}
        <5>1. reported' = [reported EXCEPT ![p] = count[p]] /\ p \in Periods
          BY <2>1, <4>1, <1>b DEF Watermark
        <5>2. Billable(h)
          BY <4>1 DEF Due
        <5>3. CASE q = p
          <6>1. reported'[q][c] = count[q][c]
            BY <5>1, <5>3, <1>a DEF TypeOK
          <6>2. charged[q][c] = Over(reported[q][c]) => charged[q][c] = Over(count[q][c])
            <7>1. charged[q][c] >= Over(count[q][c])
              BY <2>1, <4>1, <5>2, <5>3, <1>a DEF WatermarkInv, SnapshotInvoiced
            <7>2. Over(reported[q][c]) <= Over(count[q][c])
              BY OverMonotone, <1>a DEF OnceInv, ReportedBelow, TypeOK
            <7>3. Over(reported[q][c]) \in Nat /\ Over(count[q][c]) \in Nat
              BY OverNat, <1>a DEF TypeOK
            <7> QED
              BY <7>1, <7>2, <7>3
          <6>3. charged[q][c] = Over(count[q][c])
            BY <6>2, <2>5 DEF OnceInv, ExactTotals
          <6> QED
            BY <6>1, <6>3
        <5>4. CASE q # p
          BY <3>1, <5>1, <5>4, <2>5, <1>a DEF OnceInv, ExactTotals, TypeOK
        <5> QED
          BY <5>3, <5>4
      <4>2. CASE ~(lock = h /\ Due(h, NumCategories) # {})
        <5>1. reported' = reported
          BY <2>1, <4>2 DEF Watermark
        <5>2. CASE charged[q][c] = Over(reported[q][c])
          BY <5>1, <5>2
        <5>3. CASE charged[q][c] = Over(count[q][c]) /\ \E a \in Actors : Reported(a, q)
          <6>1. lock = h /\ q = p /\ Billable(h)
            BY <3>1, <5>3
          <6>2. ~(Delta(q, c) > 0)
            BY <4>2, <6>1 DEF Due, Categories
          <6> QED
            BY <5>1, <5>3, <6>2, NoDelta
        <5> QED
          BY <5>2, <5>3, <2>5 DEF OnceInv, ExactTotals
      <4> QED
        BY <4>1, <4>2
    <3> QED
      BY <2>1, <3>2 DEF ExactTotals
  <2> QED
    BY <1>a, <2>2, <2>3, <2>4, <2>5 DEF OnceInv
<1>14. ASSUME UNCHANGED <<exists, billed, count, reported, lock, act, charged, faults>>
       PROVE  OnceInv'
  <2>1. ReportLocked'
    BY <1>14 DEF OnceInv, ReportLocked
  <2> QED
    BY <1>14, <1>a, <1>u, <1>s, <2>1 DEF OnceInv
<1>15. CASE Subscribe
  BY <1>14, <1>15 DEF Subscribe, recordVars
<1>16. CASE Cancel
  BY <1>14, <1>16 DEF Cancel, recordVars
<1>17. ASSUME NEW f \in BOOLEAN, Renew(f) PROVE OnceInv'
  BY <1>14, <1>17 DEF Renew, recordVars
<1>18. CASE UNCHANGED vars
  BY <1>14, <1>18 DEF vars, recordVars, stripeVars
<1> QED
  BY <1>1, <1>2, <1>3, <1>5, <1>6, <1>7, <1>8, <1>9, <1>11, <1>12, <1>13,
     <1>15, <1>16, <1>17, <1>18
  DEF Next

(* The initial state is exact.                                             *)
LEMMA InitOnce == Init => OnceInv
<1> SUFFICES ASSUME Init PROVE OnceInv
  OBVIOUS
<1> USE BillingAssumption, LockFacts DEF Init
<1>1. TypeInv
  BY InitType
<1>2. KeysInvoiced /\ SnapshotInvoiced
  BY DEF KeysInvoiced, SnapshotInvoiced
<1>3. WatermarkIsInvoiced /\ ExactTotals /\ ReportedBelow
  BY DEF WatermarkIsInvoiced, ExactTotals, ReportedBelow, NoUsage, Over
<1>4. ReportLocked
  BY DEF ReportLocked, NoWork
<1> QED
  BY <1>1, <1>2, <1>3, <1>4 DEF OnceInv, WatermarkInv

(* While nothing fails, Stripe has no unit twice that was counted once.    *)
LEMMA OnceImplies == OnceInv => InvoicedOnce
<1> SUFFICES ASSUME OnceInv, faults = 0, NEW p \in Periods, NEW c \in Categories
             PROVE  charged[p][c] <= Over(count[p][c])
  BY DEF InvoicedOnce
<1>1. reported[p][c] \in Nat /\ count[p][c] \in Nat /\ reported[p][c] <= count[p][c]
  BY DEF OnceInv, WatermarkInv, TypeInv, TypeOK, ReportedBelow
<1>2. Over(reported[p][c]) <= Over(count[p][c]) /\ Over(count[p][c]) \in Nat
  BY <1>1, OverMonotone, OverNat
<1> QED
  BY <1>2 DEF OnceInv, ExactTotals

(* While nothing fails, the hourly job and any number of overlapping       *)
(* webhooks never invoice a unit twice.                                    *)
THEOREM InvoicedOnceCorrect == Spec => []InvoicedOnce
  BY InitOnce, OnceImplies, NextOnce, PTL DEF Spec

-----------------------------------------------------------------------------
(* The whole life of a subscription: what was shown of Billing holds when  *)
(* free months follow one another                                          *)

(* A step of Subscriptions is one of Billing, or of a reset job that       *)
(* writes the row or fails.                                                *)
LEMMA SubscriptionsStep ==
    [SubscriptionsNext]_allVars => [Next]_vars \/ CommitReset \/ ResetRaises
<1> SUFFICES ASSUME [SubscriptionsNext]_allVars, ~CommitReset, ~ResetRaises
             PROVE  Next \/ UNCHANGED vars
  OBVIOUS
<1>1. CASE (Requests \/ BillJob \/ Stripe) /\ Stays(TRUE)
  BY <1>1 DEF Requests, BillJob, Stripe, Next
<1>2. ASSUME NEW a \in Hooks, NEW e \in Event, Hook(a, e) PROVE Next
  BY <1>2 DEF Hook, Next
<1>3. ASSUME NEW a \in Actors, Lock(a) \/ Reports(a) \/ Fails(a) PROVE Next
  BY <1>3 DEF Lock, Reports, Fails, Next
<1>4. ASSUME NEW a \in Actors, NEW s \in SubscriptionStatus, Commits(a, s) PROVE Next
  BY <1>4 DEF Commits, Next
<1>5. CASE FreeMonthEnds \/ DispatchReset \/ StartReset \/ ResetRefused
  BY <1>5 DEF FreeMonthEnds, DispatchReset, StartReset, ResetRefused
<1>6. CASE UNCHANGED allVars
  BY <1>6 DEF allVars
<1> QED
  BY <1>1, <1>2, <1>3, <1>4, <1>5, <1>6 DEF SubscriptionsNext

(* What a reset job that writes the row does to the variables of Billing.  *)
LEMMA ResetCommits ==
    ASSUME TypeOK, CommitReset
    PROVE  /\ lock = Free
           /\ period' \in Periods /\ exists' \subseteq Periods /\ exists \subseteq exists'
           /\ faults' \in 0..MaxFaults /\ faults' >= faults
           /\ UNCHANGED <<paid, status, billed, count, reported, lock, open, act, stripeVars, over>>
  BY BillingAssumption DEF CommitReset, Fault, TypeOK

(* The types, the watermark and the exact totals survive the resets.       *)
LEMMA ResetsKeepBilling ==
    OnceInv /\ [SubscriptionsNext]_allVars => OnceInv'
<1> SUFFICES ASSUME OnceInv, [SubscriptionsNext]_allVars PROVE OnceInv'
  OBVIOUS
<1> USE BillingAssumption, LockFacts
<1>a. WatermarkInv /\ TypeInv /\ TypeOK /\ LockShape
  BY DEF OnceInv, WatermarkInv, TypeInv
<1>1. CASE [Next]_vars
  BY <1>1, NextOnce
<1>2. ASSUME lock = Free \/ UNCHANGED <<exists, billed>>,
             UNCHANGED <<count, reported, lock, open, act, stripeVars>>,
             TypeOK', faults' = 0 => faults = 0
      PROVE  OnceInv'
  <2>1. TypeInv'
    BY <1>2, <1>a DEF LockShape, TypeInv
  <2>2. KeysInvoiced' /\ WatermarkIsInvoiced'
    BY <1>2, <1>a DEF WatermarkInv, KeysInvoiced, WatermarkIsInvoiced, stripeVars
  <2>3. SnapshotInvoiced'
    BY <1>2, <1>a DEF WatermarkInv, SnapshotInvoiced, Billable, stripeVars
  <2>4. ReportLocked' /\ ReportedBelow'
    BY <1>2 DEF OnceInv, ReportLocked, ReportedBelow
  <2>5. faults' = 0 => ExactTotals'
    BY <1>2 DEF OnceInv, ExactTotals, Reported, Billable, stripeVars
  <2> QED
    BY <2>1, <2>2, <2>3, <2>4, <2>5 DEF OnceInv, WatermarkInv
<1>3. CASE CommitReset
  <2>1. TypeOK'
    BY <1>3, <1>a, ResetCommits DEF TypeOK, stripeVars
  <2>2. faults' = 0 => faults = 0
    BY <1>3, <1>a, ResetCommits DEF TypeOK
  <2> QED
    BY <1>2, <1>3, <1>a, <2>1, <2>2, ResetCommits
<1>4. CASE ResetRaises
  <2>1. TypeOK'
    BY <1>4, <1>a DEF ResetRaises, Fault, TypeOK, subVars, recordVars, stripeVars
  <2>2. faults' = 0 => faults = 0
    BY <1>4, <1>a DEF ResetRaises, Fault, TypeOK
  <2> QED
    BY <1>2, <1>4, <2>1, <2>2 DEF ResetRaises, recordVars
<1> QED
  BY <1>1, <1>3, <1>4, SubscriptionsStep

(* Free months that follow one another, resets that overlap checkouts and  *)
(* cancellations, and jobs that fail change nothing of it: the watermark   *)
(* has been invoiced, and no unit twice while nothing fails.               *)
THEOREM SubscriptionsBilling == SubscriptionsSpec => [](WatermarkIsInvoiced /\ InvoicedOnce)
<1>1. SubscriptionsInit => OnceInv
  BY InitOnce DEF SubscriptionsInit
<1>2. OnceInv => WatermarkIsInvoiced /\ InvoicedOnce
  BY OnceImplies DEF OnceInv, WatermarkInv
<1> QED
  BY <1>1, <1>2, ResetsKeepBilling, PTL DEF SubscriptionsSpec

-----------------------------------------------------------------------------
(* What is so at any time of the resets, the records, the events and the   *)
(* work in progress                                                        *)

(* A job runs after it was queued, and the free periods that are over are  *)
(* free periods.                                                           *)
ResetShape ==
    /\ over \subseteq FreePeriods
    /\ resets \in Nat
    /\ calm \in BOOLEAN
    /\ reset = {} \/ \E p \in Periods : reset = {p}
    /\ reset # {} => resets > 0

(* A request counts in the current period, and only records count.         *)
UsageShape ==
    /\ lock = Request => open.per = period
    /\ \A p \in Periods, c \in Categories : count[p][c] > 0 => p \in exists

(* Whether an event of the last change at Stripe is still to be handled.   *)
Waits(t) == [type |-> t, per |-> stripeNow] \in pending

First == {"checkout", "signup"}
Monthly == {"created", "failed", "renewal", "updated"}

(* The events to deliver are those of one change, the last one.            *)
PendingShape ==
    /\ \A e \in pending : e = [type |-> e.type, per |-> stripeNow]
    /\ \/ \A e \in pending : e.type \in First
       \/ \A e \in pending : e.type \in Monthly
       \/ \A e \in pending : e.type = "deleted"
    /\ pending # {} => stripeNow > 0
    /\ canceled => stripeNow > 0 /\ \A e \in pending : e.type = "deleted"
    /\ Waits("deleted") => canceled
    /\ Waits("renewal") => stripeNow > 1

(* Each webhook request has an event of its own, and the job has none.     *)
WorkShape ==
    /\ act[Job].ev = Bill
    /\ \A h \in Hooks : act[h].at # "idle" => act[h].ev \in pending
    /\ \A h \in Hooks : act[h].at \in {"lock", "report"} => act[h].ev.type \in Reporting
    /\ \A g, h \in Hooks :
         act[g].at # "idle" /\ act[h].at # "idle" /\ act[g].ev = act[h].ev => g = h

ShapeInv == OnceInv /\ ResetShape /\ UsageShape /\ PendingShape /\ WorkShape

(* What a step of Subscriptions leaves to the resets: the steps of Billing *)
(* touch none of it but calm, which they only take away.                   *)
LEMMA BillingLeavesResets ==
    ASSUME calm \in BOOLEAN, [SubscriptionsNext]_allVars,
           ~FreeMonthEnds, ~DispatchReset, ~StartReset, ~CommitReset, ~ResetRefused, ~ResetRaises
    PROVE  UNCHANGED <<over, resets, reset>> /\ calm' \in BOOLEAN /\ (calm' => calm)
<1>1. CASE (Requests \/ BillJob \/ Stripe) /\ Stays(TRUE)
  BY <1>1 DEF Stays
<1>2. ASSUME NEW a \in Hooks, NEW e \in Event, Hook(a, e)
      PROVE  UNCHANGED <<over, resets, reset>> /\ calm' \in BOOLEAN /\ (calm' => calm)
  BY <1>2 DEF Hook, Stays
<1>3. ASSUME NEW a \in Actors, Lock(a) \/ Reports(a) \/ Fails(a)
      PROVE  UNCHANGED <<over, resets, reset>> /\ calm' \in BOOLEAN /\ (calm' => calm)
  BY <1>3 DEF Lock, Reports, Fails, Stays
<1>4. ASSUME NEW a \in Actors, NEW s \in SubscriptionStatus, Commits(a, s)
      PROVE  UNCHANGED <<over, resets, reset>> /\ calm' \in BOOLEAN /\ (calm' => calm)
  BY <1>4 DEF Commits, Stays
<1>5. CASE UNCHANGED allVars
  BY <1>5 DEF allVars
<1> QED
  BY <1>1, <1>2, <1>3, <1>4, <1>5 DEF SubscriptionsNext

(* The reset jobs keep their shape.                                        *)
LEMMA NextResets == TypeOK /\ ResetShape /\ [SubscriptionsNext]_allVars => ResetShape'
<1> SUFFICES ASSUME TypeOK, ResetShape, [SubscriptionsNext]_allVars PROVE ResetShape'
  OBVIOUS
<1> USE DEF ResetShape
<1>1. CASE FreeMonthEnds
  BY <1>1 DEF FreeMonthEnds
<1>2. CASE DispatchReset
  BY <1>2 DEF DispatchReset
<1>3. CASE StartReset
  BY <1>3 DEF StartReset, TypeOK
<1>4. CASE CommitReset
  <2>1. resets > 0 /\ resets - 1 \in Nat
    BY <1>4 DEF CommitReset
  <2> QED
    BY <1>4, <2>1 DEF CommitReset
<1>5. CASE ResetRefused
  <2>1. resets > 0 /\ resets - 1 \in Nat
    BY <1>5 DEF ResetRefused
  <2> QED
    BY <1>5, <2>1 DEF ResetRefused
<1>6. CASE ResetRaises
  BY <1>6 DEF ResetRaises
<1>7. CASE UNCHANGED <<over, resets, reset>> /\ calm' \in BOOLEAN
  BY <1>7
<1> QED
  BY <1>1, <1>2, <1>3, <1>4, <1>5, <1>6, <1>7, BillingLeavesResets

(* Requests count in the current period; counted units have a record.      *)
LEMMA NextUsage == TypeInv /\ UsageShape /\ [SubscriptionsNext]_allVars => UsageShape'
<1> SUFFICES ASSUME TypeInv, UsageShape, [SubscriptionsNext]_allVars PROVE UsageShape'
  OBVIOUS
<1> USE LockFacts
<1>a. TypeOK /\ LockShape
  BY DEF TypeInv
<1>u. ASSUME count' = count, exists \subseteq exists',
             lock' # Request \/ UNCHANGED <<period, lock, open>>
      PROVE  UsageShape'
  BY <1>u DEF UsageShape
<1>1. ASSUME NEW c \in Categories, Reserve(c) PROVE UsageShape'
  BY <1>1 DEF Reserve, UsageShape, subVars, recordVars
<1>2. CASE CommitRequest
  <2>1. open \in [per : Periods, cat : Categories]
    BY <1>2, <1>a DEF CommitRequest, LockShape
  <2>2. \A p \in Periods, c \in Categories :
           p # open.per => count'[p][c] = count[p][c]
    BY <1>2, <1>a, <2>1 DEF CommitRequest, TypeOK
  <2>3. lock' = Free /\ exists' = exists \cup {open.per}
    BY <1>2 DEF CommitRequest
  <2> QED
    BY <2>2, <2>3 DEF UsageShape
<1>3. CASE RollbackRequest
  BY <1>3, <1>u DEF RollbackRequest, subVars, recordVars
<1>4. CASE DispatchBill
  BY <1>4, <1>u DEF DispatchBill, subVars, recordVars
<1>5. CASE StartBill
  BY <1>5, <1>u DEF StartBill, subVars, recordVars
<1>6. ASSUME NEW a \in Hooks, NEW e \in Event, StartHook(a, e) PROVE UsageShape'
  BY <1>6, <1>u DEF StartHook, subVars, recordVars
<1>7. ASSUME NEW a \in Actors, TryLock(a) PROVE UsageShape'
  <2>1. a # Request /\ UNCHANGED <<subVars, recordVars, open>> /\ lock' \in {a, lock}
    BY <1>7 DEF TryLock
  <2> QED
    BY <1>u, <2>1 DEF subVars, recordVars
<1>8. ASSUME NEW a \in Actors, Report(a) PROVE UsageShape'
  BY <1>8, <1>u DEF Report, subVars, recordVars
<1>9. ASSUME NEW a \in Actors, GiveUp(a), UNCHANGED <<subVars, recordVars, open>> PROVE UsageShape'
  BY <1>9, <1>u DEF GiveUp, subVars, recordVars
<1>10. ASSUME NEW a \in Actors, NEW k \in 0..NumCategories, ReportRaises(a, k) PROVE UsageShape'
  BY <1>9, <1>10 DEF ReportRaises
<1>11. ASSUME NEW a \in Actors, HandlerRaises(a) PROVE UsageShape'
  BY <1>9, <1>11 DEF HandlerRaises
<1>12. ASSUME NEW a \in Actors, NEW s \in SubscriptionStatus, Apply(a, s) PROVE UsageShape'
  <2>1. lock' = Free /\ count' = count /\ exists \subseteq exists'
    BY <1>12 DEF Apply
  <2> QED
    BY <1>u, <2>1
<1>13. CASE Subscribe
  BY <1>13, <1>u DEF Subscribe, subVars, recordVars
<1>14. CASE Cancel
  BY <1>14, <1>u DEF Cancel, subVars, recordVars
<1>15. ASSUME NEW f \in BOOLEAN, Renew(f) PROVE UsageShape'
  BY <1>15, <1>u DEF Renew, subVars, recordVars
<1>16. CASE UNCHANGED vars
  BY <1>16, <1>u DEF vars, subVars, recordVars
<1>17. CASE CommitReset
  BY <1>17, <1>a, <1>u, ResetCommits
<1>18. CASE ResetRaises
  BY <1>18, <1>u DEF ResetRaises, subVars, recordVars
<1> QED
  BY <1>1, <1>2, <1>3, <1>4, <1>5, <1>6, <1>7, <1>8, <1>10, <1>11, <1>12, <1>13,
     <1>14, <1>15, <1>16, <1>17, <1>18, SubscriptionsStep
  DEF Next

(* Events that are handled leave the others as they are.                   *)
LEMMA PendingShrinks ==
    ASSUME PendingShape, pending' \subseteq pending, UNCHANGED <<stripeNow, canceled>>
    PROVE  PendingShape'
  BY DEF PendingShape, Waits

(* A change at Stripe has events of its own, and follows handled ones.     *)
LEMMA NextPending == TypeOK /\ PendingShape /\ [SubscriptionsNext]_allVars => PendingShape'
<1> SUFFICES ASSUME TypeOK, PendingShape, [SubscriptionsNext]_allVars PROVE PendingShape'
  OBVIOUS
<1> USE BillingAssumption
<1>u. ASSUME UNCHANGED stripeVars PROVE PendingShape'
  BY <1>u, PendingShrinks DEF stripeVars
<1>1. ASSUME NEW c \in Categories, Reserve(c) PROVE PendingShape'
  BY <1>1, <1>u DEF Reserve
<1>2. CASE CommitRequest \/ RollbackRequest \/ DispatchBill \/ StartBill
  BY <1>2, <1>u DEF CommitRequest, RollbackRequest, DispatchBill, StartBill
<1>3. ASSUME NEW a \in Hooks, NEW e \in Event, StartHook(a, e) PROVE PendingShape'
  <2>1. pending' \subseteq pending /\ UNCHANGED <<stripeNow, canceled>>
    BY <1>3 DEF StartHook
  <2> QED
    BY <2>1, PendingShrinks
<1>4. ASSUME NEW a \in Actors, TryLock(a) PROVE PendingShape'
  <2>1. pending' \subseteq pending /\ UNCHANGED <<stripeNow, canceled>>
    BY <1>4 DEF TryLock
  <2> QED
    BY <2>1, PendingShrinks
<1>5. ASSUME NEW a \in Actors, Report(a) PROVE PendingShape'
  BY <1>5, PendingShrinks DEF Report
<1>6. ASSUME NEW a \in Actors, NEW k \in 0..NumCategories, ReportRaises(a, k) PROVE PendingShape'
  BY <1>6, PendingShrinks DEF ReportRaises
<1>7. ASSUME NEW a \in Actors, HandlerRaises(a) PROVE PendingShape'
  BY <1>7, <1>u DEF HandlerRaises
<1>8. ASSUME NEW a \in Actors, NEW s \in SubscriptionStatus, Apply(a, s) PROVE PendingShape'
  <2>1. pending' \subseteq pending /\ UNCHANGED <<stripeNow, canceled>>
    BY <1>8 DEF Apply
  <2> QED
    BY <2>1, PendingShrinks
<1>9. CASE Subscribe
  <2>1. stripeNow' = 1 /\ ~canceled' /\ pending' = {[type |-> t, per |-> 1] : t \in First}
    BY <1>9 DEF Subscribe, Emit, PendingShape, First
  <2> QED
    BY <2>1 DEF PendingShape, Waits, First
<1>10. CASE Cancel
  <2>1. stripeNow' = stripeNow /\ stripeNow > 0 /\ canceled'
        /\ pending' = {[type |-> t, per |-> stripeNow] : t \in {"deleted"}}
    BY <1>10 DEF Cancel, Emit
  <2> QED
    BY <2>1 DEF PendingShape, Waits
<1>11. ASSUME NEW f \in BOOLEAN, Renew(f) PROVE PendingShape'
  <2> DEFINE types == {"created", "renewal", "updated"} \cup (IF f THEN {"failed"} ELSE {})
  <2>1. /\ stripeNow' = stripeNow + 1 /\ stripeNow \in Nat /\ stripeNow > 0 /\ ~canceled'
        /\ pending' = {[type |-> t, per |-> stripeNow'] : t \in types}
    BY <1>11 DEF Renew, Emit, TypeOK
  <2>2. types \subseteq Monthly
    BY DEF Monthly
  <2> HIDE DEF types
  <2>3. /\ \A e \in pending' : e = [type |-> e.type, per |-> stripeNow'] /\ e.type \in Monthly
        /\ stripeNow' > 1
    BY <2>1, <2>2
  <2>4. [type |-> "deleted", per |-> stripeNow'] \notin pending'
    BY <2>3 DEF Monthly
  <2> QED
    BY <2>1, <2>3, <2>4 DEF PendingShape, Waits
<1>12. CASE UNCHANGED vars
  BY <1>12, <1>u DEF vars
<1>13. CASE CommitReset
  BY <1>13, <1>u, ResetCommits
<1>14. CASE ResetRaises
  BY <1>14, <1>u DEF ResetRaises
<1> QED
  BY <1>1, <1>2, <1>3, <1>4, <1>5, <1>6, <1>7, <1>8, <1>9, <1>10, <1>11, <1>12, <1>13,
     <1>14, SubscriptionsStep
  DEF Next

(* An actor that goes on with its event, or ends, leaves the others their  *)
(* events.                                                                 *)
LEMMA WorkGoesOn ==
    ASSUME TypeOK, WorkShape, NEW a \in Actors, NEW w \in Actor,
           act' = [act EXCEPT ![a] = w],
           w.at = "idle" \/ a = Job \/ (w.ev = act[a].ev /\ act[a].at # "idle"),
           a = Job => w.ev = Bill,
           w.at \in {"lock", "report"} => a = Job \/ act[a].at \in {"lock", "report"},
           pending' = pending \/ (w.at = "idle" /\ act[a].at # "idle" /\ pending' = pending \ {act[a].ev})
    PROVE  WorkShape'
<1> USE BillingAssumption, LockFacts
<1>1. \A b \in Actors : act'[b] = IF b = a THEN w ELSE act[b]
  BY DEF TypeOK
<1>2. Bill \notin pending
  BY DEF TypeOK, Event, EventTypes, Bill
<1>3. Job \notin Hooks /\ Hooks \subseteq Actors
  BY DEF Actors
<1>4. act'[Job].ev = Bill
  BY <1>1 DEF WorkShape
<1>5. \A h \in Hooks : act'[h].at # "idle" => act[h].at # "idle" /\ act'[h].ev = act[h].ev
  BY <1>1, <1>3
<1>6. ASSUME NEW h \in Hooks, act'[h].at # "idle" PROVE act'[h].ev \in pending'
  <2>1. act[h].ev \in pending
    BY <1>5, <1>6 DEF WorkShape
  <2>2. CASE pending' = pending
    BY <1>5, <1>6, <2>1, <2>2
  <2>3. CASE w.at = "idle" /\ act[a].at # "idle" /\ pending' = pending \ {act[a].ev}
    <3>1. h # a
      BY <1>1, <1>3, <1>6, <2>3
    <3>2. CASE a = Job
      BY <1>2, <1>5, <1>6, <2>1, <2>3, <3>2 DEF WorkShape
    <3>3. CASE a \in Hooks
      <4>1. act[h].ev # act[a].ev
        BY <1>5, <1>6, <2>3, <3>1, <3>3 DEF WorkShape
      <4> QED
        BY <1>5, <1>6, <2>1, <2>3, <4>1
    <3> QED
      BY <3>2, <3>3 DEF Actors
  <2> QED
    BY <2>2, <2>3
<1>7. \A h \in Hooks : act'[h].at \in {"lock", "report"} => act'[h].ev.type \in Reporting
  <2>1. \A h \in Hooks : act'[h].at \in {"lock", "report"} => act[h].at \in {"lock", "report"}
    BY <1>1, <1>3
  <2> QED
    BY <1>5, <2>1 DEF WorkShape
<1>8. \A g, h \in Hooks :
         act'[g].at # "idle" /\ act'[h].at # "idle" /\ act'[g].ev = act'[h].ev => g = h
  BY <1>5 DEF WorkShape
<1> QED
  BY <1>4, <1>6, <1>7, <1>8 DEF WorkShape

(* No two requests handle the same event; an event waits while it is       *)
(* handled.                                                                *)
LEMMA NextWork == TypeInv /\ WorkShape /\ [SubscriptionsNext]_allVars => WorkShape'
<1> SUFFICES ASSUME TypeInv, WorkShape, [SubscriptionsNext]_allVars PROVE WorkShape'
  OBVIOUS
<1> USE BillingAssumption, LockFacts
<1>a. TypeOK
  BY DEF TypeInv
<1>w. /\ NoWork \in Actor /\ [NoWork EXCEPT !.at = "queued"] \in Actor
      /\ NoWork.at = "idle" /\ NoWork.ev = Bill
      /\ [NoWork EXCEPT !.at = "queued"].ev = Bill /\ [NoWork EXCEPT !.at = "queued"].at = "queued"
  BY PeriodFacts DEF NoWork, Actor, Seen, SubscriptionStatus, Bill
<1>x. \A a \in Actors : act[a] \in Actor
  BY <1>a DEF TypeOK
<1>y. \A a \in Actors, stage \in {"lock", "report", "apply"} :
         LET w == [act[a] EXCEPT !.at = stage]
         IN  w \in Actor /\ w.at = stage /\ w.ev = act[a].ev
  BY <1>x DEF Actor
<1>u. ASSUME UNCHANGED <<act, pending>> PROVE WorkShape'
  BY <1>u DEF WorkShape
<1>1. ASSUME NEW c \in Categories, Reserve(c) PROVE WorkShape'
  BY <1>1, <1>u DEF Reserve, stripeVars
<1>2. CASE CommitRequest \/ RollbackRequest
  BY <1>2, <1>u DEF CommitRequest, RollbackRequest, stripeVars
<1>3. CASE DispatchBill
  <2>1. act' = [act EXCEPT ![Job] = [NoWork EXCEPT !.at = "queued"]] /\ pending' = pending
    BY <1>3 DEF DispatchBill, Become, stripeVars
  <2> QED
    BY <1>a, <1>w, <2>1, WorkGoesOn
<1>4. CASE StartBill
  <2>1. act' = [act EXCEPT ![Job] = [act[Job] EXCEPT !.at = "lock"]] /\ pending' = pending
    BY <1>4 DEF StartBill, Become, stripeVars
  <2>2. [act[Job] EXCEPT !.at = "lock"] \in Actor /\ [act[Job] EXCEPT !.at = "lock"].ev = Bill
    BY <1>y DEF WorkShape
  <2> QED
    BY <1>a, <2>1, <2>2, WorkGoesOn
<1>5. ASSUME NEW a \in Hooks, NEW e \in Event, StartHook(a, e) PROVE WorkShape'
  <2> DEFINE w == [at |-> IF e.type \in Reporting THEN "lock" ELSE "apply", ev |-> e, seen |-> Now]
  <2>0. Job \notin Hooks /\ Hooks \subseteq Actors
    BY DEF Actors
  <2>1. act[a].at = "idle" /\ e \in pending /\ \A b \in Hooks : act[b].at = "idle" \/ act[b].ev # e
    BY <1>5 DEF StartHook
  <2>2. CASE Become(a, w) /\ pending' = pending
    <3>1. \A b \in Actors : act'[b] = IF b = a THEN w ELSE act[b]
      BY <1>a, <2>2 DEF Become, TypeOK
    <3>2. w.ev = e /\ (w.at = "lock" => e.type \in Reporting) /\ w.at # "report"
      OBVIOUS
    <3> HIDE DEF w
    <3>3. act'[Job].ev = Bill
      BY <2>0, <3>1 DEF WorkShape
    <3>4. \A h \in Hooks : act'[h].at # "idle" => act'[h].ev \in pending'
      BY <2>0, <2>1, <2>2, <3>1, <3>2 DEF WorkShape
    <3>5. \A h \in Hooks : act'[h].at \in {"lock", "report"} => act'[h].ev.type \in Reporting
      BY <2>0, <3>1, <3>2 DEF WorkShape
    <3>6. ASSUME NEW g \in Hooks, NEW h \in Hooks,
                 act'[g].at # "idle", act'[h].at # "idle", act'[g].ev = act'[h].ev
          PROVE  g = h
      <4>1. CASE g # a /\ h # a
        BY <2>0, <3>1, <3>6, <4>1 DEF WorkShape
      <4>2. CASE g = a /\ h # a
        BY <2>0, <2>1, <3>1, <3>2, <3>6, <4>2
      <4>3. CASE g # a /\ h = a
        BY <2>0, <2>1, <3>1, <3>2, <3>6, <4>3
      <4> QED
        BY <4>1, <4>2, <4>3
    <3> QED
      BY <3>3, <3>4, <3>5, <3>6 DEF WorkShape
  <2>3. CASE pending' = pending \ {e} /\ UNCHANGED act
    BY <2>1, <2>3 DEF WorkShape
  <2> QED
    BY <1>5, <2>2, <2>3 DEF StartHook
<1>6. ASSUME NEW a \in Actors, TryLock(a) PROVE WorkShape'
  <2>1. act[a].at = "lock"
    BY <1>6 DEF TryLock
  <2>2. CASE /\ Become(a, [act[a] EXCEPT !.at = "report", !.seen = IF a = Job THEN Now ELSE @])
             /\ UNCHANGED pending
    <3>1. PICK w \in Actor : /\ Become(a, w) /\ w.at = "report" /\ w.ev = act[a].ev
      <4> DEFINE w == [act[a] EXCEPT !.at = "report", !.seen = IF a = Job THEN Now ELSE @]
      <4>1. Now \in Seen
        BY <1>a DEF TypeOK, Now, Seen
      <4>2. w \in Actor /\ w.at = "report" /\ w.ev = act[a].ev
        BY <1>x, <4>1 DEF Actor
      <4> QED
        BY <2>2, <4>2
    <3>2. act' = [act EXCEPT ![a] = w]
      BY <3>1 DEF Become
    <3>3. a = Job => w.ev = Bill
      BY <3>1 DEF WorkShape
    <3> QED
      BY <1>a, <2>1, <2>2, <3>1, <3>2, <3>3, WorkGoesOn
  <2>3. CASE Become(a, [act[a] EXCEPT !.at = "apply"]) /\ UNCHANGED pending
    <3>1. PICK w \in Actor : /\ Become(a, w) /\ w.at = "apply" /\ w.ev = act[a].ev
      BY <1>y, <2>3
    <3>2. act' = [act EXCEPT ![a] = w]
      BY <3>1 DEF Become
    <3>3. a = Job => w.ev = Bill
      BY <3>1 DEF WorkShape
    <3> QED
      BY <1>a, <2>1, <2>3, <3>1, <3>2, <3>3, WorkGoesOn
  <2>4. CASE Become(a, NoWork) /\ pending' = pending \ {act[a].ev}
    BY <1>a, <1>w, <2>1, <2>4, WorkGoesOn DEF Become
  <2> QED
    BY <1>6, <2>2, <2>3, <2>4 DEF TryLock
<1>7. ASSUME NEW a \in Actors, Report(a) PROVE WorkShape'
  <2>1. PICK w \in Actor : /\ act' = [act EXCEPT ![a] = w] /\ w.at = "apply" /\ w.ev = act[a].ev
    BY <1>y, <1>7 DEF Report, Become
  <2>2. act[a].at = "report" /\ pending' = pending
    BY <1>7 DEF Report
  <2>3. a = Job => w.ev = Bill
    BY <2>1 DEF WorkShape
  <2> QED
    BY <1>a, <2>1, <2>2, <2>3, WorkGoesOn
<1>8. ASSUME NEW a \in Actors, GiveUp(a), UNCHANGED pending PROVE WorkShape'
  <2>1. PICK w \in Actor : /\ act' = [act EXCEPT ![a] = w] /\ w.ev = Bill
                          /\ w.at \in {"idle", "queued"} /\ (w.at = "idle" \/ a = Job)
    BY <1>w, <1>8 DEF GiveUp, Become
  <2> QED
    BY <1>a, <1>8, <2>1, WorkGoesOn
<1>9. ASSUME NEW a \in Actors, NEW k \in 0..NumCategories, ReportRaises(a, k) PROVE WorkShape'
  BY <1>8, <1>9 DEF ReportRaises
<1>10. ASSUME NEW a \in Actors, HandlerRaises(a) PROVE WorkShape'
  BY <1>8, <1>10 DEF HandlerRaises, stripeVars
<1>11. ASSUME NEW a \in Actors, NEW s \in SubscriptionStatus, Apply(a, s) PROVE WorkShape'
  <2>1. act[a].at = "apply" /\ act' = [act EXCEPT ![a] = NoWork]
        /\ (pending' = pending \/ pending' = pending \ {act[a].ev})
    BY <1>11 DEF Apply, Become
  <2> QED
    BY <1>a, <1>w, <2>1, WorkGoesOn
<1>12. ASSUME Settled, UNCHANGED act PROVE WorkShape'
  <2>1. \A h \in Hooks : act'[h].at = "idle"
    BY <1>12 DEF Settled
  <2> QED
    BY <1>12, <2>1 DEF WorkShape
<1>13. CASE Subscribe \/ Cancel
  BY <1>12, <1>13 DEF Subscribe, Cancel
<1>14. ASSUME NEW f \in BOOLEAN, Renew(f) PROVE WorkShape'
  BY <1>12, <1>14 DEF Renew
<1>15. CASE UNCHANGED vars
  BY <1>15, <1>u DEF vars, stripeVars
<1>16. CASE CommitReset
  BY <1>16, <1>a, <1>u, ResetCommits DEF stripeVars
<1>17. CASE ResetRaises
  BY <1>17, <1>u DEF ResetRaises, stripeVars
<1> QED
  BY <1>1, <1>2, <1>3, <1>4, <1>5, <1>6, <1>7, <1>9, <1>10, <1>11, <1>13, <1>14,
     <1>15, <1>16, <1>17, SubscriptionsStep
  DEF Next

(* All of it holds in every step, and in the first state.                  *)
LEMMA NextShape == ShapeInv /\ [SubscriptionsNext]_allVars => ShapeInv'
<1> SUFFICES ASSUME ShapeInv, [SubscriptionsNext]_allVars PROVE ShapeInv'
  OBVIOUS
<1>1. TypeInv /\ TypeOK
  BY DEF ShapeInv, OnceInv, WatermarkInv, TypeInv
<1> QED
  BY <1>1, ResetsKeepBilling, NextResets, NextUsage, NextPending, NextWork DEF ShapeInv

(* Nothing is pending or in progress at the start.                         *)
LEMMA InitShape == SubscriptionsInit => ShapeInv
<1> SUFFICES ASSUME SubscriptionsInit PROVE ShapeInv
  OBVIOUS
<1> USE BillingAssumption, LockFacts DEF SubscriptionsInit, Init
<1>1. OnceInv
  BY InitOnce
<1>2. ResetShape /\ UsageShape
  BY DEF ResetShape, UsageShape, NoUsage
<1>3. PendingShape
  BY DEF PendingShape, Waits
<1>4. WorkShape
  <2>1. \A a \in Actors : act[a].at = "idle" /\ act[a].ev = Bill
    BY DEF NoWork
  <2> QED
    BY <2>1 DEF WorkShape, Actors
<1> QED
  BY <1>1, <1>2, <1>3, <1>4 DEF ShapeInv

-----------------------------------------------------------------------------
(* What is so while all is calm                                            *)

(* Nothing has failed, at most one reset is queued, and it finds the       *)
(* period that it was queued for.                                          *)
CalmResets ==
    /\ faults = 0
    /\ resets <= 1
    /\ resets = 1 => period \in over
    /\ reset \subseteq {period}

(* A paying customer is in the period that Stripe is in, or in the one     *)
(* before until the renewal is handled.                                    *)
CalmPlan ==
    /\ paid <=> period \in StripePeriods
    /\ paid => period = IF Waits("renewal") THEN stripeNow - 1 ELSE stripeNow
    /\ paid => ~Waits("checkout")
    /\ ~paid /\ ~canceled => stripeNow = 0 \/ Waits("checkout")
    /\ ~paid => ~Waits("deleted")

(* A webhook request handles the first of the events that wait, and what   *)
(* it has read of the subscription still is so.                            *)
CalmHooks ==
    \A h \in Hooks : act[h].at # "idle" =>
        /\ \A f \in pending : Rank(act[h].ev) <= Rank(f)
        /\ IF act[h].ev.type = "checkout"
           THEN act[h].seen.period \in FreePeriods /\ ~act[h].seen.paid
           ELSE paid /\ act[h].seen.period = period /\ act[h].seen.paid

(* Whoever has reported holds the lock until the commit.                   *)
CalmLock == \A a \in Actors : act[a].at = "apply" /\ act[a].ev.type \in Reporting => lock = a

(* Closed records are of paid periods that are left.                       *)
CalmBilled ==
    /\ \A p \in billed : p \in StripePeriods /\ (paid => p < period)
    /\ ~paid /\ ~canceled => billed = {}

(* A free record is the first one, the one after a cancellation, or it     *)
(* follows one that is over, and it counts what is free at most.           *)
CalmFree ==
    /\ period \in FreePeriods => period \in exists
    /\ \A p \in exists \cap FreePeriods : p \in {0, HobbyAgain} \/ \E q \in over : p = After(q)
    /\ \A p \in FreePeriods, c \in Categories : count[p][c] <= FreeBase
    /\ lock = Request /\ open.per \in FreePeriods => count[open.per][open.cat] < FreeBase

CalmState ==
    /\ CalmResets /\ CalmPlan /\ CalmHooks /\ CalmLock
    /\ CalmBilled /\ CalmFree /\ NothingForfeited

CalmInv == calm => CalmState

(* Facts about the invariant of types that the steps below use.            *)
LEMMA ShapeTypes ==
    ASSUME ShapeInv
    PROVE  /\ TypeOK /\ TypeInv /\ LockShape /\ WatermarkInv
           /\ \A p \in Periods, c \in Categories :
                 charged[p][c] \in Nat /\ count[p][c] \in Nat /\ Over(count[p][c]) \in Nat
<1>1. TypeOK /\ TypeInv /\ LockShape /\ WatermarkInv
  BY DEF ShapeInv, OnceInv, WatermarkInv, TypeInv
<1> QED
  BY <1>1, OverNat DEF TypeOK

(* Where the periods lie, and what follows a free one.                     *)
LEMMA FreeFacts ==
    /\ HobbyAgain \in FreePeriods /\ HobbyAgain \notin StripePeriods
    /\ 0 \in FreePeriods /\ 0 \notin StripePeriods
    /\ StripePeriods \subseteq Periods
    /\ \A p \in FreePeriods : After(p) \notin StripePeriods
  BY BillingAssumption DEF FreePeriods, StripePeriods, Periods, HobbyAgain, After

(* Of the events of one change no two have the same rank.                  *)
LEMMA RankTells ==
    ASSUME PendingShape, NEW e \in pending, NEW f \in pending, Rank(e) = Rank(f)
    PROVE  e = f
<1>1. e = [type |-> e.type, per |-> stripeNow] /\ f = [type |-> f.type, per |-> stripeNow]
  BY DEF PendingShape
<1>2. CASE e.type \in First /\ f.type \in First
  BY <1>1, <1>2 DEF First, Rank
<1>3. CASE e.type \in Monthly /\ f.type \in Monthly
  BY <1>1, <1>3 DEF Monthly, Rank
<1>4. CASE e.type = "deleted" /\ f.type = "deleted"
  BY <1>1, <1>4
<1> QED
  BY <1>2, <1>3, <1>4 DEF PendingShape

(* While all is calm, one webhook request is handled at a time.            *)
LEMMA OneHook ==
    ASSUME ShapeInv, CalmHooks, NEW g \in Hooks, NEW h \in Hooks,
           act[g].at # "idle", act[h].at # "idle"
    PROVE  g = h
<1>1. act[g].ev \in pending /\ act[h].ev \in pending
  BY DEF ShapeInv, WorkShape
<1>2. Rank(act[g].ev) <= Rank(act[h].ev) /\ Rank(act[h].ev) <= Rank(act[g].ev)
  BY <1>1 DEF CalmHooks
<1>3. \A e \in Event : Rank(e) \in Nat
  BY DEF Rank, Event, EventTypes
<1>4. Rank(act[g].ev) = Rank(act[h].ev)
  <2>1. act[g].ev \in Event /\ act[h].ev \in Event
    BY <1>1, ShapeTypes DEF TypeOK
  <2>2. Rank(act[g].ev) \in Nat /\ Rank(act[h].ev) \in Nat
    BY <1>3, <2>1
  <2> QED
    BY <1>2, <2>2
<1>5. act[g].ev = act[h].ev
  BY <1>1, <1>4, RankTells DEF ShapeInv
<1> QED
  BY <1>5 DEF ShapeInv, WorkShape

(* What a request's event tells: it is one of the last change at Stripe.   *)
LEMMA HookEvent ==
    ASSUME ShapeInv, NEW h \in Hooks, act[h].at # "idle"
    PROVE  /\ act[h].ev \in pending
           /\ act[h].ev = [type |-> act[h].ev.type, per |-> stripeNow]
           /\ act[h].ev.type \in EventTypes
           /\ Waits(act[h].ev.type)
           /\ stripeNow \in StripePeriods /\ stripeNow \in Periods
<1>1. act[h].ev \in pending
  BY DEF ShapeInv, WorkShape
<1>2. act[h].ev = [type |-> act[h].ev.type, per |-> stripeNow] /\ stripeNow > 0
  BY <1>1 DEF ShapeInv, PendingShape
<1>3. act[h].ev \in Event /\ stripeNow \in 0..MaxPeriod
  BY <1>1, ShapeTypes DEF TypeOK
<1> QED
  BY <1>1, <1>2, <1>3, BillingAssumption, PeriodFacts DEF Event, Waits, StripePeriods

(* A step that neither moves the subscription nor counts keeps the calm,   *)
(* if it leaves the requests what they have read and the events that the   *)
(* plan waits for.                                                         *)
LEMMA CalmSteady ==
    ASSUME ShapeInv, ShapeInv', CalmState, CalmResets', CalmHooks', CalmLock',
           UNCHANGED <<paid, period, exists, billed, count, stripeNow, canceled>>,
           over \subseteq over', pending' \subseteq pending,
           ~paid /\ Waits("checkout") => Waits("checkout")',
           paid /\ Waits("renewal") => Waits("renewal")',
           lock' = Request => lock = Request /\ open' = open,
           \A p \in Periods, c \in Categories : charged'[p][c] >= charged[p][c]
    PROVE  CalmState'
<1>1. \A t : Waits(t)' => Waits(t)
  BY DEF Waits
<1>2. CalmPlan'
  BY <1>1 DEF CalmState, CalmPlan
<1>3. CalmBilled'
  BY DEF CalmState, CalmBilled
<1>4. CalmFree'
  BY DEF CalmState, CalmFree
<1>5. NothingForfeited'
  <2>1. \A p \in Periods, c \in Categories :
           charged[p][c] \in Nat /\ charged'[p][c] \in Nat /\ Over(count[p][c]) \in Nat
    BY ShapeTypes DEF ShapeInv, OnceInv, WatermarkInv, TypeInv, TypeOK
  <2> QED
    BY <2>1, FreeFacts DEF CalmState, NothingForfeited
<1> QED
  BY <1>2, <1>3, <1>4, <1>5 DEF CalmState

(* Requests that go on or end keep what they have read.                    *)
LEMMA HooksSteady ==
    ASSUME CalmHooks, UNCHANGED <<paid, period>>, pending' \subseteq pending,
           \A h \in Hooks : act'[h].at # "idle" =>
              act[h].at # "idle" /\ act'[h].ev = act[h].ev /\ act'[h].seen = act[h].seen
    PROVE  CalmHooks'
<1> SUFFICES ASSUME NEW h \in Hooks, act'[h].at # "idle"
             PROVE  /\ \A f \in pending' : Rank(act'[h].ev) <= Rank(f)
                    /\ IF act'[h].ev.type = "checkout"
                       THEN act'[h].seen.period \in FreePeriods /\ ~act'[h].seen.paid
                       ELSE paid' /\ act'[h].seen.period = period' /\ act'[h].seen.paid
  BY DEF CalmHooks
<1>1. act[h].at # "idle" /\ act'[h].ev = act[h].ev /\ act'[h].seen = act[h].seen
  OBVIOUS
<1> QED
  BY <1>1 DEF CalmHooks

(* The requests that count usage keep the calm.                            *)
LEMMA CalmRequests ==
    ASSUME ShapeInv, ShapeInv', CalmState, Requests, UNCHANGED <<over, resets, reset>>
    PROVE  CalmState'
<1> USE LockFacts, BillingAssumption
<1>a. TypeOK /\ LockShape
  BY ShapeTypes
<1>r. ASSUME UNCHANGED <<subVars, faults>> PROVE CalmResets'
  BY <1>r DEF CalmState, CalmResets, subVars
<1>h. ASSUME UNCHANGED <<subVars, act, stripeVars>> PROVE CalmHooks' /\ CalmPlan'
  <2>1. UNCHANGED <<paid, period, pending, stripeNow, canceled>>
    BY <1>h DEF subVars, stripeVars
  <2>2. CalmHooks'
    BY <1>h, <2>1, HooksSteady DEF CalmState
  <2> QED
    BY <2>1, <2>2 DEF CalmState, CalmPlan, Waits
<1>l. ASSUME lock = Free \/ lock = Request, UNCHANGED act PROVE CalmLock'
  BY <1>l DEF CalmState, CalmLock
<1>1. ASSUME NEW c \in Categories, Reserve(c) PROVE CalmState'
  <2>1. /\ UNCHANGED <<subVars, recordVars, act, stripeVars, faults>>
        /\ lock = Free /\ open' = [per |-> period, cat |-> c]
        /\ count[period][c] < IF paid THEN MaxUsage ELSE FreeBase
    BY <1>1 DEF Reserve
  <2>2. CalmBilled' /\ NothingForfeited'
    BY <2>1 DEF CalmState, CalmBilled, NothingForfeited, subVars, recordVars, stripeVars
  <2>3. CalmFree'
    <3>1. period \in FreePeriods => count[period][c] < FreeBase
      BY <2>1 DEF CalmState, CalmPlan, FreePeriods
    <3> QED
      BY <2>1, <3>1 DEF CalmState, CalmFree, subVars, recordVars
  <2> QED
    BY <1>r, <1>h, <1>l, <2>1, <2>2, <2>3 DEF CalmState
<1>2. CASE CommitRequest
  <2> DEFINE p == open.per
             k == open.cat
  <2>1. /\ UNCHANGED <<subVars, billed, reported, act, stripeVars, faults>>
        /\ lock = Request /\ lock' = Free /\ exists' = exists \cup {p}
        /\ p = period /\ p \in Periods /\ k \in Categories
    BY <1>2, <1>a DEF CommitRequest, LockShape, ShapeInv, UsageShape
  <2>2. \A q \in Periods, c \in Categories :
           count'[q][c] = IF q = p /\ c = k THEN count[q][c] + 1 ELSE count[q][c]
    BY <1>2, <1>a, <2>1 DEF CommitRequest, TypeOK
  <2>3. CalmBilled'
    BY <2>1 DEF CalmState, CalmBilled, subVars, stripeVars
  <2>4. NothingForfeited'
    <3>1. ASSUME NEW q \in StripePeriods, q \in billed \/ q # period PROVE q # p
      <4>1. q \in billed => (paid => q < period)
        BY DEF CalmState, CalmBilled
      <4>2. q = period => paid
        BY DEF CalmState, CalmPlan
      <4> QED
        BY <2>1, <3>1, <4>1, <4>2, <1>a DEF TypeOK, Periods
    <3> QED
      BY <2>1, <2>2, <3>1, FreeFacts DEF CalmState, NothingForfeited, subVars, stripeVars
  <2>5. CalmFree'
    <3>1. p \in FreePeriods => p \in exists
      BY <2>1 DEF CalmState, CalmFree
    <3>2. p \in FreePeriods => count[p][k] < FreeBase
      BY <2>1 DEF CalmState, CalmFree
    <3>3. ASSUME NEW q \in FreePeriods, NEW c \in Categories PROVE count'[q][c] <= FreeBase
      <4>1. q \in Periods /\ count[q][c] \in Nat
        BY <1>a DEF FreePeriods, TypeOK
      <4>2. count[q][c] <= FreeBase
        BY DEF CalmState, CalmFree
      <4> QED
        BY <2>2, <3>2, <4>1, <4>2
    <3> QED
      BY <2>1, <3>1, <3>3 DEF CalmState, CalmFree, subVars
  <2> QED
    BY <1>r, <1>h, <1>l, <2>1, <2>3, <2>4, <2>5 DEF CalmState
<1>3. CASE RollbackRequest
  <2>1. /\ UNCHANGED <<subVars, recordVars, act, stripeVars, faults>>
        /\ lock = Request /\ lock' = Free
    BY <1>3 DEF RollbackRequest
  <2>2. CalmBilled' /\ NothingForfeited'
    BY <2>1 DEF CalmState, CalmBilled, NothingForfeited, subVars, recordVars, stripeVars
  <2>3. CalmFree'
    BY <2>1 DEF CalmState, CalmFree, subVars, recordVars
  <2> QED
    BY <1>r, <1>h, <1>l, <2>1, <2>2, <2>3 DEF CalmState
<1> QED
  BY <1>1, <1>2, <1>3 DEF Requests

(* While all is calm, the hourly job and its dispatch change no webhook.   *)
LEMMA CalmBillJob ==
    ASSUME ShapeInv, ShapeInv', CalmState, BillJob, UNCHANGED <<over, resets, reset>>
    PROVE  CalmState'
<1> USE LockFacts
<1>a. TypeOK /\ Job \notin Hooks /\ Hooks \subseteq Actors
  BY ShapeTypes, BillingAssumption DEF Actors
<1>1. /\ UNCHANGED <<subVars, recordVars, lock, open, stripeVars, faults>>
      /\ \A b \in Actors : b # Job => act'[b] = act[b]
      /\ act'[Job].at # "apply"
  <2>1. CASE DispatchBill
    BY <1>a, <2>1 DEF DispatchBill, Become, TypeOK, NoWork
  <2>2. CASE StartBill
    BY <1>a, <2>2 DEF StartBill, Become, TypeOK, Actor
  <2> QED
    BY <2>1, <2>2 DEF BillJob
<1>2. CalmResets'
  BY <1>1 DEF CalmState, CalmResets, subVars
<1>3. UNCHANGED <<paid, period, pending>>
  BY <1>1 DEF subVars, stripeVars
<1>4. CalmHooks'
  BY <1>a, <1>1, <1>3, HooksSteady DEF CalmState
<1>5. CalmLock'
  BY <1>1 DEF CalmState, CalmLock
<1>6. \A p \in Periods, c \in Categories : charged'[p][c] >= charged[p][c]
  BY <1>1, ShapeTypes DEF stripeVars
<1>7. UNCHANGED <<paid, period, exists, billed, count, stripeNow, canceled, lock, open, pending>>
  BY <1>1 DEF subVars, recordVars, stripeVars
<1> QED
  BY <1>2, <1>4, <1>5, <1>6, <1>7, CalmSteady DEF Waits

(* A webhook request starts with the first of the events that wait.        *)
LEMMA CalmHook ==
    ASSUME ShapeInv, ShapeInv', CalmState, NEW a \in Hooks, NEW e \in Event, StartHook(a, e),
           \A f \in pending : Rank(e) <= Rank(f), UNCHANGED <<over, resets, reset>>
    PROVE  CalmState'
<1>a. TypeOK /\ a \in Actors /\ Hooks \subseteq Actors
  BY ShapeTypes DEF Actors
<1>1. /\ UNCHANGED <<subVars, recordVars, lock, open, items, charged, stripeNow, canceled, faults>>
      /\ e \in pending /\ act[a].at = "idle"
  BY DEF StartHook
<1>2. UNCHANGED <<paid, period, exists, billed, count>>
  BY <1>1 DEF subVars, recordVars
<1>3. CalmResets'
  BY <1>1, <1>2 DEF CalmState, CalmResets
<1>4. \A p \in Periods, c \in Categories : charged'[p][c] >= charged[p][c]
  BY <1>1, ShapeTypes
<1>5. e = [type |-> e.type, per |-> stripeNow]
  BY <1>1 DEF ShapeInv, PendingShape
<1>6. CASE paid \/ e.type = "checkout"
  <2> DEFINE w == [at |-> IF e.type \in Reporting THEN "lock" ELSE "apply", ev |-> e, seen |-> Now]
  <2>1. act' = [act EXCEPT ![a] = w] /\ pending' = pending
    BY <1>6 DEF StartHook, Become
  <2>2. w.ev = e /\ w.seen = Now /\ (w.at = "apply" => e.type \notin Reporting)
    OBVIOUS
  <2> HIDE DEF w
  <2>3. \A b \in Actors : act'[b] = IF b = a THEN w ELSE act[b]
    BY <1>a, <2>1 DEF TypeOK
  <2>4. IF e.type = "checkout" THEN period \in FreePeriods /\ ~paid ELSE paid
    <3>1. e.type = "checkout" => Waits("checkout")
      BY <1>1, <1>5 DEF Waits
    <3>2. ~paid => period \in FreePeriods
      BY <1>a DEF CalmState, CalmPlan, FreePeriods, TypeOK
    <3> QED
      BY <1>6, <3>1, <3>2 DEF CalmState, CalmPlan
  <2>5. CalmHooks'
    <3> SUFFICES ASSUME NEW h \in Hooks, act'[h].at # "idle"
                 PROVE  /\ \A f \in pending' : Rank(act'[h].ev) <= Rank(f)
                        /\ IF act'[h].ev.type = "checkout"
                           THEN act'[h].seen.period \in FreePeriods /\ ~act'[h].seen.paid
                           ELSE paid' /\ act'[h].seen.period = period' /\ act'[h].seen.paid
      BY DEF CalmHooks
    <3>1. CASE h = a
      <4>1. act'[h].ev = e /\ act'[h].seen = Now
        BY <1>a, <2>2, <2>3, <3>1
      <4> QED
        BY <1>2, <2>1, <2>4, <4>1 DEF Now
    <3>2. CASE h # a
      <4>1. act'[h] = act[h]
        BY <1>a, <2>3, <3>2
      <4> QED
        BY <1>2, <2>1, <4>1 DEF CalmState, CalmHooks
    <3> QED
      BY <3>1, <3>2
  <2>6. CalmLock'
    BY <1>1, <2>2, <2>3 DEF CalmState, CalmLock
  <2> QED
    BY <1>1, <1>2, <1>3, <1>4, <2>1, <2>5, <2>6, CalmSteady DEF Waits
<1>7. CASE ~(paid \/ e.type = "checkout")
  <2>1. pending' = pending \ {e} /\ act' = act
    BY <1>7 DEF StartHook
  <2>2. CalmHooks'
    BY <1>2, <2>1, HooksSteady DEF CalmState
  <2>3. CalmLock'
    BY <1>1, <2>1 DEF CalmState, CalmLock
  <2>4. Waits("checkout") => Waits("checkout")'
    BY <1>1, <1>5, <1>7, <2>1 DEF Waits
  <2> QED
    BY <1>1, <1>2, <1>3, <1>4, <1>7, <2>1, <2>2, <2>3, <2>4, CalmSteady
<1> QED
  BY <1>6, <1>7

(* The lock is taken by one that will report, or, by those that report     *)
(* nothing without it, not at all.                                         *)
LEMMA CalmTryLock ==
    ASSUME ShapeInv, ShapeInv', CalmState, NEW a \in Actors, TryLock(a),
           lock = Free \/ ~GoesOnUnlocked(act[a].ev), UNCHANGED <<over, resets, reset>>
    PROVE  CalmState'
<1> USE LockFacts
<1>a. TypeOK /\ Job \notin Hooks /\ Hooks \subseteq Actors
  BY ShapeTypes, BillingAssumption DEF Actors
<1>1. /\ UNCHANGED <<subVars, recordVars, open, items, charged, stripeNow, canceled, faults>>
      /\ act[a].at = "lock"
  BY DEF TryLock
<1>2. UNCHANGED <<paid, period, exists, billed, count>>
  BY <1>1 DEF subVars, recordVars
<1>3. CalmResets'
  BY <1>1, <1>2 DEF CalmState, CalmResets
<1>4. \A p \in Periods, c \in Categories : charged'[p][c] >= charged[p][c]
  BY <1>1, ShapeTypes
<1>5. CASE /\ lock = Free /\ lock' = a
           /\ Become(a, [act[a] EXCEPT !.at = "report", !.seen = IF a = Job THEN Now ELSE @])
           /\ UNCHANGED pending
  <2> DEFINE w == [act[a] EXCEPT !.at = "report", !.seen = IF a = Job THEN Now ELSE @]
  <2>1. w.at = "report" /\ w.ev = act[a].ev /\ (a # Job => w.seen = act[a].seen)
    BY <1>a DEF TypeOK, Actor
  <2>2. act' = [act EXCEPT ![a] = w]
    BY <1>5 DEF Become
  <2> HIDE DEF w
  <2>3. \A b \in Actors : act'[b] = IF b = a THEN w ELSE act[b]
    BY <1>a, <2>2 DEF TypeOK
  <2>4. CalmHooks'
    <3>1. \A h \in Hooks : act'[h].at # "idle" =>
             act[h].at # "idle" /\ act'[h].ev = act[h].ev /\ act'[h].seen = act[h].seen
      BY <1>1, <1>a, <2>1, <2>3
    <3> QED
      BY <1>2, <1>5, <3>1, HooksSteady DEF CalmState
  <2>5. CalmLock'
    BY <1>5, <2>1, <2>3 DEF CalmState, CalmLock
  <2>6. lock' # Request /\ pending' = pending
    BY <1>5
  <2> QED
    BY <1>1, <1>2, <1>3, <1>4, <2>4, <2>5, <2>6, CalmSteady DEF Waits
<1>6. CASE /\ ~GoesOnUnlocked(act[a].ev) /\ Become(a, NoWork)
           /\ pending' = pending \ {act[a].ev} /\ UNCHANGED lock
  <2>1. \A b \in Actors : act'[b] = IF b = a THEN NoWork ELSE act[b]
    BY <1>a, <1>6 DEF Become, TypeOK
  <2>2. NoWork.at = "idle"
    BY DEF NoWork
  <2>3. CalmHooks'
    <3>1. \A h \in Hooks : act'[h].at # "idle" => act[h].at # "idle" /\ act'[h] = act[h]
      BY <1>a, <2>1, <2>2
    <3> QED
      BY <1>2, <1>6, <3>1, HooksSteady DEF CalmState
  <2>4. CalmLock'
    BY <1>6, <2>1, <2>2 DEF CalmState, CalmLock
  <2>5. act[a].ev.type \notin {"checkout", "renewal"}
    <3>1. CASE a = Job
      BY <3>1 DEF ShapeInv, WorkShape, Bill
    <3>2. CASE a \in Hooks
      BY <1>1, <1>6, <3>2 DEF ShapeInv, WorkShape, Reporting, GoesOnUnlocked
    <3> QED
      BY <3>1, <3>2 DEF Actors
  <2>6. \A t \in {"checkout", "renewal"} : Waits(t) => Waits(t)'
    BY <1>1, <1>6, <2>5 DEF Waits
  <2>7. pending' \subseteq pending /\ lock' = lock /\ open' = open
    BY <1>1, <1>6
  <2> QED
    BY <1>1, <1>2, <1>3, <1>4, <2>3, <2>4, <2>6, <2>7, CalmSteady
<1> QED
  BY <1>5, <1>6 DEF TryLock

(* A report adds to Stripe's totals, and its reporter holds the lock.      *)
LEMMA CalmReport ==
    ASSUME ShapeInv, ShapeInv', CalmState, NEW a \in Actors, Report(a),
           UNCHANGED <<over, resets, reset>>
    PROVE  CalmState'
<1>a. TypeOK /\ Hooks \subseteq Actors /\ WatermarkInv
  BY ShapeTypes DEF Actors
<1>1. /\ UNCHANGED <<subVars, recordVars, lock, open, stripeNow, canceled, pending, faults>>
      /\ act[a].at = "report" /\ act' = [act EXCEPT ![a] = [act[a] EXCEPT !.at = "apply"]]
      /\ lock = a
  BY DEF Report, Become, ShapeInv, OnceInv, ReportLocked
<1>2. UNCHANGED <<paid, period, exists, billed, count>>
  BY <1>1 DEF subVars, recordVars
<1>3. CalmResets'
  BY <1>1, <1>2 DEF CalmState, CalmResets
<1>4. \A p \in Periods, c \in Categories : charged'[p][c] >= charged[p][c]
  <2>1. NumCategories \in 0..NumCategories /\ CreateItems(a, NumCategories)
    BY BillingAssumption DEF Report
  <2> QED
    BY <1>a, <2>1, ItemsCharge
<1>5. /\ \A b \in Actors : b # a => act'[b] = act[b]
      /\ act'[a].ev = act[a].ev /\ act'[a].seen = act[a].seen
  BY <1>a, <1>1 DEF TypeOK, Actor
<1>6. CalmHooks'
  <2>1. \A h \in Hooks : act'[h].at # "idle" =>
           act[h].at # "idle" /\ act'[h].ev = act[h].ev /\ act'[h].seen = act[h].seen
    BY <1>a, <1>1, <1>5
  <2> QED
    BY <1>1, <1>2, <2>1, HooksSteady DEF CalmState
<1>7. CalmLock'
  BY <1>1, <1>5 DEF CalmState, CalmLock
<1> QED
  BY <1>1, <1>2, <1>3, <1>4, <1>6, <1>7, CalmSteady DEF Waits

(* Stripe changes the subscription when the last change has been handled.  *)
LEMMA CalmStripe ==
    ASSUME ShapeInv, ShapeInv', CalmState, Stripe, UNCHANGED <<over, resets, reset>>
    PROVE  CalmState'
<1> USE BillingAssumption
<1>a. TypeOK
  BY ShapeTypes
<1>1. /\ UNCHANGED <<subVars, recordVars, lock, open, act, items, charged, faults>>
      /\ pending = {} /\ \A h \in Hooks : act[h].at = "idle"
  BY DEF Stripe, Subscribe, Cancel, Renew, Settled
<1>2. UNCHANGED <<paid, period, exists, billed, count>>
  BY <1>1 DEF subVars, recordVars
<1>3. CalmResets' /\ CalmHooks' /\ CalmLock' /\ CalmFree' /\ NothingForfeited'
  BY <1>1, <1>2 DEF CalmState, CalmResets, CalmHooks, CalmLock, CalmFree, NothingForfeited
<1>4. \A t : ~Waits(t)
  BY <1>1 DEF Waits
<1>5. /\ paid <=> period \in StripePeriods
      /\ paid => period = stripeNow
      /\ ~paid /\ ~canceled => stripeNow = 0
  BY <1>4 DEF CalmState, CalmPlan
<1>6. CalmBilled'
  <2>1. canceled' \/ canceled' = canceled
    BY DEF Stripe, Subscribe, Cancel, Renew
  <2> QED
    BY <1>2, <2>1 DEF CalmState, CalmBilled
<1>7. CalmPlan'
  <2>1. CASE Subscribe
    <3>1. ~paid
      BY <1>5, <2>1 DEF Subscribe, StripePeriods
    <3>2. stripeNow' = 1 /\ pending' = {[type |-> t, per |-> 1] : t \in {"checkout", "signup"}}
      BY <2>1 DEF Subscribe, Emit
    <3>3. Waits("checkout")' /\ ~Waits("deleted")'
      BY <3>2 DEF Waits
    <3> QED
      BY <1>2, <1>5, <3>1, <3>3 DEF CalmPlan
  <2>2. CASE Cancel
    <3>1. paid
      BY <1>5, <2>2 DEF Cancel
    <3>2. stripeNow' = stripeNow /\ pending' = {[type |-> t, per |-> stripeNow] : t \in {"deleted"}}
      BY <2>2 DEF Cancel, Emit
    <3>3. ~Waits("checkout")' /\ ~Waits("renewal")'
      BY <3>2 DEF Waits
    <3> QED
      BY <1>2, <1>5, <3>1, <3>2, <3>3 DEF CalmPlan
  <2>3. ASSUME NEW f \in BOOLEAN, Renew(f) PROVE CalmPlan'
    <3> DEFINE types == {"created", "renewal", "updated"} \cup (IF f THEN {"failed"} ELSE {})
    <3>1. stripeNow \in Nat /\ paid
      BY <1>5, <2>3 DEF Renew
    <3>2. stripeNow' = stripeNow + 1 /\ pending' = {[type |-> t, per |-> stripeNow'] : t \in types}
      BY <2>3 DEF Renew, Emit
    <3>3. "renewal" \in types /\ "checkout" \notin types
      OBVIOUS
    <3> HIDE DEF types
    <3>4. Waits("renewal")' /\ ~Waits("checkout")'
      BY <3>2, <3>3 DEF Waits
    <3>5. stripeNow' - 1 = stripeNow
      BY <3>1, <3>2
    <3> QED
      BY <1>2, <1>5, <3>1, <3>4, <3>5 DEF CalmPlan
  <2> QED
    BY <2>1, <2>2, <2>3 DEF Stripe
<1> QED
  BY <1>3, <1>6, <1>7 DEF CalmState

(* A free month ends, and a reset is queued, starts or is refused: the     *)
(* subscription stays where it is.                                         *)
LEMMA CalmWaitingReset ==
    ASSUME ShapeInv, ShapeInv', CalmState, calm' = calm,
           FreeMonthEnds \/ DispatchReset \/ StartReset \/ ResetRefused
    PROVE  CalmState'
<1>1. UNCHANGED vars
  BY DEF FreeMonthEnds, DispatchReset, StartReset, ResetRefused
<1>2. UNCHANGED <<paid, status, period, exists, billed, count, lock, open, act, charged,
                  stripeNow, canceled, pending, faults>>
  BY <1>1 DEF vars, subVars, recordVars, stripeVars
<1>3. over \subseteq over'
  BY DEF FreeMonthEnds, DispatchReset, StartReset, ResetRefused
<1>4. CalmHooks' /\ CalmLock'
  BY <1>2 DEF CalmState, CalmHooks, CalmLock
<1>5. CalmResets'
  <2>1. CASE FreeMonthEnds
    BY <1>2, <1>3, <2>1 DEF FreeMonthEnds, CalmState, CalmResets
  <2>2. CASE DispatchReset
    BY <1>2, <2>2 DEF DispatchReset, DueForReset, CalmState, CalmResets
  <2>3. CASE StartReset
    BY <1>2, <2>3 DEF StartReset, CalmState, CalmResets
  <2>4. CASE ResetRefused
    <3>1. resets = 1 /\ resets' \in {0, 1} /\ reset' = {} /\ over' = over
      BY <2>4 DEF ResetRefused, CalmState, CalmResets, ShapeInv, ResetShape
    <3> QED
      BY <1>2, <3>1 DEF CalmState, CalmResets
  <2> QED
    BY <2>1, <2>2, <2>3, <2>4
<1>6. \A p \in Periods, c \in Categories : charged'[p][c] >= charged[p][c]
  BY <1>2, ShapeTypes
<1> QED
  BY <1>2, <1>3, <1>4, <1>5, <1>6, CalmSteady DEF Waits

(* The reset moves a free subscription to the free month that follows.     *)
LEMMA CalmReset ==
    ASSUME ShapeInv, ShapeInv', CalmState, CommitReset, calm'
    PROVE  calm /\ CalmState'
<1>a. TypeOK
  BY ShapeTypes
<1>1. /\ lock = Free
      /\ UNCHANGED <<paid, status, billed, count, reported, lock, open, act, items, charged,
                     stripeNow, canceled, pending, over, faults>>
      /\ resets' = resets - 1 /\ reset' = {} /\ calm' = calm
  BY DEF CommitReset, stripeVars
<1>2. /\ period \in reset /\ period \in over /\ period \in FreePeriods
      /\ resets' = 0
  <2>1. reset # {}
    BY DEF CommitReset
  <2> QED
    BY <1>1, <2>1 DEF CalmState, CalmResets, ShapeInv, ResetShape
<1>3. /\ period' = After(period) /\ exists' = exists \cup {period'}
      /\ period' \in Periods /\ period' \in FreePeriods
  BY <1>2, FreeFacts DEF CommitReset, CalmState, CalmResets, FreePeriods
<1>4. ~paid
  BY <1>2 DEF CalmState, CalmPlan, FreePeriods
<1>5. CalmResets'
  BY <1>1, <1>2 DEF CalmState, CalmResets
<1>6. CalmPlan'
  BY <1>1, <1>3, <1>4 DEF CalmState, CalmPlan, Waits, FreePeriods
<1>7. CalmHooks' /\ CalmLock'
  BY <1>1, <1>4 DEF CalmState, CalmHooks, CalmLock
<1>8. CalmBilled'
  BY <1>1, <1>4 DEF CalmState, CalmBilled
<1>9. CalmFree'
  BY <1>1, <1>2, <1>3, LockFacts DEF CalmState, CalmFree
<1>10. NothingForfeited'
  BY <1>1, <1>2 DEF CalmState, NothingForfeited, FreePeriods
<1> QED
  BY <1>1, <1>5, <1>6, <1>7, <1>8, <1>9, <1>10 DEF CalmState

(* The handler that closes a period holds the lock and has reported it.    *)
LEMMA ClosedIsInvoiced ==
    ASSUME ShapeInv, CalmState, NEW a \in Hooks, act[a].at = "apply",
           act[a].ev.type \in {"renewal", "deleted"}
    PROVE  \A c \in Categories : charged[period][c] >= Over(count[period][c])
<1>a. a \in Actors /\ TypeOK /\ WatermarkInv /\ period \in Periods
  BY ShapeTypes DEF Actors, TypeOK
<1>1. lock = a
  BY <1>a DEF CalmState, CalmLock, Reporting
<1>2. paid /\ act[a].seen.period = period /\ act[a].seen.paid
  BY DEF CalmState, CalmHooks
<1>3. period \notin billed
  BY <1>2, <1>a DEF CalmState, CalmBilled, TypeOK, Periods
<1>4. CASE period \in exists
  <2>1. Billable(a)
    BY <1>2, <1>3, <1>4 DEF Billable
  <2> QED
    BY <1>a, <1>1, <1>2, <2>1 DEF WatermarkInv, SnapshotInvoiced
<1>5. CASE period \notin exists
  <2> TAKE c \in Categories
  <2>1. count[period][c] \in Nat /\ charged[period][c] \in Nat
    BY <1>a, ShapeTypes
  <2>2. count[period][c] = 0
    BY <1>5, <1>a, <2>1 DEF ShapeInv, UsageShape
  <2> QED
    BY <2>1, <2>2, BillingAssumption DEF Over
<1> QED
  BY <1>4, <1>5

(* What the commit of a webhook does while all is calm, event by event:    *)
(* the subscription is where the handler has read it.                      *)
LEMMA CommitTable ==
    ASSUME ShapeInv, CalmState, NEW a \in Hooks, NEW s \in SubscriptionStatus, Apply(a, s),
           faults' = faults
    PROVE  LET t == act[a].ev.type
               closed == IF period \in exists THEN billed \cup {period} ELSE billed
           IN  /\ pending' = pending \ {[type |-> t, per |-> stripeNow]}
               /\ t = "checkout" =>
                    /\ ~paid /\ period \in FreePeriods /\ ~canceled
                    /\ paid' = TRUE /\ period' = stripeNow
                    /\ billed' = billed /\ exists' = exists \cup {stripeNow}
               /\ t = "signup" =>
                    /\ paid /\ UNCHANGED <<paid, period, billed>>
                    /\ exists' = exists \cup {period}
               /\ t = "renewal" =>
                    /\ paid /\ period = stripeNow - 1
                    /\ paid' = paid /\ period' = stripeNow
                    /\ billed' = closed /\ exists' = exists \cup {stripeNow}
               /\ t = "deleted" =>
                    /\ paid /\ canceled
                    /\ paid' = FALSE /\ period' = HobbyAgain
                    /\ billed' = closed /\ exists' = exists \cup {HobbyAgain}
               /\ t \in {"created", "failed", "updated"} =>
                    paid /\ UNCHANGED <<paid, period, billed, exists>>
<1> DEFINE t == act[a].ev.type
           e == act[a].ev
           seen == act[a].seen
<1>a. a \in Actors /\ TypeOK
  BY ShapeTypes DEF Actors
<1>1. act[a].at = "apply" /\ act[a].at # "idle"
  BY DEF Apply
<1>2. /\ e \in pending /\ e = [type |-> t, per |-> stripeNow] /\ t \in EventTypes /\ Waits(t)
      /\ stripeNow \in StripePeriods
  BY <1>1, HookEvent
<1>3. pending' = pending \ {e}
  <2>1. faults \in Nat
    BY <1>a DEF TypeOK
  <2> QED
    BY <2>1 DEF Apply, Fault
<1>4. /\ period' = NewPeriod(e, seen)
      /\ billed' = IF Closes(e) /\ seen.period \in exists THEN billed \cup {seen.period} ELSE billed
      /\ exists' = IF t \in {"checkout", "signup", "renewal", "deleted"}
                   THEN exists \cup {period'} ELSE exists
      /\ paid' = CASE t = "checkout" -> Write(TRUE, seen.paid, paid)
                   [] t = "deleted" -> FALSE
                   [] OTHER -> paid
  BY DEF Apply
<1>5. IF t = "checkout"
      THEN seen.period \in FreePeriods /\ ~seen.paid
      ELSE paid /\ seen.period = period /\ seen.paid
  BY <1>1 DEF CalmState, CalmHooks
<1>6. CASE t = "checkout"
  <2>1. ~paid /\ period \in FreePeriods
    BY <1>2, <1>6, <1>a DEF CalmState, CalmPlan, FreePeriods, TypeOK
  <2>2. ~canceled
    BY <1>2, <1>6 DEF ShapeInv, PendingShape
  <2>3. period' = stripeNow
    BY <1>2, <1>4, <1>5, <1>6 DEF NewPeriod, Write, FreePeriods
  <2>4. paid' = TRUE /\ billed' = billed
    BY <1>4, <1>5, <1>6 DEF Write, Closes
  <2> QED
    BY <1>2, <1>3, <1>4, <1>6, <2>1, <2>2, <2>3, <2>4
<1>7. ASSUME t \in {"signup", "updated"} PROVE period = stripeNow /\ paid
  <2>1. ~Waits("renewal")
    <3>1. CASE t = "signup"
      BY <1>2, <3>1 DEF ShapeInv, PendingShape, First, Monthly, Waits
    <3>2. CASE t = "updated"
      <4>1. Waits("renewal") => Rank(e) <= Rank([type |-> "renewal", per |-> stripeNow])
        BY <1>1 DEF CalmState, CalmHooks, Waits
      <4>2. Rank(e) = 4 /\ Rank([type |-> "renewal", per |-> stripeNow]) = 3
        BY <3>2 DEF Rank
      <4> QED
        BY <4>1, <4>2
    <3> QED
      BY <1>7, <3>1, <3>2
  <2>2. paid
    BY <1>5, <1>7
  <2> QED
    BY <2>1, <2>2 DEF CalmState, CalmPlan
<1>8. CASE t = "signup"
  <2>1. period' = stripeNow /\ paid' = paid /\ billed' = billed
    BY <1>4, <1>8 DEF NewPeriod, Closes
  <2> QED
    BY <1>2, <1>3, <1>4, <1>7, <1>8, <2>1
<1>9. CASE t = "renewal"
  <2>1. period' = stripeNow /\ paid' = paid
    BY <1>4, <1>9 DEF NewPeriod
  <2>2. billed' = IF period \in exists THEN billed \cup {period} ELSE billed
    BY <1>4, <1>5, <1>9 DEF Closes
  <2>3. paid /\ period = stripeNow - 1
    BY <1>2, <1>5, <1>9 DEF CalmState, CalmPlan
  <2> QED
    BY <1>2, <1>3, <1>4, <1>9, <2>1, <2>2, <2>3
<1>10. CASE t = "deleted"
  <2>1. period' = HobbyAgain /\ paid' = FALSE
    BY <1>4, <1>10 DEF NewPeriod
  <2>2. billed' = IF period \in exists THEN billed \cup {period} ELSE billed
    BY <1>4, <1>5, <1>10 DEF Closes
  <2>3. paid /\ canceled
    BY <1>2, <1>5, <1>10 DEF ShapeInv, PendingShape
  <2> QED
    BY <1>2, <1>3, <1>4, <1>10, <2>1, <2>2, <2>3
<1>11. CASE t \in {"created", "failed", "updated"}
  <2>1. paid
    BY <1>5, <1>11
  <2>2. period' = period
    <3>1. CASE t = "updated"
      <4>1. e.per = stripeNow /\ stripeNow = period /\ seen.period = period
        BY <1>2, <1>5, <1>7, <3>1
      <4> QED
        BY <1>4, <3>1, <4>1 DEF NewPeriod, Write
    <3>2. CASE t \in {"created", "failed"}
      BY <1>4, <3>2 DEF NewPeriod
    <3> QED
      BY <1>11, <3>1, <3>2
  <2>3. paid' = paid /\ billed' = billed /\ exists' = exists
    BY <1>4, <1>11 DEF Closes
  <2> QED
    BY <1>2, <1>3, <1>11, <2>1, <2>2, <2>3
<1> QED
  BY <1>2, <1>6, <1>8, <1>9, <1>10, <1>11 DEF EventTypes

(* The commit of a webhook keeps the calm, unless it fails or overtakes a  *)
(* reset.                                                                  *)
LEMMA CalmHookCommit ==
    ASSUME ShapeInv, ShapeInv', CalmState, NEW a \in Hooks, NEW s \in SubscriptionStatus,
           Apply(a, s), faults' = faults, resets = 0, UNCHANGED <<over, resets, reset>>
    PROVE  CalmState'
<1> DEFINE t == act[a].ev.type
           closed == IF period \in exists THEN billed \cup {period} ELSE billed
<1> USE LockFacts
<1>a. a \in Actors /\ Hooks \subseteq Actors /\ TypeOK /\ period \in Periods
  BY ShapeTypes DEF Actors, TypeOK
<1>0. act[a].at = "apply" /\ act[a].at # "idle" /\ t \in EventTypes /\ Waits(t)
      /\ stripeNow \in StripePeriods /\ stripeNow \in Nat
  <2>1. act[a].at = "apply" /\ act[a].at # "idle"
    BY DEF Apply
  <2>2. t \in EventTypes /\ Waits(t) /\ stripeNow \in StripePeriods
    BY <2>1, HookEvent
  <2> QED
    BY <2>1, <2>2, BillingAssumption DEF StripePeriods
<1>1. /\ lock \in {Free, a} /\ lock' = Free /\ act' = [act EXCEPT ![a] = NoWork]
      /\ UNCHANGED <<count, open, items, charged, stripeNow, canceled>>
  BY DEF Apply, Become
<1>2. \A b \in Actors : act'[b] = IF b = a THEN NoWork ELSE act[b]
  BY <1>1, <1>a DEF TypeOK
<1>3. \A h \in Hooks : act'[h].at = "idle"
  <2> TAKE h \in Hooks
  <2>1. CASE h = a
    BY <1>a, <1>2, <2>1 DEF NoWork
  <2>2. CASE h # a
    BY <1>0, <1>a, <1>2, <2>2, OneHook DEF CalmState
  <2> QED
    BY <2>1, <2>2
<1>4. CalmHooks'
  BY <1>3 DEF CalmHooks
<1>5. CalmLock'
  <2>1. \A b \in Actors : b # a => ~(act[b].at = "apply" /\ act[b].ev.type \in Reporting)
    BY <1>1 DEF CalmState, CalmLock
  <2> QED
    BY <1>1, <1>2, <2>1 DEF CalmLock, NoWork
<1>6. CalmResets'
  <2>1. reset = {}
    BY DEF ShapeInv, ResetShape
  <2> QED
    BY <2>1 DEF CalmState, CalmResets
<1>7. /\ pending' = pending \ {[type |-> t, per |-> stripeNow]}
      /\ t = "checkout" =>
           /\ ~paid /\ period \in FreePeriods /\ ~canceled
           /\ paid' = TRUE /\ period' = stripeNow
           /\ billed' = billed /\ exists' = exists \cup {stripeNow}
      /\ t = "signup" =>
           paid /\ UNCHANGED <<paid, period, billed>> /\ exists' = exists \cup {period}
      /\ t = "renewal" =>
           /\ paid /\ period = stripeNow - 1
           /\ paid' = paid /\ period' = stripeNow
           /\ billed' = closed /\ exists' = exists \cup {stripeNow}
      /\ t = "deleted" =>
           /\ paid /\ canceled
           /\ paid' = FALSE /\ period' = HobbyAgain
           /\ billed' = closed /\ exists' = exists \cup {HobbyAgain}
      /\ t \in {"created", "failed", "updated"} =>
           paid /\ UNCHANGED <<paid, period, billed, exists>>
  BY CommitTable
<1>8. /\ \A u : Waits(u)' <=> Waits(u) /\ u # t
      /\ t = "checkout" => ~Waits("renewal")
      /\ t # "checkout" => paid
      /\ paid => period \in StripePeriods
  <2>1. \A u : Waits(u)' <=> Waits(u) /\ u # t
    BY <1>1, <1>7 DEF Waits
  <2>2. t = "checkout" => ~Waits("renewal")
    BY <1>0 DEF ShapeInv, PendingShape, First, Monthly, Waits
  <2> QED
    BY <1>0, <1>7, <2>1, <2>2 DEF CalmState, CalmPlan, EventTypes
<1> HIDE DEF closed
<1>c. closed \in {billed, billed \cup {period}}
  BY DEF closed
<1>9. CalmPlan'
  <2>1. CASE t = "checkout"
    BY <1>0, <1>1, <1>7, <1>8, <2>1 DEF CalmPlan
  <2>2. CASE t = "renewal"
    BY <1>0, <1>1, <1>7, <1>8, <2>2 DEF CalmState, CalmPlan
  <2>3. CASE t = "deleted"
    BY <1>1, <1>7, <1>8, <2>3, FreeFacts DEF CalmState, CalmPlan
  <2>4. CASE t \in {"signup", "created", "failed", "updated"}
    BY <1>1, <1>7, <1>8, <2>4 DEF CalmState, CalmPlan
  <2> QED
    BY <1>0, <2>1, <2>2, <2>3, <2>4 DEF EventTypes
<1>10. CalmBilled'
  <2>1. CASE t = "checkout"
    BY <1>1, <1>7, <2>1 DEF CalmState, CalmBilled
  <2>2. CASE t = "renewal"
    <3>1. \A p \in billed' : p \in StripePeriods /\ p < stripeNow
      <4>1. \A p \in billed : p \in StripePeriods /\ p < period
        BY <1>7, <2>2 DEF CalmState, CalmBilled
      <4>2. period \in StripePeriods /\ period = stripeNow - 1
        BY <1>7, <1>8, <2>2
      <4>3. \A p \in billed' : p \in billed \/ p = period
        BY <1>7, <1>c, <2>2
      <4> QED
        BY <1>0, <4>1, <4>2, <4>3 DEF StripePeriods
    <3> QED
      BY <1>1, <1>7, <2>2, <3>1 DEF CalmBilled
  <2>3. CASE t = "deleted"
    <3>1. \A p \in billed' : p \in StripePeriods
      BY <1>7, <1>8, <1>c, <2>3 DEF CalmState, CalmBilled
    <3> QED
      BY <1>1, <1>7, <2>3, <3>1 DEF CalmBilled
  <2>4. CASE t \in {"signup", "created", "failed", "updated"}
    BY <1>1, <1>7, <1>8, <2>4 DEF CalmState, CalmBilled
  <2> QED
    BY <1>0, <2>1, <2>2, <2>3, <2>4 DEF EventTypes
<1>11. CalmFree'
  <2>1. /\ exists \subseteq exists'
        /\ \A p \in exists' \cap FreePeriods : p \in exists \/ p = HobbyAgain
        /\ period' \in FreePeriods => period' = HobbyAgain /\ period' \in exists'
    <3>1. CASE t \in {"checkout", "renewal"}
      BY <1>0, <1>7, <3>1 DEF FreePeriods
    <3>2. CASE t = "deleted"
      BY <1>7, <3>2
    <3>3. CASE t \in {"signup", "created", "failed", "updated"}
      BY <1>7, <1>8, <3>3 DEF FreePeriods
    <3> QED
      BY <1>0, <3>1, <3>2, <3>3 DEF EventTypes
  <2> QED
    BY <1>1, <2>1 DEF CalmState, CalmFree
<1>12. NothingForfeited'
  <2> SUFFICES ASSUME NEW p \in StripePeriods, p \in billed' \/ p # period', NEW c \in Categories
               PROVE  charged'[p][c] >= Over(count'[p][c])
    BY DEF NothingForfeited
  <2>1. CASE p \in billed \/ p # period
    BY <1>1, <2>1 DEF CalmState, NothingForfeited
  <2>2. CASE ~(p \in billed \/ p # period)
    <3>1. p = period /\ p \notin billed /\ period \in StripePeriods
      BY <2>2
    <3>2. t \in {"renewal", "deleted"}
      BY <1>0, <1>7, <3>1 DEF EventTypes, FreePeriods
    <3> QED
      BY <1>0, <1>1, <3>1, <3>2, ClosedIsInvoiced
  <2> QED
    BY <2>1, <2>2
<1> QED
  BY <1>4, <1>5, <1>6, <1>9, <1>10, <1>11, <1>12 DEF CalmState

(* The hourly job's commit moves the watermark and nothing of the          *)
(* subscription.                                                           *)
LEMMA CalmJobCommit ==
    ASSUME ShapeInv, ShapeInv', CalmState, NEW s \in SubscriptionStatus, Apply(Job, s),
           UNCHANGED <<over, resets, reset>>
    PROVE  CalmState'
<1> USE LockFacts
<1>a. Job \notin Hooks /\ Hooks \subseteq Actors /\ TypeOK
  BY ShapeTypes, BillingAssumption DEF Actors
<1>1. act[Job].ev = Bill /\ Bill.type = "bill" /\ Bill \notin pending
  BY <1>a DEF ShapeInv, WorkShape, Bill, TypeOK, Event, EventTypes
<1>2. /\ lock' = Free /\ lock \in {Free, Job} /\ act' = [act EXCEPT ![Job] = NoWork]
      /\ UNCHANGED <<count, open, items, charged, stripeNow, canceled, paid, period, exists, billed>>
      /\ pending' = pending /\ faults' = faults
  BY <1>1 DEF Apply, Become, NewPeriod, Closes
<1>3. \A b \in Actors : act'[b] = IF b = Job THEN NoWork ELSE act[b]
  BY <1>2, <1>a DEF TypeOK
<1>4. CalmHooks'
  BY <1>a, <1>2, <1>3, HooksSteady DEF CalmState
<1>5. CalmLock'
  BY <1>2, <1>3 DEF CalmState, CalmLock, NoWork
<1>6. CalmResets'
  BY <1>2 DEF CalmState, CalmResets
<1>7. \A p \in Periods, c \in Categories : charged'[p][c] >= charged[p][c]
  BY <1>2, ShapeTypes
<1> QED
  BY <1>2, <1>4, <1>5, <1>6, <1>7, CalmSteady DEF Waits

(* While all stays calm, every step keeps what is so of the calm.          *)
LEMMA NextCalm == ShapeInv /\ CalmInv /\ [SubscriptionsNext]_allVars => CalmInv'
<1> SUFFICES ASSUME ShapeInv, CalmInv, [SubscriptionsNext]_allVars, calm' PROVE CalmState'
  BY DEF CalmInv
<1>a. ShapeInv'
  BY NextShape
<1>1. CASE (Requests \/ BillJob \/ Stripe) /\ Stays(TRUE)
  <2>1. calm /\ UNCHANGED <<over, resets, reset>>
    BY <1>1 DEF Stays
  <2> QED
    BY <1>a, <1>1, <2>1, CalmRequests, CalmBillJob, CalmStripe DEF CalmInv
<1>2. ASSUME NEW a \in Hooks, NEW e \in Event, Hook(a, e) PROVE CalmState'
  <2>1. /\ calm /\ UNCHANGED <<over, resets, reset>> /\ StartHook(a, e)
        /\ \A f \in pending : Rank(e) <= Rank(f)
    BY <1>2 DEF Hook, Stays
  <2> QED
    BY <1>a, <2>1, CalmHook DEF CalmInv
<1>3. ASSUME NEW a \in Actors, Lock(a) PROVE CalmState'
  <2>1. /\ calm /\ UNCHANGED <<over, resets, reset>> /\ TryLock(a)
        /\ lock = Free \/ ~GoesOnUnlocked(act[a].ev)
    BY <1>3 DEF Lock, Stays
  <2> QED
    BY <1>a, <2>1, CalmTryLock DEF CalmInv
<1>4. ASSUME NEW a \in Actors, Reports(a) PROVE CalmState'
  <2>1. calm /\ UNCHANGED <<over, resets, reset>> /\ Report(a)
    BY <1>4 DEF Reports, Stays
  <2> QED
    BY <1>a, <2>1, CalmReport DEF CalmInv
<1>5. ASSUME NEW a \in Actors, Fails(a) PROVE CalmState'
  BY <1>5 DEF Fails, Stays
<1>6. ASSUME NEW a \in Actors, NEW s \in SubscriptionStatus, Commits(a, s) PROVE CalmState'
  <2>1. /\ calm /\ UNCHANGED <<over, resets, reset>> /\ Apply(a, s)
        /\ faults' = faults /\ (a \in Hooks => resets = 0)
    BY <1>6 DEF Commits, Stays
  <2>2. CASE a \in Hooks
    BY <1>a, <2>1, <2>2, CalmHookCommit DEF CalmInv
  <2>3. CASE a = Job
    BY <1>a, <2>1, <2>3, CalmJobCommit DEF CalmInv
  <2> QED
    BY <2>2, <2>3 DEF Actors
<1>7. CASE FreeMonthEnds \/ DispatchReset \/ StartReset \/ ResetRefused
  <2>1. calm' = calm
    BY <1>7 DEF FreeMonthEnds, DispatchReset, StartReset, ResetRefused
  <2> QED
    BY <1>a, <1>7, <2>1, CalmWaitingReset DEF CalmInv
<1>8. CASE CommitReset
  <2>1. calm
    BY <1>8 DEF CommitReset, ShapeInv, ResetShape
  <2> QED
    BY <1>a, <1>8, <2>1, CalmReset DEF CalmInv
<1>9. CASE ResetRaises
  BY <1>9 DEF ResetRaises
<1>10. CASE UNCHANGED allVars
  BY <1>10
  DEF allVars, vars, subVars, recordVars, stripeVars, CalmInv, CalmState, CalmResets, CalmPlan,
      CalmHooks, CalmLock, CalmBilled, CalmFree, NothingForfeited, Waits
<1> QED
  BY <1>1, <1>2, <1>3, <1>4, <1>5, <1>6, <1>7, <1>8, <1>9, <1>10 DEF SubscriptionsNext

(* The first state is calm.                                                *)
LEMMA InitCalm == SubscriptionsInit => CalmInv
<1> SUFFICES ASSUME SubscriptionsInit PROVE CalmState
  BY DEF CalmInv
<1> USE BillingAssumption, LockFacts, FreeFacts DEF SubscriptionsInit, Init
<1>1. \A p \in Periods, c \in Categories : count[p][c] = 0 /\ charged[p][c] = 0
  BY DEF NoUsage
<1>2. \A a \in Actors : act[a].at = "idle"
  BY DEF NoWork
<1>3. CalmResets /\ CalmBilled
  BY DEF CalmResets, CalmBilled
<1>4. CalmPlan
  BY DEF CalmPlan, Waits
<1>5. CalmHooks /\ CalmLock
  BY <1>2 DEF CalmHooks, CalmLock, Actors
<1>6. CalmFree
  BY <1>1 DEF CalmFree, FreePeriods
<1>7. NothingForfeited
  BY <1>1 DEF NothingForfeited, Over
<1> QED
  BY <1>3, <1>4, <1>5, <1>6, <1>7 DEF CalmState

(* For any number of periods, categories and webhooks: while nothing       *)
(* fails, goes on without the lock or comes out of order, a period that is *)
(* left or closed has all of its overage invoiced.                         *)
THEOREM CalmCorrect == SubscriptionsSpec => []CalmlyInvoiced
<1>1. SubscriptionsInit => ShapeInv /\ CalmInv
  BY InitShape, InitCalm
<1>2. ShapeInv /\ CalmInv /\ [SubscriptionsNext]_allVars => ShapeInv' /\ CalmInv'
  BY NextShape, NextCalm
<1>3. ShapeInv /\ CalmInv => CalmlyInvoiced
  BY DEF CalmInv, CalmState, CalmlyInvoiced
<1> QED
  BY <1>1, <1>2, <1>3, PTL DEF SubscriptionsSpec

-----------------------------------------------------------------------------
(* The page and the free units                                             *)

(* A sum over an expression is the sum of the function it defines: both    *)
(* fill the same table.                                                    *)
LEMMA OverUsedSum ==
    TotalOverage = Sums([c \in Categories |-> Over(Used(c))], Categories)
<1> DEFINE f == [c \in Categories |-> Over(Used(c))]
           A(it) == [s \in SUBSET Categories |-> IF s = {} THEN 0
                       ELSE Over(Used(CHOOSE x \in s : TRUE)) + it[s \ {CHOOSE x \in s : TRUE}]]
           B(it) == [s \in SUBSET Categories |-> IF s = {} THEN 0
                       ELSE f[CHOOSE x \in s : TRUE] + it[s \ {CHOOSE x \in s : TRUE}]]
<1>1. \A it : A(it) = B(it)
  OBVIOUS
<1>2. TotalOverage = (CHOOSE it : it = A(it))[Categories]
  BY DEF TotalOverage, MapThenSumSet, MapThenFoldSet
<1>3. Sums(f, Categories) = (CHOOSE it : it = B(it))[Categories]
  BY DEF Sums, MapThenSumSet, MapThenFoldSet
<1> HIDE DEF A, B, f
<1>4. (CHOOSE it : it = A(it)) = (CHOOSE it : it = B(it))
  BY <1>1, Zenon
<1>5. TotalOverage = Sums(f, Categories)
  BY <1>2, <1>3, <1>4
<1> QED
  BY <1>5 DEF f

(* The sums of the billing page and of Stripe as Sums: what has been       *)
(* reported of a period,                                                   *)
LEMMA ReportedSum ==
    MapThenSumSet(LAMBDA c : Over(reported[period][c]), Categories)
      = Sums([c \in Categories |-> Over(reported[period][c])], Categories)
<1> DEFINE f == [c \in Categories |-> Over(reported[period][c])]
           A(it) == [s \in SUBSET Categories |-> IF s = {} THEN 0
                       ELSE Over(reported[period][CHOOSE x \in s : TRUE]) + it[s \ {CHOOSE x \in s : TRUE}]]
           B(it) == [s \in SUBSET Categories |-> IF s = {} THEN 0
                       ELSE f[CHOOSE x \in s : TRUE] + it[s \ {CHOOSE x \in s : TRUE}]]
<1>1. \A it : A(it) = B(it)
  OBVIOUS
<1>2. MapThenSumSet(LAMBDA c : Over(reported[period][c]), Categories) = (CHOOSE it : it = A(it))[Categories]
  BY DEF MapThenSumSet, MapThenFoldSet
<1>3. Sums(f, Categories) = (CHOOSE it : it = B(it))[Categories]
  BY DEF Sums, MapThenSumSet, MapThenFoldSet
<1> HIDE DEF A, B, f
<1>4. (CHOOSE it : it = A(it)) = (CHOOSE it : it = B(it))
  BY <1>1, Zenon
<1>5. MapThenSumSet(LAMBDA c : Over(reported[period][c]), Categories) = Sums(f, Categories)
  BY <1>2, <1>3, <1>4, Zenon
<1> QED
  BY <1>5, Zenon DEF f

(* what has been invoiced of it,                                           *)
LEMMA ChargedSum ==
    MapThenSumSet(LAMBDA c : charged[period][c], Categories)
      = Sums([c \in Categories |-> charged[period][c]], Categories)
<1> DEFINE f == [c \in Categories |-> charged[period][c]]
           A(it) == [s \in SUBSET Categories |-> IF s = {} THEN 0
                       ELSE charged[period][CHOOSE x \in s : TRUE] + it[s \ {CHOOSE x \in s : TRUE}]]
           B(it) == [s \in SUBSET Categories |-> IF s = {} THEN 0
                       ELSE f[CHOOSE x \in s : TRUE] + it[s \ {CHOOSE x \in s : TRUE}]]
<1>1. \A it : A(it) = B(it)
  OBVIOUS
<1>2. MapThenSumSet(LAMBDA c : charged[period][c], Categories) = (CHOOSE it : it = A(it))[Categories]
  BY DEF MapThenSumSet, MapThenFoldSet
<1>3. Sums(f, Categories) = (CHOOSE it : it = B(it))[Categories]
  BY DEF Sums, MapThenSumSet, MapThenFoldSet
<1> HIDE DEF A, B, f
<1>4. (CHOOSE it : it = A(it)) = (CHOOSE it : it = B(it))
  BY <1>1, Zenon
<1>5. MapThenSumSet(LAMBDA c : charged[period][c], Categories) = Sums(f, Categories)
  BY <1>2, <1>3, <1>4, Zenon
<1> QED
  BY <1>5, Zenon DEF f

(* what is still to be reported,                                           *)
LEMMA DeltaSum ==
    MapThenSumSet(LAMBDA c : Delta(period, c), Categories)
      = Sums([c \in Categories |-> Delta(period, c)], Categories)
<1> DEFINE f == [c \in Categories |-> Delta(period, c)]
           A(it) == [s \in SUBSET Categories |-> IF s = {} THEN 0
                       ELSE Delta(period, CHOOSE x \in s : TRUE) + it[s \ {CHOOSE x \in s : TRUE}]]
           B(it) == [s \in SUBSET Categories |-> IF s = {} THEN 0
                       ELSE f[CHOOSE x \in s : TRUE] + it[s \ {CHOOSE x \in s : TRUE}]]
<1>1. \A it : A(it) = B(it)
  OBVIOUS
<1>2. MapThenSumSet(LAMBDA c : Delta(period, c), Categories) = (CHOOSE it : it = A(it))[Categories]
  BY DEF MapThenSumSet, MapThenFoldSet
<1>3. Sums(f, Categories) = (CHOOSE it : it = B(it))[Categories]
  BY DEF Sums, MapThenSumSet, MapThenFoldSet
<1> HIDE DEF A, B, f
<1>4. (CHOOSE it : it = A(it)) = (CHOOSE it : it = B(it))
  BY <1>1, Zenon
<1>5. MapThenSumSet(LAMBDA c : Delta(period, c), Categories) = Sums(f, Categories)
  BY <1>2, <1>3, <1>4, Zenon
<1> QED
  BY <1>5, Zenon DEF f

(* and what was counted in the free months.                                *)
LEMMA FreeSum ==
    ASSUME NEW k
    PROVE  MapThenSumSet(LAMBDA p : count[p][k], FreePeriods)
             = Sums([p \in FreePeriods |-> count[p][k]], FreePeriods)
<1> DEFINE f == [p \in FreePeriods |-> count[p][k]]
           A(it) == [s \in SUBSET FreePeriods |-> IF s = {} THEN 0
                       ELSE count[CHOOSE x \in s : TRUE][k] + it[s \ {CHOOSE x \in s : TRUE}]]
           B(it) == [s \in SUBSET FreePeriods |-> IF s = {} THEN 0
                       ELSE f[CHOOSE x \in s : TRUE] + it[s \ {CHOOSE x \in s : TRUE}]]
<1>1. \A it : A(it) = B(it)
  OBVIOUS
<1>2. MapThenSumSet(LAMBDA p : count[p][k], FreePeriods) = (CHOOSE it : it = A(it))[FreePeriods]
  BY DEF MapThenSumSet, MapThenFoldSet
<1>3. Sums(f, FreePeriods) = (CHOOSE it : it = B(it))[FreePeriods]
  BY DEF Sums, MapThenSumSet, MapThenFoldSet
<1> HIDE DEF A, B, f
<1>4. (CHOOSE it : it = A(it)) = (CHOOSE it : it = B(it))
  BY <1>1, Zenon
<1>5. MapThenSumSet(LAMBDA p : count[p][k], FreePeriods) = Sums(f, FreePeriods)
  BY <1>2, <1>3, <1>4, Zenon
<1> QED
  BY <1>5, Zenon DEF f

(* A request that counts usage, or no one, holds the lock: then the page   *)
(* says what Stripe invoices.                                              *)
LEMMA PageExact == ShapeInv => PageTellsInvoices
<1> SUFFICES ASSUME ShapeInv, faults = 0, lock \in {Free, Request}
             PROVE  /\ ReportedOverage = MapThenSumSet(LAMBDA c : charged[period][c], Categories)
                    /\ PendingOverage = MapThenSumSet(LAMBDA c : Delta(period, c), Categories)
  BY DEF PageTellsInvoices
<1> USE LockFacts
<1>a. TypeOK /\ period \in Periods
  BY ShapeTypes DEF TypeOK
<1>b. IsFiniteSet(Categories)
  BY BillingAssumption, FS_Interval DEF Categories
<1>1. \A c \in Categories : charged[period][c] = Over(reported[period][c])
  <2>1. \A b \in Actors, q \in Periods : ~Reported(b, q)
    BY DEF Reported
  <2> QED
    BY <1>a, <2>1 DEF ShapeInv, OnceInv, ExactTotals
<1>2. \A c \in Categories :
         /\ reported[period][c] \in Nat /\ count[period][c] \in Nat
         /\ reported[period][c] <= count[period][c]
         /\ charged[period][c] \in Nat /\ Delta(period, c) \in Nat
  BY <1>a, DeltaNat DEF TypeOK, ShapeInv, OnceInv, ReportedBelow
<1>3. \A c \in Categories :
         /\ Over(reported[period][c]) <= Over(count[period][c])
         /\ Over(reported[period][c]) \in Nat /\ Over(count[period][c]) \in Nat
  BY <1>2, OverNat, OverMonotone
<1>4. \A c \in Categories : Over(count[period][c]) = Delta(period, c) + charged[period][c]
  BY <1>1, <1>3 DEF Delta
<1>5. ASSUME period \notin exists, NEW c \in Categories
      PROVE  count[period][c] = 0 /\ charged[period][c] = 0
  <2>1. count[period][c] = 0
    BY <1>a, <1>2, <1>5 DEF ShapeInv, UsageShape
  <2>2. reported[period][c] = 0
    BY <1>2, <2>1
  <2> QED
    BY <1>1, <2>1, <2>2, BillingAssumption DEF Over
<1>6. \A c \in Categories : Over(Used(c)) = Over(count[period][c])
  BY <1>5 DEF Used
<1> DEFINE u == [c \in Categories |-> Over(Used(c))]
           d == [c \in Categories |-> Delta(period, c)]
           r == [c \in Categories |-> Over(reported[period][c])]
           g == [c \in Categories |-> charged[period][c]]
<1>7. /\ u \in [Categories -> Nat] /\ d \in [Categories -> Nat] /\ g \in [Categories -> Nat]
      /\ \A c \in Categories : u[c] = d[c] + g[c]
      /\ r = g
  BY <1>1, <1>2, <1>3, <1>4, <1>6
<1>8. period \notin exists => g \in [Categories -> 0..0]
  BY <1>5
<1>9. TotalOverage = Sums(u, Categories)
  BY OverUsedSum
<1>10. MapThenSumSet(LAMBDA c : charged[period][c], Categories) = Sums(g, Categories)
  BY ChargedSum, Zenon
<1>11. MapThenSumSet(LAMBDA c : Delta(period, c), Categories) = Sums(d, Categories)
  BY DeltaSum, Zenon
<1>12. ReportedOverage = IF period \in exists THEN Sums(r, Categories) ELSE 0
  <2>1. MapThenSumSet(LAMBDA c : Over(reported[period][c]), Categories) = Sums(r, Categories)
    BY ReportedSum, Zenon
  <2> HIDE DEF r
  <2> QED
    BY <2>1, Zenon DEF ReportedOverage
<1> HIDE DEF u, d, r, g
<1>13. Sums(u, Categories) = Sums(d, Categories) + Sums(g, Categories)
       /\ Sums(d, Categories) \in Nat /\ Sums(g, Categories) \in Nat
  <2>1. \A c \in Categories : /\ d[c] \in Int /\ g[c] \in Int /\ u[c] = d[c] + g[c]
                             /\ d[c] \in Nat /\ g[c] \in Nat
    BY <1>7
  <2> QED
    BY <1>b, <2>1, SumsAdd, SumsNat
<1>14. period \notin exists => Sums(g, Categories) = 0
  <2> SUFFICES ASSUME period \notin exists PROVE Sums(g, Categories) = 0
    OBVIOUS
  <2>1. {c \in Categories : g[c] > 0} \in SUBSET Categories
    OBVIOUS
  <2>2. Cardinality({c \in Categories : g[c] > 0}) \in Nat
    BY <1>b, <2>1, FS_Subset, FS_CardinalityType
  <2>3. Sums(g, Categories) <= 0 * Cardinality({c \in Categories : g[c] > 0})
    BY <1>8, <1>b, SumsBound
  <2> QED
    BY <1>13, <2>2, <2>3
<1>15. ReportedOverage = Sums(g, Categories)
  BY <1>7, <1>12, <1>14
<1>16. PendingOverage = Sums(d, Categories)
  BY <1>9, <1>13, <1>15 DEF PendingOverage
<1>17. ReportedOverage = MapThenSumSet(LAMBDA c : charged[period][c], Categories)
  BY <1>10, <1>15, Zenon
<1>18. PendingOverage = MapThenSumSet(LAMBDA c : Delta(period, c), Categories)
  BY <1>11, <1>16, Zenon
<1> QED
  BY <1>17, <1>18, Zenon

(* Whatever overlaps, for any number of categories: while nothing fails    *)
(* and no report is under way, the page and Stripe agree.                  *)
THEOREM PageCorrect == SubscriptionsSpec => []PageTellsInvoices
  BY InitShape, NextShape, PageExact, PTL DEF SubscriptionsSpec

(* In the calm, the free periods in which units were counted are the first *)
(* one, the one after a cancellation, and one after each that is over.     *)
LEMMA FreeRecords ==
    ASSUME ShapeInv, CalmState, NEW c \in Categories
    PROVE  LET P == {p \in FreePeriods : count[p][c] > 0}
           IN  /\ Cardinality(P) \in Nat /\ Cardinality(over) \in Nat
               /\ Cardinality(P) <= 1 + Cardinality(over) + (IF HobbyAgain \in exists THEN 1 ELSE 0)
<1> DEFINE P == {p \in FreePeriods : count[p][c] > 0}
           N == {After(q) : q \in over}
           H == IF HobbyAgain \in exists THEN {HobbyAgain} ELSE {}
           h == IF HobbyAgain \in exists THEN 1 ELSE 0
<1>a. TypeOK
  BY ShapeTypes
<1>1. IsFiniteSet(Periods)
  BY BillingAssumption, FS_Interval DEF Periods
<1>2. FreePeriods \in SUBSET Periods /\ over \in SUBSET Periods /\ P \in SUBSET Periods
  BY DEF FreePeriods, ShapeInv, ResetShape
<1>3. /\ IsFiniteSet(over) /\ Cardinality(over) \in Nat
      /\ IsFiniteSet(P) /\ Cardinality(P) \in Nat
  BY <1>1, <1>2, FS_Subset, FS_CardinalityType
<1>4. IsFiniteSet(N) /\ Cardinality(N) <= Cardinality(over) /\ Cardinality(N) \in Nat
  <2>1. [q \in over |-> After(q)] \in Surjection(over, N)
    BY DEF Surjection
  <2> HIDE DEF N
  <2>2. IsFiniteSet(N) /\ Cardinality(N) <= Cardinality(over)
    BY <1>3, <2>1, FS_Surjection
  <2> QED
    BY <2>2, FS_CardinalityType
<1>5. P \subseteq (N \cup {0}) \cup H
  <2> SUFFICES ASSUME NEW p \in P PROVE p \in (N \cup {0}) \cup H
    OBVIOUS
  <2>1. p \in FreePeriods /\ p \in exists
    BY <1>2 DEF ShapeInv, UsageShape
  <2>2. p \in {0, HobbyAgain} \/ \E q \in over : p = After(q)
    BY <2>1 DEF CalmState, CalmFree
  <2> QED
    BY <2>1, <2>2
<1>6. IsFiniteSet(H) /\ Cardinality(H) = h
  BY FS_EmptySet, FS_Singleton
<1> HIDE DEF P, N, H
<1>7. IsFiniteSet(N \cup {0}) /\ Cardinality(N \cup {0}) <= Cardinality(N) + 1
      /\ Cardinality(N \cup {0}) \in Nat
  <2>1. IsFiniteSet(N \cup {0})
        /\ Cardinality(N \cup {0}) = IF 0 \in N THEN Cardinality(N) ELSE Cardinality(N) + 1
    BY <1>4, FS_AddElement
  <2> QED
    BY <1>4, <2>1, FS_CardinalityType
<1>8. IsFiniteSet((N \cup {0}) \cup H)
      /\ Cardinality((N \cup {0}) \cup H) <= Cardinality(N \cup {0}) + h
      /\ Cardinality((N \cup {0}) \cup H) \in Nat
  <2>1. /\ IsFiniteSet((N \cup {0}) \cup H)
        /\ Cardinality((N \cup {0}) \cup H)
             = Cardinality(N \cup {0}) + Cardinality(H) - Cardinality((N \cup {0}) \cap H)
    BY <1>6, <1>7, FS_Union
  <2>2. (N \cup {0}) \cap H \in SUBSET H
    OBVIOUS
  <2>3. Cardinality((N \cup {0}) \cap H) \in Nat
    BY <1>6, <2>2, FS_Subset, FS_CardinalityType
  <2>4. Cardinality((N \cup {0}) \cup H) \in Nat
    BY <2>1, FS_CardinalityType
  <2> QED
    BY <1>6, <1>7, <2>1, <2>3, <2>4
<1>9. Cardinality(P) <= Cardinality((N \cup {0}) \cup H)
  <2>1. P \in SUBSET ((N \cup {0}) \cup H)
    BY <1>5
  <2> QED
    BY <1>8, <2>1, FS_Subset
<1>10. h \in Nat
  OBVIOUS
<1> HIDE DEF h
<1>11. Cardinality(P) <= 1 + Cardinality(over) + h
  BY <1>3, <1>4, <1>7, <1>8, <1>9, <1>10
<1> QED
  BY <1>3, <1>11 DEF P, h

(* No free unit more than the months allow.                                *)
LEMMA FreeBound == ShapeInv /\ CalmInv => FreeUsageEarned
<1> SUFFICES ASSUME ShapeInv, CalmState, NEW k \in Categories
             PROVE  MapThenSumSet(LAMBDA p : count[p][k], FreePeriods)
                      <= FreeBase * (1 + Cardinality(over) + (IF HobbyAgain \in exists THEN 1 ELSE 0))
  BY DEF FreeUsageEarned, CalmInv
<1> DEFINE f == [p \in FreePeriods |-> count[p][k]]
           n == 1 + Cardinality(over) + (IF HobbyAgain \in exists THEN 1 ELSE 0)
<1>a. TypeOK /\ FreeBase \in Nat
  BY ShapeTypes, BillingAssumption
<1>1. IsFiniteSet(FreePeriods)
  <2>1. IsFiniteSet(Periods) /\ FreePeriods \in SUBSET Periods
    BY BillingAssumption, FS_Interval DEF Periods, FreePeriods
  <2> QED
    BY <2>1, FS_Subset
<1>2. f \in [FreePeriods -> 0..FreeBase]
  <2>1. \A p \in FreePeriods : count[p][k] \in Nat /\ count[p][k] <= FreeBase
    BY <1>a DEF TypeOK, FreePeriods, CalmState, CalmFree
  <2> QED
    BY <1>a, <2>1
<1>3. {p \in FreePeriods : f[p] > 0} = {p \in FreePeriods : count[p][k] > 0}
  OBVIOUS
<1> DEFINE m == Cardinality({p \in FreePeriods : count[p][k] > 0})
<1>4. m \in Nat /\ n \in Nat /\ m <= n
  BY FreeRecords
<1>5. MapThenSumSet(LAMBDA p : count[p][k], FreePeriods) = Sums(f, FreePeriods)
  BY FreeSum, Zenon
<1> HIDE DEF f
<1>6. Sums(f, FreePeriods) \in Nat /\ Sums(f, FreePeriods) <= FreeBase * m
  BY <1>a, <1>1, <1>2, <1>3, SumsBound
<1> HIDE DEF m, n
<1>7. FreeBase * m <= FreeBase * n /\ FreeBase * m \in Nat /\ FreeBase * n \in Nat
  BY <1>a, <1>4
<1>8. Sums(f, FreePeriods) <= FreeBase * n
  BY <1>6, <1>7
<1>9. MapThenSumSet(LAMBDA p : count[p][k], FreePeriods) <= FreeBase * n
  BY <1>5, <1>8, Zenon
<1> QED
  BY <1>9, Zenon DEF n

(* Resets, requests and webhooks that overlap give a free customer no      *)
(* units beyond those of the months that have begun, for any number of     *)
(* months, categories and units.                                           *)
THEOREM FreeCorrect == SubscriptionsSpec => []FreeUsageEarned
<1>1. SubscriptionsInit => ShapeInv /\ CalmInv
  BY InitShape, InitCalm
<1>2. ShapeInv /\ CalmInv /\ [SubscriptionsNext]_allVars => ShapeInv' /\ CalmInv'
  BY NextShape, NextCalm
<1> QED
  BY <1>1, <1>2, FreeBound, PTL DEF SubscriptionsSpec

-----------------------------------------------------------------------------
(* The webhook inbox                                                       *)

(* WebhookInbox's states are well typed.                                   *)
LEMMA TypeStep == InboxTypeOK /\ [InboxNext]_inboxVars => InboxTypeOK'
<1> SUFFICES ASSUME InboxTypeOK, [InboxNext]_inboxVars PROVE InboxTypeOK'
  OBVIOUS
<1> USE WebhookAssumption DEF InboxTypeOK, WebhookEventStatus, Places, Goto, InboxFault
<1>1. ASSUME NEW w \in Workers, NEW e \in Events, Deliver(w, e) PROVE InboxTypeOK'
  BY <1>1 DEF Deliver
<1>2. ASSUME NEW w \in Workers, TryClaim(w) PROVE InboxTypeOK'
  BY <1>2 DEF TryClaim
<1>3. ASSUME NEW w \in Workers, Handle(w) PROVE InboxTypeOK'
  BY <1>3 DEF Handle
<1>4. ASSUME NEW w \in Workers, MarkCompleted(w) PROVE InboxTypeOK'
  BY <1>4 DEF MarkCompleted
<1>5. ASSUME NEW w \in Workers, MarkFailed(w) PROVE InboxTypeOK'
  BY <1>5 DEF MarkFailed
<1>6. ASSUME NEW w \in Workers, Answer(w) PROVE InboxTypeOK'
  BY <1>6 DEF Answer
<1>7. ASSUME NEW w \in Workers, Raises(w) PROVE InboxTypeOK'
  BY <1>7 DEF Raises
<1>8. ASSUME NEW w \in Workers, MarkFailedRaises(w) PROVE InboxTypeOK'
  BY <1>8 DEF MarkFailedRaises
<1>9. CASE Crash
  BY <1>9 DEF Crash
<1>10. ASSUME NEW e \in Events, ClaimAges(e) PROVE InboxTypeOK'
  BY <1>10 DEF ClaimAges
<1>11. CASE UNCHANGED inboxVars
  BY <1>11 DEF inboxVars
<1> QED
  BY <1>1, <1>2, <1>3, <1>4, <1>5, <1>6, <1>7, <1>8, <1>9, <1>10, <1>11 DEF InboxNext, Step

(* The initial state is well typed.                                        *)
LEMMA TypeInit == InboxInit => InboxTypeOK
<1>1. InboxInit => overran \in BOOLEAN
  BY Zenon DEF InboxInit
<1> QED
  BY <1>1, WebhookAssumption DEF InboxInit, InboxTypeOK, WebhookEventStatus, Places

-----------------------------------------------------------------------------

(* A worker past its claim owns a row that is PROCESSING and fresh, which  *)
(* is what keeps every other delivery from claiming it.                    *)
ClaimHeld ==
    \A e \in Events, w \in Workers : Owns(w, e) => eventStatus[e] = "PROCESSING" /\ e \notin stale

OneOwner == \A e \in Events, v, w \in Workers : Owns(v, e) /\ Owns(w, e) => v = w

(* More commits than faults are explained by a completion, recorded or     *)
(* about to be.                                                            *)
EffectsPaid ==
    \A e \in Events :
        \/ effects[e] <= inboxFaults
        \/ /\ effects[e] <= inboxFaults + 1
           /\ \/ eventStatus[e] = "COMPLETED"
              \/ \E w \in Workers : Owns(w, e) /\ at[w] = "complete"

ClaimInv == InboxTypeOK /\ (~overran => ClaimHeld /\ OneOwner /\ EffectsPaid)

(* Every action keeps claims exclusive, as long as no handler outlives its *)
(* claim, and never touches the row of an event that is COMPLETED.         *)
LEMMA ClaimStep ==
    ClaimInv /\ [InboxNext]_inboxVars =>
        /\ ClaimInv'
        /\ ~overran' => \A e \in Events : eventStatus[e] = "COMPLETED" => eventStatus'[e] = "COMPLETED"
<1> SUFFICES ASSUME ClaimInv, [InboxNext]_inboxVars
             PROVE  /\ ClaimInv'
                    /\ ~overran' => \A e \in Events :
                          eventStatus[e] = "COMPLETED" => eventStatus'[e] = "COMPLETED"
  OBVIOUS
<1>t. InboxTypeOK /\ InboxTypeOK'
  BY TypeStep DEF ClaimInv
<1> SUFFICES ASSUME ~overran'
             PROVE  /\ ClaimHeld' /\ OneOwner' /\ EffectsPaid'
                    /\ \A e \in Events : eventStatus[e] = "COMPLETED" => eventStatus'[e] = "COMPLETED"
  BY <1>t DEF ClaimInv
<1>o. ~overran
  BY DEF InboxNext, Step, Deliver, TryClaim, Handle, MarkCompleted, MarkFailed, Answer, Raises,
         MarkFailedRaises, Crash, ClaimAges, inboxVars
<1>h. ClaimHeld /\ OneOwner /\ EffectsPaid
  BY <1>o DEF ClaimInv
<1>n. /\ \A e \in Events : effects[e] \in Nat
      /\ inboxFaults \in Nat
      /\ \A w \in Workers : event[w] \in Events
  BY <1>t, WebhookAssumption DEF InboxTypeOK
<1> DEFINE Final == \A e \in Events : eventStatus[e] = "COMPLETED" => eventStatus'[e] = "COMPLETED"
           Goal == ClaimHeld' /\ OneOwner' /\ EffectsPaid' /\ Final
<1> USE DEF Owns, Goto
<1>1. ASSUME NEW w \in Workers, NEW e \in Events, Deliver(w, e) PROVE Goal
  <2>1. \A v \in Workers, d \in Events : Owns(v, d)' <=> Owns(v, d)
    BY <1>1, <1>t DEF Deliver, InboxTypeOK
  <2>2. \A v \in Workers : at'[v] = "complete" <=> at[v] = "complete"
    BY <1>1, <1>t DEF Deliver, InboxTypeOK
  <2> QED
    BY <1>1, <2>1, <2>2, <1>h DEF Deliver, ClaimHeld, OneOwner, EffectsPaid
<1>2. ASSUME NEW w \in Workers, TryClaim(w) PROVE Goal
  <2> DEFINE e == event[w]
  <2>1. CASE Claimable(e)
    <3>1. \A v \in Workers : ~Owns(v, e)
      BY <1>2, <2>1, <1>h, <1>n DEF Claimable, ClaimHeld
    <3>2. \A v \in Workers, d \in Events : Owns(v, d)' <=> (Owns(v, d) \/ (v = w /\ d = e))
      BY <1>2, <2>1, <1>t DEF TryClaim, InboxTypeOK
    <3>3. ClaimHeld' /\ OneOwner'
      BY <1>2, <2>1, <3>1, <3>2, <1>h, <1>t DEF TryClaim, ClaimHeld, OneOwner, InboxTypeOK
    <3>4. eventStatus[e] # "COMPLETED"
      BY <2>1 DEF Claimable
    <3>5. Final
      BY <1>2, <2>1, <3>4, <1>t DEF TryClaim, InboxTypeOK
    <3>6. \A v \in Workers : at[v] = "complete" => at'[v] = "complete"
      BY <1>2, <1>t DEF TryClaim, InboxTypeOK
    <3>7. EffectsPaid'
      BY <1>2, <3>2, <3>5, <3>6, <1>h, <1>n DEF TryClaim, EffectsPaid
    <3> QED
      BY <3>3, <3>5, <3>7
  <2>2. CASE ~Claimable(e)
    <3>1. \A v \in Workers, d \in Events : Owns(v, d)' <=> Owns(v, d)
      BY <1>2, <2>2, <1>t DEF TryClaim, InboxTypeOK
    <3>2. \A v \in Workers : at[v] = "complete" => at'[v] = "complete"
      BY <1>2, <1>t DEF TryClaim, InboxTypeOK
    <3> QED
      BY <1>2, <2>2, <3>1, <3>2, <1>h DEF TryClaim, ClaimHeld, OneOwner, EffectsPaid
  <2> QED
    BY <2>1, <2>2
<1>3. ASSUME NEW w \in Workers, Handle(w) PROVE Goal
  <2> DEFINE e == event[w]
  <2>1. \A v \in Workers, d \in Events : Owns(v, d)' <=> Owns(v, d)
    BY <1>3, <1>t DEF Handle, InboxTypeOK
  <2>2. effects[e] <= inboxFaults
    BY <1>3, <1>h, <1>n DEF Handle, EffectsPaid, ClaimHeld, OneOwner
  <2>3. at'[w] = "complete" /\ event'[w] = event[w]
    BY <1>3, <1>t DEF Handle, InboxTypeOK
  <2>4. EffectsPaid'
    <3> SUFFICES ASSUME NEW d \in Events
                 PROVE  \/ effects'[d] <= inboxFaults
                        \/ /\ effects'[d] <= inboxFaults + 1
                           /\ \/ eventStatus[d] = "COMPLETED"
                              \/ \E v \in Workers : Owns(v, d)' /\ at'[v] = "complete"
      BY <1>3 DEF Handle, EffectsPaid
    <3>1. CASE d = e
      <4>1. effects'[d] = effects[d] + 1
        BY <1>3, <3>1, <1>t DEF Handle, InboxTypeOK
      <4>2. effects'[d] <= inboxFaults + 1
        BY <2>2, <3>1, <4>1, <1>n
      <4>3. Owns(w, d)' /\ at'[w] = "complete"
        BY <2>3, <3>1
      <4> QED
        BY <4>2, <4>3
    <3>2. CASE d # e
      <4>1. effects'[d] = effects[d] /\ \A v \in Workers : at[v] = "complete" => at'[v] = "complete"
        BY <1>3, <3>2, <1>t DEF Handle, InboxTypeOK
      <4> QED
        BY <2>1, <4>1, <1>h DEF EffectsPaid
    <3> QED
      BY <3>1, <3>2
  <2> QED
    BY <1>3, <2>1, <2>4, <1>h DEF Handle, ClaimHeld, OneOwner
<1>4. ASSUME NEW w \in Workers, MarkCompleted(w) PROVE Goal
  <2> DEFINE e == event[w]
  <2>1. \A v \in Workers, d \in Events : Owns(v, d)' <=> Owns(v, d) /\ v # w
    BY <1>4, <1>t DEF MarkCompleted, InboxTypeOK
  <2>2. \A v \in Workers, d \in Events : Owns(v, d)' => d # e
    BY <1>4, <2>1, <1>h, <1>n DEF MarkCompleted, OneOwner
  <2>3. ClaimHeld' /\ OneOwner'
    BY <1>4, <2>1, <2>2, <1>h, <1>t DEF MarkCompleted, ClaimHeld, OneOwner, InboxTypeOK
  <2>4. Final /\ eventStatus'[e] = "COMPLETED"
    BY <1>4, <1>t DEF MarkCompleted, InboxTypeOK
  <2>5. \A v \in Workers : v # w => at'[v] = at[v]
    BY <1>4, <1>t DEF MarkCompleted, InboxTypeOK
  <2>6. EffectsPaid'
    BY <1>4, <2>1, <2>4, <2>5, <1>h, <1>n DEF MarkCompleted, EffectsPaid
  <2> QED
    BY <2>3, <2>4, <2>6
<1>5. ASSUME NEW w \in Workers, MarkFailed(w) PROVE Goal
  <2> DEFINE e == event[w]
  <2>1. \A v \in Workers, d \in Events : Owns(v, d)' <=> Owns(v, d) /\ v # w
    BY <1>5, <1>t DEF MarkFailed, InboxTypeOK
  <2>2. \A v \in Workers, d \in Events : Owns(v, d)' => d # e
    BY <1>5, <2>1, <1>h, <1>n DEF MarkFailed, OneOwner
  <2>3. ClaimHeld' /\ OneOwner'
    BY <1>5, <2>1, <2>2, <1>h, <1>t DEF MarkFailed, ClaimHeld, OneOwner, InboxTypeOK
  <2>4. eventStatus[e] = "PROCESSING" /\ Final
    BY <1>5, <1>h, <1>n, <1>t DEF MarkFailed, ClaimHeld, InboxTypeOK
  <2>5. effects[e] <= inboxFaults
    BY <1>5, <2>4, <1>h, <1>n DEF MarkFailed, EffectsPaid, OneOwner
  <2>6. \A v \in Workers : v # w => at'[v] = at[v]
    BY <1>5, <1>t DEF MarkFailed, InboxTypeOK
  <2>7. EffectsPaid'
    BY <1>5, <2>1, <2>4, <2>5, <2>6, <1>h, <1>n DEF MarkFailed, EffectsPaid
  <2> QED
    BY <2>3, <2>4, <2>7
<1>6. ASSUME NEW w \in Workers, Answer(w) PROVE Goal
  <2>1. \A v \in Workers, d \in Events : Owns(v, d)' <=> Owns(v, d)
    BY <1>6, <1>t DEF Answer, InboxTypeOK
  <2>2. \A v \in Workers : at[v] = "complete" => at'[v] = "complete"
    BY <1>6, <1>t DEF Answer, InboxTypeOK
  <2> QED
    BY <1>6, <2>1, <2>2, <1>h DEF Answer, ClaimHeld, OneOwner, EffectsPaid
<1>7. ASSUME inboxFaults' = inboxFaults + 1, UNCHANGED <<eventStatus, stale, effects>>,
             \A v \in Workers, d \in Events : Owns(v, d)' => Owns(v, d)
      PROVE  Goal
  <2>1. EffectsPaid'
    <3>1. \A d \in Events : effects[d] <= inboxFaults + 1
      BY <1>h, <1>n DEF EffectsPaid
    <3> QED
      BY <1>7, <3>1 DEF EffectsPaid
  <2> QED
    BY <1>7, <2>1, <1>h DEF ClaimHeld, OneOwner
<1>8. ASSUME NEW w \in Workers, Raises(w) \/ MarkFailedRaises(w) PROVE Goal
  <2>1. \A v \in Workers, d \in Events : Owns(v, d)' => Owns(v, d)
    BY <1>8, <1>t DEF Raises, MarkFailedRaises, InboxTypeOK
  <2> QED
    BY <1>7, <1>8, <2>1 DEF Raises, MarkFailedRaises, InboxFault
<1>9. CASE Crash
  <2>1. \A v \in Workers, d \in Events : ~Owns(v, d)'
    BY <1>9 DEF Crash
  <2> QED
    BY <1>7, <1>9, <2>1 DEF Crash, InboxFault
<1>10. ASSUME NEW e \in Events, ClaimAges(e) PROVE Goal
  <2>1. \A w \in Workers : ~Owns(w, e)
    BY <1>10, Zenon DEF ClaimAges
  <2>2. UNCHANGED <<eventStatus, at, event, effects, inboxFaults>> /\ stale' = stale \cup {e}
    BY <1>10, Zenon DEF ClaimAges
  <2> QED
    BY <2>1, <2>2, <1>h DEF ClaimHeld, OneOwner, EffectsPaid
<1>11. CASE UNCHANGED inboxVars
  BY <1>11, <1>h DEF inboxVars, ClaimHeld, OneOwner, EffectsPaid
<1> QED
  BY <1>1, <1>2, <1>3, <1>4, <1>5, <1>6, <1>8, <1>9, <1>10, <1>11 DEF InboxNext, Step

(* The initial state satisfies the strengthened invariant.                 *)
LEMMA ClaimInit == InboxInit => ClaimInv
<1> SUFFICES ASSUME InboxInit PROVE ClaimInv
  OBVIOUS
<1>1. InboxTypeOK
  BY TypeInit
<1>2. ClaimHeld /\ OneOwner
  BY DEF InboxInit, ClaimHeld, OneOwner, Owns
<1>3. \A e \in Events : effects[e] <= inboxFaults
  <2>1. effects = [e \in Events |-> 0] /\ inboxFaults = 0
    BY Zenon DEF InboxInit
  <2>2. \A e \in Events : effects[e] = 0
    BY <2>1
  <2>3. 0 <= 0
    OBVIOUS
  <2> QED
    BY <2>1, <2>2, <2>3, Zenon
<1>4. EffectsPaid
  BY <1>3 DEF EffectsPaid
<1> QED
  BY <1>1, <1>2, <1>4 DEF ClaimInv

(* For any number of events, overlapping deliveries and faults, an event   *)
(* is in one handler at a time unless a handler outlives its claim.        *)
THEOREM OneHandlerCorrect == InboxSpec => []OneHandlerPerEvent
<1>1. ClaimInv /\ [InboxNext]_inboxVars => ClaimInv'
  BY ClaimStep
<1>2. ClaimInv => OneHandlerPerEvent
  BY DEF ClaimInv, OneOwner, OneHandlerPerEvent
<1> QED
  BY <1>1, <1>2, ClaimInit, PTL DEF InboxSpec

(* An event's effects are repeated at most once per fault.                 *)
THEOREM EffectsCorrect == InboxSpec => []EffectsBounded
<1>1. ClaimInv /\ [InboxNext]_inboxVars => ClaimInv'
  BY ClaimStep
<1>2. ClaimInv => EffectsBounded
  <2>1. ASSUME ClaimInv, ~overran, NEW e \in Events PROVE effects[e] <= 1 + inboxFaults
    <3>1. effects[e] \in Nat /\ inboxFaults \in Nat
      BY <2>1, WebhookAssumption DEF ClaimInv, InboxTypeOK
    <3>2. effects[e] <= inboxFaults \/ effects[e] <= inboxFaults + 1
      BY <2>1 DEF ClaimInv, EffectsPaid
    <3> QED
      BY <3>1, <3>2
  <2> QED
    BY <2>1 DEF EffectsBounded
<1> QED
  BY <1>1, <1>2, ClaimInit, PTL DEF InboxSpec

(* A COMPLETED event is never reopened, by a late mark_failed or by a new  *)
(* claim, unless a handler outlives its claim.                             *)
THEOREM CompletedIsFinalCorrect == InboxSpec => CompletedIsFinal
<1>1. ClaimInv /\ [InboxNext]_inboxVars => ClaimInv'
  BY ClaimStep
<1>2. ClaimInv /\ [InboxNext]_inboxVars =>
        [~overran' => \A e \in Events :
            eventStatus[e] = "COMPLETED" => eventStatus'[e] = "COMPLETED"]_inboxVars
  BY ClaimStep
<1> QED
  BY <1>1, <1>2, ClaimInit, PTL DEF InboxSpec, CompletedIsFinal

-----------------------------------------------------------------------------

(* While nothing has failed: no request is in the except branch, a row     *)
(* that exists is PROCESSING or COMPLETED, and behind each row either the  *)
(* handler has committed or a request still stands before it.              *)
BehindEachRow ==
    /\ \A w \in Workers :
          /\ at[w] # "fail"
          /\ at[w] = "complete" => effects[event[w]] > 0
          /\ at[w] = "ok" => eventStatus[event[w]] # "NONE"
    /\ \A e \in Events :
          /\ eventStatus[e] # "FAILED"
          /\ eventStatus[e] = "COMPLETED" => effects[e] > 0
          /\ eventStatus[e] = "PROCESSING" =>
                effects[e] > 0 \/ \E w \in Workers : at[w] = "handle" /\ event[w] = e
          /\ e \in acked => eventStatus[e] # "NONE"

AckInv == InboxTypeOK /\ (inboxFaults = 0 => BehindEachRow)

(* Every action keeps something behind each row, as long as nothing fails. *)
LEMMA AckStep == AckInv /\ [InboxNext]_inboxVars => AckInv'
<1> SUFFICES ASSUME AckInv, [InboxNext]_inboxVars, inboxFaults' = 0 PROVE BehindEachRow'
  BY TypeStep DEF AckInv
<1>t. InboxTypeOK /\ inboxFaults \in Nat
  BY WebhookAssumption DEF AckInv, InboxTypeOK
<1>f. ~InboxFault
  BY <1>t DEF InboxFault
<1>i. (inboxFaults = 0 => BehindEachRow)
  BY DEF AckInv
<1> USE DEF Goto
<1>1. ASSUME NEW w \in Workers, NEW e \in Events, Deliver(w, e) PROVE BehindEachRow'
  BY <1>1, <1>i, <1>t DEF Deliver, BehindEachRow, InboxTypeOK
<1>2. ASSUME NEW w \in Workers, TryClaim(w) PROVE BehindEachRow'
  <2>1. CASE Claimable(event[w])
    BY <1>2, <2>1, <1>i, <1>t DEF TryClaim, BehindEachRow, InboxTypeOK
  <2>2. CASE ~Claimable(event[w])
    <3>1. eventStatus[event[w]] # "NONE"
      BY <2>2 DEF Claimable
    <3> QED
      BY <1>2, <2>2, <3>1, <1>i, <1>t DEF TryClaim, BehindEachRow, InboxTypeOK
  <2> QED
    BY <2>1, <2>2
<1>3. ASSUME NEW w \in Workers, Handle(w) PROVE BehindEachRow'
  <2>1. \A e \in Events : effects'[e] > 0 <=> (effects[e] > 0 \/ e = event[w])
    BY <1>3, <1>t DEF Handle, InboxTypeOK
  <2> QED
    BY <1>3, <2>1, <1>i, <1>t DEF Handle, BehindEachRow, InboxTypeOK
<1>4. ASSUME NEW w \in Workers, MarkCompleted(w) PROVE BehindEachRow'
  BY <1>4, <1>i, <1>t DEF MarkCompleted, BehindEachRow, InboxTypeOK
<1>5. ASSUME NEW w \in Workers, MarkFailed(w) PROVE BehindEachRow'
  BY <1>5, <1>i DEF MarkFailed, BehindEachRow
<1>6. ASSUME NEW w \in Workers, Answer(w) PROVE BehindEachRow'
  BY <1>6, <1>i, <1>t DEF Answer, BehindEachRow, InboxTypeOK
<1>7. ASSUME NEW e \in Events, ClaimAges(e) PROVE BehindEachRow'
  <2>1. UNCHANGED <<eventStatus, at, event, effects, acked, inboxFaults>>
    BY <1>7, Zenon DEF ClaimAges
  <2> QED
    BY <2>1, <1>i DEF BehindEachRow
<1>8. CASE UNCHANGED inboxVars
  BY <1>8, <1>i DEF inboxVars, BehindEachRow
<1> QED
  BY <1>1, <1>2, <1>3, <1>4, <1>5, <1>6, <1>7, <1>8, <1>f
  DEF InboxNext, Step, Raises, MarkFailedRaises, Crash

(* While nothing fails, Stripe is told not to send again only once the     *)
(* event is handled or a request stands to handle it, for any number of    *)
(* overlapping deliveries and of claims taken over.                        *)
THEOREM AckedCorrect == InboxSpec => []AckedIsProcessed
<1>1. InboxInit => AckInv
  <2>1. InboxInit => BehindEachRow
    BY DEF InboxInit, BehindEachRow
  <2> QED
    BY <2>1, TypeInit DEF AckInv
<1>2. AckInv => AckedIsProcessed
  <2> SUFFICES ASSUME AckInv, inboxFaults = 0, NEW e \in acked
               PROVE  effects[e] > 0 \/ \E w \in Workers : at[w] # "idle" /\ event[w] = e
    BY DEF AckedIsProcessed
  <2>1. e \in Events /\ eventStatus[e] \in WebhookEventStatus \cup {"NONE"}
    BY DEF AckInv, InboxTypeOK
  <2>2. eventStatus[e] \in {"PROCESSING", "COMPLETED"}
    BY <2>1 DEF AckInv, BehindEachRow, WebhookEventStatus
  <2> QED
    BY <2>1, <2>2 DEF AckInv, BehindEachRow
<1> QED
  BY <1>1, <1>2, AckStep, PTL DEF InboxSpec

=============================================================================
