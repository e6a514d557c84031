---------------------------- MODULE Subscriptions ----------------------------
(***************************************************************************)
(* The whole life of a subscription: Billing, with the free months that    *)
(* follow one another.  A job queued for a HOBBY organization whose period *)
(* has ended reads the row and moves it to the next month, without a lock  *)
(* and without another look at plan or date: a checkout may commit between *)
(* the dispatch and the job, or between the job's read and its write.      *)
(* The last section is the page on which the customer sees the costs.      *)
(***************************************************************************)
EXTENDS Billing, FiniteSetsExt

VARIABLES
    over,   \* free periods whose end has passed
    resets, \* reset_single_hobby_org jobs that wait or run
    reset,  \* the period that the running one has read, if one runs
    calm    \* history: nothing failed, was skipped, overtaken or out of order

allVars == <<vars, over, resets, reset, calm>>

FreePeriods == Periods \ StripePeriods

SubscriptionsInit ==
    /\ Init
    /\ over = {}
    /\ resets = 0
    /\ reset = {}
    /\ calm = TRUE

(* The runner executes one job at a time.                                  *)
RunnerFree == reset = {} /\ act[Job].at \in {"idle", "queued"}

-----------------------------------------------------------------------------
(* HOBBY period reset *)

(* The period that starts where p ends.  Free months follow 0 in steps of  *)
(* two from MaxPeriod + 2, and HobbyAgain from MaxPeriod + 3.              *)
After(p) ==
    CASE p = 0 -> MaxPeriod + 2
      [] p \in StripePeriods -> p + 1
      [] OTHER -> p + 2

(* Time: the current free month ends, unless it is the last one modelled.  *)
FreeMonthEnds ==
    /\ period \in FreePeriods \ over
    /\ After(period) \in Periods
    /\ over' = over \cup {period}
    /\ UNCHANGED <<vars, resets, reset, calm>>

(* Mutant: the end of the period is not looked at.                         *)
DueAnyTime == ~paid /\ status = "ACTIVE"

(* list_hobby_org_ids_due_for_reset.                                       *)
DueForReset == ~paid /\ status = "ACTIVE" /\ period \in over

(* dispatch_hobby_reset.  A reset still waits only when it has failed.     *)
DispatchReset ==
    /\ RunnerFree
    /\ DueForReset
    /\ resets = 0 \/ (resets = 1 /\ faults > 0)
    /\ resets' = resets + 1
    /\ UNCHANGED <<vars, over, reset, calm>>

(* reset_single_hobby_org reads the subscription.                          *)
StartReset ==
    /\ resets > 0
    /\ RunnerFree
    /\ reset' = {period}
    /\ UNCHANGED <<vars, over, resets, calm>>

(* What the job wrote is committed; when its mark is lost it runs again.   *)
CommitReset ==
    /\ lock = Free
    /\ \E p \in reset :
         /\ After(p) \in Periods \ (exists \cup {HobbyAgain})
         /\ period' = After(p)
         /\ exists' = exists \cup {After(p)}
    /\ reset' = {}
    /\ \/ resets' = resets - 1 /\ UNCHANGED <<faults, calm>>
       \/ Fault /\ calm' = FALSE /\ UNCHANGED resets
    /\ UNCHANGED <<paid, status, billed, count, reported, lock, open, act, stripeVars, over>>

(* The period already has a record: create_usage_record violates the       *)
(* unique constraint, and the job is tried again or, at last, given up.    *)
ResetRefused ==
    /\ lock = Free
    /\ \E p \in reset : After(p) \in exists
    /\ reset' = {}
    /\ resets' \in {resets, resets - 1}
    /\ UNCHANGED <<vars, over, calm>>

(* An attempt fails and is repeated; MaxFaults stays below the attempts.   *)
ResetRaises ==
    /\ reset # {}
    /\ Fault
    /\ reset' = {}
    /\ calm' = FALSE
    /\ UNCHANGED <<subVars, recordVars, lock, open, act, stripeVars, over, resets>>

-----------------------------------------------------------------------------
(* The actions of Billing, with what they do to calm *)

Stays(b) == calm' = (calm /\ b) /\ UNCHANGED <<over, resets, reset>>

Requests == (\E c \in Categories : Reserve(c)) \/ CommitRequest \/ RollbackRequest

BillJob == DispatchBill \/ (RunnerFree /\ StartBill)

Stripe == Subscribe \/ Cancel \/ (\E f \in BOOLEAN : Renew(f))

Hook(a, e) == StartHook(a, e) /\ Stays(\A f \in pending : Rank(e) <= Rank(f))

Lock(a) == TryLock(a) /\ Stays(lock = Free \/ ~GoesOnUnlocked(act[a].ev))

Reports(a) == Report(a) /\ Stays(TRUE)

Fails(a) == (HandlerRaises(a) \/ \E k \in 0..NumCategories : ReportRaises(a, k)) /\ Stays(FALSE)

Commits(a, s) == Apply(a, s) /\ Stays(faults' = faults /\ (a \in Hooks => resets = 0))

SubscriptionsNext ==
    \/ (Requests \/ BillJob \/ Stripe) /\ Stays(TRUE)
    \/ \E a \in Hooks, e \in Event : Hook(a, e)
    \/ \E a \in Actors : Lock(a) \/ Reports(a) \/ Fails(a)
    \/ \E a \in Actors, s \in SubscriptionStatus : Commits(a, s)
    \/ FreeMonthEnds \/ DispatchReset \/ StartReset
    \/ CommitReset \/ ResetRefused \/ ResetRaises

SubscriptionsSpec == SubscriptionsInit /\ [][SubscriptionsNext]_allVars

-----------------------------------------------------------------------------
(* GET /subscriptions/billing, in units *)

(* The usage of the current period, or none.                               *)
Used(c) == IF period \in exists THEN count[period][c] ELSE 0

TotalOverage == MapThenSumSet(LAMBDA c : Over(Used(c)), Categories)

(* Mutant: the page takes every unit over for reported.                    *)
ReportedIsTotal == TotalOverage

ReportedOverage ==
    IF period \in exists THEN MapThenSumSet(LAMBDA c : Over(reported[period][c]), Categories) ELSE 0

PendingOverage == TotalOverage - ReportedOverage

-----------------------------------------------------------------------------
(* Properties *)

(* While all is calm, a period that the subscription has left, or whose    *)
(* record is closed, has all of its overage invoiced.                      *)
CalmlyInvoiced == calm => NothingForfeited

(* A free customer gets the units of a month once in that month: resets,   *)
(* requests and webhooks that overlap start no free period early, unless a *)
(* job fails or a webhook commits behind a reset.                          *)
FreeUsageEarned ==
    calm => \A c \in Categories :
        MapThenSumSet(LAMBDA p : count[p][c], FreePeriods)
            <= FreeBase * (1 + Cardinality(over) + (IF HobbyAgain \in exists THEN 1 ELSE 0))

(* While nothing fails and no report is under way, the costs the page says *)
(* are reported are those that Stripe invoices for the period, and what it *)
(* says is pending is what the next report of the period adds.             *)
PageTellsInvoices ==
    faults = 0 /\ lock \in {Free, Request} =>
        /\ ReportedOverage = MapThenSumSet(LAMBDA c : charged[period][c], Categories)
        /\ PendingOverage = MapThenSumSet(LAMBDA c : Delta(period, c), Categories)

=============================================================================
