# A TLA+ model of the PandaProbe backend

PandaProbe collects traces of LLM agents, evaluates them with metrics, runs such
evaluations on a schedule and bills organizations for what they use. This
directory models the parts of its backend (`src/backend/app`) whose correctness
depends on the order of commits, retries, crashes and deliveries: the durable
job queue, the evaluation runs that are executed by it, the monitors that spawn
runs, the Stripe webhook inbox, metered billing and the free months before it, the members
and invitations of an organization, sign-up, projects, keys and codes, the store that
ingested traces are merged into, and the queries a dashboard reads it all with.

Contents: [inventory](#inventory), [modules](#modules-and-the-code),
[runs](#runs-and-bounds), [fairness](#fairness), [proofs](#proofs),
[what the code does otherwise than it says](#where-code-and-text-disagree),
[not modelled](#not-modelled), [plan](#plan).

## Inventory

One process serves HTTP requests, and in the same event loop runs one job runner
and one scheduler. All state is in PostgreSQL; Stripe is the one external service
whose state matters.

| part | state | operations | talks to |
|---|---|---|---|
| job queue (`infrastructure/local_tasks`, `local_job_repo.py`) | `local_jobs` rows: status, attempts, available_at | enqueue, claim the oldest available row, complete, retry later, fail; recovery at start | handlers, scheduler |
| scheduler (`scheduler.py`) | one loop per schedule | check for an active row of the task, then enqueue | job queue |
| trace evaluation runs (`handlers.py`, `eval_service.py`, `eval_repo.py`) | `eval_runs` (status, counters), `trace_scores` | create, retry, dispatch, execute, fail, delete; edit and delete scores | usage, queue, LLM engine |
| session evaluation runs | `eval_runs`, `session_scores`, and the `trace_scores` they use as signals | the same, over sessions | usage, queue, LLM engine, trace runs |
| monitors | `eval_monitors` (status, next_run_at, last_run_at) | create, update, pause, resume, trigger, delete; tick; job per monitor | queue, runs, usage |
| webhook inbox (`routes/webhooks.py`, `stripe_webhook_repo.py`) | `stripe_webhook_events` (status, locked_at) | claim, take over, complete, fail | Stripe, billing |
| usage and billing (`usage_service.py`, `billing_service.py`, `billing_repo.py`) | `subscriptions`, `usage_records` (counters, reported watermark, billed) | count usage, report overage, six webhook handlers, a billing job every six hours | Stripe, queue |
| HOBBY reset (`handlers.py`) | `subscriptions`, `usage_records` | find due organizations, advance the period | queue, billing |
| billing page (`routes/subscriptions.py`) | none | usage and overage, reported and pending | billing |
| trace store (`trace_service.py`, `trace_repo.py`) | `traces`, `spans` | queued upsert, update, add spans, delete, tag | queue, usage |
| queries (`routes/{traces,sessions,evaluations}.py`, `trace_repo.py`, `eval_repo.py`) | none | lists by page, session detail, analytics, summaries, distributions, trends, rankings | trace store, runs |
| identity (`identity_service.py`, `*_repo.py`) | users, organizations, memberships, invitations | sign up, create, invite, accept, change role, remove, delete | e-mail, billing, queue |
| projects and keys (`project_repo.py`, `identity_service.py`) | `projects`, `api_keys` | find or create by name, rename, delete; create, rotate, revoke, delete, use | identity |
| CLI login (`cli_service.py`, `cli_auth_repo.py`) | `cli_auth_codes` | issue, exchange for a key, expire | identity, keys |
| connections (`engine.py`) | a pool of 5 + 5 | one for each request, a second one to enqueue | everything |
| metrics (`core/evals/metrics`) | none | score a trace or a session | runs, LLM engine |
| LLM engine, e-mail, CRM, frontend, tools | see `PROJECT.json` | | |

What is hard about it:

* **Commits without a common transaction.** A run is committed and then its job
  is enqueued; a schedule is moved and then its jobs are enqueued; invoice items
  are created at Stripe and then the watermark is committed; a webhook's effects
  are committed and then the event is marked.
* **At-least-once execution.** A job that is retried, cut by its time limit or
  recovered after a crash starts from the beginning and meets what the last
  attempt left.
* **State that is read before a lock or an await and used after it.** Webhook
  handlers read the subscription before they try its lock; the tick moves
  monitors it read earlier; the job of a monitor works with what the tick decided;
  every membership request checks roles and seats in rows it does not lock.
* **Locks by accident.** The limit of organizations, and sign-up jobs sent once, rest on the
  row of the user that every request with a token happens to update first. The same
  request needs a second connection while it holds its own.
* **Answers made of several statements.** Each sees what was committed before it: a list and
  its total, a page and the next one, a session and its traces, usage and what is reported.
* **Deliveries.** Stripe sends events twice, at once, late and in another order; an SDK
  sends the payloads of one trace piecemeal, and retries change their order.

What makes each part correct: nobody executes a row twice at a time, and every
row is settled for a cause (queue); counters and scores agree whatever attempts
came before, and a run ends when its job does (runs); a schedule is neither lost
nor doubled (monitors); one handler per event and every event handled in the end
(inbox); what is called reported has been invoiced, once, and no period is closed
with overage left (billing); an organization has an owner and no more people than its
plan has seats, and an invitation is used once (membership); limits, single welcomes and
single use of codes hold, and keys are made for members (access); the newest payload stands,
an edit leaves alone what it does not name, and what was counted is stored (traces); pages
skip and repeat nothing they need not, and figures of different queries agree (dashboard); a
session's score goes by its signals (metrics).
`PROJECT.json` lists the hazards line by line with the properties that catch them.

## Modules and the code

| module | models | built on |
|---|---|---|
| `JobContract` | what the queue promises a handler: at least one execution under a retry budget, one holder at a time | |
| `LocalTasks` | `local_job_repo.py`, `queue.py`, `runner.py`, `scheduler.py`, start and stop in `main.py` | implements `JobContract` |
| `EvalRuns` | creation, retry, dispatch, execution, failure and deletion of TRACE runs, edits of scores | uses `JobContract` |
| `SessionRuns` | SESSION runs and the signals they share | extends `EvalRuns` |
| `WebhookInbox` | the webhook endpoint and its idempotency table | |
| `SessionMetrics` | `agent_reliability`, `agent_consistency`, `loop_detection` as operators | |
| `SessionScores` | what the runs that score sessions rely on | extends `SessionRuns` and `SessionMetrics` |
| `Billing` | usage counting, overage reports, the subscription webhooks, with Stripe's side as environment | |
| `Subscriptions` | the monthly reset of free organizations, the billing page | extends `Billing` |
| `Monitors` | monitor requests, the tick, the job per monitor | |
| `Membership` | invitations, role changes, removal and deletion in one organization | |
| `Access` | first sign-ins, organizations, projects, API keys, CLI codes, the pool of connections | members change as in `Membership` |
| `TraceStore` | ingestion, merge, edits and deletion of one trace and its spans | |
| `TraceQueries`, `ScoreQueries` | the SQL of `trace_repo.py` and `eval_repo.py` as operators on sets of rows | |
| `Dashboard` | a client that lists, pages and opens sessions while rows change | instances of the two |
| `LocalTasksProofs`, `MonitorsProofs`, `MembershipProofs`, `AccessProofs` | theorems about the modules they are named after | |
| `EvalRunsProofs` | theorems about `EvalRuns`, `SessionRuns` and `SessionMetrics` | extends `SessionScores` |
| `BillingProofs` | theorems about `WebhookInbox`, `Billing` and `Subscriptions` | extends `Subscriptions` and `WebhookInbox` |
| `TraceProofs` | theorems about `TraceStore` and `Dashboard` | extends the two |
| `SetSums` | lemmas about least elements, maxima and sums over finite sets | used by the three above |
| `MC*` | TLC instances | |

**LocalTasks.** A row is a position in functions over `JobIds` (status, attempts,
`due` for `available_at <= now`). Every repository method is an operator
(`Create`, `ClaimNext`, `MarkCompleted`, `ScheduleRetry`, `MarkFailed`,
`RecoverRunning`), every commit of the runner or the scheduler an action. The
scheduler's check and insert are separate actions, as they are separate
statements. The write that settles a job may fail (`SettleFails`): the loop logs
the error and goes on, the row stays RUNNING (`orphans`) until the next start.
Handler results are `ok`, `error`, `timeout`, and `unknown` for a task name that is
not registered. The process stops in order or is lost at any step.

**EvalRuns.** The job of a run is a variable set of `JobContract`, and every step on it is
an action of that module, so what holds here does not depend on how the queue is built (that
`LocalTasks` keeps the contract is what `queue` checks). `plan` is the payload: the pairs of trace and metric the
job evaluates, all of them for a new run, the failed ones of another run for a retry
(`RetryFailed`, which does not ask whether the other run has ended). `run_eval_run` is one
action per commit: `Setup` (which deletes the scores and resets the counters of an earlier
attempt), `ScoreTrace` or `MissingTrace` per trace, `CompleteRun`, and then the runner's own
`FailRun` and `SettleJob`. Scores of a pair are two counts, so a duplicate row
would show; a request that names a metric twice, which the API accepts, is left out.
Between any two commits users edit and delete scores, traces and runs; `touched` remembers
whose, because nothing adjusts the counters then.

**SessionRuns.** Sessions are the targets of `EvalRuns` and session scores its scores. A
session has one trace, and a slot is that trace under one of the four signal metrics:
`rows` are its `trace_scores`, oldest first. `ScoreSignals` is the transaction that looks up
the newest SUCCESS of each slot, whoever made it, and computes what is missing;
`AggregateSession` is the one that stores the session scores. A value that is no number (a
BOOLEAN or CATEGORICAL score under a signal's name) raises outside the `try`, and every
attempt of the run fails on it. Retrying a session run takes failed sessions times failed
metrics (`RetryFailedSessions`), where a trace run keeps the pairs.

**SessionMetrics.** Signals are whole numbers up to `Scale`, weights tenths, scores fractions,
so that comparisons are exact; rounding to four digits is left out. A trace is the function of
the signals it has, because a signal that could not be computed changes what is averaged
(`weights`, the mean of the worst 15 %, the confidences that are compared).
`ScoresFollowSignals` (in `SessionScores`) says of them what the runs rely on at the moment a
session is scored: `WorstTraceShows`, `WorseIsNotBetter`, `RepetitionShows`. The first holds
for up to thirteen traces with the default weights; `SessionsAssumption` bounds `MaxTraces` so. It
also says that weights are not negative, which the API does not check: under a negative one a
worse signal does score better.

**WebhookInbox.** `at` is where each request stands between claim, handler and
mark. The five minutes of `locked_at` are the set `stale`; `ClaimAges` may happen
while the handler is at work, and `overran` remembers that it did.
A handler's effects are a counter of its commits. `Raises` covers both an
exception before the commit and a lost mark after it.

**Billing.** One organization, one paid plan. The subscription row's lock is held
by a request from `Reserve` to its end, and tried (`SKIP LOCKED`) by reporters.
A webhook handler keeps the row it read first (`seen`); SQLAlchemy writes only the
columns that differ from what was loaded (`Write`). Stripe keeps the idempotency keys
it has seen (`items`) and the units invoiced (`charged`), and emits the events of a
signup, a renewal or a cancellation. `InOrder` and `Contended` are constants so
that a run can say under which deliveries a property holds.

**Subscriptions.** `Billing` with the free months: `over` are those whose end has passed,
`resets` the jobs that wait or run, `reset` what the running one has read. The job writes
`current_period_*` from that, whatever has been committed in between (`CommitReset`), and makes
the record of the new period, which the unique constraint may refuse (`ResetRefused`). Every
action of `Billing` is taken along with what it does to `calm`: a history of whether anything
failed, was skipped for a lock, came out of order or was committed behind a reset.
`PendingOverage` and `ReportedOverage` are the page's own sums.

**Monitors.** `next` is what the code compares of `next_run_at`: none, later, due.
`fresh` is what `should_skip_monitor` asks: is there a trace that started after
`last_run_at`. The tick reads, reschedules without looking again and enqueues, in
three actions with requests in between. The insert of a run refers to its monitor,
so that a deletion in between makes it fail (`SpawnRefused`).

A run is spawned in three steps, by the job (`SpawnRun`, `CommitRun`, `DispatchRun`) and by a
trigger request alike (`PrepareTrigger`, `CommitTrigger`, `DispatchTrigger`): its targets are
resolved, it is committed together with a `last_run_at` that is the time of a moment later, and it
is enqueued. A run takes all traces that match, old and new. One of them is followed: `stored` and
`inRun` say whether it is there and which monitors have enqueued a run with it, `holding` whose
resolved targets contain it. Of the others only counts whether one has started after `last_run_at`,
or after a spawner's present (`newer`). `started_at` is the client's and may be of any age when the
trace is stored. A spawner may fail before its commit (`ProcessFails`, `TriggerFails`) or behind it
(`DispatchFails`, `TriggerIsLost`): the run is then PENDING for ever and has no job. An exhausted
quota, which `process_single_monitor_handler` takes for a job done (`definitions.py:71-80`), is one of
the ways `ProcessFails` ends; for ever it would end every job so, hence the bound of faults.
Monitors that sample, and those over sessions with a minimum of traces, are left out.

**Membership.** A request is two steps or more: one that looks (`CreateInvitation`,
`AcceptInvitation`, `UpdateMemberRole`, ...) and puts what it found in `req`, and one that
commits (`SendInvitation`, `Join`, `WriteRole`, ...), for `get_db_session` commits at the
end and no row is locked in between. Sending an invitation has a step more, because
members and pending invitations are counted by two statements and because the e-mail
job is committed first. Writes go to the row by its key, whatever has become of it; only the
unique constraint on memberships and the foreign keys refuse one. `stale` are the
requests whose findings another commit has changed, and `overlapped` remembers that such
a request committed: with it a property says what holds as long as no two requests
collide (which the code does not prevent), and `HasOwner`, which does without it, holds
even then. `lapsed` stands for `expires_at`.

**Access.** A request is a transaction: `SignIn` (the SELECT of `upsert_user`, which takes the
connection), `UpsertUser` (which inserts or updates the user's row, locks it, and provisions an
organization for who has none), `Welcome` (which enqueues the jobs of a new user through a second
connection), one operation that looks (`CreateOrganization`, `CreateKey`, ...) and its commit
(`Commit...`), or `Undo`. `Accepted` is what the constraints of the tables demand then. The
exchange of a code has no user: `PresentCode`, `Consume` (committed at once), `Recheck`,
`MintKey`. A request whose user another one has locked waits with its connection in hand
(`Waiting`), as an update or as an insert: the insert fails if the row has been committed by
then, and goes ahead if it was undone. Since FastAPI commits after the answer is sent, `Fail` may follow an answer.
`stale` is as in `Membership`; `aborted` counts the sign-ups that were rolled back after their
jobs had been enqueued. Who joins, changes and leaves is any change of roles (`MemberChanges`),
as `Membership` has it in detail.

**TraceStore.** A row has a column of each kind that the writers treat differently:
`head` (overwritten by every payload), `json` and `text` (nullable, merged by COALESCE,
which takes JSON null for a value), `keys` (metadata, whose keys are united) and `tags`.
Values are who wrote them last, or whether there is one. An ingest request reserves usage,
enqueues in a transaction of its own and commits (`Reserve`, `EnqueueTrace`, `Answer`);
since the reservation holds the subscription's row lock, requests of one organization take
turns, and `turn` is their order. `Persist` is the whole of `upsert_trace`, which commits
once. A PATCH is `LookUp` and `CommitPatch`: SQLAlchemy writes the named columns that
differ from what was read (`Write`). The job side is the queue's, kept to what one kind of
task needs: the oldest due row, a retry after an error, none after a time limit, a restart; and
the writes that are lost: a claim that commits without an answer (`ClaimIsLost`), and what would
settle an attempt, stored or not (`SettleIsLost`). Either leaves the job RUNNING with nobody at work
(`orphaned`) until a restart, maybe before its payload is stored: `CountedIsStored` says that what was
counted is stored, is FAILED, or waits for that restart.

**Dashboard.** `db` is the rows of four tables, each a set of records with its `created_at` for
an identity; `busy` is the table that changes in a behaviour. A listing maps ids to sort keys
(`KeysOf`) with NULL larger than all values (and last in a comparison, `Sooner`), and `Sorted` is every order that ORDER BY allows,
so that ties are broken at will. `CountRows` and `FetchPage` are the two statements of a page;
`ReadSummary`, `ReadTraces`, `ReadSpans` and `ReadStats` the four of a session. `Track` keeps
what commits in between mean to the client: who `moved`, whether rows `entered` or `left`,
whether one fell between two statements of a request (`torn`), whether keys are `tied`.
`TraceFigures`, `SessionFigures`, `ScoreSummary`, `ScoreDistribution`, `ScoreTrend`, `ScoreHistory`
and the rest are the endpoints' answers, evaluated on every content the tables can have.

## Runs and bounds

| run | shows | bounds |
|---|---|---|
| `queue` | `SingleFlight`, `AttemptsBounded`, `PeriodicUnique`, that LocalTasks implements JobContract, `QueuedIsSettled` | 2 rows of 4 kinds of task (retried after errors only, retried after timeouts too, periodic, no longer registered), 2 starts, 1 lost write |
| `eval_runs` | `CountersMatchScores`, `CompletedIsWhole`, `AcceptedRunEnds` | 1 run, 2 traces, 2 metrics, 3 attempts, 1 crash, 1 lost write, 2 edits |
| `session_runs` | `CountersMatchScores`, `SignalsOnce`, `ScoresFollowSignals` | 2 runs (one may retry the other), 1 session, 1 signal, 2 edits, 2 attempts each, no crash (a handler that is cut leaves the same); metrics: sessions of up to 13 traces, 3 levels of a signal, 4 outputs |
| `inbox` | `EffectsBounded`, `AckedIsProcessed`, `EventuallyHandled` | 1 event, 3 overlapping deliveries, 2 faults |
| `billing` | `WatermarkIsInvoiced`, `InvoicedOnce`, `CalmlyInvoiced`, `FreeUsageEarned`, `PageTellsInvoices` with disorder, contention, two webhooks at a time and a fault | 1 category, base 0, 1 free unit, 2 units in all (`Bound`), 2 Stripe periods, 2 free ones and the one after a cancellation |
| `monitors` | `ActiveIsScheduled`, `EnqueuedOnce`, `StoredReachesRun` | 2 monitors, with and without `only_if_changed`, 1 trace that is followed among any others, 1 trigger request at a time, 1 fault of tick, job or request |
| `membership` | `HasOwner`, whatever overlaps; `SeatsWithinPlan`, `NoSpareInvitation`, `OwnerKept`, `ProcessedOnce` until a request commits on overtaken findings | 3 users, 2 invitations, 2 requests at a time, plans of 2 or 3 seats |
| `access` | `FoundedWithinLimit`, `WelcomedOnce`, `OneKeyPerCode`, `KeysForMembers`, `RequestsEnd` | 2 people, 3 organizations, a limit of 2, 2 projects each, 2 keys, 1 code, 2 requests over 2 connections, 1 sign-up that fails (and those that wait behind it); ten mixes of operations |
| `trace_store` | `NewestStands`, `OnlyNamedFields`, `CountedIsStored` | 1 trace, 1 span, a full and a bare payload, 1 edit in flight, 2 attempts, 2 faults |
| `dashboard` | `PagesSkipNothing`, `PagesRepeatNothing`, `DetailAddsUp`, `FiguresAgree` | up to 3 rows of a table, of 3 to 5 kinds; 12 listings, 1 row a page, 2 traces a detail, 2 commits while the client reads |
| `billing_disorder`, `trace_erased` | a counterexample each, see below | smallest instance that has it |

Why they are enough: rows of the queue interact only in pairs, through the order of
claiming and the gate of a periodic task, and the proofs cover any number of rows;
runs and events share no rows among themselves; a retry meets only the last
attempt's leavings, and with three attempts there is one after a
retry and one after a crash; three deliveries are a holder, one that takes its
claim over, and a duplicate of both; two units over the base are two reports with
different snapshots, two periods are one renewal, and two free months one reset that
another one may follow. `Bound` leaves unexplored what lies
behind two webhooks at work when something has failed, and behind a reset that has put the period
of a paying organization astray. With two monitors a tick can fail
between them; two requests are one that is overtaken and the one that overtakes it, and
three users are an owner, one who is promoted or removed, and one who is invited
meanwhile. In `access` two first requests hold both connections and each needs another one: the
circle that ten of them close over ten connections. First requests of the same user overlap in two mixes
(`burst`): one enqueues and the other waits for its row, so that the two connections are gone with one
user. The operations of a behaviour are mixed by
pairs that share a table; the sign-in is part of each. With one trace that is followed, the other
traces and two monitors there is a trace before, within and behind each step of a run; monitors
share only the runner. Two payloads are one that is overtaken and the one that overtakes it, the
edit in flight may start again, and with two faults a job uses up its two attempts. Three rows and
one row a page give pages on both sides of a row that comes, goes or moves. The bound of one outstanding job per monitor leaves out schedules
shorter than the queue is long. Usage units, periods, faults, starts and crashes are counters
that the code does not bound; the constants cap them in the guards. `EvalRuns`, `SessionRuns`,
`LocalTasks`, `Billing`, `Membership`, `Access`, `TraceStore` and `Dashboard` end when their bounds are used up (a deleted
organization has nothing left to do), so deadlock is not checked there; it is in the inbox and monitor runs.
What a circle of requests that wait for each other would do to `Access` shows in `RequestsEnd`.

Each property has a mutant: a change of one modelled definition that a plausible
slip in that code would be (named in a comment beside the original), under which
the property fails.

## Fairness

* **Queue**: the worker loop polls without end, each handler has a time limit, a
  retry's delay passes, a stop ends, and a lost process is started again
  (`restart` in the compose file). No fairness of crashes, faults or requests.
* **Runs**: the runner executes what it holds, and a request that committed goes on
  to its enqueue. `AcceptedRunEnds` says nothing after a lost write: its job waits
  for the next restart.
* **Inbox**: requests run to their end, time passes, and Stripe delivers an event
  again for as long as it was not handled (strong fairness, since a delivery needs
  a free worker). Stripe stops after an answer of 2xx; the property says that no
  row gets stuck, and `AckedIsProcessed` says when a 2xx is deserved.
* **Monitors**: time passes, jobs are served in order and the tick comes every
  300 seconds, hence strong fairness of the tick and of starting a job: the runner is
  busy with others in between, but not forever. A trigger request that is under way goes on, to its
  dispatch or to an error. `StoredReachesRun` assumes that users stop
  changing cadences at some time: each change starts the wait again.
* **Access**: a request that is under way proceeds, by itself, by the pool's timeout or by a
  refused commit (weak fairness of `Proceed`). One that waits for its user's row gets it when it is
  released again and again (strong fairness of `UpsertUser`): PostgreSQL grants a lock in the order of
  those who wait. Nobody has to send one.
* **Traces**: the runner polls and a retry's delay passes, as in the queue.

Billing has no liveness property: when overage is reported depends on Stripe's
calendar. Nor has the dashboard: nobody has to ask for the next page.

## Proofs

The proofs are for every value of the constants that satisfies the modules' assumptions: natural
bounds, `Periodic` among the tasks, webhook names different from the job's, nothing that is called
like the value that stands for none of it (`NoRun`, `NoMonitor`, `None` of the columns), and finite sets where something is
counted or added up over them (metrics, signals, payloads, categories, rows). Each safety theorem goes the same way: a
type invariant, an inductive invariant that implies the property, one step per action, and the
temporal conclusion.

* **LocalTasksProofs**: `TypeCorrect`, `SingleFlightCorrect`, `AttemptsCorrect`,
  `SettledCorrect`, `PeriodicCorrect`, `ContractCorrect`. `SingleFlight` is not inductive: whether a
  row can be claimed again depends on what the runner holds. `IndInv` adds that rows
  are created in order (`RowsFresh`), that the runner's row is no orphan and a
  running process has been started (`Held`), what a queued row has left of its budget
  (`BudgetLeft`: a row that is PENDING has an attempt less than its bound, which pays for
  the recovery), that a verdict has a reason (`VerdictFounded`), and that a scheduler
  that found no active row still finds none (`GateHeld`: nobody else inserts that task).
  `ContractCorrect` is the refinement: with `IndInv` each step maps to a step of `JobContract` or to a stutter.
* **BillingProofs**, of `InboxSpec`: `OneHandlerCorrect`, `EffectsCorrect`, `CompletedIsFinalCorrect`,
  `AckedCorrect`; of `Billing`'s own `Spec`: `TypeCorrect`, `WatermarkCorrect`, `InvoicedOnceCorrect`; and of
  `SubscriptionsSpec`, which the run checks: `SubscriptionsBilling`, `CalmCorrect`, `PageCorrect`, `FreeCorrect`.
  * Of the inbox, `ClaimInv` says that a worker past its claim has a row that is PROCESSING and fresh
    (`ClaimHeld`), which is why nobody else can claim it, and that commits beyond the number of faults are
    explained by a completion, made or about to be (`EffectsPaid`). For `AckedIsProcessed`, `BehindEachRow`
    says what stands behind a row while nothing fails: no request is in the except branch, and either the
    handler has committed or a request is still before it.
  * `WatermarkInv` relates Stripe's keys to its invoices (`KeysInvoiced`: a key that was
    seen stands for that snapshot's overage invoiced) and a reporter about to commit to
    the items it created (`SnapshotInvoiced`). `OnceInv` adds that reporters hold the lock,
    that watermarks are below counters, and that without faults Stripe has exactly what
    the watermarks, or the report in progress, account for (`ExactTotals`).
  * `ShapeInv` says which pending webhooks, resets and requests there can be at once. On top of it
    `CalmState` says what is so while all is calm: one reset at most is queued, and finds the period it was
    queued for (`CalmResets`); a paying customer is in Stripe's period, or in the one before until the renewal
    is handled (`CalmPlan`); webhooks are handled in order, and what they have read still is so (`CalmHooks`);
    who has reported keeps the lock (`CalmLock`); closed records are of periods that are left
    (`CalmBilled`); each free record follows one that is over (`CalmFree`); and `NothingForfeited`.
  * `PageTellsInvoices` and `FreeUsageEarned` are about sums. `MapThenSumSet` is a recursive table over
    subsets, about which `SetSums` has the lemmas. `PageExact` and `FreeBound` relate the terms.
* **EvalRunsProofs**, of `Spec` and of `SessionSpec`: `TypeCorrect`, `CountersCorrect`,
  `WholeCorrect`, and `SessionTypeCorrect`, `SessionCountersCorrect`, `SessionWholeCorrect`, `SignalsCorrect`.
  `JobInv` says what a job, its run and the handler know of each other. `Scoring` adds to the
  counters which traces the attempt has gone through (scores only of traces no longer to do). `Whole` adds that
  `evaluated_count` and what is to do make the targets of a run that is being scored. A session step is a step of
  `EvalRuns` or leaves all that alone (`SessionStepIsRunStep`), so that the invariants carry over. For the signals
  `SignalInv` says that, unless a score was blanked, no row of a slot is blank and two rows that are paid for are the
  same one; lookups return the kind of a row that did not fail (`ExistingIs`), and what deletions leave of a slot are
  different rows of it (`WithoutSelects`, `UnlinkedSelects`, `RemoveAtSelects`).
* **MonitorsProofs**: `TypeCorrect`, `ScheduledCorrect`, `EnqueuedOnceCorrect`. `ActiveIsScheduled` is
  inductive as it stands. That only the tick adds jobs is plain; that it has an occurrence for each
  needs `Accounted`: whatever is due, read or moved has come once since it was last enqueued, and
  what is due again while its job is still to be enqueued has come twice. For a monitor deleted
  between read and move that rests on `GoneUnscheduled`. `Room` is the same for the bound on jobs.
* **MembershipProofs**: `TypeCorrect`, `OrganizationHasOwner`, `SeatsStayWithinPlan`,
  `NobodyHasASpareInvitation`, `OwnersAreKept`, `InvitationsAreProcessedOnce`. For the owner,
  `FounderOwns` is inductive: no request that passed its checks names the founder, who
  is an owner from the start. For the rest, `SeatInv` adds `FindingsHold`: what a
  request in flight has read is still so, unless it is in `stale`. With it each commit is
  as good as a transaction of its own. `SeatsKept` counts members and open invitations.
* **AccessProofs**: `TypeCorrect`, `OneKeyCorrect`, `WelcomedCorrect`, `FoundedCorrect`, `KeysCorrect`.
  `Exchanges` says who has a code in hand: it is gone before its key is made, by the one request that consumed it.
  `SignUps` says that one request of a user is past the lock of his row while others wait, and that it is a new
  user's exactly if the row is not there yet. `Foundings` adds that founders stay owners and that what such a request has
  counted still is so (`CountsOn`). `Grounds` says that what a request that makes a key has found
  still holds, unless it is in `stale`.
* **TraceProofs**, of `Spec`: `TypeCorrect`, `NewestCorrect`, `NamedFieldsCorrect`. `NewestInv` follows a payload from its
  acceptance to the row: turns are given in order (`Turns`), without faults jobs wait and run in that order
  (`InOrder`), and what the row's head is was merged (`HeadIsMerged`). `OnlyNamedFields` follows from the
  types and the one action that commits a PATCH. Of `DashboardSpec`, for any rows, listings, page
  sizes and number of commits: `PagesSkipCorrect`, `PagesRepeatCorrect`, `DetailCorrect`, `FiguresCorrect`.
  * Pages rest on the rank of a row, how many are ahead of it (`Rank`): in every order that ORDER BY allows,
    a row without an equal stands at its rank, so that a page has the rows whose ranks it spans (`PageRanks`).
    Nothing but an entry or a row that comes forward raises the rank of a row that keeps its place, nothing but
    a row that leaves or falls back lowers it (`RankRises`, for either direction). `SkipInv` says that a row
    that has kept its place and ranks below what was asked for has been seen; `RepeatInv` that rows seen are different
    and all rank below it. `KeysAre` is that each listing maps finitely many ids to comparable keys.
  * For a session's detail `DetailInv` follows the four statements: what each has read is still so unless
    a commit fell in between (`torn`). The traces shown are then all of the session, or the first of them, and
    their spans and tokens add up to the summary's since the summary sums over the same rows (`DetailSums`).
  * `FiguresAgree` compares answers of different queries to the same tables, which is about sums: a table of
    lines per day, model, token or user sums what the lines' groups partition (`LinesSum`, `LinesCount`, on
    `SumsParts`), the bars of a distribution make up the counted scores because every score falls in exactly one bar (`BucketIs`,
    `BarsAgree`), averages lie between the extremes (`AverageIs`).
* **EvalRunsProofs**, of the metrics: `WorstShows`, `WorseShows`, `RepeatedIsLoop`, `UnlikeIsNoLoop` and, for all outputs there are, `RepetitionsShow`.
  They are about the formulas, for any values; that a session is scored by them is for the run
  (`ScoresFollowSignals`).
  The mean of the worst risks is the largest sum of as many (`LargestIs`), which grows with each risk
  (`LargestMono`), so that a worse signal never scores better, for any weights in Nat and any sessions. Up to thirteen traces
  the worst risks are one or two (`TopKIs`), so that a full one puts the score below the threshold wherever it stands.
  The two about loops are for outputs of any words and sessions of any length.
* **SetSums** has what those proofs share. A sum is a recursive table over subsets (`MapThenSumSet`); that the table
  exists, and that sums add, compare, are bounded and split into parts, is proved by taking a smallest counterexample
  (`LeastSubset`, `TableExists`, `SumsRec`, `SumsParts`), since induction theorems with an operator
  parameter cannot be used. The order in which a fold takes the elements does not matter (`AnyOrder`).

Only model-checked is liveness (`QueuedIsSettled`, `AcceptedRunEnds`, `EventuallyHandled`, `StoredReachesRun`,
`CountedIsStored`, `RequestsEnd`): the prover has no rules for fairness and ENABLED; and
`ScoresFollowSignals`, whose three parts are what `WorstShows`, `WorseShows` and `RepetitionsShow` prove.
Every other property of a passing run is a theorem. What TLC adds to the proofs is that the states which a property is about occur, and the
instances whose counterexamples the mutants show.

The type invariants are proved, and not checked again by a run.

## Where code and text disagree

* `billing_disorder`: `customer.subscription.updated` is handled before `invoice.paid`; the
  renewal then closes the new period, what `billing_service.py:418-420` warns of for signups.
  A second handling of `invoice.paid`, after its mark was lost, does the same.
* `trace_erased`: "Non-null incoming scalar fields overwrite existing values"
  (`trace_repo.py:52`), yet a payload without an output erases the stored one: for a JSONB
  column SQLAlchemy binds `None` as JSON null, which is not SQL NULL, and COALESCE takes it.

Others are behaviours of passing runs that no property forbids.

* When `invoice.paid` finds the row locked, it skips "any remaining unreported overages"
  (`billing_service.py:413`) and closes the period all the same (`CalmlyInvoiced` excepts
  handlers that go on without the lock).
* A reset of a free organization that is executed again, because its mark was lost, or was
  queued before a checkout, moves the period without another look at plan or date
  (`FreeUsageEarned` and `CalmlyInvoiced` say that it takes a fault or an overlap).
* The billing page reads usage and reported counts by statements of their own; a report
  committed between them makes the pending overage negative. `PageTellsInvoices` is of one moment.
* `create_checkout_session` does not ask whether the organization already has a subscription at
  Stripe; the model has one subscription for each.
* An item is created, the transaction fails, usage grows, and the retry has another
  idempotency key and invoices the first units again, against "preventing double-billing"
  (`billing_service.py:211`). `InvoicedOnce` says that it takes a fault.
* The enqueue of a run fails after its commit. The "best-effort compensating decrement"
  (`usage_service.py:77`) runs in the transaction that `get_db_session` then rolls back: the
  answer is an error, and the PENDING run and its charge stay (`DispatchFails`).
* A later attempt of a session run deletes the signals of the earlier one
  (`handlers.py:357`), also when another run has aggregated them meanwhile: its score can
  then not "be traced back to the specific traces and signals that caused it"
  (`docs/evaluation/get-started/concepts.mdx:124`) until they are computed again.
* Retrying a session run covers more than "the session+metric pairs that failed"
  (`routes/evaluations.py:1151`): all failed metrics for all failed sessions.
* A job that was queued before a monitor was paused creates a run after it, against "no new
  runs are created" (`docs/evaluation/setup/scheduling.mdx:168`).
* `only_if_changed` "skips a scheduled run if no new traces or sessions have arrived since the
  previous run" (`docs/evaluation/setup/scheduling.mdx:157`), and also when some have: one that is
  stored with an older `started_at`, one that is stored after the targets of the previous run were
  resolved and before its `last_run_at` was taken (`handlers.py:275-282`), and all of a run that
  was committed and never enqueued (`handlers.py:288-293`). They wait for something newer;
  `StoredReachesRun` names this as the only exception (`PassedBy`).
* A tick whose settling write is lost leaves its row RUNNING and its schedule gated until a
  restart (`QueuedIsSettled` excepts orphans), although `scheduler.py:109` says that one failed
  tick must not stop scheduling.
* "A session with one catastrophic trace scores poorly even if all other traces are fine"
  (`docs/evaluation/agent-evaluation/metrics.mdx:17`) holds of `agent_reliability` for up to thirteen
  traces: with the fourteenth the score is no longer below the threshold of 0.5
  (`WorstTraceShows` fails for `MaxTraces = 14`).
* A session none of whose signals could be computed scores 1.0, as documented; an output whose
  words are all stop words or single characters is never a loop; signal values that users post
  and `signal_weights` are not confined to 0..1.
* `get_or_create_project` promises to survive a lost race for a name by a savepoint
  (`project_repo.py:47-66`), but `begin_nested()` flushes the insert before the savepoint is
  made: the whole transaction fails (`ConstraintFails`).
* The answer to a request is sent before its transaction commits (`engine.py:39-47` with FastAPI's
  dependencies): a raw API key may have been shown that is not in the table.
* A sign-up that fails after its jobs were enqueued has the user welcomed again
  (`WelcomedOnce` counts `aborted`); each first request needs a second connection, so that ten
  at once wait for the pool's timeout.
* PATCH of a FAILED numeric score without a value makes it a SUCCESS with NULL
  (`eval_service.py:357-366`); the distribution of that metric is then an error, as `FiguresAgree` says.
  A value of 1.0 falls in a bucket of its own behind the last one, with the bounds [1, 1].
* The history of a session's scores is "one row per (metric, eval_run)" in its docstring; the
  query returns every numeric row.
* Lists of sessions by trace count, latency or cost, and of traces by status or name, have no
  tie-breaker: pages may repeat or skip rows that are equal (`tied`). The filters of a session
  list are applied to traces, so that a listed session's figures are of those traces that match.
* A duplicate is acknowledged while the delivery that holds the claim may still be lost
  (`AckedIsProcessed` is stated for `faults = 0`).

## Not modelled

`TraceStore` has one trace; that a payload queued before a deletion stores the trace again, and
that two PATCHes of the metadata can lose a key, are behaviours of the model that no text rules
out. What the filters of a run or a monitor match is decided once for each trace.
`Membership` and `Access` leave out renaming an organization, plans without a limit of members, and
changes of the plan (a downgrade may leave more members than seats). In `Access` two requests that rename
projects to each other's names deadlock in PostgreSQL, which ends one of them: it appears as
`Fail`; likewise requests with one API key wait for each other at `last_used_at`.
`Subscriptions` has one Stripe subscription for an organization; a checkout or a portal session is
a call of Stripe and changes nothing here. In `SessionRuns` the embedding cache is left out.
`Dashboard` takes one table to change in a behaviour, and one statement for the rows of a page although SQLAlchemy
loads the spans of traces by a second one, which only the detail of a session shows.

Left out for good: prompts and LLM calls (seen by
the runs as a score, a failed score or an exception), `coherence` (one cosine), token verification and
rate limits (libraries, counters in memory), e-mail, CRM,
product analytics, pages of the frontend, the command-line client. Amounts of money are not modelled, units are:
each invoice item is rounded to cents on its own. Row locks other than those of the subscription and
the user are not modelled; a deadlock that PostgreSQL resolves appears as the failure of one side.

## Plan

1. Queue, runs, session runs, inbox, billing, monitors, membership, trace store, with the
   first proofs. *(done)*
2. Free months and the billing page; sign-up, projects, keys and codes over the pool; queries;
   metrics. *(done)*
3. Proofs of every safety invariant and action property that the runs check, of both refinements,
   and of the metrics behind the scores. *(done)*
4. Liveness stays with TLC. What could be added are a second trace in `TraceStore`, with the deletion that a
   queued payload undoes, and downgrades in `Membership`.
