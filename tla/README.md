# Formal models of stars-service

TLA+ specifications of the parts of stars-service in which orders are accepted,
paid for, retried, cancelled, swept up and announced, and in which clients are
let in, limited and deleted; TLC configurations that check them on small
instances; and proofs, checked by TLAPS, of what matters most for every size.
Paths below are relative to the repository.

## 1. The system

| Component | State | Operations | Talks to |
|---|---|---|---|
| Order API (`app/api/v1/orders.py`, `app/services/orders.py`) | `orders`, `order_events` | create, cancel, retry, read | PostgreSQL; `enqueue_order` puts jobs into Redis |
| Idempotency (`create_order`, unique index on client and key) | the index | look up, insert, fall back to the winner's row | PostgreSQL |
| Job queue (`app/workers/queue.py`, ARQ) | jobs in Redis, no stable id, `max_tries = 1` | enqueue, deferred enqueue, take | API, worker, sweeper |
| Worker (`process_order`, `execute_order`) | the row, and the copy a job has loaded | claim by compare-and-swap, call the provider, write the outcome, requeue | provider, PostgreSQL, Redis |
| Provider adapters (`app/providers`) | HTTP client or library handle | buy stars, premium, gift; classify errors | Bot API, Fragment |
| Sweeper (`sweep_stuck_orders`) | one long transaction | requeue or fail stuck `processing` orders | PostgreSQL, Redis |
| Webhooks (`app/services/webhooks.py`, `send_webhook`, cron) | `webhook_deliveries` | enqueue, pick what is due, post, back off, give up | the client's endpoint |
| Rate limiter (`app/services/rate_limit.py`) | a Redis sorted set per client | count and admit, in one script | `app/api/deps.py` |
| Clients and admin (`app/api/deps.py`, `admin.py`) | `api_clients` | authenticate, create, update, delete with cascade | PostgreSQL |
| Catalog, health, schemas, URL checks, signing, middleware | none | stateless | |
| Migrations, deployment, scripts | none at run time | | |

An order's way:

    POST /orders/... --authenticate, limit--> lookup/insert --> pending
      --job in Redis--> mark_queued --> queued
      worker: UPDATE ... WHERE status IN (pending, queued) --> processing --> provider
        --> completed | failed, with a webhook row in the same commit
          | pending and a deferred job
      cancel: -> cancelled     retry: failed -> pending     sweep: processing -> pending | failed
      webhook row: job or cron --> send_webhook --> delivered | failed | later again

What correctness means, component by component:

- **Execution**: one executor at a time; nothing bought that nobody asked for, save
  where the outcome of a charge could not be known; no paid order back in line;
  every order ends; attempts bounded.
- **API**: a cancel does not undo somebody else's step; /retry cannot be raced
  past the limit; a waiting order has a job.
- **Idempotency**: one order per key; the same answer to everybody; queued once.
- **Sweeper**: no order stays in `processing`; what is swept has a job, an event
  and a webhook.
- **Webhooks**: given up only after the limit, closed only when accepted, and
  never pending for ever, however many others are due; requests off the record,
  duplicates and stranded rows only where sends overlapped or died; one success
  notice per purchase, and it arrives.
- **Rate limiter**: at most the limit in any window, and no refusal that was not
  earned.
- **Clients**: deactivating one is not undone by its own requests and strands no
  order; deleting one leaves no row behind and spends no more money.

The hard behaviours are handlers that read a row in one transaction and write it
in another, a queue whose jobs become visible before or after the commit they
belong to, purchases whose outcome is unknown, clocks read outside the script
that uses them, and processes that die anywhere. PROJECT.json lists the hazards
with their lines.

## 2. Modules

| Module | What it is |
|---|---|
| `Providers` | How each adapter classifies the events that can end a purchase, and which provider takes which order |
| `OrderLifecycle` | API handlers, queue, jobs and sweeps over the rows of orders, with breakdowns |
| `PaymentLedger` | The abstract promise: authorise one executor at a time, confirm once |
| `OrderIntake` | `POST /v1/orders/*` with overlapping and dying calls that share idempotency keys |
| `Webhooks` | Delivery rows and the jobs that work on them |
| `OrderNotifications` | `OrderLifecycle` and `Webhooks` together |
| `WebhookBacklog` | More deliveries due than one pass selects |
| `RateLimit` | The sliding window of one client |
| `Clients` | Authentication and administration of clients, under running requests and jobs |
| `MCOrderLifecycle`, `MCOrderIntake`, `MCOrderNotifications`, `MCWebhookBacklog`, `MCRateLimit` | Values for TLC |
| `OrderLifecycleProofs` | Exclusion, charges and the ledger |
| `OrderHistoryProofs` | Jobs, records and attempts of an order; extends the former |
| `OrderIntakeProofs`, `WebhooksProofs`, `WebhookBacklogProofs`, `RateLimitProofs`, `ClientsProofs` | Theorems about these components |
| `OrderNotificationsProofs` | Theorems about the composition, from those about its parts |

`OrderLifecycle` and `OrderIntake` extend `Providers`; `OrderLifecycle`
instantiates `PaymentLedger`; `OrderNotifications` extends `OrderLifecycle` and
instantiates `Webhooks`, and `OrderNotificationsProofs` extends
`OrderLifecycleProofs` and instantiates `WebhooksProofs` in the same way.

### 2.1 OrderLifecycle

Every action is a database transaction of one handler or job, or the Redis or
provider call between two of them.

| Code | Model |
|---|---|
| columns of `orders` | `status` ("none": not created), `attempts`, `providerRef` (is it set), `stale` (`started_at` older than the sweeper's threshold) |
| `order_events`, `webhook_deliveries` | `trail`, `announced`: the last event and the last webhook committed |
| ARQ jobs `process_order` | `queue[o]`, a count: order and delay only say when, and every interleaving is explored anyway |
| wallet | `paid` (purchases reported as success), `unseen` (debited, and never reported) |
| what clients asked for | `asked`: one for the create, one for each accepted retry (history) |
| charges the service went on without knowing of | `blind`: behind a failure that was retried, or in the hands of a job that died (history) |
| a running job | `wpc`, `word`, and the `wst`, `watt` its ORM object has loaded |
| a running request | `rpc`, `rord` |
| a sweep | `swRows` still to do, `swTries` as selected, `swDirty` updated and uncommitted (locked) |
| `create_order`, `enqueue_order`, `mark_queued` | `CreateOrder`, `EnqueueOrder`, `MarkQueued` |
| `cancel`, `retry` | `CheckCancel` then `CancelOrder`; `CheckRetry` then `ClaimRetry`, then as for create |
| `execute_order` | `ClaimOrder` or `ClaimRefused`, `LoadOrder`, `CompleteOrder` / `RetryLater` / `FailForGood`, `ReadBack` |
| end of `process_order` | `FinishJob` |
| `sweep_stuck_orders` | `SweepScan`, `SweepRow`, `SweepCommit` |
| deploys, OOM, `job_timeout`, failing connections | `WorkerDies`, `JobLost`, `RequestDies`, `SweepDies` |

Decisions worth knowing:

- **READ COMMITTED.** A compare-and-swap whose condition fails on the committed
  row returns nothing at once; one whose condition holds waits for a row lock.
  An UPDATE by primary key waits and then overwrites.
- **The ORM writes only changed columns.** `Flush` compares with the status the
  job loaded. A cancelled order whose job then completes becomes `completed`;
  the cancel of a completed order stays. `provider_ref` needs no such comparison:
  while executors exclude one another the loaded value is the stored one.
- **`Age`** lets a claim become stale only when no job is still working on it:
  `job_timeout` ends a job after 180 s, the threshold is three times that. A
  purchase that outlives its job (Fragment's thread is not cancelled) is counted
  in `unseen` when the job dies.
- **`refunded`** is never assigned by the code and is left out of `Statuses`.
- A breakdown takes from a counter bounded by `MaxInterrupts`; nothing else
  about it is restricted.
- `Providers!MayHaveCharged` is the one assumption about the world: after a
  timeout, a broken connection, an answer that is not JSON, or an unrecognised
  library exception the wallet may or may not have been debited; a definite
  refusal did not debit it. A purchase refused before it is sent (a missing
  recipient, an unknown duration) behaves like `not_configured`.
- Every order is taken to have a webhook URL; one without sends nothing.

### 2.2 OrderIntake

A call is one HTTP request, and what it says is its record `ask` (client, key,
body). `Receive` is the request schema: FastAPI answers 422 ("invalid") before
the handler runs. Then `Lookup`, which answers with the stored order or resolves
the provider (`Route`: refused, or on to the insert), `Insert` (waits while
another open transaction holds the key), `Commit` or `Conflict`, `Enqueue`,
`Accept`; `Dies` rolls an open transaction back.

`Conflict` has three answers. The second lookup finds the winner's row; or there
is none to find and the client is told of a conflict; or the lookup raises:
`db.rollback()` expires the client's row, whose id it reads, and a comment at
`app/api/v1/orders.py:192-193` says that such an access raises. There is nothing
to find when the key is the empty string: `create_order` looks a key up only if
it is truthy, but the row keeps, and the index compares, an empty one.

Authentication and the rate limit come before all this and are in `Clients` and
`RateLimit`. An order that was stored and whose process died before `Enqueue`
stays without a job, and a replay under the key does not queue it: the
`DispatchedOnce` property says "at most once", not "exactly once".

### 2.3 Webhooks

`Kick` and `KickAll` queue `send_webhook` jobs: the two-minute cron, whose jobs
others may overtake and which is therefore one step for each row, and the end of
a `process_order` job, which queues what is due at once. A `send_webhook` job is `Load`, then `Deliver`
(the POST, the outcome, the commit), or `SenderDies`. `next` abstracts
`next_attempt_at` to past, future or NULL. `Written` is the ORM's dirty check:
because status and next_attempt_at are written independently, overlapping jobs
can mix two outcomes in one row.

Nothing keeps two jobs off one row (`max_jobs` is 20 and the row is read without a
lock), so the specification has any number of senders and its properties are about
all of them. `races` is history, read by no guard: how often a send of a row was
started while another held it. Together with the deaths it is the price at which
the properties hold: `AttemptsAreCounted` lets one request be missing from
`attempts`, and `AcceptedOnce` one duplicate be accepted, for each of them, and
`DeliveredIsFinal` and `StrandedOnlyByRaces` say what only an overlap can do.

### 2.4 OrderNotifications

The two specifications run side by side and meet where the code makes them meet.
`Sends` writes the delivery row in the same step as `CompleteOrder` or
`FailForGood` (`enqueue_webhook` is called inside the order's transaction);
`EndOfJob` queues what is due for every order, as `process_order` does, unless the
order itself is to be retried. Deliveries come from the bounded set of ids that are
`Unused`. All other
steps of an order leave the deliveries alone (`Quietly`), and all steps of a
delivery leave the orders alone. `subject` says what a delivery is about, `heard`
is history: the first and the latest event the endpoint accepted.

### 2.5 WebhookBacklog

`line` is the index scan of `pending_webhook_ids`: what is pending and due, by
`next_attempt_at`. `Select` takes its first `Limit[p]` rows (200 for the cron, 20
at the end of a job), `QueueNext` queues them one by one, `Run` is a whole
`send_webhook` job, whose interleavings are the subject of `Webhooks`. A row in
`Doomed` is one whose write fails each time (an endpoint's answer with a NUL
character, which PostgreSQL's text refuses): its job ends with an exception, the
row keeps its place and its count of attempts, and is posted again at every pass.

### 2.6 RateLimit

| Code | Model |
|---|---|
| `time.time()` in the API process | `ReadClock`, any reading within `MaxAhead` and `MaxBehind` of real time `now`; the way to Redis counts as being behind |
| the Lua script | `RunScript`: `Kept` is ZREMRANGEBYSCORE and ZCARD, `AddMember` ZADD and EXPIRE |
| the member `now:token` | `Member`: the request itself, since the random part makes it unique |
| the key's TTL | `expires`, by Redis's own clock |
| `limit or settings.rate_limit_per_minute` | `Effective`; `ChangeLimit` is the admin's PATCH |

`at` and `rank` are history: when a request was admitted, and as the how-manyeth.

### 2.7 Clients

| Code | Model |
|---|---|
| `api_clients` | `row`: absent, active, inactive, deleted |
| `get_current_client` | `Authenticate` (the load), `TooMany` (429), `Touch` (the commit of `last_used_at`, which finds no row if the client is gone) |
| `create_order` and the rest of the request | `InsertOrder` (the foreign key, and the lock it puts on the client's row), `CommitOrder`, `Dispatch` |
| `update_client` | `LoadForUpdate`, `SaveUpdate`: only a changed `is_active` is written |
| `delete_client` with ON DELETE CASCADE | `LoadForDelete`, `DeleteClient`, which waits for open inserts |
| `execute_order` | `ClaimOrder`, `LoadOrder`, `Answer`, each of which may find the order gone |
| `_handle_failure`, end of `process_order` | `Outcome`: completed, failed, or pending again while attempts are left; then `Requeue` |
| `job_timeout`, deploys, OOM | `WorkerDies`: between any two steps, a call under way charged or not |
| `sweep_stuck_orders` | `Sweep`: one order that no job works on any more, in one step |

The provider's verdict and whether it charged are chosen apart: a success has
charged, a failure of either kind may have. What `OrderLifecycle` looks into and
this module does not is marking as queued, cancel, retry, and sweeps that overlap;
none of them asks who the client is. `cut` is history: the orders that were deleted
while a job was calling the provider for them, until that call is over.

## 3. Checks

### 3.1 Runs that pass

| Run | Instance | Shows |
|---|---|---|
| `lifecycle` | 1 order, 2 jobs, 3 requests, 2 attempts, Bot API whose answers are JSON or lost, nothing breaks, fairness | `TypeOK`, `NoOrphan`, `AuditAtRest`, `AnnouncedAtRest`, `NeverChargedUnasked`, `EveryOrderFinishes` |
| `lifecycle_faults` | 1 order, 3 jobs, 2 requests, 1 sweep, 2 attempts, Fragment, 2 breakdowns of any kind, fairness | `ExclusiveExecution`, `PaidOrderNeverRequeued`, `AttemptsBoundedByRaces`, `ExtraChargesAreBlind`, `ImplementsLedger`, `NoOrderStuckProcessing` |
| `intake` | 3 calls, 2 clients, a key, an empty one or none, four bodies (one invalid, one misrouted), calls die, fairness | `TypeOK`, `OneOrderPerKey`, `RepliesAgree`, `DispatchedOnce`, `RoutedOrders`, `CatalogIsHonest`, `EveryCallEnds` |
| `webhook_overlap` | 1 delivery, 2 senders, 3 attempts, 3 waiting jobs, 2 deaths, fairness | `TypeOK`, `NeverGivenUpEarly`, `DeliveredWasAccepted`, `AttemptsAreCounted`, `AcceptedOnce`, `StrandedOnlyByRaces`, `DeliveredIsFinal`, `EveryWebhookSettles` |
| `notifications` | 1 order, 1 job, 1 request, 1 sweep, 2 attempts, the mock provider; 2 deliveries of 2 attempts, 1 sender; 1 job and 1 sender die; fairness | `NotificationsTypeOK`, `OneSuccessNotice`, `OutcomeReachesClient` |
| `webhook_backlog` | 3 deliveries, 1 of them doomed, 3 attempts; the cron selects 2, a job 1; fairness | `TypeOK`, `EveryRowIsReached` |
| `rate_limit` | 4 requests, window of 4 ticks, readings up to 1 ahead and 1 behind, 7 ticks, a limit of 1 and a default of 2 | `TypeOK`, `WindowRespected`, `RefusalEarned` |
| `clients` | 1 client, 2 orders, 2 admins, 1 request, 2 jobs, 2 attempts, 1 death for each order, fairness | `TypeOK`, `NoStrayRows`, `DeactivationSticks`, `DeletionStopsSpending`, `AcceptedOrdersEnd` |

`NoOrphan`, `AuditAtRest`, `AnnouncedAtRest` and `EveryOrderFinishes` are about
runs in which nothing breaks off, because that is all the code can keep; the
configurations of 3.2 show what breaks them. They do admit every interleaving.
`NeverChargedUnasked` needs a provider that does not answer a charged purchase
with something the adapter takes for a temporary failure, and jobs that do not
die while they call it: in `lifecycle` it says that no interleaving adds a charge.
`ExtraChargesAreBlind` drops both conditions and says what is left without them:
each charge beyond what was asked for has its own charge that nobody could know of.

`notifications` has one `send_webhook` job at a time: two make the instance larger
than TLC can finish in reasonable time. What overlapping jobs do to a delivery is the
subject of `webhook_overlap`, which strands rows, posts duplicates and loses
increments, and reaches each bound in its properties.

`OneSuccessNotice` is the reason why the webhook's row is written in the order's
transaction: it holds although a job may die before or after every commit.
`WindowRespected` and `RefusalEarned` are what the docstring's promise becomes
when the clocks of the API processes are apart: the window is shorter or longer
by their drift. `DeletionStopsSpending` leaves open what cannot be closed, the
one call that is under way when the client is deleted; its purchase is then on
no record, since its order is gone.

One more configuration passes and is kept for a smaller question: `SafeDefault.cfg`
(`MCOrderLifecycle`: `NeverChargedUnasked` with three attempts while jobs in Redis
are lost and the API dies).

### 3.2 Runs that find a disagreement

Each checks one statement of the documentation, a comment or a test.

| Run | Statement | What happens |
|---|---|---|
| `cancel_race` | README.md:179, only pending or queued can be cancelled | a cancel checked earlier overwrites `processing` or `completed` |
| `blind_retry` | providers/botapi.py:89-92, mutating calls are not retried blindly | an answer that is not JSON is retried |
| `sweep_before_commit` | worker.py:84, stuck orders go back to the queue | the job is consumed before the commit that it needs |
| `webhook_stranded` | worker.py:73, the cron retries what is pending | pending with no next attempt, never selected |

More configurations are kept for the same purpose and are not among the listed
runs; each ends with the counterexample described.

| Configuration | Module | Statement | What happens |
|---|---|---|---|
| `CrashThenSweep.cfg` | `MCOrderLifecycle` | tests/test_security_fixes.py:106, executed only once | the job dies during the purchase, the sweeper has it bought again |
| `RetryRace.cfg` | `MCOrderLifecycle` | api/v1/orders.py:210-212, the limit keeps its meaning | two calls that read the same attempts |
| `OverlappingSweeps.cfg` | `MCOrderLifecycle` | services/orders.py:255-256, one worker gets the order | the second sweep takes the order from its new job |
| `SweepAudit.cfg` | `MCOrderLifecycle` | README.md:24, every change has an event | the sweeper writes none |
| `SweepSilent.cfg` | `MCOrderLifecycle` | README.md:185-186, a webhook at the end | the sweeper sends none |
| `RequeueCrash.cfg` | `MCOrderLifecycle` | queue.py:39-40, no order frozen without a job | the job dies between its commit and its requeue |
| `EmptyKey.cfg` | `MCOrderIntake` | services/orders.py:120, a conflict is a parallel call, whose order is returned | the second call under an empty key is refused, and every later one |
| `WebhookLimit.cfg` | `Webhooks` | README.md:186-187, retried at most so often | increments overwrite each other |
| `WebhookBackoff.cfg` | `Webhooks` | worker.py:64, retried with backoff | a second queued job does not look at the time |
| `BacklogBlocked.cfg` | `MCWebhookBacklog` | worker.py:73, the cron retries what is pending | as many doomed rows as the cron selects keep all others waiting |
| `NotificationsDedupe.cfg` | `MCOrderNotifications` | README.md:215, deduplicate by `data.id` | after a retry the first event of the order is not its outcome |
| `NotificationsLatest.cfg` | `MCOrderNotifications` | (what a client might do instead) | a late retry of the old notice arrives after the new one |
| `RateLimitSkew.cfg` | `MCRateLimit` | rate_limit.py:1, README.md:25, so many in a sliding window | a process whose clock is behind is admitted twice |
| `ClientDeleted.cfg` | `Clients` | README.md:229, DELETE deactivates | deleting the client deletes its orders |

### 3.3 Bounds

**Orders.** The properties speak of one order at a time, and orders meet only in
the slots they use and in a sweep's transaction; the proofs cover any number of
them. Three jobs are one holder, one rival and one that dies; two requests are a
racing pair, three a pair and a create that is still under way; two attempts
have a first, a last and an exhausted one. Two breakdowns let a crash happen
during the recovery from another. Queue lengths are not bounded by hand: each
order's jobs are finite because attempts, requests and breakdowns are.

**Webhooks.** `MaxJobs` and `MaxDeaths` bound `Webhooks`; its counters need no
bound. Stranding a row takes three attempts and, with two senders, three waiting
jobs: with fewer `StrandedOnlyByRaces` would say nothing. Two deaths and two
overlaps of one row all occur. In `notifications` two deliveries are a notice of a failure and
one of the success that a retry brought, which is the shortest history in which
two notices of an order differ; an order with two attempts and one request has
no third. `WebhookBacklog` keeps at most one waiting job per row; three rows are
more than the cron's window, and one doomed row is fewer than it.

**Rate limit.** `MaxTime` is the only bound that cuts behaviours off; 7 ticks
let a request be admitted, age out of the window and expire with its key. Four
requests fill the limit of two twice. They are interchangeable and are reduced
by symmetry; the run has no liveness property, so that is sound. The
theorems cover every window, limit and drift below the window.

**Clients.** Rows are created once and never reused, as UUIDs are not; a second
client would share nothing with the first. Two jobs and two admins are one of each and a rival; the one request makes both orders, one after the other, while
admins and jobs go on. Two attempts and one death allow a retry, a sweep and an
order whose attempts run out while it is being deleted.

No other run uses symmetry. Deadlock is not an error where the service may come
to rest, with all orders finished and no client asking; `RateLimit` never stops
before its bounds do, since an admin may change the limit at any time.

### 3.4 Fairness

`FairSpec` gives weak fairness to steps that a process performs of itself: a
running request or job goes on (asyncio), ARQ takes waiting jobs, the cron
starts sweeps and webhook retries, time passes. Clients, admins and breakdowns
are never forced. Weak fairness is enough: a step stays enabled until it is taken
or another process makes it pointless. In `WebhookBacklog` the cron's pass and
ARQ are fair but the pass at the end of a job is not: nobody promises that orders
go on finishing. `RateLimit` has no liveness property and no fairness.

### 3.5 Wrong variants

Operators marked "Wrong variant" are the same step with a plausible bug (a
dropped guard, an unconditional write, a missing requeue). No specification
uses them; putting one in the place of the definition next to it makes the
property named in PROJECT.json fail, which shows that the property depends on
that piece of code.

## 4. Proofs

| Theorem | Says | Assumes |
|---|---|---|
| `OrderLifecycleProofs!TypeCorrect` | `Spec => []TypeOK` | |
| `Exclusive` | `Spec => []ExclusiveExecution` | `SweepsExclude` |
| `NeverRequeued` | `Spec => []PaidOrderNeverRequeued` | `SweepsExclude` |
| `LedgerRefinement` | `Spec => ImplementsLedger` | `SweepsExclude` |
| `ChargedAsAskedOrBlind` | `Spec => []ExtraChargesAreBlind` | `SweepsExclude` |
| `WaitingHasAJob` | `Spec => []NoOrphan` | no job, queue entry or request is lost |
| `TrailEndsWithStatus` | `Spec => []AuditAtRest` | no job dies |
| `LastNoticeIsOutcome` | `Spec => []AnnouncedAtRest` | no job dies |
| `AttemptsAreBounded` | `Spec => []AttemptsBoundedByRaces` | `SweepsExclude`, finitely many requests |
| `OrderIntakeProofs!TypeCorrect` | `Spec => []TypeOK` | |
| `KeysAreUnique`, `AnswersAgree`, `QueuedOnce` | one order per key, one answer, queued once | |
| `OrdersAreRouted`, `ListingIsHonest` | an order is stored only with a provider that can buy its type, and for each type that `GET /providers` lists | registered provider names |
| `WebhooksProofs!TypeCorrect` | `Spec => []TypeOK` | |
| `GivenUpLate`, `DeliveredTrue` | a webhook is given up or closed only with reason | |
| `AllAreCounted`, `DuplicatesAreRaces` | `AttemptsAreCounted`; `AcceptedOnce`: what overlaps and deaths cost at most | |
| `StrandedByRaces`, `DeliveredStays` | `StrandedOnlyByRaces`; `DeliveredIsFinal` | |
| `OrdersUndisturbed`, `DeliveriesUndisturbed` | `NotificationsSpec` implies the specification of either part | |
| `NotificationsTypeCorrect` | `NotificationsSpec => []NotificationsTypeOK` | |
| `NoticedOnce` | `NotificationsSpec => []OneSuccessNotice` | `SweepsExclude` |
| `CostsCarryOver`, `NoticesStayDelivered` | the last four of `WebhooksProofs` in the composition | |
| `WebhookBacklogProofs!TypeCorrect` | `Spec => []TypeOK`: each pending row has one place | |
| `RateLimitProofs!TypeCorrect` | `Spec => []TypeOK` | |
| `LimitHolds`, `RefusalsAreEarned` | `WindowRespected`; `RefusalEarned` | the drift is below the window |
| `ClientsProofs!TypeCorrect` | `Spec => []TypeOK` | |
| `RowsHaveClients` | `Spec => []NoStrayRows` | |
| `NoSpendingAfterDeletion`, `OnlyPatchReactivates` | `DeletionStopsSpending`; `DeactivationSticks` | |

They hold for any number of orders, jobs, requests, attempts, calls, keys,
senders, deliveries, breakdowns and clock ticks, and any provider.

The hypotheses are about the environment:

- `SweepsExclude`: sweeps do not overlap, or no job dies (and then they find
  nothing). `OverlappingSweeps.cfg` shows that exclusion fails without it. A
  sweep starts every fifteen minutes and with every worker process, so one that
  starts while another sweeps makes two.
- No job dies (`"worker" \notin Interruptible`): `SweepAudit.cfg` and
  `SweepSilent.cfg` show what a job's death does to the records, `RequeueCrash.cfg`
  what it does to `NoOrphan`.
  Requests, queue entries and sweeps may be lost in all these theorems but
  `WaitingHasAJob`, which takes queue entries and requests to be safe.

The theorems about webhooks assume nothing about how their jobs overlap or die, and
those about charges nothing about the provider: `CrashThenSweep.cfg` and
`blind_retry` show charges that `ChargedAsAskedOrBlind` counts in `blind`, and
`WebhookLimit.cfg` and `webhook_stranded` what `races` counts.

**OrderLifecycle.** `ExclusiveExecution` is not inductive: a claim is safe only
if a waiting order has no owner. `IInv` adds what keeps that true. A live job's
order is `processing`, or `cancelled` by a late cancel (`LiveIsProcessing`,
`LoadedIsProcessing`), so an order in `pending` or `queued` is unowned; a
confirmed purchase is the only one and its order is settled and unowned
(`PaidIsSettled`); an order becomes stale only after its owner is gone
(`StaleIsDead`); and what a sweep has selected is unpaid, unowned and stays so
until it commits (`SweptIsDead`): this is where one sweeper is needed. If no job
dies, `Calm` takes its place: every order in `processing` has a live job, so none
grows stale and a sweep finds nothing. Most
steps fall to two lemmas: authority only shrinks (`AuthorityShrinks`), or the
status of an unowned order moves (`UnownedMoves`). The refinement maps "open" to
"some live job has the order" and "paid" to `paid > 0`; claims authorise,
completions confirm, failures and deaths give up, everything else stutters.

`ChargedAsAskedOrBlind` rests on `IInv` too. Its own invariant, `Accounted`, says
that one more purchase is owed, to whoever asked or to a charge that is in `blind`,
wherever a call may still come from: an open order (`OpenIsDue`), a live job
(`LiveIsDue`), a sweep's selection (`SweptIsDue`). A purchase uses up what is owed
and closes the order, and by exclusion no second job was counting on it; a retry
that the API accepts adds to `asked` before it opens the order again. A temporary
failure and a job's death leave the order open: if they charged, they add to `blind`
what the charge has used up.

**Jobs, records and attempts** (`OrderHistoryProofs`). `NoOrphan` is inductive next
to `IInv` and `Calm`: whoever takes the last job of a waiting order either claims
it or holds it, and a late `mark_queued` moves only an order that waits already.
The two properties of orders at rest follow from `Records`, which speaks of every
moment: an unowned order in a terminal status has a trail that ends with it, and
a completed or failed one its webhook. The trail is allowed to lag only while a
live job is between its "processing" event and its outcome.

`AttemptsBoundedByRaces` is a counting argument, because a claim does not look at
the limit: `Budget` adds to the attempts of an order the one it is about to have
(`Offered`) and the handlers that have passed the check of /retry (`Retrying`) and
keeps the sum below the limit plus the number of handlers. A failure or a sweep
that offers another attempt has checked it, against a copy that is still current
(`ReadIsCurrent`, by exclusion); a retry pays for the attempt it opens with its
own place among those waiting; and at least one handler, the one that opened the
order, is not among them (`OpenedBySomebody`), which is where the bound gets its
"fewer than".

**OrderIntake.** The invariant says that open and stored rows under one key are
one row and ties each program counter to the call's row, its job and its reply.
Routing adds that a call past its lookup has passed the two refusals of
`resolve_provider_name`; `ListingIsHonest` adds that those refusals are exactly
the complement of `SupportedTypes`, provider by provider.

**Webhooks.** The invariant bounds each count, in a row or in a job's loaded
copy, by the requests made, and ties a loaded or stored "delivered" to an
accepted request. What overlaps cost is a second invariant, `CostInv`, a budget
for each row: the jobs that hold it may each add a request that the others' writes
will not have counted, all but one of them have been counted in `races`, and so
what is off the record, or accepted twice, never exceeds the races and deaths so
far plus the holders still to write, less one. A row without a race has one holder at
most, whose loaded copy is the row: then no write is lost, a delivered row has no
holder, and a pending one keeps its time (`Unraced`).

**OrderNotifications.** Each step of the composition is a step or a stutter of
either part, so `NotificationsSpec` implies both specifications and inherits their
theorems. Only `OneSuccessNotice` is about both: `Noticed` says that a paid order has one
delivery about its success and an unpaid one none. A second notice would take a
second purchase, which `PaidIsSettled` rules out; and since the row's id is
`Unused`, a notice is never written over another (`UnusedIsBlank`).

**WebhookBacklog.** What a row's place in the line means rests on three lemmas about
sequences without repetition: appending a new element, taking the head, and
taking out an element keep them so and change the set of their elements by
exactly that one.

**Clients.** An open insert still has its client's row, because the deletion waits
for it (`ClientsWereThere`); orders in the making belong to one request
(`OrdersAreNew`); and a claimed order is `processing` or gone and has one job, which
the deletion has put down in `cut` if it was calling (`JobsAreAlone`). The sweep
keeps that, since it opens an order only when no job is left on it, and so do
retries and deaths, after which the job calls no more (`JobLeavesOrder`).
`DeletionStopsSpending` and `DeactivationSticks` are then read off each step.

**RateLimit.** The sorted set is compared with the history. Readings under way
and scores are within the drift of real time (`ReadingsAreFresh`,
`ScoresAreClose`), the key outlives every admission by a window (`KeyOutlives`),
and so an admission the set has lost is older than the window less the drift
(`LostIsOld`). Whatever was admitted more recently is still counted, which
gives `LimitHolds`; conversely what is counted was admitted within the window
and the drift, which gives `RefusalsAreEarned`.

Assumptions on constants: `MaxAttempts` and `WebhookAttempts` are positive,
`Replies` are replies, the request bodies and the default provider name registered
providers (the schema admits no other; the default is a setting), limits and the
selections of `WebhookBacklog` are positive, requests are finitely many in
`RateLimit`, and the "nothing" values are not clients, orders, keys or deliveries.

Every safety invariant and action property that a passing run checks is proved but
one: `NeverChargedUnasked`, which holds only of a provider whose temporary failures
never charged and of jobs that do not die, conditions under which `blind` stays 0 and
`ExtraChargesAreBlind` says the same. Only model-checked: it, and all liveness (`EveryOrderFinishes`, `NoOrderStuckProcessing`,
`EveryCallEnds`, `EveryWebhookSettles`, `OutcomeReachesClient`, `EveryRowIsReached`,
`AcceptedOrdersEnd`), because the provers have no rules for weak fairness and
`ENABLED`; and the counterexamples of 3.2.

## 5. Not modelled

- **Pure functions and read-only endpoints**: catalog prices and balances, health,
  lists, statistics, response schemas, HMAC signing, hashing of API keys, the
  static admin key. The checks of a webhook URL against private addresses are
  decided within one request.
- **Message texts, payload formats, HTTP headers, connection pools, logging**: they
  change no control flow considered here. Two first uses of the queue's lazily
  made pool may both create one; the loser is not closed, and nothing else
  depends on it.
- **Rate limiting switched off, or Redis failing under it**: no limit is promised
  then; the request fails and leaves nothing behind.
- **A client deleted under its own webhooks**: the rows go with it; a job that
  has loaded one signs with the fallback secret and then fails at its write.
- **Transfers of several jobs from one Fragment wallet at a time**: what they do
  to each other is decided by the library and the chain.
- **A commit whose acknowledgement is lost**, apart from a death right after it.
  Redis is taken to keep its jobs; `JobLost` stands for one that it, or a worker
  that has taken it, loses.
- **Start and stop of the processes, migrations, deployment, scripts.**

README.md:228 lists an endpoint `rotate-key` that the code does not have; keys
change only with the client. README.md:186-187 lists delays of up to 32 minutes;
the code gives up with the attempt after which it would wait so long, and never does.

## 6. Plan

Done, in this order: `Providers`, `OrderLifecycle` with `PaymentLedger`,
`OrderIntake`, `Webhooks`; then `RateLimit`, `Clients`, `OrderNotifications`,
`WebhookBacklog`, the request schemas and the empty key in `OrderIntake`, and
`NeverChargedUnasked`; and then the proofs of all safety properties that are checked, in this order:
`OrderLifecycle`, `OrderIntake`, `Webhooks`, `RateLimit`, `Clients`,
`OrderNotifications`, `WebhookBacklog`.

Next:

1. The safety halves of the liveness properties: that whatever waits has an
   enabled way on (an order in `processing` has a live job, grows stale or is in a
   sweep's hands).
2. `OneSuccessNotice` without the assumption about sweeps, if a weaker one on
   their overlap can be found.
3. An abstract specification of a delivery (try, accept or give up, with a race
   as one more way to try) implemented by `Webhooks`.
4. `OutcomeReachesClient` with overlapping senders, on a smaller model of the orders.
