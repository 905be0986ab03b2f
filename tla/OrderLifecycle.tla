--------------------------- MODULE OrderLifecycle ---------------------------
(***************************************************************************)
(* One order's way from creation to a terminal status, as the API          *)
(* handlers (app/api/v1/orders.py), the order service                      *)
(* (app/services/orders.py), the ARQ worker (app/workers/worker.py) and    *)
(* the sweeper drive it together through PostgreSQL and Redis.             *)
(*                                                                         *)
(* The grain is the database transaction.  A handler or job keeps a        *)
(* program counter, so any number of them interleave between their         *)
(* transactions.  PostgreSQL runs at READ COMMITTED: a compare-and-swap    *)
(* that does not match the committed row fails at once, one that matches   *)
(* waits for a lock on the row, and an UPDATE by id waits for the lock     *)
(* and then overwrites.  The only transaction long enough to be seen       *)
(* holding locks is the sweeper's.                                         *)
(***************************************************************************)
EXTENDS Naturals, FiniteSets, Providers

CONSTANTS
  Orders,        \* order ids
  Workers,       \* job slots: max_jobs of every worker process
  Requests,      \* request handlers running in the API
  Sweepers,      \* runs of sweep_stuck_orders that may overlap
  MaxAttempts,   \* settings.order_max_attempts
  Replies,       \* what the configured provider may reply
  ClientOps,     \* what clients do: a subset of {"create", "cancel", "retry"}
  Interruptible, \* what can break off: a subset of {"worker", "job", "api", "sweep"}
  MaxInterrupts, \* bound: how many times something breaks off
  NoOrder        \* "no order": the order of an idle handler

ASSUME MaxAttemptsAssumption == MaxAttempts \in Nat \ {0}
ASSUME RepliesAssumption == Replies \subseteq Reply
ASSUME NoOrderAssumption == NoOrder \notin Orders

VARIABLES
  \* the orders row
  status, attempts, providerRef,
  stale,         \* started_at is more than 3 job timeouts ago
  \* rows of order_events and webhook_deliveries
  trail,         \* to_status of the last event committed for the order
  announced,     \* event of the last webhook committed for the order
  \* Redis
  queue,         \* process_order jobs waiting for the order
  \* the provider
  paid,          \* purchases the service knows of
  unseen,        \* purchases it was never told of
  blind,         \* history: those of them it went on to try again after
  \* a job: where it is, its order, and the status and attempts it has loaded
  wpc, word, wst, watt,
  \* a request handler: where it is and its order; and how many purchases
  \* clients have asked for: the creation of the order and each accepted retry
  rpc, rord, asked,
  \* a sweep: rows still to update, attempts it read, rows updated so far
  swRows, swTries, swDirty,
  interrupts

rowVars     == <<status, attempts, providerRef, stale>>
logVars     == <<trail, announced>>
payVars     == <<paid, unseen, blind>>
workerVars  == <<wpc, word, wst, watt>>
requestVars == <<rpc, rord, asked>>
sweepVars   == <<swRows, swTries, swDirty>>
vars == <<rowVars, logVars, queue, payVars, workerVars, requestVars, sweepVars, interrupts>>

-----------------------------------------------------------------------------
\* Wrong variant: a claim takes over an order that another job is processing.
ClaimableAlsoProcessing == {"pending", "queued", "processing"}

Statuses   == {"none", "pending", "queued", "processing", "completed", "failed", "cancelled"}
Claimable  == {"pending", "queued"}
IsTerminal == {"completed", "failed", "cancelled"}
WorkerPcs  == {"idle", "claimed", "calling", "readback", "after"}
RequestPcs == {"idle", "enqueue", "mark", "cancel", "retry"}

TypeOK ==
  /\ status \in [Orders -> Statuses]
  /\ attempts \in [Orders -> Nat]
  /\ providerRef \in [Orders -> BOOLEAN]
  /\ stale \in [Orders -> BOOLEAN]
  /\ trail \in [Orders -> Statuses]
  /\ announced \in [Orders -> {"none", "completed", "failed"}]
  /\ queue \in [Orders -> Nat]
  /\ paid \in [Orders -> Nat]
  /\ unseen \in [Orders -> Nat]
  /\ blind \in [Orders -> Nat]
  /\ wpc \in [Workers -> WorkerPcs]
  /\ word \in [Workers -> Orders \cup {NoOrder}]
  /\ \A w \in Workers : wpc[w] # "idle" => word[w] \in Orders
  /\ wst \in [Workers -> Statuses]
  /\ watt \in [Workers -> Nat]
  /\ rpc \in [Requests -> RequestPcs]
  /\ rord \in [Requests -> Orders \cup {NoOrder}]
  /\ \A r \in Requests : rpc[r] # "idle" => rord[r] \in Orders
  /\ asked \in [Orders -> Nat]
  /\ swRows \in [Sweepers -> SUBSET Orders]
  /\ swTries \in [Sweepers -> [Orders -> Nat]]
  /\ swDirty \in [Sweepers -> SUBSET Orders]
  /\ interrupts \in Nat

Init ==
  /\ status = [o \in Orders |-> "none"]
  /\ attempts = [o \in Orders |-> 0]
  /\ providerRef = [o \in Orders |-> FALSE]
  /\ stale = [o \in Orders |-> FALSE]
  /\ trail = [o \in Orders |-> "none"]
  /\ announced = [o \in Orders |-> "none"]
  /\ queue = [o \in Orders |-> 0]
  /\ paid = [o \in Orders |-> 0]
  /\ unseen = [o \in Orders |-> 0]
  /\ blind = [o \in Orders |-> 0]
  /\ wpc = [w \in Workers |-> "idle"]
  /\ word = [w \in Workers |-> NoOrder]
  /\ wst = [w \in Workers |-> "none"]
  /\ watt = [w \in Workers |-> 0]
  /\ rpc = [r \in Requests |-> "idle"]
  /\ rord = [r \in Requests |-> NoOrder]
  /\ asked = [o \in Orders |-> 0]
  /\ swRows = [s \in Sweepers |-> {}]
  /\ swTries = [s \in Sweepers |-> [o \in Orders |-> 0]]
  /\ swDirty = [s \in Sweepers |-> {}]
  /\ interrupts = 0

-----------------------------------------------------------------------------
(***************************************************************************)
(* Steps of a handler or job in its own program.                           *)
(***************************************************************************)

\* A sweep has updated the row and not committed.
Locked(o) == \E s \in Sweepers : o \in swDirty[s]

\* A job that has claimed its order and may still call, or be calling, the
\* provider for it.
Live(w) == wpc[w] \in {"claimed", "calling"}

WorkerGoes(w, pc, o, st, att) ==
  /\ wpc' = [wpc EXCEPT ![w] = pc]
  /\ word' = [word EXCEPT ![w] = o]
  /\ wst' = [wst EXCEPT ![w] = st]
  /\ watt' = [watt EXCEPT ![w] = att]

WorkerEnds(w) == WorkerGoes(w, "idle", NoOrder, "none", 0)

RequestGoes(r, pc, o) ==
  /\ rpc' = [rpc EXCEPT ![r] = pc]
  /\ rord' = [rord EXCEPT ![r] = o]

RequestEnds(r) == RequestGoes(r, "idle", NoOrder)

AsksFor(o) == asked' = [asked EXCEPT ![o] = @ + 1]

\* Wrong variant: does not look whether there is a job.
TakeBlind(o) == queue' = [queue EXCEPT ![o] = @ - 1]

\* One job taken from, or put on, the queue.
Take(o) == queue[o] > 0 /\ queue' = [queue EXCEPT ![o] = @ - 1]
Put(o)  == queue' = [queue EXCEPT ![o] = @ + 1]

\* Wrong variants: a cancellation leaves no event, a failure no webhook.
RecordExecutor(o, st) ==
  trail' = IF st = "cancelled" THEN trail ELSE [trail EXCEPT ![o] = st]
AnnounceSuccess(o, event) ==
  announced' = IF event = "failed" THEN announced ELSE [announced EXCEPT ![o] = event]

SetStatus(o, st) == status' = [status EXCEPT ![o] = st]

\* record_event, and enqueue_webhook for an order with a webhook URL.
Record(o, st)      == trail' = [trail EXCEPT ![o] = st]
Announce(o, event) == announced' = [announced EXCEPT ![o] = event]

-----------------------------------------------------------------------------
(***************************************************************************)
(* API: create, then enqueue, then mark as queued.                         *)
(***************************************************************************)

\* create_order up to its commit.  Who wins an idempotency key is the
\* subject of OrderIntake.
CreateOrder(r, o) ==
  /\ "create" \in ClientOps
  /\ rpc[r] = "idle"
  /\ status[o] = "none"
  /\ SetStatus(o, "pending")
  /\ Record(o, "pending")
  /\ RequestGoes(r, "enqueue", o)
  /\ AsksFor(o)
  /\ UNCHANGED <<attempts, providerRef, stale, announced, queue, payVars,
                 workerVars, sweepVars, interrupts>>

EnqueueOrder(r) ==
  /\ rpc[r] = "enqueue"
  /\ Put(rord[r])
  /\ RequestGoes(r, "mark", rord[r])
  /\ UNCHANGED <<rowVars, logVars, payVars, workerVars, asked, sweepVars, interrupts>>

\* Wrong variant: the unconditional write that mark_queued's docstring recalls.
MarkQueuedBlind(r) ==
  /\ rpc[r] = "mark"
  /\ ~Locked(rord[r])
  /\ SetStatus(rord[r], "queued")
  /\ Record(rord[r], "queued")
  /\ RequestEnds(r)
  /\ UNCHANGED <<attempts, providerRef, stale, announced, queue, payVars,
                 workerVars, asked, sweepVars, interrupts>>

\* mark_queued: pending -> queued if it is still pending, else nothing.
MarkQueued(r) ==
  LET o == rord[r] IN
  /\ rpc[r] = "mark"
  /\ \/ /\ status[o] = "pending"
        /\ ~Locked(o)
        /\ SetStatus(o, "queued")
        /\ Record(o, "queued")
     \/ /\ status[o] # "pending"
        /\ UNCHANGED <<status, trail>>
  /\ RequestEnds(r)
  /\ UNCHANGED <<attempts, providerRef, stale, announced, queue, payVars,
                 workerVars, asked, sweepVars, interrupts>>

(***************************************************************************)
(* API: cancel reads the row, and later writes it by id.                   *)
(***************************************************************************)

\* The checks of cancel_order, on the row get_order loaded.
CheckCancel(r, o) ==
  /\ "cancel" \in ClientOps
  /\ rpc[r] = "idle"
  /\ status[o] # "none"
  /\ status[o] \notin IsTerminal
  /\ status[o] # "processing"
  /\ RequestGoes(r, "cancel", o)
  /\ UNCHANGED <<rowVars, logVars, queue, payVars, workerVars, asked, sweepVars, interrupts>>

CancelOrder(r) ==
  LET o == rord[r] IN
  /\ rpc[r] = "cancel"
  /\ ~Locked(o)
  /\ SetStatus(o, "cancelled")
  /\ Record(o, "cancelled")
  /\ RequestEnds(r)
  /\ UNCHANGED <<attempts, providerRef, stale, announced, queue, payVars,
                 workerVars, asked, sweepVars, interrupts>>

(***************************************************************************)
(* API: retry checks the row, then claims it with a compare-and-swap that  *)
(* looks at the status alone, then dispatches like create.                 *)
(***************************************************************************)

\* Wrong variant: does not look at the attempts.
CheckRetryUnlimited(r, o) ==
  /\ "retry" \in ClientOps
  /\ rpc[r] = "idle"
  /\ ~providerRef[o]
  /\ status[o] = "failed"
  /\ RequestGoes(r, "retry", o)
  /\ UNCHANGED <<rowVars, logVars, queue, payVars, workerVars, asked, sweepVars, interrupts>>

CheckRetry(r, o) ==
  /\ "retry" \in ClientOps
  /\ rpc[r] = "idle"
  /\ ~providerRef[o]
  /\ status[o] = "failed"
  /\ attempts[o] < MaxAttempts
  /\ RequestGoes(r, "retry", o)
  /\ UNCHANGED <<rowVars, logVars, queue, payVars, workerVars, asked, sweepVars, interrupts>>

ClaimRetry(r) ==
  LET o == rord[r] IN
  /\ rpc[r] = "retry"
  /\ \/ /\ status[o] = "failed"
        /\ ~Locked(o)
        /\ SetStatus(o, "pending")
        /\ AsksFor(o)
        /\ RequestGoes(r, "enqueue", o)
     \/ /\ status[o] # "failed"
        /\ UNCHANGED <<status, asked>>
        /\ RequestEnds(r)
  /\ UNCHANGED <<attempts, providerRef, stale, logVars, queue, payVars,
                 workerVars, sweepVars, interrupts>>

-----------------------------------------------------------------------------
(***************************************************************************)
(* Worker: process_order and execute_order.                                *)
(***************************************************************************)

\* UPDATE ... WHERE status IN (pending, queued) RETURNING id.
ClaimOrder(w, o) ==
  /\ wpc[w] = "idle"
  /\ Take(o)
  /\ status[o] \in Claimable
  /\ ~Locked(o)
  /\ SetStatus(o, "processing")
  /\ attempts' = [attempts EXCEPT ![o] = @ + 1]
  /\ stale' = [stale EXCEPT ![o] = FALSE]
  /\ WorkerGoes(w, "claimed", o, "none", 0)
  /\ UNCHANGED <<providerRef, logVars, payVars, requestVars, sweepVars, interrupts>>

ClaimRefused(w, o) ==
  /\ wpc[w] = "idle"
  /\ Take(o)
  /\ status[o] \notin Claimable
  /\ WorkerGoes(w, "readback", o, "none", 0)
  /\ UNCHANGED <<rowVars, logVars, payVars, requestVars, sweepVars, interrupts>>

\* db.get and refresh, the "processing" event, commit; then the call starts.
LoadOrder(w) ==
  LET o == word[w] IN
  /\ wpc[w] = "claimed"
  /\ Record(o, "processing")
  /\ WorkerGoes(w, "calling", o, status[o], attempts[o])
  /\ UNCHANGED <<rowVars, announced, queue, payVars, requestVars, sweepVars, interrupts>>

\* The ORM writes a column only if the new value differs from the loaded one.
Flush(w, st) ==
  /\ ~Locked(word[w])
  /\ IF wst[w] = st THEN UNCHANGED status ELSE SetStatus(word[w], st)

\* What the provider did, seen or not.
Charge(o, reply) ==
  /\ paid' = [paid EXCEPT ![o] = IF reply.verdict = "success" THEN @ + 1 ELSE @]
  /\ unseen' = [unseen EXCEPT ![o] =
                  IF reply.verdict # "success" /\ reply.charged THEN @ + 1 ELSE @]

CompleteOrder(w, reply) ==
  LET o == word[w] IN
  /\ wpc[w] = "calling"
  /\ reply.verdict = "success"
  /\ Charge(o, reply)
  /\ Flush(w, "completed")
  /\ providerRef' = [providerRef EXCEPT ![o] = reply.ref]
  /\ Record(o, "completed")
  /\ Announce(o, "completed")
  /\ WorkerGoes(w, "readback", o, "none", 0)
  /\ UNCHANGED <<attempts, stale, queue, blind, requestVars, sweepVars, interrupts>>

\* _handle_failure, first branch.  If the call charged all the same, nobody knows.
RetryLater(w, reply) ==
  LET o == word[w] IN
  /\ wpc[w] = "calling"
  /\ reply.verdict = "temporary"
  /\ watt[w] < MaxAttempts
  /\ Charge(o, reply)
  /\ blind' = [blind EXCEPT ![o] = IF reply.charged THEN @ + 1 ELSE @]
  /\ Flush(w, "pending")
  /\ Record(o, "pending")
  /\ WorkerGoes(w, "after", o, "pending", watt[w])
  /\ UNCHANGED <<attempts, providerRef, stale, announced, queue, requestVars,
                 sweepVars, interrupts>>

\* _handle_failure, second branch.
FailForGood(w, reply) ==
  LET o == word[w] IN
  /\ wpc[w] = "calling"
  /\ \/ reply.verdict = "permanent"
     \/ reply.verdict = "temporary" /\ watt[w] >= MaxAttempts
  /\ Charge(o, reply)
  /\ Flush(w, "failed")
  /\ Record(o, "failed")
  /\ Announce(o, "failed")
  /\ WorkerGoes(w, "after", o, "failed", watt[w])
  /\ UNCHANGED <<attempts, providerRef, stale, queue, blind, requestVars, sweepVars,
                 interrupts>>

\* execute_order returns a row it has just read: after a completion
\* (db.refresh) and after a refused claim (db.get).
ReadBack(w) ==
  LET o == word[w] IN
  /\ wpc[w] = "readback"
  /\ WorkerGoes(w, "after", o, status[o], attempts[o])
  /\ UNCHANGED <<rowVars, logVars, queue, payVars, requestVars, sweepVars, interrupts>>

\* Wrong variant: forgets to queue the retry.
FinishJobSilently(w) ==
  /\ wpc[w] = "after"
  /\ WorkerEnds(w)
  /\ UNCHANGED <<rowVars, logVars, queue, payVars, requestVars, sweepVars, interrupts>>

\* process_order after execute_order: a pending order is queued again (the
\* delay only says when the job may start); for any other it kicks webhooks.
FinishJob(w) ==
  /\ wpc[w] = "after"
  /\ IF wst[w] = "pending" THEN Put(word[w]) ELSE UNCHANGED queue
  /\ WorkerEnds(w)
  /\ UNCHANGED <<rowVars, logVars, payVars, requestVars, sweepVars, interrupts>>

-----------------------------------------------------------------------------
(***************************************************************************)
(* Sweeper: sweep_stuck_orders.                                            *)
(***************************************************************************)

\* Wrong variant: the threshold is shorter than a job may run.
AgeTooSoon(o) ==
  /\ status[o] = "processing"
  /\ ~stale[o]
  /\ stale' = [stale EXCEPT ![o] = TRUE]
  /\ UNCHANGED <<status, attempts, providerRef, logVars, queue, payVars,
                 workerVars, requestVars, sweepVars, interrupts>>

\* Time passes.  A job is cancelled after job_timeout, so a claim older than
\* three timeouts has no job left in execute_order.
Age(o) ==
  /\ status[o] = "processing"
  /\ ~stale[o]
  /\ \A w \in Workers : Live(w) => word[w] # o
  /\ stale' = [stale EXCEPT ![o] = TRUE]
  /\ UNCHANGED <<status, attempts, providerRef, logVars, queue, payVars,
                 workerVars, requestVars, sweepVars, interrupts>>

\* Wrong variant: leaves exhausted orders where they are.
StuckRetryable ==
  {o \in Orders : status[o] = "processing" /\ stale[o] /\ attempts[o] < MaxAttempts}

Stuck == {o \in Orders : status[o] = "processing" /\ stale[o]}

\* The SELECT.  A scan that finds nothing changes nothing.
SweepScan(s) ==
  /\ swRows[s] = {} /\ swDirty[s] = {}
  /\ Stuck # {}
  /\ swRows' = [swRows EXCEPT ![s] = Stuck]
  /\ swTries' = [swTries EXCEPT ![s] = attempts]
  /\ UNCHANGED <<rowVars, logVars, queue, payVars, workerVars, requestVars,
                 swDirty, interrupts>>

\* The UPDATE of one row, by id; its job is queued before the commit.
SweepRow(s, o) ==
  /\ o \in swRows[s]
  /\ ~Locked(o)
  /\ swRows' = [swRows EXCEPT ![s] = @ \ {o}]
  /\ swDirty' = [swDirty EXCEPT ![s] = @ \cup {o}]
  /\ IF swTries[s][o] < MaxAttempts THEN Put(o) ELSE UNCHANGED queue
  /\ UNCHANGED <<rowVars, logVars, payVars, workerVars, requestVars, swTries, interrupts>>

SweepEnds(s) ==
  /\ swRows' = [swRows EXCEPT ![s] = {}]
  /\ swTries' = [swTries EXCEPT ![s] = [o \in Orders |-> 0]]
  /\ swDirty' = [swDirty EXCEPT ![s] = {}]

SweepCommit(s) ==
  /\ swRows[s] = {} /\ swDirty[s] # {}
  /\ status' = [o \in Orders |->
       IF o \notin swDirty[s] THEN status[o]
       ELSE IF swTries[s][o] >= MaxAttempts THEN "failed" ELSE "pending"]
  /\ SweepEnds(s)
  /\ UNCHANGED <<attempts, providerRef, stale, logVars, queue, payVars,
                 workerVars, requestVars, interrupts>>

-----------------------------------------------------------------------------
(***************************************************************************)
(* What breaks off: a process dies, a job times out, a database or Redis   *)
(* call raises.  ARQ runs with max_tries = 1, so a job is not run again,   *)
(* and an open transaction rolls back.                                     *)
(***************************************************************************)

Breaks(kind) ==
  /\ kind \in Interruptible
  /\ interrupts < MaxInterrupts
  /\ interrupts' = interrupts + 1

\* A job dies in mid-program; a purchase under way may go through, and the sweep
\* will not know when it opens the order again.
WorkerDies(w) ==
  /\ Breaks("worker")
  /\ wpc[w] # "idle"
  /\ \/ UNCHANGED <<unseen, blind>>
     \/ /\ wpc[w] = "calling"
        /\ unseen' = [unseen EXCEPT ![word[w]] = @ + 1]
        /\ blind' = [blind EXCEPT ![word[w]] = @ + 1]
  /\ WorkerEnds(w)
  /\ UNCHANGED <<rowVars, logVars, queue, paid, requestVars, sweepVars>>

\* A job dies before its claim commits.
JobLost(o) ==
  /\ Breaks("job")
  /\ Take(o)
  /\ UNCHANGED <<rowVars, logVars, payVars, workerVars, requestVars, sweepVars>>

RequestDies(r) ==
  /\ Breaks("api")
  /\ rpc[r] # "idle"
  /\ RequestEnds(r)
  /\ UNCHANGED <<rowVars, logVars, queue, payVars, workerVars, asked, sweepVars>>

\* The sweep's updates roll back; the jobs it queued stay.
SweepDies(s) ==
  /\ Breaks("sweep")
  /\ swRows[s] # {} \/ swDirty[s] # {}
  /\ SweepEnds(s)
  /\ UNCHANGED <<rowVars, logVars, queue, payVars, workerVars, requestVars>>

-----------------------------------------------------------------------------
Answer(w, reply) ==
  CompleteOrder(w, reply) \/ RetryLater(w, reply) \/ FailForGood(w, reply)

WorkerStep(w) ==
  \/ \E o \in Orders : ClaimOrder(w, o) \/ ClaimRefused(w, o)
  \/ LoadOrder(w)
  \/ \E reply \in Replies : Answer(w, reply)
  \/ ReadBack(w)
  \/ FinishJob(w)

\* The rest of a request once it has started.
RequestStep(r) == EnqueueOrder(r) \/ MarkQueued(r) \/ CancelOrder(r) \/ ClaimRetry(r)

ClientStep(r) == \E o \in Orders : CreateOrder(r, o) \/ CheckCancel(r, o) \/ CheckRetry(r, o)

SweepStep(s) == SweepScan(s) \/ SweepCommit(s) \/ \E o \in Orders : SweepRow(s, o)

Break ==
  \/ \E w \in Workers : WorkerDies(w)
  \/ \E o \in Orders : JobLost(o)
  \/ \E r \in Requests : RequestDies(r)
  \/ \E s \in Sweepers : SweepDies(s)

Next ==
  \/ \E r \in Requests : ClientStep(r) \/ RequestStep(r)
  \/ \E w \in Workers : WorkerStep(w)
  \/ \E s \in Sweepers : SweepStep(s)
  \/ \E o \in Orders : Age(o)
  \/ Break

Spec == Init /\ [][Next]_vars

(***************************************************************************)
(* The event loops of the API and the worker go on with what they started, *)
(* ARQ starts waiting jobs and the cron runs, and time passes.  Clients    *)
(* owe nothing, and nothing has to break.                                  *)
(***************************************************************************)
Fairness ==
  /\ \A w \in Workers : WF_vars(WorkerStep(w))
  /\ \A r \in Requests : WF_vars(RequestStep(r))
  /\ \A s \in Sweepers : WF_vars(SweepStep(s))
  /\ \A o \in Orders : WF_vars(Age(o))

FairSpec == Spec /\ Fairness

-----------------------------------------------------------------------------
(***************************************************************************)
(* Properties of every run.                                                *)
(***************************************************************************)

\* The hypothesis of the exclusion properties: sweeps do not overlap, or no job is
\* cut off, so that they find nothing.
OneSweeper    == \A s, t \in Sweepers : s = t
SweepsExclude == OneSweeper \/ "worker" \notin Interruptible

\* Two jobs are never both entitled to call the provider for one order, in
\* whatever way duplicate jobs, sweeps, retries, cancellations and crashes
\* interleave (execute_order's claim, orders.py:252-271).
ExclusiveExecution ==
  \A w, v \in Workers : Live(w) /\ Live(v) /\ word[w] = word[v] => w = v

\* An order whose purchase is confirmed is never offered for execution again:
\* no late mark_queued, retry, requeue or sweep puts it back in line
\* (orders.py:147-151).  A cancel that read it earlier may still overwrite it.
PaidOrderNeverRequeued ==
  \A o \in Orders : paid[o] > 0 => status[o] \in {"completed", "cancelled"}

\* Attempts exceed the limit by at most the /retry calls that had already
\* passed their check (api/v1/orders.py:213-232): one fewer than handlers run.
AttemptsBoundedByRaces ==
  \A o \in Orders : attempts[o] <= MaxAttempts + Cardinality(Requests) - 1

\* The wallet is never charged more often than clients asked for the order, by
\* creating it and by each retry the API accepted, whether the service learns
\* of the purchase or not: what it does on its own account (automatic retries,
\* sweeps, duplicate jobs, lost answers) buys nothing (providers/botapi.py:89-94,
\* core/config.py:35-41).
NeverChargedUnasked == \A o \in Orders : paid[o] + unseen[o] <= asked[o]

\* Whatever breaks off and however vague the provider's failures are, every charge
\* beyond those asked for is matched by one the service could not know of when it
\* tried the order again: duplicate jobs, retries and sweeps add none of their own
\* (orders.py:252-256, core/config.py:35-41).
ExtraChargesAreBlind == \A o \in Orders : paid[o] + unseen[o] <= asked[o] + blind[o]

\* The pipeline implements the ledger: claimed-and-not-answered is "open".
Ledger == INSTANCE PaymentLedger WITH
  open <- [o \in Orders |-> \E w \in Workers : Live(w) /\ word[w] = o],
  paid <- [o \in Orders |-> paid[o] > 0]

\* Each step of the pipeline authorises, confirms or gives up one purchase, or
\* does nothing the ledger sees.
ImplementsLedger == Ledger!Spec

(***************************************************************************)
(* Properties of runs in which nothing breaks off.                         *)
(***************************************************************************)

\* A waiting order always has a job in the queue, or somebody who is about to
\* queue one: no order is frozen in pending or queued (queue.py:36-40).
NoOrphan ==
  \A o \in Orders : status[o] \in Claimable =>
    \/ queue[o] > 0
    \/ \E r \in Requests : rpc[r] = "enqueue" /\ rord[r] = o
    \/ \E w \in Workers : wpc[w] = "after" /\ wst[w] = "pending" /\ word[w] = o

\* Nobody is working, or about to work, on the order.
AtRest(o) ==
  /\ queue[o] = 0
  /\ \A w \in Workers : word[w] # o
  /\ \A r \in Requests : rord[r] # o
  /\ \A s \in Sweepers : o \notin swRows[s] \cup swDirty[s]

\* When the dust has settled on a finished order its audit trail ends with the
\* status it has, whichever of the racing handlers wrote last (README.md:24).
AuditAtRest ==
  \A o \in Orders : AtRest(o) /\ status[o] \in IsTerminal => trail[o] = status[o]

\* When the dust has settled the client's last webhook names the outcome
\* (README.md:185-186).
AnnouncedAtRest ==
  \A o \in Orders : AtRest(o) /\ status[o] \in {"completed", "failed"} =>
    announced[o] = status[o]

\* Every order that was accepted reaches a terminal status (main.py:60-61).
EveryOrderFinishes ==
  \A o \in Orders : status[o] # "none" ~> status[o] \in IsTerminal

(***************************************************************************)
(* Properties of runs in which jobs and processes die.                     *)
(***************************************************************************)

\* An order never stays in processing: its executor or the sweeper moves it
\* on (worker.py:83-87).
NoOrderStuckProcessing ==
  \A o \in Orders : status[o] = "processing" ~> status[o] # "processing"

(***************************************************************************)
(* What the documentation says and the code does not do.                   *)
(***************************************************************************)

\* README.md: an order becomes cancelled only from pending or queued.
CancelOnlyWhileWaiting ==
  [][\A o \in Orders : status'[o] = "cancelled" =>
       status[o] \in Claimable \cup {"cancelled"}]_vars

\* api/v1/orders.py:210-212: order_max_attempts keeps its meaning under /retry.
AttemptsWithinLimit == \A o \in Orders : attempts[o] <= MaxAttempts

\* worker.py:84: the sweep queues the stuck order again.  When its commit makes
\* the order pending, a job waits, or one refused before the commit will find
\* the order pending and queue it.
SweptOrderHasAJob ==
  [][\A s \in Sweepers, o \in Orders :
       o \in swDirty[s] /\ status'[o] = "pending" =>
         \/ queue[o] > 0
         \/ \E w \in Workers : wpc[w] = "readback" /\ word[w] = o]_vars
=============================================================================
