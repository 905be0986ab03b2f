--------------------------- MODULE WebhookBacklog ---------------------------
(***************************************************************************)
(* More webhooks due than one pass selects.  The cron and the end of every *)
(* process_order take the first few rows in the order of next_attempt_at   *)
(* and queue a job for each; a row leaves its place only when a job writes *)
(* it.  Webhooks has the interleavings of jobs on one row; here a job is   *)
(* one step, and what matters is who is selected.                          *)
(***************************************************************************)
EXTENDS Naturals, Sequences, SequencesExt

CONSTANTS
  Deliveries,
  Doomed,      \* rows no job can write: the answer's text is one PostgreSQL refuses
  Passes,      \* callers of pending_webhook_ids: the cron, the end of a process_order
  Cron,        \* the pass that recurs
  Limit,       \* how many rows a pass selects
  MaxAttempts  \* settings.webhook_max_attempts

ASSUME DoomedAssumption == Doomed \subseteq Deliveries
ASSUME CronAssumption == Cron \in Passes
ASSUME LimitAssumption == Limit \in [Passes -> Nat \ {0}]
ASSUME MaxAttemptsAssumption == MaxAttempts \in Nat \ {0}

VARIABLES
  status, attempts,
  line,   \* rows that are pending and due, by next_attempt_at
  later,  \* rows whose next_attempt_at is still to come
  batch,  \* ids a pass has selected and not queued yet
  queue   \* send_webhook jobs, in the order ARQ runs them

rowVars == <<status, attempts, line, later>>
vars == <<rowVars, batch, queue>>

Statuses == {"none", "pending", "delivered", "failed"}

\* Every pending row has one place; a row has one job waiting at most, which is a
\* bound: another job behind it would change nothing.
TypeOK ==
  /\ status \in [Deliveries -> Statuses]
  /\ attempts \in [Deliveries -> Nat]
  /\ line \in Seq(Deliveries)
  /\ ToSet(line) \cup later = {d \in Deliveries : status[d] = "pending"}
  /\ ToSet(line) \cap later = {} /\ IsInjective(line)
  /\ batch \in [Passes -> Seq(Deliveries)]
  /\ \A p \in Passes : Len(batch[p]) <= Limit[p]
  /\ queue \in Seq(Deliveries) /\ IsInjective(queue)

Init ==
  /\ status = [d \in Deliveries |-> "none"]
  /\ attempts = [d \in Deliveries |-> 0]
  /\ line = <<>>
  /\ later = {}
  /\ batch = [p \in Passes |-> <<>>]
  /\ queue = <<>>

-----------------------------------------------------------------------------
\* enqueue_webhook: a new row is due at once.
EnqueueWebhook(d) ==
  /\ status[d] = "none"
  /\ status' = [status EXCEPT ![d] = "pending"]
  /\ line' = Append(line, d)
  /\ UNCHANGED <<attempts, later, batch, queue>>

\* The backoff runs out: nothing that was due before is younger.
ComeDue(d) ==
  /\ d \in later
  /\ later' = later \ {d}
  /\ line' = Append(line, d)
  /\ UNCHANGED <<status, attempts, batch, queue>>

\* Wrong variant: one row short.
WindowShort(p) == SubSeq(line, 1, IF Len(line) < Limit[p] THEN Len(line) ELSE Limit[p] - 1)

\* pending_webhook_ids(limit).
Window(p) == SubSeq(line, 1, IF Len(line) < Limit[p] THEN Len(line) ELSE Limit[p])

Select(p) ==
  /\ batch[p] = <<>>
  /\ line # <<>>
  /\ batch' = [batch EXCEPT ![p] = Window(p)]
  /\ UNCHANGED <<rowVars, queue>>

\* One enqueue_job; the row may have been sent meanwhile.
QueueNext(p) ==
  /\ batch[p] # <<>>
  /\ batch' = [batch EXCEPT ![p] = Tail(@)]
  /\ queue' = IF Contains(queue, Head(batch[p])) THEN queue ELSE Append(queue, Head(batch[p]))
  /\ UNCHANGED rowVars

\* Wrong variant: a row that is to be tried again keeps its place.
WriteKeepsPlace(d, ok) ==
  LET att == attempts[d] + 1
      st  == IF ok THEN "delivered" ELSE IF att >= MaxAttempts THEN "failed" ELSE "pending"
  IN
  /\ status' = [status EXCEPT ![d] = st]
  /\ attempts' = [attempts EXCEPT ![d] = att]
  /\ line' = IF st = "pending" THEN line ELSE RemoveFirst(line, d)
  /\ later' = IF st = "pending" THEN later \cup {d} ELSE later \ {d}

\* What deliver_webhook writes after the POST; the backoff ends at a later time.
Write(d, ok) ==
  LET att == attempts[d] + 1
      st  == IF ok THEN "delivered" ELSE IF att >= MaxAttempts THEN "failed" ELSE "pending"
  IN
  /\ status' = [status EXCEPT ![d] = st]
  /\ attempts' = [attempts EXCEPT ![d] = att]
  /\ line' = RemoveFirst(line, d)
  /\ later' = IF st = "pending" THEN later \cup {d} ELSE later \ {d}

\* A send_webhook job, from the load of the row to its commit.  The job of a doomed
\* row fails at the commit, and max_tries = 1 ends it.
Run ==
  /\ queue # <<>>
  /\ queue' = Tail(queue)
  /\ LET d == Head(queue) IN
       IF status[d] = "delivered" \/ d \in Doomed THEN UNCHANGED rowVars
       ELSE \E ok \in BOOLEAN : Write(d, ok)
  /\ UNCHANGED batch

Pass(p) == Select(p) \/ QueueNext(p)

Next ==
  \/ \E d \in Deliveries : EnqueueWebhook(d) \/ ComeDue(d)
  \/ \E p \in Passes : Pass(p)
  \/ Run

Spec == Init /\ [][Next]_vars

\* The cron recurs, ARQ runs what is queued, and time passes; whether orders go on
\* finishing is not promised.
FairSpec ==
  /\ Spec
  /\ WF_vars(Pass(Cron)) /\ WF_vars(Run)
  /\ \A d \in Deliveries : WF_vars(ComeDue(d))

-----------------------------------------------------------------------------
(***************************************************************************)
(* Properties.                                                             *)
(***************************************************************************)

\* However many rows are due, the selection by age reaches every one, and a row no
\* job can write does not keep the others waiting (webhooks.py:142-153,
\* worker.py:72-77).
EveryRowIsReached ==
  \A d \in Deliveries \ Doomed :
    status[d] = "pending" ~> status[d] \in {"delivered", "failed"}
=============================================================================
