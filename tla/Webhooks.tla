------------------------------ MODULE Webhooks ------------------------------
(***************************************************************************)
(* Outgoing webhooks: rows of webhook_deliveries, the two places that      *)
(* queue send_webhook jobs for them, and deliver_webhook, which reads a    *)
(* row, posts it to the client and writes what came of it.                 *)
(*                                                                         *)
(* Nothing ties a job to the attempt it was queued for: while a delivery   *)
(* is due every finished order and every cron tick queues it again, a job  *)
(* does not look at next_attempt_at, and two jobs may work on one row.     *)
(* The row is written through the ORM: only columns whose new value        *)
(* differs from the one the job loaded.                                    *)
(***************************************************************************)
EXTENDS Naturals

CONSTANTS
  Deliveries,
  Senders,     \* job slots that run send_webhook
  MaxAttempts, \* settings.webhook_max_attempts
  MaxJobs,     \* bound: jobs waiting for one delivery
  MaxDeaths,   \* bound: how many jobs die
  NoDelivery

ASSUME MaxAttemptsAssumption == MaxAttempts \in Nat \ {0}
ASSUME NoDeliveryAssumption == NoDelivery \notin Deliveries

VARIABLES
  \* the row; next says where next_attempt_at lies: past, future or NULL
  status, attempts, next,
  jobs,     \* send_webhook jobs waiting for the delivery
  \* a job under way: its delivery, and the row it has loaded
  sdel, sst, satt, snext,
  \* the client's endpoint: requests made and requests accepted
  posts, accepted,
  races,    \* history: sends started while another held the row
  deaths

rowVars  == <<status, attempts, next>>
sendVars == <<sdel, sst, satt, snext>>
postVars == <<posts, accepted>>
vars == <<rowVars, jobs, sendVars, postVars, races, deaths>>

Statuses == {"none", "pending", "delivered", "failed"}
Times    == {"due", "later", "null"}

TypeOK ==
  /\ status \in [Deliveries -> Statuses]
  /\ attempts \in [Deliveries -> Nat]
  /\ next \in [Deliveries -> Times]
  /\ jobs \in [Deliveries -> Nat]
  /\ sdel \in [Senders -> Deliveries \cup {NoDelivery}]
  /\ sst \in [Senders -> Statuses]
  /\ satt \in [Senders -> Nat]
  /\ snext \in [Senders -> Times]
  /\ posts \in [Deliveries -> Nat]
  /\ accepted \in [Deliveries -> Nat]
  /\ races \in [Deliveries -> Nat]
  /\ deaths \in Nat

Init ==
  /\ status = [d \in Deliveries |-> "none"]
  /\ attempts = [d \in Deliveries |-> 0]
  /\ next = [d \in Deliveries |-> "null"]
  /\ jobs = [d \in Deliveries |-> 0]
  /\ sdel = [s \in Senders |-> NoDelivery]
  /\ sst = [s \in Senders |-> "none"]
  /\ satt = [s \in Senders |-> 0]
  /\ snext = [s \in Senders |-> "null"]
  /\ posts = [d \in Deliveries |-> 0]
  /\ accepted = [d \in Deliveries |-> 0]
  /\ races = [d \in Deliveries |-> 0]
  /\ deaths = 0

-----------------------------------------------------------------------------
\* enqueue_webhook, in the transaction that finishes the order.
EnqueueWebhook(d) ==
  /\ status[d] = "none"
  /\ status' = [status EXCEPT ![d] = "pending"]
  /\ next' = [next EXCEPT ![d] = "due"]
  /\ UNCHANGED <<attempts, jobs, sendVars, postVars, races, deaths>>

\* The backoff runs out.
ComeDue(d) ==
  /\ next[d] = "later"
  /\ next' = [next EXCEPT ![d] = "due"]
  /\ UNCHANGED <<status, attempts, jobs, sendVars, postVars, races, deaths>>

\* Wrong variant: only what was never tried.
IsPendingFirst(d) == status[d] = "pending" /\ next[d] = "due" /\ attempts[d] = 0

\* pending_webhook_ids.
IsPending(d) == status[d] = "pending" /\ next[d] = "due"

\* Wrong variant: queueing a delivery again starts its count anew.
KickAfresh(d) ==
  /\ IsPending(d)
  /\ jobs[d] < MaxJobs
  /\ jobs' = [jobs EXCEPT ![d] = @ + 1]
  /\ attempts' = [attempts EXCEPT ![d] = 0]
  /\ UNCHANGED <<status, next, sendVars, postVars, races, deaths>>

\* The cron, or a finished order, queues a delivery that is due.
Kick(d) ==
  /\ IsPending(d)
  /\ jobs[d] < MaxJobs
  /\ jobs' = [jobs EXCEPT ![d] = @ + 1]
  /\ UNCHANGED <<rowVars, sendVars, postVars, races, deaths>>

\* The end of process_order queues what is due (the first 20, which is the subject
\* of WebhookBacklog).
KickAll ==
  /\ jobs' = [d \in Deliveries |->
                IF IsPending(d) /\ jobs[d] < MaxJobs THEN jobs[d] + 1 ELSE jobs[d]]
  /\ UNCHANGED <<rowVars, sendVars, postVars, races, deaths>>

SenderHolds(s, d, st, att, nx) ==
  /\ sdel' = [sdel EXCEPT ![s] = d]
  /\ sst' = [sst EXCEPT ![s] = st]
  /\ satt' = [satt EXCEPT ![s] = att]
  /\ snext' = [snext EXCEPT ![s] = nx]

SenderEnds(s) == SenderHolds(s, NoDelivery, "none", 0, "null")

\* History only: the row is in somebody's hands already.  No guard reads it.
CountsRace(d) ==
  races' = [races EXCEPT ![d] = IF \E t \in Senders : sdel[t] = d THEN @ + 1 ELSE @]

\* Wrong variants: starts without a job; or does not look at the status; or takes
\* the row off the schedule while it is posted.
LoadUnasked(s, d) ==
  /\ sdel[s] = NoDelivery
  /\ jobs' = [jobs EXCEPT ![d] = @ - 1]
  /\ \/ status[d] = "delivered" /\ UNCHANGED <<sendVars, races>>
     \/ /\ status[d] # "delivered"
        /\ SenderHolds(s, d, status[d], attempts[d], next[d])
        /\ CountsRace(d)
  /\ UNCHANGED <<rowVars, postVars, deaths>>

LoadAnything(s, d) ==
  /\ sdel[s] = NoDelivery
  /\ jobs[d] > 0
  /\ jobs' = [jobs EXCEPT ![d] = @ - 1]
  /\ SenderHolds(s, d, status[d], attempts[d], next[d])
  /\ CountsRace(d)
  /\ UNCHANGED <<rowVars, postVars, deaths>>

LoadUnscheduled(s, d) ==
  /\ sdel[s] = NoDelivery
  /\ jobs[d] > 0
  /\ jobs' = [jobs EXCEPT ![d] = @ - 1]
  /\ \/ status[d] = "delivered" /\ UNCHANGED <<next, sendVars, races>>
     \/ /\ status[d] # "delivered"
        /\ SenderHolds(s, d, status[d], attempts[d], next[d])
        /\ next' = [next EXCEPT ![d] = "null"]
        /\ CountsRace(d)
  /\ UNCHANGED <<status, attempts, postVars, deaths>>

\* deliver_webhook up to the POST: a delivered row is left alone.
Load(s, d) ==
  /\ sdel[s] = NoDelivery
  /\ jobs[d] > 0
  /\ jobs' = [jobs EXCEPT ![d] = @ - 1]
  /\ \/ status[d] = "delivered" /\ UNCHANGED <<sendVars, races>>
     \/ /\ status[d] # "delivered"
        /\ SenderHolds(s, d, status[d], attempts[d], next[d])
        /\ CountsRace(d)
  /\ UNCHANGED <<rowVars, postVars, deaths>>

\* The ORM's dirty check.
Written(column, d, loaded, new) ==
  IF loaded = new THEN column' = column ELSE column' = [column EXCEPT ![d] = new]

\* Wrong variants: gives up one attempt early; or closes a row as delivered when
\* its attempts run out.
OutcomeEarly(ok, att) ==
  IF ok THEN "delivered" ELSE IF att >= MaxAttempts - 1 THEN "failed" ELSE "pending"
OutcomeAlwaysClosed(ok, att) ==
  IF ok \/ att >= MaxAttempts THEN "delivered" ELSE "pending"

\* What the row becomes after one more attempt.
Outcome(ok, att) ==
  IF ok THEN "delivered" ELSE IF att >= MaxAttempts THEN "failed" ELSE "pending"

\* The POST is over: write the row and commit.
Deliver(s, ok) ==
  LET d   == sdel[s]
      att == satt[s] + 1
      st  == Outcome(ok, att)
  IN
  /\ d # NoDelivery
  /\ posts' = [posts EXCEPT ![d] = @ + 1]
  /\ accepted' = [accepted EXCEPT ![d] = IF ok THEN @ + 1 ELSE @]
  /\ attempts' = [attempts EXCEPT ![d] = att]
  /\ Written(status, d, sst[s], st)
  /\ IF st = "pending" THEN next' = [next EXCEPT ![d] = "later"]
     ELSE Written(next, d, snext[s], "null")
  /\ SenderEnds(s)
  /\ UNCHANGED <<jobs, races, deaths>>

\* The job dies; the POST may have been made, and accepted.
SenderDies(s) ==
  /\ sdel[s] # NoDelivery
  /\ deaths < MaxDeaths
  /\ deaths' = deaths + 1
  /\ \/ UNCHANGED postVars
     \/ \E ok \in BOOLEAN :
          /\ posts' = [posts EXCEPT ![sdel[s]] = @ + 1]
          /\ accepted' = [accepted EXCEPT ![sdel[s]] = IF ok THEN @ + 1 ELSE @]
  /\ SenderEnds(s)
  /\ UNCHANGED <<rowVars, jobs, races>>

SenderStep(s) ==
  \/ \E d \in Deliveries : Load(s, d)
  \/ \E ok \in BOOLEAN : Deliver(s, ok)

Next ==
  \/ \E d \in Deliveries : EnqueueWebhook(d) \/ ComeDue(d) \/ Kick(d)
  \/ KickAll
  \/ \E s \in Senders : SenderStep(s) \/ SenderDies(s)

Spec == Init /\ [][Next]_vars

\* The cron ticks, time passes, and ARQ runs what is queued.
FairSpec ==
  /\ Spec
  /\ \A d \in Deliveries : WF_vars(ComeDue(d)) /\ WF_vars(Kick(d))
  /\ \A s \in Senders : WF_vars(SenderStep(s))

-----------------------------------------------------------------------------
(***************************************************************************)
(* Properties that hold however jobs overlap and whichever of them die.    *)
(***************************************************************************)

\* A delivery is given up only after the endpoint was tried MaxAttempts times:
\* lost updates may hide attempts, never invent them (webhooks.py:100,130).
NeverGivenUpEarly ==
  \A d \in Deliveries : status[d] = "failed" => posts[d] >= MaxAttempts

\* A delivery recorded as delivered has been accepted, and a row whose endpoint
\* accepted nothing is never closed as delivered (webhooks.py:125-128).
DeliveredWasAccepted ==
  \A d \in Deliveries : status[d] = "delivered" => accepted[d] > 0

(***************************************************************************)
(* What overlapping jobs and jobs that die cost, and that nothing else     *)
(* does: races counts the sends started on a row that another held.        *)
(***************************************************************************)

\* Every request the endpoint saw is on record in attempts, save one for each send
\* that overlapped another of the row and one for each job that died: a lost update
\* hides one request, never more (webhooks.py:100,138).
AttemptsAreCounted ==
  \A d \in Deliveries : posts[d] <= attempts[d] + races[d] + deaths

\* The endpoint accepts a notice once, and once more for each send that overlapped
\* another and each job that died: duplicates come from nothing else, although a
\* delivery is queued again at every tick and its status may be taken back
\* (webhooks.py:91-92).
AcceptedOnce ==
  \A d \in Deliveries : accepted[d] <= 1 + races[d] + deaths

\* A delivered row on which no two sends overlapped is settled: no job queued
\* earlier posts it again or takes the status back, whatever the jobs of other
\* deliveries do (webhooks.py:91-92).
DeliveredIsFinal ==
  [][\A d \in Deliveries : status[d] = "delivered" /\ races[d] = 0 =>
       status'[d] = "delivered" /\ posts'[d] = posts[d]]_vars

\* A pending row without a time for its next attempt, which the cron no longer
\* sees, is the work of overlapping sends: no death and no order of jobs one after
\* the other leads there (webhooks.py:124-136,143-152).
StrandedOnlyByRaces ==
  \A d \in Deliveries : status[d] = "pending" /\ next[d] = "null" => races[d] > 0

\* Every webhook ends as delivered or failed, however jobs overlap and die, unless
\* overlapping sends take it off the cron's schedule (worker.py:72-77).
EveryWebhookSettles ==
  \A d \in Deliveries : status[d] = "pending" ~>
    \/ status[d] \in {"delivered", "failed"}
    \/ next[d] = "null" /\ races[d] > 0

(***************************************************************************)
(* What the documentation says and overlapping jobs break.                 *)
(***************************************************************************)

\* README.md:185-187: a webhook that is not delivered is retried up to
\* webhook_max_attempts times, so the endpoint sees one request more at most.
RetriesWithinLimit == \A d \in Deliveries : posts[d] <= MaxAttempts + 1

\* webhooks.py:1 and worker.py:64: retries keep the backoff, so a request is
\* started only when the delivery is due.
BackoffIsKept ==
  [][\A s \in Senders : sdel'[s] # sdel[s] /\ sdel'[s] # NoDelivery =>
       next[sdel'[s]] = "due"]_vars

\* worker.py:73: the cron retries what is not delivered, so a pending row always
\* has a time for its next attempt.  Only overlapping jobs break it.
PendingIsScheduled ==
  \A d \in Deliveries : status[d] = "pending" => next[d] # "null"
=============================================================================
