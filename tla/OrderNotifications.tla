-------------------------- MODULE OrderNotifications --------------------------
(***************************************************************************)
(* Orders and their webhooks together: OrderLifecycle decides what the     *)
(* client should hear, Webhooks brings it there.                           *)
(*                                                                         *)
(* They meet in two places.  The transaction that finishes an order writes *)
(* the row of its webhook, so the two cannot be torn apart by a crash; and *)
(* the end of process_order, like the cron, queues what is due.  The       *)
(* client's endpoint hears events in the order in which it accepts them,   *)
(* which need not be the order in which they came about.                   *)
(***************************************************************************)
EXTENDS OrderLifecycle

CONSTANTS
  Deliveries,      \* bound: ids of webhook_deliveries
  Senders,         \* job slots that run send_webhook
  WebhookAttempts, \* settings.webhook_max_attempts
  MaxJobs,         \* bound: jobs waiting for one delivery
  MaxDeaths,       \* bound: how many send_webhook jobs die
  NoDelivery

ASSUME WebhookAttemptsAssumption == WebhookAttempts \in Nat \ {0}
ASSUME NoDeliveryAssumption == NoDelivery \notin Deliveries

VARIABLES
  hookStatus, hookAttempts, next, jobs, sdel, sst, satt, snext, posts, accepted, races, deaths,
  subject, \* what a delivery is about: an order and an event
  heard    \* events of an order the endpoint has accepted: the first, the latest

Hooks == INSTANCE Webhooks WITH
  status <- hookStatus, attempts <- hookAttempts, MaxAttempts <- WebhookAttempts

hookVars == <<hookStatus, hookAttempts, next, jobs, sdel, sst, satt, snext, posts, accepted,
              races, deaths>>
allVars == <<vars, hookVars, subject, heard>>

Events == {"completed", "failed"}
Nothing == [order |-> NoOrder, event |-> "none"]

NotificationsTypeOK ==
  /\ TypeOK
  /\ Hooks!TypeOK
  /\ subject \in [Deliveries -> [order : Orders, event : Events] \cup {Nothing}]
  /\ heard \in [Orders -> [first : Events \cup {"none"}, latest : Events \cup {"none"}]]

NotificationsInit ==
  /\ Init
  /\ Hooks!Init
  /\ subject = [d \in Deliveries |-> Nothing]
  /\ heard = [o \in Orders |-> [first |-> "none", latest |-> "none"]]

-----------------------------------------------------------------------------
(***************************************************************************)
(* Steps of an order.                                                      *)
(***************************************************************************)

\* A step that no webhook hears of.
Quietly(A) == A /\ UNCHANGED <<hookVars, subject, heard>>

Unused == {d \in Deliveries : hookStatus[d] = "none"}
Fresh == CHOOSE d \in Unused : TRUE

\* Wrong variant: the row is written after the commit that finishes the order,
\* and a job that dies in between never writes it.
SendsOrDies(o, event) ==
  \/ /\ Unused # {}
     /\ Hooks!EnqueueWebhook(Fresh)
     /\ subject' = [subject EXCEPT ![Fresh] = [order |-> o, event |-> event]]
     /\ UNCHANGED heard
  \/ UNCHANGED <<hookVars, subject, heard>>

\* enqueue_webhook in the transaction that finishes the order.
Sends(o, event) ==
  /\ Unused # {}
  /\ Hooks!EnqueueWebhook(Fresh)
  /\ subject' = [subject EXCEPT ![Fresh] = [order |-> o, event |-> event]]
  /\ UNCHANGED heard

Finishes(w) ==
  \E reply \in Replies :
    \/ CompleteOrder(w, reply) /\ Sends(word[w], "completed")
    \/ FailForGood(w, reply) /\ Sends(word[w], "failed")

\* The end of process_order: an order that is not to be retried is followed by
\* the webhooks that are due, whoever they are about.
EndOfJob(w) ==
  /\ FinishJob(w)
  /\ IF wst[w] = "pending" THEN UNCHANGED hookVars ELSE Hooks!KickAll
  /\ UNCHANGED <<subject, heard>>

Job(w) ==
  \/ Quietly(\E o \in Orders : ClaimOrder(w, o) \/ ClaimRefused(w, o))
  \/ Quietly(LoadOrder(w))
  \/ Quietly(\E reply \in Replies : RetryLater(w, reply))
  \/ Quietly(ReadBack(w))
  \/ Finishes(w)
  \/ EndOfJob(w)

(***************************************************************************)
(* Steps of a webhook, of which the order knows nothing.                   *)
(***************************************************************************)

\* What the endpoint has heard, once a POST is over.
Hears(s) ==
  LET d == sdel[s]
      o == subject[d].order
      e == subject[d].event
  IN heard' = IF accepted'[d] = accepted[d] THEN heard
              ELSE [heard EXCEPT ![o] = [first  |-> IF @.first = "none" THEN e ELSE @.first,
                                         latest |-> e]]

ComeDue(d) == Hooks!ComeDue(d) /\ UNCHANGED <<vars, subject, heard>>
Kick(d)    == Hooks!Kick(d) /\ UNCHANGED <<vars, subject, heard>>

Send(s) ==
  \/ \E d \in Deliveries : Hooks!Load(s, d) /\ UNCHANGED <<vars, subject, heard>>
  \/ \E ok \in BOOLEAN : Hooks!Deliver(s, ok) /\ Hears(s) /\ UNCHANGED <<vars, subject>>

SendBreaks(s) == Hooks!SenderDies(s) /\ Hears(s) /\ UNCHANGED <<vars, subject>>

NotificationsNext ==
  \/ Quietly(\E r \in Requests : ClientStep(r) \/ RequestStep(r))
  \/ \E w \in Workers : Job(w)
  \/ Quietly(\E s \in Sweepers : SweepStep(s))
  \/ Quietly(\E o \in Orders : Age(o))
  \/ Quietly(Break)
  \/ \E d \in Deliveries : ComeDue(d) \/ Kick(d)
  \/ \E s \in Senders : Send(s) \/ SendBreaks(s)

NotificationsSpec == NotificationsInit /\ [][NotificationsNext]_allVars

\* The fairness of the two parts.
NotificationsFairSpec ==
  /\ NotificationsSpec
  /\ \A w \in Workers : WF_allVars(Job(w))
  /\ \A r \in Requests : WF_allVars(Quietly(RequestStep(r)))
  /\ \A s \in Sweepers : WF_allVars(Quietly(SweepStep(s)))
  /\ \A o \in Orders : WF_allVars(Quietly(Age(o)))
  /\ \A d \in Deliveries : WF_allVars(ComeDue(d)) /\ WF_allVars(Kick(d))
  /\ \A s \in Senders : WF_allVars(Send(s))

-----------------------------------------------------------------------------
(***************************************************************************)
(* Properties.                                                             *)
(***************************************************************************)

About(o, event) == {d \in Deliveries : subject[d] = [order |-> o, event |-> event]}

\* The client is sent exactly one success notice for a purchase the service
\* knows of, and none for one it does not, whichever jobs die and however often
\* the order was tried (orders.py:318-340).
OneSuccessNotice ==
  \A o \in Orders : Cardinality(About(o, "completed")) = IF paid[o] > 0 THEN 1 ELSE 0

\* A confirmed purchase reaches the client, or its endpoint has had all its
\* attempts, even if the job that made it dies right after the commit
\* (worker.py:55-58,72-77).
OutcomeReachesClient ==
  \A o \in Orders : paid[o] > 0 ~>
    \E d \in About(o, "completed") : accepted[d] > 0 \/ posts[d] >= WebhookAttempts

\* No webhook is on its way for the order.
Quiet(o) ==
  \A d \in Deliveries : subject[d].order = o => hookStatus[d] \in {"delivered", "failed"}

\* README.md:215 has clients deduplicate by data.id, the order's id: a client that
\* does acts on the first event and drops the rest.  After a retry the first is not
\* the outcome.
DedupedClientKnows ==
  \A o \in Orders : AtRest(o) /\ Quiet(o) /\ heard[o].first # "none" /\ paid[o] > 0 =>
    heard[o].first = "completed"

\* A client that goes by the latest event it accepted is led astray as well: the
\* late retry of an old notice may come after the new one.
LatestIsOutcome ==
  \A o \in Orders : AtRest(o) /\ Quiet(o) /\ heard[o].latest # "none" /\ paid[o] > 0 =>
    heard[o].latest = "completed"
=============================================================================
