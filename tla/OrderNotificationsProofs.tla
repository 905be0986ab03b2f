---------------------- MODULE OrderNotificationsProofs ----------------------
(***************************************************************************)
(* Proofs about OrderNotifications.  The composition adds no behaviour to  *)
(* either part, so what OrderLifecycleProofs and WebhooksProofs prove      *)
(* carries over; what is new relates the two: the notices of an order and  *)
(* its purchases.                                                          *)
(***************************************************************************)
EXTENDS OrderNotifications, OrderLifecycleProofs, FiniteSetTheorems

\* The theorems about Webhooks, for the deliveries of OrderNotifications.
Proved == INSTANCE WebhooksProofs WITH
  status <- hookStatus, attempts <- hookAttempts, MaxAttempts <- WebhookAttempts

USE DEF rowVars, logVars, payVars, workerVars, requestVars, sweepVars

-----------------------------------------------------------------------------
(***************************************************************************)
(* The parts.                                                              *)
(***************************************************************************)

LEMMA FreshIsUnused ==
  ASSUME Unused # {}
  PROVE  Fresh \in Deliveries /\ hookStatus[Fresh] = "none"
  BY DEF Fresh, Unused

\* What a step of the composition is to the orders.
LEMMA OrderPart == [NotificationsNext]_allVars => [Next]_vars
<1> SUFFICES ASSUME [NotificationsNext]_allVars
             PROVE  [Next]_vars
  OBVIOUS
<1>1. ASSUME NEW w \in Workers, Job(w)
      PROVE  WorkerStep(w)
  BY <1>1 DEF Job, Quietly, Finishes, EndOfJob, WorkerStep, Answer
<1>2. CASE \E d \in Deliveries : ComeDue(d) \/ Kick(d)
  BY <1>2 DEF ComeDue, Kick
<1>3. CASE \E s \in Senders : Send(s) \/ SendBreaks(s)
  BY <1>3 DEF Send, SendBreaks
<1>4. CASE UNCHANGED allVars
  BY <1>4 DEF allVars
<1> QED
  BY <1>1, <1>2, <1>3, <1>4 DEF NotificationsNext, Quietly, Next

\* What it is to the deliveries.
LEMMA HookPart == [NotificationsNext]_allVars => [Hooks!Next]_hookVars
<1> SUFFICES ASSUME [NotificationsNext]_allVars
             PROVE  [Hooks!Next]_hookVars
  OBVIOUS
<1>1. ASSUME NEW w \in Workers, Job(w)
      PROVE  [Hooks!Next]_hookVars
  <2>1. CASE Finishes(w)
    BY <2>1, FreshIsUnused DEF Finishes, Sends, Hooks!Next
  <2>2. CASE EndOfJob(w)
    BY <2>2 DEF EndOfJob, Hooks!Next
  <2> QED
    BY <1>1, <2>1, <2>2 DEF Job, Quietly
<1>2. CASE \E d \in Deliveries : ComeDue(d) \/ Kick(d)
  BY <1>2 DEF ComeDue, Kick, Hooks!Next
<1>3. CASE \E s \in Senders : Send(s) \/ SendBreaks(s)
  BY <1>3 DEF Send, SendBreaks, Hooks!Next, Hooks!SenderStep
<1>4. CASE UNCHANGED allVars
  BY <1>4 DEF allVars
<1> QED
  BY <1>1, <1>2, <1>3, <1>4 DEF NotificationsNext, Quietly

\* Webhooks never hold up an order, nor change what becomes of it: orders behave
\* as OrderLifecycle says, so all its theorems hold of the composition.
THEOREM OrdersUndisturbed == NotificationsSpec => Spec
<1>1. NotificationsInit => Init
  BY DEF NotificationsInit
<1> QED
  BY <1>1, OrderPart, PTL DEF NotificationsSpec, Spec

\* Nor do orders disturb deliveries: they write only new rows and queue only what
\* is due.
THEOREM DeliveriesUndisturbed == NotificationsSpec => Hooks!Spec
<1>1. NotificationsInit => Hooks!Init
  BY DEF NotificationsInit
<1>2. [Hooks!Next]_hookVars => [Hooks!Next]_Hooks!vars
  BY DEF hookVars, Hooks!vars, Hooks!rowVars, Hooks!sendVars, Hooks!postVars
<1> QED
  BY <1>1, <1>2, HookPart, PTL DEF NotificationsSpec, Hooks!Spec

\* Webhooks and WebhooksProofs name one specification.
LEMMA SameHooks == Hooks!Spec => Proved!Spec
<1>1. Hooks!Init => Proved!Init
  BY DEF Hooks!Init, Proved!Init
<1>2. Hooks!Next => Proved!Next
  BY DEF Hooks!Next, Hooks!EnqueueWebhook, Hooks!ComeDue, Hooks!Kick, Hooks!KickAll,
         Hooks!IsPending, Hooks!CountsRace, Hooks!SenderStep, Hooks!SenderDies, Hooks!SenderEnds,
         Hooks!SenderHolds, Hooks!Load, Hooks!Deliver, Hooks!Written, Hooks!Outcome,
         Hooks!rowVars, Hooks!sendVars, Hooks!postVars,
         Proved!Next, Proved!EnqueueWebhook, Proved!ComeDue, Proved!Kick, Proved!KickAll,
         Proved!IsPending, Proved!CountsRace, Proved!SenderStep, Proved!SenderDies, Proved!SenderEnds,
         Proved!SenderHolds, Proved!Load, Proved!Deliver, Proved!Written, Proved!Outcome,
         Proved!rowVars, Proved!sendVars, Proved!postVars
<1>3. UNCHANGED Hooks!vars => UNCHANGED Proved!vars
  BY DEF Hooks!vars, Hooks!rowVars, Hooks!sendVars, Hooks!postVars,
         Proved!vars, Proved!rowVars, Proved!sendVars, Proved!postVars
<1>4. [Hooks!Next]_Hooks!vars => [Proved!Next]_Proved!vars
  BY <1>2, <1>3
<1> QED
  BY <1>1, <1>4, PTL DEF Hooks!Spec, Proved!Spec

LEMMA HooksType == NotificationsSpec => []Hooks!TypeOK
<1>1. Proved!TypeOK => Hooks!TypeOK
  BY DEF Proved!TypeOK, Hooks!TypeOK, Proved!Statuses, Hooks!Statuses, Proved!Times, Hooks!Times
<1>2. Proved!Spec => []Proved!TypeOK
  BY Proved!TypeCorrect, WebhookAttemptsAssumption, NoDeliveryAssumption
<1> QED
  BY <1>1, <1>2, SameHooks, DeliveriesUndisturbed, PTL

\* What overlapping and dying senders cost is no more when orders write the rows and
\* queue the sends: on requests, accepted duplicates and stranded rows the bounds of
\* Webhooks hold of the composition, with any number of senders.
THEOREM CostsCarryOver ==
  NotificationsSpec => [](/\ Hooks!AttemptsAreCounted
                          /\ Hooks!AcceptedOnce
                          /\ Hooks!StrandedOnlyByRaces)
<1>1. Proved!AttemptsAreCounted => Hooks!AttemptsAreCounted
  BY DEF Hooks!AttemptsAreCounted, Proved!AttemptsAreCounted
<1>2. Proved!AcceptedOnce => Hooks!AcceptedOnce
  BY DEF Hooks!AcceptedOnce, Proved!AcceptedOnce
<1>3. Proved!StrandedOnlyByRaces => Hooks!StrandedOnlyByRaces
  BY DEF Hooks!StrandedOnlyByRaces, Proved!StrandedOnlyByRaces
<1>4. Proved!Spec => [](/\ Proved!AttemptsAreCounted
                        /\ Proved!AcceptedOnce
                        /\ Proved!StrandedOnlyByRaces)
  BY Proved!AllAreCounted, Proved!DuplicatesAreRaces, Proved!StrandedByRaces,
     WebhookAttemptsAssumption, NoDeliveryAssumption, PTL
<1> QED
  BY <1>1, <1>2, <1>3, <1>4, SameHooks, DeliveriesUndisturbed, PTL

\* No finished order, nor the webhooks' cron, nor a send of another notice has a
\* delivered notice posted again or taken back: only two sends of that notice can.
THEOREM NoticesStayDelivered == NotificationsSpec => Hooks!DeliveredIsFinal
<1> DEFINE Keeps == \A d \in Deliveries : hookStatus[d] = "delivered" /\ races[d] = 0 =>
                      hookStatus'[d] = "delivered" /\ posts'[d] = posts[d]
<1>1. Proved!Spec => Proved!DeliveredIsFinal
  BY Proved!DeliveredStays, WebhookAttemptsAssumption, NoDeliveryAssumption
<1>2. [Keeps]_Proved!vars => [Keeps]_Hooks!vars
  BY DEF Hooks!vars, Hooks!rowVars, Hooks!sendVars, Hooks!postVars,
         Proved!vars, Proved!rowVars, Proved!sendVars, Proved!postVars
<1> QED
  BY <1>1, <1>2, SameHooks, DeliveriesUndisturbed, PTL
     DEF Hooks!DeliveredIsFinal, Proved!DeliveredIsFinal

-----------------------------------------------------------------------------
(***************************************************************************)
(* What relates the two.                                                   *)
(***************************************************************************)

LinkTypeOK ==
  /\ subject \in [Deliveries -> [order : Orders, event : Events] \cup {Nothing}]
  /\ heard \in [Orders -> [first : Events \cup {"none"}, latest : Events \cup {"none"}]]

\* A delivery whose row does not exist is about nothing.
UnusedIsBlank == \A d \in Deliveries : hookStatus[d] = "none" => subject[d] = Nothing

\* An order without a confirmed purchase has no success notice, one with it has
\* exactly one.
Noticed ==
  \A o \in Orders : IF paid[o] > 0 THEN \E d \in Deliveries : About(o, "completed") = {d}
                    ELSE About(o, "completed") = {}

Link == LinkTypeOK /\ UnusedIsBlank /\ Noticed

LEMMA InitLink == NotificationsInit => Link
<1> SUFFICES ASSUME NotificationsInit
             PROVE  Link
  OBVIOUS
<1>1. LinkTypeOK /\ UnusedIsBlank
  BY DEF NotificationsInit, LinkTypeOK, UnusedIsBlank
<1>2. \A o \in Orders : About(o, "completed") = {}
  BY DEF NotificationsInit, About, Nothing
<1>3. \A o \in Orders : ~(paid[o] > 0)
  BY DEF NotificationsInit, Init
<1> QED
  BY <1>1, <1>2, <1>3 DEF Link, Noticed

\* A row once written stays written.
LEMMA RowsStay ==
  ASSUME Hooks!TypeOK, [Hooks!Next]_hookVars, NEW d \in Deliveries, hookStatus'[d] = "none"
  PROVE  hookStatus[d] = "none"
<1>1. ASSUME NEW s \in Senders, NEW ok \in BOOLEAN, Hooks!Deliver(s, ok)
      PROVE  hookStatus[d] = "none"
  <2>1. Hooks!Outcome(ok, satt[s] + 1) # "none"
    BY DEF Hooks!Outcome
  <2> QED
    BY <1>1, <2>1 DEF Hooks!Deliver, Hooks!Written, Hooks!TypeOK
<1>2. ASSUME NEW e \in Deliveries, Hooks!EnqueueWebhook(e)
      PROVE  hookStatus[d] = "none"
  BY <1>2 DEF Hooks!EnqueueWebhook, Hooks!TypeOK
<1>3. CASE UNCHANGED hookStatus
  BY <1>3
<1> QED
  BY <1>1, <1>2, <1>3
     DEF Hooks!Next, Hooks!ComeDue, Hooks!Kick, Hooks!KickAll, Hooks!SenderStep, Hooks!Load,
         Hooks!SenderDies, Hooks!rowVars, hookVars

\* A step that writes no notice and confirms no purchase.
LEMMA NoNotice ==
  ASSUME UnusedIsBlank, Noticed, Hooks!TypeOK, [Hooks!Next]_hookVars,
         UNCHANGED <<subject, paid>>
  PROVE  UnusedIsBlank' /\ Noticed'
<1>1. UnusedIsBlank'
  BY RowsStay DEF UnusedIsBlank
<1>2. \A o : About(o, "completed")' = About(o, "completed")
  BY DEF About
<1> QED
  BY <1>1, <1>2 DEF Noticed

LEMMA SendsLink ==
  ASSUME Link, Hooks!TypeOK, NEW p \in Orders, NEW event \in Events, Sends(p, event),
         paid \in [Orders -> Nat], paid[p] = 0,
         paid' = [paid EXCEPT ![p] = IF event = "completed" THEN 1 ELSE 0]
  PROVE  UnusedIsBlank' /\ Noticed'
<1> DEFINE d == Fresh
           new == [order |-> p, event |-> event]
<1>1. d \in Deliveries /\ hookStatus[d] = "none" /\ subject[d] = Nothing
  BY FreshIsUnused DEF Sends, Link, UnusedIsBlank
<1> HIDE DEF d
<1>2. /\ subject' = [subject EXCEPT ![d] = new]
      /\ hookStatus' = [hookStatus EXCEPT ![d] = "pending"]
      /\ UNCHANGED heard
  BY DEF Sends, Hooks!EnqueueWebhook, d
<1>3. UnusedIsBlank'
  BY <1>1, <1>2 DEF Link, LinkTypeOK, UnusedIsBlank, Hooks!TypeOK
<1>4. \A e \in Deliveries : subject'[e] = IF e = d THEN new ELSE subject[e]
  BY <1>1, <1>2 DEF Link, LinkTypeOK
<1>5. \A o \in Orders : d \notin About(o, "completed")
  BY <1>1, NoOrderAssumption DEF About, Nothing
<1>6. \A o \in Orders : About(o, "completed")' =
        IF o = p /\ event = "completed" THEN About(o, "completed") \cup {d}
        ELSE About(o, "completed")
  <2> SUFFICES ASSUME NEW o \in Orders, NEW e \in Deliveries
               PROVE  subject'[e] = [order |-> o, event |-> "completed"] <=>
                        IF e = d THEN o = p /\ event = "completed"
                        ELSE subject[e] = [order |-> o, event |-> "completed"]
    BY <1>1, <1>5 DEF About
  <2>1. new = [order |-> o, event |-> "completed"] <=> o = p /\ event = "completed"
    OBVIOUS
  <2> QED
    BY <1>4, <2>1
<1>7. Noticed'
  <2>1. About(p, "completed") = {}
    BY DEF Link, Noticed
  <2>2. About(p, "completed")' = IF event = "completed" THEN {d} ELSE {}
    BY <1>6, <2>1
  <2>3. paid'[p] = IF event = "completed" THEN 1 ELSE 0
    OBVIOUS
  <2>4. \A o \in Orders : o # p =>
          paid'[o] = paid[o] /\ About(o, "completed")' = About(o, "completed")
    BY <1>6
  <2> SUFFICES ASSUME NEW o \in Orders
               PROVE  IF paid'[o] > 0 THEN \E e \in Deliveries : About(o, "completed")' = {e}
                      ELSE About(o, "completed")' = {}
    BY DEF Noticed
  <2>5. CASE o = p
    BY <1>1, <2>2, <2>3, <2>5
  <2>6. CASE o # p
    BY <2>4, <2>6 DEF Link, Noticed
  <2> QED
    BY <2>5, <2>6
<1> QED
  BY <1>3, <1>7

\* What the endpoint hears is an event of the order the delivery is about.
LEMMA LinkType == TypeOK /\ Hooks!TypeOK /\ LinkTypeOK /\ [NotificationsNext]_allVars => LinkTypeOK'
<1> SUFFICES ASSUME TypeOK, Hooks!TypeOK, LinkTypeOK, [NotificationsNext]_allVars
             PROVE  LinkTypeOK'
  OBVIOUS
<1>1. ASSUME NEW w \in Workers, Finishes(w)
      PROVE  LinkTypeOK'
  <2>1. PICK event \in Events : Sends(word[w], event)
    BY <1>1 DEF Finishes, Events
  <2>2. word[w] \in Orders
    BY <1>1 DEF Finishes, CompleteOrder, FailForGood, TypeOK
  <2>3. Fresh \in Deliveries
    BY <2>1, FreshIsUnused DEF Sends
  <2> QED
    BY <2>1, <2>2, <2>3 DEF Sends, LinkTypeOK
<1>2. ASSUME NEW s \in Senders, sdel[s] \in Deliveries, Hears(s), UNCHANGED subject
      PROVE  LinkTypeOK'
  <2> DEFINE o == subject[sdel[s]].order
             e == subject[sdel[s]].event
  <2>1. o \in Orders => e \in Events
    BY <1>2, NoOrderAssumption DEF LinkTypeOK, Nothing
  <2>2. CASE UNCHANGED heard
    BY <1>2, <2>2 DEF LinkTypeOK
  <2>3. CASE heard' = [heard EXCEPT ![o] =
                         [first |-> IF @.first = "none" THEN e ELSE @.first, latest |-> e]]
    <3>1. heard' \in [Orders -> [first : Events \cup {"none"}, latest : Events \cup {"none"}]]
      BY <2>1, <2>3 DEF LinkTypeOK
    <3> QED
      BY <1>2, <3>1 DEF LinkTypeOK
  <2> QED
    BY <1>2, <2>2, <2>3 DEF Hears
<1>3. ASSUME NEW s \in Senders, Send(s) \/ SendBreaks(s)
      PROVE  LinkTypeOK'
  <2>1. CASE \E d \in Deliveries : Hooks!Load(s, d) /\ UNCHANGED <<vars, subject, heard>>
    BY <2>1 DEF LinkTypeOK
  <2>2. CASE \E ok \in BOOLEAN : Hooks!Deliver(s, ok) /\ Hears(s) /\ UNCHANGED <<vars, subject>>
    BY <1>2, <2>2 DEF Hooks!Deliver, Hooks!TypeOK
  <2>3. CASE SendBreaks(s)
    BY <1>2, <2>3 DEF SendBreaks, Hooks!SenderDies, Hooks!TypeOK
  <2> QED
    BY <1>3, <2>1, <2>2, <2>3 DEF Send
<1>4. CASE UNCHANGED <<subject, heard>>
  BY <1>4 DEF LinkTypeOK
<1> QED
  BY <1>1, <1>3, <1>4 DEF NotificationsNext, Job, EndOfJob, Quietly, ComeDue, Kick, allVars

\* Orders, deliveries, what a delivery is about and what the endpoint heard keep
\* their shape, whichever jobs, sweeps, requests and senders die.
THEOREM NotificationsTypeCorrect == NotificationsSpec => []NotificationsTypeOK
<1>1. NotificationsInit => LinkTypeOK
  BY InitLink DEF Link
<1>2. TypeOK /\ Hooks!TypeOK /\ LinkTypeOK => NotificationsTypeOK
  BY DEF LinkTypeOK, NotificationsTypeOK
<1>3. NotificationsSpec => []TypeOK
  BY OrdersUndisturbed, TypeCorrect, PTL
<1> QED
  BY <1>1, <1>2, <1>3, HooksType, LinkType, PTL DEF NotificationsSpec

LEMMA NextLink ==
  IInv /\ Hooks!TypeOK /\ Link /\ [NotificationsNext]_allVars => UnusedIsBlank' /\ Noticed'
<1> SUFFICES ASSUME IInv, Hooks!TypeOK, Link, [NotificationsNext]_allVars
             PROVE  UnusedIsBlank' /\ Noticed'
  OBVIOUS
<1>1. ASSUME NEW w \in Workers, Finishes(w)
      PROVE  UnusedIsBlank' /\ Noticed'
  <2>1. PICK reply \in Replies :
          \/ CompleteOrder(w, reply) /\ Sends(word[w], "completed")
          \/ FailForGood(w, reply) /\ Sends(word[w], "failed")
    BY <1>1 DEF Finishes
  <2>2. PICK p \in Orders : p = word[w]
    BY <2>1 DEF CompleteOrder, FailForGood, IInv, TypeOK
  <2>3. paid[p] = 0
    <3>1. Live(w)
      BY <2>1 DEF CompleteOrder, FailForGood, Live
    <3> QED
      BY <2>2, <3>1 DEF IInv, TypeOK, Exclusion, PaidIsSettled, Unowned
  <2>4. paid \in [Orders -> Nat]
    BY DEF IInv, TypeOK
  <2>5. CASE CompleteOrder(w, reply) /\ Sends(word[w], "completed")
    <3>1. paid' = [paid EXCEPT ![p] = 1]
      <4>1. paid' = [paid EXCEPT ![p] = paid[p] + 1]
        BY <2>2, <2>5 DEF CompleteOrder, Charge
      <4> QED
        BY <2>3, <4>1
    <3> QED
      BY <2>2, <2>3, <2>4, <2>5, <3>1, SendsLink DEF Events
  <2>6. CASE FailForGood(w, reply) /\ Sends(word[w], "failed")
    <3>1. paid' = [paid EXCEPT ![p] = 0]
      BY <2>2, <2>3, <2>4, <2>6 DEF FailForGood, Charge
    <3> QED
      BY <2>2, <2>3, <2>4, <2>6, <3>1, SendsLink DEF Events
  <2> QED
    BY <2>1, <2>5, <2>6
<1>2. CASE UNCHANGED <<subject, paid>>
  BY <1>2, HookPart, NoNotice DEF Link
<1>3. ASSUME NEW w \in Workers, Job(w), ~Finishes(w)
      PROVE  UNCHANGED <<subject, paid>>
  <2>1. ASSUME NEW reply \in Replies, RetryLater(w, reply)
        PROVE  UNCHANGED paid
    <3>1. paid' = [paid EXCEPT ![word[w]] = paid[word[w]]]
      BY <2>1 DEF RetryLater, Charge
    <3> QED
      BY <3>1 DEF IInv, TypeOK
  <2> QED
    BY <1>3, <2>1 DEF Job, Quietly, EndOfJob, FinishJob, ClaimOrder, ClaimRefused, LoadOrder,
                      ReadBack
<1>4. ASSUME \/ \E r \in Requests : ClientStep(r) \/ RequestStep(r)
             \/ \E s \in Sweepers : SweepStep(s)
             \/ \E o \in Orders : Age(o)
             \/ Break
      PROVE  UNCHANGED paid
  BY <1>4 DEF ClientStep, CreateOrder, CheckCancel, CheckRetry, RequestStep, EnqueueOrder,
              MarkQueued, CancelOrder, ClaimRetry, SweepStep, SweepScan, SweepRow, SweepCommit,
              Age, Break, WorkerDies, JobLost, RequestDies, SweepDies
<1>5. CASE (\E w \in Workers : Job(w) /\ ~Finishes(w)) \/ UNCHANGED allVars
  BY <1>2, <1>3, <1>5 DEF allVars, vars
<1>6. CASE \/ Quietly(\E r \in Requests : ClientStep(r) \/ RequestStep(r))
           \/ Quietly(\E s \in Sweepers : SweepStep(s))
           \/ Quietly(\E o \in Orders : Age(o))
           \/ Quietly(Break)
  BY <1>2, <1>4, <1>6 DEF Quietly
<1>7. CASE \/ \E d \in Deliveries : ComeDue(d) \/ Kick(d)
           \/ \E s \in Senders : Send(s) \/ SendBreaks(s)
  BY <1>2, <1>7 DEF ComeDue, Kick, Send, SendBreaks, vars
<1> QED
  BY <1>1, <1>5, <1>6, <1>7 DEF NotificationsNext

\* The client is sent exactly one success notice for a purchase the service knows
\* of, and none for one it does not, unless overlapping sweeps
\* find orders: a second notice would take a second purchase, and the notice is in
\* the purchase's transaction.
THEOREM NoticedOnce ==
  ASSUME SweepsExclude
  PROVE  NotificationsSpec => []OneSuccessNotice
<1>1. NotificationsInit => UnusedIsBlank /\ Noticed
  BY InitLink DEF Link
<1>2. IInv /\ Hooks!TypeOK /\ LinkTypeOK /\ UnusedIsBlank /\ Noticed
        /\ [NotificationsNext]_allVars => UnusedIsBlank' /\ Noticed'
  BY NextLink DEF Link
<1>3. Noticed => OneSuccessNotice
  BY FS_EmptySet, FS_Singleton DEF Noticed, OneSuccessNotice
<1>4. NotificationsSpec => []IInv
  BY OrdersUndisturbed, Invariance, PTL
<1>5. NotificationsTypeOK => LinkTypeOK
  BY DEF NotificationsTypeOK, LinkTypeOK
<1>6. NotificationsSpec => []LinkTypeOK
  BY <1>5, NotificationsTypeCorrect, PTL
<1> QED
  BY <1>1, <1>2, <1>3, <1>4, <1>6, HooksType, PTL DEF NotificationsSpec
=============================================================================
