--------------------------- MODULE WebhooksProofs ---------------------------
(***************************************************************************)
(* Proofs about Webhooks for any number of deliveries, jobs and attempts,  *)
(* however the jobs overlap and whichever of them die.                     *)
(***************************************************************************)
EXTENDS Webhooks, FiniteSets, FiniteSetTheorems, TLAPS

\* No count of attempts, on record or in a job's hands, exceeds the requests
\* made; this is what makes NeverGivenUpEarly inductive.
AttemptsWereMade ==
  /\ \A d \in Deliveries : attempts[d] <= posts[d]
  /\ \A s \in Senders : sdel[s] # NoDelivery => satt[s] <= posts[sdel[s]]

IInv == TypeOK /\ AttemptsWereMade /\ NeverGivenUpEarly /\ DeliveredWasAccepted

USE MaxAttemptsAssumption, NoDeliveryAssumption
USE DEF rowVars, sendVars, postVars

LEMMA InitInvariant == Init => IInv
  BY DEF Init, IInv, TypeOK, AttemptsWereMade, NeverGivenUpEarly, DeliveredWasAccepted,
         Statuses, Times

LEMMA DeliveryInvariant ==
  ASSUME IInv, NEW d \in Deliveries, EnqueueWebhook(d) \/ ComeDue(d) \/ Kick(d)
  PROVE  IInv'
<1>1. CASE EnqueueWebhook(d)
  BY <1>1 DEF EnqueueWebhook, IInv, TypeOK, AttemptsWereMade, NeverGivenUpEarly,
              DeliveredWasAccepted, Statuses, Times
<1>2. CASE ComeDue(d)
  BY <1>2 DEF ComeDue, IInv, TypeOK, AttemptsWereMade, NeverGivenUpEarly,
              DeliveredWasAccepted, Times
<1>3. CASE Kick(d)
  BY <1>3 DEF Kick, IInv, TypeOK, AttemptsWereMade, NeverGivenUpEarly, DeliveredWasAccepted
<1> QED
  BY <1>1, <1>2, <1>3

LEMMA KickAllInvariant ==
  ASSUME IInv, KickAll
  PROVE  IInv'
<1>1. TypeOK'
  BY DEF KickAll, IInv, TypeOK
<1> QED
  BY <1>1 DEF KickAll, IInv, AttemptsWereMade, NeverGivenUpEarly, DeliveredWasAccepted

LEMMA LoadInvariant ==
  ASSUME IInv, NEW s \in Senders, NEW d \in Deliveries, Load(s, d)
  PROVE  IInv'
<1>1. jobs' \in [Deliveries -> Nat] /\ races' \in [Deliveries -> Nat]
  BY DEF Load, CountsRace, IInv, TypeOK
<1>2. CASE status[d] = "delivered"
  BY <1>1, <1>2 DEF Load, IInv, TypeOK, AttemptsWereMade, NeverGivenUpEarly, DeliveredWasAccepted
<1>3. CASE status[d] # "delivered"
  <2>1. TypeOK'
    BY <1>1, <1>3 DEF Load, SenderHolds, IInv, TypeOK
  <2>2. AttemptsWereMade'
    BY <1>3 DEF Load, SenderHolds, IInv, TypeOK, AttemptsWereMade
  <2>3. NeverGivenUpEarly' /\ DeliveredWasAccepted'
    BY DEF Load, IInv, NeverGivenUpEarly, DeliveredWasAccepted
  <2> QED
    BY <2>1, <2>2, <2>3 DEF IInv
<1> QED
  BY <1>2, <1>3

\* The attempt being written is at most one more than the requests made before
\* this one.
LEMMA DeliverInvariant ==
  ASSUME IInv, NEW s \in Senders, NEW ok \in BOOLEAN, Deliver(s, ok)
  PROVE  IInv'
<1>0. PICK d \in Deliveries : d = sdel[s]
  BY DEF Deliver, IInv, TypeOK
<1> DEFINE att == satt[s] + 1
           st  == Outcome(ok, att)
<1>1. att \in Nat /\ att <= posts[d] + 1 /\ st \in Statuses
  BY <1>0 DEF IInv, TypeOK, AttemptsWereMade, Outcome, Statuses
<1>2. /\ posts' = [posts EXCEPT ![d] = posts[d] + 1]
      /\ accepted' = [accepted EXCEPT ![d] = IF ok THEN accepted[d] + 1 ELSE accepted[d]]
      /\ attempts' = [attempts EXCEPT ![d] = att]
      /\ status' = status \/ status' = [status EXCEPT ![d] = st]
      /\ next' = next \/ \E t \in Times : next' = [next EXCEPT ![d] = t]
      /\ SenderEnds(s)
      /\ UNCHANGED <<jobs, races, deaths>>
  BY <1>0 DEF Deliver, Written, Times
<1>3. TypeOK'
  <2>1. posts' \in [Deliveries -> Nat] /\ accepted' \in [Deliveries -> Nat]
    BY <1>2 DEF IInv, TypeOK
  <2>2. attempts' \in [Deliveries -> Nat]
    BY <1>1, <1>2 DEF IInv, TypeOK
  <2>3. status' \in [Deliveries -> Statuses] /\ next' \in [Deliveries -> Times]
    BY <1>1, <1>2 DEF IInv, TypeOK
  <2>4. /\ sdel' \in [Senders -> Deliveries \cup {NoDelivery}]
        /\ sst' \in [Senders -> Statuses]
        /\ satt' \in [Senders -> Nat]
        /\ snext' \in [Senders -> Times]
    BY <1>2 DEF SenderEnds, SenderHolds, IInv, TypeOK, Statuses, Times
  <2> QED
    BY <1>2, <2>1, <2>2, <2>3, <2>4 DEF IInv, TypeOK
<1>4. \A e \in Deliveries : posts'[e] >= posts[e] /\ accepted'[e] >= accepted[e]
  BY <1>2 DEF IInv, TypeOK
<1>5. posts'[d] = posts[d] + 1
  BY <1>2 DEF IInv, TypeOK
<1>6. AttemptsWereMade'
  <2>1. \A e \in Deliveries : attempts'[e] <= posts'[e]
    BY <1>1, <1>2, <1>4, <1>5 DEF IInv, TypeOK, AttemptsWereMade
  <2>2. \A t \in Senders : sdel'[t] # NoDelivery =>
          t # s /\ sdel'[t] = sdel[t] /\ satt'[t] = satt[t]
    BY <1>2 DEF SenderEnds, SenderHolds, IInv, TypeOK
  <2>3. \A t \in Senders : sdel'[t] # NoDelivery => satt'[t] <= posts'[sdel'[t]]
    BY <2>2, <1>3, <1>4 DEF IInv, TypeOK, AttemptsWereMade
  <2> QED
    BY <2>1, <2>3 DEF AttemptsWereMade
<1>7. NeverGivenUpEarly'
  <2>1. \A e \in Deliveries : e # d => status'[e] = status[e]
    BY <1>2 DEF IInv, TypeOK
  <2>2. \A e \in Deliveries : e # d /\ status'[e] = "failed" => posts'[e] >= MaxAttempts
    BY <2>1, <1>3, <1>4 DEF IInv, TypeOK, NeverGivenUpEarly
  <2>3. status'[d] = "failed" => status[d] = "failed" \/ st = "failed"
    BY <1>2 DEF IInv, TypeOK
  <2>4. st = "failed" => att >= MaxAttempts
    BY DEF Outcome
  <2>5. status'[d] = "failed" => posts'[d] >= MaxAttempts
    BY <2>3, <2>4, <1>1, <1>5 DEF IInv, TypeOK, NeverGivenUpEarly
  <2> QED
    BY <2>2, <2>5 DEF NeverGivenUpEarly
<1>8. DeliveredWasAccepted'
  <2>1. \A e \in Deliveries : e # d => status'[e] = status[e]
    BY <1>2 DEF IInv, TypeOK
  <2>2. status'[d] = "delivered" => status[d] = "delivered" \/ ok
    BY <1>2 DEF IInv, TypeOK, Outcome
  <2>3. ok => accepted'[d] > 0
    BY <1>2 DEF IInv, TypeOK
  <2> QED
    BY <2>1, <2>2, <2>3, <1>3, <1>4 DEF IInv, TypeOK, DeliveredWasAccepted
<1> QED
  BY <1>3, <1>6, <1>7, <1>8 DEF IInv

LEMMA DeathInvariant ==
  ASSUME IInv, NEW s \in Senders, SenderDies(s)
  PROVE  IInv'
<1>1. /\ UNCHANGED <<rowVars, jobs, races>> /\ deaths' \in Nat /\ SenderEnds(s)
      /\ sdel[s] \in Deliveries
  BY DEF SenderDies, IInv, TypeOK
<1>2. /\ posts' \in [Deliveries -> Nat] /\ accepted' \in [Deliveries -> Nat]
      /\ \A e \in Deliveries : posts'[e] >= posts[e] /\ accepted'[e] >= accepted[e]
  BY <1>1 DEF SenderDies, IInv, TypeOK
<1>3. TypeOK'
  BY <1>1, <1>2 DEF SenderEnds, SenderHolds, IInv, TypeOK, Statuses, Times
<1>4. \A t \in Senders : sdel'[t] # NoDelivery =>
        t # s /\ sdel'[t] = sdel[t] /\ satt'[t] = satt[t]
  BY <1>1 DEF SenderEnds, SenderHolds, IInv, TypeOK
<1>5. AttemptsWereMade'
  BY <1>1, <1>2, <1>3, <1>4 DEF IInv, TypeOK, AttemptsWereMade
<1>6. NeverGivenUpEarly' /\ DeliveredWasAccepted'
  BY <1>1, <1>2 DEF IInv, TypeOK, NeverGivenUpEarly, DeliveredWasAccepted
<1> QED
  BY <1>3, <1>5, <1>6 DEF IInv

LEMMA NextInvariant == IInv /\ [Next]_vars => IInv'
<1> SUFFICES ASSUME IInv, [Next]_vars
             PROVE  IInv'
  OBVIOUS
<1>1. CASE Next
  BY <1>1, DeliveryInvariant, KickAllInvariant, LoadInvariant, DeliverInvariant, DeathInvariant
     DEF Next, SenderStep
<1>2. CASE UNCHANGED vars
  BY <1>2 DEF vars, IInv, TypeOK, AttemptsWereMade, NeverGivenUpEarly, DeliveredWasAccepted
<1> QED
  BY <1>1, <1>2

LEMMA Invariance == Spec => []IInv
<1>1. Init => IInv
  BY InitInvariant
<1>2. IInv /\ [Next]_vars => IInv'
  BY NextInvariant
<1> QED
  BY <1>1, <1>2, PTL DEF Spec

\* Rows, jobs and what they have loaded keep their shape: no job is taken from an
\* empty queue, and a busy one has a delivery.
THEOREM TypeCorrect == Spec => []TypeOK
<1>1. IInv => TypeOK
  BY DEF IInv
<1> QED
  BY <1>1, Invariance, PTL

\* No overlap of jobs makes the service give up a delivery before the endpoint
\* was tried MaxAttempts times.
THEOREM GivenUpLate == Spec => []NeverGivenUpEarly
<1>1. IInv => NeverGivenUpEarly
  BY DEF IInv
<1> QED
  BY <1>1, Invariance, PTL

\* A delivery recorded as delivered was accepted by its endpoint.
THEOREM DeliveredTrue == Spec => []DeliveredWasAccepted
<1>1. IInv => DeliveredWasAccepted
  BY DEF IInv
<1> QED
  BY <1>1, Invariance, PTL

-----------------------------------------------------------------------------
(***************************************************************************)
(* What overlapping sends cost.  A send that starts while others hold the  *)
(* row adds one to races, and one request is lost at most when it writes.  *)
(* What a job in flight may still do is charged in advance: the bounds     *)
(* count the holders of the row, so that a POST, which adds one request    *)
(* and takes one holder away, leaves them alone.                           *)
(***************************************************************************)

Holders(d) == {s \in Senders : sdel[s] = d}

\* How much has gone wrong that may have hidden, or repeated, a request.
Slack(d) == races[d] + deaths

Bounded(d) ==
  LET h == Cardinality(Holders(d)) IN
  /\ IsFiniteSet(Holders(d))
  /\ posts[d] <= attempts[d] + Slack(d)
  /\ posts[d] + h <= attempts[d] + 1 + Slack(d)
  /\ \A s \in Holders(d) : posts[d] + h <= satt[s] + 1 + Slack(d) /\ sst[s] # "delivered"
  /\ accepted[d] + h <= 1 + Slack(d)
  /\ status[d] = "delivered" \/ h > 0 \/ accepted[d] <= Slack(d)

\* A row that was never raced on: its holder, if any, has what is stored.
Unraced(d) ==
  races[d] = 0 =>
    /\ \A s, t \in Holders(d) : s = t
    /\ \A s \in Holders(d) : sst[s] = status[d] /\ status[d] \in {"pending", "failed"}
    /\ status[d] = "pending" => next[d] # "null"

JobsHaveRows == \A d \in Deliveries : jobs[d] > 0 => status[d] # "none"

RowInv(d) == Bounded(d) /\ Unraced(d)

CostInv == JobsHaveRows /\ \A d \in Deliveries : RowInv(d)

\* What a step does to a delivered row that was never raced on: nothing.
KeepsDelivered ==
  \A d \in Deliveries : status[d] = "delivered" /\ races[d] = 0 =>
    status'[d] = "delivered" /\ posts'[d] = posts[d]

\* A step that is not about a row leaves what is known of the row.
LEMMA OtherRow ==
  ASSUME IInv, NEW d \in Deliveries, RowInv(d), deaths' \in Nat, deaths' >= deaths,
         posts'[d] = posts[d], attempts'[d] = attempts[d], accepted'[d] = accepted[d],
         races'[d] = races[d], status'[d] = status[d],
         next'[d] = next[d] \/ next'[d] # "null",
         Holders(d)' = Holders(d),
         \A s \in Holders(d) : satt'[s] = satt[s] /\ sst'[s] = sst[s]
  PROVE  RowInv(d)'
<1> DEFINE h == Cardinality(Holders(d))
<1>1. h \in Nat /\ h' = h
  BY FS_CardinalityType DEF RowInv, Bounded
<1>2. /\ posts[d] \in Nat /\ attempts[d] \in Nat /\ accepted[d] \in Nat /\ races[d] \in Nat
      /\ deaths \in Nat /\ \A s \in Holders(d) : satt[s] \in Nat
  BY DEF IInv, TypeOK, Holders
<1>3. Slack(d) \in Nat /\ Slack(d)' \in Nat /\ Slack(d)' >= Slack(d)
  BY <1>2 DEF Slack
<1>4. Bounded(d)'
  <2> HIDE DEF h
  <2>1. /\ posts[d] + h <= attempts[d] + 1 + Slack(d)
        /\ \A s \in Holders(d) : posts[d] + h <= satt[s] + 1 + Slack(d) /\ sst[s] # "delivered"
        /\ accepted[d] + h <= 1 + Slack(d)
        /\ status[d] = "delivered" \/ h > 0 \/ accepted[d] <= Slack(d)
        /\ IsFiniteSet(Holders(d)) /\ posts[d] <= attempts[d] + Slack(d)
    BY DEF RowInv, Bounded, h
  <2>2. /\ posts'[d] + h' <= attempts'[d] + 1 + Slack(d)'
        /\ \A s \in Holders(d)' : /\ posts'[d] + h' <= satt'[s] + 1 + Slack(d)'
                                  /\ sst'[s] # "delivered"
        /\ accepted'[d] + h' <= 1 + Slack(d)'
        /\ status'[d] = "delivered" \/ h' > 0 \/ accepted'[d] <= Slack(d)'
        /\ IsFiniteSet(Holders(d)') /\ posts'[d] <= attempts'[d] + Slack(d)'
    BY <1>1, <1>2, <1>3, <2>1
  <2> QED
    BY <2>2 DEF Bounded, h
<1>5. Unraced(d)'
  BY DEF RowInv, Unraced
<1> QED
  BY <1>4, <1>5 DEF RowInv

\* A row is written, falls due or is queued.
LEMMA DeliveryCost ==
  ASSUME IInv, CostInv, NEW d \in Deliveries, EnqueueWebhook(d) \/ ComeDue(d) \/ Kick(d)
  PROVE  CostInv' /\ KeepsDelivered
<1>0. UNCHANGED <<attempts, sendVars, postVars, races, deaths>>
  BY DEF EnqueueWebhook, ComeDue, Kick
<1>1. \A e \in Deliveries :
        /\ status'[e] = status[e] \/ (status[e] = "none" /\ status'[e] = "pending")
        /\ status'[e] # status[e] => next'[e] # "null"
        /\ next'[e] = next[e] \/ next'[e] # "null"
  BY DEF EnqueueWebhook, ComeDue, Kick, IInv, TypeOK
<1>2. JobsHaveRows'
  <2>1. \A e \in Deliveries : jobs'[e] > 0 => jobs[e] > 0 \/ status[e] = "pending"
    BY DEF EnqueueWebhook, ComeDue, Kick, IsPending, IInv, TypeOK
  <2> QED
    BY <1>1, <2>1 DEF CostInv, JobsHaveRows
<1>3. ASSUME NEW e \in Deliveries
      PROVE  RowInv(e)'
  <2>1. Holders(e)' = Holders(e) /\ RowInv(e) /\ deaths \in Nat
    BY <1>0 DEF Holders, CostInv, IInv, TypeOK
  <2>2. CASE status'[e] = status[e]
    BY <1>0, <1>1, <2>1, <2>2, OtherRow
  <2>3. CASE status'[e] # status[e]
    <3>1. status[e] = "none" /\ status'[e] = "pending" /\ next'[e] # "null"
      BY <1>1, <2>3
    <3>2. Bounded(e)'
      BY <1>0, <2>1, <3>1 DEF RowInv, Bounded, Slack
    <3>3. Unraced(e)'
      BY <1>0, <2>1, <3>1 DEF RowInv, Unraced
    <3> QED
      BY <3>2, <3>3 DEF RowInv
  <2> QED
    BY <2>2, <2>3
<1> QED
  BY <1>0, <1>1, <1>2, <1>3 DEF CostInv, KeepsDelivered

LEMMA QuietCost ==
  ASSUME IInv, CostInv, KickAll \/ UNCHANGED vars
  PROVE  CostInv' /\ KeepsDelivered
<1>1. UNCHANGED <<rowVars, sendVars, postVars, races, deaths>>
  BY DEF KickAll, vars
<1>2. \A d \in Deliveries : jobs'[d] > 0 => jobs[d] > 0 \/ status[d] = "pending"
  BY DEF KickAll, IsPending, vars, IInv, TypeOK
<1>3. ASSUME NEW d \in Deliveries
      PROVE  RowInv(d)'
  BY <1>1, OtherRow DEF CostInv, Holders, IInv, TypeOK
<1> QED
  BY <1>1, <1>2, <1>3 DEF CostInv, JobsHaveRows, KeepsDelivered

\* A send that starts alone has what is stored; one that does not is counted.
LEMMA LoadCost ==
  ASSUME IInv, CostInv, NEW s \in Senders, NEW d \in Deliveries, Load(s, d)
  PROVE  CostInv' /\ KeepsDelivered
<1>1. UNCHANGED <<rowVars, postVars, deaths>> /\ jobs[d] > 0 /\ sdel[s] = NoDelivery
  BY DEF Load
<1>2. JobsHaveRows'
  BY <1>1 DEF Load, CostInv, JobsHaveRows, IInv, TypeOK
<1>3. CASE status[d] = "delivered"
  <2>1. UNCHANGED <<sendVars, races>>
    BY <1>3 DEF Load
  <2>2. \A e \in Deliveries : RowInv(e)'
    BY <1>1, <2>1, OtherRow DEF CostInv, Holders, IInv, TypeOK
  <2> QED
    BY <1>1, <1>2, <2>2 DEF CostInv, KeepsDelivered
<1>4. CASE status[d] # "delivered"
  <2>1. /\ SenderHolds(s, d, status[d], attempts[d], next[d])
        /\ CountsRace(d)
    BY <1>4 DEF Load
  <2>2. /\ Holders(d)' = Holders(d) \cup {s} /\ s \notin Holders(d)
        /\ \A e \in Deliveries : e # d => Holders(e)' = Holders(e)
        /\ \A t \in Senders : t # s => satt'[t] = satt[t] /\ sst'[t] = sst[t]
        /\ satt'[s] = attempts[d] /\ sst'[s] = status[d]
    BY <1>1, <2>1 DEF SenderHolds, Holders, IInv, TypeOK
  <2>3. /\ races' \in [Deliveries -> Nat]
        /\ races'[d] = IF Holders(d) = {} THEN races[d] ELSE races[d] + 1
        /\ \A e \in Deliveries : e # d => races'[e] = races[e]
    BY <2>1 DEF CountsRace, Holders, IInv, TypeOK
  <2>4. ASSUME NEW e \in Deliveries, e # d
        PROVE  RowInv(e)'
    <3>1. \A t \in Holders(e) : t # s
      BY <1>1 DEF Holders
    <3> QED
      BY <1>1, <2>2, <2>3, <2>4, <3>1, OtherRow DEF CostInv, Holders, IInv, TypeOK
  <2>5. Bounded(d)'
    <3> DEFINE h == Cardinality(Holders(d))
    <3>1. IsFiniteSet(Holders(d))
      BY DEF CostInv, RowInv, Bounded
    <3>2. h \in Nat /\ (h = 0 <=> Holders(d) = {})
      BY <3>1, FS_CardinalityType, FS_EmptySet
    <3>3. IsFiniteSet(Holders(d)') /\ h' = h + 1
      BY <2>2, <3>1, FS_AddElement
    <3>4. /\ posts[d] \in Nat /\ attempts[d] \in Nat /\ accepted[d] \in Nat
          /\ races[d] \in Nat /\ races'[d] \in Nat /\ deaths \in Nat
          /\ \A t \in Holders(d) : satt[t] \in Nat
      BY <2>3 DEF IInv, TypeOK, Holders
    <3>5. /\ posts[d] <= attempts[d] + Slack(d)
          /\ posts[d] + h <= attempts[d] + 1 + Slack(d)
          /\ \A t \in Holders(d) : posts[d] + h <= satt[t] + 1 + Slack(d)
          /\ \A t \in Holders(d) : sst[t] # "delivered"
          /\ accepted[d] + h <= 1 + Slack(d)
          /\ h > 0 \/ accepted[d] <= Slack(d)
      BY <1>4 DEF CostInv, RowInv, Bounded
    <3> HIDE DEF h
    <3>6. /\ Slack(d) \in Nat /\ Slack(d)' \in Nat
          /\ Slack(d)' = IF h = 0 THEN Slack(d) ELSE Slack(d) + 1
      BY <1>1, <2>3, <3>2, <3>4 DEF Slack
    <3>7. /\ posts[d] + h' <= attempts[d] + 1 + Slack(d)'
          /\ posts[d] <= attempts[d] + Slack(d)'
          /\ accepted[d] + h' <= 1 + Slack(d)'
          /\ h' > 0
      BY <3>2, <3>3, <3>4, <3>5, <3>6
    <3>8. ASSUME NEW t \in Holders(d)
          PROVE  posts[d] + h' <= satt[t] + 1 + Slack(d)'
      <4>1. h > 0
        BY <3>2
      <4> QED
        BY <3>2, <3>3, <3>4, <3>5, <3>6, <4>1
    <3>9. \A t \in Holders(d)' :
            posts[d] + h' <= satt'[t] + 1 + Slack(d)' /\ sst'[t] # "delivered"
      BY <1>4, <2>2, <3>5, <3>7, <3>8 DEF Holders
    <3> QED
      BY <1>1, <3>3, <3>7, <3>9 DEF Bounded, h
  <2>6. Unraced(d)'
    <3> SUFFICES ASSUME races'[d] = 0
                 PROVE  /\ \A t, u \in Holders(d)' : t = u
                        /\ \A t \in Holders(d)' : /\ sst'[t] = status'[d]
                                                  /\ status'[d] \in {"pending", "failed"}
                        /\ status'[d] = "pending" => next'[d] # "null"
      BY DEF Unraced
    <3>1. Holders(d) = {} /\ races[d] = 0
      BY <2>3 DEF IInv, TypeOK
    <3>2. status[d] \in {"pending", "failed"}
      BY <1>1, <1>4 DEF CostInv, JobsHaveRows, IInv, TypeOK, Statuses
    <3> QED
      BY <1>1, <2>2, <3>1, <3>2 DEF CostInv, RowInv, Unraced
  <2> QED
    BY <1>1, <1>2, <2>4, <2>5, <2>6 DEF CostInv, RowInv, KeepsDelivered
<1> QED
  BY <1>3, <1>4

\* A sender lets go of its row: one holder less.
LEMMA LetsGo ==
  ASSUME IInv, CostInv, NEW s \in Senders, NEW d \in Deliveries, sdel[s] = d, SenderEnds(s)
  PROVE  /\ s \in Holders(d) /\ Holders(d)' = Holders(d) \ {s}
         /\ IsFiniteSet(Holders(d)')
         /\ Cardinality(Holders(d)) \in Nat /\ Cardinality(Holders(d)) > 0
         /\ Cardinality(Holders(d)') = Cardinality(Holders(d)) - 1
         /\ \A e \in Deliveries : e # d => Holders(e)' = Holders(e)
         /\ \A t \in Senders : t # s => satt'[t] = satt[t] /\ sst'[t] = sst[t]
<1>1. /\ s \in Holders(d) /\ Holders(d)' = Holders(d) \ {s}
      /\ \A e \in Deliveries : e # d => Holders(e)' = Holders(e)
      /\ \A t \in Senders : t # s => satt'[t] = satt[t] /\ sst'[t] = sst[t]
  BY DEF SenderEnds, SenderHolds, Holders, IInv, TypeOK
<1>2. IsFiniteSet(Holders(d))
  BY DEF CostInv, RowInv, Bounded
<1>3. /\ Cardinality(Holders(d)) \in Nat
      /\ Cardinality(Holders(d)) = 0 <=> Holders(d) = {}
  BY <1>2, FS_CardinalityType, FS_EmptySet
<1>4. /\ IsFiniteSet(Holders(d) \ {s})
      /\ Cardinality(Holders(d) \ {s}) = Cardinality(Holders(d)) - 1
  BY <1>1, <1>2, FS_RemoveElement
<1> QED
  BY <1>1, <1>3, <1>4

LEMMA DeliverCost ==
  ASSUME IInv, CostInv, NEW s \in Senders, NEW ok \in BOOLEAN, Deliver(s, ok)
  PROVE  CostInv' /\ KeepsDelivered
<1>0. PICK d \in Deliveries : d = sdel[s]
  BY DEF Deliver, IInv, TypeOK
<1> DEFINE h  == Cardinality(Holders(d))
           st == Outcome(ok, satt[s] + 1)
<1>1. /\ posts' = [posts EXCEPT ![d] = posts[d] + 1]
      /\ accepted' = [accepted EXCEPT ![d] = IF ok THEN accepted[d] + 1 ELSE accepted[d]]
      /\ attempts' = [attempts EXCEPT ![d] = satt[s] + 1]
      /\ Written(status, d, sst[s], st)
      /\ IF st = "pending" THEN next' = [next EXCEPT ![d] = "later"]
         ELSE Written(next, d, snext[s], "null")
      /\ SenderEnds(s)
      /\ UNCHANGED <<jobs, races, deaths>>
  BY <1>0 DEF Deliver
<1>2. /\ st \in {"pending", "delivered", "failed"}
      /\ ok <=> st = "delivered"
  BY DEF Outcome
<1> HIDE DEF st
<1>3. /\ s \in Holders(d) /\ Holders(d)' = Holders(d) \ {s}
      /\ IsFiniteSet(Holders(d)')
      /\ h \in Nat /\ h > 0 /\ h' = h - 1
      /\ \A e \in Deliveries : e # d => Holders(e)' = Holders(e)
      /\ \A t \in Senders : t # s => satt'[t] = satt[t] /\ sst'[t] = sst[t]
  BY <1>0, <1>1, LetsGo
<1> HIDE DEF h
<1>4. /\ status'[d] = status[d] \/ status'[d] = st
      /\ sst[s] # st => status'[d] = st
      /\ st = "pending" => next'[d] = "later"
      /\ posts'[d] = posts[d] + 1 /\ attempts'[d] = satt[s] + 1
      /\ accepted'[d] = IF ok THEN accepted[d] + 1 ELSE accepted[d]
      /\ \A e \in Deliveries : e # d =>
           /\ status'[e] = status[e] /\ next'[e] = next[e] /\ posts'[e] = posts[e]
           /\ attempts'[e] = attempts[e] /\ accepted'[e] = accepted[e]
  BY <1>1 DEF Written, IInv, TypeOK
<1>5. JobsHaveRows'
  BY <1>1, <1>2, <1>4 DEF CostInv, JobsHaveRows
<1>6. ASSUME NEW e \in Deliveries, e # d
      PROVE  RowInv(e)'
  <2>1. s \notin Holders(e)
    BY <1>0, <1>6 DEF Holders
  <2> QED
    BY <1>1, <1>3, <1>4, <1>6, <2>1, OtherRow DEF CostInv, Holders, IInv, TypeOK
<1>7. Bounded(d)'
  <2>1. /\ posts[d] \in Nat /\ accepted[d] \in Nat /\ races[d] \in Nat /\ deaths \in Nat
        /\ \A t \in Holders(d) : satt[t] \in Nat
    BY DEF IInv, TypeOK, Holders
  <2>2. /\ \A t \in Holders(d) : posts[d] + h <= satt[t] + 1 + Slack(d) /\ sst[t] # "delivered"
        /\ accepted[d] + h <= 1 + Slack(d)
    BY DEF CostInv, RowInv, Bounded, h
  <2>3. Slack(d)' = Slack(d) /\ Slack(d) \in Nat
    BY <1>1, <2>1 DEF Slack
  <2>4. /\ posts'[d] <= attempts'[d] + Slack(d)'
        /\ posts'[d] + h' <= attempts'[d] + 1 + Slack(d)'
    BY <1>3, <1>4, <2>1, <2>2, <2>3
  <2>5. \A t \in Holders(d)' : posts'[d] + h' <= satt'[t] + 1 + Slack(d)' /\ sst'[t] # "delivered"
    <3>1. \A t \in Holders(d)' : t \in Holders(d) /\ satt'[t] = satt[t] /\ sst'[t] = sst[t]
      BY <1>3 DEF Holders
    <3> QED
      BY <1>3, <1>4, <2>1, <2>2, <2>3, <3>1
  <2>6. accepted'[d] + h' <= 1 + Slack(d)'
    BY <1>3, <1>4, <2>1, <2>2, <2>3
  <2>7. status'[d] = "delivered" \/ h' > 0 \/ accepted'[d] <= Slack(d)'
    <3>1. CASE ok
      BY <1>2, <1>3, <1>4, <2>2, <3>1
    <3>2. CASE ~ok
      BY <1>3, <1>4, <2>1, <2>2, <2>3, <3>2
    <3> QED
      BY <3>1, <3>2
  <2> QED
    BY <1>3, <2>4, <2>5, <2>6, <2>7 DEF Bounded, h
<1>8. races[d] = 0 => /\ status[d] = sst[s] /\ status[d] \in {"pending", "failed"}
                      /\ Holders(d)' = {} /\ status'[d] = st
  BY <1>2, <1>3, <1>4 DEF CostInv, RowInv, Unraced
<1>9. Unraced(d)'
  BY <1>1, <1>4, <1>8 DEF Unraced
<1>10. KeepsDelivered
  BY <1>4, <1>8 DEF KeepsDelivered
<1> QED
  BY <1>5, <1>6, <1>7, <1>9, <1>10 DEF CostInv, RowInv

LEMMA DeathCost ==
  ASSUME IInv, CostInv, NEW s \in Senders, SenderDies(s)
  PROVE  CostInv' /\ KeepsDelivered
<1>0. PICK d \in Deliveries : d = sdel[s]
  BY DEF SenderDies, IInv, TypeOK
<1> DEFINE h == Cardinality(Holders(d))
<1>1. /\ UNCHANGED <<rowVars, jobs, races>> /\ deaths' = deaths + 1 /\ SenderEnds(s)
      /\ posts'[d] \in Nat /\ accepted'[d] \in Nat
      /\ posts'[d] <= posts[d] + 1 /\ accepted'[d] <= accepted[d] + 1
      /\ \A e \in Deliveries : e # d => posts'[e] = posts[e] /\ accepted'[e] = accepted[e]
  BY <1>0 DEF SenderDies, IInv, TypeOK
<1>2. /\ s \in Holders(d) /\ Holders(d)' = Holders(d) \ {s}
      /\ IsFiniteSet(Holders(d)')
      /\ h \in Nat /\ h > 0 /\ h' = h - 1
      /\ \A e \in Deliveries : e # d => Holders(e)' = Holders(e)
      /\ \A t \in Senders : t # s => satt'[t] = satt[t] /\ sst'[t] = sst[t]
  BY <1>0, <1>1, LetsGo
<1> HIDE DEF h
<1>3. JobsHaveRows'
  BY <1>1 DEF CostInv, JobsHaveRows
<1>4. ASSUME NEW e \in Deliveries, e # d
      PROVE  RowInv(e)'
  <2>1. s \notin Holders(e)
    BY <1>0, <1>4 DEF Holders
  <2> QED
    BY <1>1, <1>2, <1>4, <2>1, OtherRow DEF CostInv, Holders, IInv, TypeOK
<1>5. Bounded(d)'
  <2>1. /\ posts[d] \in Nat /\ accepted[d] \in Nat /\ races[d] \in Nat /\ deaths \in Nat
        /\ attempts[d] \in Nat /\ \A t \in Holders(d) : satt[t] \in Nat
    BY DEF IInv, TypeOK, Holders
  <2>2. /\ posts[d] <= attempts[d] + Slack(d)
        /\ posts[d] + h <= attempts[d] + 1 + Slack(d)
        /\ \A t \in Holders(d) : posts[d] + h <= satt[t] + 1 + Slack(d) /\ sst[t] # "delivered"
        /\ accepted[d] + h <= 1 + Slack(d)
    BY DEF CostInv, RowInv, Bounded, h
  <2>3. Slack(d)' = Slack(d) + 1 /\ Slack(d) \in Nat
    BY <1>1, <2>1 DEF Slack
  <2>4. /\ posts'[d] <= attempts[d] + Slack(d)'
        /\ posts'[d] + h' <= attempts[d] + 1 + Slack(d)'
        /\ accepted'[d] + h' <= 1 + Slack(d)'
        /\ accepted'[d] <= Slack(d)'
    BY <1>1, <1>2, <2>1, <2>2, <2>3
  <2>5. \A t \in Holders(d)' : posts'[d] + h' <= satt'[t] + 1 + Slack(d)' /\ sst'[t] # "delivered"
    <3>1. \A t \in Holders(d)' : t \in Holders(d) /\ satt'[t] = satt[t] /\ sst'[t] = sst[t]
      BY <1>2 DEF Holders
    <3> QED
      BY <1>1, <1>2, <2>1, <2>2, <2>3, <3>1
  <2> QED
    BY <1>1, <1>2, <2>4, <2>5 DEF Bounded, h
<1>6. races[d] = 0 => Holders(d)' = {} /\ status[d] # "delivered"
  BY <1>2 DEF CostInv, RowInv, Unraced
<1>7. Unraced(d)'
  BY <1>1, <1>6 DEF CostInv, RowInv, Unraced
<1>8. KeepsDelivered
  BY <1>1, <1>6 DEF KeepsDelivered
<1> QED
  BY <1>3, <1>4, <1>5, <1>7, <1>8 DEF CostInv, RowInv

LEMMA NextCost == IInv /\ CostInv /\ [Next]_vars => CostInv' /\ KeepsDelivered
<1> SUFFICES ASSUME IInv, CostInv, [Next]_vars
             PROVE  CostInv' /\ KeepsDelivered
  OBVIOUS
<1> QED
  BY DeliveryCost, QuietCost, LoadCost, DeliverCost, DeathCost DEF Next, SenderStep

LEMMA CostInvariance == Spec => [](IInv /\ CostInv)
<1>1. Init => CostInv
  <2> SUFFICES ASSUME Init
               PROVE  CostInv
    OBVIOUS
  <2>1. \A d \in Deliveries : Holders(d) = {}
    BY DEF Init, Holders
  <2> QED
    BY <2>1, FS_EmptySet DEF Init, CostInv, JobsHaveRows, RowInv, Bounded, Unraced, Slack
<1>2. IInv /\ CostInv /\ [Next]_vars => CostInv'
  BY NextCost
<1> QED
  BY <1>1, <1>2, Invariance, PTL DEF Spec

\* However many jobs send at once and whichever of them die, an overlap or a death
\* hides at most one request from the count on record, and nothing else hides any.
THEOREM AllAreCounted == Spec => []AttemptsAreCounted
<1>1. IInv /\ CostInv => AttemptsAreCounted
  <2> SUFFICES ASSUME IInv, CostInv, NEW d \in Deliveries
               PROVE  posts[d] <= attempts[d] + races[d] + deaths
    BY DEF AttemptsAreCounted
  <2>1. posts[d] <= attempts[d] + Slack(d)
    BY DEF CostInv, RowInv, Bounded
  <2>2. posts[d] \in Nat /\ attempts[d] \in Nat /\ races[d] \in Nat /\ deaths \in Nat
    BY DEF IInv, TypeOK
  <2> QED
    BY <2>1, <2>2 DEF Slack
<1> QED
  BY <1>1, CostInvariance, PTL

\* However many jobs send at once, a notice is accepted once, and once more at most
\* for each overlap and each death.
THEOREM DuplicatesAreRaces == Spec => []AcceptedOnce
<1>1. IInv /\ CostInv => AcceptedOnce
  <2> SUFFICES ASSUME IInv, CostInv, NEW d \in Deliveries
               PROVE  accepted[d] <= 1 + races[d] + deaths
    BY DEF AcceptedOnce
  <2>1. Cardinality(Holders(d)) \in Nat /\ accepted[d] + Cardinality(Holders(d)) <= 1 + Slack(d)
    BY FS_CardinalityType DEF CostInv, RowInv, Bounded
  <2>2. accepted[d] \in Nat /\ races[d] \in Nat /\ deaths \in Nat
    BY DEF IInv, TypeOK
  <2> QED
    BY <2>1, <2>2 DEF Slack
<1> QED
  BY <1>1, CostInvariance, PTL

\* The cron loses sight of a pending delivery only after two sends of it overlapped,
\* whichever jobs die and however many send other deliveries.
THEOREM StrandedByRaces == Spec => []StrandedOnlyByRaces
<1>1. IInv /\ CostInv => StrandedOnlyByRaces
  BY DEF IInv, TypeOK, CostInv, RowInv, Unraced, StrandedOnlyByRaces
<1> QED
  BY <1>1, CostInvariance, PTL

\* A delivered row on which no two sends overlapped is neither posted again nor
\* taken back, however many jobs are queued for it and whatever others send.
THEOREM DeliveredStays == Spec => DeliveredIsFinal
<1>1. IInv /\ CostInv /\ [Next]_vars => [KeepsDelivered]_vars
  BY NextCost
<1> QED
  BY <1>1, CostInvariance, PTL DEF Spec, DeliveredIsFinal, KeepsDelivered
=============================================================================
