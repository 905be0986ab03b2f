------------------------- MODULE OrderHistoryProofs -------------------------
(***************************************************************************)
(* More proofs about OrderLifecycle: that no order is left without a job,  *)
(* that the records of a finished order tell its status, and how often an  *)
(* order is tried.                                                         *)
(***************************************************************************)
EXTENDS OrderLifecycleProofs, FiniteSetTheorems

USE DEF rowVars, logVars, payVars, workerVars, requestVars, sweepVars

-----------------------------------------------------------------------------
(***************************************************************************)
(* Jobs.  Nothing that an order waits for may be lost.                     *)
(***************************************************************************)

\* Somebody holds what the order waits for.
Attends(o) ==
  \/ queue[o] > 0
  \/ \E r \in Requests : rpc[r] = "enqueue" /\ rord[r] = o
  \/ \E w \in Workers : wpc[w] = "after" /\ wst[w] = "pending" /\ word[w] = o

LEMMA RequestNoOrphan ==
  ASSUME IInv, TypeOK', NoOrphan, NEW r \in Requests, ClientStep(r) \/ RequestStep(r)
  PROVE  NoOrphan'
<1>n. NoOrphan <=> \A o \in Orders : status[o] \in Claimable => Attends(o)
  BY DEF NoOrphan, Attends
<1>n2. NoOrphan' <=> \A o \in Orders : status'[o] \in Claimable => Attends(o)'
  BY DEF NoOrphan, Attends
<1>q. queue \in [Orders -> Nat] /\ queue' \in [Orders -> Nat]
  BY DEF IInv, TypeOK
<1>w. UNCHANGED <<wpc, wst, word>>
  BY DEF ClientStep, CreateOrder, CheckCancel, CheckRetry, RequestStep, EnqueueOrder,
         MarkQueued, CancelOrder, ClaimRetry
<1>r. \A q \in Requests : q # r => rpc'[q] = rpc[q] /\ rord'[q] = rord[q]
  BY DEF ClientStep, CreateOrder, CheckCancel, CheckRetry, RequestStep, EnqueueOrder,
         MarkQueued, CancelOrder, ClaimRetry, RequestEnds, RequestGoes, IInv, TypeOK
<1>1. ASSUME rpc[r] # "enqueue", UNCHANGED queue, NEW o \in Orders, Attends(o)
      PROVE  Attends(o)'
  BY <1>1, <1>w, <1>r DEF Attends
<1>2. ASSUME NEW o \in Orders, NEW st \in Statuses, SetStatus(o, st),
             st \in Claimable => status[o] \in Claimable \/ Attends(o)',
             rpc[r] # "enqueue", UNCHANGED queue
      PROVE  NoOrphan'
  <2>1. \A p \in Orders : p # o => status'[p] = status[p]
    BY <1>2 DEF SetStatus, IInv, TypeOK
  <2>2. status'[o] = st
    BY <1>2 DEF SetStatus, IInv, TypeOK
  <2> QED
    BY <1>n, <1>n2, <1>1, <1>2, <2>1, <2>2
<1>3. CASE rpc[r] # "enqueue" /\ UNCHANGED <<status, queue>>
  BY <1>n, <1>n2, <1>1, <1>3
<1>4. ASSUME NEW o \in Orders, RequestGoes(r, "enqueue", o)
      PROVE  Attends(o)'
  BY <1>4 DEF RequestGoes, Attends, IInv, TypeOK
<1>5. CASE EnqueueOrder(r)
  <2>1. /\ rord[r] \in Orders /\ UNCHANGED status
        /\ queue' = [queue EXCEPT ![rord[r]] = @ + 1]
    BY <1>5 DEF EnqueueOrder, Put, IInv, TypeOK
  <2>2. queue'[rord[r]] > 0 /\ \A o \in Orders : queue'[o] >= queue[o]
    BY <2>1 DEF IInv, TypeOK
  <2>3. \A o \in Orders : Attends(o) => Attends(o)'
    BY <1>q, <1>5, <1>w, <1>r, <2>2 DEF Attends, EnqueueOrder
  <2> QED
    BY <1>n, <1>n2, <2>1, <2>3
<1>6. CASE MarkQueued(r) \/ CancelOrder(r) \/ ClaimRetry(r)
  <2>1. rord[r] \in Orders /\ rpc[r] # "enqueue" /\ UNCHANGED queue
    BY <1>6 DEF MarkQueued, CancelOrder, ClaimRetry, IInv, TypeOK
  <2>2. \/ UNCHANGED status
        \/ SetStatus(rord[r], "queued") /\ status[rord[r]] \in Claimable
        \/ SetStatus(rord[r], "cancelled")
        \/ SetStatus(rord[r], "pending") /\ RequestGoes(r, "enqueue", rord[r])
    BY <1>6 DEF MarkQueued, CancelOrder, ClaimRetry, Claimable
  <2> QED
    BY <1>2, <1>3, <1>4, <2>1, <2>2 DEF Claimable, Statuses
<1>7. CASE ClientStep(r)
  <2>1. rpc[r] # "enqueue" /\ UNCHANGED queue
    BY <1>7 DEF ClientStep, CreateOrder, CheckCancel, CheckRetry
  <2>2. UNCHANGED status \/ \E o \in Orders : SetStatus(o, "pending") /\ RequestGoes(r, "enqueue", o)
    BY <1>7 DEF ClientStep, CreateOrder, CheckCancel, CheckRetry
  <2> QED
    BY <1>2, <1>3, <1>4, <2>1, <2>2 DEF Statuses
<1> QED
  BY <1>5, <1>6, <1>7 DEF RequestStep

LEMMA WorkerNoOrphan ==
  ASSUME IInv, TypeOK', NoOrphan, NEW w \in Workers, WorkerStep(w)
  PROVE  NoOrphan'
<1>n. NoOrphan <=> \A o \in Orders : status[o] \in Claimable => Attends(o)
  BY DEF NoOrphan, Attends
<1>n2. NoOrphan' <=> \A o \in Orders : status'[o] \in Claimable => Attends(o)'
  BY DEF NoOrphan, Attends
<1>q. queue \in [Orders -> Nat] /\ queue' \in [Orders -> Nat]
  BY DEF IInv, TypeOK
<1>r. UNCHANGED <<rpc, rord>>
  BY DEF WorkerStep, Answer, ClaimOrder, ClaimRefused, LoadOrder, CompleteOrder, RetryLater,
         FailForGood, ReadBack, FinishJob
<1>w. \A v \in Workers : v # w => wpc'[v] = wpc[v] /\ wst'[v] = wst[v] /\ word'[v] = word[v]
  BY DEF WorkerStep, Answer, ClaimOrder, ClaimRefused, LoadOrder, CompleteOrder, RetryLater,
         FailForGood, ReadBack, FinishJob, WorkerEnds, WorkerGoes, IInv, TypeOK
<1>1. ASSUME wpc[w] # "after", NEW p \in Orders, queue'[p] = queue[p], Attends(p)
      PROVE  Attends(p)'
  BY <1>1, <1>r, <1>w DEF Attends
<1>2. ASSUME NEW o \in Orders, ClaimOrder(w, o) \/ ClaimRefused(w, o)
      PROVE  NoOrphan'
  <2>1. /\ wpc[w] # "after" /\ status'[o] \notin Claimable
        /\ \A p \in Orders : p # o => status'[p] = status[p] /\ queue'[p] = queue[p]
    BY <1>2 DEF ClaimOrder, ClaimRefused, Take, SetStatus, Claimable, IInv, TypeOK
  <2> QED
    BY <1>n, <1>n2, <1>1, <2>1
<1>3. CASE LoadOrder(w) \/ ReadBack(w)
  <2>1. wpc[w] # "after" /\ UNCHANGED <<status, queue>>
    BY <1>3 DEF LoadOrder, ReadBack
  <2> QED
    BY <1>n, <1>n2, <1>1, <2>1
<1>4. ASSUME NEW reply \in Replies, Answer(w, reply)
      PROVE  NoOrphan'
  <2>0. PICK o \in Orders : o = word[w]
    BY <1>4 DEF Answer, CompleteOrder, RetryLater, FailForGood, IInv, TypeOK
  <2>1. wpc[w] # "after" /\ UNCHANGED queue /\ wst[w] \in {"processing", "cancelled"}
    BY <1>4 DEF Answer, CompleteOrder, RetryLater, FailForGood, IInv, Exclusion, LoadedIsProcessing
  <2>2. CASE CompleteOrder(w, reply) \/ FailForGood(w, reply)
    <3>1. Flush(w, "completed") \/ Flush(w, "failed")
      BY <2>2 DEF CompleteOrder, FailForGood
    <3>2. /\ status'[o] \notin Claimable
          /\ \A p \in Orders : p # o => status'[p] = status[p]
      BY <2>0, <2>1, <3>1 DEF Flush, SetStatus, Claimable, IInv, TypeOK
    <3> QED
      BY <1>n, <1>n2, <1>1, <2>1, <3>2
  <2>3. CASE RetryLater(w, reply)
    <3>1. Attends(o)'
      BY <2>0, <2>3 DEF RetryLater, WorkerGoes, Attends, IInv, TypeOK
    <3>2. \A p \in Orders : p # o => status'[p] = status[p]
      BY <2>0, <2>3 DEF RetryLater, Flush, SetStatus, IInv, TypeOK
    <3> QED
      BY <1>n, <1>n2, <1>1, <2>1, <3>1, <3>2
  <2> QED
    BY <1>4, <2>2, <2>3 DEF Answer
<1>5. CASE FinishJob(w)
  <2>1. word[w] \in Orders /\ UNCHANGED status
    BY <1>5 DEF FinishJob, IInv, TypeOK
  <2>2. /\ \A p \in Orders : queue'[p] >= queue[p]
        /\ wst[w] = "pending" => queue'[word[w]] > 0
    BY <1>5, <2>1 DEF FinishJob, Put, IInv, TypeOK
  <2>3. \A p \in Orders : Attends(p) => Attends(p)'
    BY <1>q, <1>r, <1>w, <2>1, <2>2 DEF Attends
  <2> QED
    BY <1>n, <1>n2, <2>1, <2>3
<1> QED
  BY <1>2, <1>3, <1>4, <1>5 DEF WorkerStep

\* If no job, queue entry or request is lost, an order in pending or queued has a
\* job, or somebody about to queue one, whatever else races; sweeps may overlap and
\* die.
THEOREM WaitingHasAJob ==
  ASSUME Interruptible \cap {"worker", "job", "api"} = {}
  PROVE  Spec => []NoOrphan
<1>1. Init => NoOrphan
  BY DEF Init, NoOrphan, Claimable
<1>2. IInv /\ IInv' /\ Calm /\ NoOrphan /\ [Next]_vars => NoOrphan'
  <2> SUFFICES ASSUME IInv, IInv', Calm, NoOrphan, [Next]_vars
               PROVE  NoOrphan'
    OBVIOUS
  <2>1. CASE UNCHANGED vars
    BY <2>1 DEF vars, NoOrphan
  <2>2. ~Break
    BY NothingToSweep DEF Break, WorkerDies, JobLost, RequestDies, Breaks
  <2> QED
    BY <2>1, <2>2, NothingToSweep, RequestNoOrphan, WorkerNoOrphan DEF Next, IInv
<1> QED
  <2>1. "worker" \notin Interruptible
    OBVIOUS
  <2> QED
    BY <1>1, <1>2, <2>1, CalmInvariance, PTL DEF Spec

-----------------------------------------------------------------------------
(***************************************************************************)
(* Records.  Whoever writes a terminal status writes its event in the same *)
(* transaction, and nobody but the order's owner writes another event over *)
(* it; whoever writes an outcome writes its webhook.                       *)
(***************************************************************************)

\* While a job works on an order the trail may end with the job's own event.
TrailTells == \A o \in Orders : status[o] \in IsTerminal /\ Unowned(o) => trail[o] = status[o]

OutcomeAnnounced ==
  \A o \in Orders : status[o] \in {"completed", "failed"} => announced[o] = status[o]

Records == TrailTells /\ OutcomeAnnounced

\* One order moves to a status that its records tell, or that needs none.
LEMMA RecordsKept ==
  ASSUME TypeOK, Records, NEW o \in Orders,
         \A p \in Orders : p # o =>
           /\ status'[p] = status[p] /\ trail'[p] = trail[p] /\ announced'[p] = announced[p]
           /\ Unowned(p)' => Unowned(p),
         status'[o] \in IsTerminal /\ Unowned(o)' => trail'[o] = status'[o],
         status'[o] \in {"completed", "failed"} => announced'[o] = status'[o]
  PROVE  Records'
<1>1. TrailTells'
  BY DEF Records, TrailTells
<1>2. OutcomeAnnounced'
  BY DEF Records, OutcomeAnnounced
<1> QED
  BY <1>1, <1>2 DEF Records

\* A step that changes neither rows nor records and lets no job go.
LEMMA RecordsUntouched ==
  ASSUME Records, UNCHANGED <<status, trail, announced>>,
         \A o \in Orders : Unowned(o)' => Unowned(o)
  PROVE  Records'
  BY DEF Records, TrailTells, OutcomeAnnounced

LEMMA RequestRecords ==
  ASSUME IInv, Records, NEW r \in Requests, ClientStep(r) \/ RequestStep(r)
  PROVE  Records'
<1>u. \A o : Unowned(o)' <=> Unowned(o)
  BY DEF ClientStep, CreateOrder, CheckCancel, CheckRetry, RequestStep, EnqueueOrder,
         MarkQueued, CancelOrder, ClaimRetry, Unowned, Live
<1>1. CASE UNCHANGED <<status, trail, announced>>
  BY <1>1, <1>u, RecordsUntouched
<1>2. ASSUME NEW o \in Orders, NEW st \in Statuses, SetStatus(o, st), UNCHANGED announced,
             \/ st = "pending" /\ UNCHANGED trail
             \/ st \in {"pending", "queued", "cancelled"} /\ Record(o, st)
      PROVE  Records'
  <2>1. /\ status'[o] = st
        /\ \A p \in Orders : p # o => status'[p] = status[p] /\ trail'[p] = trail[p]
        /\ st = "cancelled" => trail'[o] = st
    BY <1>2 DEF SetStatus, Record, IInv, TypeOK
  <2> QED
    BY <1>2, <1>u, <2>1, RecordsKept DEF IInv, IsTerminal
<1>3. CASE ClientStep(r)
  BY <1>1, <1>2, <1>3 DEF ClientStep, CreateOrder, CheckCancel, CheckRetry, Statuses
<1>4. CASE RequestStep(r)
  <2>1. rord[r] \in Orders
    BY <1>4 DEF RequestStep, EnqueueOrder, MarkQueued, CancelOrder, ClaimRetry, IInv, TypeOK
  <2>2. CASE EnqueueOrder(r)
    BY <1>1, <2>2 DEF EnqueueOrder
  <2>3. CASE MarkQueued(r)
    BY <1>1, <1>2, <2>1, <2>3 DEF MarkQueued, Statuses
  <2>4. CASE CancelOrder(r)
    BY <1>2, <2>1, <2>4 DEF CancelOrder, Statuses
  <2>5. CASE ClaimRetry(r)
    <3>1. /\ UNCHANGED <<trail, announced>>
          /\ SetStatus(rord[r], "pending") \/ UNCHANGED status
      BY <2>5 DEF ClaimRetry
    <3>2. "pending" \in Statuses
      BY DEF Statuses
    <3> QED
      BY <1>1, <1>2, <2>1, <3>1, <3>2
  <2> QED
    BY <1>4, <2>2, <2>3, <2>4, <2>5 DEF RequestStep
<1> QED
  BY <1>3, <1>4

LEMMA WorkerRecords ==
  ASSUME IInv, Records, NEW w \in Workers, WorkerStep(w)
  PROVE  Records'
<1>w. \A v \in Workers : v # w => wpc'[v] = wpc[v] /\ word'[v] = word[v]
  BY DEF WorkerStep, Answer, ClaimOrder, ClaimRefused, LoadOrder, CompleteOrder, RetryLater,
         FailForGood, ReadBack, FinishJob, WorkerEnds, WorkerGoes, IInv, TypeOK
<1>1. ASSUME NEW o \in Orders, ClaimOrder(w, o)
      PROVE  Records'
  <2>1. /\ ~Live(w) /\ UNCHANGED <<trail, announced>>
        /\ status'[o] = "processing" /\ \A p \in Orders : p # o => status'[p] = status[p]
    BY <1>1 DEF ClaimOrder, SetStatus, Live, IInv, TypeOK
  <2>2. \A p : Unowned(p)' => Unowned(p)
    BY <1>w, <2>1 DEF Unowned, Live
  <2> QED
    BY <2>1, <2>2, RecordsKept DEF IInv, IsTerminal
<1>2. CASE LoadOrder(w)
  <2>1. PICK o \in Orders : o = word[w]
    BY <1>2 DEF LoadOrder, IInv, TypeOK
  <2>2. /\ Live(w)' /\ word'[w] = o /\ UNCHANGED <<status, announced>>
        /\ \A p \in Orders : p # o => trail'[p] = trail[p]
    BY <1>2, <2>1 DEF LoadOrder, Record, WorkerGoes, Live, IInv, TypeOK
  <2>3. \A p : p # o /\ Unowned(p)' => Unowned(p)
    BY <1>w, <2>1, <2>2 DEF Unowned, Live
  <2>4. ~Unowned(o)'
    BY <2>2 DEF Unowned
  <2> QED
    BY <2>2, <2>3, <2>4, RecordsKept DEF IInv, Records, OutcomeAnnounced
<1>3. ASSUME NEW reply \in Replies, Answer(w, reply)
      PROVE  Records'
  <2>1. PICK o \in Orders : o = word[w]
    BY <1>3 DEF Answer, CompleteOrder, RetryLater, FailForGood, IInv, TypeOK
  <2>2. wst[w] \in {"processing", "cancelled"}
    BY <1>3 DEF Answer, CompleteOrder, RetryLater, FailForGood, IInv, Exclusion, LoadedIsProcessing
  <2>3. \/ SetStatus(o, "completed") /\ Record(o, "completed") /\ Announce(o, "completed")
        \/ SetStatus(o, "failed") /\ Record(o, "failed") /\ Announce(o, "failed")
        \/ SetStatus(o, "pending") /\ Record(o, "pending") /\ UNCHANGED announced
    BY <1>3, <2>1, <2>2 DEF Answer, CompleteOrder, RetryLater, FailForGood, Flush
  <2>4. /\ status'[o] \in IsTerminal => trail'[o] = status'[o] /\ announced'[o] = status'[o]
        /\ \A p \in Orders : p # o =>
             status'[p] = status[p] /\ trail'[p] = trail[p] /\ announced'[p] = announced[p]
    BY <2>3 DEF SetStatus, Record, Announce, IsTerminal, IInv, TypeOK
  <2>5. \A p : p # o /\ Unowned(p)' => Unowned(p)
    BY <1>w, <2>1 DEF Unowned, Live
  <2> QED
    BY <2>4, <2>5, RecordsKept DEF IInv, IsTerminal
<1>4. CASE (\E o \in Orders : ClaimRefused(w, o)) \/ ReadBack(w) \/ FinishJob(w)
  <2>1. ~Live(w) /\ UNCHANGED <<status, trail, announced>>
    BY <1>4 DEF ClaimRefused, ReadBack, FinishJob, Live
  <2>2. \A p : Unowned(p)' => Unowned(p)
    BY <1>w, <2>1 DEF Unowned, Live
  <2> QED
    BY <2>1, <2>2, RecordsUntouched
<1> QED
  BY <1>1, <1>2, <1>3, <1>4 DEF WorkerStep

LEMMA RecordsInvariance ==
  ASSUME "worker" \notin Interruptible
  PROVE  Spec => []Records
<1>1. Init => Records
  BY DEF Init, Records, TrailTells, OutcomeAnnounced, IsTerminal
<1>2. IInv /\ Calm /\ Records /\ [Next]_vars => Records'
  <2> SUFFICES ASSUME IInv, Calm, Records, [Next]_vars
               PROVE  Records'
    OBVIOUS
  <2>1. CASE Break \/ UNCHANGED vars
    <3>1. UNCHANGED <<status, trail, announced, wpc, word>>
      BY <2>1, NothingToSweep DEF Break, WorkerDies, Breaks, JobLost, RequestDies, vars
    <3> QED
      BY <3>1, RecordsUntouched DEF Unowned, Live
  <2> QED
    BY <2>1, NothingToSweep, RequestRecords, WorkerRecords DEF Next
<1> QED
  BY <1>1, <1>2, CalmInvariance, PTL DEF Spec

\* If no job dies, the trail of a finished order ends with its status once nobody
\* works on it, whichever of the racing handlers wrote last.
THEOREM TrailEndsWithStatus ==
  ASSUME "worker" \notin Interruptible
  PROVE  Spec => []AuditAtRest
<1>1. Records => AuditAtRest
  BY DEF Records, TrailTells, AuditAtRest, AtRest, Unowned
<1> QED
  BY <1>1, RecordsInvariance, PTL

\* If no job dies, the last webhook of a completed or failed order names that
\* outcome.
THEOREM LastNoticeIsOutcome ==
  ASSUME "worker" \notin Interruptible
  PROVE  Spec => []AnnouncedAtRest
<1>1. Records => AnnouncedAtRest
  BY DEF Records, OutcomeAnnounced, AnnouncedAtRest
<1> QED
  BY <1>1, RecordsInvariance, PTL

-----------------------------------------------------------------------------
(***************************************************************************)
(* Attempts.  A claim does not look at the limit, so whatever opens an     *)
(* order must leave room for the attempt that follows.  A failure's or a   *)
(* sweep's requeue does, by its own check.  /retry checks before it opens, *)
(* and each handler past its check may find the order failed once more:    *)
(* they are counted in.                                                    *)
(***************************************************************************)

\* Handlers that have passed the check of /retry.
Retrying(o) == {r \in Requests : rpc[r] = "retry" /\ rord[r] = o}

\* The attempt that a waiting order is about to have.
Offered(o) == IF status[o] \in Claimable THEN 1 ELSE 0

Untried(o) == status[o] = "none" => attempts[o] = 0 /\ Retrying(o) = {}

\* Whoever opened the order is not waiting to retry it.
OpenedBySomebody(o) ==
  status[o] \notin {"none", "failed"} => \E r \in Requests : r \notin Retrying(o)

Budget(o) ==
  attempts[o] + Offered(o) + Cardinality(Retrying(o)) <= MaxAttempts + Cardinality(Requests) - 1

Tally(o) == Untried(o) /\ OpenedBySomebody(o) /\ Budget(o)

\* The attempts that a job or a sweep has read are still those on record.
ReadIsCurrent ==
  /\ \A w \in Workers : wpc[w] = "calling" => watt[w] = attempts[word[w]]
  /\ \A s \in Sweepers : \A o \in swRows[s] \cup swDirty[s] : swTries[s][o] = attempts[o]

LEMMA Smaller ==
  ASSUME IsFiniteSet(Requests), NEW T \in SUBSET Requests, NEW S \in SUBSET T
  PROVE  /\ Cardinality(S) \in Nat /\ Cardinality(T) \in Nat
         /\ Cardinality(S) <= Cardinality(T)
         /\ \A r \in T : r \notin S => Cardinality(S) + 1 <= Cardinality(T)
<1>1. IsFiniteSet(T)
  BY FS_Subset
<1>2. /\ IsFiniteSet(S) /\ Cardinality(S) <= Cardinality(T)
      /\ Cardinality(S) = Cardinality(T) => S = T
  BY <1>1, FS_Subset
<1>3. Cardinality(S) \in Nat /\ Cardinality(T) \in Nat
  BY <1>1, <1>2, FS_CardinalityType
<1> QED
  BY <1>2, <1>3

\* A step that tries nothing and lets nobody past the check: the order keeps its
\* status, or is moved to one for which there is room.
LEMMA TallyKept ==
  ASSUME IsFiniteSet(Requests), TypeOK, TypeOK', NEW o \in Orders, Tally(o),
         attempts'[o] = attempts[o],
         Retrying(o)' \subseteq Retrying(o),
         \/ status'[o] = status[o]
         \/ /\ status'[o] # "none"
            /\ \E r \in Requests : r \notin Retrying(o)'
            /\ status'[o] \in Claimable =>
                 \/ status[o] \in Claimable
                 \/ attempts[o] < MaxAttempts
                 \/ \E r \in Retrying(o) : r \notin Retrying(o)'
  PROVE  Tally(o)'
<1> DEFINE N == Cardinality(Requests)
           R == Cardinality(Retrying(o))
<1>1. /\ R \in Nat /\ R' \in Nat /\ N \in Nat /\ R' <= R /\ R' <= N
      /\ \A r \in Requests : r \notin Retrying(o)' => R' + 1 <= N
      /\ \A r \in Retrying(o) : r \notin Retrying(o)' => R' + 1 <= R
  <2>1. Retrying(o) \in SUBSET Requests /\ Retrying(o)' \in SUBSET Requests
    BY DEF Retrying
  <2>2. Retrying(o)' \in SUBSET Retrying(o)
    OBVIOUS
  <2>3. Requests \in SUBSET Requests
    OBVIOUS
  <2> HIDE DEF Retrying
  <2>4. R \in Nat /\ R' \in Nat /\ R' <= R
        /\ \A r \in Retrying(o) : r \notin Retrying(o)' => R' + 1 <= R
    BY <2>1, <2>2, Smaller
  <2>5. N \in Nat /\ R' <= N /\ \A r \in Requests : r \notin Retrying(o)' => R' + 1 <= N
    BY <2>1, <2>3, Smaller
  <2> QED
    BY <2>4, <2>5
<1>2. attempts[o] \in Nat /\ MaxAttempts \in Nat
  BY MaxAttemptsAssumption DEF TypeOK
<1>3. Untried(o)'
  BY DEF Tally, Untried
<1>4. OpenedBySomebody(o)'
  BY DEF Tally, OpenedBySomebody
<1>5. Budget(o)'
  <2>b. attempts[o] + Offered(o) + R <= MaxAttempts + N - 1
    BY DEF Tally, Budget
  <2>1. CASE status'[o] \in Claimable => status[o] \in Claimable
    <3>1. Offered(o)' <= Offered(o) /\ Offered(o) \in Nat /\ Offered(o)' \in Nat
      BY <2>1 DEF Offered
    <3>2. attempts'[o] + Offered(o)' + R' <= MaxAttempts + N - 1
      BY <1>1, <1>2, <2>b, <3>1
    <3> QED
      BY <3>2 DEF Budget
  <2>2. CASE status'[o] \in Claimable /\ status[o] \notin Claimable
    <3>1. Offered(o)' = 1 /\ Offered(o) = 0
      BY <2>2 DEF Offered
    <3>2. R' + 1 <= N /\ (attempts[o] < MaxAttempts \/ R' + 1 <= R)
      BY <1>1, <2>2
    <3>3. attempts'[o] + Offered(o)' + R' <= MaxAttempts + N - 1
      BY <1>1, <1>2, <2>b, <3>1, <3>2
    <3> QED
      BY <3>3 DEF Budget
  <2> QED
    BY <2>1, <2>2
<1> QED
  BY <1>3, <1>4, <1>5 DEF Tally

\* A step that lets nobody past the check and leaves the order and its attempts.
LEMMA TallyUntouched ==
  ASSUME IsFiniteSet(Requests), TypeOK, TypeOK', NEW o \in Orders, Tally(o),
         attempts'[o] = attempts[o], status'[o] = status[o],
         Retrying(o)' \subseteq Retrying(o)
  PROVE  Tally(o)'
  BY TallyKept

LEMMA InitTally ==
  ASSUME IsFiniteSet(Requests), Init, NEW o \in Orders
  PROVE  Tally(o)
<1>1. status[o] = "none" /\ attempts[o] = 0 /\ Retrying(o) = {}
  BY DEF Init, Retrying
<1>2. Cardinality(Requests) \in Nat /\ Cardinality(Retrying(o)) = 0
  BY <1>1, FS_CardinalityType, FS_EmptySet
<1>3. Offered(o) = 0
  BY <1>1 DEF Offered, Claimable
<1>4. attempts[o] + Offered(o) + Cardinality(Retrying(o)) <= MaxAttempts + Cardinality(Requests) - 1
  BY <1>1, <1>2, <1>3, MaxAttemptsAssumption
<1> QED
  BY <1>1, <1>4 DEF Tally, Untried, OpenedBySomebody, Budget

\* A handler that passes the check finds an attempt left over.
LEMMA CheckRetryTally ==
  ASSUME IsFiniteSet(Requests), TypeOK, TypeOK', NEW r \in Requests, NEW o \in Orders,
         CheckRetry(r, o)
  PROVE  Tally(o)'
<1>1. status'[o] = "failed" /\ attempts'[o] = attempts[o] /\ attempts[o] < MaxAttempts
  BY DEF CheckRetry
<1>2. Retrying(o)' \in SUBSET Requests /\ Requests \in SUBSET Requests
  BY DEF Retrying
<1>3. /\ Cardinality(Retrying(o)') \in Nat /\ Cardinality(Requests) \in Nat
      /\ Cardinality(Retrying(o)') <= Cardinality(Requests)
  BY <1>2, Smaller
<1>4. Offered(o)' = 0
  BY <1>1 DEF Offered, Claimable
<1>5. attempts'[o] + Offered(o)' + Cardinality(Retrying(o)')
        <= MaxAttempts + Cardinality(Requests) - 1
  <2>1. attempts[o] \in Nat /\ MaxAttempts \in Nat
    BY MaxAttemptsAssumption DEF TypeOK
  <2> QED
    BY <1>1, <1>3, <1>4, <2>1
<1>6. Budget(o)'
  BY <1>5 DEF Budget
<1> QED
  BY <1>1, <1>6 DEF Tally, Untried, OpenedBySomebody

LEMMA RequestTally ==
  ASSUME IsFiniteSet(Requests), TypeOK, TypeOK', \A o \in Orders : Tally(o),
         NEW r \in Requests, ClientStep(r) \/ RequestStep(r),
         NEW p \in Orders
  PROVE  Tally(p)'
<1>a. UNCHANGED attempts /\ \A q \in Requests : q # r => rpc'[q] = rpc[q] /\ rord'[q] = rord[q]
  BY DEF ClientStep, CreateOrder, CheckCancel, CheckRetry, RequestStep, EnqueueOrder,
         MarkQueued, CancelOrder, ClaimRetry, RequestEnds, RequestGoes, TypeOK
<1>r. ASSUME rpc'[r] # "retry" PROVE Retrying(p)' \subseteq Retrying(p) /\ r \notin Retrying(p)'
  BY <1>a, <1>r DEF Retrying
<1>1. CASE ClientStep(r)
  <2>1. PICK o \in Orders : CreateOrder(r, o) \/ CheckCancel(r, o) \/ CheckRetry(r, o)
    BY <1>1 DEF ClientStep
  <2>2. CASE CreateOrder(r, o)
    <3>1. /\ rpc'[r] # "retry" /\ status[o] = "none" /\ status'[o] = "pending"
          /\ \A q \in Orders : q # o => status'[q] = status[q]
      BY <2>2 DEF CreateOrder, RequestGoes, SetStatus, TypeOK
    <3>2. attempts[o] < MaxAttempts
      BY <3>1, MaxAttemptsAssumption DEF Tally, Untried
    <3> QED
      BY <1>a, <1>r, <3>1, <3>2, TallyKept
  <2>3. CASE CheckCancel(r, o)
    <3>1. rpc'[r] # "retry" /\ UNCHANGED status
      BY <2>3 DEF CheckCancel, RequestGoes, TypeOK
    <3> QED
      BY <1>a, <1>r, <3>1, TallyUntouched
  <2>4. CASE CheckRetry(r, o)
    <3>1. UNCHANGED status /\ rord'[r] = o
      BY <2>4 DEF CheckRetry, RequestGoes, TypeOK
    <3>2. p # o => Retrying(p)' \subseteq Retrying(p)
      BY <1>a, <3>1 DEF Retrying
    <3> QED
      BY <1>a, <2>4, <3>1, <3>2, TallyUntouched, CheckRetryTally
  <2> QED
    BY <2>1, <2>2, <2>3, <2>4
<1>2. CASE RequestStep(r)
  <2>1. PICK o \in Orders : o = rord[r]
    BY <1>2 DEF RequestStep, EnqueueOrder, MarkQueued, CancelOrder, ClaimRetry, TypeOK
  <2>2. rpc'[r] # "retry"
    BY <1>2 DEF RequestStep, EnqueueOrder, MarkQueued, CancelOrder, ClaimRetry, RequestEnds,
                RequestGoes, TypeOK
  <2>3. \A q \in Orders : q # o => status'[q] = status[q]
    BY <1>2, <2>1 DEF RequestStep, EnqueueOrder, MarkQueued, CancelOrder, ClaimRetry,
                      SetStatus, TypeOK
  <2>4. \/ status'[o] = status[o]
        \/ status[o] = "pending" /\ status'[o] = "queued"
        \/ status'[o] = "cancelled"
        \/ r \in Retrying(o) /\ status'[o] = "pending"
    BY <1>2, <2>1 DEF RequestStep, EnqueueOrder, MarkQueued, CancelOrder, ClaimRetry,
                      SetStatus, Retrying, TypeOK
  <2> QED
    BY <1>a, <1>r, <2>2, <2>3, <2>4, TallyKept DEF Claimable
<1> QED
  BY <1>1, <1>2

\* The attempt that was offered is taken.
LEMMA ClaimTally ==
  ASSUME TypeOK, NEW w \in Workers, NEW o \in Orders, Tally(o), ClaimOrder(w, o)
  PROVE  Tally(o)'
<1>1. /\ status[o] \in Claimable /\ status'[o] = "processing"
      /\ attempts'[o] = attempts[o] + 1 /\ UNCHANGED <<rpc, rord>>
  BY DEF ClaimOrder, SetStatus, TypeOK
<1>2. Offered(o) = 1 /\ Offered(o)' = 0
  BY <1>1 DEF Offered, Claimable
<1>3. Retrying(o)' = Retrying(o)
  BY <1>1 DEF Retrying
<1>4. attempts'[o] + Offered(o)' = attempts[o] + Offered(o)
  BY <1>1, <1>2 DEF TypeOK
<1>5. Budget(o)'
  BY <1>3, <1>4 DEF Tally, Budget
<1> QED
  BY <1>1, <1>3, <1>5 DEF Tally, Untried, OpenedBySomebody, Claimable

LEMMA WorkerTally ==
  ASSUME IsFiniteSet(Requests), IInv, TypeOK', ReadIsCurrent, \A o \in Orders : Tally(o),
         NEW w \in Workers, WorkerStep(w),
         NEW p \in Orders
  PROVE  Tally(p)'
<1>r. UNCHANGED <<rpc, rord>>
  BY DEF WorkerStep, Answer, ClaimOrder, ClaimRefused, LoadOrder, CompleteOrder, RetryLater,
         FailForGood, ReadBack, FinishJob
<1>r2. Retrying(p)' = Retrying(p)
  BY <1>r DEF Retrying
<1>1. ASSUME NEW o \in Orders, ClaimOrder(w, o)
      PROVE  Tally(p)'
  <2>1. p # o => status'[p] = status[p] /\ attempts'[p] = attempts[p]
    BY <1>1 DEF ClaimOrder, SetStatus, IInv, TypeOK
  <2> QED
    BY <1>1, <1>r2, <2>1, ClaimTally, TallyUntouched DEF IInv
<1>2. ASSUME NEW reply \in Replies, Answer(w, reply)
      PROVE  Tally(p)'
  <2>0. PICK o \in Orders : o = word[w]
    BY <1>2 DEF Answer, CompleteOrder, RetryLater, FailForGood, IInv, TypeOK
  <2>1. /\ UNCHANGED attempts /\ watt[w] = attempts[o]
        /\ status[o] \in {"processing", "cancelled"} /\ wst[w] \in {"processing", "cancelled"}
    BY <1>2, <2>0 DEF Answer, CompleteOrder, RetryLater, FailForGood, IInv, Exclusion,
                      LiveIsProcessing, LoadedIsProcessing, Live, ReadIsCurrent
  <2>2. PICK st \in Statuses : /\ Flush(w, st) /\ st # "none"
                               /\ st \in Claimable => watt[w] < MaxAttempts
    BY <1>2 DEF Answer, CompleteOrder, RetryLater, FailForGood, Statuses, Claimable
  <2>3. /\ \A q \in Orders : q # o => status'[q] = status[q]
        /\ status'[o] = st \/ status'[o] = status[o]
    BY <2>0, <2>2 DEF Flush, SetStatus, IInv, TypeOK
  <2>4. \E r \in Requests : r \notin Retrying(o)
    BY <2>1 DEF Tally, OpenedBySomebody
  <2> QED
    BY <1>r2, <2>1, <2>2, <2>3, <2>4, TallyKept DEF IInv
<1>3. CASE \/ \E o \in Orders : ClaimRefused(w, o)
           \/ LoadOrder(w) \/ ReadBack(w) \/ FinishJob(w)
  <2>1. UNCHANGED <<status, attempts>>
    BY <1>3 DEF ClaimRefused, LoadOrder, ReadBack, FinishJob
  <2> QED
    BY <1>r2, <2>1, TallyUntouched DEF IInv
<1> QED
  BY <1>1, <1>2, <1>3 DEF WorkerStep

LEMMA SweepTally ==
  ASSUME IsFiniteSet(Requests), IInv, TypeOK', ReadIsCurrent, \A o \in Orders : Tally(o),
         NEW s \in Sweepers, SweepStep(s),
         NEW p \in Orders
  PROVE  Tally(p)'
<1>r. UNCHANGED <<rpc, rord, attempts>>
  BY DEF SweepStep, SweepScan, SweepCommit, SweepRow
<1>r2. Retrying(p)' = Retrying(p)
  BY <1>r DEF Retrying
<1>1. CASE status'[p] = status[p]
  BY <1>1, <1>r, <1>r2, TallyUntouched DEF IInv
<1>2. CASE status'[p] # status[p]
  <2>1. SweepCommit(s)
    BY <1>2 DEF SweepStep, SweepScan, SweepRow
  <2>2. /\ p \in swDirty[s]
        /\ status'[p] = IF swTries[s][p] >= MaxAttempts THEN "failed" ELSE "pending"
    BY <1>2, <2>1 DEF SweepCommit
  <2>3. swTries[s][p] = attempts[p] /\ status[p] \in {"processing", "cancelled"}
    BY <2>2 DEF ReadIsCurrent, IInv, Exclusion, SweptIsDead
  <2>4. \E r \in Requests : r \notin Retrying(p)
    BY <2>3 DEF Tally, OpenedBySomebody
  <2>5. attempts[p] \in Nat /\ MaxAttempts \in Nat
    BY MaxAttemptsAssumption DEF IInv, TypeOK
  <2>6. status'[p] # "none" /\ (status'[p] \in Claimable => attempts[p] < MaxAttempts)
    BY <2>2, <2>3, <2>5 DEF Claimable
  <2> QED
    BY <1>r, <1>r2, <2>4, <2>6, TallyKept DEF IInv
<1> QED
  BY <1>1, <1>2

LEMMA WorkerReadIsCurrent ==
  ASSUME IInv, ReadIsCurrent, NEW w \in Workers, WorkerStep(w)
  PROVE  ReadIsCurrent'
<1>s. UNCHANGED <<swRows, swTries, swDirty>>
  BY DEF WorkerStep, Answer, ClaimOrder, ClaimRefused, LoadOrder, CompleteOrder, RetryLater,
         FailForGood, ReadBack, FinishJob
<1>w. \A v \in Workers : v # w =>
        wpc'[v] = wpc[v] /\ word'[v] = word[v] /\ watt'[v] = watt[v]
  BY DEF WorkerStep, Answer, ClaimOrder, ClaimRefused, LoadOrder, CompleteOrder, RetryLater,
         FailForGood, ReadBack, FinishJob, WorkerEnds, WorkerGoes, IInv, TypeOK
<1>1. ASSUME NEW o \in Orders, ClaimOrder(w, o)
      PROVE  ReadIsCurrent'
  <2>1. /\ wpc'[w] = "claimed" /\ status[o] \in Claimable
        /\ \A p \in Orders : p # o => attempts'[p] = attempts[p]
    BY <1>1 DEF ClaimOrder, WorkerGoes, IInv, TypeOK
  <2>2. \A v \in Workers : wpc[v] = "calling" => word[v] \in Orders /\ word[v] # o
    BY <2>1 DEF IInv, TypeOK, Exclusion, LiveIsProcessing, Live, Claimable
  <2>3. \A s \in Sweepers : \A p \in swRows[s] \cup swDirty[s] : p \in Orders /\ p # o
    BY <2>1 DEF IInv, TypeOK, Exclusion, SweptIsDead, Claimable
  <2> QED
    BY <1>s, <1>w, <2>1, <2>2, <2>3 DEF ReadIsCurrent
<1>2. CASE ~ \E o \in Orders : ClaimOrder(w, o)
  <2>1. UNCHANGED attempts
    BY <1>2 DEF WorkerStep, Answer, ClaimRefused, LoadOrder, CompleteOrder, RetryLater,
                FailForGood, ReadBack, FinishJob
  <2>2. wpc'[w] = "calling" => watt'[w] = attempts[word'[w]]
    BY <1>2 DEF WorkerStep, Answer, ClaimRefused, LoadOrder, CompleteOrder, RetryLater,
                FailForGood, ReadBack, FinishJob, WorkerEnds, WorkerGoes, IInv, TypeOK
  <2> QED
    BY <1>s, <1>w, <2>1, <2>2 DEF ReadIsCurrent
<1> QED
  BY <1>1, <1>2

LEMMA SweepReadIsCurrent ==
  ASSUME IInv, ReadIsCurrent, NEW s \in Sweepers, SweepStep(s) \/ SweepDies(s)
  PROVE  ReadIsCurrent'
<1>w. UNCHANGED <<wpc, word, watt, attempts>>
  BY DEF SweepStep, SweepScan, SweepCommit, SweepRow, SweepDies
<1>s. \A t \in Sweepers : t # s =>
        swRows'[t] = swRows[t] /\ swTries'[t] = swTries[t] /\ swDirty'[t] = swDirty[t]
  BY DEF SweepStep, SweepScan, SweepCommit, SweepRow, SweepDies, SweepEnds, IInv, TypeOK
<1>1. \A o \in swRows'[s] \cup swDirty'[s] : swTries'[s][o] = attempts[o]
  <2>1. CASE SweepScan(s)
    <3>1. swTries'[s] = attempts
      BY <2>1 DEF SweepScan, IInv, TypeOK
    <3> QED
      BY <3>1
  <2>2. CASE SweepCommit(s) \/ SweepDies(s)
    <3>1. swRows'[s] = {} /\ swDirty'[s] = {}
      BY <2>2 DEF SweepCommit, SweepDies, SweepEnds, IInv, TypeOK
    <3> QED
      BY <3>1
  <2>3. ASSUME NEW o \in Orders, SweepRow(s, o)
        PROVE  \A q \in swRows'[s] \cup swDirty'[s] : swTries'[s][q] = attempts[q]
    <3>1. swRows'[s] \cup swDirty'[s] = swRows[s] \cup swDirty[s] /\ UNCHANGED swTries
      BY <2>3 DEF SweepRow, IInv, TypeOK
    <3> QED
      BY <3>1 DEF ReadIsCurrent
  <2> QED
    BY <2>1, <2>2, <2>3 DEF SweepStep
<1> QED
  BY <1>w, <1>s, <1>1 DEF ReadIsCurrent

Counted == ReadIsCurrent /\ \A o \in Orders : Tally(o)

LEMMA NextCounted ==
  ASSUME IsFiniteSet(Requests), IInv, IInv', Counted, [Next]_vars
  PROVE  Counted'
<1>0. TypeOK /\ TypeOK' /\ ReadIsCurrent /\ \A o \in Orders : Tally(o)
  BY DEF IInv, Counted
<1>1. ASSUME NEW r \in Requests, ClientStep(r) \/ RequestStep(r)
      PROVE  Counted'
  <2>1. UNCHANGED <<wpc, word, watt, attempts, swRows, swTries, swDirty>>
    BY <1>1 DEF ClientStep, CreateOrder, CheckCancel, CheckRetry, RequestStep, EnqueueOrder,
                MarkQueued, CancelOrder, ClaimRetry
  <2> QED
    BY <1>0, <1>1, <2>1, RequestTally DEF Counted, ReadIsCurrent
<1>2. ASSUME NEW w \in Workers, WorkerStep(w)
      PROVE  Counted'
  BY <1>0, <1>2, WorkerTally, WorkerReadIsCurrent DEF Counted
<1>3. ASSUME NEW s \in Sweepers, SweepStep(s)
      PROVE  Counted'
  BY <1>0, <1>3, SweepTally, SweepReadIsCurrent DEF Counted
<1>4. CASE (\E o \in Orders : Age(o)) \/ Break \/ UNCHANGED vars
  <2>1. UNCHANGED <<status, attempts>>
    BY <1>4 DEF Age, Break, WorkerDies, JobLost, RequestDies, SweepDies, vars
  <2>2. \A o \in Orders : Retrying(o)' \subseteq Retrying(o)
    BY <1>4 DEF Age, Break, WorkerDies, JobLost, RequestDies, SweepDies, vars, RequestEnds,
                RequestGoes, Retrying, IInv, TypeOK
  <2>3. \A o \in Orders : Tally(o)'
    BY <1>0, <2>1, <2>2, TallyUntouched
  <2>4. ReadIsCurrent'
    <3>1. CASE \E s \in Sweepers : SweepDies(s)
      BY <1>0, <3>1, SweepReadIsCurrent
    <3>2. CASE ~ \E s \in Sweepers : SweepDies(s)
      <4>1. UNCHANGED <<attempts, swRows, swTries, swDirty>>
        BY <1>4, <3>2 DEF Age, Break, WorkerDies, JobLost, RequestDies, vars
      <4>2. \A w \in Workers : wpc'[w] = "calling" =>
              wpc[w] = "calling" /\ word'[w] = word[w] /\ watt'[w] = watt[w]
        BY <1>4, <3>2 DEF Age, Break, WorkerDies, JobLost, RequestDies, vars, WorkerEnds,
                          WorkerGoes, IInv, TypeOK
      <4> QED
        BY <1>0, <4>1, <4>2 DEF ReadIsCurrent
    <3> QED
      BY <3>1, <3>2
  <2> QED
    BY <2>3, <2>4 DEF Counted
<1> QED
  BY <1>1, <1>2, <1>3, <1>4 DEF Next

\* However many clients, jobs, sweeps and crashes race for an order, its attempts
\* exceed the limit by fewer than the handlers that run, if sweeps do not overlap or
\* no job dies.
THEOREM AttemptsAreBounded ==
  ASSUME SweepsExclude, IsFiniteSet(Requests)
  PROVE  Spec => []AttemptsBoundedByRaces
<1>1. Init => Counted
  <2>1. Init => ReadIsCurrent
    BY DEF Init, ReadIsCurrent
  <2> QED
    BY <2>1, InitTally DEF Counted
<1>2. IInv /\ IInv' /\ Counted /\ [Next]_vars => Counted'
  BY NextCounted
<1>3. IInv /\ Counted => AttemptsBoundedByRaces
  <2> SUFFICES ASSUME IInv, Counted, NEW o \in Orders
               PROVE  attempts[o] <= MaxAttempts + Cardinality(Requests) - 1
    BY DEF AttemptsBoundedByRaces
  <2>1. Retrying(o) \in SUBSET Requests /\ Requests \in SUBSET Requests
    BY DEF Retrying
  <2>2. Cardinality(Retrying(o)) \in Nat /\ Cardinality(Requests) \in Nat
    BY <2>1, Smaller
  <2>3. attempts[o] \in Nat /\ MaxAttempts \in Nat /\ Offered(o) \in Nat
    BY MaxAttemptsAssumption DEF IInv, TypeOK, Offered
  <2>4. attempts[o] + Offered(o) + Cardinality(Retrying(o))
          <= MaxAttempts + Cardinality(Requests) - 1
    BY DEF Counted, Tally, Budget
  <2> QED
    BY <2>2, <2>3, <2>4
<1> QED
  BY <1>1, <1>2, <1>3, Invariance, PTL DEF Spec
=============================================================================
