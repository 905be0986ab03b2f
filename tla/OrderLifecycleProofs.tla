------------------------ MODULE OrderLifecycleProofs ------------------------
(***************************************************************************)
(* Proofs about OrderLifecycle for every number of orders, jobs, handlers  *)
(* and attempts, every provider, and whatever breaks off.                  *)
(***************************************************************************)
EXTENDS OrderLifecycle, TLAPS

-----------------------------------------------------------------------------
(***************************************************************************)
(* The inductive invariant behind the exclusion properties.                *)
(***************************************************************************)

\* Nobody holds the authority to call the provider for the order.
Unowned(o) == \A w \in Workers : Live(w) => word[w] # o

\* A live job's order is still processing, unless a late cancel overwrote it.
LiveIsProcessing ==
  \A w \in Workers : Live(w) => status[word[w]] \in {"processing", "cancelled"}

\* So is the status a calling job has loaded: the ORM will write the outcome.
LoadedIsProcessing ==
  \A w \in Workers : wpc[w] = "calling" => wst[w] \in {"processing", "cancelled"}

\* A confirmed purchase is the only one, and settled for good.
PaidIsSettled ==
  \A o \in Orders : paid[o] > 0 =>
    paid[o] = 1 /\ status[o] \in {"completed", "cancelled"} /\ Unowned(o)

\* What a sweep holds is unpaid and has no owner, and stays so until it commits.
SweptIsDead ==
  \A s \in Sweepers : \A o \in swRows[s] \cup swDirty[s] :
    paid[o] = 0 /\ status[o] \in {"processing", "cancelled"} /\ Unowned(o)

\* A stale processing order has lost its owner.
StaleIsDead ==
  \A o \in Orders : stale[o] /\ status[o] = "processing" => Unowned(o)

Exclusion ==
  /\ ExclusiveExecution
  /\ LiveIsProcessing
  /\ LoadedIsProcessing
  /\ PaidIsSettled
  /\ SweptIsDead
  /\ StaleIsDead

IInv == TypeOK /\ Exclusion

-----------------------------------------------------------------------------
(***************************************************************************)
(* Type correctness.                                                       *)
(***************************************************************************)

LEMMA InitType == Init => TypeOK
  BY DEF Init, TypeOK, Statuses, WorkerPcs, RequestPcs

USE DEF rowVars, logVars, payVars, workerVars, requestVars, sweepVars

LEMMA ClientType ==
  ASSUME TypeOK, NEW r \in Requests, ClientStep(r)
  PROVE  TypeOK'
<1>1. PICK o \in Orders : CreateOrder(r, o) \/ CheckCancel(r, o) \/ CheckRetry(r, o)
  BY DEF ClientStep
<1>2. CASE CreateOrder(r, o)
  BY <1>2 DEF CreateOrder, RequestGoes, AsksFor, SetStatus, Record, TypeOK, Statuses, RequestPcs
<1>3. CASE CheckCancel(r, o)
  BY <1>3 DEF CheckCancel, RequestGoes, TypeOK, RequestPcs
<1>4. CASE CheckRetry(r, o)
  BY <1>4 DEF CheckRetry, RequestGoes, TypeOK, RequestPcs
<1> QED
  BY <1>1, <1>2, <1>3, <1>4

LEMMA RequestType ==
  ASSUME TypeOK, NEW r \in Requests, RequestStep(r)
  PROVE  TypeOK'
<1>1. CASE EnqueueOrder(r)
  BY <1>1 DEF EnqueueOrder, RequestGoes, Put, TypeOK, RequestPcs
<1>2. CASE MarkQueued(r)
  <2>1. status' \in [Orders -> Statuses] /\ trail' \in [Orders -> Statuses]
    <3>1. \/ UNCHANGED <<status, trail>>
          \/ SetStatus(rord[r], "queued") /\ Record(rord[r], "queued")
      BY <1>2 DEF MarkQueued
    <3>2. /\ status \in [Orders -> Statuses] /\ trail \in [Orders -> Statuses]
          /\ "queued" \in Statuses
      BY DEF TypeOK, Statuses
    <3> QED
      BY <3>1, <3>2 DEF SetStatus, Record
  <2> QED
    BY <1>2, <2>1 DEF MarkQueued, RequestEnds, RequestGoes, TypeOK, RequestPcs
<1>3. CASE CancelOrder(r)
  BY <1>3 DEF CancelOrder, RequestEnds, RequestGoes, SetStatus, Record, TypeOK,
              Statuses, RequestPcs
<1>4. CASE ClaimRetry(r)
  <2>1. rord[r] \in Orders /\ rpc[r] = "retry"
    BY <1>4 DEF ClaimRetry, TypeOK
  <2>2. CASE status[rord[r]] = "failed"
    <3>1. status' \in [Orders -> Statuses]
      BY <1>4, <2>1, <2>2 DEF ClaimRetry, SetStatus, TypeOK, Statuses
    <3>2. RequestGoes(r, "enqueue", rord[r])
      BY <1>4, <2>2 DEF ClaimRetry
    <3>3. asked' \in [Orders -> Nat]
      BY <1>4, <2>1, <2>2 DEF ClaimRetry, AsksFor, TypeOK
    <3> QED
      BY <1>4, <2>1, <3>1, <3>2, <3>3 DEF ClaimRetry, RequestGoes, TypeOK, RequestPcs
  <2>3. CASE status[rord[r]] # "failed"
    BY <1>4, <2>1, <2>3 DEF ClaimRetry, RequestEnds, RequestGoes, TypeOK, RequestPcs
  <2> QED
    BY <2>2, <2>3
<1> QED
  BY <1>1, <1>2, <1>3, <1>4 DEF RequestStep

LEMMA ChargeType ==
  ASSUME TypeOK, NEW o \in Orders, NEW reply \in Replies, Charge(o, reply)
  PROVE  paid' \in [Orders -> Nat] /\ unseen' \in [Orders -> Nat]
  BY DEF Charge, TypeOK

LEMMA FlushType ==
  ASSUME TypeOK, NEW w \in Workers, NEW st \in Statuses, Flush(w, st)
  PROVE  status' \in [Orders -> Statuses]
  BY DEF Flush, SetStatus, TypeOK

LEMMA AnswerType ==
  ASSUME TypeOK, NEW w \in Workers, NEW reply \in Replies, Answer(w, reply)
  PROVE  TypeOK'
<1>o. wpc[w] = "calling" /\ word[w] \in Orders
  BY DEF Answer, CompleteOrder, RetryLater, FailForGood, TypeOK
<1>r. reply.ref \in BOOLEAN
  BY RepliesAssumption DEF Reply
<1>c. Charge(word[w], reply)
  BY DEF Answer, CompleteOrder, RetryLater, FailForGood
<1>p. paid' \in [Orders -> Nat] /\ unseen' \in [Orders -> Nat]
  BY <1>o, <1>c, ChargeType
<1>f. status' \in [Orders -> Statuses]
  <2>1. \E st \in Statuses : Flush(w, st)
    BY DEF Answer, CompleteOrder, RetryLater, FailForGood, Statuses
  <2> QED
    BY <2>1, FlushType
<1>1. CASE CompleteOrder(w, reply)
  BY <1>1, <1>o, <1>r, <1>p, <1>f
     DEF CompleteOrder, WorkerGoes, Record, Announce, TypeOK, Statuses, WorkerPcs
<1>2. CASE RetryLater(w, reply)
  <2>1. blind' \in [Orders -> Nat]
    BY <1>2 DEF RetryLater, TypeOK
  <2>2. trail' \in [Orders -> Statuses]
    BY <1>2 DEF RetryLater, Record, TypeOK, Statuses
  <2> QED
    BY <1>2, <1>o, <1>p, <1>f, <2>1, <2>2 DEF RetryLater, WorkerGoes, TypeOK, Statuses, WorkerPcs
<1>3. CASE FailForGood(w, reply)
  BY <1>3, <1>o, <1>p, <1>f DEF FailForGood, WorkerGoes, Record, Announce, TypeOK,
                                Statuses, WorkerPcs
<1> QED
  BY <1>1, <1>2, <1>3 DEF Answer

LEMMA WorkerType ==
  ASSUME TypeOK, NEW w \in Workers, WorkerStep(w)
  PROVE  TypeOK'
<1>1. ASSUME NEW o \in Orders, ClaimOrder(w, o)
      PROVE  TypeOK'
  BY <1>1 DEF ClaimOrder, Take, SetStatus, WorkerGoes, TypeOK, Statuses, WorkerPcs
<1>2. ASSUME NEW o \in Orders, ClaimRefused(w, o)
      PROVE  TypeOK'
  BY <1>2 DEF ClaimRefused, Take, WorkerGoes, TypeOK, Statuses, WorkerPcs
<1>3. CASE LoadOrder(w)
  BY <1>3 DEF LoadOrder, Record, WorkerGoes, TypeOK, Statuses, WorkerPcs
<1>4. ASSUME NEW reply \in Replies, Answer(w, reply)
      PROVE  TypeOK'
  BY <1>4, AnswerType
<1>5. CASE ReadBack(w)
  BY <1>5 DEF ReadBack, WorkerGoes, TypeOK, WorkerPcs
<1>6. CASE FinishJob(w)
  <2>1. queue \in [Orders -> Nat]
    BY DEF TypeOK
  <2>2. queue' \in [Orders -> Nat]
    BY <1>6, <2>1 DEF FinishJob, Put
  <2> QED
    BY <1>6, <2>2 DEF FinishJob, WorkerEnds, WorkerGoes, TypeOK, Statuses, WorkerPcs
<1> QED
  BY <1>1, <1>2, <1>3, <1>4, <1>5, <1>6 DEF WorkerStep

LEMMA SweepType ==
  ASSUME TypeOK, NEW s \in Sweepers, SweepStep(s)
  PROVE  TypeOK'
<1>1. CASE SweepScan(s)
  BY <1>1 DEF SweepScan, Stuck, TypeOK
<1>2. CASE SweepCommit(s)
  BY <1>2 DEF SweepCommit, SweepEnds, TypeOK, Statuses
<1>3. ASSUME NEW o \in Orders, SweepRow(s, o)
      PROVE  TypeOK'
  <2>1. /\ swRows' \in [Sweepers -> SUBSET Orders]
        /\ swDirty' \in [Sweepers -> SUBSET Orders]
    BY <1>3 DEF SweepRow, TypeOK
  <2>2. queue \in [Orders -> Nat]
    BY DEF TypeOK
  <2>3. queue' \in [Orders -> Nat]
    BY <1>3, <2>2 DEF SweepRow, Put
  <2> QED
    BY <1>3, <2>1, <2>3 DEF SweepRow, TypeOK
<1> QED
  BY <1>1, <1>2, <1>3 DEF SweepStep

LEMMA AgeType ==
  ASSUME TypeOK, NEW o \in Orders, Age(o)
  PROVE  TypeOK'
  BY DEF Age, TypeOK

LEMMA BreakType ==
  ASSUME TypeOK, Break
  PROVE  TypeOK'
<1>1. ASSUME NEW w \in Workers, WorkerDies(w)
      PROVE  TypeOK'
  <2>1. unseen' \in [Orders -> Nat] /\ blind' \in [Orders -> Nat]
    BY <1>1 DEF WorkerDies, TypeOK
  <2>2. /\ wpc' \in [Workers -> WorkerPcs] /\ wst' \in [Workers -> Statuses]
        /\ watt' \in [Workers -> Nat] /\ word' \in [Workers -> Orders \cup {NoOrder}]
        /\ \A v \in Workers : wpc'[v] # "idle" => word'[v] \in Orders
    BY <1>1 DEF WorkerDies, WorkerEnds, WorkerGoes, TypeOK, Statuses, WorkerPcs
  <2> QED
    BY <1>1, <2>1, <2>2 DEF WorkerDies, Breaks, TypeOK
<1>2. ASSUME NEW o \in Orders, JobLost(o)
      PROVE  TypeOK'
  BY <1>2 DEF JobLost, Breaks, Take, TypeOK
<1>3. ASSUME NEW r \in Requests, RequestDies(r)
      PROVE  TypeOK'
  BY <1>3 DEF RequestDies, Breaks, RequestEnds, RequestGoes, TypeOK, RequestPcs
<1>4. ASSUME NEW s \in Sweepers, SweepDies(s)
      PROVE  TypeOK'
  BY <1>4 DEF SweepDies, Breaks, SweepEnds, TypeOK
<1> QED
  BY <1>1, <1>2, <1>3, <1>4 DEF Break

LEMMA NextType == TypeOK /\ [Next]_vars => TypeOK'
<1> SUFFICES ASSUME TypeOK, [Next]_vars
             PROVE  TypeOK'
  OBVIOUS
<1>1. CASE Next
  BY <1>1, ClientType, RequestType, WorkerType, SweepType, AgeType, BreakType DEF Next
<1>2. CASE UNCHANGED vars
  BY <1>2 DEF vars, TypeOK
<1> QED
  BY <1>1, <1>2

\* Every row, queue, handler, job and sweep keeps its shape: no job is taken
\* from an empty queue, and every busy handler or job has an order.
THEOREM TypeCorrect == Spec => []TypeOK
<1>1. Init => TypeOK
  BY InitType
<1>2. TypeOK /\ [Next]_vars => TypeOK'
  BY NextType
<1> QED
  BY <1>1, <1>2, PTL DEF Spec

-----------------------------------------------------------------------------
(***************************************************************************)
(* Exclusion is inductive when sweeps do not overlap.  Most steps do one   *)
(* of three harmless things, each with a lemma: they leave alone what      *)
(* Exclusion speaks of, they take authority away, or they move the status  *)
(* of an order that nobody owns.                                           *)
(***************************************************************************)

LEMMA InitExclusion == Init => Exclusion
  BY DEF Init, Exclusion, ExclusiveExecution, LiveIsProcessing, LoadedIsProcessing,
         PaidIsSettled, SweptIsDead, StaleIsDead, Live, Unowned

\* Jobs may lose their authority, as long as rows, purchases and sweeps stay.
LEMMA AuthorityShrinks ==
  ASSUME Exclusion,
         UNCHANGED <<status, stale, paid, swRows, swDirty>>,
         \A w \in Workers : Live(w)' => Live(w) /\ word'[w] = word[w],
         \A w \in Workers : wpc'[w] = "calling" => wpc[w] = "calling" /\ wst'[w] = wst[w]
  PROVE  Exclusion'
<1>u. \A o \in Orders : Unowned(o) => Unowned(o)'
  BY DEF Unowned
<1>1. ExclusiveExecution'
  BY DEF Exclusion, ExclusiveExecution
<1>2. LiveIsProcessing'
  BY DEF Exclusion, LiveIsProcessing
<1>3. LoadedIsProcessing'
  BY DEF Exclusion, LoadedIsProcessing
<1>4. PaidIsSettled'
  BY <1>u DEF Exclusion, PaidIsSettled
<1>5. SweptIsDead'
  <2>1. \A o : Unowned(o) => Unowned(o)'
    BY DEF Unowned
  <2> QED
    BY <2>1 DEF Exclusion, SweptIsDead
<1>6. StaleIsDead'
  BY <1>u DEF Exclusion, StaleIsDead
<1> QED
  BY <1>1, <1>2, <1>3, <1>4, <1>5, <1>6 DEF Exclusion

\* An unowned, unpaid order that no sweep holds may move to any status but
\* processing.
LEMMA UnownedMoves ==
  ASSUME Exclusion, TypeOK,
         NEW o \in Orders, NEW st, SetStatus(o, st), st # "processing",
         Unowned(o), paid[o] = 0,
         \A s \in Sweepers : o \notin swRows[s] \cup swDirty[s],
         UNCHANGED <<stale, paid, swRows, swDirty, wpc, word, wst>>
  PROVE  Exclusion'
<1>s. \A p \in Orders : p # o => status'[p] = status[p]
  BY DEF SetStatus, TypeOK
<1>t. status'[o] = st
  BY DEF SetStatus, TypeOK
<1>l. \A w \in Workers : (Live(w)' <=> Live(w)) /\ (Live(w) => word[w] \in Orders /\ word[w] # o)
  BY DEF Live, Unowned, TypeOK
<1>u. \A p : Unowned(p)' <=> Unowned(p)
  BY <1>l DEF Unowned
<1>1. ExclusiveExecution'
  BY <1>l DEF Exclusion, ExclusiveExecution
<1>2. LiveIsProcessing'
  BY <1>l, <1>s DEF Exclusion, LiveIsProcessing
<1>3. LoadedIsProcessing'
  BY DEF Exclusion, LoadedIsProcessing
<1>4. PaidIsSettled'
  BY <1>u, <1>s DEF Exclusion, PaidIsSettled
<1>5. SweptIsDead'
  <2>1. \A s \in Sweepers : \A p \in swRows[s] \cup swDirty[s] : p \in Orders /\ p # o
    BY DEF TypeOK
  <2> QED
    BY <2>1, <1>u, <1>s DEF Exclusion, SweptIsDead
<1>6. StaleIsDead'
  BY <1>u, <1>s, <1>t DEF Exclusion, StaleIsDead
<1> QED
  BY <1>1, <1>2, <1>3, <1>4, <1>5, <1>6 DEF Exclusion

\* An order in a status other than processing, cancelled and completed is such
\* an order.
LEMMA WaitingIsUnowned ==
  ASSUME Exclusion, TypeOK, NEW o \in Orders,
         status[o] \in {"none", "pending", "queued", "failed"}
  PROVE  /\ Unowned(o)
         /\ paid[o] = 0
         /\ \A s \in Sweepers : o \notin swRows[s] \cup swDirty[s]
<1>1. Unowned(o)
  BY DEF Exclusion, LiveIsProcessing, Unowned
<1>2. paid[o] = 0
  <2>1. paid[o] \in Nat
    BY DEF TypeOK
  <2> QED
    BY <2>1 DEF Exclusion, PaidIsSettled
<1>3. \A s \in Sweepers : o \notin swRows[s] \cup swDirty[s]
  BY DEF Exclusion, SweptIsDead
<1> QED
  BY <1>1, <1>2, <1>3

LEMMA ClientExclusion ==
  ASSUME IInv, NEW r \in Requests, ClientStep(r)
  PROVE  Exclusion'
<1>1. PICK o \in Orders : CreateOrder(r, o) \/ CheckCancel(r, o) \/ CheckRetry(r, o)
  BY DEF ClientStep
<1>2. CASE CreateOrder(r, o)
  <2>1. /\ status[o] = "none" /\ SetStatus(o, "pending")
        /\ UNCHANGED <<stale, paid, swRows, swDirty, wpc, word, wst>>
    BY <1>2 DEF CreateOrder
  <2> QED
    BY <2>1, WaitingIsUnowned, UnownedMoves DEF IInv
<1>3. CASE CheckCancel(r, o) \/ CheckRetry(r, o)
  <2>1. UNCHANGED <<status, stale, paid, swRows, swDirty, wpc, word, wst>>
    BY <1>3 DEF CheckCancel, CheckRetry
  <2> QED
    BY <2>1, AuthorityShrinks DEF IInv, Live
<1> QED
  BY <1>1, <1>2, <1>3

\* A cancel may overwrite any status, even that of a paid or running order.
LEMMA CancelExclusion ==
  ASSUME IInv, NEW r \in Requests, CancelOrder(r)
  PROVE  Exclusion'
<1> DEFINE o == rord[r]
<1>1. /\ o \in Orders
      /\ SetStatus(o, "cancelled")
      /\ UNCHANGED <<stale, paid, swRows, swDirty, wpc, word, wst>>
  BY DEF CancelOrder, IInv, TypeOK
<1>2. /\ status'[o] = "cancelled"
      /\ \A p \in Orders : p # o => status'[p] = status[p]
  BY <1>1 DEF SetStatus, IInv, TypeOK
<1>3. \A w \in Workers : (Live(w)' <=> Live(w)) /\ (Live(w) => word[w] \in Orders)
  BY <1>1 DEF Live, IInv, TypeOK
<1>4. \A p : Unowned(p)' <=> Unowned(p)
  BY <1>1, <1>3 DEF Unowned
<1>5. ExclusiveExecution' /\ LiveIsProcessing' /\ LoadedIsProcessing'
  BY <1>1, <1>2, <1>3 DEF IInv, Exclusion, ExclusiveExecution, LiveIsProcessing,
                          LoadedIsProcessing
<1>6. PaidIsSettled' /\ StaleIsDead'
  BY <1>1, <1>2, <1>4 DEF IInv, Exclusion, PaidIsSettled, StaleIsDead
<1>7. SweptIsDead'
  <2>1. \A s \in Sweepers : swRows[s] \cup swDirty[s] \subseteq Orders
    BY DEF IInv, TypeOK
  <2> QED
    BY <2>1, <1>1, <1>2, <1>4 DEF IInv, Exclusion, SweptIsDead
<1> QED
  BY <1>5, <1>6, <1>7 DEF Exclusion

LEMMA RequestExclusion ==
  ASSUME IInv, NEW r \in Requests, RequestStep(r)
  PROVE  Exclusion'
<1> DEFINE o == rord[r]
<1>1. CASE EnqueueOrder(r)
  <2>1. UNCHANGED <<status, stale, paid, swRows, swDirty, wpc, word, wst>>
    BY <1>1 DEF EnqueueOrder
  <2> QED
    BY <2>1, AuthorityShrinks DEF IInv, Live
<1>2. CASE MarkQueued(r) \/ ClaimRetry(r)
  <2>1. /\ o \in Orders
        /\ UNCHANGED <<stale, paid, swRows, swDirty, wpc, word, wst>>
    BY <1>2 DEF MarkQueued, ClaimRetry, IInv, TypeOK
  <2>2. \/ UNCHANGED status
        \/ status[o] = "pending" /\ SetStatus(o, "queued")
        \/ status[o] = "failed" /\ SetStatus(o, "pending")
    BY <1>2 DEF MarkQueued, ClaimRetry
  <2>3. CASE UNCHANGED status
    BY <2>1, <2>3, AuthorityShrinks DEF IInv, Live
  <2>4. CASE status[o] = "pending" /\ SetStatus(o, "queued")
    BY <2>1, <2>4, WaitingIsUnowned, UnownedMoves DEF IInv
  <2>5. CASE status[o] = "failed" /\ SetStatus(o, "pending")
    BY <2>1, <2>5, WaitingIsUnowned, UnownedMoves DEF IInv
  <2> QED
    BY <2>2, <2>3, <2>4, <2>5
<1>3. CASE CancelOrder(r)
  BY <1>3, CancelExclusion
<1> QED
  BY <1>1, <1>2, <1>3 DEF RequestStep

\* The one step that grants authority.
LEMMA ClaimExclusion ==
  ASSUME IInv, NEW w \in Workers, NEW o \in Orders, ClaimOrder(w, o)
  PROVE  Exclusion'
<1>1. /\ Unowned(o)
      /\ paid[o] = 0
      /\ \A s \in Sweepers : o \notin swRows[s] \cup swDirty[s]
  BY WaitingIsUnowned DEF ClaimOrder, Claimable, IInv
<1>2. /\ status'[o] = "processing" /\ stale'[o] = FALSE
      /\ \A p \in Orders : p # o => status'[p] = status[p] /\ stale'[p] = stale[p]
      /\ UNCHANGED <<paid, swRows, swDirty>>
  BY DEF ClaimOrder, SetStatus, IInv, TypeOK
<1>3. /\ ~Live(w) /\ Live(w)' /\ word'[w] = o /\ wpc'[w] # "calling"
      /\ \A v \in Workers : v # w => wpc'[v] = wpc[v] /\ word'[v] = word[v] /\ wst'[v] = wst[v]
      /\ \A v \in Workers : Live(v) => word[v] \in Orders
  BY DEF ClaimOrder, WorkerGoes, Live, IInv, TypeOK
<1>4. \A v \in Workers : v # w => (Live(v)' <=> Live(v))
  BY <1>3 DEF Live
<1>5. \A p : p # o /\ Unowned(p) => Unowned(p)'
  BY <1>3, <1>4 DEF Unowned
<1>6. ExclusiveExecution'
  BY <1>1, <1>3, <1>4 DEF IInv, Exclusion, ExclusiveExecution, Unowned
<1>7. LiveIsProcessing'
  BY <1>2, <1>3, <1>4 DEF IInv, Exclusion, LiveIsProcessing
<1>8. LoadedIsProcessing'
  BY <1>3 DEF IInv, Exclusion, LoadedIsProcessing
<1>9. PaidIsSettled'
  BY <1>1, <1>2, <1>5 DEF IInv, Exclusion, PaidIsSettled, TypeOK
<1>10. SweptIsDead'
  <2>1. \A s \in Sweepers : \A p \in swRows[s] \cup swDirty[s] : p \in Orders /\ p # o
    BY <1>1 DEF IInv, TypeOK
  <2> QED
    BY <2>1, <1>2, <1>5 DEF IInv, Exclusion, SweptIsDead
<1>11. StaleIsDead'
  BY <1>2, <1>5 DEF IInv, Exclusion, StaleIsDead
<1> QED
  BY <1>6, <1>7, <1>8, <1>9, <1>10, <1>11 DEF Exclusion

LEMMA LoadExclusion ==
  ASSUME IInv, NEW w \in Workers, LoadOrder(w)
  PROVE  Exclusion'
<1>1. /\ UNCHANGED <<status, stale, paid, swRows, swDirty>>
      /\ word[w] \in Orders /\ Live(w) /\ word'[w] = word[w]
      /\ wst'[w] = status[word[w]]
      /\ \A v \in Workers : v # w => wpc'[v] = wpc[v] /\ word'[v] = word[v] /\ wst'[v] = wst[v]
  BY DEF LoadOrder, WorkerGoes, Live, IInv, TypeOK
<1>2. \A v \in Workers : (Live(v)' => Live(v)) /\ word'[v] = word[v]
  BY <1>1 DEF Live
<1>3. LoadedIsProcessing'
  BY <1>1 DEF IInv, Exclusion, LoadedIsProcessing, LiveIsProcessing
<1>4. \A p : Unowned(p) => Unowned(p)'
  BY <1>2 DEF Unowned
<1>5. ExclusiveExecution' /\ LiveIsProcessing'
  BY <1>1, <1>2 DEF IInv, Exclusion, ExclusiveExecution, LiveIsProcessing
<1>6. PaidIsSettled' /\ SweptIsDead' /\ StaleIsDead'
  BY <1>1, <1>4 DEF IInv, Exclusion, PaidIsSettled, SweptIsDead, StaleIsDead
<1> QED
  BY <1>3, <1>5, <1>6 DEF Exclusion

\* An answer ends the authority of its job and writes the outcome: the status
\* the job loaded is none of the three outcomes, so the ORM does write it.
LEMMA AnswerExclusion ==
  ASSUME IInv, NEW w \in Workers, NEW reply \in Replies, Answer(w, reply)
  PROVE  Exclusion'
<1>0. PICK o \in Orders : o = word[w]
  BY DEF Answer, CompleteOrder, RetryLater, FailForGood, IInv, TypeOK
<1>1. word[w] = o /\ wpc[w] = "calling" /\ Live(w)
  BY <1>0 DEF Answer, CompleteOrder, RetryLater, FailForGood, Live
<1>2. /\ wst[w] \notin {"completed", "pending", "failed"}
      /\ paid[o] = 0
      /\ \A s \in Sweepers : o \notin swRows[s] \cup swDirty[s]
  BY <1>1 DEF IInv, TypeOK, Exclusion, LoadedIsProcessing, PaidIsSettled, SweptIsDead, Unowned
<1>3. \/ /\ SetStatus(o, "completed")
         /\ paid' = [paid EXCEPT ![o] = 1]
      \/ /\ \E st \in {"pending", "failed"} : SetStatus(o, st)
         /\ UNCHANGED paid
  <2>1. CASE CompleteOrder(w, reply)
    <3>1. SetStatus(o, "completed")
      BY <1>1, <1>2, <2>1 DEF CompleteOrder, Flush, SetStatus
    <3>2. paid' = [paid EXCEPT ![o] = paid[o] + 1]
      BY <1>1, <2>1 DEF CompleteOrder, Charge
    <3> QED
      BY <3>1, <3>2, <1>2
  <2>2. CASE RetryLater(w, reply) \/ FailForGood(w, reply)
    <3>1. paid' = [paid EXCEPT ![o] = paid[o]]
      BY <1>1, <2>2 DEF RetryLater, FailForGood, Charge
    <3>2. UNCHANGED paid
      BY <3>1 DEF IInv, TypeOK
    <3>3. SetStatus(o, "pending") \/ SetStatus(o, "failed")
      BY <1>1, <1>2, <2>2 DEF RetryLater, FailForGood, Flush, SetStatus
    <3> QED
      BY <3>2, <3>3
  <2> QED
    BY <2>1, <2>2 DEF Answer
<1>4. /\ UNCHANGED <<stale, swRows, swDirty>>
      /\ ~Live(w)' /\ word'[w] = o
      /\ \A v \in Workers : v # w => wpc'[v] = wpc[v] /\ word'[v] = word[v] /\ wst'[v] = wst[v]
  BY <1>1 DEF Answer, CompleteOrder, RetryLater, FailForGood, WorkerGoes, Live, IInv, TypeOK
<1>5. \A v \in Workers : Live(v)' => Live(v) /\ word'[v] = word[v] /\ word[v] # o /\ word[v] \in Orders
  BY <1>1, <1>4 DEF Live, IInv, Exclusion, ExclusiveExecution, TypeOK
<1>6. \A p : Unowned(p) => Unowned(p)'
  BY <1>5 DEF Unowned
<1>7. Unowned(o)'
  BY <1>5 DEF Unowned
<1>8. /\ status'[o] \in {"completed", "pending", "failed"}
      /\ paid'[o] = 0 \/ (paid'[o] = 1 /\ status'[o] = "completed")
      /\ \A p \in Orders : p # o => status'[p] = status[p] /\ paid'[p] = paid[p]
  BY <1>1, <1>2, <1>3 DEF SetStatus, IInv, TypeOK
<1>9. ExclusiveExecution' /\ LiveIsProcessing'
  BY <1>5, <1>8 DEF IInv, Exclusion, ExclusiveExecution, LiveIsProcessing
<1>10. LoadedIsProcessing'
  BY <1>4 DEF IInv, Exclusion, LoadedIsProcessing, Live
<1>11. PaidIsSettled' /\ StaleIsDead'
  BY <1>4, <1>6, <1>7, <1>8 DEF IInv, Exclusion, PaidIsSettled, StaleIsDead
<1>12. SweptIsDead'
  <2>1. \A s \in Sweepers : \A p \in swRows[s] \cup swDirty[s] : p \in Orders /\ p # o
    BY <1>2 DEF IInv, TypeOK
  <2> QED
    BY <2>1, <1>4, <1>6, <1>8 DEF IInv, Exclusion, SweptIsDead
<1> QED
  BY <1>9, <1>10, <1>11, <1>12 DEF Exclusion

LEMMA WorkerExclusion ==
  ASSUME IInv, NEW w \in Workers, WorkerStep(w)
  PROVE  Exclusion'
<1>1. ASSUME NEW o \in Orders, ClaimOrder(w, o)
      PROVE  Exclusion'
  BY <1>1, ClaimExclusion
<1>2. CASE LoadOrder(w)
  BY <1>2, LoadExclusion
<1>3. ASSUME NEW reply \in Replies, Answer(w, reply)
      PROVE  Exclusion'
  BY <1>3, AnswerExclusion
<1>4. CASE (\E o \in Orders : ClaimRefused(w, o)) \/ ReadBack(w) \/ FinishJob(w)
  <2>1. /\ UNCHANGED <<status, stale, paid, swRows, swDirty>>
        /\ wpc'[w] \in {"readback", "after", "idle"}
        /\ \A v \in Workers : v # w => wpc'[v] = wpc[v] /\ word'[v] = word[v] /\ wst'[v] = wst[v]
    BY <1>4 DEF ClaimRefused, ReadBack, FinishJob, WorkerEnds, WorkerGoes, IInv, TypeOK
  <2>2. \A v \in Workers : Live(v)' => Live(v) /\ word'[v] = word[v]
    BY <2>1 DEF Live
  <2>3. \A v \in Workers : wpc'[v] = "calling" => wpc[v] = "calling" /\ wst'[v] = wst[v]
    BY <2>1
  <2> QED
    BY <2>1, <2>2, <2>3, AuthorityShrinks DEF IInv
<1> QED
  BY <1>1, <1>2, <1>3, <1>4 DEF WorkerStep

\* A scan picks orders without an owner; an update only moves a row from the
\* rows to do to the rows done; a commit writes rows that nobody owns.
LEMMA SweepExclusion ==
  ASSUME OneSweeper, IInv, NEW s \in Sweepers, SweepStep(s)
  PROVE  Exclusion'
<1>l. UNCHANGED <<wpc, word, wst, stale, paid>>
  BY DEF SweepStep, SweepScan, SweepRow, SweepCommit
<1>v. \A w \in Workers : Live(w)' <=> Live(w)
  BY <1>l DEF Live
<1>u. \A p : Unowned(p)' <=> Unowned(p)
  BY <1>l, <1>v DEF Unowned
<1>e. ExclusiveExecution' /\ LoadedIsProcessing'
  BY <1>l, <1>v DEF IInv, Exclusion, ExclusiveExecution, LoadedIsProcessing
<1>1. CASE SweepScan(s)
  <2>1. /\ UNCHANGED <<status, swDirty>>
        /\ swRows' = [swRows EXCEPT ![s] = Stuck]
    BY <1>1 DEF SweepScan
  <2>2. LiveIsProcessing' /\ PaidIsSettled' /\ StaleIsDead'
    BY <1>l, <1>u, <1>v, <2>1
       DEF IInv, Exclusion, LiveIsProcessing, PaidIsSettled, StaleIsDead
  <2>3. \A p \in Stuck : paid[p] = 0 /\ status[p] = "processing" /\ Unowned(p)
    <3>1. paid \in [Orders -> Nat]
      BY DEF IInv, TypeOK
    <3>2. PaidIsSettled /\ StaleIsDead
      BY DEF IInv, Exclusion
    <3>3. \A p \in Stuck : p \in Orders /\ status[p] = "processing" /\ stale[p]
      BY DEF Stuck
    <3> QED
      BY <3>1, <3>2, <3>3 DEF PaidIsSettled, StaleIsDead
  <2>4. SweptIsDead'
    BY <1>l, <1>u, <2>1, <2>3 DEF IInv, TypeOK, Exclusion, SweptIsDead
  <2> QED
    BY <1>e, <2>2, <2>4 DEF Exclusion
<1>2. ASSUME NEW o \in Orders, SweepRow(s, o)
      PROVE  Exclusion'
  <2>1. /\ UNCHANGED status
        /\ \A t \in Sweepers : swRows'[t] \cup swDirty'[t] = swRows[t] \cup swDirty[t]
    BY <1>2 DEF SweepRow, IInv, TypeOK
  <2>2. LiveIsProcessing' /\ PaidIsSettled' /\ StaleIsDead'
    BY <1>l, <1>u, <1>v, <2>1
       DEF IInv, Exclusion, LiveIsProcessing, PaidIsSettled, StaleIsDead
  <2>3. SweptIsDead'
    BY <1>l, <1>u, <2>1 DEF IInv, Exclusion, SweptIsDead
  <2> QED
    BY <1>e, <2>2, <2>3 DEF Exclusion
<1>3. CASE SweepCommit(s)
  <2>1. \A t \in Sweepers : swRows'[t] \cup swDirty'[t] = {}
    BY <1>3 DEF OneSweeper, SweepCommit, SweepEnds, IInv, TypeOK
  <2>2. \A p \in Orders \ swDirty[s] : status'[p] = status[p]
    BY <1>3 DEF SweepCommit
  <2>3. \A p \in Orders \cap swDirty[s] :
          status'[p] # "processing" /\ paid[p] = 0 /\ Unowned(p)
    BY <1>3 DEF SweepCommit, IInv, Exclusion, SweptIsDead
  <2>4. LiveIsProcessing'
    <3> SUFFICES ASSUME NEW w \in Workers, Live(w)
                 PROVE  status'[word[w]] \in {"processing", "cancelled"}
      BY <1>l, <1>v DEF LiveIsProcessing
    <3>1. word[w] \in Orders \ swDirty[s]
      BY <2>3 DEF Unowned, Live, IInv, TypeOK
    <3> QED
      BY <3>1, <2>2 DEF IInv, Exclusion, LiveIsProcessing
  <2>5. PaidIsSettled'
    BY <1>l, <1>u, <2>2, <2>3 DEF IInv, TypeOK, Exclusion, PaidIsSettled
  <2>6. StaleIsDead'
    BY <1>l, <1>u, <2>2, <2>3 DEF IInv, Exclusion, StaleIsDead
  <2>7. SweptIsDead'
    BY <2>1 DEF SweptIsDead
  <2> QED
    BY <1>e, <2>4, <2>5, <2>6, <2>7 DEF Exclusion
<1> QED
  BY <1>1, <1>2, <1>3 DEF SweepStep

\* A claim grows old only when its job is gone.
LEMMA AgeExclusion ==
  ASSUME IInv, NEW o \in Orders, Age(o)
  PROVE  Exclusion'
<1>1. /\ Unowned(o)
      /\ UNCHANGED <<status, paid, swRows, swDirty, wpc, word, wst>>
      /\ \A p \in Orders : p # o => stale'[p] = stale[p]
  BY DEF Age, Unowned, IInv, TypeOK
<1>2. \A w \in Workers : Live(w)' <=> Live(w)
  BY <1>1 DEF Live
<1>3. \A p : Unowned(p)' <=> Unowned(p)
  BY <1>1, <1>2 DEF Unowned
<1>4. StaleIsDead'
  BY <1>1, <1>3 DEF IInv, Exclusion, StaleIsDead
<1>5. ExclusiveExecution' /\ LiveIsProcessing' /\ LoadedIsProcessing'
  BY <1>1, <1>2 DEF IInv, Exclusion, ExclusiveExecution, LiveIsProcessing, LoadedIsProcessing
<1>6. PaidIsSettled' /\ SweptIsDead'
  BY <1>1, <1>3 DEF IInv, Exclusion, PaidIsSettled, SweptIsDead
<1> QED
  BY <1>4, <1>5, <1>6 DEF Exclusion

\* Whatever breaks off, authority only shrinks.
LEMMA BreakExclusion ==
  ASSUME IInv, Break
  PROVE  Exclusion'
<1>1. ASSUME NEW w \in Workers, WorkerDies(w)
      PROVE  Exclusion'
  <2>1. /\ UNCHANGED <<status, stale, paid, swRows, swDirty>>
        /\ wpc'[w] = "idle"
        /\ \A v \in Workers : v # w => wpc'[v] = wpc[v] /\ word'[v] = word[v] /\ wst'[v] = wst[v]
    BY <1>1 DEF WorkerDies, WorkerEnds, WorkerGoes, IInv, TypeOK
  <2>2. \A v \in Workers : Live(v)' => Live(v) /\ word'[v] = word[v]
    BY <2>1 DEF Live
  <2>3. \A v \in Workers : wpc'[v] = "calling" => wpc[v] = "calling" /\ wst'[v] = wst[v]
    BY <2>1
  <2> QED
    BY <2>1, <2>2, <2>3, AuthorityShrinks DEF IInv
<1>2. ASSUME (\E o \in Orders : JobLost(o)) \/ (\E r \in Requests : RequestDies(r))
      PROVE  Exclusion'
  <2>1. UNCHANGED <<status, stale, paid, swRows, swDirty, wpc, word, wst>>
    BY <1>2 DEF JobLost, RequestDies
  <2> QED
    BY <2>1, AuthorityShrinks DEF IInv, Live
<1>3. ASSUME NEW s \in Sweepers, SweepDies(s)
      PROVE  Exclusion'
  <2>1. /\ UNCHANGED <<status, stale, paid, wpc, word, wst>>
        /\ \A t \in Sweepers : swRows'[t] \cup swDirty'[t] \subseteq swRows[t] \cup swDirty[t]
    BY <1>3 DEF SweepDies, SweepEnds, IInv, TypeOK
  <2>2. \A w \in Workers : Live(w)' <=> Live(w)
    BY <2>1 DEF Live
  <2>3. \A p : Unowned(p)' <=> Unowned(p)
    BY <2>1, <2>2 DEF Unowned
  <2>4. SweptIsDead'
    BY <2>1, <2>3 DEF IInv, Exclusion, SweptIsDead
  <2>5. ExclusiveExecution' /\ LiveIsProcessing' /\ LoadedIsProcessing'
    BY <2>1, <2>2 DEF IInv, Exclusion, ExclusiveExecution, LiveIsProcessing, LoadedIsProcessing
  <2>6. PaidIsSettled' /\ StaleIsDead'
    BY <2>1, <2>3 DEF IInv, Exclusion, PaidIsSettled, StaleIsDead
  <2> QED
    BY <2>4, <2>5, <2>6 DEF Exclusion
<1> QED
  BY <1>1, <1>2, <1>3 DEF Break

LEMMA NextInvariant ==
  ASSUME OneSweeper
  PROVE  IInv /\ [Next]_vars => IInv'
<1> SUFFICES ASSUME IInv, [Next]_vars
             PROVE  IInv'
  OBVIOUS
<1>1. TypeOK'
  BY NextType DEF IInv
<1>2. Exclusion'
  <2>1. CASE Next
    BY <2>1, ClientExclusion, RequestExclusion, WorkerExclusion, SweepExclusion,
       AgeExclusion, BreakExclusion DEF Next
  <2>2. CASE UNCHANGED vars
    BY <2>2, AuthorityShrinks DEF vars, IInv, Live
  <2> QED
    BY <2>1, <2>2
<1> QED
  BY <1>1, <1>2 DEF IInv

(***************************************************************************)
(* Exclusion is inductive for overlapping sweeps as well, if jobs are      *)
(* never cut off: then a claimed order keeps its owner until the outcome   *)
(* is written, it never grows stale, and sweeps find nothing.              *)
(***************************************************************************)

Attended == \A o \in Orders : status[o] = "processing" => ~Unowned(o)
Idle(s)  == swRows[s] = {} /\ swDirty[s] = {}
Calm     == Attended /\ \A s \in Sweepers : Idle(s)

\* A step of anything but a job, that puts no order into processing.
LEMMA StaysAttended ==
  ASSUME Attended, UNCHANGED <<wpc, word>>,
         \A o \in Orders : status'[o] = "processing" => status[o] = "processing"
  PROVE  Attended'
  BY DEF Attended, Unowned, Live

LEMMA RequestAttended ==
  ASSUME IInv, Attended, NEW r \in Requests, ClientStep(r) \/ RequestStep(r)
  PROVE  Attended'
<1>1. UNCHANGED <<wpc, word>>
  BY DEF ClientStep, CreateOrder, CheckCancel, CheckRetry, RequestStep, EnqueueOrder,
         MarkQueued, CancelOrder, ClaimRetry
<1>2. \/ UNCHANGED status
      \/ \E o \in Orders, st \in {"pending", "queued", "cancelled"} : SetStatus(o, st)
  <2>1. ASSUME NEW o \in Orders, CreateOrder(r, o)
        PROVE  SetStatus(o, "pending")
    BY <2>1 DEF CreateOrder
  <2>2. CASE RequestStep(r)
    <3>1. rpc[r] # "idle"
      BY <2>2 DEF RequestStep, EnqueueOrder, MarkQueued, CancelOrder, ClaimRetry
    <3>2. rord[r] \in Orders
      BY <3>1 DEF IInv, TypeOK
    <3> QED
      BY <2>2, <3>2 DEF RequestStep, EnqueueOrder, MarkQueued, CancelOrder, ClaimRetry
  <2> QED
    BY <2>1, <2>2 DEF ClientStep, CheckCancel, CheckRetry
<1>3. \A o \in Orders : status'[o] = "processing" => status[o] = "processing"
  BY <1>2 DEF SetStatus, IInv, TypeOK
<1> QED
  BY <1>1, <1>3, StaysAttended

LEMMA WorkerAttended ==
  ASSUME IInv, Attended, NEW w \in Workers, WorkerStep(w)
  PROVE  Attended'
<1>w. \A v \in Workers : v # w => wpc'[v] = wpc[v] /\ word'[v] = word[v]
  BY DEF WorkerStep, Answer, ClaimOrder, ClaimRefused, LoadOrder, CompleteOrder, RetryLater,
         FailForGood, ReadBack, FinishJob, WorkerEnds, WorkerGoes, IInv, TypeOK
<1>1. ASSUME NEW o \in Orders, ClaimOrder(w, o)
      PROVE  Attended'
  <2>1. /\ ~Live(w) /\ Live(w)' /\ word'[w] = o
        /\ \A p \in Orders : p # o => status'[p] = status[p]
    BY <1>1 DEF ClaimOrder, SetStatus, WorkerGoes, Live, IInv, TypeOK
  <2> QED
    BY <1>w, <2>1 DEF Attended, Unowned, Live
<1>2. CASE LoadOrder(w)
  <2>1. Live(w)' /\ word'[w] = word[w] /\ UNCHANGED status
    BY <1>2 DEF LoadOrder, WorkerGoes, Live, IInv, TypeOK
  <2> QED
    BY <1>w, <2>1 DEF Attended, Unowned, Live
<1>3. ASSUME NEW reply \in Replies, Answer(w, reply)
      PROVE  Attended'
  <2>1. /\ wst[w] \in {"processing", "cancelled"}
        /\ \E st \in {"completed", "pending", "failed"} : Flush(w, st)
    BY <1>3 DEF Answer, CompleteOrder, RetryLater, FailForGood, IInv, Exclusion,
                LoadedIsProcessing
  <2>2. \A p \in Orders : IF p = word[w] THEN status'[p] # "processing"
                          ELSE status'[p] = status[p]
    BY <2>1 DEF Flush, SetStatus, IInv, TypeOK
  <2> QED
    BY <1>w, <2>2 DEF Attended, Unowned, Live
<1>4. CASE (\E o \in Orders : ClaimRefused(w, o)) \/ ReadBack(w) \/ FinishJob(w)
  <2>1. ~Live(w) /\ UNCHANGED status
    BY <1>4 DEF ClaimRefused, ReadBack, FinishJob, Live
  <2> QED
    BY <1>w, <2>1 DEF Attended, Unowned, Live
<1> QED
  BY <1>1, <1>2, <1>3, <1>4 DEF WorkerStep

\* While all is calm no sweep does anything, and no claim grows old.
LEMMA NothingToSweep ==
  ASSUME IInv, Calm
  PROVE  /\ \A s \in Sweepers : ~SweepStep(s) /\ ~SweepDies(s)
         /\ \A o \in Orders : ~Age(o)
<1>1. Stuck = {}
  BY DEF Stuck, Calm, Attended, IInv, Exclusion, StaleIsDead
<1>2. \A o \in Orders : ~Age(o)
  BY DEF Age, Calm, Attended, Unowned
<1> QED
  BY <1>1, <1>2 DEF Calm, Idle, SweepStep, SweepScan, SweepRow, SweepCommit, SweepDies

LEMMA NextCalm ==
  ASSUME "worker" \notin Interruptible
  PROVE  IInv /\ Calm /\ [Next]_vars => IInv' /\ Calm'
<1> SUFFICES ASSUME IInv, Calm, [Next]_vars
             PROVE  IInv' /\ Calm'
  OBVIOUS
<1>1. TypeOK'
  BY NextType DEF IInv
<1>2. \A w \in Workers : ~WorkerDies(w)
  BY DEF WorkerDies, Breaks
<1>3. Exclusion'
  <2>1. CASE UNCHANGED vars
    BY <2>1, AuthorityShrinks DEF vars, IInv, Live
  <2> QED
    BY <2>1, NothingToSweep, ClientExclusion, RequestExclusion, WorkerExclusion,
       BreakExclusion DEF Next
<1>4. Attended'
  <2>1. CASE Break
    <3>1. UNCHANGED <<wpc, word, status>>
      BY <1>2, <2>1 DEF Break, JobLost, RequestDies, SweepDies
    <3> QED
      BY <3>1, StaysAttended DEF Calm
  <2>2. CASE UNCHANGED vars
    BY <2>2, StaysAttended DEF vars, Calm
  <2> QED
    BY <2>1, <2>2, NothingToSweep, RequestAttended, WorkerAttended DEF Next, Calm
<1>5. \A s \in Sweepers : Idle(s)'
  <2>1. UNCHANGED sweepVars
    BY <1>2, NothingToSweep
       DEF Next, ClientStep, CreateOrder, CheckCancel, CheckRetry, RequestStep, EnqueueOrder,
           MarkQueued, CancelOrder, ClaimRetry, WorkerStep, Answer, ClaimOrder, ClaimRefused,
           LoadOrder, CompleteOrder, RetryLater, FailForGood, ReadBack, FinishJob, Break,
           JobLost, RequestDies, vars
  <2> QED
    BY <2>1 DEF Calm, Idle
<1> QED
  BY <1>1, <1>3, <1>4, <1>5 DEF IInv, Calm

LEMMA CalmInvariance ==
  ASSUME "worker" \notin Interruptible
  PROVE  Spec => [](IInv /\ Calm)
<1>1. Init => IInv /\ Calm
  BY InitType, InitExclusion DEF IInv, Calm, Attended, Idle, Init
<1>2. IInv /\ Calm /\ [Next]_vars => IInv' /\ Calm'
  BY NextCalm
<1> QED
  BY <1>1, <1>2, PTL DEF Spec

LEMMA Invariance ==
  ASSUME SweepsExclude
  PROVE  Spec => []IInv
<1>1. CASE OneSweeper
  <2>1. Init => IInv
    BY InitType, InitExclusion DEF IInv
  <2>2. IInv /\ [Next]_vars => IInv'
    BY <1>1, NextInvariant
  <2> QED
    BY <2>1, <2>2, PTL DEF Spec
<1>2. CASE "worker" \notin Interruptible
  <2>1. Spec => [](IInv /\ Calm)
    BY <1>2, CalmInvariance
  <2> QED
    BY <2>1, PTL
<1> QED
  BY <1>1, <1>2 DEF SweepsExclude

-----------------------------------------------------------------------------
\* However duplicate jobs, retries, cancellations, crashes and sweeps interleave,
\* one job at a time may call the provider for an order, unless sweeps overlap and
\* have something to find.
THEOREM Exclusive ==
  ASSUME SweepsExclude
  PROVE  Spec => []ExclusiveExecution
<1>1. IInv => ExclusiveExecution
  BY DEF IInv, Exclusion
<1> QED
  BY <1>1, Invariance, PTL

\* An order whose purchase is confirmed is never put back in line.
THEOREM NeverRequeued ==
  ASSUME SweepsExclude
  PROVE  Spec => []PaidOrderNeverRequeued
<1>1. IInv => PaidOrderNeverRequeued
  BY DEF IInv, Exclusion, PaidIsSettled, PaidOrderNeverRequeued
<1> QED
  BY <1>1, Invariance, PTL

-----------------------------------------------------------------------------
(***************************************************************************)
(* What is charged was asked for, or makes up for a charge nobody knew of. *)
(***************************************************************************)

\* One more purchase is owed to whoever asked for the order: one asked for, or one
\* that repeats a purchase the service could not know of.
Due(o) == paid[o] + unseen[o] < asked[o] + blind[o]

Open == {"pending", "queued", "processing"}

\* Whoever can still lead to a call works on an order with a purchase due: an
\* open status, a live job, a sweep that will make the order pending.
OpenIsDue  == \A o \in Orders : status[o] \in Open => Due(o)
LiveIsDue  == \A w \in Workers : Live(w) => Due(word[w])
SweptIsDue == \A s \in Sweepers : \A o \in swRows[s] \cup swDirty[s] : Due(o)

Accounted == ExtraChargesAreBlind /\ OpenIsDue /\ LiveIsDue /\ SweptIsDue

\* A purchase of which the service cannot know leaves as much due as there was.
PaysBlindly(o) ==
  /\ paid'[o] = paid[o]
  /\ \/ unseen'[o] = unseen[o] /\ blind'[o] = blind[o]
     \/ unseen'[o] = unseen[o] + 1 /\ blind'[o] = blind[o] + 1

\* A step without a purchase, or with such a one, after which only orders with a
\* purchase due have been opened, claimed or taken up by a sweep.
LEMMA NothingSeen ==
  ASSUME TypeOK, TypeOK', Accounted,
         \A o \in Orders : PaysBlindly(o),
         \A o \in Orders : asked'[o] >= asked[o],
         \A o \in Orders : status'[o] \in Open => status[o] \in Open \/ Due(o)',
         \A w \in Workers : Live(w)' => (Live(w) /\ word'[w] = word[w]) \/ Due(word[w])',
         \A s \in Sweepers : \A o \in swRows'[s] \cup swDirty'[s] :
           o \in swRows[s] \cup swDirty[s] \/ Due(o)'
  PROVE  Accounted'
<1>n. \A o \in Orders : /\ paid[o] \in Nat /\ unseen[o] \in Nat /\ blind[o] \in Nat
                        /\ asked[o] \in Nat /\ asked'[o] \in Nat
  BY DEF TypeOK
<1>d. \A o \in Orders : Due(o) => Due(o)'
  BY <1>n DEF Due, PaysBlindly
<1>1. ExtraChargesAreBlind'
  <2>1. ExtraChargesAreBlind
    BY DEF Accounted
  <2> QED
    BY <1>n, <2>1 DEF ExtraChargesAreBlind, PaysBlindly
<1>2. OpenIsDue'
  BY <1>d DEF OpenIsDue, Accounted
<1>3. LiveIsDue'
  <2>1. \A w \in Workers : Live(w) => word[w] \in Orders
    BY DEF Live, TypeOK
  <2>2. \A w \in Workers : Live(w) /\ word'[w] = word[w] => Due(word[w])'
    BY <1>d, <2>1 DEF Accounted, LiveIsDue, Due
  <2> QED
    BY <2>2 DEF LiveIsDue
<1>4. SweptIsDue'
  <2>1. \A s \in Sweepers : swRows[s] \cup swDirty[s] \subseteq Orders
    BY DEF TypeOK
  <2> QED
    BY <1>d, <2>1 DEF SweptIsDue, Accounted
<1> QED
  BY <1>1, <1>2, <1>3, <1>4 DEF Accounted

LEMMA NoPurchase ==
  ASSUME TypeOK, TypeOK', Accounted, UNCHANGED <<paid, unseen, blind>>,
         \A o \in Orders : asked'[o] >= asked[o],
         \A o \in Orders : status'[o] \in Open => status[o] \in Open \/ Due(o)',
         \A w \in Workers : Live(w)' => (Live(w) /\ word'[w] = word[w]) \/ Due(word[w])',
         \A s \in Sweepers : \A o \in swRows'[s] \cup swDirty'[s] :
           o \in swRows[s] \cup swDirty[s] \/ Due(o)'
  PROVE  Accounted'
<1>1. \A o \in Orders : PaysBlindly(o)
  BY DEF PaysBlindly
<1> QED
  BY <1>1, NothingSeen

LEMMA RequestAccounted ==
  ASSUME IInv, IInv', Accounted, NEW r \in Requests, ClientStep(r) \/ RequestStep(r)
  PROVE  Accounted'
<1>o. UNCHANGED <<paid, unseen, blind, wpc, word, swRows, swDirty>>
  BY DEF ClientStep, RequestStep, CreateOrder, CheckCancel, CheckRetry, EnqueueOrder,
         MarkQueued, CancelOrder, ClaimRetry
<1>l. \A w \in Workers : Live(w)' => Live(w) /\ word'[w] = word[w]
  BY <1>o DEF Live
<1>1. CASE UNCHANGED <<status, asked>>
  BY <1>o, <1>l, <1>1, NoPurchase DEF IInv, TypeOK
<1>2. ASSUME NEW o \in Orders, AsksFor(o), SetStatus(o, "pending")
      PROVE  Accounted'
  <2>1. \A p \in Orders : asked'[p] >= asked[p] /\ (p # o => status'[p] = status[p])
    BY <1>2 DEF AsksFor, SetStatus, IInv, TypeOK
  <2>2. Due(o)'
    BY <1>o, <1>2 DEF AsksFor, Due, Accounted, ExtraChargesAreBlind, IInv, TypeOK
  <2> QED
    BY <1>o, <1>l, <2>1, <2>2, NoPurchase DEF IInv
<1>3. ASSUME NEW o \in Orders, NEW st, UNCHANGED asked, SetStatus(o, st),
             st \in Open => status[o] \in Open
      PROVE  Accounted'
  <2>1. \A p \in Orders : status'[p] \in Open => status[p] \in Open
    BY <1>3 DEF SetStatus, IInv, TypeOK
  <2> QED
    BY <1>o, <1>l, <1>3, <2>1, NoPurchase DEF IInv, TypeOK
<1>4. CASE ClientStep(r)
  <2>1. PICK o \in Orders : CreateOrder(r, o) \/ CheckCancel(r, o) \/ CheckRetry(r, o)
    BY <1>4 DEF ClientStep
  <2>2. CASE CreateOrder(r, o)
    BY <2>2, <1>2 DEF CreateOrder
  <2>3. CASE CheckCancel(r, o) \/ CheckRetry(r, o)
    BY <2>3, <1>1 DEF CheckCancel, CheckRetry
  <2> QED
    BY <2>1, <2>2, <2>3
<1>5. CASE RequestStep(r)
  <2>1. CASE EnqueueOrder(r)
    BY <2>1, <1>1 DEF EnqueueOrder
  <2>2. CASE MarkQueued(r)
    <3>1. rord[r] \in Orders
      BY <2>2 DEF MarkQueued, IInv, TypeOK
    <3>2. UNCHANGED asked
      BY <2>2 DEF MarkQueued
    <3>3. UNCHANGED status \/ (SetStatus(rord[r], "queued") /\ status[rord[r]] \in Open)
      BY <2>2 DEF MarkQueued, Open
    <3> QED
      BY <3>1, <3>2, <3>3, <1>1, <1>3
  <2>3. CASE CancelOrder(r)
    <3>1. rord[r] \in Orders
      BY <2>3 DEF CancelOrder, IInv, TypeOK
    <3>2. UNCHANGED asked /\ SetStatus(rord[r], "cancelled")
      BY <2>3 DEF CancelOrder
    <3>3. "cancelled" \notin Open
      BY DEF Open
    <3> QED
      BY <3>1, <3>2, <3>3, <1>3
  <2>4. CASE ClaimRetry(r)
    <3>1. rord[r] \in Orders
      BY <2>4 DEF ClaimRetry, IInv, TypeOK
    <3>2. \/ AsksFor(rord[r]) /\ SetStatus(rord[r], "pending")
          \/ UNCHANGED <<status, asked>>
      BY <2>4 DEF ClaimRetry
    <3> QED
      BY <3>1, <3>2, <1>1, <1>2
  <2> QED
    BY <1>5, <2>1, <2>2, <2>3, <2>4 DEF RequestStep
<1> QED
  BY <1>4, <1>5

\* The answer that may charge closes the order, whose only owner it ends.
LEMMA AnswerAccounted ==
  ASSUME IInv, IInv', Accounted,
         NEW w \in Workers, NEW reply \in Replies, Answer(w, reply)
  PROVE  Accounted'
<1>0. PICK o \in Orders : o = word[w]
  BY DEF Answer, CompleteOrder, RetryLater, FailForGood, IInv, TypeOK
<1>1. /\ Live(w) /\ ~Live(w)'
      /\ Charge(o, reply)
      /\ \A v \in Workers : v # w => wpc'[v] = wpc[v] /\ word'[v] = word[v]
      /\ UNCHANGED <<asked, swRows, swDirty>>
  BY <1>0 DEF Answer, CompleteOrder, RetryLater, FailForGood, WorkerGoes, Live, IInv, TypeOK
<1>2. \A v \in Workers : Live(v)' => Live(v) /\ word'[v] = word[v] /\ word[v] # o
  BY <1>0, <1>1 DEF Live, IInv, Exclusion, ExclusiveExecution
<1>3. \A s \in Sweepers : o \notin swRows[s] \cup swDirty[s]
  BY <1>0, <1>1 DEF IInv, Exclusion, SweptIsDead, Unowned
<1>4. Due(o)
  BY <1>0, <1>1 DEF Accounted, LiveIsDue
<1>5. \A p \in Orders : p # o => /\ paid'[p] = paid[p] /\ unseen'[p] = unseen[p]
                               /\ blind'[p] = blind[p] /\ status'[p] = status[p]
  BY <1>0, <1>1 DEF Answer, CompleteOrder, RetryLater, FailForGood, Flush, SetStatus, Charge,
                    IInv, TypeOK
<1>6. CASE reply.verdict = "success" \/ reply.verdict = "permanent"
           \/ FailForGood(w, reply)
  <2>1. status'[o] \notin Open
    <3>1. wst[w] \in {"processing", "cancelled"}
      BY <1>0 DEF Answer, CompleteOrder, RetryLater, FailForGood, IInv, Exclusion,
                  LoadedIsProcessing
    <3>2. Flush(w, "completed") \/ Flush(w, "failed")
      BY <1>6 DEF Answer, CompleteOrder, RetryLater, FailForGood
    <3> QED
      BY <1>0, <3>1, <3>2 DEF Flush, SetStatus, Open, IInv, TypeOK
  <2>2. /\ paid'[o] + unseen'[o] <= paid[o] + unseen[o] + 1
        /\ blind'[o] >= blind[o]
    <3>1. paid'[o] + unseen'[o] <= paid[o] + unseen[o] + 1
      BY <1>1 DEF Charge, IInv, TypeOK
    <3>2. blind'[o] >= blind[o]
      BY <1>0 DEF Answer, CompleteOrder, RetryLater, FailForGood, IInv, TypeOK
    <3> QED
      BY <3>1, <3>2
  <2>3. ExtraChargesAreBlind'
    <3>1. paid'[o] + unseen'[o] <= asked'[o] + blind'[o]
      BY <1>1, <1>4, <2>2 DEF Due, IInv, TypeOK
    <3>2. \A p \in Orders : p # o => paid'[p] + unseen'[p] <= asked'[p] + blind'[p]
      BY <1>1, <1>5 DEF Accounted, ExtraChargesAreBlind
    <3> QED
      BY <3>1, <3>2 DEF ExtraChargesAreBlind
  <2>4. OpenIsDue'
    BY <1>1, <1>5, <2>1 DEF Accounted, OpenIsDue, Due
  <2>5. LiveIsDue'
    <3>1. \A v \in Workers : Live(v) => word[v] \in Orders
      BY DEF Live, IInv, TypeOK
    <3> QED
      BY <1>1, <1>2, <1>5, <3>1 DEF Accounted, LiveIsDue, Due
  <2>6. SweptIsDue'
    <3>1. \A s \in Sweepers : swRows[s] \cup swDirty[s] \subseteq Orders
      BY DEF IInv, TypeOK
    <3> QED
      BY <1>1, <1>3, <1>5, <3>1 DEF Accounted, SweptIsDue, Due
  <2> QED
    BY <2>3, <2>4, <2>5, <2>6 DEF Accounted
<1>7. CASE RetryLater(w, reply)
  <2>1. PaysBlindly(o)
    <3>1. /\ reply.verdict # "success"
          /\ blind' = [blind EXCEPT ![o] = IF reply.charged THEN blind[o] + 1 ELSE blind[o]]
      BY <1>0, <1>7 DEF RetryLater
    <3> QED
      BY <1>1, <3>1 DEF Charge, PaysBlindly, IInv, TypeOK
  <2>2. \A p \in Orders : PaysBlindly(p)
    BY <1>5, <2>1 DEF PaysBlindly
  <2>3. Due(o)'
    BY <1>1, <1>4, <2>1 DEF Due, PaysBlindly, IInv, TypeOK
  <2> QED
    <3>1. \A p \in Orders : asked'[p] >= asked[p]
      BY <1>1 DEF IInv, TypeOK
    <3>2. \A p \in Orders : status'[p] \in Open => status[p] \in Open \/ Due(p)'
      BY <1>5, <2>3
    <3>3. TypeOK /\ TypeOK'
      BY DEF IInv
    <3> QED
      BY <1>1, <1>2, <2>2, <3>1, <3>2, <3>3, NothingSeen
<1> QED
  BY <1>6, <1>7 DEF Answer, CompleteOrder

LEMMA WorkerAccounted ==
  ASSUME IInv, IInv', Accounted, NEW w \in Workers, WorkerStep(w)
  PROVE  Accounted'
<1>1. ASSUME NEW o \in Orders, ClaimOrder(w, o)
      PROVE  Accounted'
  <2>1. UNCHANGED <<paid, unseen, blind, asked, swRows, swDirty>>
    BY <1>1 DEF ClaimOrder
  <2>2. status[o] \in Open
    BY <1>1 DEF ClaimOrder, Claimable, Open
  <2>3. Due(o)'
    BY <2>1, <2>2 DEF Accounted, OpenIsDue, Due
  <2>4. \A p \in Orders : p # o => status'[p] = status[p]
    BY <1>1 DEF ClaimOrder, SetStatus, IInv, TypeOK
  <2>5. /\ word'[w] = o
        /\ \A v \in Workers : v # w => wpc'[v] = wpc[v] /\ word'[v] = word[v]
    BY <1>1 DEF ClaimOrder, WorkerGoes, IInv, TypeOK
  <2>6. \A v \in Workers : Live(v)' => (Live(v) /\ word'[v] = word[v]) \/ Due(word[v])'
    BY <2>3, <2>5 DEF Live, Due
  <2> QED
    <3>1. \A p \in Orders : asked'[p] >= asked[p]
      BY <2>1 DEF IInv, TypeOK
    <3>2. \A p \in Orders : status'[p] \in Open => status[p] \in Open \/ Due(p)'
      BY <2>3, <2>4
    <3>3. TypeOK /\ TypeOK'
      BY DEF IInv
    <3> QED
      BY <2>1, <2>6, <3>1, <3>2, <3>3, NoPurchase
<1>2. ASSUME NEW reply \in Replies, Answer(w, reply)
      PROVE  Accounted'
  BY <1>2, AnswerAccounted
<1>3. CASE LoadOrder(w) \/ ReadBack(w) \/ FinishJob(w) \/ (\E o \in Orders : ClaimRefused(w, o))
  <2>1. UNCHANGED <<paid, unseen, blind, asked, status, swRows, swDirty>>
    BY <1>3 DEF LoadOrder, ReadBack, FinishJob, ClaimRefused
  <2>2. /\ Live(w)' => Live(w) /\ word'[w] = word[w]
        /\ \A v \in Workers : v # w => wpc'[v] = wpc[v] /\ word'[v] = word[v]
    BY <1>3 DEF LoadOrder, ReadBack, FinishJob, ClaimRefused, WorkerEnds, WorkerGoes, Live,
                IInv, TypeOK
  <2>3. \A v \in Workers : Live(v)' => Live(v) /\ word'[v] = word[v]
    BY <2>2 DEF Live
  <2> QED
    BY <2>1, <2>3, NoPurchase DEF IInv, TypeOK
<1> QED
  BY <1>1, <1>2, <1>3 DEF WorkerStep

LEMMA SweepAccounted ==
  ASSUME IInv, IInv', Accounted, NEW s \in Sweepers, SweepStep(s)
  PROVE  Accounted'
<1>o. UNCHANGED <<paid, unseen, blind, asked, wpc, word>>
  BY DEF SweepStep, SweepScan, SweepRow, SweepCommit
<1>l. \A w \in Workers : Live(w)' => Live(w) /\ word'[w] = word[w]
  BY <1>o DEF Live
<1>d. \A o \in Orders : Due(o) => Due(o)'
  BY <1>o DEF Due
<1>1. \A o \in Orders : status'[o] \in Open => status[o] \in Open \/ Due(o)'
  <2>1. CASE SweepCommit(s)
    BY <1>d, <2>1 DEF SweepCommit, Accounted, SweptIsDue
  <2>2. CASE UNCHANGED status
    BY <2>2
  <2> QED
    BY <2>1, <2>2 DEF SweepStep, SweepScan, SweepRow
<1>2. \A t \in Sweepers : \A o \in swRows'[t] \cup swDirty'[t] :
        o \in swRows[t] \cup swDirty[t] \/ Due(o)'
  <2>1. CASE SweepScan(s)
    <3>1. \A o \in Stuck : Due(o)'
      BY <1>d DEF Stuck, Accounted, OpenIsDue, Open
    <3> QED
      BY <2>1, <3>1 DEF SweepScan, IInv, TypeOK
  <2>2. CASE SweepCommit(s)
    BY <2>2 DEF SweepCommit, SweepEnds, IInv, TypeOK
  <2>3. ASSUME NEW o \in Orders, SweepRow(s, o)
        PROVE  \A t \in Sweepers : swRows'[t] \cup swDirty'[t] = swRows[t] \cup swDirty[t]
    BY <2>3 DEF SweepRow, IInv, TypeOK
  <2> QED
    BY <2>1, <2>2, <2>3 DEF SweepStep
<1> QED
  BY <1>o, <1>l, <1>1, <1>2, NoPurchase DEF IInv, TypeOK

\* What breaks off opens no order; a job that dies in its call may leave a purchase
\* behind of which nobody knows.
LEMMA BreakAccounted ==
  ASSUME IInv, IInv', Accounted, Break
  PROVE  Accounted'
<1>1. UNCHANGED <<paid, asked, status>>
  BY DEF Break, WorkerDies, JobLost, RequestDies, SweepDies
<1>2. \A o \in Orders : PaysBlindly(o)
  BY DEF Break, WorkerDies, JobLost, RequestDies, SweepDies, PaysBlindly, IInv, TypeOK
<1>3. \A s \in Sweepers : swRows'[s] \cup swDirty'[s] \subseteq swRows[s] \cup swDirty[s]
  <2>1. /\ swRows \in [Sweepers -> SUBSET Orders]
        /\ swDirty \in [Sweepers -> SUBSET Orders]
    BY DEF IInv, TypeOK
  <2>2. ASSUME NEW t \in Sweepers, SweepDies(t)
        PROVE  \A s \in Sweepers : swRows'[s] \cup swDirty'[s] \subseteq swRows[s] \cup swDirty[s]
    BY <2>1, <2>2 DEF SweepDies, SweepEnds
  <2>3. CASE UNCHANGED sweepVars
    BY <2>3
  <2> QED
    BY <2>2, <2>3 DEF Break, WorkerDies, JobLost, RequestDies
<1>4. \A w \in Workers : Live(w)' => Live(w) /\ word'[w] = word[w]
  <2>1. ASSUME NEW v \in Workers, WorkerDies(v)
        PROVE  \A w \in Workers : Live(w)' => Live(w) /\ word'[w] = word[w]
    BY <2>1 DEF WorkerDies, WorkerEnds, WorkerGoes, Live, IInv, TypeOK
  <2>2. CASE UNCHANGED <<wpc, word>>
    BY <2>2 DEF Live
  <2> QED
    BY <2>1, <2>2 DEF Break, JobLost, RequestDies, SweepDies
<1> QED
  BY <1>1, <1>2, <1>3, <1>4, NothingSeen DEF IInv, TypeOK

\* Every charge that nobody asked for makes up, one for one, for a charge of which the
\* service could not know: one in the hands of a job that died, or behind a failure
\* that the adapter took for temporary.  Duplicate jobs, retries, cancellations,
\* sweeps, lost requests and lost queue entries add none, whatever the provider does.
THEOREM ChargedAsAskedOrBlind ==
  ASSUME SweepsExclude
  PROVE  Spec => []ExtraChargesAreBlind
<1>1. Init => Accounted
  BY DEF Init, Accounted, ExtraChargesAreBlind, OpenIsDue, LiveIsDue, SweptIsDue, Open, Live
<1>2. IInv /\ IInv' /\ Accounted /\ [Next]_vars => Accounted'
  <2> SUFFICES ASSUME IInv, IInv', Accounted, [Next]_vars
               PROVE  Accounted'
    OBVIOUS
  <2>1. CASE Next
    <3>1. CASE \E o \in Orders : Age(o)
      <4>1. UNCHANGED <<paid, unseen, blind, asked, status, wpc, word, swRows, swDirty>>
        BY <3>1 DEF Age
      <4>2. \A w \in Workers : Live(w)' => Live(w) /\ word'[w] = word[w]
        BY <4>1 DEF Live
      <4> QED
        BY <4>1, <4>2, NoPurchase DEF IInv, TypeOK
    <3> QED
      BY <2>1, <3>1, RequestAccounted, WorkerAccounted, SweepAccounted, BreakAccounted DEF Next
  <2>2. CASE UNCHANGED vars
    <3>1. \A w \in Workers : Live(w)' => Live(w) /\ word'[w] = word[w]
      BY <2>2 DEF vars, Live
    <3>2. UNCHANGED <<paid, unseen, blind, asked, status, swRows, swDirty>>
      BY <2>2 DEF vars
    <3> QED
      BY <3>1, <3>2, NoPurchase DEF IInv, TypeOK
  <2> QED
    BY <2>1, <2>2
<1>3. Accounted => ExtraChargesAreBlind
  BY DEF Accounted
<1> QED
  BY <1>1, <1>2, <1>3, Invariance, PTL DEF Spec

-----------------------------------------------------------------------------
(***************************************************************************)
(* The pipeline implements PaymentLedger.                                  *)
(***************************************************************************)

\* The ledger's variables, as functions of the pipeline's state.
LedgerOpen == [o \in Orders |-> \E w \in Workers : Live(w) /\ word[w] = o]
LedgerPaid == [o \in Orders |-> paid[o] > 0]

\* A step that changes neither a purchase nor who may call is a stutter.
LEMMA LedgerStutter ==
  ASSUME UNCHANGED paid,
         \A w \in Workers : (Live(w)' <=> Live(w)) /\ (Live(w) => word'[w] = word[w])
  PROVE  UNCHANGED <<LedgerOpen, LedgerPaid>>
<1>1. \A o : (\E w \in Workers : Live(w)' /\ word'[w] = o)
               <=> (\E w \in Workers : Live(w) /\ word[w] = o)
  OBVIOUS
<1>2. LedgerOpen' = LedgerOpen
  BY <1>1 DEF LedgerOpen
<1>3. LedgerPaid' = LedgerPaid
  BY DEF LedgerPaid
<1> QED
  BY <1>2, <1>3

\* When the only owner of an order lets go, exactly that order closes.
LEMMA LedgerCloses ==
  ASSUME IInv, NEW w \in Workers, Live(w), ~Live(w)',
         \A v \in Workers : v # w => wpc'[v] = wpc[v] /\ word'[v] = word[v]
  PROVE  /\ word[w] \in Orders
         /\ LedgerOpen[word[w]]
         /\ LedgerOpen' = [LedgerOpen EXCEPT ![word[w]] = FALSE]
<1>0. PICK o \in Orders : o = word[w]
  BY DEF Live, IInv, TypeOK
<1>1. \A v \in Workers : v # w => (Live(v)' <=> Live(v)) /\ (Live(v) => word[v] # o)
  BY <1>0 DEF Live, IInv, Exclusion, ExclusiveExecution
<1>2. \A p \in Orders : p # o =>
        ((\E v \in Workers : Live(v)' /\ word'[v] = p)
           <=> (\E v \in Workers : Live(v) /\ word[v] = p))
  BY <1>0, <1>1
<1>3. ~(\E v \in Workers : Live(v)' /\ word'[v] = o)
  BY <1>1 DEF Live
<1>4. LedgerOpen' = [p \in Orders |-> \E v \in Workers : Live(v)' /\ word'[v] = p]
  BY DEF LedgerOpen
<1>5. LedgerOpen' = [LedgerOpen EXCEPT ![o] = FALSE]
  <2>1. \A p \in Orders : p # o => LedgerOpen'[p] = LedgerOpen[p]
    BY <1>2, <1>4 DEF LedgerOpen
  <2>2. LedgerOpen'[o] = FALSE
    BY <1>0, <1>3, <1>4
  <2>3. LedgerOpen' = [p \in Orders |-> LedgerOpen'[p]]
    BY <1>4
  <2>4. LedgerOpen = [p \in Orders |-> LedgerOpen[p]]
    BY DEF LedgerOpen
  <2> QED
    BY <1>0, <2>1, <2>2, <2>3, <2>4
<1>6. LedgerOpen[o]
  BY <1>0 DEF LedgerOpen
<1> QED
  BY <1>0, <1>5, <1>6

LEMMA ClaimAuthorises ==
  ASSUME IInv, NEW w \in Workers, NEW o \in Orders, ClaimOrder(w, o)
  PROVE  Ledger!Authorise(o)
<1>1. Unowned(o) /\ paid[o] = 0
  BY WaitingIsUnowned DEF ClaimOrder, Claimable, IInv
<1>2. /\ Live(w)' /\ word'[w] = o /\ ~Live(w)
      /\ \A v \in Workers : v # w => wpc'[v] = wpc[v] /\ word'[v] = word[v]
      /\ UNCHANGED paid
  BY DEF ClaimOrder, WorkerGoes, Live, IInv, TypeOK
<1>3. \A v \in Workers : v # w => (Live(v)' <=> Live(v))
  BY <1>2 DEF Live
<1>4. LedgerOpen' = [p \in Orders |-> \E v \in Workers : Live(v)' /\ word'[v] = p]
  BY DEF LedgerOpen
<1>5. \A p \in Orders : p # o =>
        ((\E v \in Workers : Live(v)' /\ word'[v] = p)
           <=> (\E v \in Workers : Live(v) /\ word[v] = p))
  BY <1>2, <1>3
<1>6. LedgerOpen' = [LedgerOpen EXCEPT ![o] = TRUE]
  BY <1>2, <1>4, <1>5 DEF LedgerOpen
<1>7. ~LedgerOpen[o] /\ ~LedgerPaid[o]
  <2>1. ~LedgerOpen[o]
    BY <1>1 DEF LedgerOpen, Unowned
  <2>2. ~(paid[o] > 0)
    BY <1>1
  <2>3. ~LedgerPaid[o]
    BY <2>2 DEF LedgerPaid
  <2> QED
    BY <2>1, <2>3
<1>8. UNCHANGED LedgerPaid
  BY <1>2 DEF LedgerPaid
<1> QED
  BY <1>6, <1>7, <1>8 DEF Ledger!Authorise, LedgerOpen, LedgerPaid

\* A success confirms the purchase, a failure gives it up.
LEMMA AnswerSettles ==
  ASSUME IInv, NEW w \in Workers, NEW reply \in Replies, Answer(w, reply)
  PROVE  \E o \in Orders : Ledger!Confirm(o) \/ Ledger!GiveUp(o)
<1>0. PICK o \in Orders : o = word[w]
  BY DEF Answer, CompleteOrder, RetryLater, FailForGood, IInv, TypeOK
<1>1. Live(w)
  BY DEF Answer, CompleteOrder, RetryLater, FailForGood, Live
<1>2. /\ ~Live(w)'
      /\ \A v \in Workers : v # w => wpc'[v] = wpc[v] /\ word'[v] = word[v]
  BY DEF Answer, CompleteOrder, RetryLater, FailForGood, WorkerGoes, Live, IInv, TypeOK
<1>3. LedgerOpen[o] /\ LedgerOpen' = [LedgerOpen EXCEPT ![o] = FALSE]
  BY <1>0, <1>1, <1>2, LedgerCloses
<1>4. CASE CompleteOrder(w, reply)
  <2>1. paid' = [paid EXCEPT ![o] = paid[o] + 1]
    BY <1>0, <1>4 DEF CompleteOrder, Charge
  <2>2. \A p \in Orders : IF p = o THEN paid'[p] > 0 ELSE paid'[p] = paid[p]
    BY <2>1 DEF IInv, TypeOK
  <2>3. LedgerPaid' = [p \in Orders |-> paid'[p] > 0]
    BY DEF LedgerPaid
  <2>4. LedgerPaid' = [LedgerPaid EXCEPT ![o] = TRUE]
    BY <2>2, <2>3 DEF LedgerPaid
  <2>5. Ledger!Confirm(o)
    BY <1>3, <2>4 DEF Ledger!Confirm, LedgerOpen, LedgerPaid
  <2> QED
    BY <2>5
<1>5. CASE RetryLater(w, reply) \/ FailForGood(w, reply)
  <2>1. paid' = [paid EXCEPT ![o] = paid[o]]
    BY <1>0, <1>5 DEF RetryLater, FailForGood, Charge
  <2>2. UNCHANGED paid
    BY <2>1 DEF IInv, TypeOK
  <2>3. UNCHANGED LedgerPaid
    BY <2>2 DEF LedgerPaid
  <2>4. Ledger!GiveUp(o)
    BY <1>3, <2>3 DEF Ledger!GiveUp, LedgerOpen, LedgerPaid
  <2> QED
    BY <2>4
<1> QED
  BY <1>4, <1>5 DEF Answer

LEMMA WorkerLedger ==
  ASSUME IInv, NEW w \in Workers, WorkerStep(w)
  PROVE  Ledger!Next \/ UNCHANGED <<LedgerOpen, LedgerPaid>>
<1>1. ASSUME NEW o \in Orders, ClaimOrder(w, o)
      PROVE  Ledger!Next
  BY <1>1, ClaimAuthorises DEF Ledger!Next
<1>2. ASSUME NEW reply \in Replies, Answer(w, reply)
      PROVE  Ledger!Next
  BY <1>2, AnswerSettles DEF Ledger!Next
<1>3. CASE LoadOrder(w) \/ ReadBack(w) \/ FinishJob(w) \/ (\E o \in Orders : ClaimRefused(w, o))
  <2>1. UNCHANGED paid
    BY <1>3 DEF LoadOrder, ReadBack, FinishJob, ClaimRefused
  <2>2. \A v \in Workers : v # w => wpc'[v] = wpc[v] /\ word'[v] = word[v]
    BY <1>3 DEF LoadOrder, ReadBack, FinishJob, ClaimRefused, WorkerEnds, WorkerGoes, IInv, TypeOK
  <2>3. (Live(w)' <=> Live(w)) /\ (Live(w) => word'[w] = word[w])
    BY <1>3 DEF LoadOrder, ReadBack, FinishJob, ClaimRefused, WorkerEnds, WorkerGoes,
                Live, IInv, TypeOK
  <2>4. \A v \in Workers : (Live(v)' <=> Live(v)) /\ (Live(v) => word'[v] = word[v])
    BY <2>2, <2>3 DEF Live
  <2> QED
    BY <2>1, <2>4, LedgerStutter
<1> QED
  BY <1>1, <1>2, <1>3 DEF WorkerStep

LEMMA BreakLedger ==
  ASSUME IInv, Break
  PROVE  Ledger!Next \/ UNCHANGED <<LedgerOpen, LedgerPaid>>
<1>1. ASSUME NEW w \in Workers, WorkerDies(w)
      PROVE  Ledger!Next \/ UNCHANGED <<LedgerOpen, LedgerPaid>>
  <2>1. /\ UNCHANGED paid
        /\ ~Live(w)'
        /\ \A v \in Workers : v # w => wpc'[v] = wpc[v] /\ word'[v] = word[v]
    BY <1>1 DEF WorkerDies, WorkerEnds, WorkerGoes, Live, IInv, TypeOK
  <2>2. CASE Live(w)
    <3>0. PICK o \in Orders : o = word[w]
      BY <2>2 DEF Live, IInv, TypeOK
    <3>1. LedgerOpen[o] /\ LedgerOpen' = [LedgerOpen EXCEPT ![o] = FALSE]
      BY <3>0, <2>1, <2>2, LedgerCloses
    <3>2. UNCHANGED LedgerPaid
      BY <2>1 DEF LedgerPaid
    <3>3. Ledger!GiveUp(o)
      BY <3>1, <3>2 DEF Ledger!GiveUp, LedgerOpen, LedgerPaid
    <3> QED
      BY <3>3 DEF Ledger!Next
  <2>3. CASE ~Live(w)
    <3>1. \A v \in Workers : (Live(v)' <=> Live(v)) /\ (Live(v) => word'[v] = word[v])
      BY <2>1, <2>3 DEF Live
    <3> QED
      BY <2>1, <3>1, LedgerStutter
  <2> QED
    BY <2>2, <2>3
<1>2. ASSUME \/ \E o \in Orders : JobLost(o)
             \/ \E r \in Requests : RequestDies(r)
             \/ \E s \in Sweepers : SweepDies(s)
      PROVE  UNCHANGED <<LedgerOpen, LedgerPaid>>
  <2>1. UNCHANGED <<paid, wpc, word>>
    BY <1>2 DEF JobLost, RequestDies, SweepDies
  <2> QED
    BY <2>1, LedgerStutter DEF Live
<1> QED
  BY <1>1, <1>2 DEF Break

LEMMA NextLedger == IInv /\ [Next]_vars => Ledger!Next \/ UNCHANGED <<LedgerOpen, LedgerPaid>>
<1> SUFFICES ASSUME IInv, [Next]_vars
             PROVE  Ledger!Next \/ UNCHANGED <<LedgerOpen, LedgerPaid>>
  OBVIOUS
<1>1. CASE \E w \in Workers : WorkerStep(w)
  BY <1>1, WorkerLedger
<1>2. CASE Break
  BY <1>2, BreakLedger
<1>3. ASSUME \/ \E r \in Requests : ClientStep(r) \/ RequestStep(r)
             \/ \E s \in Sweepers : SweepStep(s)
             \/ \E o \in Orders : Age(o)
             \/ UNCHANGED vars
      PROVE  UNCHANGED <<LedgerOpen, LedgerPaid>>
  <2>1. UNCHANGED <<paid, wpc, word>>
    BY <1>3 DEF ClientStep, CreateOrder, CheckCancel, CheckRetry, RequestStep, EnqueueOrder,
                MarkQueued, CancelOrder, ClaimRetry, SweepStep, SweepScan, SweepRow,
                SweepCommit, Age, vars
  <2> QED
    BY <2>1, LedgerStutter DEF Live
<1> QED
  BY <1>1, <1>2, <1>3 DEF Next

\* The pipeline keeps the ledger's promise: authority to purchase is granted to
\* one job at a time, ends with it, and is never granted after a confirmed
\* purchase.
THEOREM LedgerRefinement ==
  ASSUME SweepsExclude
  PROVE  Spec => ImplementsLedger
<1>1. Init => Ledger!Init
  <2> SUFFICES ASSUME Init
               PROVE  Ledger!Init
    OBVIOUS
  <2>1. \A o \in Orders : (paid[o] > 0) = FALSE
    BY DEF Init
  <2>2. \A o : ~(\E w \in Workers : Live(w) /\ word[w] = o)
    BY DEF Init, Live
  <2>3. [o \in Orders |-> \E w \in Workers : Live(w) /\ word[w] = o] = [o \in Orders |-> FALSE]
    BY <2>2
  <2>4. [o \in Orders |-> paid[o] > 0] = [o \in Orders |-> FALSE]
    BY <2>1
  <2> QED
    BY <2>3, <2>4 DEF Ledger!Init
<1>2. IInv /\ [Next]_vars => [Ledger!Next]_<<LedgerOpen, LedgerPaid>>
  BY NextLedger
<1> QED
  BY <1>1, <1>2, Invariance, PTL DEF Spec, ImplementsLedger, Ledger!Spec, LedgerOpen, LedgerPaid
=============================================================================
