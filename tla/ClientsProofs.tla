---------------------------- MODULE ClientsProofs ----------------------------
(***************************************************************************)
(* Proofs about Clients for every number of clients, orders, admins,       *)
(* requests and jobs.                                                      *)
(***************************************************************************)
EXTENDS Clients, TLAPS

-----------------------------------------------------------------------------
(***************************************************************************)
(* The inductive invariant.                                                *)
(***************************************************************************)

\* A job that has claimed its order and may still call the provider.
Live(w) == wpc[w] \in {"claimed", "calling"}

\* The client a request has authenticated was there, and is while the request's
\* order is inserted: the deletion waits for the row lock.
ClientsWereThere ==
  \A r \in Requests :
    /\ rpc[r] # "idle" => rcl[r] \in ApiClients /\ row[rcl[r]] # "none"
    /\ rpc[r] = "commit" => row[rcl[r]] \in Present

\* A request that has inserted an order is the only one that has, and before its
\* commit nobody else knows of the order.
OrdersAreNew ==
  /\ \A r \in Requests : rpc[r] \in {"commit", "enqueue"} => rord[r] \in Orders
  /\ \A r \in Requests : rpc[r] = "commit" => status[rord[r]] = "none"
  /\ \A r, q \in Requests : rord[r] = rord[q] /\ rord[r] # NoOrder => r = q

\* A stored order has an owner, and the owner a row.
OwnersAreClients ==
  \A o \in Orders : status[o] \in Stored => owner[o] \in ApiClients

\* One job at a time may call the provider for an order; the order is being processed
\* or deleted, and if deleted under the call, that is on record.
JobsAreAlone ==
  /\ \A w \in Workers : wpc[w] # "idle" => word[w] \in Orders
  /\ \A w \in Workers : Live(w) => status[word[w]] \in {"processing", "gone"}
  /\ \A w \in Workers : wpc[w] = "calling" /\ status[word[w]] = "gone" => word[w] \in cut
  /\ \A w, v \in Workers : Live(w) /\ Live(v) /\ word[w] = word[v] => w = v

\* An admin who has loaded a client has loaded one that was there.
AdminsHaveClients ==
  \A a \in Admins : apc[a] # "idle" => acl[a] \in ApiClients

IInv ==
  /\ TypeOK
  /\ AdminsHaveClients
  /\ ClientsWereThere
  /\ OrdersAreNew
  /\ OwnersAreClients
  /\ JobsAreAlone
  /\ NoStrayRows

USE NoClientAssumption, NoOrderAssumption, MaxAttemptsAssumption
USE DEF adminVars, requestVars, orderVars, workerVars, Present, Stored

LEMMA InitInvariant == Init => IInv
  BY DEF Init, IInv, TypeOK, AdminsHaveClients, ClientsWereThere, OrdersAreNew,
         OwnersAreClients, JobsAreAlone, NoStrayRows, Live

-----------------------------------------------------------------------------
(***************************************************************************)
(* The parts of the invariant by what they depend on.                      *)
(***************************************************************************)

LEMMA JobsUnchanged ==
  ASSUME JobsAreAlone, UNCHANGED <<status, workerVars, cut>>
  PROVE  JobsAreAlone'
  BY DEF JobsAreAlone, Live

\* Clients, requests and the owners of orders.
Ownership ==
  AdminsHaveClients /\ ClientsWereThere /\ OrdersAreNew /\ OwnersAreClients /\ NoStrayRows

LEMMA InvariantParts == IInv <=> TypeOK /\ Ownership /\ JobsAreAlone
  BY DEF IInv, Ownership

-----------------------------------------------------------------------------
(***************************************************************************)
(* The admin's steps.                                                      *)
(***************************************************************************)

LEMMA CreateClientInvariant ==
  ASSUME IInv, NEW c \in ApiClients, CreateClient(c)
  PROVE  IInv'
<1>1. /\ row' \in [ApiClients -> Present \cup {"none", "deleted"}]
      /\ \A d \in ApiClients : row[d] \in Present => row'[d] \in Present
      /\ \A d \in ApiClients : row'[d] = "none" => row[d] = "none"
      /\ UNCHANGED <<adminVars, requestVars, orderVars, workerVars, died, cut>>
  BY DEF CreateClient, IInv, TypeOK
<1>2. TypeOK'
  BY <1>1 DEF IInv, TypeOK
<1>3. Ownership'
  BY <1>1 DEF IInv, Ownership, AdminsHaveClients, ClientsWereThere, OrdersAreNew,
              OwnersAreClients, NoStrayRows
<1>4. JobsAreAlone'
  BY <1>1, JobsUnchanged, InvariantParts
<1> QED
  BY <1>2, <1>3, <1>4, InvariantParts DEF IInv, Ownership

LEMMA LoadClientInvariant ==
  ASSUME IInv, NEW a \in Admins, NEW c \in ApiClients, NEW pc \in {"update", "delete"},
         NEW seen \in BOOLEAN, NEW want \in BOOLEAN, AdminGoes(a, pc, c, seen, want),
         UNCHANGED <<row, requestVars, orderVars, workerVars, died, cut>>
  PROVE  IInv'
<1>1. TypeOK'
  BY DEF AdminGoes, IInv, TypeOK
<1>2. Ownership'
  BY DEF AdminGoes, IInv, TypeOK, Ownership, AdminsHaveClients, ClientsWereThere,
         OrdersAreNew, OwnersAreClients, NoStrayRows
<1>3. JobsAreAlone'
  BY JobsUnchanged, InvariantParts
<1> QED
  BY <1>1, <1>2, <1>3 DEF IInv, Ownership

LEMMA SaveUpdateInvariant ==
  ASSUME IInv, NEW a \in Admins, SaveUpdate(a)
  PROVE  IInv'
<1>1. acl[a] \in ApiClients
  BY DEF SaveUpdate, IInv, AdminsHaveClients
<1>2. /\ row' \in [ApiClients -> Present \cup {"none", "deleted"}]
      /\ \A d \in ApiClients : row[d] \in Present => row'[d] \in Present
      /\ \A d \in ApiClients : row'[d] = "none" => row[d] = "none"
  BY <1>1 DEF SaveUpdate, IInv, TypeOK
<1>3. AdminEnds(a) /\ UNCHANGED <<requestVars, orderVars, workerVars, died, cut>>
  BY DEF SaveUpdate
<1>4. TypeOK'
  BY <1>2, <1>3 DEF AdminEnds, AdminGoes, IInv, TypeOK
<1>5. Ownership'
  BY <1>2, <1>3 DEF AdminEnds, AdminGoes, IInv, TypeOK, Ownership, AdminsHaveClients,
                    ClientsWereThere, OrdersAreNew, OwnersAreClients, NoStrayRows
<1>6. JobsAreAlone'
  BY <1>3, JobsUnchanged, InvariantParts
<1> QED
  BY <1>4, <1>5, <1>6 DEF IInv, Ownership

\* The cascade takes the client's orders out of the table, and the lock keeps an
\* order that is being inserted from losing its client.
LEMMA DeleteClientInvariant ==
  ASSUME IInv, NEW a \in Admins, DeleteClient(a)
  PROVE  IInv'
<1> DEFINE c == acl[a]
<1>1. c \in ApiClients
  BY DEF DeleteClient, IInv, AdminsHaveClients
<1>2. /\ row' = [row EXCEPT ![c] = "deleted"]
      /\ status' = [o \in Orders |-> IF o \in OrdersOf(c) THEN "gone" ELSE status[o]]
      /\ cut' = cut \cup {o \in OrdersOf(c) : CallingFor(o)}
      /\ AdminEnds(a) /\ ~Inserting(c)
      /\ UNCHANGED <<requestVars, attempts, owner, queue, bought, workerVars, died>>
  BY DEF DeleteClient
<1>3. \A o \in Orders : status'[o] = IF owner[o] = c /\ status[o] \in Stored
                                     THEN "gone" ELSE status[o]
  BY <1>2 DEF OrdersOf
<1>4. TypeOK'
  BY <1>2 DEF AdminEnds, AdminGoes, OrdersOf, IInv, TypeOK
<1>5. Ownership'
  <2>1. AdminsHaveClients' /\ OwnersAreClients'
    BY <1>2, <1>3 DEF AdminEnds, AdminGoes, IInv, TypeOK, AdminsHaveClients, OwnersAreClients
  <2>2. ClientsWereThere'
    BY <1>2 DEF Inserting, IInv, TypeOK, ClientsWereThere
  <2>3. OrdersAreNew'
    BY <1>2, <1>3 DEF IInv, OrdersAreNew
  <2>4. NoStrayRows'
    BY <1>2, <1>3 DEF IInv, TypeOK, OwnersAreClients, NoStrayRows
  <2> QED
    BY <2>1, <2>2, <2>3, <2>4 DEF Ownership
<1>6. JobsAreAlone'
  <2>1. \A w \in Workers : wpc[w] = "calling" /\ status[word[w]] # "gone"
                           /\ status'[word[w]] = "gone" => word[w] \in cut'
    BY <1>2, <1>3 DEF OrdersOf, CallingFor, Live, IInv, JobsAreAlone
  <2> QED
    BY <2>1, <1>2, <1>3 DEF Live, IInv, JobsAreAlone
<1> QED
  BY <1>4, <1>5, <1>6 DEF IInv, Ownership

LEMMA AdminInvariant ==
  ASSUME IInv, NEW a \in Admins, AdminStep(a)
  PROVE  IInv'
<1>1. ASSUME NEW c \in ApiClients, LoadForDelete(a, c)
      PROVE  IInv'
  BY <1>1, LoadClientInvariant DEF LoadForDelete
<1>2. ASSUME NEW c \in ApiClients, NEW want \in BOOLEAN, LoadForUpdate(a, c, want)
      PROVE  IInv'
  <2>1. (row[c] = "active") \in BOOLEAN
    OBVIOUS
  <2> QED
    BY <1>2, <2>1, LoadClientInvariant DEF LoadForUpdate
<1> QED
  BY <1>1, <1>2, SaveUpdateInvariant, DeleteClientInvariant DEF AdminStep

-----------------------------------------------------------------------------
(***************************************************************************)
(* A request's steps.                                                      *)
(***************************************************************************)

LEMMA AuthenticateInvariant ==
  ASSUME IInv, NEW r \in Requests, NEW c \in ApiClients, Authenticate(r, c)
  PROVE  IInv'
<1>1. /\ rpc[r] = "idle" /\ row[c] = "active" /\ RequestGoes(r, "auth", c, NoOrder)
      /\ UNCHANGED <<row, adminVars, orderVars, workerVars, died, cut>>
  BY DEF Authenticate
<1>2. TypeOK'
  BY <1>1 DEF RequestGoes, IInv, TypeOK
<1>3. Ownership'
  BY <1>1 DEF RequestGoes, IInv, TypeOK, Ownership, AdminsHaveClients, ClientsWereThere,
              OrdersAreNew, OwnersAreClients, NoStrayRows
<1>4. JobsAreAlone'
  BY <1>1, JobsUnchanged, InvariantParts
<1> QED
  BY <1>2, <1>3, <1>4 DEF IInv, Ownership

\* A request that ends gives up its client and its order.
LEMMA RequestEndsInvariant ==
  ASSUME IInv, NEW r \in Requests, RequestEnds(r), queue' \in [Orders -> Nat],
         UNCHANGED <<row, adminVars, status, attempts, owner, bought, workerVars, died, cut>>
  PROVE  IInv'
<1>1. TypeOK'
  BY DEF RequestEnds, RequestGoes, IInv, TypeOK
<1>2. Ownership'
  BY DEF RequestEnds, RequestGoes, IInv, TypeOK, Ownership, AdminsHaveClients,
         ClientsWereThere, OrdersAreNew, OwnersAreClients, NoStrayRows
<1>3. JobsAreAlone'
  BY JobsUnchanged, InvariantParts
<1> QED
  BY <1>1, <1>2, <1>3 DEF IInv, Ownership

LEMMA TouchInvariant ==
  ASSUME IInv, NEW r \in Requests, Touch(r)
  PROVE  IInv'
<1>1. CASE row[rcl[r]] = "deleted"
  <2>1. RequestEnds(r) /\ UNCHANGED <<row, adminVars, orderVars, workerVars, died, cut>>
    BY <1>1 DEF Touch
  <2> QED
    BY <2>1, RequestEndsInvariant DEF IInv, TypeOK
<1>2. CASE row[rcl[r]] # "deleted"
  <2>1. /\ rpc[r] = "auth" /\ RequestGoes(r, "insert", rcl[r], NoOrder)
        /\ UNCHANGED <<row, adminVars, orderVars, workerVars, died, cut>>
    BY <1>2 DEF Touch
  <2>2. TypeOK'
    BY <2>1 DEF RequestGoes, IInv, TypeOK
  <2>3. Ownership'
    BY <2>1 DEF RequestGoes, IInv, TypeOK, Ownership, AdminsHaveClients, ClientsWereThere,
                OrdersAreNew, OwnersAreClients, NoStrayRows
  <2>4. JobsAreAlone'
    BY <2>1, JobsUnchanged, InvariantParts
  <2> QED
    BY <2>2, <2>3, <2>4 DEF IInv, Ownership
<1> QED
  BY <1>1, <1>2

\* The foreign key: an order is inserted only while its client has a row.
LEMMA InsertOrderInvariant ==
  ASSUME IInv, NEW r \in Requests, NEW o \in Orders, InsertOrder(r, o)
  PROVE  IInv'
<1>1. CASE row[rcl[r]] = "deleted"
  <2>1. RequestEnds(r) /\ UNCHANGED <<row, adminVars, orderVars, workerVars, died, cut>>
    BY <1>1 DEF InsertOrder
  <2> QED
    BY <2>1, RequestEndsInvariant DEF IInv, TypeOK
<1>2. CASE row[rcl[r]] # "deleted"
  <2>1. /\ rpc[r] = "insert" /\ status[o] = "none" /\ \A q \in Requests : rord[q] # o
        /\ RequestGoes(r, "commit", rcl[r], o)
        /\ UNCHANGED <<row, adminVars, orderVars, workerVars, died, cut>>
    BY <1>2 DEF InsertOrder
  <2>2. rcl[r] \in ApiClients /\ row[rcl[r]] \in {"active", "inactive"}
    BY <1>2, <2>1 DEF IInv, TypeOK, ClientsWereThere
  <2>3. TypeOK'
    BY <2>1 DEF RequestGoes, IInv, TypeOK
  <2>4. ClientsWereThere' /\ OrdersAreNew'
    BY <2>1, <2>2 DEF RequestGoes, IInv, TypeOK, ClientsWereThere, OrdersAreNew
  <2>5. Ownership'
    BY <2>1, <2>4 DEF IInv, Ownership, AdminsHaveClients, OwnersAreClients, NoStrayRows
  <2>6. JobsAreAlone'
    BY <2>1, JobsUnchanged, InvariantParts
  <2> QED
    BY <2>3, <2>5, <2>6 DEF IInv, Ownership
<1> QED
  BY <1>1, <1>2

LEMMA CommitOrderInvariant ==
  ASSUME IInv, NEW r \in Requests, CommitOrder(r)
  PROVE  IInv'
<1> DEFINE o == rord[r]
<1>1. /\ rpc[r] = "commit"
      /\ status' = [status EXCEPT ![o] = "pending"]
      /\ owner' = [owner EXCEPT ![o] = rcl[r]]
      /\ RequestGoes(r, "enqueue", rcl[r], o)
      /\ UNCHANGED <<row, adminVars, attempts, queue, bought, workerVars, died, cut>>
  BY DEF CommitOrder
<1>2. /\ o \in Orders /\ status[o] = "none"
      /\ rcl[r] \in ApiClients /\ row[rcl[r]] \in {"active", "inactive"}
  BY <1>1 DEF IInv, ClientsWereThere, OrdersAreNew
<1>3. TypeOK'
  BY <1>1, <1>2 DEF RequestGoes, IInv, TypeOK
<1>4. ClientsWereThere' /\ OrdersAreNew'
  BY <1>1, <1>2 DEF RequestGoes, IInv, TypeOK, ClientsWereThere, OrdersAreNew
<1>5. OwnersAreClients' /\ NoStrayRows'
  BY <1>1, <1>2 DEF IInv, TypeOK, OwnersAreClients, NoStrayRows
<1>6. Ownership'
  BY <1>1, <1>4, <1>5 DEF IInv, Ownership, AdminsHaveClients
<1>7. JobsAreAlone'
  BY <1>1, <1>2 DEF IInv, TypeOK, JobsAreAlone, Live
<1> QED
  BY <1>3, <1>6, <1>7 DEF IInv, Ownership

LEMMA RequestInvariant ==
  ASSUME IInv, NEW r \in Requests, RequestStep(r)
  PROVE  IInv'
<1>1. CASE TooMany(r)
  BY <1>1, RequestEndsInvariant DEF TooMany, IInv, TypeOK
<1>2. CASE Dispatch(r)
  <2>1. RequestEnds(r) /\ UNCHANGED <<row, adminVars, status, attempts, owner, bought, workerVars, died, cut>>
    BY <1>2 DEF Dispatch
  <2>2. queue' \in [Orders -> Nat]
    <3>1. rord[r] \in Orders
      BY <1>2 DEF Dispatch, IInv, OrdersAreNew
    <3> QED
      BY <1>2, <3>1 DEF Dispatch, IInv, TypeOK
  <2> QED
    BY <2>1, <2>2, RequestEndsInvariant
<1> QED
  BY <1>1, <1>2, TouchInvariant, CommitOrderInvariant, InsertOrderInvariant DEF RequestStep

-----------------------------------------------------------------------------
(***************************************************************************)
(* A job's steps.  None touches a client, a request or an owner, and none  *)
(* brings a row into the table.                                            *)
(***************************************************************************)

LEMMA OwnershipUnderJobs ==
  ASSUME Ownership, UNCHANGED <<row, adminVars, requestVars, owner>>,
         \A o \in Orders : status'[o] \in Stored => status[o] \in Stored,
         \A o \in Orders : status[o] = "none" => status'[o] = "none"
  PROVE  Ownership'
  BY DEF Ownership, AdminsHaveClients, ClientsWereThere, OrdersAreNew, OwnersAreClients,
         NoStrayRows

LEMMA ClaimOrderInvariant ==
  ASSUME IInv, NEW w \in Workers, NEW o \in Orders, ClaimOrder(w, o)
  PROVE  IInv'
<1>1. /\ wpc[w] = "idle" /\ queue' \in [Orders -> Nat]
      /\ UNCHANGED <<row, adminVars, requestVars, owner, bought, died, cut>>
  BY DEF ClaimOrder, Take, IInv, TypeOK
<1>2. CASE status[o] = "pending"
  <2>1. /\ WorkerGoes(w, "claimed", o)
        /\ status' = [status EXCEPT ![o] = "processing"]
        /\ attempts' = [attempts EXCEPT ![o] = attempts[o] + 1]
    BY <1>2 DEF ClaimOrder, Claims
  <2>2. TypeOK'
    BY <1>1, <2>1 DEF WorkerGoes, IInv, TypeOK
  <2>3. Ownership'
    BY <1>1, <1>2, <2>1, OwnershipUnderJobs, InvariantParts DEF IInv, TypeOK
  <2>4. \A v \in Workers : Live(v) => word[v] # o
    BY <1>2 DEF IInv, JobsAreAlone
  <2>5. JobsAreAlone'
    BY <1>1, <2>1, <2>4 DEF WorkerGoes, Live, IInv, TypeOK, JobsAreAlone
  <2> QED
    BY <2>2, <2>3, <2>5, InvariantParts DEF IInv, Ownership
<1>3. CASE status[o] # "pending"
  <2>1. UNCHANGED <<workerVars, status, attempts>>
    BY <1>3 DEF ClaimOrder
  <2>2. TypeOK'
    BY <1>1, <2>1 DEF IInv, TypeOK
  <2>3. Ownership' /\ JobsAreAlone'
    BY <1>1, <2>1, OwnershipUnderJobs, JobsUnchanged, InvariantParts
  <2> QED
    BY <2>2, <2>3 DEF IInv, Ownership
<1> QED
  BY <1>2, <1>3

LEMMA LoadOrderInvariant ==
  ASSUME IInv, NEW w \in Workers, LoadOrder(w)
  PROVE  IInv'
<1>1. /\ wpc[w] = "claimed" /\ word[w] \in Orders
      /\ UNCHANGED <<row, adminVars, requestVars, orderVars, died, cut>>
      /\ \/ WorkerEnds(w)
         \/ status[word[w]] # "gone" /\ WorkerGoes(w, "calling", word[w])
  BY DEF LoadOrder, Live, IInv, JobsAreAlone
<1>2. TypeOK'
  BY <1>1 DEF WorkerEnds, WorkerGoes, IInv, TypeOK
<1>3. Ownership'
  BY <1>1, OwnershipUnderJobs, InvariantParts
<1>4. JobsAreAlone'
  BY <1>1 DEF WorkerEnds, WorkerGoes, Live, IInv, TypeOK, JobsAreAlone
<1> QED
  BY <1>2, <1>3, <1>4 DEF IInv, Ownership

\* A job that calls no more leaves its order to itself: whatever becomes of the order's
\* status and of its record in cut, no other job calls the provider for it.
LEMMA JobLeavesOrder ==
  ASSUME IInv, NEW w \in Workers, wpc[w] # "idle",
         \/ WorkerEnds(w)
         \/ WorkerGoes(w, "requeue", word[w]),
         \/ Live(w)
         \/ status' = status /\ cut' = cut,
         \A p \in Orders \ {word[w]} : status'[p] = status[p],
         cut \ {word[w]} \subseteq cut'
  PROVE  JobsAreAlone'
<1>1. \A v \in Workers : Live(v)' => v # w /\ Live(v) /\ wpc'[v] = wpc[v] /\ word'[v] = word[v]
  BY DEF WorkerEnds, WorkerGoes, Live, IInv, TypeOK
<1>2. \A v \in Workers : wpc'[v] # "idle" => word'[v] \in Orders
  BY DEF WorkerEnds, WorkerGoes, IInv, TypeOK, JobsAreAlone
<1>3. \A v \in Workers : Live(v)' => word[v] \in Orders
  BY <1>1 DEF Live, IInv, JobsAreAlone
<1>4. \A v \in Workers : Live(v)' =>
        /\ status'[word[v]] = status[word[v]]
        /\ word[v] \in cut => word[v] \in cut'
  <2>1. CASE Live(w)
    <3>1. \A v \in Workers : Live(v)' => word[v] # word[w]
      BY <1>1, <2>1 DEF IInv, JobsAreAlone
    <3> QED
      BY <3>1, <1>3
  <2>2. CASE status' = status /\ cut' = cut
    BY <2>2
  <2> QED
    BY <2>1, <2>2
<1>5. \A v \in Workers : wpc'[v] = "calling" => Live(v)'
  BY DEF Live
<1> QED
  BY <1>1, <1>2, <1>4, <1>5 DEF IInv, JobsAreAlone

\* The verdict's outcome is a status of the table.
LEMMA OutcomeIsStored ==
  ASSUME NEW o \in Orders, NEW verdict \in Verdicts
  PROVE  Outcome(o, verdict) \in {"pending", "completed", "failed"}
  BY DEF Outcome, Verdicts

LEMMA AnswerInvariant ==
  ASSUME IInv, NEW w \in Workers, NEW verdict \in Verdicts, NEW charged \in BOOLEAN,
         Answer(w, verdict, charged)
  PROVE  IInv'
<1> DEFINE o == word[w]
<1>1. /\ wpc[w] = "calling" /\ CallEnds(o, charged)
      /\ UNCHANGED <<row, adminVars, requestVars, attempts, owner, queue, died>>
      /\ \/ status[o] = "gone" /\ WorkerEnds(w) /\ UNCHANGED status
         \/ /\ status[o] # "gone"
            /\ status' = [status EXCEPT ![o] = Outcome(o, verdict)]
            /\ WorkerGoes(w, "requeue", o) \/ WorkerEnds(w)
  BY DEF Answer
<1>2. o \in Orders /\ status[o] \in {"processing", "gone"}
  BY <1>1 DEF Live, IInv, JobsAreAlone
<1>3. /\ status' \in [Orders -> Stored \cup {"none", "gone"}]
      /\ \A p \in Orders \ {o} : status'[p] = status[p]
      /\ \/ status'[o] = status[o]
         \/ status[o] = "processing" /\ status'[o] \in {"pending", "completed", "failed"}
  <2>1. CASE UNCHANGED status
    BY <2>1 DEF IInv, TypeOK
  <2>2. CASE status[o] # "gone" /\ status' = [status EXCEPT ![o] = Outcome(o, verdict)]
    BY <1>2, <2>2, OutcomeIsStored DEF IInv, TypeOK
  <2> QED
    BY <1>1, <2>1, <2>2
<1>4. bought' \in [Orders -> Nat] /\ cut' \subseteq Orders /\ cut \ {o} \subseteq cut'
  BY <1>1, <1>2 DEF CallEnds, IInv, TypeOK
<1>5. TypeOK'
  <2>1. wpc' \in [Workers -> {"idle", "claimed", "calling", "requeue"}]
        /\ word' \in [Workers -> Orders \cup {NoOrder}]
    BY <1>1, <1>2 DEF WorkerEnds, WorkerGoes, IInv, TypeOK
  <2> QED
    BY <1>1, <1>3, <1>4, <2>1 DEF IInv, TypeOK
<1>6. Ownership'
  BY <1>1, <1>2, <1>3, OwnershipUnderJobs, InvariantParts
<1>7. JobsAreAlone'
  BY <1>1, <1>3, <1>4, JobLeavesOrder DEF Live
<1> QED
  BY <1>5, <1>6, <1>7 DEF IInv, Ownership

LEMMA RequeueInvariant ==
  ASSUME IInv, NEW w \in Workers, Requeue(w)
  PROVE  IInv'
<1>1. /\ wpc[w] = "requeue" /\ WorkerEnds(w) /\ word[w] \in Orders
      /\ queue' = [queue EXCEPT ![word[w]] = queue[word[w]] + 1]
      /\ UNCHANGED <<row, adminVars, requestVars, status, attempts, owner, bought, died, cut>>
  BY DEF Requeue, IInv, JobsAreAlone
<1>2. TypeOK'
  BY <1>1 DEF WorkerEnds, WorkerGoes, IInv, TypeOK
<1>3. Ownership'
  BY <1>1, OwnershipUnderJobs, InvariantParts
<1>4. JobsAreAlone'
  BY <1>1, JobLeavesOrder
<1> QED
  BY <1>2, <1>3, <1>4 DEF IInv, Ownership

LEMMA WorkerDiesInvariant ==
  ASSUME IInv, NEW w \in Workers, WorkerDies(w)
  PROVE  IInv'
<1> DEFINE o == word[w]
<1>1. /\ wpc[w] # "idle" /\ WorkerEnds(w) /\ o \in Orders
      /\ died' = [died EXCEPT ![o] = died[o] + 1]
      /\ \/ wpc[w] = "calling" /\ \E charged \in BOOLEAN : CallEnds(o, charged)
         \/ UNCHANGED <<bought, cut>>
      /\ UNCHANGED <<row, adminVars, requestVars, status, attempts, owner, queue>>
  BY DEF WorkerDies, IInv, JobsAreAlone
<1>2. bought' \in [Orders -> Nat] /\ cut' \subseteq Orders /\ cut \ {o} \subseteq cut'
  BY <1>1 DEF CallEnds, IInv, TypeOK
<1>3. TypeOK'
  <2>1. wpc' \in [Workers -> {"idle", "claimed", "calling", "requeue"}]
        /\ word' \in [Workers -> Orders \cup {NoOrder}]
    BY <1>1 DEF WorkerEnds, WorkerGoes, IInv, TypeOK
  <2>2. died' \in [Orders -> Nat]
    BY <1>1 DEF IInv, TypeOK
  <2> QED
    BY <1>1, <1>2, <2>1, <2>2 DEF IInv, TypeOK
<1>4. Ownership'
  BY <1>1, OwnershipUnderJobs, InvariantParts
<1>5. JobsAreAlone'
  BY <1>1, <1>2, JobLeavesOrder DEF Live
<1> QED
  BY <1>3, <1>4, <1>5 DEF IInv, Ownership

\* The sweep opens an order again only when no job is left on it.
LEMMA SweepInvariant ==
  ASSUME IInv, NEW o \in Orders, Sweep(o)
  PROVE  IInv'
<1>1. /\ status[o] = "processing" /\ \A w \in Workers : word[w] # o
      /\ status' = [status EXCEPT ![o] = "failed"] \/ status' = [status EXCEPT ![o] = "pending"]
      /\ queue' = queue \/ queue' = [queue EXCEPT ![o] = queue[o] + 1]
      /\ UNCHANGED <<row, adminVars, requestVars, attempts, owner, bought, workerVars, died, cut>>
  BY DEF Sweep
<1>2. TypeOK'
  BY <1>1 DEF IInv, TypeOK
<1>3. Ownership'
  BY <1>1, OwnershipUnderJobs, InvariantParts DEF IInv, TypeOK
<1>4. JobsAreAlone'
  BY <1>1 DEF Live, IInv, TypeOK, JobsAreAlone
<1> QED
  BY <1>2, <1>3, <1>4 DEF IInv, Ownership

LEMMA NextInvariant == IInv /\ [Next]_vars => IInv'
<1> SUFFICES ASSUME IInv, [Next]_vars
             PROVE  IInv'
  OBVIOUS
<1>1. CASE Next
  BY <1>1, CreateClientInvariant, AuthenticateInvariant, AdminInvariant, RequestInvariant,
     ClaimOrderInvariant, LoadOrderInvariant, AnswerInvariant, RequeueInvariant,
     WorkerDiesInvariant, SweepInvariant DEF Next, WorkerStep
<1>2. CASE UNCHANGED vars
  <2>1. TypeOK'
    BY <1>2 DEF vars, IInv, TypeOK
  <2>2. Ownership' /\ JobsAreAlone'
    BY <1>2, OwnershipUnderJobs, JobsUnchanged, InvariantParts DEF vars
  <2> QED
    BY <2>1, <2>2 DEF IInv, Ownership
<1> QED
  BY <1>1, <1>2

LEMMA Invariance == Spec => []IInv
<1>1. Init => IInv
  BY InitInvariant
<1>2. IInv /\ [Next]_vars => IInv'
  BY NextInvariant
<1> QED
  BY <1>1, <1>2, PTL DEF Spec

-----------------------------------------------------------------------------
(***************************************************************************)
(* The theorems.                                                           *)
(***************************************************************************)

\* Clients, handlers, orders and jobs keep their shape: a job is taken only from
\* a queue that has one.
THEOREM TypeCorrect == Spec => []TypeOK
<1>1. IInv => TypeOK
  BY DEF IInv
<1> QED
  BY <1>1, Invariance, PTL

\* However a deletion crosses with the requests it does not see, no order is in
\* the table without its client (models/order.py:37-40).
THEOREM RowsHaveClients == Spec => []NoStrayRows
<1>1. IInv => NoStrayRows
  BY DEF IInv
<1> QED
  BY <1>1, Invariance, PTL

\* After the deletion of its client an order is bought by the call that was under way
\* and by nothing else, once at most, whatever fails, dies, is retried or swept
\* (orders.py:272-293).
THEOREM NoSpendingAfterDeletion == Spec => DeletionStopsSpending
<1>1. ASSUME IInv, [Next]_vars
      PROVE  \A o \in Orders : status[o] = "gone" /\ bought'[o] # bought[o] =>
               o \in cut \ cut' /\ bought'[o] = bought[o] + 1
  <2> SUFFICES ASSUME NEW o \in Orders, status[o] = "gone", bought'[o] # bought[o]
               PROVE  o \in cut \ cut' /\ bought'[o] = bought[o] + 1
    OBVIOUS
  <2>1. PICK w \in Workers, charged \in BOOLEAN : wpc[w] = "calling" /\ CallEnds(word[w], charged)
    <3>1. CASE \E w \in Workers, verdict \in Verdicts, charged \in BOOLEAN : Answer(w, verdict, charged)
      BY <3>1 DEF Answer
    <3>2. CASE \E w \in Workers : WorkerDies(w)
      BY <3>2 DEF WorkerDies
    <3> QED
      BY <1>1, <3>1, <3>2 DEF Next, vars, CreateClient, Authenticate, AdminStep,
         LoadForUpdate, SaveUpdate, LoadForDelete, DeleteClient, RequestStep, TooMany, Touch,
         InsertOrder, CommitOrder, Dispatch, WorkerStep, ClaimOrder, LoadOrder, Requeue, Sweep
  <2>2. word[w] = o
    BY <1>1, <2>1 DEF CallEnds, IInv, TypeOK
  <2>3. o \in cut
    BY <1>1, <2>1, <2>2 DEF IInv, JobsAreAlone
  <2>4. o \notin cut' /\ bought'[o] = bought[o] + 1
    BY <1>1, <2>1, <2>2 DEF CallEnds, IInv, TypeOK
  <2> QED
    BY <2>3, <2>4
<1>2. IInv /\ [Next]_vars =>
        [\A o \in Orders : status[o] = "gone" /\ bought'[o] # bought[o] =>
           o \in cut \ cut' /\ bought'[o] = bought[o] + 1]_vars
  BY <1>1
<1> QED
  BY <1>2, Invariance, PTL DEF Spec, DeletionStopsSpending

\* No request brings a deactivated client back: only a PATCH that says so does
\* (deps.py:38-39).
THEOREM OnlyPatchReactivates == Spec => DeactivationSticks
<1>1. ASSUME IInv, [Next]_vars
      PROVE  \A c \in ApiClients : row[c] = "inactive" /\ row'[c] = "active" =>
               \E a \in Admins : acl[a] = c /\ awant[a] /\ apc'[a] = "idle"
  <2> SUFFICES ASSUME NEW c \in ApiClients, row[c] = "inactive", row'[c] = "active"
               PROVE  \E a \in Admins : acl[a] = c /\ awant[a] /\ apc'[a] = "idle"
    OBVIOUS
  <2>1. PICK a \in Admins : SaveUpdate(a)
    BY <1>1 DEF Next, vars, CreateClient, Authenticate, AdminStep, LoadForUpdate,
       LoadForDelete, DeleteClient, RequestStep, TooMany, Touch, InsertOrder, CommitOrder,
       Dispatch, WorkerStep, ClaimOrder, LoadOrder, Answer, Requeue, WorkerDies, Sweep, IInv,
       TypeOK
  <2>2. acl[a] = c /\ awant[a] /\ apc'[a] = "idle"
    BY <1>1, <2>1 DEF SaveUpdate, AdminEnds, AdminGoes, IInv, TypeOK
  <2> QED
    BY <2>2
<1>2. IInv /\ [Next]_vars =>
        [\A c \in ApiClients : row[c] = "inactive" /\ row'[c] = "active" =>
           \E a \in Admins : acl[a] = c /\ awant[a] /\ apc'[a] = "idle"]_vars
  BY <1>1
<1> QED
  BY <1>2, Invariance, PTL DEF Spec, DeactivationSticks
=============================================================================
