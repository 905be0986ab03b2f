------------------------------- MODULE Clients -------------------------------
(***************************************************************************)
(* API clients and the rows that hang on them: authentication of a         *)
(* request, the admin's create, update and delete, and what becomes of     *)
(* requests and jobs whose client is changed or deleted under them.        *)
(*                                                                         *)
(* A request holds the client it loaded before the rate limiter was asked  *)
(* and reads it no more.  Deleting a client takes its orders along (ON     *)
(* DELETE CASCADE).  An INSERT of an order locks its client's row, so a    *)
(* deletion waits for it; an ORM write to a row that is gone matches       *)
(* nothing and raises StaleDataError.  Of an order's own life this module  *)
(* has the attempts, their failures and the sweep; OrderLifecycle has the  *)
(* rest: marking as queued, cancel, retry and what overlaps.               *)
(***************************************************************************)
EXTENDS Naturals

CONSTANTS
  ApiClients,
  Orders,
  Admins,   \* admin requests running
  Requests, \* POST /v1/orders/* requests running
  Workers,  \* process_order jobs running
  MaxAttempts, \* settings.order_max_attempts
  MaxDeaths,   \* bound: how many jobs die on one order
  NoClient, NoOrder

ASSUME NoClientAssumption == NoClient \notin ApiClients
ASSUME NoOrderAssumption == NoOrder \notin Orders
ASSUME MaxAttemptsAssumption == MaxAttempts \in Nat \ {0}

VARIABLES
  row,     \* api_clients: "none", then active or not, at last deleted
  \* an admin's request: where it is, its client, is_active as loaded and as
  \* asked for
  apc, acl, aseen, awant,
  \* a request: where it is, the client it authenticated, the order it makes
  rpc, rcl, rord,
  \* orders: status, attempts and owner; queued jobs; purchases, known or not
  status, attempts, owner, queue, bought,
  wpc, word, \* a job: where it is and its order
  died,      \* history: how many jobs died on an order
  cut        \* history: deleted orders whose call to the provider is not over

adminVars   == <<apc, acl, aseen, awant>>
requestVars == <<rpc, rcl, rord>>
orderVars   == <<status, attempts, owner, queue, bought>>
workerVars  == <<wpc, word>>
vars == <<row, adminVars, requestVars, orderVars, workerVars, died, cut>>

Present == {"active", "inactive"}
Verdicts == {"success", "temporary", "permanent"}
Stored  == {"pending", "processing", "completed", "failed"}

TypeOK ==
  /\ row \in [ApiClients -> Present \cup {"none", "deleted"}]
  /\ apc \in [Admins -> {"idle", "update", "delete"}]
  /\ acl \in [Admins -> ApiClients \cup {NoClient}]
  /\ aseen \in [Admins -> BOOLEAN]
  /\ awant \in [Admins -> BOOLEAN]
  /\ rpc \in [Requests -> {"idle", "auth", "insert", "commit", "enqueue"}]
  /\ rcl \in [Requests -> ApiClients \cup {NoClient}]
  /\ rord \in [Requests -> Orders \cup {NoOrder}]
  /\ status \in [Orders -> Stored \cup {"none", "gone"}]
  /\ attempts \in [Orders -> Nat]
  /\ owner \in [Orders -> ApiClients \cup {NoClient}]
  /\ queue \in [Orders -> Nat]
  /\ bought \in [Orders -> Nat]
  /\ wpc \in [Workers -> {"idle", "claimed", "calling", "requeue"}]
  /\ word \in [Workers -> Orders \cup {NoOrder}]
  /\ died \in [Orders -> Nat]
  /\ cut \subseteq Orders

Init ==
  /\ row = [c \in ApiClients |-> "none"]
  /\ apc = [a \in Admins |-> "idle"]
  /\ acl = [a \in Admins |-> NoClient]
  /\ aseen = [a \in Admins |-> FALSE]
  /\ awant = [a \in Admins |-> FALSE]
  /\ rpc = [r \in Requests |-> "idle"]
  /\ rcl = [r \in Requests |-> NoClient]
  /\ rord = [r \in Requests |-> NoOrder]
  /\ status = [o \in Orders |-> "none"]
  /\ attempts = [o \in Orders |-> 0]
  /\ owner = [o \in Orders |-> NoClient]
  /\ queue = [o \in Orders |-> 0]
  /\ bought = [o \in Orders |-> 0]
  /\ wpc = [w \in Workers |-> "idle"]
  /\ word = [w \in Workers |-> NoOrder]
  /\ died = [o \in Orders |-> 0]
  /\ cut = {}

-----------------------------------------------------------------------------
AdminGoes(a, pc, c, seen, want) ==
  /\ apc' = [apc EXCEPT ![a] = pc]
  /\ acl' = [acl EXCEPT ![a] = c]
  /\ aseen' = [aseen EXCEPT ![a] = seen]
  /\ awant' = [awant EXCEPT ![a] = want]

AdminEnds(a) == AdminGoes(a, "idle", NoClient, FALSE, FALSE)

RequestGoes(r, pc, c, o) ==
  /\ rpc' = [rpc EXCEPT ![r] = pc]
  /\ rcl' = [rcl EXCEPT ![r] = c]
  /\ rord' = [rord EXCEPT ![r] = o]

RequestEnds(r) == RequestGoes(r, "idle", NoClient, NoOrder)

WorkerGoes(w, pc, o) ==
  /\ wpc' = [wpc EXCEPT ![w] = pc]
  /\ word' = [word EXCEPT ![w] = o]

WorkerEnds(w) == WorkerGoes(w, "idle", NoOrder)

(***************************************************************************)
(* The admin: /v1/admin/clients.                                           *)
(***************************************************************************)

CreateClient(c) ==
  /\ row[c] = "none"
  /\ row' = [row EXCEPT ![c] = "active"]
  /\ UNCHANGED <<adminVars, requestVars, orderVars, workerVars, died, cut>>

\* PATCH loads the row (one that is gone is a 404) and sets what was asked.
LoadForUpdate(a, c, want) ==
  /\ apc[a] = "idle"
  /\ row[c] \in Present
  /\ AdminGoes(a, "update", c, row[c] = "active", want)
  /\ UNCHANGED <<row, requestVars, orderVars, workerVars, died, cut>>

\* Its commit writes is_active only if it differs from what was loaded.
SaveUpdate(a) ==
  LET c == acl[a] IN
  /\ apc[a] = "update"
  /\ IF awant[a] # aseen[a] /\ row[c] \in Present
     THEN row' = [row EXCEPT ![c] = IF awant[a] THEN "active" ELSE "inactive"]
     ELSE UNCHANGED row
  /\ AdminEnds(a)
  /\ UNCHANGED <<requestVars, orderVars, workerVars, died, cut>>

LoadForDelete(a, c) ==
  /\ apc[a] = "idle"
  /\ row[c] \in Present
  /\ AdminGoes(a, "delete", c, FALSE, FALSE)
  /\ UNCHANGED <<row, requestVars, orderVars, workerVars, died, cut>>

\* Wrong variant: the orders do not know their client's key.
OrdersOfNobody(c) == {}

OrdersOf(c) == {o \in Orders : owner[o] = c /\ status[o] \in Stored}

CallingFor(o) == \E w \in Workers : wpc[w] = "calling" /\ word[w] = o

\* An open transaction has inserted an order of the client.
Inserting(c) == \E r \in Requests : rpc[r] = "commit" /\ rcl[r] = c

\* DELETE with its cascade.  Somebody else may have been first.
DeleteClient(a) ==
  LET c == acl[a] IN
  /\ apc[a] = "delete"
  /\ ~Inserting(c)
  /\ row' = [row EXCEPT ![c] = "deleted"]
  /\ status' = [o \in Orders |-> IF o \in OrdersOf(c) THEN "gone" ELSE status[o]]
  /\ cut' = cut \cup {o \in OrdersOf(c) : CallingFor(o)}
  /\ AdminEnds(a)
  /\ UNCHANGED <<requestVars, attempts, owner, queue, bought, workerVars, died>>

(***************************************************************************)
(* A request that makes an order.                                          *)
(***************************************************************************)

\* get_current_client up to the rate limiter.
Authenticate(r, c) ==
  /\ rpc[r] = "idle"
  /\ row[c] = "active"
  /\ RequestGoes(r, "auth", c, NoOrder)
  /\ UNCHANGED <<row, adminVars, orderVars, workerVars, died, cut>>

\* The rate limiter refuses; see RateLimit.
TooMany(r) ==
  /\ rpc[r] = "auth"
  /\ RequestEnds(r)
  /\ UNCHANGED <<row, adminVars, orderVars, workerVars, died, cut>>

\* Wrong variant: writes all the columns it has loaded.
TouchWholeRow(r) ==
  /\ rpc[r] = "auth"
  /\ IF row[rcl[r]] = "deleted" THEN RequestEnds(r) /\ UNCHANGED row
     ELSE /\ RequestGoes(r, "insert", rcl[r], NoOrder)
          /\ row' = [row EXCEPT ![rcl[r]] = "active"]
  /\ UNCHANGED <<adminVars, orderVars, workerVars, died, cut>>

\* The commit of last_used_at, the only column written.
Touch(r) ==
  /\ rpc[r] = "auth"
  /\ IF row[rcl[r]] = "deleted" THEN RequestEnds(r)
     ELSE RequestGoes(r, "insert", rcl[r], NoOrder)
  /\ UNCHANGED <<row, adminVars, orderVars, workerVars, died, cut>>

\* Wrong variant: no foreign key stands in the way.
InsertUnchecked(r, o) ==
  /\ rpc[r] = "insert"
  /\ status[o] = "none" /\ \A q \in Requests : rord[q] # o
  /\ RequestGoes(r, "commit", rcl[r], o)
  /\ UNCHANGED <<row, adminVars, orderVars, workerVars, died, cut>>

\* create_order's flush.  A client that is gone violates the foreign key: an
\* IntegrityError, and an error for an answer.
InsertOrder(r, o) ==
  /\ rpc[r] = "insert"
  /\ status[o] = "none" /\ \A q \in Requests : rord[q] # o
  /\ IF row[rcl[r]] = "deleted" THEN RequestEnds(r)
     ELSE RequestGoes(r, "commit", rcl[r], o)
  /\ UNCHANGED <<row, adminVars, orderVars, workerVars, died, cut>>

CommitOrder(r) ==
  LET o == rord[r] IN
  /\ rpc[r] = "commit"
  /\ status' = [status EXCEPT ![o] = "pending"]
  /\ owner' = [owner EXCEPT ![o] = rcl[r]]
  /\ RequestGoes(r, "enqueue", rcl[r], o)
  /\ UNCHANGED <<row, adminVars, attempts, queue, bought, workerVars, died, cut>>

\* enqueue_order does not look whether the order is still there; mark_queued does.
Dispatch(r) ==
  /\ rpc[r] = "enqueue"
  /\ queue' = [queue EXCEPT ![rord[r]] = @ + 1]
  /\ RequestEnds(r)
  /\ UNCHANGED <<row, adminVars, status, attempts, owner, bought, workerVars, died, cut>>

(***************************************************************************)
(* A job, which has no use for the client's status.                        *)
(***************************************************************************)

\* Wrong variant: does not look whether there is a job.
TakeBlind(o) == queue' = [queue EXCEPT ![o] = @ - 1]

\* One job taken from the queue.
Take(o) == queue[o] > 0 /\ queue' = [queue EXCEPT ![o] = @ - 1]

Claims(w, o) ==
  /\ status' = [status EXCEPT ![o] = "processing"]
  /\ attempts' = [attempts EXCEPT ![o] = @ + 1]
  /\ WorkerGoes(w, "claimed", o)

\* Wrong variant: works for active clients only.
ClaimForActive(w, o) ==
  /\ wpc[w] = "idle"
  /\ Take(o)
  /\ IF status[o] = "pending" /\ row[owner[o]] = "active" THEN Claims(w, o)
     ELSE UNCHANGED <<workerVars, status, attempts>>
  /\ UNCHANGED <<row, adminVars, requestVars, owner, bought, died, cut>>

\* The compare-and-swap; a job whose order is gone raises NotFoundError.
ClaimOrder(w, o) ==
  /\ wpc[w] = "idle"
  /\ Take(o)
  /\ IF status[o] = "pending" THEN Claims(w, o)
     ELSE UNCHANGED <<workerVars, status, attempts>>
  /\ UNCHANGED <<row, adminVars, requestVars, owner, bought, died, cut>>

\* Wrong variant: goes on with what the claim returned.
LoadNothing(w) ==
  /\ wpc[w] = "claimed"
  /\ WorkerGoes(w, "calling", word[w])
  /\ UNCHANGED <<row, adminVars, requestVars, orderVars, died, cut>>

\* db.get and refresh, and the event: each raises if the order is gone.
LoadOrder(w) ==
  /\ wpc[w] = "claimed"
  /\ IF status[word[w]] = "gone" THEN WorkerEnds(w)
     ELSE WorkerGoes(w, "calling", word[w])
  /\ UNCHANGED <<row, adminVars, requestVars, orderVars, died, cut>>

\* What execute_order and _handle_failure make of the provider's verdict.
Outcome(o, verdict) ==
  IF verdict = "success" THEN "completed"
  ELSE IF verdict = "temporary" /\ attempts[o] < MaxAttempts THEN "pending"
  ELSE "failed"

\* The call is over, and has charged or not: a failure may hide a charge.
CallEnds(o, charged) ==
  /\ bought' = [bought EXCEPT ![o] = IF charged THEN @ + 1 ELSE @]
  /\ cut' = cut \ {o}

\* The provider has answered; the outcome goes to the order's row, or nowhere: the
\* job raises when the order is gone.
Answer(w, verdict, charged) ==
  LET o == word[w] IN
  /\ wpc[w] = "calling"
  /\ verdict = "success" => charged
  /\ CallEnds(o, charged)
  /\ \/ status[o] = "gone" /\ WorkerEnds(w) /\ UNCHANGED status
     \/ /\ status[o] # "gone"
        /\ status' = [status EXCEPT ![o] = Outcome(o, verdict)]
        /\ IF Outcome(o, verdict) = "pending" THEN WorkerGoes(w, "requeue", o)
           ELSE WorkerEnds(w)
  /\ UNCHANGED <<row, adminVars, requestVars, attempts, owner, queue, died>>

\* process_order queues the retry, whether the order is still there or not.
Requeue(w) ==
  /\ wpc[w] = "requeue"
  /\ queue' = [queue EXCEPT ![word[w]] = @ + 1]
  /\ WorkerEnds(w)
  /\ UNCHANGED <<row, adminVars, requestVars, status, attempts, owner, bought, died, cut>>

\* A job dies in mid-program; a call under way may have charged.
WorkerDies(w) ==
  LET o == word[w] IN
  /\ wpc[w] # "idle"
  /\ died[o] < MaxDeaths
  /\ died' = [died EXCEPT ![o] = @ + 1]
  /\ \/ wpc[w] = "calling" /\ \E charged \in BOOLEAN : CallEnds(o, charged)
     \/ wpc[w] # "calling" /\ UNCHANGED <<bought, cut>>
  /\ WorkerEnds(w)
  /\ UNCHANGED <<row, adminVars, requestVars, status, attempts, owner, queue>>

\* sweep_stuck_orders for one order, left in processing for longer than any job may
\* run.  The order of its steps is OrderLifecycle's subject.
Sweep(o) ==
  /\ status[o] = "processing"
  /\ \A w \in Workers : word[w] # o
  /\ \/ /\ attempts[o] >= MaxAttempts
        /\ status' = [status EXCEPT ![o] = "failed"]
        /\ UNCHANGED queue
     \/ /\ attempts[o] < MaxAttempts
        /\ status' = [status EXCEPT ![o] = "pending"]
        /\ queue' = [queue EXCEPT ![o] = @ + 1]
  /\ UNCHANGED <<row, adminVars, requestVars, attempts, owner, bought, workerVars, died, cut>>

-----------------------------------------------------------------------------
AdminStep(a) ==
  \/ \E c \in ApiClients :
       LoadForDelete(a, c) \/ \E want \in BOOLEAN : LoadForUpdate(a, c, want)
  \/ SaveUpdate(a)
  \/ DeleteClient(a)

RequestStep(r) ==
  \/ TooMany(r) \/ Touch(r) \/ CommitOrder(r) \/ Dispatch(r)
  \/ \E o \in Orders : InsertOrder(r, o)

WorkerStep(w) ==
  \/ \E o \in Orders : ClaimOrder(w, o)
  \/ LoadOrder(w)
  \/ \E verdict \in Verdicts, charged \in BOOLEAN : Answer(w, verdict, charged)
  \/ Requeue(w)

Next ==
  \/ \E c \in ApiClients : CreateClient(c) \/ \E r \in Requests : Authenticate(r, c)
  \/ \E a \in Admins : AdminStep(a)
  \/ \E r \in Requests : RequestStep(r)
  \/ \E w \in Workers : WorkerStep(w) \/ WorkerDies(w)
  \/ \E o \in Orders : Sweep(o)

Spec == Init /\ [][Next]_vars

\* The event loops go on with what they started, and ARQ runs what is queued.
FairSpec ==
  /\ Spec
  /\ \A r \in Requests : WF_vars(RequestStep(r))
  /\ \A w \in Workers : WF_vars(WorkerStep(w))

-----------------------------------------------------------------------------
(***************************************************************************)
(* Properties.                                                             *)
(***************************************************************************)

\* A deactivated client is active again only because a PATCH said so: no request
\* that loaded it before writes its old state back (deps.py:38-39).
DeactivationSticks ==
  [][\A c \in ApiClients : row[c] = "inactive" /\ row'[c] = "active" =>
       \E a \in Admins : acl[a] = c /\ awant[a] /\ apc'[a] = "idle"]_vars

\* An order in the table has its client there, however a deletion crosses with
\* the requests it does not see (models/order.py:37-40).  The job's lookup of the
\* client, and the webhook it writes, rest on it (orders.py:336-338).
NoStrayRows ==
  \A o \in Orders : status[o] \in Stored => row[owner[o]] \in Present

\* Once its client is deleted an order is bought by the call that was under way at
\* that moment and by nothing else, once at most: by no retry, swept order, job that
\* had claimed it, or job that was queued before or is queued later
\* (orders.py:272-293).
DeletionStopsSpending ==
  [][\A o \in Orders : status[o] = "gone" /\ bought'[o] # bought[o] =>
       o \in cut \ cut' /\ bought'[o] = bought[o] + 1]_vars

\* Deactivating a client stops no order it has placed, whatever the provider answers
\* and however often: each ends, is deleted, or had a job die on it and is the
\* sweep's to end.
AcceptedOrdersEnd ==
  \A o \in Orders : status[o] = "pending" ~>
    status[o] \in {"completed", "failed", "gone"} \/ died[o] > 0

\* README.md:229 calls DELETE /v1/admin/clients/{id} a deactivation, which would
\* leave the client's orders where they are.
DeleteOnlyDeactivates == \A o \in Orders : status[o] # "gone"
=============================================================================
