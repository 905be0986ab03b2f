---------------------------- MODULE OrderIntake ----------------------------
(***************************************************************************)
(* POST /v1/orders/{stars,premium,gift}: the schemas, _create_and_dispatch *)
(* and create_order, when requests carrying the same Idempotency-Key are   *)
(* sent again, overlap, or lose their process.                             *)
(*                                                                         *)
(* A call is one HTTP request, and the order it may create has the call's  *)
(* name.  A client that got no answer sends another call with the same     *)
(* key.  The unique index on (client_id, idempotency_key) treats an        *)
(* uncommitted row as PostgreSQL does: a conflicting INSERT waits for the  *)
(* transaction that wrote it.                                              *)
(***************************************************************************)
EXTENDS Naturals, Providers

CONSTANTS
  Calls,           \* bound: the requests ever sent
  Clients,
  Keys,            \* idempotency keys in use
  EmptyKey,        \* the header is there and empty
  NoKey,           \* the header is absent
  Asks,            \* what requests may say
  MinStars, MaxStars, PremiumMonths, DefaultProvider, \* settings of these names
  MayDie,          \* an API process may die under a call
  NoOrder

ASSUME NoKeyAssumption == NoKey \notin Keys
ASSUME NoOrderAssumption == NoOrder \notin Calls

\* amount is the quantity of stars, the months or the length of the gift_id; to,
\* how the recipient is given, where a malformed name does not match USERNAME_RE.
\* forced is a setting of the client.
Body == [type : OrderTypes, amount : Nat, to : SUBSET {"name", "malformed", "id"},
         requested : ProviderNames \cup {"none", "unknown"},
         forced : ProviderNames \cup {"none"}]

ASSUME AsksAssumption ==
  Asks \subseteq [sender : Clients, key : Keys \cup {NoKey}, body : Body]
ASSUME DefaultAssumption == DefaultProvider \in ProviderNames

VARIABLES
  pc,        \* where the call is
  ask,       \* what the call says
  inserted,  \* orders flushed by a transaction that is still open
  committed, \* orders of the table
  jobs,      \* process_order jobs queued for the order
  reply      \* what the client was told, and of which order

vars == <<pc, ask, inserted, committed, jobs, reply>>

Pcs == {"unsent", "lookup", "insert", "conflict", "commit", "enqueue", "mark", "done", "dead"}
Refusals == {"invalid", "rejected", "conflict"}
ReplyKinds == {"none", "created", "replayed", "error"} \cup Refusals

TypeOK ==
  /\ pc \in [Calls -> Pcs]
  /\ ask \in [Calls -> Asks]
  /\ inserted \subseteq Calls
  /\ committed \subseteq Calls
  /\ jobs \in [Calls -> Nat]
  /\ reply \in [Calls -> [kind : ReplyKinds, order : Calls \cup {NoOrder}]]

\* What a client will ask is settled in advance, when it will is not.
Init ==
  /\ pc = [c \in Calls |-> "unsent"]
  /\ ask \in [Calls -> Asks]
  /\ inserted = {}
  /\ committed = {}
  /\ jobs = [c \in Calls |-> 0]
  /\ reply = [c \in Calls |-> [kind |-> "none", order |-> NoOrder]]

-----------------------------------------------------------------------------
Goes(c, where) == pc' = [pc EXCEPT ![c] = where]
Tells(c, kind, o) == reply' = [reply EXCEPT ![c] = [kind |-> kind, order |-> o]]

ProviderOf(c) == Chosen(ask[c].body.requested, ask[c].body.forced, DefaultProvider)

\* The range the schema of each type admits.
Admitted == [stars |-> MinStars..MaxStars, premium |-> PremiumMonths, gift |-> 1..64]

\* RecipientMixin, OrderBase and the three schemas built on them.
Valid(body) ==
  /\ body.to # {} /\ "malformed" \notin body.to
  /\ body.requested # "unknown"
  /\ body.amount \in Admitted[body.type]

\* The unique constraint: NULL keys conflict with nothing.
SameKey(c, d) ==
  ask[c].key # NoKey /\ ask[c].key = ask[d].key /\ ask[c].sender = ask[d].sender

\* Stored orders that hold the call's key.
Holders(c) == {o \in committed : SameKey(c, o)}

\* Wrong variant: looks the key up among all clients' orders.
ExistingOfAnyone(c) ==
  {o \in committed : ask[c].key \notin {EmptyKey, NoKey} /\ ask[c].key = ask[o].key}

\* find_by_idempotency_key, which create_order asks only for a key that is not
\* empty, although the row keeps an empty one.
Existing(c) == IF ask[c].key = EmptyKey THEN {} ELSE Holders(c)

\* FastAPI checks the body before the handler runs.
Receive(c) ==
  /\ pc[c] = "unsent"
  /\ \/ Valid(ask[c].body) /\ Goes(c, "lookup") /\ UNCHANGED reply
     \/ ~Valid(ask[c].body) /\ Goes(c, "done") /\ Tells(c, "invalid", NoOrder)
  /\ UNCHANGED <<ask, inserted, committed, jobs>>

\* A pair the provider cannot serve is refused; else the order is built.
Route(c) ==
  \/ /\ Rejected(ProviderOf(c), ask[c].body.type)
     /\ Tells(c, "rejected", NoOrder)
     /\ Goes(c, "done")
  \/ /\ ~Rejected(ProviderOf(c), ask[c].body.type)
     /\ Goes(c, "insert")
     /\ UNCHANGED reply

\* Wrong variants: a replay queues the order again; or names the key, not the
\* order.
LookupRedispatch(c) ==
  /\ pc[c] = "lookup"
  /\ \/ \E o \in Existing(c) :
          /\ Tells(c, "replayed", o)
          /\ Goes(c, "done")
          /\ jobs' = [jobs EXCEPT ![o] = @ + 1]
     \/ Existing(c) = {} /\ Route(c) /\ UNCHANGED jobs
  /\ UNCHANGED <<ask, inserted, committed>>

LookupNamesKey(c) ==
  /\ pc[c] = "lookup"
  /\ \/ Existing(c) # {} /\ Tells(c, "replayed", ask[c].key) /\ Goes(c, "done")
     \/ Existing(c) = {} /\ Route(c)
  /\ UNCHANGED <<ask, inserted, committed, jobs>>

\* An order under the key is returned as it is; else the provider is resolved.
Lookup(c) ==
  /\ pc[c] = "lookup"
  /\ \/ \E o \in Existing(c) : Tells(c, "replayed", o) /\ Goes(c, "done")
     \/ Existing(c) = {} /\ Route(c)
  /\ UNCHANGED <<ask, inserted, committed, jobs>>

\* Wrong variants: there is no unique index; or a stored row is waited for like
\* one in an open transaction.
InsertUnindexed(c) ==
  /\ pc[c] = "insert"
  /\ inserted' = inserted \cup {c}
  /\ Goes(c, "commit")
  /\ UNCHANGED <<ask, committed, jobs, reply>>

InsertWaits(c) ==
  /\ pc[c] = "insert"
  /\ \A o \in inserted \cup committed : ~SameKey(c, o)
  /\ inserted' = inserted \cup {c}
  /\ Goes(c, "commit")
  /\ UNCHANGED <<ask, committed, jobs, reply>>

\* db.flush(): waits while an open transaction holds the key.
Insert(c) ==
  /\ pc[c] = "insert"
  /\ \A o \in inserted : ~SameKey(c, o)
  /\ \/ Holders(c) = {} /\ inserted' = inserted \cup {c} /\ Goes(c, "commit")
     \/ Holders(c) # {} /\ UNCHANGED inserted /\ Goes(c, "conflict")
  /\ UNCHANGED <<ask, committed, jobs, reply>>

\* Wrong variant: the refused row is stored all the same.
ConflictStores(c) ==
  /\ pc[c] = "conflict"
  /\ Tells(c, "conflict", NoOrder)
  /\ committed' = committed \cup {c}
  /\ Goes(c, "done")
  /\ UNCHANGED <<ask, inserted, jobs>>

\* IntegrityError: roll back and, unless the key is empty, look again.  The
\* rollback expires the client's row, whose id the second lookup needs; a comment
\* in api/v1/orders.py:192-193 says such an access raises, so the answer may also
\* be an error.
Conflict(c) ==
  /\ pc[c] = "conflict"
  /\ \/ \E o \in Existing(c) : Tells(c, "replayed", o)
     \/ Existing(c) = {} /\ Tells(c, "conflict", NoOrder)
     \/ ask[c].key # EmptyKey /\ Tells(c, "error", NoOrder)
  /\ Goes(c, "done")
  /\ UNCHANGED <<ask, inserted, committed, jobs>>

\* The row and its first event.
Commit(c) ==
  /\ pc[c] = "commit"
  /\ inserted' = inserted \ {c}
  /\ committed' = committed \cup {c}
  /\ Goes(c, "enqueue")
  /\ UNCHANGED <<ask, jobs, reply>>

Enqueue(c) ==
  /\ pc[c] = "enqueue"
  /\ jobs' = [jobs EXCEPT ![c] = @ + 1]
  /\ Goes(c, "mark")
  /\ UNCHANGED <<ask, inserted, committed, reply>>

\* mark_queued, whose effect on the status is in OrderLifecycle, and the 202.
Accept(c) ==
  /\ pc[c] = "mark"
  /\ Tells(c, "created", c)
  /\ Goes(c, "done")
  /\ UNCHANGED <<ask, inserted, committed, jobs>>

\* The process dies, the connection breaks or a statement fails: an open
\* transaction rolls back and the client hears nothing of use.
Dies(c) ==
  /\ MayDie
  /\ pc[c] \notin {"unsent", "done", "dead"}
  /\ inserted' = inserted \ {c}
  /\ Goes(c, "dead")
  /\ UNCHANGED <<ask, committed, jobs, reply>>

Handle(c) ==
  Lookup(c) \/ Insert(c) \/ Conflict(c) \/ Commit(c) \/ Enqueue(c) \/ Accept(c)

Next == \E c \in Calls : Receive(c) \/ Handle(c) \/ Dies(c)

Spec == Init /\ [][Next]_vars

\* The event loop goes on with a request it has begun.
FairSpec == Spec /\ \A c \in Calls : WF_vars(Handle(c))

-----------------------------------------------------------------------------
(***************************************************************************)
(* Properties.                                                             *)
(***************************************************************************)

\* However calls with one key overlap, and whichever of them die, one order is
\* stored for the key (README.md:21, orders.py:117-126).
OneOrderPerKey == \A c, d \in committed : SameKey(c, d) => c = d

\* Clients that were told of an order under one key were told of the same one,
\* it is in the table, and it belongs to the client that asked.
RepliesAgree ==
  \A c \in Calls : reply[c].order # NoOrder =>
    /\ reply[c].order \in committed
    /\ ask[reply[c].order].sender = ask[c].sender
    /\ \A d \in Calls :
         SameKey(c, d) /\ reply[d].order # NoOrder => reply[d].order = reply[c].order

\* A replay queues nothing: an order is queued once, by the call that made it;
\* a call that answers "created" has queued it, and one that refuses has left
\* neither a row nor a job (api/v1/orders.py:50-66, orders.py:83-126).
DispatchedOnce ==
  \A c \in Calls :
    /\ jobs[c] <= 1
    /\ jobs[c] = 1 => c \in committed
    /\ reply[c].kind = "created" => jobs[c] = 1
    /\ reply[c].kind \in Refusals => c \notin committed

\* An order is stored only with a provider that can buy its type, so no order
\* spends its attempts on a purchase no adapter implements (orders.py:57-67).
RoutedOrders == \A o \in committed : CanBuy(ProviderOf(o), ask[o].body.type)

\* GET /providers tells the truth: no order of a type listed for its provider is
\* refused for its route, and none of another type is stored (catalog.py:38-42,
\* orders.py:57-67).
CatalogIsHonest ==
  \A c \in Calls :
    /\ reply[c].kind = "rejected" => ask[c].body.type \notin SupportedTypes[ProviderOf(c)]
    /\ c \in committed => ask[c].body.type \in SupportedTypes[ProviderOf(c)]

\* Every call that is sent is answered or loses its process: a call waiting for
\* the index is let go, whatever becomes of the one it waits for.
EveryCallEnds == \A c \in Calls : pc[c] = "lookup" ~> pc[c] \in {"done", "dead"}

(***************************************************************************)
(* What does not hold.                                                     *)
(***************************************************************************)

\* orders.py:120 has a conflict mean that a parallel request took the key, whose
\* order is then returned: no call ends in a conflict.  An empty key, which is
\* stored but never looked up, lets a client order once and refuses it for ever.
ConflictsAreReplayed == \A c \in Calls : reply[c].kind # "conflict"
=============================================================================
