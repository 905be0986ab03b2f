-------------------------- MODULE OrderIntakeProofs --------------------------
(***************************************************************************)
(* Proofs about OrderIntake for any number of calls, clients, keys and     *)
(* bodies, whichever calls lose their process.                             *)
(***************************************************************************)
EXTENDS OrderIntake, TLAPS

-----------------------------------------------------------------------------
(***************************************************************************)
(* The inductive invariant.                                                *)
(***************************************************************************)

\* The table and the open transactions respect the unique index together.
KeysAreHeldOnce ==
  \A c, d \in inserted \cup committed : SameKey(c, d) => c = d

\* Where a call is says whether its order is flushed, stored and queued.
OrderFollowsCall ==
  \A c \in Calls :
    /\ c \in inserted <=> pc[c] = "commit"
    /\ c \in committed => pc[c] \in {"enqueue", "mark", "done", "dead"}
    /\ pc[c] \in {"enqueue", "mark"} => c \in committed
    /\ pc[c] \notin {"mark", "done", "dead"} => jobs[c] = 0
    /\ pc[c] = "mark" => jobs[c] = 1
    /\ reply[c].kind # "none" => pc[c] = "done"

\* A client is told of its own call's order or of one under its key.
RepliesAreTrue ==
  \A c \in Calls : reply[c].order # NoOrder =>
    /\ reply[c].order \in committed
    /\ reply[c].order = c \/ SameKey(c, reply[c].order)

IInv ==
  TypeOK /\ KeysAreHeldOnce /\ OrderFollowsCall /\ RepliesAreTrue /\ DispatchedOnce

USE NoKeyAssumption, NoOrderAssumption

LEMMA InitInvariant == Init => IInv
  BY DEF Init, IInv, TypeOK, KeysAreHeldOnce, OrderFollowsCall, RepliesAreTrue, DispatchedOnce,
         Pcs, ReplyKinds, Refusals

-----------------------------------------------------------------------------
\* A call that only moves on, without touching an order.
LEMMA MovesOn ==
  ASSUME IInv, NEW c \in Calls, NEW where \in Pcs \ {"commit", "enqueue", "mark"},
         Goes(c, where), c \notin inserted, jobs[c] = 0 \/ where \in {"done", "dead"},
         pc[c] \notin {"commit", "done"}, c \in committed => where \in {"done", "dead"},
         UNCHANGED <<ask, inserted, committed, jobs, reply>>
  PROVE  IInv'
<1>1. TypeOK'
  BY DEF Goes, IInv, TypeOK
<1>2. KeysAreHeldOnce' /\ RepliesAreTrue' /\ DispatchedOnce'
  BY DEF IInv, KeysAreHeldOnce, RepliesAreTrue, DispatchedOnce, SameKey
<1>3. OrderFollowsCall'
  BY DEF Goes, Pcs, IInv, TypeOK, OrderFollowsCall
<1> QED
  BY <1>1, <1>2, <1>3 DEF IInv

\* A call that ends with an answer other than "created".
LEMMA Answers ==
  ASSUME IInv, NEW c \in Calls, pc[c] \in {"unsent", "lookup", "conflict"},
         NEW kind \in ReplyKinds \ {"none", "created"}, NEW o \in Existing(c) \cup {NoOrder},
         Tells(c, kind, o), Goes(c, "done"),
         UNCHANGED <<ask, inserted, committed, jobs>>
  PROVE  IInv'
<1>1. /\ o \in Calls \cup {NoOrder}
      /\ o # NoOrder => o \in committed /\ SameKey(c, o)
  BY DEF Existing, Holders, IInv, TypeOK
<1>2. TypeOK'
  BY <1>1 DEF Tells, Goes, IInv, TypeOK, Pcs
<1>3. KeysAreHeldOnce'
  BY DEF IInv, KeysAreHeldOnce, SameKey
<1>4. OrderFollowsCall'
  BY DEF Goes, Tells, IInv, TypeOK, OrderFollowsCall
<1>5. reply'[c] = [kind |-> kind, order |-> o] /\ \A d \in Calls : d # c => reply'[d] = reply[d]
  BY DEF Tells, IInv, TypeOK
<1>6. RepliesAreTrue'
  BY <1>1, <1>5 DEF IInv, RepliesAreTrue, SameKey
<1>7. DispatchedOnce'
  BY <1>5 DEF IInv, DispatchedOnce, OrderFollowsCall
<1> QED
  BY <1>2, <1>3, <1>4, <1>6, <1>7 DEF IInv

LEMMA LookupInvariant ==
  ASSUME IInv, NEW c \in Calls, Lookup(c)
  PROVE  IInv'
<1>1. pc[c] = "lookup" /\ UNCHANGED <<ask, inserted, committed, jobs>>
  BY DEF Lookup
<1>2. ASSUME NEW o \in Existing(c), Tells(c, "replayed", o), Goes(c, "done")
      PROVE  IInv'
  BY <1>1, <1>2, Answers DEF ReplyKinds, Refusals
<1>3. CASE Tells(c, "rejected", NoOrder) /\ Goes(c, "done")
  BY <1>1, <1>3, Answers DEF ReplyKinds, Refusals
<1>4. CASE Goes(c, "insert") /\ UNCHANGED reply
  BY <1>1, <1>4, MovesOn DEF IInv, OrderFollowsCall, Pcs
<1> QED
  BY <1>2, <1>3, <1>4 DEF Lookup, Route

LEMMA ConflictInvariant ==
  ASSUME IInv, NEW c \in Calls, Conflict(c)
  PROVE  IInv'
<1>1. pc[c] = "conflict" /\ Goes(c, "done") /\ UNCHANGED <<ask, inserted, committed, jobs>>
  BY DEF Conflict
<1>2. ASSUME NEW o \in Existing(c), Tells(c, "replayed", o)
      PROVE  IInv'
  BY <1>1, <1>2, Answers DEF ReplyKinds, Refusals
<1>3. ASSUME NEW kind \in {"conflict", "error"}, Tells(c, kind, NoOrder)
      PROVE  IInv'
  BY <1>1, <1>3, Answers DEF ReplyKinds, Refusals
<1> QED
  BY <1>2, <1>3 DEF Conflict

\* The index lets a row in only if neither the table nor an open transaction
\* holds its key.
LEMMA InsertInvariant ==
  ASSUME IInv, NEW c \in Calls, Insert(c)
  PROVE  IInv'
<1>1. CASE Holders(c) # {} /\ UNCHANGED inserted /\ Goes(c, "conflict")
  BY <1>1, MovesOn DEF Insert, IInv, OrderFollowsCall, Pcs
<1>2. CASE Holders(c) = {} /\ inserted' = inserted \cup {c} /\ Goes(c, "commit")
  <2>1. pc[c] = "insert" /\ UNCHANGED <<ask, committed, jobs, reply>>
    BY DEF Insert
  <2>2. \A o \in inserted \cup committed : ~SameKey(c, o) /\ ~SameKey(o, c)
    BY <1>2 DEF Insert, Holders, SameKey
  <2>3. TypeOK'
    BY <1>2, <2>1 DEF Goes, IInv, TypeOK, Pcs
  <2>4. KeysAreHeldOnce'
    BY <1>2, <2>1, <2>2 DEF IInv, KeysAreHeldOnce, SameKey
  <2>5. OrderFollowsCall'
    BY <1>2, <2>1 DEF Goes, IInv, TypeOK, OrderFollowsCall
  <2>6. RepliesAreTrue' /\ DispatchedOnce'
    BY <2>1 DEF IInv, RepliesAreTrue, DispatchedOnce, SameKey
  <2> QED
    BY <2>3, <2>4, <2>5, <2>6 DEF IInv
<1> QED
  BY <1>1, <1>2 DEF Insert

LEMMA CommitInvariant ==
  ASSUME IInv, NEW c \in Calls, Commit(c)
  PROVE  IInv'
<1>1. /\ pc[c] = "commit" /\ c \in inserted /\ Goes(c, "enqueue")
      /\ inserted' = inserted \ {c} /\ committed' = committed \cup {c}
      /\ UNCHANGED <<ask, jobs, reply>>
  BY DEF Commit, IInv, OrderFollowsCall
<1>2. TypeOK'
  BY <1>1 DEF Goes, IInv, TypeOK, Pcs
<1>3. KeysAreHeldOnce'
  BY <1>1 DEF IInv, KeysAreHeldOnce, SameKey
<1>4. OrderFollowsCall'
  BY <1>1 DEF Goes, IInv, TypeOK, OrderFollowsCall
<1>5. RepliesAreTrue' /\ DispatchedOnce'
  BY <1>1 DEF IInv, RepliesAreTrue, DispatchedOnce, SameKey, OrderFollowsCall, Refusals
<1> QED
  BY <1>2, <1>3, <1>4, <1>5 DEF IInv

LEMMA EnqueueInvariant ==
  ASSUME IInv, NEW c \in Calls, Enqueue(c)
  PROVE  IInv'
<1>0. /\ pc[c] = "enqueue" /\ c \in committed /\ c \notin inserted /\ jobs[c] = 0
  BY DEF Enqueue, IInv, OrderFollowsCall
<1>1. /\ c \in committed /\ c \notin inserted /\ Goes(c, "mark")
      /\ jobs' = [jobs EXCEPT ![c] = 1]
      /\ UNCHANGED <<ask, inserted, committed, reply>>
  BY <1>0 DEF Enqueue
<1>2. TypeOK'
  BY <1>1 DEF Goes, IInv, TypeOK, Pcs
<1>3. KeysAreHeldOnce' /\ RepliesAreTrue'
  BY <1>1 DEF IInv, KeysAreHeldOnce, RepliesAreTrue, SameKey
<1>4. OrderFollowsCall'
  BY <1>0, <1>1 DEF Goes, IInv, TypeOK, OrderFollowsCall
<1>5. DispatchedOnce'
  BY <1>1 DEF IInv, TypeOK, DispatchedOnce
<1> QED
  BY <1>2, <1>3, <1>4, <1>5 DEF IInv

LEMMA AcceptInvariant ==
  ASSUME IInv, NEW c \in Calls, Accept(c)
  PROVE  IInv'
<1>1. /\ pc[c] = "mark" /\ c \in committed /\ c \notin inserted /\ jobs[c] = 1
      /\ Goes(c, "done") /\ Tells(c, "created", c)
      /\ UNCHANGED <<ask, inserted, committed, jobs>>
  BY DEF Accept, IInv, OrderFollowsCall
<1>2. TypeOK'
  BY <1>1 DEF Goes, Tells, IInv, TypeOK, Pcs, ReplyKinds
<1>3. reply'[c] = [kind |-> "created", order |-> c] /\ \A d \in Calls : d # c => reply'[d] = reply[d]
  BY <1>1 DEF Tells, IInv, TypeOK
<1>4. KeysAreHeldOnce' /\ RepliesAreTrue'
  BY <1>1, <1>3 DEF IInv, KeysAreHeldOnce, RepliesAreTrue, SameKey
<1>5. OrderFollowsCall'
  BY <1>1, <1>3 DEF Goes, IInv, TypeOK, OrderFollowsCall
<1>6. DispatchedOnce'
  BY <1>1, <1>3 DEF IInv, DispatchedOnce, Refusals
<1> QED
  BY <1>2, <1>4, <1>5, <1>6 DEF IInv

\* A transaction that rolls back frees its key.
LEMMA DeathInvariant ==
  ASSUME IInv, NEW c \in Calls, Dies(c)
  PROVE  IInv'
<1>1. /\ pc[c] # "done" /\ Goes(c, "dead") /\ inserted' = inserted \ {c}
      /\ UNCHANGED <<ask, committed, jobs, reply>>
  BY DEF Dies
<1>2. TypeOK'
  BY <1>1 DEF Goes, IInv, TypeOK, Pcs
<1>3. KeysAreHeldOnce' /\ RepliesAreTrue' /\ DispatchedOnce'
  BY <1>1 DEF IInv, KeysAreHeldOnce, RepliesAreTrue, DispatchedOnce, SameKey
<1>4. OrderFollowsCall'
  BY <1>1 DEF Goes, IInv, TypeOK, OrderFollowsCall
<1> QED
  BY <1>2, <1>3, <1>4 DEF IInv

LEMMA ReceiveInvariant ==
  ASSUME IInv, NEW c \in Calls, Receive(c)
  PROVE  IInv'
<1>1. pc[c] = "unsent" /\ c \notin inserted \cup committed /\ jobs[c] = 0
  BY DEF Receive, IInv, OrderFollowsCall
<1>2. CASE Goes(c, "lookup") /\ UNCHANGED reply
  BY <1>1, <1>2, MovesOn DEF Receive, Pcs
<1>3. CASE Goes(c, "done") /\ Tells(c, "invalid", NoOrder)
  BY <1>1, <1>3, Answers DEF Receive, ReplyKinds, Refusals
<1> QED
  BY <1>2, <1>3 DEF Receive

LEMMA NextInvariant == IInv /\ [Next]_vars => IInv'
<1> SUFFICES ASSUME IInv, [Next]_vars
             PROVE  IInv'
  OBVIOUS
<1>1. CASE Next
  BY <1>1, ReceiveInvariant, LookupInvariant, InsertInvariant, ConflictInvariant, CommitInvariant,
     EnqueueInvariant, AcceptInvariant, DeathInvariant DEF Next, Handle
<1>2. CASE UNCHANGED vars
  BY <1>2 DEF vars, IInv, TypeOK, KeysAreHeldOnce, OrderFollowsCall, RepliesAreTrue,
              DispatchedOnce, SameKey
<1> QED
  BY <1>1, <1>2

LEMMA Invariance == Spec => []IInv
<1>1. Init => IInv
  BY InitInvariant
<1>2. IInv /\ [Next]_vars => IInv'
  BY NextInvariant
<1> QED
  BY <1>1, <1>2, PTL DEF Spec

-----------------------------------------------------------------------------
\* However calls with one key overlap or die, one order is stored for it.
THEOREM KeysAreUnique == Spec => []OneOrderPerKey
<1>1. IInv => OneOrderPerKey
  BY DEF IInv, KeysAreHeldOnce, OneOrderPerKey
<1> QED
  BY <1>1, Invariance, PTL

\* All answers under a key name the same stored order of the same client.
THEOREM AnswersAgree == Spec => []RepliesAgree
<1>1. IInv => RepliesAgree
  <2> SUFFICES ASSUME IInv, NEW c \in Calls, reply[c].order # NoOrder
               PROVE  /\ reply[c].order \in committed
                      /\ ask[reply[c].order].sender = ask[c].sender
                      /\ \A d \in Calls : SameKey(c, d) /\ reply[d].order # NoOrder =>
                           reply[d].order = reply[c].order
    BY DEF RepliesAgree
  <2>1. reply[c].order \in committed /\ ask[reply[c].order].sender = ask[c].sender
    BY DEF IInv, RepliesAreTrue, SameKey
  <2>2. ASSUME NEW d \in Calls, SameKey(c, d), reply[d].order # NoOrder
        PROVE  reply[d].order = reply[c].order
    <3>1. SameKey(reply[d].order, reply[c].order)
      BY <2>2 DEF IInv, RepliesAreTrue, SameKey
    <3> QED
      BY <2>2, <3>1 DEF IInv, RepliesAreTrue, KeysAreHeldOnce
  <2> QED
    BY <2>1, <2>2
<1> QED
  BY <1>1, Invariance, PTL

\* An order is queued once at most, by the call that made it, and before that
\* call answers.
THEOREM QueuedOnce == Spec => []DispatchedOnce
<1>1. IInv => DispatchedOnce
  BY DEF IInv
<1> QED
  BY <1>1, Invariance, PTL

-----------------------------------------------------------------------------
(***************************************************************************)
(* Routing.                                                                *)
(***************************************************************************)

\* What the two early refusals leave can be bought.
LEMMA RefusalsSuffice ==
  ASSUME NEW name \in ProviderNames, NEW type \in OrderTypes, ~Rejected(name, type)
  PROVE  CanBuy(name, type)
  BY DEF ProviderNames, OrderTypes, Rejected, CanBuy

\* A call past the schemas names a provider or none, one past its lookup has
\* passed the refusals, and one that was refused is of such a pair.
Routed ==
  \A c \in Calls :
    /\ pc[c] \in {"lookup", "insert", "commit"} \/ c \in committed =>
         ask[c].body.requested # "unknown"
    /\ pc[c] \in {"insert", "commit"} \/ c \in committed =>
         ~Rejected(ProviderOf(c), ask[c].body.type)
    /\ reply[c].kind = "rejected" => Rejected(ProviderOf(c), ask[c].body.type)

LEMMA RoutedInvariant == IInv /\ Routed /\ [Next]_vars => Routed'
<1> SUFFICES ASSUME IInv, Routed, Next
             PROVE  Routed'
  BY DEF Routed, vars, ProviderOf
<1>1. PICK c \in Calls : Receive(c) \/ Handle(c) \/ Dies(c)
  BY DEF Next
<1>2. UNCHANGED ask
  BY <1>1 DEF Handle, Receive, Lookup, Route, Insert, Conflict, Commit, Enqueue, Accept, Dies
<1>3. /\ \A d \in Calls : d # c =>
           pc'[d] = pc[d] /\ reply'[d] = reply[d] /\ (d \in committed' <=> d \in committed)
      /\ reply'[c].kind = "rejected" => reply[c].kind = "rejected" \/ Lookup(c)
  BY <1>1 DEF Handle, Receive, Lookup, Route, Insert, Conflict, Commit, Enqueue, Accept, Dies, Goes,
              Tells, IInv, TypeOK
<1>4. CASE Receive(c)
  <2>1. pc'[c] = "lookup" => ask[c].body.requested # "unknown"
    BY <1>4 DEF Receive, Goes, Valid, IInv, TypeOK
  <2>2. pc'[c] \in {"lookup", "done"} /\ UNCHANGED committed /\ c \notin committed
        /\ (reply'[c].kind = "rejected" => reply[c].kind = "rejected")
    BY <1>4 DEF Receive, Goes, Tells, IInv, TypeOK, OrderFollowsCall
  <2> QED
    BY <1>2, <1>3, <2>1, <2>2 DEF Routed, ProviderOf
<1>5. CASE Lookup(c)
  <2>1. /\ pc[c] = "lookup" /\ UNCHANGED committed /\ c \notin committed
        /\ pc'[c] \in {"insert", "done"}
        /\ pc'[c] = "insert" => ~Rejected(ProviderOf(c), ask[c].body.type)
    BY <1>5 DEF Lookup, Route, Goes, IInv, TypeOK, OrderFollowsCall
  <2>2. reply'[c].kind = "rejected" =>
          reply[c].kind = "rejected" \/ Rejected(ProviderOf(c), ask[c].body.type)
    BY <1>5 DEF Lookup, Route, Tells, IInv, TypeOK
  <2> QED
    BY <1>2, <1>3, <2>1, <2>2 DEF Routed, ProviderOf
<1>6. CASE ~Receive(c) /\ ~Lookup(c)
  <2>1. /\ pc'[c] \in {"insert", "commit"} => pc[c] \in {"insert", "commit"}
        /\ pc'[c] # "lookup"
        /\ c \in committed' => c \in committed \/ pc[c] = "commit"
    BY <1>1, <1>6 DEF Handle, Insert, Conflict, Commit, Enqueue, Accept, Dies, Goes, IInv, TypeOK
  <2> QED
    BY <1>2, <1>3, <1>6, <2>1 DEF Routed, ProviderOf
<1> QED
  BY <1>4, <1>5, <1>6

LEMMA RoutedAlways == Spec => []Routed
<1>1. Init => Routed
  BY DEF Init, Routed
<1> QED
  BY <1>1, RoutedInvariant, Invariance, PTL DEF Spec

\* A call past the schemas is served by a provider of the registry.
LEMMA ProviderIsKnown ==
  ASSUME TypeOK, NEW c \in Calls, ask[c].body.requested # "unknown"
  PROVE  ProviderOf(c) \in ProviderNames /\ ask[c].body.type \in OrderTypes
<1>1. ask[c].body \in Body
  BY AsksAssumption DEF TypeOK
<1> QED
  BY <1>1, DefaultAssumption DEF Body, ProviderOf, Chosen

\* Whatever bodies clients send and whatever the default, an order is stored
\* only with a provider whose adapter can buy its type.
THEOREM OrdersAreRouted == Spec => []RoutedOrders
<1>1. IInv /\ Routed => RoutedOrders
  <2> SUFFICES ASSUME IInv, Routed, NEW c \in committed
               PROVE  CanBuy(ProviderOf(c), ask[c].body.type)
    BY DEF RoutedOrders
  <2>1. c \in Calls /\ TypeOK
    BY DEF IInv, TypeOK
  <2>2. ProviderOf(c) \in ProviderNames /\ ask[c].body.type \in OrderTypes
    BY <2>1, ProviderIsKnown DEF Routed
  <2> QED
    BY <2>1, <2>2, RefusalsSuffice DEF Routed
<1> QED
  BY <1>1, RoutedAlways, Invariance, PTL

\* What GET /providers lists is what the intake takes, whatever clients send.
THEOREM ListingIsHonest == Spec => []CatalogIsHonest
<1>1. IInv /\ Routed => CatalogIsHonest
  <2> SUFFICES ASSUME IInv, Routed, NEW c \in Calls
               PROVE  /\ reply[c].kind = "rejected" =>
                           ask[c].body.type \notin SupportedTypes[ProviderOf(c)]
                      /\ c \in committed =>
                           ask[c].body.type \in SupportedTypes[ProviderOf(c)]
    BY DEF CatalogIsHonest
  <2>1. ASSUME reply[c].kind = "rejected"
        PROVE  ask[c].body.type \notin SupportedTypes[ProviderOf(c)]
    BY <2>1 DEF Routed, Rejected, SupportedTypes
  <2>2. ASSUME c \in committed
        PROVE  ask[c].body.type \in SupportedTypes[ProviderOf(c)]
    <3>1. ProviderOf(c) \in ProviderNames /\ ask[c].body.type \in OrderTypes
      BY <2>2, ProviderIsKnown DEF Routed, IInv
    <3>2. ~Rejected(ProviderOf(c), ask[c].body.type)
      BY <2>2 DEF Routed
    <3> QED
      BY <3>1, <3>2 DEF Rejected, SupportedTypes, ProviderNames, OrderTypes
  <2> QED
    BY <2>1, <2>2
<1> QED
  BY <1>1, RoutedAlways, Invariance, PTL

\* Calls, orders and answers keep their types.
THEOREM TypeCorrect == Spec => []TypeOK
<1>1. IInv => TypeOK
  BY DEF IInv
<1> QED
  BY <1>1, Invariance, PTL
=============================================================================
