------------------------ MODULE WebhookBacklogProofs ------------------------
(***************************************************************************)
(* Proofs about WebhookBacklog, for every number of rows and passes and    *)
(* every size of their selections.                                         *)
(***************************************************************************)
EXTENDS WebhookBacklog, SequenceTheorems, TLAPS

USE DEF rowVars

-----------------------------------------------------------------------------
(***************************************************************************)
(* Sequences without repetition.                                           *)
(***************************************************************************)

LEMMA AppendOnce ==
  ASSUME NEW S, NEW s \in Seq(S), NEW e \in S, IsInjective(s), e \notin ToSet(s)
  PROVE  /\ Append(s, e) \in Seq(S)
         /\ ToSet(Append(s, e)) = ToSet(s) \cup {e}
         /\ IsInjective(Append(s, e))
<1>1. /\ Append(s, e) \in Seq(S) /\ Len(Append(s, e)) = Len(s) + 1
      /\ \A i \in 1 .. Len(s) : Append(s, e)[i] = s[i]
      /\ Append(s, e)[Len(s) + 1] = e
  BY AppendProperties
<1>2. DOMAIN s = 1 .. Len(s) /\ DOMAIN Append(s, e) = 1 .. Len(s) + 1 /\ Len(s) \in Nat
  BY <1>1, LenProperties
<1>3. \A i \in 1 .. Len(s) + 1 : i \in 1 .. Len(s) \/ i = Len(s) + 1
  BY <1>2
<1>4. \A i \in 1 .. Len(s) : i \in 1 .. Len(s) + 1
  BY <1>2
<1>5. Len(s) + 1 \in 1 .. Len(s) + 1
  BY <1>2
<1>6. ToSet(Append(s, e)) = ToSet(s) \cup {e}
  BY <1>1, <1>2, <1>3, <1>4, <1>5 DEF ToSet
<1>7. IsInjective(Append(s, e))
  BY <1>1, <1>2, <1>3 DEF IsInjective, ToSet
<1> QED
  BY <1>1, <1>6, <1>7

LEMMA TailOnce ==
  ASSUME NEW S, NEW s \in Seq(S), s # <<>>
  PROVE  /\ Head(s) \in S /\ Tail(s) \in Seq(S) /\ Len(Tail(s)) <= Len(s)
         /\ IsInjective(s) => IsInjective(Tail(s))
<1>1. /\ Head(s) \in S /\ Tail(s) \in Seq(S) /\ Len(Tail(s)) = Len(s) - 1
      /\ \A i \in 1 .. Len(Tail(s)) : Tail(s)[i] = s[i + 1]
  BY HeadTailProperties
<1>2. /\ DOMAIN s = 1 .. Len(s) /\ Len(s) \in Nat
      /\ DOMAIN Tail(s) = 1 .. Len(Tail(s))
  BY <1>1, LenProperties
<1> QED
  BY <1>1, <1>2 DEF IsInjective

\* The selection of a pass: the first rows of the line.
LEMMA PrefixOnce ==
  ASSUME NEW S, NEW s \in Seq(S), NEW n \in 0 .. Len(s)
  PROVE  SubSeq(s, 1, n) \in Seq(S) /\ Len(SubSeq(s, 1, n)) = n
<1>1. Len(s) \in Nat /\ n \in Nat /\ \A i \in 1 .. n : s[i] \in S
  BY LenProperties, ElementOfSeq
<1>2. /\ SubSeq(s, 1, n) \in Seq(S)
      /\ Len(SubSeq(s, 1, n)) = IF 1 <= n THEN n - 1 + 1 ELSE 0
  BY <1>1, SubSeqProperties
<1> QED
  BY <1>1, <1>2

\* Taking out the only occurrence leaves all others.
LEMMA RemoveOnce ==
  ASSUME NEW S, NEW s \in Seq(S), NEW e, IsInjective(s)
  PROVE  /\ RemoveFirst(s, e) \in Seq(S)
         /\ ToSet(RemoveFirst(s, e)) = ToSet(s) \ {e}
         /\ IsInjective(RemoveFirst(s, e))
<1>d. DOMAIN s = 1 .. Len(s) /\ Len(s) \in Nat
  BY LenProperties
<1>1. CASE ~ \E i \in 1 .. Len(s) : s[i] = e
  BY <1>d, <1>1 DEF RemoveFirst, ToSet
<1>2. ASSUME NEW k \in 1 .. Len(s), s[k] = e
      PROVE  /\ RemoveFirst(s, e) \in Seq(S)
             /\ ToSet(RemoveFirst(s, e)) = ToSet(s) \ {e}
             /\ IsInjective(RemoveFirst(s, e))
  <2> DEFINE I == {i \in 1 .. Len(s) : s[i] = e}
             u == SubSeq(s, 1, k - 1)
             v == SubSeq(s, k + 1, Len(s))
             t == u \o v
  <2>1. I = {k} /\ k \in Nat
    BY <1>d, <1>2 DEF IsInjective
  <2>2. Min(I) = k
    BY <2>1 DEF Min
  <2>3. SelectInSeq(s, LAMBDA x : x = e) = k
    BY <2>1, <2>2 DEF SelectInSeq
  <2>4. RemoveFirst(s, e) = t
    BY <1>2, <2>3 DEF RemoveFirst, RemoveAt
  <2>5. \A i \in 1 .. Len(s) : s[i] \in S
    BY ElementOfSeq
  <2>6. u \in Seq(S) /\ Len(u) = k - 1 /\ \A i \in 1 .. k - 1 : u[i] = s[i]
    <3>1. k - 1 \in Int /\ \A i \in 1 .. k - 1 : s[i] \in S
      BY <1>d, <2>5
    <3>2. /\ u \in Seq(S)
          /\ Len(u) = IF 1 <= k - 1 THEN (k - 1) - 1 + 1 ELSE 0
          /\ \A i \in 1 .. (k - 1) - 1 + 1 : u[i] = s[1 + i - 1]
      BY <3>1, SubSeqProperties
    <3> HIDE DEF u
    <3> QED
      BY <1>d, <3>2
  <2>7. v \in Seq(S) /\ Len(v) = Len(s) - k /\ \A i \in 1 .. Len(s) - k : v[i] = s[k + i]
    <3>1. k + 1 \in Int /\ Len(s) \in Int /\ \A i \in k + 1 .. Len(s) : s[i] \in S
      BY <1>d, <2>5
    <3>2. /\ v \in Seq(S)
          /\ Len(v) = IF k + 1 <= Len(s) THEN Len(s) - (k + 1) + 1 ELSE 0
          /\ \A i \in 1 .. Len(s) - (k + 1) + 1 : v[i] = s[(k + 1) + i - 1]
      BY <3>1, SubSeqProperties
    <3> HIDE DEF v
    <3>0. k \in Nat /\ Len(s) \in Nat /\ k <= Len(s)
      BY <1>d
    <3>3. Len(s) - (k + 1) + 1 = Len(s) - k /\ (~ (k + 1 <= Len(s)) => Len(s) - k = 0)
      BY <3>0
    <3>4. ASSUME NEW i \in 1 .. Len(s) - k
          PROVE  v[i] = s[k + i]
      <4>1. i \in 1 .. Len(s) - (k + 1) + 1
        BY <3>3
      <4>2. v[i] = s[(k + 1) + i - 1]
        BY <3>2, <4>1
      <4>3. i \in Int /\ k \in Int
        BY <1>d
      <4>4. (k + 1) + i - 1 = k + i
        BY <4>3
      <4> QED
        BY <4>2, <4>4
    <3>5. Len(v) = Len(s) - k
      BY <3>0, <3>2, <3>3
    <3> QED
      BY <3>2, <3>4, <3>5
  <2> HIDE DEF I, u, v
  <2>8. t \in Seq(S) /\ DOMAIN t = 1 .. Len(s) - 1
    <3>1. t \in Seq(S) /\ Len(t) = Len(u) + Len(v)
      BY <2>6, <2>7, ConcatProperties
    <3>2. Len(t) = Len(s) - 1
      BY <1>d, <2>6, <2>7, <3>1
    <3> QED
      BY <3>1, <3>2, LenProperties
  <2>9. \A i \in 1 .. Len(s) - 1 : t[i] = s[IF i < k THEN i ELSE i + 1]
    <3> SUFFICES ASSUME NEW i \in 1 .. Len(s) - 1
                 PROVE  t[i] = s[IF i < k THEN i ELSE i + 1]
      OBVIOUS
    <3>1. Len(u) + Len(v) = Len(s) - 1
      BY <1>d, <2>6, <2>7
    <3>2. t[i] = IF i <= Len(u) THEN u[i] ELSE v[i - Len(u)]
      BY <2>6, <2>7, <3>1, ConcatProperties
    <3> HIDE DEF t
    <3>3. CASE i < k
      BY <1>d, <2>6, <3>2, <3>3
    <3>4. CASE i >= k
      <4>1. /\ i - Len(u) \in 1 .. Len(s) - k /\ k + (i - Len(u)) = i + 1
            /\ ~ (i <= Len(u)) /\ ~ (i < k)
        BY <1>d, <2>6, <3>4
      <4>2. t[i] = v[i - Len(u)] /\ v[i - Len(u)] = s[k + (i - Len(u))]
        BY <2>7, <3>2, <4>1
      <4> QED
        BY <4>1, <4>2
    <3> QED
      BY <1>d, <3>3, <3>4
  <2> HIDE DEF t
  <2>10. IsInjective(t)
    <3> SUFFICES ASSUME NEW i \in 1 .. Len(s) - 1, NEW j \in 1 .. Len(s) - 1, t[i] = t[j]
                 PROVE  i = j
      BY <2>8 DEF IsInjective
    <3> DEFINE a == IF i < k THEN i ELSE i + 1
               b == IF j < k THEN j ELSE j + 1
    <3>1. a \in 1 .. Len(s) /\ b \in 1 .. Len(s) /\ (a = b => i = j)
      BY <1>d
    <3>2. s[a] = s[b]
      BY <2>9
    <3> HIDE DEF a, b
    <3> QED
      BY <1>d, <3>1, <3>2 DEF IsInjective
  <2>11. ToSet(t) \subseteq ToSet(s) \ {e}
    <3> SUFFICES ASSUME NEW i \in 1 .. Len(s) - 1
                 PROVE  t[i] \in ToSet(s) \ {e}
      BY <2>8 DEF ToSet
    <3> DEFINE a == IF i < k THEN i ELSE i + 1
    <3>1. a \in 1 .. Len(s) /\ a # k
      BY <1>d
    <3>2. t[i] = s[a]
      BY <2>9
    <3> HIDE DEF a
    <3> QED
      BY <1>d, <1>2, <3>1, <3>2 DEF IsInjective, ToSet
  <2>12. ToSet(s) \ {e} \subseteq ToSet(t)
    <3> SUFFICES ASSUME NEW a \in 1 .. Len(s), s[a] # e
                 PROVE  s[a] \in ToSet(t)
      BY <1>d DEF ToSet
    <3> DEFINE i == IF a < k THEN a ELSE a - 1
    <3>1. a # k
      BY <1>2
    <3>2. i \in 1 .. Len(s) - 1 /\ (IF i < k THEN i ELSE i + 1) = a
      BY <1>d, <3>1
    <3>3. t[i] = s[a]
      BY <2>9, <3>2
    <3> HIDE DEF i
    <3> QED
      BY <2>8, <3>2, <3>3 DEF ToSet
  <2> QED
    BY <2>4, <2>8, <2>10, <2>11, <2>12
<1> QED
  BY <1>1, <1>2

-----------------------------------------------------------------------------
(***************************************************************************)
(* Every pending row has exactly one place.                                *)
(***************************************************************************)

LEMMA InitType == Init => TypeOK
<1> SUFFICES ASSUME Init
             PROVE  TypeOK
  OBVIOUS
<1>1. /\ <<>> \in Seq(Deliveries) /\ ToSet(<<>>) = {} /\ IsInjective(<<>>)
      /\ Len(<<>>) = 0
  BY DEF ToSet, IsInjective
<1>2. \A p \in Passes : batch[p] = <<>> /\ Len(batch[p]) <= Limit[p]
  BY <1>1, LimitAssumption DEF Init
<1> QED
  BY <1>1, <1>2 DEF Init, TypeOK, Statuses

LEMMA EnqueueType ==
  ASSUME TypeOK, NEW d \in Deliveries, EnqueueWebhook(d)
  PROVE  TypeOK'
<1>1. d \notin ToSet(line) \cup later
  BY DEF TypeOK, EnqueueWebhook
<1>2. /\ line' \in Seq(Deliveries) /\ IsInjective(line')
      /\ ToSet(line') = ToSet(line) \cup {d}
  BY <1>1, AppendOnce DEF TypeOK, EnqueueWebhook
<1>3. /\ status' \in [Deliveries -> Statuses]
      /\ {e \in Deliveries : status'[e] = "pending"}
           = {e \in Deliveries : status[e] = "pending"} \cup {d}
  BY DEF TypeOK, EnqueueWebhook, Statuses
<1>4. ToSet(line') \cup later' = {e \in Deliveries : status'[e] = "pending"}
  BY <1>2, <1>3 DEF TypeOK, EnqueueWebhook
<1>5. ToSet(line') \cap later' = {}
  BY <1>1, <1>2 DEF TypeOK, EnqueueWebhook
<1> QED
  BY <1>2, <1>3, <1>4, <1>5 DEF TypeOK, EnqueueWebhook

LEMMA ComeDueType ==
  ASSUME TypeOK, NEW d \in Deliveries, ComeDue(d)
  PROVE  TypeOK'
<1>1. d \in later /\ d \notin ToSet(line)
  BY DEF TypeOK, ComeDue
<1>2. /\ line' \in Seq(Deliveries) /\ IsInjective(line')
      /\ ToSet(line') = ToSet(line) \cup {d}
  BY <1>1, AppendOnce DEF TypeOK, ComeDue
<1>3. /\ ToSet(line') \cup later' = ToSet(line) \cup later
      /\ ToSet(line') \cap later' = {}
  BY <1>1, <1>2 DEF TypeOK, ComeDue
<1> QED
  BY <1>2, <1>3 DEF TypeOK, ComeDue

LEMMA PassType ==
  ASSUME TypeOK, NEW p \in Passes, Pass(p)
  PROVE  TypeOK'
<1>t. /\ line \in Seq(Deliveries) /\ batch \in [Passes -> Seq(Deliveries)]
      /\ queue \in Seq(Deliveries) /\ IsInjective(queue)
      /\ \A q \in Passes : Limit[q] \in Nat /\ Len(batch[q]) <= Limit[q]
  BY LimitAssumption DEF TypeOK
<1>1. CASE Select(p)
  <2> DEFINE n == IF Len(line) < Limit[p] THEN Len(line) ELSE Limit[p]
  <2>1. Len(line) \in Nat
    BY <1>t, LenProperties
  <2>2. n \in 0 .. Len(line) /\ n <= Limit[p]
    BY <1>t, <2>1
  <2>3. Window(p) \in Seq(Deliveries) /\ Len(Window(p)) = n
    BY <1>t, <2>2, PrefixOnce DEF Window
  <2>4. batch' = [batch EXCEPT ![p] = Window(p)]
    BY <1>1 DEF Select
  <2>5. /\ batch' \in [Passes -> Seq(Deliveries)]
        /\ \A q \in Passes : Len(batch'[q]) <= Limit[q]
    BY <1>t, <2>2, <2>3, <2>4
  <2> QED
    BY <1>1, <2>5 DEF Select, TypeOK
<1>2. CASE QueueNext(p)
  <2>1. batch[p] \in Seq(Deliveries) /\ batch[p] # <<>>
    BY <1>t, <1>2 DEF QueueNext
  <2>2. /\ Head(batch[p]) \in Deliveries /\ Tail(batch[p]) \in Seq(Deliveries)
        /\ Len(Tail(batch[p])) <= Len(batch[p])
    BY <2>1, TailOnce
  <2>3. batch' = [batch EXCEPT ![p] = Tail(batch[p])]
    BY <1>2 DEF QueueNext
  <2>4. Len(Tail(batch[p])) <= Limit[p]
    <3>1. Len(batch[p]) \in Nat /\ Len(Tail(batch[p])) \in Nat
      BY <2>1, <2>2, LenProperties
    <3> QED
      BY <1>t, <2>2, <3>1
  <2>5. /\ batch' \in [Passes -> Seq(Deliveries)]
        /\ \A q \in Passes : Len(batch'[q]) <= Limit[q]
    BY <1>t, <2>2, <2>3, <2>4
  <2>6. queue' \in Seq(Deliveries) /\ IsInjective(queue')
    <3>1. CASE Contains(queue, Head(batch[p]))
      BY <1>t, <1>2, <3>1 DEF QueueNext
    <3>2. CASE ~ Contains(queue, Head(batch[p]))
      <4>1. Head(batch[p]) \notin ToSet(queue)
        BY <1>t, <3>2, LenProperties DEF Contains, ToSet
      <4>2. queue' = Append(queue, Head(batch[p]))
        BY <1>2, <3>2 DEF QueueNext
      <4> QED
        BY <1>t, <2>2, <4>1, <4>2, AppendOnce
    <3> QED
      BY <3>1, <3>2
  <2> QED
    BY <1>2, <2>5, <2>6 DEF QueueNext, TypeOK
<1> QED
  BY <1>1, <1>2 DEF Pass

LEMMA WriteType ==
  ASSUME TypeOK, NEW d \in Deliveries, NEW ok \in BOOLEAN, Write(d, ok)
  PROVE  /\ status' \in [Deliveries -> Statuses] /\ attempts' \in [Deliveries -> Nat]
         /\ line' \in Seq(Deliveries) /\ IsInjective(line')
         /\ ToSet(line') \cup later' = {e \in Deliveries : status'[e] = "pending"}
         /\ ToSet(line') \cap later' = {}
<1>1. PICK st \in {"delivered", "failed", "pending"} :
        /\ status' = [status EXCEPT ![d] = st]
        /\ later' = IF st = "pending" THEN later \cup {d} ELSE later \ {d}
  BY DEF Write
<1>2. attempts' \in [Deliveries -> Nat]
  BY DEF Write, TypeOK
<1>3. /\ line' \in Seq(Deliveries) /\ IsInjective(line')
      /\ ToSet(line') = ToSet(line) \ {d}
  BY RemoveOnce DEF Write, TypeOK
<1>4. status' \in [Deliveries -> Statuses]
  BY <1>1 DEF TypeOK, Statuses
<1>5. \A e \in Deliveries :
        status'[e] = "pending" <=> IF e = d THEN st = "pending" ELSE status[e] = "pending"
  BY <1>1 DEF TypeOK
<1>6. ToSet(line) \subseteq Deliveries /\ later \subseteq Deliveries
  BY DEF TypeOK
<1>7. ToSet(line') \cup later' = {e \in Deliveries : status'[e] = "pending"}
  BY <1>1, <1>3, <1>5, <1>6 DEF TypeOK
<1>8. ToSet(line') \cap later' = {}
  BY <1>1, <1>3 DEF TypeOK
<1> QED
  BY <1>2, <1>3, <1>4, <1>7, <1>8

LEMMA RunType ==
  ASSUME TypeOK, Run
  PROVE  TypeOK'
<1>1. queue \in Seq(Deliveries) /\ queue # <<>> /\ IsInjective(queue)
  BY DEF Run, TypeOK
<1>2. /\ Head(queue) \in Deliveries
      /\ queue' \in Seq(Deliveries) /\ IsInjective(queue')
  BY <1>1, TailOnce DEF Run
<1>3. CASE UNCHANGED rowVars
  BY <1>2, <1>3 DEF Run, TypeOK
<1>4. ASSUME NEW ok \in BOOLEAN, Write(Head(queue), ok)
      PROVE  TypeOK'
  <2>1. /\ status' \in [Deliveries -> Statuses] /\ attempts' \in [Deliveries -> Nat]
        /\ line' \in Seq(Deliveries) /\ IsInjective(line')
        /\ ToSet(line') \cup later' = {e \in Deliveries : status'[e] = "pending"}
        /\ ToSet(line') \cap later' = {}
    BY <1>2, <1>4, WriteType
  <2> QED
    BY <1>2, <2>1 DEF Run, TypeOK
<1> QED
  BY <1>3, <1>4 DEF Run

\* A pending row is in the line or waits for its backoff, never both and never twice;
\* and a pass selects no more than its limit.
THEOREM TypeCorrect == Spec => []TypeOK
<1>1. TypeOK /\ [Next]_vars => TypeOK'
  <2> SUFFICES ASSUME TypeOK, [Next]_vars
               PROVE  TypeOK'
    OBVIOUS
  <2>1. CASE UNCHANGED vars
    BY <2>1 DEF vars, TypeOK
  <2> QED
    BY <2>1, EnqueueType, ComeDueType, PassType, RunType DEF Next
<1> QED
  BY InitType, <1>1, PTL DEF Spec
=============================================================================
