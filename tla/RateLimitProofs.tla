--------------------------- MODULE RateLimitProofs ---------------------------
(***************************************************************************)
(* Proofs about RateLimit for every number of requests, every limit and    *)
(* window, and clocks that disagree by less than the window.               *)
(***************************************************************************)
EXTENDS RateLimit, FiniteSetTheorems, TLAPS

\* The stretch of time in which the set is sure to hold what was admitted.
Safe == Window - Drift

LEMMA SafeIsNatural == Drift \in Nat /\ Safe \in Nat /\ Safe + Drift = Window
  BY ClockAssumption DEF Drift, Safe

-----------------------------------------------------------------------------
(***************************************************************************)
(* The inductive invariant.                                                *)
(***************************************************************************)

\* A reading on its way is close to real time.
ReadingsAreFresh ==
  \A r \in Requests : pc[r] = "read" =>
    reading[r] >= now - MaxBehind /\ reading[r] <= now + MaxAhead

\* So are the score and the time of an admission, which lie in the past.
ScoresAreClose ==
  \A r \in Admitted : /\ at[r] <= now
                      /\ score[r] >= at[r] - MaxBehind
                      /\ score[r] <= at[r] + MaxAhead

\* An admission that the set has lost is older than the safe stretch.
LostIsOld == \A r \in Admitted : r \in members \/ at[r] + Safe <= now

\* The key lives at least a window longer than every admission.
KeyOutlives == \A r \in Admitted : at[r] + Window <= expires

\* Admissions are numbered in their order.
RanksInOrder == \A r \in Admitted : rank[r] <= Cardinality(Admitted)

Bookkeeping ==
  /\ members \subseteq Admitted
  /\ ReadingsAreFresh
  /\ ScoresAreClose
  /\ LostIsOld
  /\ KeyOutlives
  /\ RanksInOrder

IInv == TypeOK /\ Bookkeeping /\ WindowRespected

-----------------------------------------------------------------------------
LEMMA InitInvariant == Init => IInv
<1> SUFFICES ASSUME Init
             PROVE  IInv
  OBVIOUS
<1>1. TypeOK
  BY LimitsAssumption, ClockAssumption DEF Init, TypeOK
<1>2. Admitted = {}
  BY DEF Init, Admitted
<1>3. Bookkeeping
  BY <1>2 DEF Init, Bookkeeping, ReadingsAreFresh, ScoresAreClose, LostIsOld, KeyOutlives,
              RanksInOrder
<1> QED
  BY <1>1, <1>2, <1>3 DEF IInv, WindowRespected

LEMMA EffectiveType == ASSUME NEW n \in Nat PROVE Effective(n) \in Nat \ {0}
  BY LimitsAssumption DEF Effective

LEMMA AdmittedIsFinite == IsFiniteSet(Admitted) /\ Cardinality(Admitted) \in Nat
  BY RequestsAssumption, FS_Subset, FS_CardinalityType DEF Admitted

LEMMA NextType == TypeOK /\ [Next]_vars => TypeOK'
<1> SUFFICES ASSUME TypeOK, [Next]_vars
             PROVE  TypeOK'
  OBVIOUS
<1> USE DEF requestVars, setVars, historyVars
<1>1. CASE Tick
  BY <1>1, ClockAssumption DEF Tick, TypeOK
<1>2. ASSUME NEW n \in Limits \cup {0}, ChangeLimit(n)
      PROVE  TypeOK'
  BY <1>2, LimitsAssumption DEF ChangeLimit, TypeOK
<1>3. ASSUME NEW r \in Requests, NEW t \in now - MaxBehind .. now + MaxAhead, ReadClock(r, t)
      PROVE  TypeOK'
  <2>1. t \in Nat
    BY <1>3, ClockAssumption DEF TypeOK
  <2>2. limit' \in [Requests -> Nat \ {0}]
    BY <1>3, EffectiveType DEF ReadClock, TypeOK
  <2> QED
    BY <1>3, <2>1, <2>2 DEF ReadClock, TypeOK
<1>4. ASSUME NEW r \in Requests, RunScript(r)
      PROVE  TypeOK'
  <2>1. Cardinality(Admitted) \in Nat
    BY AdmittedIsFinite
  <2>2. members' \subseteq Requests
    BY <1>4 DEF RunScript, AddMember, Kept, Member, TypeOK
  <2>3. score' \in [Requests -> Nat] /\ expires' \in Nat
    BY <1>4, ClockAssumption DEF RunScript, AddMember, Member, TypeOK
  <2>4. /\ pc' \in [Requests -> {"unsent", "read", "admitted", "refused"}]
        /\ at' \in [Requests -> Nat]
        /\ rank' \in [Requests -> Nat]
    BY <1>4, <2>1 DEF RunScript, Admit, TypeOK
  <2> QED
    BY <1>4, <2>2, <2>3, <2>4 DEF RunScript, TypeOK
<1>5. CASE UNCHANGED vars
  BY <1>5 DEF vars, TypeOK
<1> QED
  BY <1>1, <1>2, <1>3, <1>4, <1>5 DEF Next

\* The rate limiter's state keeps its shape.
THEOREM TypeCorrect == Spec => []TypeOK
<1>1. Init => TypeOK
  BY InitInvariant DEF IInv
<1>2. TypeOK /\ [Next]_vars => TypeOK'
  BY NextType
<1> QED
  BY <1>1, <1>2, PTL DEF Spec

-----------------------------------------------------------------------------
(***************************************************************************)
(* What a script keeps.                                                    *)
(***************************************************************************)

\* It keeps every admission of the safe stretch.
LEMMA KeptIsRecent ==
  ASSUME IInv, NEW r \in Requests, pc[r] = "read",
         NEW f \in Admitted, at[f] + Safe > now
  PROVE  f \in Kept(r)
<1>1. f \in members
  BY SafeIsNatural DEF IInv, Bookkeeping, LostIsOld, TypeOK, Admitted
<1>2. /\ f \in Requests
      /\ at[f] \in Nat /\ score[f] \in Nat /\ reading[r] \in Nat /\ now \in Nat /\ expires \in Nat
  BY DEF Admitted, IInv, TypeOK
<1>3. at[f] + Window <= expires /\ score[f] >= at[f] - MaxBehind /\ reading[r] <= now + MaxAhead
  BY DEF IInv, Bookkeeping, KeyOutlives, ScoresAreClose, ReadingsAreFresh
<1>4. now <= expires
  BY <1>2, <1>3, ClockAssumption DEF Safe, Drift
<1>5. score[f] + Window > reading[r]
  BY <1>2, <1>3, ClockAssumption DEF Safe, Drift
<1> QED
  BY <1>1, <1>4, <1>5 DEF Kept

\* And only admissions of the window and the drift.
LEMMA KeptIsNotOld ==
  ASSUME IInv, NEW r \in Requests, pc[r] = "read", NEW f \in Kept(r)
  PROVE  f \in Admitted /\ at[f] > now - (Window + Drift)
<1>1. f \in Admitted /\ f \in Requests
  BY DEF Kept, IInv, Bookkeeping, Admitted
<1>2. at[f] \in Nat /\ score[f] \in Nat /\ reading[r] \in Nat /\ now \in Nat
  BY <1>1 DEF IInv, TypeOK
<1>3. score[f] + Window > reading[r] /\ score[f] <= at[f] + MaxAhead
      /\ reading[r] >= now - MaxBehind
  BY <1>1 DEF Kept, IInv, Bookkeeping, ScoresAreClose, ReadingsAreFresh
<1> QED
  BY <1>1, <1>2, <1>3, ClockAssumption DEF Drift

LEMMA KeptIsFinite ==
  ASSUME IInv, NEW r \in Requests
  PROVE  IsFiniteSet(Kept(r)) /\ Cardinality(Kept(r)) \in Nat
<1>1. Kept(r) \subseteq Requests
  BY DEF Kept, IInv, TypeOK
<1> QED
  BY <1>1, RequestsAssumption, FS_Subset, FS_CardinalityType

-----------------------------------------------------------------------------
(***************************************************************************)
(* The invariant is inductive.                                             *)
(***************************************************************************)

\* Steps that admit nobody.
LEMMA NobodyAdmitted ==
  ASSUME IInv, Admitted' = Admitted, UNCHANGED <<score, expires, at, rank>>,
         \A r \in Admitted : limit'[r] = limit[r],
         now' >= now, TypeOK', ReadingsAreFresh',
         members' \subseteq members,
         \A f \in members : f \notin members' => at[f] + Safe <= now
  PROVE  IInv'
<1>1. \A r \in Admitted : at[r] \in Nat /\ now \in Nat /\ now' \in Nat /\ Safe \in Nat
  BY SafeIsNatural DEF IInv, TypeOK, Admitted
<1>2. ScoresAreClose'
  BY <1>1 DEF IInv, Bookkeeping, ScoresAreClose
<1>3. LostIsOld'
  BY <1>1 DEF IInv, Bookkeeping, LostIsOld
<1>4. KeyOutlives' /\ RanksInOrder' /\ members' \subseteq Admitted'
  BY DEF IInv, Bookkeeping, KeyOutlives, RanksInOrder
<1>5. WindowRespected'
  <2>1. \A e : Recent(e, Window - Drift)' = Recent(e, Window - Drift)
    BY DEF Recent, Drift
  <2> QED
    BY <2>1 DEF IInv, WindowRespected
<1> QED
  BY <1>2, <1>3, <1>4, <1>5 DEF IInv, Bookkeeping

\* A script that finds room.
LEMMA ScriptAdmits ==
  ASSUME IInv, TypeOK', NEW r \in Requests, pc[r] = "read",
         Cardinality(Kept(r)) < limit[r], AddMember(r), Admit(r),
         UNCHANGED <<now, clientLimit, reading, limit>>
  PROVE  IInv'
<1>1. Admitted' = Admitted \cup {r} /\ r \notin Admitted
  BY DEF Admit, Admitted, IInv, TypeOK
<1>2. /\ at'[r] = now /\ rank'[r] = Cardinality(Admitted) + 1 /\ score'[r] = reading[r]
      /\ \A f \in Admitted : at'[f] = at[f] /\ rank'[f] = rank[f] /\ score'[f] = score[f]
  BY <1>1 DEF Admit, AddMember, Member, Admitted, IInv, TypeOK
<1>3. /\ now \in Nat /\ reading[r] \in Nat /\ limit[r] \in Nat /\ Cardinality(Admitted) \in Nat
      /\ \A f \in Admitted : at[f] \in Nat /\ rank[f] \in Nat /\ score[f] \in Nat /\ f \in Requests
  BY AdmittedIsFinite DEF IInv, TypeOK, Admitted
<1>4. members' = Kept(r) \cup {r} /\ expires' = now + Window
  BY DEF AddMember, Member
<1>5. members' \subseteq Admitted'
  BY <1>1, <1>4, KeptIsNotOld
<1>6. ReadingsAreFresh'
  BY DEF Admit, IInv, TypeOK, Bookkeeping, ReadingsAreFresh
<1>7. ScoresAreClose'
  BY <1>1, <1>2, <1>3, ClockAssumption DEF IInv, Bookkeeping, ScoresAreClose, ReadingsAreFresh
<1>8. LostIsOld'
  <2>1. \A f \in Admitted : f \in Kept(r) \/ at[f] + Safe <= now
    BY <1>3, KeptIsRecent, SafeIsNatural
  <2> QED
    BY <1>1, <1>2, <1>4, <2>1 DEF LostIsOld
<1>9. KeyOutlives'
  BY <1>1, <1>2, <1>3, <1>4, ClockAssumption DEF IInv, Bookkeeping, KeyOutlives, ScoresAreClose
<1>10. RanksInOrder'
  <2>1. Cardinality(Admitted') = Cardinality(Admitted) + 1
    BY <1>1, AdmittedIsFinite, FS_AddElement
  <2> QED
    BY <1>1, <1>2, <1>3, <2>1 DEF IInv, Bookkeeping, RanksInOrder
<1>11. WindowRespected'
  <2>1. Cardinality(Recent(r, Window - Drift)') <= limit'[r]
    <3>1. Recent(r, Window - Drift)' \subseteq Kept(r) \cup {r}
      <4> SUFFICES ASSUME NEW f \in Admitted, at[f] > now - Safe
                   PROVE  f \in Kept(r)
        BY <1>1, <1>2 DEF Recent, Safe, Drift
      <4> QED
        BY <1>3, KeptIsRecent, SafeIsNatural
    <3>2. r \notin Kept(r)
      BY <1>1, KeptIsNotOld
    <3>3. /\ IsFiniteSet(Kept(r) \cup {r})
          /\ Cardinality(Kept(r) \cup {r}) = Cardinality(Kept(r)) + 1
      BY <3>2, KeptIsFinite, FS_AddElement
    <3>4. Cardinality(Recent(r, Window - Drift)') <= Cardinality(Kept(r)) + 1
      BY <3>1, <3>3, FS_Subset
    <3>5. Cardinality(Recent(r, Window - Drift)') \in Nat
      BY <3>1, <3>3, FS_Subset, FS_CardinalityType
    <3> QED
      BY <1>3, <3>4, <3>5, KeptIsFinite
  <2>2. \A e \in Admitted : Recent(e, Window - Drift)' = Recent(e, Window - Drift)
    <3> SUFFICES ASSUME NEW e \in Admitted
                 PROVE  Recent(e, Window - Drift)' = Recent(e, Window - Drift)
      OBVIOUS
    <3>1. ~(rank'[r] <= rank'[e])
      BY <1>2, <1>3 DEF IInv, Bookkeeping, RanksInOrder
    <3> QED
      BY <1>1, <1>2, <3>1 DEF Recent, Drift
  <2> QED
    BY <1>1, <2>1, <2>2 DEF IInv, WindowRespected
<1> QED
  BY <1>5, <1>6, <1>7, <1>8, <1>9, <1>10, <1>11 DEF IInv, Bookkeeping

LEMMA NextInvariant == IInv /\ [Next]_vars => IInv'
<1> SUFFICES ASSUME IInv, [Next]_vars
             PROVE  IInv'
  OBVIOUS
<1> USE DEF requestVars, setVars, historyVars
<1>t. TypeOK'
  BY NextType DEF IInv
<1>n. now \in Nat /\ MaxAhead \in Nat /\ MaxBehind \in Nat /\ \A r \in Requests : reading[r] \in Nat
  BY ClockAssumption DEF IInv, TypeOK
<1>1. CASE Tick
  <2>1. ReadingsAreFresh'
    BY <1>1, <1>n DEF Tick, IInv, Bookkeeping, ReadingsAreFresh
  <2>2. Admitted' = Admitted
    BY <1>1 DEF Tick, Admitted
  <2> QED
    BY <1>1, <1>t, <1>n, <2>1, <2>2, NobodyAdmitted DEF Tick
<1>2. CASE (\E n \in Limits \cup {0} : ChangeLimit(n)) \/ UNCHANGED vars
  <2>1. UNCHANGED <<now, pc, reading, limit, setVars, historyVars>>
    BY <1>2 DEF ChangeLimit, vars
  <2>2. ReadingsAreFresh' /\ Admitted' = Admitted
    BY <2>1 DEF Admitted, IInv, Bookkeeping, ReadingsAreFresh
  <2> QED
    BY <1>t, <1>n, <2>1, <2>2, NobodyAdmitted
<1>3. ASSUME NEW r \in Requests, NEW t \in now - MaxBehind .. now + MaxAhead, ReadClock(r, t)
      PROVE  IInv'
  <2>1. ReadingsAreFresh'
    BY <1>3, <1>n DEF ReadClock, IInv, TypeOK, Bookkeeping, ReadingsAreFresh
  <2>2. Admitted' = Admitted
    BY <1>3 DEF ReadClock, Admitted, IInv, TypeOK
  <2>3. \A f \in Admitted : limit'[f] = limit[f]
    BY <1>3 DEF ReadClock, Admitted, IInv, TypeOK
  <2>4. UNCHANGED <<now, members, score, expires, at, rank>>
    BY <1>3 DEF ReadClock
  <2> QED
    BY <1>t, <1>n, <2>1, <2>2, <2>3, <2>4, NobodyAdmitted
<1>4. ASSUME NEW r \in Requests, RunScript(r)
      PROVE  IInv'
  <2>1. CASE Cardinality(Kept(r)) < limit[r] /\ AddMember(r) /\ Admit(r)
    BY <1>4, <1>t, <2>1, ScriptAdmits DEF RunScript
  <2>2. CASE /\ members' = Kept(r)
             /\ pc' = [pc EXCEPT ![r] = "refused"]
             /\ UNCHANGED <<score, expires, historyVars>>
    <3>1. UNCHANGED <<now, reading, limit>> /\ pc[r] = "read"
      BY <1>4 DEF RunScript
    <3>2. ReadingsAreFresh' /\ Admitted' = Admitted
      BY <2>2, <3>1 DEF Admitted, IInv, TypeOK, Bookkeeping, ReadingsAreFresh
    <3>3. members' \subseteq members
      BY <2>2 DEF Kept
    <3>4. \A f \in members : f \notin members' => at[f] + Safe <= now
      <4> SUFFICES ASSUME NEW f \in members, f \notin Kept(r)
                   PROVE  at[f] + Safe <= now
        BY <2>2
      <4>1. f \in Admitted /\ at[f] \in Nat
        BY DEF IInv, Bookkeeping, TypeOK, Admitted
      <4> QED
        BY <3>1, <4>1, <1>n, KeptIsRecent, SafeIsNatural
    <3> QED
      BY <1>t, <1>n, <2>2, <3>1, <3>2, <3>3, <3>4, NobodyAdmitted
  <2> QED
    BY <1>4, <2>1, <2>2 DEF RunScript
<1> QED
  BY <1>1, <1>2, <1>3, <1>4 DEF Next

LEMMA Invariance == Spec => []IInv
  BY InitInvariant, NextInvariant, PTL DEF Spec

-----------------------------------------------------------------------------
\* However the clocks of the API processes disagree, by less than the window,
\* and in whatever order their scripts reach Redis, no stretch of the window less
\* the drift holds more admissions than the limit.
THEOREM LimitHolds == Spec => []WindowRespected
<1>1. IInv => WindowRespected
  BY DEF IInv
<1> QED
  BY <1>1, Invariance, PTL

\* Nobody is refused for requests that were refused, or for admissions older than
\* the window and the drift.
THEOREM RefusalsAreEarned == Spec => RefusalEarned
<1>1. IInv /\ [Next]_vars =>
        [\A r \in Requests : pc'[r] = "refused" /\ pc[r] # "refused" =>
           Cardinality({f \in Admitted : at[f] > now - (Window + Drift)}) >= limit[r]]_vars
  <2> SUFFICES ASSUME IInv, Next, NEW r \in Requests, pc'[r] = "refused", pc[r] # "refused"
               PROVE  Cardinality({f \in Admitted : at[f] > now - (Window + Drift)}) >= limit[r]
    OBVIOUS
  <2> DEFINE Fresh == {f \in Admitted : at[f] > now - (Window + Drift)}
  <2>1. PICK q \in Requests : RunScript(q) /\ pc'[q] = "refused" /\ q = r
    BY DEF Next, Tick, ChangeLimit, ReadClock, RunScript, Admit, requestVars, IInv, TypeOK
  <2>2. pc[r] = "read" /\ Cardinality(Kept(r)) >= limit[r]
    BY <2>1 DEF RunScript, Admit, IInv, TypeOK
  <2>3. Kept(r) \subseteq Fresh
    BY <2>2, KeptIsNotOld
  <2>4. IsFiniteSet(Fresh)
    BY AdmittedIsFinite, FS_Subset
  <2>5. Cardinality(Kept(r)) <= Cardinality(Fresh)
    BY <2>3, <2>4, FS_Subset
  <2>6. Cardinality(Fresh) \in Nat /\ Cardinality(Kept(r)) \in Nat /\ limit[r] \in Nat
    BY <2>4, KeptIsFinite, FS_CardinalityType DEF IInv, TypeOK
  <2> QED
    BY <2>2, <2>5, <2>6
<1> QED
  BY <1>1, Invariance, PTL DEF Spec, RefusalEarned
=============================================================================
