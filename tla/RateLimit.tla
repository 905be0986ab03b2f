------------------------------ MODULE RateLimit ------------------------------
(***************************************************************************)
(* enforce_rate_limit (app/services/rate_limit.py) for one API client: a   *)
(* sliding window in a Redis sorted set.                                   *)
(*                                                                         *)
(* The script is atomic, but the time it works with is not Redis's: each   *)
(* API process reads its own clock and sends the reading along, so scripts *)
(* run out of the order of their readings, with readings ahead of or       *)
(* behind real time.  Only EXPIRE goes by Redis's clock.                   *)
(***************************************************************************)
EXTENDS Integers, FiniteSets

CONSTANTS
  Requests,     \* bound: the client's requests
  Window,       \* the window, 60 seconds, in ticks
  Limits,       \* values an admin gives rate_limit_per_minute
  DefaultLimit, \* settings.rate_limit_per_minute
  MaxAhead,     \* how far a reading may be ahead of real time
  MaxBehind,    \* how far behind, the way to Redis included
  MaxTime       \* bound: real time

Drift == MaxAhead + MaxBehind

ASSUME LimitsAssumption ==
  Limits \subseteq Nat \ {0} /\ DefaultLimit \in Nat \ {0}
ASSUME ClockAssumption ==
  MaxAhead \in Nat /\ MaxBehind \in Nat /\ Window \in Nat /\ Drift < Window
ASSUME RequestsAssumption == IsFiniteSet(Requests)

VARIABLES
  now,            \* real time
  clientLimit,    \* the client's rate_limit_per_minute, 0 for NULL
  pc,             \* where a request is
  reading,        \* what its process's clock said
  limit,          \* the limit it was loaded with
  members, score, \* the sorted set
  expires,        \* until when its key lives
  \* the history of admissions: when, and as the how-manyeth
  at, rank

requestVars == <<pc, reading, limit>>
setVars     == <<members, score, expires>>
historyVars == <<at, rank>>
vars == <<now, clientLimit, requestVars, setVars, historyVars>>

Admitted == {r \in Requests : pc[r] = "admitted"}

TypeOK ==
  /\ now \in Nat /\ now >= MaxBehind
  /\ clientLimit \in Nat
  /\ pc \in [Requests -> {"unsent", "read", "admitted", "refused"}]
  /\ reading \in [Requests -> Nat]
  /\ limit \in [Requests -> Nat \ {0}]
  /\ members \subseteq Requests
  /\ score \in [Requests -> Nat]
  /\ expires \in Nat
  /\ at \in [Requests -> Nat]
  /\ rank \in [Requests -> Nat]

\* Time starts late enough for every reading to be positive.
Init ==
  /\ now = MaxBehind
  /\ clientLimit \in Limits \cup {0}
  /\ pc = [r \in Requests |-> "unsent"]
  /\ reading = [r \in Requests |-> 0]
  /\ limit = [r \in Requests |-> DefaultLimit]
  /\ members = {}
  /\ score = [r \in Requests |-> 0]
  /\ expires = 0
  /\ at = [r \in Requests |-> 0]
  /\ rank = [r \in Requests |-> 0]

-----------------------------------------------------------------------------
\* No reading grows older than MaxBehind on its way to Redis.
Tick ==
  /\ now < MaxTime
  /\ \A r \in Requests : pc[r] = "read" => reading[r] + MaxBehind > now
  /\ now' = now + 1
  /\ UNCHANGED <<clientLimit, requestVars, setVars, historyVars>>

\* create_client and update_client set the limit; None goes back to the default.
ChangeLimit(n) ==
  /\ clientLimit # n
  /\ clientLimit' = n
  /\ UNCHANGED <<now, requestVars, setVars, historyVars>>

\* Wrong variant: a client without a limit of its own has none.
EffectiveOwn(n) == n

\* limit or settings.rate_limit_per_minute
Effective(n) == IF n = 0 THEN DefaultLimit ELSE n

\* The client is loaded and the clock is read; no await lies between.
ReadClock(r, t) ==
  /\ pc[r] = "unsent"
  /\ pc' = [pc EXCEPT ![r] = "read"]
  /\ reading' = [reading EXCEPT ![r] = t]
  /\ limit' = [limit EXCEPT ![r] = Effective(clientLimit)]
  /\ UNCHANGED <<now, clientLimit, setVars, historyVars>>

\* Wrong variant: the member is the clock's reading and an address that is used
\* again, so two requests that read the same time share it.
MemberOfClock(r) ==
  IF \E m \in members : score[m] = reading[r]
  THEN CHOOSE m \in members : score[m] = reading[r] ELSE r

\* The member carries a random token: every request has its own.
Member(r) == r

\* Wrong variant: removes what is not yet as old as the window.
KeptTooFew(r) ==
  {m \in members : now <= expires /\ score[m] + Window > reading[r] + 1}

\* What ZREMRANGEBYSCORE leaves of the set, if its key has not expired.
Kept(r) == {m \in members : now <= expires /\ score[m] + Window > reading[r]}

\* ZADD and EXPIRE.
AddMember(r) ==
  /\ members' = Kept(r) \cup {Member(r)}
  /\ score' = [score EXCEPT ![Member(r)] = reading[r]]
  /\ expires' = now + Window

Admit(r) ==
  /\ pc' = [pc EXCEPT ![r] = "admitted"]
  /\ at' = [at EXCEPT ![r] = now]
  /\ rank' = [rank EXCEPT ![r] = Cardinality(Admitted) + 1]

\* Wrong variant: a refused request counts too.
RunScriptCountsRefused(r) ==
  /\ pc[r] = "read"
  /\ AddMember(r)
  /\ \/ Cardinality(Kept(r)) < limit[r] /\ Admit(r)
     \/ /\ Cardinality(Kept(r)) >= limit[r]
        /\ pc' = [pc EXCEPT ![r] = "refused"]
        /\ UNCHANGED historyVars
  /\ UNCHANGED <<now, clientLimit, reading, limit>>

RunScript(r) ==
  /\ pc[r] = "read"
  /\ \/ /\ Cardinality(Kept(r)) < limit[r]
        /\ AddMember(r)
        /\ Admit(r)
     \/ /\ Cardinality(Kept(r)) >= limit[r]
        /\ members' = Kept(r)
        /\ pc' = [pc EXCEPT ![r] = "refused"]
        /\ UNCHANGED <<score, expires, historyVars>>
  /\ UNCHANGED <<now, clientLimit, reading, limit>>

Next ==
  \/ Tick
  \/ \E n \in Limits \cup {0} : ChangeLimit(n)
  \/ \E r \in Requests :
       \/ \E t \in now - MaxBehind .. now + MaxAhead : ReadClock(r, t)
       \/ RunScript(r)

Spec == Init /\ [][Next]_vars

-----------------------------------------------------------------------------
(***************************************************************************)
(* Properties.  Clocks that disagree make the window shorter or longer, by *)
(* their drift and no more.                                                *)
(***************************************************************************)

\* What had been admitted in the last `length` ticks when e was, e included.
Recent(e, length) ==
  {f \in Admitted : rank[f] <= rank[e] /\ at[f] > at[e] - length}

\* In no stretch of time as long as the window less the drift are more requests
\* admitted than the limit of the last of them allows, however the scripts of
\* several processes are ordered (rate_limit.py:18-25).
WindowRespected ==
  \A e \in Admitted : Cardinality(Recent(e, Window - Drift)) <= limit[e]

\* A refusal is earned: as many requests as the limit allows were admitted, not
\* just sent, within the window and the drift (rate_limit.py:19-22).
RefusalEarned ==
  [][\A r \in Requests : pc'[r] = "refused" /\ pc[r] # "refused" =>
       Cardinality({f \in Admitted : at[f] > now - (Window + Drift)}) >= limit[r]]_vars

\* What the docstring promises (rate_limit.py:1, README.md:25): at most the limit
\* in any window.  Clocks that disagree break it.
ExactWindow ==
  \A e \in Admitted : Cardinality(Recent(e, Window)) <= limit[e]
=============================================================================
