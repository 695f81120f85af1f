---------------------------- MODULE RateLimitProofs ----------------------------
(***************************************************************************)
(* For any limit, window, number of requests and number of faults: one     *)
(* life of the key admits at most Limit requests, nothing prolongs that    *)
(* life, and without a fault a key without a time to live has its one      *)
(* request that will set it.                                               *)
(***************************************************************************)
EXTENDS RateLimit, FiniteSetTheorems, TLAPS

\* The requests that this key's count will let through, if nothing happens to
\* them before they are told.
Pending == {r \in Requests : at[r] \in {"expire", "decide"} /\ r \notin stale /\ seen[r] <= Limit}

\* A key's first request is the only one that sets its time to live, while it
\* has none.
OneExpirer ==
  /\ \A r \in Requests : at[r] = "expire" => ttl = 0 /\ count > 0
  /\ \A r, q \in Requests : at[r] = "expire" /\ at[q] = "expire" => r = q
  /\ faults = 0 /\ count > 0 /\ ttl = 0 => \E r \in Requests : at[r] = "expire"

\* What was admitted and what will be has been counted, each request once.
CountedOnce ==
  /\ admitted + Cardinality(Pending) <= count
  /\ admitted + Cardinality(Pending) <= Limit

RateInv == TypeOK /\ OneExpirer /\ CountedOnce

LEMMA PendingFinite ==
  /\ IsFiniteSet(Pending) /\ Cardinality(Pending) \in Nat
BY LimitsAreNumbers, FS_Subset, FS_CardinalityType DEF Pending

LEMMA PendingNextFinite ==
  /\ IsFiniteSet(Pending') /\ Cardinality(Pending') \in Nat
<1>1. Pending' \subseteq Requests
  BY DEF Pending
<1> QED BY <1>1, LimitsAreNumbers, FS_Subset, FS_CardinalityType

\* A step that adds nobody to Pending keeps the count.
LEMMA NobodyAdded ==
  ASSUME TypeOK, CountedOnce, Pending' \subseteq Pending, admitted' = admitted,
         count' \in Nat, count' >= count
  PROVE  CountedOnce'
<1>1. Cardinality(Pending') <= Cardinality(Pending)
  BY PendingFinite, FS_Subset
<1> QED BY <1>1, PendingFinite, PendingNextFinite, LimitsAreNumbers DEF CountedOnce, TypeOK

LEMMA IncrementedCounts ==
  ASSUME TypeOK
  PROVE  /\ Incremented \in 1..CountBound /\ Incremented >= count
         /\ (Incremented = 1) <=> (count = 0)
         /\ (Incremented <= Limit) => (Incremented = count + 1)
BY LimitsAreNumbers DEF TypeOK, Incremented

LEMMA InitKeeps == Init => RateInv
<1> SUFFICES ASSUME Init PROVE RateInv
  OBVIOUS
<1>1. TypeOK
  BY LimitsAreNumbers DEF Init, TypeOK
<1>2. OneExpirer
  BY DEF Init, OneExpirer
<1>3. Pending = {}
  BY DEF Init, Pending
<1>4. CountedOnce
  BY <1>3, FS_EmptySet, LimitsAreNumbers DEF Init, CountedOnce
<1> QED BY <1>1, <1>2, <1>4 DEF RateInv

LEMMA ArriveKeeps == ASSUME RateInv, NEW r \in Requests, Arrive(r) PROVE RateInv'
<1> USE DEF RateInv
<1>1. TypeOK'
  BY LimitsAreNumbers DEF Arrive, TypeOK
<1>2. OneExpirer'
  BY DEF Arrive, OneExpirer, TypeOK
<1>3. Pending' \subseteq Pending
  BY DEF Arrive, Pending, TypeOK
<1>4. CountedOnce'
  BY <1>3, NobodyAdded, LimitsAreNumbers DEF Arrive, TypeOK
<1> QED BY <1>1, <1>2, <1>4

\* INCR adds its request to Pending with the count that it adds.
LEMMA IncrKeeps == ASSUME RateInv, NEW r \in Requests, Incr(r) PROVE RateInv'
<1> USE DEF RateInv
<1>0. /\ at[r] = "incr" /\ count' = Incremented
      /\ seen' = [seen EXCEPT ![r] = Incremented]
      /\ at' = [at EXCEPT ![r] = IF count = 0 THEN "expire" ELSE "decide"]
      /\ UNCHANGED <<ttl, answer, admitted, stale, faults>>
  BY IncrementedCounts DEF Incr, IncrThen
<1>1. TypeOK'
  BY <1>0, IncrementedCounts, LimitsAreNumbers DEF TypeOK
<1>2. OneExpirer'
  BY <1>0, IncrementedCounts, LimitsAreNumbers DEF OneExpirer, TypeOK
<1>3. r \notin Pending
  BY <1>0 DEF Pending
<1>4. CASE Incremented <= Limit
  <2>1. Pending' \subseteq Pending \cup {r}
    BY <1>0 DEF Pending, TypeOK
  <2>2. Cardinality(Pending') <= Cardinality(Pending) + 1
    <3>1. /\ IsFiniteSet(Pending \cup {r})
          /\ Cardinality(Pending \cup {r}) = Cardinality(Pending) + 1
      BY <1>3, PendingFinite, FS_AddElement
    <3> QED BY <2>1, <3>1, FS_Subset
  <2> QED
    BY <1>0, <1>1, <1>2, <1>4, <2>2, IncrementedCounts, PendingFinite, PendingNextFinite,
       LimitsAreNumbers DEF CountedOnce, TypeOK
<1>5. CASE ~(Incremented <= Limit)
  <2>1. Pending' \subseteq Pending
    BY <1>0, <1>5 DEF Pending, TypeOK
  <2>2. CountedOnce'
    BY <1>0, <2>1, NobodyAdded, IncrementedCounts, LimitsAreNumbers
  <2> QED BY <1>1, <1>2, <2>2
<1> QED BY <1>4, <1>5

LEMMA ExpireKeeps == ASSUME RateInv, NEW r \in Requests, Expire(r) PROVE RateInv'
<1> USE DEF RateInv
<1>1. TypeOK'
  BY LimitsAreNumbers DEF Expire, TypeOK
<1>2. OneExpirer'
  BY LimitsAreNumbers DEF Expire, OneExpirer, TypeOK
<1>3. Pending' \subseteq Pending
  BY DEF Expire, Pending, TypeOK
<1>4. CountedOnce'
  BY <1>3, NobodyAdded, LimitsAreNumbers DEF Expire, TypeOK
<1> QED BY <1>1, <1>2, <1>4

\* A request that is let through on this key's count leaves Pending.
LEMMA DecideKeeps == ASSUME RateInv, NEW r \in Requests, Decide(r) PROVE RateInv'
<1> USE DEF RateInv
<1>0. answer'[r] = IF seen[r] > Limit THEN "refused" ELSE "allowed"
  BY DEF Decide, TypeOK
<1>1. TypeOK'
  BY <1>0, LimitsAreNumbers DEF Decide, TypeOK
<1>2. OneExpirer'
  BY DEF Decide, OneExpirer, TypeOK
<1>3. Pending' = Pending \ {r}
  BY DEF Decide, Pending, TypeOK
<1>4. CASE r \in Pending
  <2>1. admitted' = admitted + 1 /\ count' = count
    BY <1>0, <1>4, LimitsAreNumbers DEF Decide, Pending, TypeOK
  <2>2. Cardinality(Pending') = Cardinality(Pending) - 1
    BY <1>3, <1>4, PendingFinite, FS_RemoveElement
  <2> QED
    BY <1>1, <1>2, <2>1, <2>2, PendingFinite, LimitsAreNumbers DEF CountedOnce, TypeOK
<1>5. CASE r \notin Pending
  <2>1. admitted' = admitted /\ count' = count
    BY <1>0, <1>5, LimitsAreNumbers DEF Decide, Pending, TypeOK
  <2>2. CountedOnce'
    BY <1>3, <2>1, NobodyAdded, LimitsAreNumbers DEF TypeOK
  <2> QED BY <1>1, <1>2, <2>2
<1> QED BY <1>4, <1>5

LEMMA FaultKeeps ==
  ASSUME RateInv, NEW r \in Requests, CallFails(r) \/ Die(r) PROVE RateInv'
<1> USE DEF RateInv
<1>0. /\ at' = [at EXCEPT ![r] = "idle"] /\ faults' = faults + 1 /\ faults < Faults
      /\ UNCHANGED <<seen, admitted, stale>>
  BY DEF CallFails, Die
<1>1. /\ count' \in 0..CountBound /\ count' >= count /\ ttl' \in 0..Window
      /\ \/ UNCHANGED <<count, ttl>>
         \/ at[r] = "incr" /\ count' > 0 /\ UNCHANGED ttl
         \/ at[r] = "expire" /\ UNCHANGED count
      /\ answer' \in [Requests -> {"none", "allowed", "refused", "failed_open"}]
      /\ count' = 0 => ttl' = 0
  BY IncrementedCounts, LimitsAreNumbers DEF CallFails, Die, TypeOK
<1>2. TypeOK'
  <2>1. at' \in [Requests -> {"idle", "incr", "expire", "decide"}]
    BY <1>0 DEF TypeOK
  <2>2. faults' \in 0..Faults /\ admitted' \in Nat
    BY <1>0, LimitsAreNumbers DEF TypeOK
  <2> QED BY <1>0, <1>1, <2>1, <2>2 DEF TypeOK
<1>3. OneExpirer'
  BY <1>0, <1>1, LimitsAreNumbers DEF OneExpirer, TypeOK
<1>4. Pending' \subseteq Pending
  BY <1>0 DEF Pending, TypeOK
<1>5. CountedOnce'
  BY <1>0, <1>1, <1>4, NobodyAdded, LimitsAreNumbers
<1> QED BY <1>2, <1>3, <1>5

\* When the key is deleted nobody is about to set its time to live, and who was
\* counted on it is stale.
LEMMA TickKeeps == ASSUME RateInv, Tick PROVE RateInv'
<1> USE DEF RateInv
<1>1. TypeOK'
  BY LimitsAreNumbers DEF Tick, TypeOK
<1>2. OneExpirer'
  BY DEF Tick, OneExpirer, TypeOK
<1>3. CASE ttl' = 0
  <2>1. Pending' = {}
    BY <1>3 DEF Tick, Pending, OneExpirer, TypeOK
  <2>2. admitted' = 0 /\ count' = 0
    BY <1>3 DEF Tick
  <2> QED BY <1>1, <1>2, <2>1, <2>2, FS_EmptySet, LimitsAreNumbers DEF CountedOnce
<1>4. CASE ttl' # 0
  <2>1. Pending' \subseteq Pending /\ UNCHANGED <<count, admitted>>
    BY <1>4 DEF Tick, Pending
  <2>2. CountedOnce'
    BY <2>1, NobodyAdded, LimitsAreNumbers DEF TypeOK
  <2> QED BY <1>1, <1>2, <2>2
<1> QED BY <1>3, <1>4

LEMMA StepKeeps == RateInv /\ [Next]_vars => RateInv'
<1> SUFFICES ASSUME RateInv, [Next]_vars PROVE RateInv'
  OBVIOUS
<1>1. CASE UNCHANGED vars
  BY <1>1 DEF vars, RateInv, TypeOK, OneExpirer, CountedOnce, Pending
<1> QED
  BY <1>1, TickKeeps, ArriveKeeps, IncrKeeps, ExpireKeeps, DecideKeeps, FaultKeeps DEF Next

\* The types of the key and the requests, who sets the key's life, and that each
\* admission was counted once.
THEOREM RateInvariant == Spec => []RateInv
<1>1. Init => RateInv
  BY InitKeeps
<1>2. RateInv /\ [Next]_vars => RateInv'
  BY StepKeeps
<1> QED BY <1>1, <1>2, PTL DEF Spec

\* One life of the key lets at most Limit requests through on their count,
\* whatever interleaves, fails or dies (enforce_rate_limit).
THEOREM NeverMoreThanLimit == Spec => []AtMostLimitPerWindow
<1>1. RateInv => AtMostLimitPerWindow
  BY PendingFinite, LimitsAreNumbers DEF RateInv, CountedOnce, TypeOK, AtMostLimitPerWindow
<1> QED BY <1>1, RateInvariant, PTL

\* Without a fault, a key without a time to live has exactly one request about
\* to set it: INCR returned 1 to nobody else.
THEOREM KeysWillExpire == Spec => []KeyWillExpire
<1>1. RateInv => KeyWillExpire
  <2> SUFFICES ASSUME RateInv, faults = 0, count > 0, ttl = 0
               PROVE  Cardinality({r \in Requests : at[r] = "expire"}) = 1
    BY DEF KeyWillExpire
  <2>1. PICK r \in Requests : at[r] = "expire"
    BY DEF RateInv, OneExpirer
  <2>2. {q \in Requests : at[q] = "expire"} = {r}
    BY <2>1 DEF RateInv, OneExpirer
  <2> QED BY <2>2, FS_Singleton
<1> QED BY <1>1, RateInvariant, PTL

\* Whoever is about to call EXPIRE found no time to live, and there is only one:
\* when its call is applied, however late, it opens the window and no other does
\* (enforce_rate_limit).
THEOREM WindowsAreFixed == Spec => FixedWindow
<1>1. RateInv /\ [Next]_vars => [ttl' > ttl => ttl = 0]_vars
  <2> SUFFICES ASSUME RateInv, Next PROVE ttl' > ttl => ttl = 0
    BY DEF vars
  <2>1. CASE Tick
    BY <2>1 DEF Tick, RateInv, TypeOK
  <2>2. ASSUME NEW r \in Requests, at[r] = "expire" PROVE ttl = 0
    BY <2>2 DEF RateInv, OneExpirer
  <2>3. ASSUME NEW r \in Requests, Expire(r) \/ CallFails(r), ~UNCHANGED ttl PROVE ttl = 0
    BY <2>2, <2>3 DEF Expire, CallFails
  <2>4. ASSUME NEW r \in Requests, Arrive(r) \/ Incr(r) \/ Decide(r) \/ Die(r)
        PROVE  UNCHANGED ttl
    BY <2>4 DEF Arrive, Incr, IncrThen, Decide, Die
  <2>5. UNCHANGED ttl => ~(ttl' > ttl)
    BY DEF RateInv, TypeOK
  <2> QED  BY <2>1, <2>3, <2>4, <2>5 DEF Next
<1> QED  BY <1>1, RateInvariant, PTL DEF Spec, FixedWindow
=============================================================================
