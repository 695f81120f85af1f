------------------------------ MODULE RateLimit ------------------------------
(***************************************************************************)
(* enforce_rate_limit on one bucket: the key in Redis (external, modelled  *)
(* from the two calls the code makes, INCR and EXPIRE) and the requests    *)
(* that count themselves on it concurrently.  A call to Redis takes effect *)
(* once at most, and may raise before or after; a process may die between  *)
(* the two.                                                                *)
(* The limiter is enabled and configured; otherwise it does nothing.       *)
(* Which requests share a bucket (bucket_key) is left out: whoever they    *)
(* are of, they meet on one key.                                           *)
(***************************************************************************)
EXTENDS Integers, FiniteSets

CONSTANTS
  Requests,   \* requests that may be in flight at once
  Limit,      \* rate_limit_max_requests
  Window,     \* rate_limit_window_s, in ticks
  CountBound, \* bound: the counter stops here, above Limit; further INCRs look alike
  Faults      \* bound: calls that raise and processes that die

ASSUME LimitsAreNumbers ==
  /\ Limit \in Nat \ {0} /\ Window \in Nat \ {0} /\ Faults \in Nat
  /\ CountBound \in Nat /\ CountBound > Limit /\ CountBound > 1
  /\ IsFiniteSet(Requests)

VARIABLES
  count,     \* the key's value, 0 when there is no key
  ttl,       \* ticks before Redis deletes the key; 0 when no EXPIRE was applied
  at,        \* where each request is in enforce_rate_limit
  seen,      \* the count its INCR returned
  answer,    \* what it was told: "allowed", "refused" or "failed_open"
  admitted,  \* history: requests this key's count has allowed
  stale,     \* history: requests that counted on a key since deleted
  faults     \* calls that raised and processes that died so far

vars == <<count, ttl, at, seen, answer, admitted, stale, faults>>

-----------------------------------------------------------------------------

Init ==
  /\ count = 0 /\ ttl = 0 /\ admitted = 0 /\ stale = {} /\ faults = 0
  /\ at = [r \in Requests |-> "idle"]
  /\ seen = [r \in Requests |-> 0]
  /\ answer = [r \in Requests |-> "none"]

\* What INCR makes of the key.
Incremented == IF count < CountBound THEN count + 1 ELSE count

Arrive(r) ==
  /\ at[r] = "idle"
  /\ at' = [at EXCEPT ![r] = "incr"]
  /\ seen' = [seen EXCEPT ![r] = 0]
  /\ answer' = [answer EXCEPT ![r] = "none"]
  /\ stale' = stale \ {r}
  /\ UNCHANGED <<count, ttl, admitted, faults>>

IncrThen(r, value, sets) ==
  /\ at[r] = "incr"
  /\ count' = value
  /\ seen' = [seen EXCEPT ![r] = value]
  /\ at' = [at EXCEPT ![r] = IF sets THEN "expire" ELSE "decide"]
  /\ UNCHANGED <<ttl, answer, admitted, stale, faults>>

\* Mutants of Incr: every request sets the time to live of the key it counted
\* on; a window is opened by writing 1 whenever no time to live is
\* set yet.
IncrSlides(r) == IncrThen(r, Incremented, TRUE)
IncrRestartsUnset(r) ==
  IncrThen(r, IF ttl = 0 THEN 1 ELSE Incremented, ttl = 0)

\* INCR is atomic and creates the key without a time to live: whoever counts
\* the first request sets it, in a second call.
Incr(r) == IncrThen(r, Incremented, Incremented = 1)

\* Mutant of Expire: no duration is set.
ExpireForgotten(r) ==
  /\ at[r] = "expire"
  /\ at' = [at EXCEPT ![r] = "decide"]
  /\ UNCHANGED <<count, ttl, seen, answer, admitted, stale, faults>>

Expire(r) ==
  /\ at[r] = "expire"
  /\ ttl' = IF count > 0 THEN Window ELSE 0
  /\ at' = [at EXCEPT ![r] = "decide"]
  /\ UNCHANGED <<count, seen, answer, admitted, stale, faults>>

Decide(r) ==
  /\ at[r] = "decide"
  /\ at' = [at EXCEPT ![r] = "idle"]
  /\ answer' = [answer EXCEPT ![r] = IF seen[r] > Limit THEN "refused" ELSE "allowed"]
  /\ admitted' = IF answer'[r] = "allowed" /\ r \notin stale THEN admitted + 1 ELSE admitted
  /\ UNCHANGED <<count, ttl, seen, stale, faults>>

\* The call raises: the except clause lets the request through.  Redis may have
\* applied it all the same.
CallFails(r) ==
  /\ at[r] \in {"incr", "expire"}
  /\ faults < Faults /\ faults' = faults + 1
  /\ at' = [at EXCEPT ![r] = "idle"]
  /\ answer' = [answer EXCEPT ![r] = "failed_open"]
  /\ \/ UNCHANGED <<count, ttl>>
     \/ at[r] = "incr" /\ count' = Incremented /\ UNCHANGED ttl
     \/ at[r] = "expire" /\ ttl' = (IF count > 0 THEN Window ELSE 0) /\ UNCHANGED count
  /\ UNCHANGED <<seen, admitted, stale>>

\* The worker dies, or the request is cancelled, between two awaits.
Die(r) ==
  /\ at[r] # "idle"
  /\ faults < Faults /\ faults' = faults + 1
  /\ at' = [at EXCEPT ![r] = "idle"]
  /\ UNCHANGED <<count, ttl, seen, answer, admitted, stale>>

\* Redis's clock: the key is deleted when its time to live is spent.
Tick ==
  /\ ttl > 0
  /\ ttl' = ttl - 1
  /\ IF ttl' = 0
     THEN /\ count' = 0 /\ admitted' = 0
          /\ stale' = stale \cup {r \in Requests : at[r] = "decide"}
     ELSE UNCHANGED <<count, admitted, stale>>
  /\ UNCHANGED <<at, seen, answer, faults>>

Next ==
  \/ Tick
  \/ \E r \in Requests :
       Arrive(r) \/ Incr(r) \/ Expire(r) \/ Decide(r) \/ CallFails(r) \/ Die(r)

\* Redis's clock runs, and a request that has begun goes on.
Spec ==
  /\ Init /\ [][Next]_vars
  /\ WF_vars(Tick)
  /\ \A r \in Requests : WF_vars(Expire(r)) /\ WF_vars(Decide(r))

-----------------------------------------------------------------------------
(* Properties                                                               *)

TypeOK ==
  /\ count \in 0..CountBound /\ ttl \in 0..Window /\ admitted \in Nat
  /\ at \in [Requests -> {"idle", "incr", "expire", "decide"}]
  /\ seen \in [Requests -> 0..CountBound]
  /\ answer \in [Requests -> {"none", "allowed", "refused", "failed_open"}]
  /\ stale \subseteq Requests /\ faults \in 0..Faults
  /\ count = 0 => ttl = 0

\* However requests interleave and whatever fails, one life of the key lets at
\* most Limit requests through on their count (those let through because Redis
\* failed are the price of failing open).
AtMostLimitPerWindow == admitted <= Limit

\* The window is fixed (fixed-window counter, the module's docstring): once the
\* key has a time to live nothing prolongs it, neither a request that counts
\* itself while another is between INCR and EXPIRE nor an EXPIRE that arrives
\* late, or is applied although its call raised: a caller who keeps asking is
\* not kept out for longer.
FixedWindow == [][ttl' > ttl => ttl = 0]_vars

\* As long as no call was lost, a key without a time to live always has exactly
\* one request about to set it.
KeyWillExpire ==
  faults = 0 /\ count > 0 /\ ttl = 0 =>
    Cardinality({r \in Requests : at[r] = "expire"}) = 1

\* As long as no call is lost, a caller over the limit is over it only until
\* the window ends.
LimitIsTemporary == count > Limit ~> count = 0 \/ faults > 0

\* What the module's docstring says of a failing backend ("It never becomes a
\* new single point of failure"): no failure may leave a key that nothing will
\* ever delete, which refuses its caller for good once it has counted to Limit.
NoEternalKey ==
  count > 0 /\ ttl = 0 => \E r \in Requests : at[r] \in {"incr", "expire"}
=============================================================================
