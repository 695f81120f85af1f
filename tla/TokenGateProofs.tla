--------------------------- MODULE TokenGateProofs ---------------------------
(***************************************************************************)
(* Theorems about TokenGate for any number of requests, any keys, any      *)
(* lifetime of the cache and any delays.  An age is bounded although       *)
(* threads store in any order, because each stores within Lag of the       *)
(* answer it stores and stamps it with the time of storing.                *)
(***************************************************************************)
EXTENDS TokenGate, TLAPS

Values == BastionKeys \cup {Garbage, None}
Places == {"idle", "keys", "fetch", "store", "gate"}
ReqRecord == [at : Places, route : {"public", "protected", "platform"},
              value : Values, asof : Nat, slack : 0..Lag]

GateTyped ==
  /\ now \in Nat
  /\ published \in BastionKeys \cup {Garbage}
  /\ config \in Environments
  /\ cache \in [fetched_at : Nat, value : Values, asof : Nat]
  /\ req \in [Requests -> ReqRecord]

\* A value on its way to the cache is at most as old as the slack its thread has
\* used, one that a request holds at most the cache's lifetime and Lag older; a
\* request that waits for no answer has no route yet.
RequestSound(q) ==
  /\ q.at = "idle" => q.route = "public"
  /\ q.at \in {"idle", "keys", "fetch"} => q.slack = 0
  /\ q.at \in {"fetch", "store"} => FromUrl
  /\ q.at = "store" => now <= q.asof + q.slack
  /\ q.at = "gate" /\ FromUrl /\ q.value # None => now < q.asof + TTL + Lag + q.slack

\* The cached value is at most Lag older than its stamp.
AgesBounded ==
  /\ cache.fetched_at <= cache.asof + Lag
  /\ \A r \in Requests : RequestSound(req[r])

GInv == GateTyped /\ AgesBounded

USE TimesAreNatural, ConfigsAreEnvironments DEF Values, Places

-----------------------------------------------------------------------------
(* How old a key can be                                                     *)

LEMMA InitAges == ASSUME GateInit PROVE GInv
BY DEF GateInit, GInv, GateTyped, AgesBounded, RequestSound, NoCache, Idle, ReqRecord

\* A step of one request leaves the others as they are.
LEMMA ReplaceKeeps ==
  ASSUME GInv, NEW r \in Requests, UNCHANGED <<now, published, config, cache>>,
         NEW new \in ReqRecord, RequestSound(new), req' = [req EXCEPT ![r] = new]
  PROVE  GInv'
<1>1. req' \in [Requests -> ReqRecord]
  BY DEF GInv, GateTyped
<1>2. GateTyped'
  BY <1>1 DEF GInv, GateTyped
<1>3. \A q \in Requests : req'[q] = IF q = r THEN new ELSE req[q]
  BY DEF GInv, GateTyped
<1>4. FromUrl' <=> FromUrl
  BY DEF FromUrl
<1>5. \A q \in Requests : RequestSound(req[q])
  BY DEF GInv, AgesBounded
<1>6. \A q \in Requests : RequestSound(req'[q])
  BY <1>3, <1>5
<1>7. AgesBounded'
  BY <1>4, <1>6 DEF GInv, AgesBounded, RequestSound
<1> QED
  BY <1>2, <1>7 DEF GInv

\* A request that is decided holds nothing.
LEMMA DecideKeeps ==
  ASSUME GInv, NEW r \in Requests, NEW code, NEW principal, NEW token,
         Decide(r, code, principal, token)
  PROVE  GInv'
<1>1. Idle \in ReqRecord /\ RequestSound(Idle)
  BY DEF Idle, ReqRecord, RequestSound
<1> QED
  BY <1>1, ReplaceKeeps DEF Decide

\* A request gets hold of a value that is young enough, or from elsewhere.
LEMMA HoldingKeeps ==
  ASSUME GInv, NEW r \in Requests, UNCHANGED <<now, published, config, cache>>,
         req[r].at \in {"keys", "fetch"},
         NEW value \in Values, NEW asof \in Nat, Holding(r, value, asof),
         FromUrl /\ value # None => now < asof + TTL + Lag
  PROVE  GInv'
<1> DEFINE new == [req[r] EXCEPT !.at = "gate", !.value = value, !.asof = asof]
<1>1. req[r] \in ReqRecord /\ req[r].slack = 0
  BY DEF GInv, GateTyped, AgesBounded, RequestSound
<1>2. req' = [req EXCEPT ![r] = new]
  BY DEF Holding, GInv, GateTyped
<1>3. new \in ReqRecord
  BY <1>1 DEF ReqRecord
<1>4. new.at = "gate" /\ new.value = value /\ new.asof = asof /\ new.slack = 0
  BY <1>1 DEF ReqRecord
<1> HIDE DEF new
<1>5. RequestSound(new)
  BY <1>4 DEF RequestSound
<1> QED
  BY <1>2, <1>3, <1>5, ReplaceKeeps

LEMMA KeyFromEnvKeeps == ASSUME GInv, NEW r \in Requests, KeyFromEnv(r) PROVE GInv'
<1>1. config.env \in Values /\ ~FromUrl
  BY DEF KeyFromEnv, FromUrl, GInv, GateTyped, Environments
<1> QED
  BY <1>1, HoldingKeeps DEF KeyFromEnv

LEMMA KeyFromCacheKeeps == ASSUME GInv, NEW r \in Requests, KeyFromCache(r) PROVE GInv'
<1>1. cache.value \in Values /\ cache.asof \in Nat /\ cache.fetched_at \in Nat
  BY DEF GInv, GateTyped
<1>2. now < cache.asof + TTL + Lag
  BY <1>1 DEF KeyFromCache, Fresh, GInv, GateTyped, AgesBounded
<1> QED
  BY <1>1, <1>2, HoldingKeeps DEF KeyFromCache

LEMMA FetchKeeps ==
  ASSUME GInv, NEW r \in Requests,
         StartFetch(r) \/ BastionAnswers(r) \/ FetchFails(r)
  PROVE  GInv'
<1> DEFINE q == req[r]
<1>0. q \in ReqRecord /\ now \in Nat /\ (q.at \in {"keys", "fetch"} => q.slack = 0)
  BY DEF GInv, GateTyped, AgesBounded, RequestSound
<1>1. CASE StartFetch(r)
  <2> DEFINE new == [q EXCEPT !.at = "fetch"]
  <2>1. new \in ReqRecord /\ RequestSound(new)
    BY <1>0, <1>1 DEF StartFetch, ReqRecord, RequestSound
  <2>2. req' = [req EXCEPT ![r] = new]
    BY <1>1 DEF StartFetch
  <2> QED
    BY <1>1, <2>1, <2>2, ReplaceKeeps DEF StartFetch
<1>2. CASE BastionAnswers(r)
  <2> DEFINE new == [q EXCEPT !.at = "store", !.value = published, !.asof = now]
  <2>1. FromUrl
    BY <1>2 DEF BastionAnswers, GInv, AgesBounded, RequestSound
  <2>2. req' = [req EXCEPT ![r] = new]
    BY <1>2 DEF BastionAnswers, GInv, GateTyped
  <2>3. q.slack = 0 /\ published \in Values
    BY <1>0, <1>2 DEF BastionAnswers, GInv, GateTyped
  <2>4. new \in ReqRecord
    BY <1>0, <2>3 DEF ReqRecord
  <2>5. new.at = "store" /\ new.asof = now /\ new.slack = 0
    BY <1>0, <2>3 DEF ReqRecord
  <2> HIDE DEF new
  <2>6. RequestSound(new)
    BY <1>0, <2>1, <2>5 DEF RequestSound
  <2> QED
    BY <1>2, <2>2, <2>4, <2>6, ReplaceKeeps DEF BastionAnswers
<1>3. CASE FetchFails(r)
  BY <1>3, HoldingKeeps DEF FetchFails
<1> QED
  BY <1>1, <1>2, <1>3

\* The value stored is as old as the slack its thread has used.
LEMMA StoreKeyKeeps == ASSUME GInv, NEW r \in Requests, StoreKey(r) PROVE GInv'
<1> DEFINE new == [req[r] EXCEPT !.at = "gate"]
<1>1. /\ req[r].at = "store" /\ req[r] \in ReqRecord
      /\ now <= req[r].asof + req[r].slack
  BY DEF StoreKey, GInv, GateTyped, AgesBounded, RequestSound
<1>2. req' = [req EXCEPT ![r] = new] /\ UNCHANGED <<now, published, config>>
  BY DEF StoreKey
<1>3. /\ new \in ReqRecord /\ new.at = "gate"
      /\ new.value = req[r].value /\ new.asof = req[r].asof /\ new.slack = req[r].slack
  BY <1>1 DEF ReqRecord
<1>4. GateTyped'
  BY <1>1, <1>2, <1>3 DEF StoreKey, GInv, GateTyped, ReqRecord
<1>5. cache'.fetched_at <= cache'.asof + Lag
  BY <1>1 DEF StoreKey, GInv, GateTyped, ReqRecord
<1> HIDE DEF new
<1>6. RequestSound(new)
  BY <1>1, <1>3 DEF RequestSound, ReqRecord, GInv, GateTyped
<1>7. \A q \in Requests : req'[q] = IF q = r THEN new ELSE req[q]
  BY <1>2 DEF GInv, GateTyped
<1>8. \A q \in Requests : RequestSound(req'[q])
  BY <1>6, <1>7 DEF GInv, AgesBounded
<1>9. \A q \in Requests : RequestSound(req[q])'
  BY <1>2, <1>8 DEF RequestSound, FromUrl
<1> QED
  BY <1>4, <1>5, <1>9 DEF GInv, AgesBounded

\* Every value ages by one tick, and whoever holds one uses a tick of slack.
LEMMA TickKeeps == ASSUME GInv, Tick PROVE GInv'
<1>1. ASSUME NEW r \in Requests, req[r].at \in {"store", "gate"}
      PROVE  /\ req'[r] = [req[r] EXCEPT !.slack = @ + 1]
             /\ req[r].slack + 1 \in 0..Lag
  BY <1>1 DEF Tick, GInv, GateTyped, ReqRecord
<1>2. ASSUME NEW r \in Requests, req[r].at \notin {"store", "gate"}
      PROVE  req'[r] = req[r]
  BY <1>2 DEF Tick
<1>3. req' \in [Requests -> ReqRecord]
  BY <1>1, <1>2 DEF Tick, GInv, GateTyped, ReqRecord
<1> QED
  BY <1>1, <1>2, <1>3 DEF Tick, GInv, GateTyped, AgesBounded, RequestSound, ReqRecord, FromUrl

LEMMA WorkKeeps == ASSUME GInv, NEW r \in Requests, Work(r) PROVE GInv'
<1>1. CASE Unconfigured(r) \/ Tokenless(r) \/ \E token \in Tokens : Present(r, token)
  BY <1>1, DecideKeeps DEF Unconfigured, Tokenless, Present
<1> QED
  BY <1>1, KeyFromEnvKeeps, KeyFromCacheKeeps, FetchKeeps, StoreKeyKeeps DEF Work

LEMMA NextKeeps == ASSUME GInv, [GateNext]_vars PROVE GInv'
<1>1. ASSUME NEW r \in Requests, Arrive(r) PROVE GInv'
  <2>1. PICK route \in {"protected", "platform"} :
          req' = [req EXCEPT ![r].at = "keys", ![r].route = route]
    BY <1>1 DEF Arrive
  <2> DEFINE new == [req[r] EXCEPT !.at = "keys", !.route = route]
  <2>2. req' = [req EXCEPT ![r] = new]
    BY <2>1 DEF GInv, GateTyped
  <2>3. req[r] \in ReqRecord /\ req[r].slack = 0
    BY <1>1 DEF Arrive, GInv, GateTyped, AgesBounded, RequestSound
  <2>4. new \in ReqRecord /\ new.at = "keys" /\ new.slack = 0
    BY <2>3 DEF ReqRecord
  <2>5. RequestSound(new)
    BY <2>4 DEF RequestSound
  <2> QED
    BY <1>1, <2>2, <2>4, <2>5, ReplaceKeeps DEF Arrive
<1>2. ASSUME NEW r \in Requests, ArrivePublic(r) PROVE GInv'
  BY <1>2, DecideKeeps DEF ArrivePublic
<1>3. CASE Rotate
  BY <1>3 DEF Rotate, GInv, GateTyped, AgesBounded, RequestSound, FromUrl
<1>4. CASE UNCHANGED vars
  BY <1>4 DEF vars, GInv, GateTyped, AgesBounded, RequestSound, FromUrl
<1> QED
  BY <1>1, <1>2, <1>3, <1>4, WorkKeeps, TickKeeps DEF GateNext

\* The inductive invariant: the ages of all values, cached or held.
THEOREM GateInvariant == GateSpec => []GInv
BY InitAges, NextKeeps, PTL DEF GateSpec

\* A key that bastion no longer gives out is not trusted for longer than the
\* cache's lifetime and two delays, in whatever order the threads store.
THEOREM KeysAreRecent == GateSpec => []KeyWasRecent
<1>1. GInv => KeyWasRecent
  BY DEF GInv, GateTyped, AgesBounded, RequestSound, ReqRecord, KeyWasRecent
<1> QED
  BY <1>1, GateInvariant, PTL

-----------------------------------------------------------------------------
(* Whom a request is served as                                              *)

\* The keys a request is checked against, and what they ask of a token.
LEMMA TrustedKeys ==
  ASSUME GInv, NEW r \in Requests, NEW t \in Keys(r)
  PROVE  \/ t.key \in BastionKeys /\ t.issuer = "bastion"
         \/ t.key = FrontendKey /\ t.issuer = "frontend" /\ t.role = "frontend"
<1>1. req[r].value \in Values /\ config.frontend \in {FrontendKey, Garbage, None}
  BY DEF GInv, GateTyped, ReqRecord, Environments
<1>2. /\ t.key # None
      /\ \/ t = [key |-> Parse(req[r].value), issuer |-> "bastion", role |-> None]
         \/ t = [key |-> Parse(config.frontend), issuer |-> "frontend", role |-> "frontend"]
  BY DEF Keys, Trusted
<1>3. CASE t = [key |-> Parse(req[r].value), issuer |-> "bastion", role |-> None]
  BY <1>1, <1>2, <1>3 DEF Parse
<1>4. CASE t = [key |-> Parse(config.frontend), issuer |-> "frontend", role |-> "frontend"]
  BY <1>1, <1>2, <1>4 DEF Parse
<1> QED
  BY <1>2, <1>3, <1>4

\* What the properties of a decision say together.
Decided == PrincipalFollowsKey /\ FailsClosed

\* A step that answers no request.
LEMMA NoAnswer == ASSUME Undecided PROVE Decided'
BY DEF Undecided, NoDecision, Decided, PrincipalFollowsKey, FailsClosed

\* A step that answers without a principal.
LEMMA NoPrincipal ==
  ASSUME NEW r \in Requests, NEW code, Decide(r, code, None, None),
         code = 200 => \/ req[r].route = "public"
                       \/ req[r].route # "platform" /\ (config.demo \/ config.test)
  PROVE  Decided'
BY DEF Decide, Decided, PrincipalFollowsKey, FailsClosed

\* A step that serves a request as the issuer of its token.
LEMMA WithPrincipal ==
  ASSUME GInv, NEW r \in Requests, NEW token \in Tokens, NEW t \in Keys(r), Accepts(t, token),
         req[r].route = "platform" => token.iss = "bastion",
         Decide(r, 200, token.iss, token)
  PROVE  Decided'
<1>1. decided' = [code |-> 200, route |-> req[r].route, principal |-> token.iss, token |-> token]
  BY DEF Decide
<1>2. IF token.key = FrontendKey THEN token.iss = "frontend" /\ token.role = "frontend"
                                 ELSE token.iss = "bastion" /\ token.key \in BastionKeys
  <2>1. token.key = t.key /\ token.iss = t.issuer /\ (t.role = None \/ token.role = t.role)
    BY DEF Accepts
  <2>2. CASE t.key \in BastionKeys /\ t.issuer = "bastion"
    BY <2>1, <2>2, KeysDiffer
  <2>3. CASE t.key = FrontendKey /\ t.issuer = "frontend" /\ t.role = "frontend"
    BY <2>1, <2>3, NoneIsNoName
  <2> QED
    BY <2>2, <2>3, TrustedKeys
<1>3. token.iss # None
  BY <1>2, NoneIsNoName
<1>4. PrincipalFollowsKey'
  BY <1>1, <1>2 DEF PrincipalFollowsKey
<1>5. FailsClosed'
  BY <1>1, <1>3 DEF FailsClosed
<1> QED
  BY <1>4, <1>5 DEF Decided

LEMMA DecisionsKeep == ASSUME GInv, GateNext PROVE Decided'
<1>1. ASSUME NEW r \in Requests, ArrivePublic(r) \/ Unconfigured(r) \/ Tokenless(r)
      PROVE  Decided'
  <2>1. CASE ArrivePublic(r)
    <3>1. req[r].route = "public"
      BY <2>1 DEF ArrivePublic, GInv, AgesBounded, RequestSound
    <3>2. Decide(r, 200, None, None)
      BY <2>1 DEF ArrivePublic
    <3> QED
      BY <3>1, <3>2, NoPrincipal
  <2>2. CASE Unconfigured(r)
    BY <2>2, NoPrincipal, NoneIsNoName DEF Unconfigured, RequireBastion
  <2>3. CASE Tokenless(r)
    BY <2>3, NoPrincipal, NoneIsNoName DEF Tokenless, RequireBastion
  <2> QED
    BY <1>1, <2>1, <2>2, <2>3
<1>2. ASSUME NEW r \in Requests, NEW token \in Tokens, Present(r, token)
      PROVE  Decided'
  BY <1>2, NoPrincipal, WithPrincipal DEF Present, RequireBastion
<1>3. ASSUME NEW r \in Requests,
             Arrive(r) \/ KeyFromEnv(r) \/ KeyFromCache(r) \/ StartFetch(r)
               \/ BastionAnswers(r) \/ FetchFails(r) \/ StoreKey(r)
      PROVE  Decided'
  BY <1>3, NoAnswer DEF Arrive, KeyFromEnv, KeyFromCache, StartFetch, BastionAnswers,
     FetchFails, StoreKey
<1>4. CASE Rotate \/ Tick
  BY <1>4, NoAnswer DEF Rotate, Tick
<1> QED
  BY <1>1, <1>2, <1>3, <1>4 DEF GateNext, Work

LEMMA DecidedAlways == GateSpec => []Decided
<1>1. GateInit => Decided
  BY DEF GateInit, NoDecision, Decided, PrincipalFollowsKey, FailsClosed
<1>2. GInv /\ Decided /\ [GateNext]_vars => Decided'
  BY DecisionsKeep DEF vars, Decided, PrincipalFollowsKey, FailsClosed
<1> QED
  BY <1>1, <1>2, GateInvariant, PTL DEF GateSpec

\* A principal is of the issuer whose key signed the token, whatever it claims.
THEOREM PrincipalsFollowKeys == GateSpec => []PrincipalFollowsKey
<1>1. Decided => PrincipalFollowsKey
  BY DEF Decided
<1> QED
  BY <1>1, DecidedAlways, PTL

\* In no environment is a closed route served without a principal, but for the
\* two switches, and the platform route never.
THEOREM GateFailsClosed == GateSpec => []FailsClosed
<1>1. Decided => FailsClosed
  BY DEF Decided
<1> QED
  BY <1>1, DecidedAlways, PTL

-----------------------------------------------------------------------------
(* A configured gate                                                        *)

\* A request holds the value of the environment when there is one.
EnvironmentWins ==
  \A r \in Requests : req[r].at = "gate" /\ config.env # None => req[r].value = config.env

LEMMA EnvironmentKeeps ==
  ASSUME GInv, EnvironmentWins, [GateNext]_vars PROVE EnvironmentWins'
<1> SUFFICES ASSUME NEW r \in Requests, req'[r].at = "gate", config'.env # None
             PROVE  req'[r].value = config'.env
  BY DEF EnvironmentWins
<1>1. config' = config
  BY DEF GateNext, Work, Arrive, ArrivePublic, KeyFromEnv, KeyFromCache, StartFetch,
     BastionAnswers, FetchFails, StoreKey, Unconfigured, Tokenless, Present, Decide,
     Rotate, Tick, vars
<1>2. ~FromUrl /\ req[r].at \notin {"fetch", "store"}
  BY <1>1 DEF FromUrl, GInv, AgesBounded, RequestSound
<1>3. req \in [Requests -> ReqRecord]
  BY DEF GInv, GateTyped
<1>4. ASSUME NEW u \in Requests,
             ArrivePublic(u) \/ Unconfigured(u) \/ Tokenless(u)
               \/ \E token \in Tokens : Present(u, token)
      PROVE  req'[r].value = config'.env
  <2>1. req' = [req EXCEPT ![u] = Idle]
    BY <1>4 DEF ArrivePublic, Unconfigured, Tokenless, Present, Decide
  <2>2. r # u /\ req'[r] = req[r]
    BY <1>3, <2>1 DEF Idle
  <2> QED BY <1>1, <2>2 DEF EnvironmentWins
<1>5. ASSUME NEW u \in Requests, KeyFromEnv(u)
      PROVE  req'[r].value = config'.env
  BY <1>1, <1>3, <1>5 DEF KeyFromEnv, Holding, EnvironmentWins, ReqRecord
<1>6. ASSUME NEW u \in Requests,
             Arrive(u) \/ StartFetch(u) \/ BastionAnswers(u) \/ FetchFails(u) \/ StoreKey(u)
               \/ KeyFromCache(u)
      PROVE  req'[r].value = config'.env
  <2>1. r # u => req'[r] = req[r]
    BY <1>3, <1>6 DEF Arrive, StartFetch, BastionAnswers, FetchFails, StoreKey, KeyFromCache,
       Holding
  <2>2. r # u
    BY <1>2, <1>3, <1>6 DEF Arrive, StartFetch, BastionAnswers, FetchFails, StoreKey,
       KeyFromCache, ReqRecord
  <2> QED BY <1>1, <2>1, <2>2 DEF EnvironmentWins
<1>7. CASE Rotate \/ UNCHANGED vars
  BY <1>1, <1>7 DEF Rotate, vars, EnvironmentWins
<1>8. CASE Tick
  <2>1. req'[r].at = req[r].at /\ req'[r].value = req[r].value
    BY <1>3, <1>8 DEF Tick, ReqRecord
  <2> QED BY <1>1, <2>1 DEF EnvironmentWins
<1> QED BY <1>4, <1>5, <1>6, <1>7, <1>8 DEF GateNext, Work

LEMMA NotConfiguredKeeps ==
  ASSUME GInv, EnvironmentWins, ConfiguredStaysConfigured, [GateNext]_vars
  PROVE  ConfiguredStaysConfigured'
<1>1. ASSUME NEW r \in Requests, Unconfigured(r) PROVE ConfiguredStaysConfigured'
  <2>1. Parse(req[r].value) = None /\ Parse(config.frontend) = None
    <3> DEFINE b == [key |-> Parse(req[r].value), issuer |-> "bastion", role |-> None]
               f == [key |-> Parse(config.frontend), issuer |-> "frontend", role |-> "frontend"]
    <3>1. {t \in {b, f} : t.key # None} = {}
      BY <1>1 DEF Unconfigured, Keys, Trusted
    <3>2. b.key = None /\ f.key = None
      <4> HIDE DEF b, f
      <4> QED BY <3>1
    <3> QED BY <3>2
  <2>2. Parse(config.env) = None
    BY <1>1, <2>1 DEF Unconfigured, EnvironmentWins, Parse
  <2> QED BY <1>1, <2>1, <2>2 DEF Unconfigured, Decide, ConfiguredStaysConfigured, Parse
<1>2. ASSUME NEW r \in Requests,
             ArrivePublic(r) \/ Tokenless(r) \/ \E token \in Tokens : Present(r, token)
      PROVE  ConfiguredStaysConfigured'
  BY <1>2 DEF ArrivePublic, Tokenless, Present, Decide, ConfiguredStaysConfigured
<1>3. CASE Undecided
  BY <1>3 DEF Undecided, NoDecision, ConfiguredStaysConfigured
<1>4. CASE UNCHANGED vars
  BY <1>4 DEF vars, ConfiguredStaysConfigured, Parse
<1> QED
  BY <1>1, <1>2, <1>3, <1>4 DEF GateNext, Work, Arrive, KeyFromEnv, KeyFromCache, StartFetch,
     BastionAnswers, FetchFails, StoreKey, Rotate, Tick

\* While the environment names a key, or the frontend's, no failure of bastion's
\* makes the gate answer that it is not configured.
THEOREM StaysConfigured == GateSpec => []ConfiguredStaysConfigured
<1>1. GateInit => EnvironmentWins /\ ConfiguredStaysConfigured
  BY DEF GateInit, EnvironmentWins, ConfiguredStaysConfigured, Idle, NoDecision
<1>2. /\ GInv /\ EnvironmentWins /\ ConfiguredStaysConfigured /\ [GateNext]_vars
      => EnvironmentWins' /\ ConfiguredStaysConfigured'
  BY EnvironmentKeeps, NotConfiguredKeeps
<1> QED BY <1>1, <1>2, GateInvariant, PTL DEF GateSpec
=============================================================================
