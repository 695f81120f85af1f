------------------------------ MODULE TokenGate ------------------------------
(***************************************************************************)
(* The X-Platform-Token middleware and what it trusts.  Concurrent         *)
(* requests share _url_key_cache, the bastion key fetched from a URL; each *)
(* reads it on the event loop, fetches in a thread when it is missing or   *)
(* an hour old, and stores what it was told, so that threads may store in  *)
(* another order than bastion answered them, while bastion replaces its    *)
(* key.  From the loaded keys on, a request is decided synchronously.      *)
(*                                                                         *)
(* Time is counted in ticks.  A token is who signed it, what it claims,    *)
(* and whether its other claims (alg, aud, exp, iat, lifetime, sub) are in *)
(* order at the time it is checked.                                        *)
(***************************************************************************)
EXTENDS Integers, FiniteSets

CONSTANTS
  Requests,
  BastionKeys,  \* keys that bastion may publish
  FrontendKey,
  Foreign,      \* a key that nobody configured
  Garbage,      \* a value that is no Ed25519 key
  None,
  Configs,      \* the environments to consider
  TTL,          \* _PUBLIC_KEY_TTL_S, in ticks
  Lag,          \* ticks a request needs at most once it has a key value
  Horizon       \* bound on the clock

Environments == [env : BastionKeys \cup {Garbage, None},   \* BASTION_SIGNING_KEY_PUBLIC
                 url : BOOLEAN,                            \* BASTION_PUBLIC_KEY_URL is set
                 frontend : {FrontendKey, Garbage, None},
                 test : BOOLEAN,                           \* app_env is "test"
                 demo : BOOLEAN]                           \* DEMO_MODE

ASSUME KeysDiffer ==
  /\ {FrontendKey, Foreign, Garbage, None} \cap BastionKeys = {}
  /\ Cardinality({FrontendKey, Foreign, Garbage, None}) = 4
ASSUME NoneIsNoName == None \notin {"bastion", "frontend"}
ASSUME ConfigsAreEnvironments == Configs \subseteq Environments
ASSUME TimesAreNatural == TTL \in Nat \ {0} /\ Lag \in Nat /\ Horizon \in Nat

VARIABLES
  now,
  published,  \* what bastion answers at its URL
  config,
  cache,      \* _url_key_cache: when and what was stored
  req,        \* each request: where it is, its route, and the key value it holds
  decided     \* the request that the last step decided, if it did (history)

vars == <<now, published, config, cache, req, decided>>

\* asof is history: when bastion gave the value; slack counts the ticks since
\* the request got hold of it.
NoCache == [fetched_at |-> 0, value |-> None, asof |-> 0]
Idle == [at |-> "idle", route |-> "public", value |-> None, asof |-> 0, slack |-> 0]
NoDecision == [code |-> 0, route |-> "public", principal |-> None, token |-> None]

GateInit ==
  /\ now = 0
  /\ published \in BastionKeys \cup {Garbage}
  /\ config \in Configs
  /\ cache = NoCache
  /\ req = [r \in Requests |-> Idle]
  /\ decided = NoDecision

-----------------------------------------------------------------------------
(* The verifier                                                             *)

Tokens == [key : BastionKeys \cup {FrontendKey, Foreign},
           iss : {"bastion", "frontend"}, role : {"frontend", ""}, sound : BOOLEAN]

\* _parse_key_value: what does not parse counts as absent.
Parse(value) == IF value = Garbage THEN None ELSE value

\* Mutant of Trusted: without bastion's key there is none.
TrustedWithBastion(bastion) ==
  {t \in {[key |-> Parse(bastion), issuer |-> "bastion", role |-> None],
          [key |-> Parse(config.frontend), issuer |-> "frontend", role |-> "frontend"]} :
     t.key # None /\ Parse(bastion) # None}

\* load_trusted_keys: each configured key with what its tokens must claim.
Trusted(bastion) ==
  {t \in {[key |-> Parse(bastion), issuer |-> "bastion", role |-> None],
          [key |-> Parse(config.frontend), issuer |-> "frontend", role |-> "frontend"]} :
     t.key # None}

\* Mutant of Accepts: the claim is taken for the issuer, not compared to it.
AcceptsClaimed(t, token) == t.key = token.key /\ token.sound

\* verify_token against the key whose signature matches: the key decides which
\* issuer, and for the frontend which role, the token may claim.
Accepts(t, token) ==
  /\ t.key = token.key
  /\ token.iss = t.issuer
  /\ t.role = None \/ token.role = t.role
  /\ token.sound

-----------------------------------------------------------------------------
(* The middleware                                                           *)

\* A step that answers no request.
Undecided == decided' = NoDecision

\* The token is remembered when the request is served with it.
Decide(r, code, principal, token) ==
  /\ decided' = [code |-> code, route |-> req[r].route, principal |-> principal, token |-> token]
  /\ req' = [req EXCEPT ![r] = Idle]
  /\ UNCHANGED <<now, published, config, cache>>

Arrive(r) ==
  /\ req[r].at = "idle"
  /\ \E route \in {"protected", "platform"} :
       req' = [req EXCEPT ![r].at = "keys", ![r].route = route]
  /\ Undecided /\ UNCHANGED <<now, published, config, cache>>

\* is_public: no key is loaded and no token read.
ArrivePublic(r) ==
  /\ req[r].at = "idle"
  /\ Decide(r, 200, None, None)

\* The request goes on with a key value in hand.
Holding(r, value, asof) ==
  req' = [req EXCEPT ![r].at = "gate", ![r].value = value, ![r].asof = asof]

\* _bastion_key: a value in the environment wins, even one that does not parse;
\* without a URL there is no key.
KeyFromEnv(r) ==
  /\ req[r].at = "keys"
  /\ config.env # None \/ ~config.url
  /\ Holding(r, config.env, 0)
  /\ Undecided /\ UNCHANGED <<now, published, config, cache>>

FromUrl == config.env = None /\ config.url

\* There is a value that was stored less than an hour ago.
Fresh == cache.value # None /\ now - cache.fetched_at < TTL

KeyFromCache(r) ==
  /\ req[r].at = "keys" /\ FromUrl /\ Fresh
  /\ Holding(r, cache.value, cache.asof)
  /\ Undecided /\ UNCHANGED <<now, published, config, cache>>

StartFetch(r) ==
  /\ req[r].at = "keys" /\ FromUrl /\ ~Fresh
  /\ req' = [req EXCEPT ![r].at = "fetch"]
  /\ Undecided /\ UNCHANGED <<now, published, config, cache>>

\* Bastion answers the thread; what it published is on its way.
BastionAnswers(r) ==
  /\ req[r].at = "fetch"
  /\ req' = [req EXCEPT ![r].at = "store", ![r].value = published, ![r].asof = now]
  /\ Undecided /\ UNCHANGED <<now, published, config, cache>>

\* Mutant of FetchFails: the failure extends the life of the key at hand.
FetchFailsKeepingKey(r) ==
  /\ req[r].at = "fetch"
  /\ Holding(r, cache.value, cache.asof)
  /\ cache' = [cache EXCEPT !.fetched_at = now]
  /\ Undecided /\ UNCHANGED <<now, published, config>>

\* Mutant of FetchFails: the request starts over.
FetchFailsAndRetries(r) ==
  /\ req[r].at = "fetch"
  /\ req' = [req EXCEPT ![r].at = "keys"]
  /\ Undecided /\ UNCHANGED <<now, published, config, cache>>

\* Connection, status, timeout or shape: no key for this request, and the
\* cache stays as it is, expired.
FetchFails(r) ==
  /\ req[r].at = "fetch"
  /\ Holding(r, None, 0)
  /\ Undecided /\ UNCHANGED <<now, published, config, cache>>

\* The thread stores what it was told, whoever has stored since it asked.
StoreKey(r) ==
  /\ req[r].at = "store"
  /\ cache' = [fetched_at |-> now, value |-> req[r].value, asof |-> req[r].asof]
  /\ req' = [req EXCEPT ![r].at = "gate"]
  /\ Undecided /\ UNCHANGED <<now, published, config>>

Keys(r) == Trusted(req[r].value)

\* require_bastion, after the middleware and on the platform route alone.
RequireBastion(r, principal) == req[r].route = "platform" => principal = "bastion"

\* Without a key only the tests are served, and no token is read.
Unconfigured(r) ==
  /\ req[r].at = "gate" /\ Keys(r) = {}
  /\ Decide(r, CASE ~config.test -> 503
                 [] config.test /\ ~RequireBastion(r, None) -> 401
                 [] OTHER -> 200, None, None)

\* Without a token: anonymous under DEMO_MODE, except for require_bastion.
Tokenless(r) ==
  /\ req[r].at = "gate" /\ Keys(r) # {}
  /\ Decide(r, IF config.demo /\ RequireBastion(r, None) THEN 200 ELSE 401, None, None)

\* Mutant of Present: a token that fails is as good as none under DEMO_MODE.
PresentOrDemo(r, token) ==
  /\ req[r].at = "gate" /\ Keys(r) # {}
  /\ IF \E t \in Keys(r) : Accepts(t, token) THEN Decide(r, 200, token.iss, token)
     ELSE IF config.demo THEN Decide(r, 200, None, token) ELSE Decide(r, 401, None, None)

\* With a token: what verifies is served as its principal, on the platform
\* route only bastion's; any failure is a 401, also under DEMO_MODE.
Present(r, token) ==
  /\ req[r].at = "gate" /\ Keys(r) # {}
  /\ IF RequireBastion(r, token.iss) /\ \E t \in Keys(r) : Accepts(t, token)
     THEN Decide(r, 200, token.iss, token)
     ELSE Decide(r, 401, None, None)

\* Bastion replaces its key, or answers something that is no key.
Rotate ==
  /\ published' \in BastionKeys \cup {Garbage}
  /\ published' # published
  /\ Undecided /\ UNCHANGED <<now, config, cache, req>>

\* The clock; a request that has its key value is decided within Lag ticks.
Tick ==
  /\ now < Horizon
  /\ \A r \in Requests : req[r].at \in {"store", "gate"} => req[r].slack < Lag
  /\ now' = now + 1
  /\ req' = [r \in Requests |->
               IF req[r].at \in {"store", "gate"} THEN [req[r] EXCEPT !.slack = @ + 1]
               ELSE req[r]]
  /\ Undecided /\ UNCHANGED <<published, config, cache>>

Work(r) ==
  \/ KeyFromEnv(r) \/ KeyFromCache(r) \/ StartFetch(r)
  \/ BastionAnswers(r) \/ FetchFails(r) \/ StoreKey(r)
  \/ Unconfigured(r) \/ Tokenless(r) \/ \E token \in Tokens : Present(r, token)

GateNext ==
  \/ \E r \in Requests : Arrive(r) \/ ArrivePublic(r) \/ Work(r)
  \/ Rotate \/ Tick

\* asyncio runs every request, and the fetch ends within its httpx timeout.
GateSpec == GateInit /\ [][GateNext]_vars /\ \A r \in Requests : WF_vars(Work(r))

-----------------------------------------------------------------------------
(* Properties                                                               *)

\* A key that bastion has replaced is soon no longer trusted: however threads
\* overtake each other in storing, and however often a fetch fails, a request
\* is decided on a key that bastion gave out less than the cache's lifetime,
\* and the two delays of a thread and of a request, ago.
KeyWasRecent ==
  \A r \in Requests :
    req[r].at = "gate" /\ FromUrl /\ req[r].value # None =>
      now - req[r].asof < TTL + 2 * Lag

\* A principal comes from a token signed with a key of that very issuer, which
\* the process was configured with or told by bastion; never from a claim.
PrincipalFollowsKey ==
  decided.principal # None =>
    IF decided.token.key = FrontendKey
    THEN decided.principal = "frontend" /\ decided.token.role = "frontend"
    ELSE decided.principal = "bastion" /\ decided.token.key \in BastionKeys

\* The gate fails closed: whatever is served on a closed route has a principal,
\* unless DEMO_MODE tolerates a missing token or the tests run without keys;
\* a token that is present is never overlooked; the platform route needs bastion.
FailsClosed ==
  decided.code = 200 /\ decided.route # "public" =>
    /\ decided.principal = None => decided.token = None /\ (config.demo \/ config.test)
    /\ decided.route = "platform" => decided.principal = "bastion"

\* With a key in the environment, or the frontend's, no fetch that fails can
\* make the gate answer that it is not configured.
ConfiguredStaysConfigured ==
  decided.code = 503 =>
    Parse(config.env) = None /\ Parse(config.frontend) = None

\* Every request is decided, whether or not bastion answers.
RequestDecided == \A r \in Requests : req[r].at = "keys" ~> req[r].at = "idle"
=============================================================================
