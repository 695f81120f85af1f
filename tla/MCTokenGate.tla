----------------------------- MODULE MCTokenGate -----------------------------
(***************************************************************************)
(* Bounds for TokenGate: two requests, so that one thread can overtake the *)
(* other, and time for a cached key to expire and be fetched again.  One   *)
(* bastion key is enough: an age is the same whichever key it is of.  The  *)
(* environments are the ones whose keys come from different places.        *)
(***************************************************************************)
EXTENDS TokenGate

Env(env, url, frontend, test, demo) ==
  [env |-> env, url |-> url, frontend |-> frontend, test |-> test, demo |-> demo]

MCConfigs ==
  {Env(None, TRUE, FrontendKey, FALSE, FALSE),
   Env(None, TRUE, None, FALSE, TRUE),
   Env(None, FALSE, None, TRUE, FALSE)}
  \cup {Env(key, TRUE, None, FALSE, FALSE) : key \in BastionKeys \cup {Garbage}}
=============================================================================
