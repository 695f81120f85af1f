----------------------------- MODULE MCLlmCascade -----------------------------
(***************************************************************************)
(* Bounds for LlmCascade: three distinct models and the deployed setup, in *)
(* which fast and fallback may name the same one; a share of five ticks    *)
(* for three tiers, in which all three attempts fit with the shorter       *)
(* backoffs and a slow attempt leaves no room for the next; timers up to   *)
(* one tick late.                                                          *)
(***************************************************************************)
EXTENDS LlmCascade

MCConfigurations ==
  {[primary |-> "a", fast |-> "b", fallback |-> "c"],
   [primary |-> "a", fast |-> "b", fallback |-> "b"]}
=============================================================================
