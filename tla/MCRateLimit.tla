----------------------------- MODULE MCRateLimit -----------------------------
(***************************************************************************)
(* Bounds for RateLimit: three requests in flight against a limit of two,  *)
(* so that the limit is reached while the first is still between its two   *)
(* calls; a window of two ticks, so that a request can come in the middle  *)
(* of one; two failures.  The counter stops at four, twice the limit: the  *)
(* code only tells apart one, at most the limit, and more than it.         *)
(***************************************************************************)
EXTENDS RateLimit
=============================================================================
