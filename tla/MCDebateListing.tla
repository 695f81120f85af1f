---------------------------- MODULE MCDebateListing ----------------------------
(* DebateListing on four debates, two clock readings and pages of one or two. *)
EXTENDS DebateListing

MCTimes == 1..2
MCIds == 1..4
MCLimits == 1..2
=============================================================================
