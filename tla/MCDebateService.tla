--------------------------- MODULE MCDebateService ---------------------------
(***************************************************************************)
(* Bounds for DebateService: up to three rounds from the API and two from  *)
(* the platform, so that the cap, the round limit and early convergence    *)
(* all happen; scores below, on and above the threshold; two failing       *)
(* database operations, so that the write of the error status can fail as  *)
(* well as the write it reports.                                           *)
(***************************************************************************)
EXTENDS DebateService

MCConfidences == 0..3
MCMaxRoundsAsked == {1, 3}
=============================================================================
