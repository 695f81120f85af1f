--------------------------- MODULE MCDebateStream ---------------------------
(***************************************************************************)
(* Bounds for DebateStream: a debate of up to two rounds, with a second    *)
(* round only after an unconvincing score, watched by one viewer who may   *)
(* come back after its stream has ended.  Viewers share only the row, so   *)
(* one stands for all.                                                     *)
(***************************************************************************)
EXTENDS DebateStream

MCConfidences == 0..1
MCRoundLimits == {2}
=============================================================================
