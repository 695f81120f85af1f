------------------------- MODULE MCTranscriptReceipt -------------------------
(***************************************************************************)
(* Bounds for TranscriptReceipt: a debate of up to two rounds, or a legacy *)
(* one of one round; two signing keys and one setting that is no key, with *)
(* two redeployments, so that a verifier's two answers can be of one key,  *)
(* of two, or of a key that was replaced and has returned.                 *)
(***************************************************************************)
EXTENDS TranscriptReceipt

MCConfidences == 0..1
MCRoundLimits == {2}
=============================================================================
