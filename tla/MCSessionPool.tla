----------------------------- MODULE MCSessionPool -----------------------------
(* SessionPool with two runs, a viewer and a probe on two connections, one of *)
(* them overflow: every task may meet an exhausted pool.                      *)
EXTENDS SessionPool
=============================================================================
