---------------------------- MODULE MCPrbWorker ----------------------------
(* Relay block 3 has a parachain block more than block 2 and schedules new    *)
(* authorities.                                                              *)
EXTENDS PrbWorker, TLC

SomeParaAt == [r \in 0..MaxRelay |-> r]
SomeChanges == {3}
=============================================================================
