------------------------------ MODULE MCPools ------------------------------
(* Model-checking instances of Pools. *)
EXTENDS Pools
CONSTANTS owner, delegator, miner, poll
============================================================================
