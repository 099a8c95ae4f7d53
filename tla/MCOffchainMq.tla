---------------------------- MODULE MCOffchainMq ----------------------------
(* OffchainMq for TLC.                                                     *)
EXTENDS OffchainMq, TLC

CONSTANTS g1, g2

Gatekeepers == {g1, g2}

Worker == {g1}
=============================================================================
