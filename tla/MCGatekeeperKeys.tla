-------------------------- MODULE MCGatekeeperKeys --------------------------
(* GatekeeperKeys for TLC.                                                 *)
EXTENDS GatekeeperKeys

CONSTANTS g1, g2

Two == {g1, g2}

One == {g1}

Symmetry == Permutations(Two)
=============================================================================
