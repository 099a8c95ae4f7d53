---------------------------- MODULE MCComputation ----------------------------
(* Computation for TLC.                                                    *)
EXTENDS Computation

CONSTANTS w1, p1, p2

OneWorker == {w1}

TwoPools == {p1, p2}

OnePool == {p1}

Symmetry == Permutations(TwoPools)
=============================================================================
