-------------------------- MODULE MCRequestScheduler --------------------------
(* RequestScheduler for TLC.                                               *)
EXTENDS RequestScheduler

CONSTANTS f1, f2

TwoFlows == {f1, f2}

(* Weight 0 counts as 1.                                                  *)
SomeWeights == {0, 2}

SomeCosts == {0, 40}
=============================================================================
