----------------------------- MODULE MCBlockSync -----------------------------
(* BlockSync for TLC.                                                      *)
EXTENDS BlockSync

CONSTANTS e1, e2

BothKinds == {"solo", "para"}

(* The parachain's head in the state of relay chain blocks 0 to 3.         *)
HeadsOfRelay == [i \in 0..3 |-> <<0, 0, 1, 3>>[i + 1]]

ChangeAtTwo == {2}

TwoEffects == {e1, e2}
=============================================================================
