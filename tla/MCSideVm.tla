------------------------------- MODULE MCSideVm -------------------------------
(* SideVm for TLC.                                                         *)
EXTENDS SideVm

CONSTANTS v1, v2

TwoVms == {v1, v2}

Starts == v1 :> 2 @@ v2 :> 1
=============================================================================
