---------------------------- MODULE MCMutationSync ----------------------------
(* Instances of MutationSync for model checking.                            *)
EXTENDS MutationSync, TLC

CONSTANTS d1, d2, e1, e2, f1, v0, v1

OneDevice   == {d1}
TwoDevices  == {d1, d2}
OneEntity   == {e1}
TwoEntities == {e1, e2}
OneField    == {f1}
TwoValues   == {v0, v1}

OneEach == d1 :> 1 @@ d2 :> 1
Two     == d1 :> 2
=============================================================================
