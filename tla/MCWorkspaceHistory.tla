------------------------- MODULE MCWorkspaceHistory -------------------------
(* A small instance of WorkspaceHistory for TLC. *)
EXTENDS WorkspaceHistory, TLC

CONSTANTS k1, k2, d1, w1, r1

TwoCheckpoints == {k1, k2}
OneReader == {d1}
OneWorkflow == {w1}
OneCandidate == {r1}
Interchangeable == Permutations(TwoCheckpoints)
=============================================================================
