---------------------------- MODULE MCJobRuntime ----------------------------
EXTENDS JobRuntime, TLC

CONSTANTS j1, j2, a, b, p1, x

OnePartition == [j \in Jobs |-> p1]

Symmetry == Permutations(Jobs) \cup Permutations(Workers) \cup Permutations(Admins)
=============================================================================
