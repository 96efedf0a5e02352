---------------------------- MODULE MCRebootstrap ----------------------------
(* Instance of Rebootstrap for TLC: a plan at each of two revisions, so that  *)
(* a plan may be behind the workspace, at its revision or ahead of it.        *)
EXTENDS Rebootstrap

SmallPlans == {p \in [checkpoint : 0..1, head : 0..1] : p.checkpoint = p.head}
=============================================================================
