------------------------------ MODULE JobQueue ------------------------------
(***************************************************************************)
(* What the job runtime promises its callers: of the jobs of a partition   *)
(* one at a time is worked on, its effects happen together with its        *)
(* completion, and a job that was given up comes back only when an         *)
(* administrator replays it.                                               *)
(***************************************************************************)
EXTENDS Naturals

CONSTANTS Jobs, PartitionOf

VARIABLES status, effects

vars == <<status, effects>>

Init ==
  /\ status = [j \in Jobs |-> "absent"]
  /\ effects = [j \in Jobs |-> 0]

Move(j, from, to) ==
  /\ status[j] = from
  /\ status' = [status EXCEPT ![j] = to]

Submit(j) == Move(j, "absent", "waiting") /\ UNCHANGED effects

Start(j) ==
  /\ \A k \in Jobs : PartitionOf[k] = PartitionOf[j] => status[k] # "working"
  /\ Move(j, "waiting", "working")
  /\ UNCHANGED effects

Finish(j) ==
  /\ Move(j, "working", "done")
  /\ effects[j] = 0
  /\ effects' = [effects EXCEPT ![j] = 1]

Defer(j) == Move(j, "working", "waiting") /\ UNCHANGED effects

Park(j) == Move(j, "working", "parked") /\ UNCHANGED effects

Unpark(j) == Move(j, "parked", "waiting") /\ UNCHANGED effects

Next ==
  \E j \in Jobs : Submit(j) \/ Start(j) \/ Finish(j) \/ Defer(j) \/ Park(j) \/ Unpark(j)

Spec == Init /\ [][Next]_vars
=============================================================================
