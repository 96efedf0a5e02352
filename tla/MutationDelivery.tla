--------------------------- MODULE MutationDelivery ---------------------------
(***************************************************************************)
(* What the push path promises: every local mutation of a device is in the *)
(* workspace log at most once, and the mutations of one device enter the   *)
(* log in the order in which the device made them, with none overtaken by  *)
(* a later one.  The device's outbox is, seen from the log, a plain FIFO   *)
(* queue: retries, lost answers, late and duplicate requests are invisible.*)
(* MutationSync implements this specification.                             *)
(***************************************************************************)
EXTENDS Integers, Sequences

CONSTANT Devices

VARIABLES
  issued,  \* per device: how many mutations it has made
  queue,   \* per device: its mutations that are neither accepted nor refused
  log      \* the accepted mutations in the order of their server revisions

vars == <<issued, queue, log>>

Init ==
  /\ issued = [d \in Devices |-> 0]
  /\ queue = [d \in Devices |-> <<>>]
  /\ log = <<>>

Issue(d) ==
  /\ issued' = [issued EXCEPT ![d] = @ + 1]
  /\ queue' = [queue EXCEPT ![d] = Append(@, [device |-> d, sequence |-> issued[d] + 1])]
  /\ UNCHANGED log

(* A batch is accepted whole: it is a prefix of the device's queue. *)
Accept(d) ==
  \E k \in 1 .. Len(queue[d]) :
    /\ log' = log \o SubSeq(queue[d], 1, k)
    /\ queue' = [queue EXCEPT ![d] = SubSeq(@, k + 1, Len(@))]
    /\ UNCHANGED issued

Refuse(d) ==
  /\ queue[d] # <<>>
  /\ queue' = [queue EXCEPT ![d] = Tail(@)]
  /\ UNCHANGED <<issued, log>>

Next == \E d \in Devices : Issue(d) \/ Accept(d) \/ Refuse(d)

Spec == Init /\ [][Next]_vars
=============================================================================
