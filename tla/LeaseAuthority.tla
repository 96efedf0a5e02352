---------------------------- MODULE LeaseAuthority ----------------------------
(***************************************************************************)
(* What the Cloud device control plane promises about execution authority: *)
(* one holder at a time, a fresh and larger epoch for every grant, and a   *)
(* workspace log that takes entries only from the holder, stamped with the *)
(* holder's epoch.  The epoch is therefore a fencing token: once an entry  *)
(* of a later holder is in the log, no entry of an earlier one can follow. *)
(* DeviceAuthority implements this specification.                          *)
(***************************************************************************)
EXTENDS Integers, Sequences

CONSTANTS Devices, NoDevice

VARIABLES
  holder,   \* the device that may execute, or NoDevice
  epoch,    \* the epoch of the latest grant, 0 before the first
  log       \* the epochs of the accepted workspace mutations, in order

vars == <<holder, epoch, log>>

Init ==
  /\ holder = NoDevice
  /\ epoch = 0
  /\ log = <<>>

Grant(d) ==
  /\ holder = NoDevice
  /\ holder' = d
  /\ epoch' \in Nat
  /\ epoch' > epoch
  /\ UNCHANGED log

Release ==
  /\ holder # NoDevice
  /\ holder' = NoDevice
  /\ UNCHANGED <<epoch, log>>

AppendEntry ==
  /\ holder # NoDevice
  /\ log' = Append(log, epoch)
  /\ UNCHANGED <<holder, epoch>>

Next ==
  \/ \E d \in Devices : Grant(d)
  \/ Release
  \/ AppendEntry

Spec == Init /\ [][Next]_vars

(* Every value a variable can take. *)
TypeOK ==
  /\ holder \in Devices \cup {NoDevice}
  /\ epoch \in Nat
  /\ log \in Seq(Nat)

(* The epochs of the log never decrease: an entry of a fenced-off holder    *)
(* never lands behind an entry of its successor.                            *)
Fenced ==
  \A i, j \in DOMAIN log : i <= j => log[i] <= log[j]
=============================================================================
