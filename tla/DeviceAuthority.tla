--------------------------- MODULE DeviceAuthority ---------------------------
(***************************************************************************)
(* The Cloud device control plane for one account and its one workspace:   *)
(* device bindings, execution leases and their epochs, the device switch   *)
(* (drain, bootstrap, activation), the three drain ledgers and the gate    *)
(* through which a device appends workspace mutations.                     *)
(*                                                                         *)
(* An action is one PostgreSQL transaction that commits.  A transaction    *)
(* that is refused or that replays an earlier result changes no row and is *)
(* a stuttering step.  The request's expected revision, step number and    *)
(* nonce only select the matching row, so a request that does not match is *)
(* one of the refused ones.  A signing key is named by the device that     *)
(* owns it: key ids are unique and no code rotates or revokes a key.       *)
(***************************************************************************)
EXTENDS Integers, Sequences

CONSTANTS
  Devices,          \* devices that may sign in to the account
  NoDevice,
  Workflows,        \* ids of device switch workflows
  NoWorkflow,
  MaxEpoch,         \* largest lease epoch (2^53 - 1 in the code)
  MaxSecurityEpoch, \* bound on password resets
  MaxSequence,      \* bound on the records of one drain stream
  MaxTime,          \* bound on the clock
  Deadlines,        \* entitlement deadlines the licensing module may set
  RenewFor,         \* 300 s in the code
  OnlineFor,        \* 900 s
  OfflineFor,       \* 86400 s
  CapabilityFor,    \* 3600 s
  PinFor,           \* 900 s
  WorkflowFor,      \* lifetime of a switch workflow's deadline
  ProofFor          \* lifetime of a drain proof

ASSUME NamesAssumption ==
  /\ NoDevice \notin Devices
  /\ NoWorkflow \notin Workflows

ASSUME BoundsAssumption ==
  /\ MaxEpoch \in Nat \ {0}
  /\ MaxSecurityEpoch \in Nat \ {0}
  /\ MaxSequence \in Nat
  /\ MaxTime \in Nat
  /\ Deadlines \subseteq Nat

ASSUME DurationsAssumption ==
  /\ RenewFor \in Nat \ {0}
  /\ OnlineFor \in Nat
  /\ OfflineFor \in Nat
  /\ CapabilityFor \in Nat
  /\ PinFor \in Nat \ {0}
  /\ WorkflowFor \in Nat
  /\ ProofFor \in Nat
  /\ RenewFor < OnlineFor
  /\ OnlineFor <= OfflineFor

VARIABLES
  clock,        \* transaction time, database clock
  security,     \* account_security_states: epoch and status
  entitlement,  \* deadline of the active entitlement, 0 when there is none
  loginView,    \* per device: what a login read before its lease transaction
  slots,        \* device_bindings: the two slots
  highest,      \* device_account_states.highest_allocated_lease_epoch
  current,      \* device_account_states.current_lease_epoch, 0 for NULL
  alloc,        \* device_lease_allocations by epoch
  lease,        \* device_leases by epoch
  wf,           \* device_switch_workflows
  cap,          \* device_bootstrap_capabilities by workflow
  boot,         \* device_bootstrap_authorities by workflow, with its checkpoint pin
  cursors,      \* workspace_device_cursors: the latest generation of each device
  proof,        \* device_drain_proofs by workflow
  records,      \* per stream and epoch: sequences received from the lease's device
  seal,         \* per stream and epoch: sealed head, Unsealed before the drain
  log           \* workspace_mutations by server revision: the lease epoch of each

accountVars == <<security, entitlement, loginView, slots>>
epochVars   == <<highest, current, alloc, lease>>
switchVars  == <<wf, cap, boot, cursors, proof>>
ledgerVars  == <<records, seal>>
vars == <<clock, accountVars, epochVars, switchVars, ledgerVars, log>>

Epochs   == 1 .. MaxEpoch
Streams  == {"mutation", "execution_fact", "device_audit"}
Unsealed == -1
AnyDevice   == Devices \cup {NoDevice}
AnyWorkflow == Workflows \cup {NoWorkflow}

-----------------------------------------------------------------------------
(* The rows.                                                               *)

Lease ==
  [state : {"none", "held", "released"}, device : AnyDevice, security : Nat,
   renewAfter : Nat, online : Nat, offline : Nat]

Allocation ==
  [status : {"none", "pending", "burned", "activated"},
   source : {"none", "desktop_login", "device_switch"},
   workflow : AnyWorkflow]

Workflow ==
  [status : {"absent", "draining", "bootstrapping", "completed", "cancelled"},
   from : AnyDevice, to : AnyDevice, key : AnyDevice, security : Nat,
   pending : 0 .. MaxEpoch, deadline : Nat]

Capability == [state : {"absent", "issued", "ready", "consumed"}, expires : Nat]

Bootstrap ==
  [kind : {"absent", "pin_checkpoint", "fetch_mutations",
           "submit_rebuild_digest", "verified"},
   pin : {"none", "held", "released"}, pinExpires : Nat, from : Nat, target : Nat]

Cursor == [status : {"none", "active", "retired"}, generation : Nat, revision : Nat]

Proof ==
  [state : {"absent", "open", "consumed"}, source : AnyDevice, key : AnyDevice,
   epoch : 0 .. MaxEpoch, heads : [Streams -> 0 .. MaxSequence], expires : Nat]

(* Every row has the columns the schema gives it. *)
TypeOK ==
  /\ clock \in Nat
  /\ security \in [epoch : 1 .. MaxSecurityEpoch, status : {"normal", "recovery_pending"}]
  /\ entitlement \in Nat
  /\ loginView \in [Devices -> [deadline : Nat, security : Nat]]
  /\ slots \in [1 .. 2 -> AnyDevice]
  /\ highest \in 0 .. MaxEpoch
  /\ current \in 0 .. MaxEpoch
  /\ alloc \in [Epochs -> Allocation]
  /\ lease \in [Epochs -> Lease]
  /\ wf \in [Workflows -> Workflow]
  /\ cap \in [Workflows -> Capability]
  /\ boot \in [Workflows -> Bootstrap]
  /\ cursors \in [Devices -> Cursor]
  /\ proof \in [Workflows -> Proof]
  /\ records \in [Streams -> [Epochs -> SUBSET (1 .. MaxSequence)]]
  /\ seal \in [Streams -> [Epochs -> {Unsealed} \cup 0 .. MaxSequence]]
  /\ log \in Seq(Epochs)

NoLease ==
  [state |-> "none", device |-> NoDevice, security |-> 0,
   renewAfter |-> 0, online |-> 0, offline |-> 0]

NoView == [deadline |-> 0, security |-> 0]

Init ==
  /\ clock = 1
  /\ security = [epoch |-> 1, status |-> "normal"]
  /\ entitlement = 0
  /\ loginView = [d \in Devices |-> NoView]
  /\ slots = [s \in 1 .. 2 |-> NoDevice]
  /\ highest = 0
  /\ current = 0
  /\ alloc = [e \in Epochs |-> [status |-> "none", source |-> "none",
                                workflow |-> NoWorkflow]]
  /\ lease = [e \in Epochs |-> NoLease]
  /\ wf = [w \in Workflows |->
             [status |-> "absent", from |-> NoDevice, to |-> NoDevice,
              key |-> NoDevice, security |-> 0, pending |-> 0, deadline |-> 0]]
  /\ cap = [w \in Workflows |-> [state |-> "absent", expires |-> 0]]
  /\ boot = [w \in Workflows |-> [kind |-> "absent", pin |-> "none",
                                  pinExpires |-> 0, from |-> 0, target |-> 0]]
  /\ cursors = [d \in Devices |-> [status |-> "none", generation |-> 0, revision |-> 0]]
  /\ proof = [w \in Workflows |->
                [state |-> "absent", source |-> NoDevice, key |-> NoDevice,
                 epoch |-> 0, heads |-> [s \in Streams |-> 0], expires |-> 0]]
  /\ records = [s \in Streams |-> [e \in Epochs |-> {}]]
  /\ seal = [s \in Streams |-> [e \in Epochs |-> Unsealed]]
  /\ log = <<>>

-----------------------------------------------------------------------------
(* Reads the transactions share.                                           *)

Bound == {slots[s] : s \in 1 .. 2} \ {NoDevice}

Held(e) == lease[e].state = "held"

NoneHeldUnchecked == TRUE                                   \* mutant

NoneHeld == \A e \in Epochs : ~Held(e)

SecurityNormalAtAnyEpoch(epoch) == security.status = "normal" \* mutant

SecurityNormal(epoch) == security.status = "normal" /\ security.epoch = epoch

EpochAvailable == highest < MaxEpoch

(* Epochs are numbered from the highest ever allocated, burned ones included. *)
NextEpoch == highest + 1

(* The workspace column of an allocation: NULL for a login lease. *)
InWorkspace(e) == alloc[e].status = "activated" /\ alloc[e].source = "device_switch"

Outstanding(w) == wf[w].status \in {"draining", "bootstrapping"}

Earlier(s, t) == IF s < t THEN s ELSE t

(* A lease issued now, for the security epoch of the login or switch that  *)
(* asks for it and under an entitlement that ends at deadline.             *)
IssuedLease(d, epoch, deadline) ==
  [state |-> "held", device |-> d, security |-> epoch,
   renewAfter |-> clock + RenewFor,
   online  |-> Earlier(clock + OnlineFor, deadline),
   offline |-> Earlier(clock + OfflineFor, deadline)]

(* renew_after < online_expires_at: otherwise no lease can be issued. *)
LeaseTimesValid(deadline) == clock + RenewFor < Earlier(clock + OnlineFor, deadline)

-----------------------------------------------------------------------------
(* The surroundings: the clock, account security, licensing, sign-in.       *)

Tick ==
  /\ clock < MaxTime
  /\ clock' = clock + 1
  /\ UNCHANGED <<accountVars, epochVars, switchVars, ledgerVars, log>>

(* A password reset or a recovery: every session is revoked, the           *)
(* held lease is left as it is.                                            *)
AdvanceSecurityEpoch(status) ==
  /\ security.epoch < MaxSecurityEpoch
  /\ security' = [epoch |-> security.epoch + 1, status |-> status]
  /\ UNCHANGED <<clock, entitlement, loginView, slots, epochVars, switchVars,
                 ledgerVars, log>>

SetEntitlement(deadline) ==
  /\ entitlement' = deadline
  /\ UNCHANGED <<clock, security, loginView, slots, epochVars, switchVars,
                 ledgerVars, log>>

(* First sign-in of a device: it takes the lowest free slot. *)
Enroll(d) ==
  /\ d \notin Bound
  /\ \E s \in 1 .. 2 :
       /\ slots[s] = NoDevice
       /\ \A t \in 1 .. 2 : slots[t] = NoDevice => s <= t
       /\ slots' = [slots EXCEPT ![s] = d]
  /\ UNCHANGED <<clock, security, entitlement, loginView, epochVars, switchVars,
                 ledgerVars, log>>

-----------------------------------------------------------------------------
(* The login lease.  The entitlement is read in a transaction of its own,  *)
(* so it may have changed when the lease is written.                       *)

ReadEntitlement(d) ==
  /\ loginView[d] = NoView
  /\ d \in Bound
  /\ entitlement > clock
  /\ loginView' = [loginView EXCEPT ![d] = [deadline |-> entitlement,
                                            security |-> security.epoch]]
  /\ UNCHANGED <<clock, security, entitlement, slots, epochVars, switchVars,
                 ledgerVars, log>>

(* Every outcome that writes no row: a refusal, a signer that declines, a   *)
(* lease that is neither due for renewal nor past its online expiry.       *)
EndLogin(d) ==
  /\ loginView[d] # NoView
  /\ loginView' = [loginView EXCEPT ![d] = NoView]
  /\ UNCHANGED <<clock, security, entitlement, slots, epochVars, switchVars,
                 ledgerVars, log>>

LoginAdmitted(d) ==
  /\ loginView[d] # NoView
  /\ SecurityNormal(loginView[d].security)
  /\ d \in Bound
  /\ LeaseTimesValid(loginView[d].deadline)

GrantLoginLease(d) ==
  /\ LoginAdmitted(d)
  /\ NoneHeld
  /\ current <= highest
  /\ EpochAvailable
  /\ highest' = NextEpoch
  /\ current' = NextEpoch
  /\ alloc' = [alloc EXCEPT ![NextEpoch] =
                 [status |-> "activated", source |-> "desktop_login",
                  workflow |-> NoWorkflow]]
  /\ lease' = [lease EXCEPT ![NextEpoch] =
                 IssuedLease(d, loginView[d].security, loginView[d].deadline)]
  /\ loginView' = [loginView EXCEPT ![d] = NoView]
  /\ UNCHANGED <<clock, security, entitlement, slots, switchVars, ledgerVars, log>>

RenewLoginLease(d, e) ==
  /\ LoginAdmitted(d)
  /\ Held(e)
  /\ lease[e].device = d
  /\ e = current
  /\ lease[e].security = loginView[d].security
  /\ clock >= lease[e].renewAfter \/ clock >= lease[e].online
  /\ lease' = [lease EXCEPT ![e] =
                 IssuedLease(d, loginView[d].security, loginView[d].deadline)]
  /\ loginView' = [loginView EXCEPT ![d] = NoView]
  /\ UNCHANGED <<clock, security, entitlement, slots, highest, current, alloc,
                 switchVars, ledgerVars, log>>

-----------------------------------------------------------------------------
(* The rows of a switch that other services write.                         *)

NewWorkflow(w, status, from, to, key, pending) ==
  /\ wf[w].status = "absent"
  /\ \A v \in Workflows : ~Outstanding(v)
  /\ wf' = [wf EXCEPT ![w] =
              [status |-> status, from |-> from, to |-> to, key |-> key,
               security |-> security.epoch, pending |-> pending,
               deadline |-> clock + WorkflowFor]]

(* A switch from the holder of the lease, and the key it is bound to. *)
OpenSwitch(w, from, to, key) ==
  /\ \E e \in Epochs : Held(e) /\ lease[e].device = from
  /\ to \in Bound \ {from}
  /\ NewWorkflow(w, "draining", from, to, key, 0)
  /\ UNCHANGED <<clock, accountVars, epochVars, cap, boot, cursors, proof, ledgerVars,
                 log>>

(* The first device of the workspace: nothing to drain. *)
OpenFirstDevice(w, to) ==
  /\ to \in Bound
  /\ NoneHeld
  /\ EpochAvailable
  /\ NewWorkflow(w, "bootstrapping", NoDevice, to, to, NextEpoch)
  /\ highest' = NextEpoch
  /\ alloc' = [alloc EXCEPT ![NextEpoch] =
                 [status |-> "pending", source |-> "device_switch", workflow |-> w]]
  /\ cap' = [cap EXCEPT ![w] = [state |-> "issued", expires |-> clock + CapabilityFor]]
  /\ UNCHANGED <<clock, accountVars, current, lease, boot, cursors, proof, ledgerVars,
                 log>>

(* The capability envelope is signed and the authority row created. *)
ReadyCapability(w) ==
  /\ wf[w].status = "bootstrapping"
  /\ cap[w].state = "issued"
  /\ cap' = [cap EXCEPT ![w].state = "ready"]
  /\ boot' = [boot EXCEPT ![w].kind = "pin_checkpoint"]
  /\ UNCHANGED <<clock, accountVars, epochVars, wf, cursors, proof, ledgerVars, log>>

(* A workflow is given up; its epoch, if it has one, is burned. *)
CancelWorkflow(w) ==
  /\ Outstanding(w)
  /\ wf' = [wf EXCEPT ![w] = [@ EXCEPT !.status = "cancelled", !.pending = 0]]
  /\ alloc' = [e \in Epochs |-> IF e = wf[w].pending
                                THEN [alloc[e] EXCEPT !.status = "burned"]
                                ELSE alloc[e]]
  /\ UNCHANGED <<clock, accountVars, highest, current, lease, cap, boot, cursors, proof,
                 ledgerVars, log>>

(* The source device signs, with its own key, where its streams end. *)
IssueProof(w, e, heads) ==
  /\ wf[w].status = "draining"
  /\ proof[w].state = "absent"
  /\ lease[e].state # "none"
  /\ lease[e].device = wf[w].from
  /\ proof' = [proof EXCEPT ![w] =
                 [state |-> "open", source |-> wf[w].from, key |-> wf[w].from,
                  epoch |-> e, heads |-> heads, expires |-> clock + ProofFor]]
  /\ UNCHANGED <<clock, accountVars, epochVars, wf, cap, boot, cursors, ledgerVars, log>>

-----------------------------------------------------------------------------
(* The ledgers.                                                            *)

(* workspace_assert_active_mutation_domain: the lease of exactly this       *)
(* epoch is unreleased, live and of this workspace.                         *)
DomainActive(d, e) ==
  /\ Held(e)
  /\ lease[e].device = d
  /\ clock < lease[e].offline
  /\ InWorkspace(e)

(* lockAndValidateActiveLease: the device holds the lease, and the epoch    *)
(* it submits under is one it was activated with.                          *)
MutationAuthority(d, e) ==
  /\ d \in Bound
  /\ \E h \in Epochs : DomainActive(d, h)
  /\ lease[e].state # "none"
  /\ lease[e].device = d
  /\ InWorkspace(e)

StreamOpen(s, e) == seal[s][e] = Unsealed

Record(s, e, n) == records' = [records EXCEPT ![s][e] = @ \cup {n}]

(* mutant: the epoch's allocation is looked up instead of its lease *)
AcceptMutationOfAllocatedEpoch(d, e, n) ==
  /\ d \in Bound
  /\ alloc[e].source = "device_switch"
  /\ StreamOpen("mutation", e)
  /\ n \notin records["mutation"][e]
  /\ Record("mutation", e, n)
  /\ log' = Append(log, e)
  /\ UNCHANGED <<clock, accountVars, epochVars, switchVars, seal>>

AcceptMutation(d, e, n) ==
  /\ MutationAuthority(d, e)
  /\ DomainActive(d, e)
  /\ StreamOpen("mutation", e)
  /\ n \notin records["mutation"][e]
  /\ Record("mutation", e, n)
  /\ log' = Append(log, e)
  /\ UNCHANGED <<clock, accountVars, epochVars, switchVars, seal>>

(* execution_fact_append_record, device_audit_append_record: no lease is    *)
(* asked for, only that the stream is not sealed.                          *)
AppendRecord(s, e, n) ==
  /\ s # "mutation"
  /\ lease[e].state # "none"
  /\ StreamOpen(s, e)
  /\ n \notin records[s][e]
  /\ Record(s, e, n)
  /\ UNCHANGED <<clock, accountVars, epochVars, switchVars, seal, log>>

SealAcceptedAcrossGap(s, e, head) ==                        \* mutant
  /\ StreamOpen(s, e)
  /\ head \in records[s][e] \cup {0}

(* install_accepted_seal: the stream received is contiguous and ends where  *)
(* the proof says it ends.                                                 *)
SealAccepted(s, e, head) ==
  /\ StreamOpen(s, e)
  /\ records[s][e] = 1 .. head

-----------------------------------------------------------------------------
(* The switch.                                                             *)

(* device_consume_drain_proof *)
ProofUsable(w) ==
  /\ proof[w].state = "open"
  /\ clock < proof[w].expires
  /\ {proof[w].source, wf[w].to} \subseteq Bound
  /\ wf[w].from = proof[w].source
  /\ wf[w].key = proof[w].key

CommitDrain(w) ==
  LET p == proof[w] IN
  /\ security.status = "normal"
  /\ wf[w].status = "draining"
  /\ wf[w].security = security.epoch
  /\ clock < wf[w].deadline
  /\ ProofUsable(w)
  /\ p.epoch \in Epochs
  /\ DomainActive(p.source, p.epoch)
  /\ \A s \in Streams : SealAccepted(s, p.epoch, p.heads[s])
  /\ EpochAvailable
  /\ proof' = [proof EXCEPT ![w].state = "consumed"]
  /\ seal' = [s \in Streams |-> [seal[s] EXCEPT ![p.epoch] = p.heads[s]]]
  /\ lease' = [lease EXCEPT ![p.epoch].state = "released"]
  /\ highest' = NextEpoch
  /\ alloc' = [alloc EXCEPT ![NextEpoch] =
                 [status |-> "pending", source |-> "device_switch", workflow |-> w]]
  /\ cap' = [cap EXCEPT ![w] = [state |-> "issued", expires |-> clock + CapabilityFor]]
  /\ wf' = [wf EXCEPT ![w] = [@ EXCEPT !.status = "bootstrapping", !.pending = NextEpoch]]
  /\ UNCHANGED <<clock, accountVars, current, boot, cursors, records, log>>

(* The checks every bootstrap step makes before it executes. *)
StepAdmitted(w, kind) ==
  /\ SecurityNormal(wf[w].security)
  /\ wf[w].status = "bootstrapping"
  /\ wf[w].to \in Bound
  /\ wf[w].key = wf[w].to
  /\ cap[w].state = "ready"
  /\ clock < cap[w].expires
  /\ boot[w].kind = kind

(* The revision to rebuild up to: the head when the checkpoint is pinned. *)
PinTarget(through) == Len(log)

(* The checkpoint lies at or below the head. *)
PinCheckpoint(w, through) ==
  /\ StepAdmitted(w, "pin_checkpoint")
  /\ through \in 0 .. Len(log)
  /\ boot' = [boot EXCEPT ![w] =
                [kind |-> "fetch_mutations", pin |-> "held",
                 pinExpires |-> Earlier(clock + PinFor, cap[w].expires),
                 from |-> through, target |-> PinTarget(through)]]
  /\ UNCHANGED <<clock, accountVars, epochVars, wf, cap, cursors, proof, ledgerVars, log>>

(* One page: it ends at the target or is followed by another. *)
FetchMutations(w, through) ==
  /\ StepAdmitted(w, "fetch_mutations")
  /\ through \in boot[w].from .. boot[w].target
  /\ through > boot[w].from \/ through = boot[w].target
  /\ boot' = [boot EXCEPT ![w] =
                [@ EXCEPT !.from = through,
                          !.kind = IF through = boot[w].target
                                   THEN "submit_rebuild_digest"
                                   ELSE "fetch_mutations"]]
  /\ UNCHANGED <<clock, accountVars, epochVars, wf, cap, cursors, proof, ledgerVars, log>>

SubmitRebuildDigest(w) ==
  /\ StepAdmitted(w, "submit_rebuild_digest")
  /\ boot[w].from = boot[w].target
  /\ boot' = [boot EXCEPT ![w].kind = "verified"]
  /\ UNCHANGED <<clock, accountVars, epochVars, wf, cap, cursors, proof, ledgerVars, log>>

(* retireCurrent and insertNextGeneration: the activated device reads on    *)
(* from the revision it was rebuilt to, and no other device has a cursor.   *)
NextGeneration(d, revision) ==
  [c \in Devices |->
     IF c = d
     THEN [status |-> "active", generation |-> cursors[c].generation + 1,
           revision |-> revision]
     ELSE [cursors[c] EXCEPT !.status = IF @ = "active" THEN "retired" ELSE @]]

Activate(w) ==
  LET e == wf[w].pending IN
  /\ SecurityNormal(wf[w].security)
  /\ entitlement > clock
  /\ wf[w].status = "bootstrapping"
  /\ e \in Epochs
  /\ e = highest
  /\ e > current
  /\ wf[w].to \in Bound
  /\ wf[w].key = wf[w].to
  /\ alloc[e].status = "pending"
  /\ alloc[e].workflow = w
  /\ cap[w].state = "ready"
  /\ clock < cap[w].expires
  /\ clock < boot[w].pinExpires
  /\ boot[w].kind = "verified"
  /\ NoneHeld
  /\ LeaseTimesValid(entitlement)
  /\ lease' = [lease EXCEPT ![e] = IssuedLease(wf[w].to, security.epoch, entitlement)]
  /\ alloc' = [alloc EXCEPT ![e].status = "activated"]
  /\ current' = e
  /\ cap' = [cap EXCEPT ![w].state = "consumed"]
  /\ cursors' = NextGeneration(wf[w].to, boot[w].target)
  /\ wf' = [wf EXCEPT ![w] = [@ EXCEPT !.status = "completed", !.pending = 0]]
  /\ boot' = [boot EXCEPT ![w].pin = "released"]
  /\ UNCHANGED <<clock, accountVars, highest, proof, ledgerVars, log>>

-----------------------------------------------------------------------------
AccountNext ==
  \/ Tick
  \/ \E status \in {"normal", "recovery_pending"} : AdvanceSecurityEpoch(status)
  \/ \E deadline \in Deadlines : SetEntitlement(deadline)
  \/ \E d \in Devices :
       \/ Enroll(d)
       \/ ReadEntitlement(d)
       \/ EndLogin(d)
       \/ GrantLoginLease(d)
       \/ \E e \in Epochs : RenewLoginLease(d, e)

SwitchNext ==
  \E w \in Workflows :
    \/ \E from, to, key \in Devices : OpenSwitch(w, from, to, key)
    \/ \E to \in Devices : OpenFirstDevice(w, to)
    \/ ReadyCapability(w)
    \/ CancelWorkflow(w)
    \/ \E e \in Epochs, heads \in [Streams -> 0 .. MaxSequence] : IssueProof(w, e, heads)
    \/ CommitDrain(w)
    \/ \E through \in 0 .. Len(log) : PinCheckpoint(w, through) \/ FetchMutations(w, through)
    \/ SubmitRebuildDigest(w)
    \/ Activate(w)

LedgerNext ==
  \E e \in Epochs, n \in 1 .. MaxSequence :
    \/ \E d \in Devices : AcceptMutation(d, e, n)
    \/ \E s \in Streams : AppendRecord(s, e, n)

Next == AccountNext \/ SwitchNext \/ LedgerNext

Spec == Init /\ [][Next]_vars

-----------------------------------------------------------------------------
(* Properties.                                                             *)

(* The execution authority of an account is one row: at most one lease is  *)
(* held and it is the lease of the current epoch; a lease exists exactly   *)
(* for an activated allocation and an allocation for every epoch handed    *)
(* out.  Logins, drains and activations all write these four tables.       *)
LeaseDiscipline ==
  /\ current <= highest
  /\ \A e \in Epochs :
       /\ Held(e) => e = current
       /\ lease[e].state # "none" <=> alloc[e].status = "activated"
       /\ alloc[e].status = "activated" => e <= current
       /\ alloc[e].status # "none" <=> e <= highest

(* A lease is released by a drain only, so everything its device produced  *)
(* was received without a gap and the three streams are sealed at their    *)
(* heads; nothing can be added to them afterwards.                         *)
ReleasedIsSealed ==
  \A e \in Epochs, s \in Streams :
    lease[e].state = "released" => /\ seal[s][e] # Unsealed
                                   /\ records[s][e] = 1 .. seal[s][e]

(* While a switch bootstraps its target nothing can move the workspace     *)
(* head: no other switch is under way, and the only lease a device may     *)
(* hold meanwhile is a login lease, which does not reach the workspace.    *)
SwitchIsolation ==
  /\ \A v, w \in Workflows : Outstanding(v) /\ Outstanding(w) => v = w
  /\ \A w \in Workflows : wf[w].status = "bootstrapping" =>
       \A e \in Epochs : Held(e) => alloc[e].source = "desktop_login"

(* One device reads the workspace, and it is the one that may write it: the *)
(* holder of a workspace lease has the only active cursor, at a revision    *)
(* that exists.  Drains and login leases move leases and leave the cursors  *)
(* alone.                                                                   *)
CursorFollowsLease ==
  /\ \A d \in Devices : cursors[d].status = "active" => cursors[d].revision <= Len(log)
  /\ \A e \in Epochs : Held(e) /\ InWorkspace(e) =>
       \A d \in Devices : cursors[d].status = "active" <=> d = lease[e].device

(* The epoch a bootstrapping workflow waits for is allocated to it alone and *)
(* neither burned nor activated; no other workflow names an epoch.          *)
PendingEpochs ==
  \A w \in Workflows :
    /\ wf[w].status = "bootstrapping" <=> wf[w].pending # 0
    /\ wf[w].pending # 0 => /\ alloc[wf[w].pending].status = "pending"
                            /\ alloc[wf[w].pending].workflow = w

(* Once pinned, the target of a bootstrap is the head of the workspace. *)
PinnedTarget ==
  \A w \in Workflows :
    /\ wf[w].status \in {"absent", "draining"} => boot[w].kind = "absent"
    /\ wf[w].status = "bootstrapping"
         => boot[w].kind \in {"absent", "pin_checkpoint"} \/ boot[w].target = Len(log)

(* No revision was accepted under an epoch that is still to come. *)
LogBelowCurrent ==
  \A i \in DOMAIN log : log[i] <= current

(* An epoch is used once: a released lease never comes back, a held one    *)
(* never changes hands, a burned or activated allocation stays so and the  *)
(* counters of device_account_states never go back.                        *)
EpochHistory ==
  [][/\ highest' >= highest
     /\ current' >= current
     /\ \A e \in Epochs :
          /\ lease[e].state = "released" => lease'[e] = lease[e]
          /\ Held(e) => lease'[e].state # "none" /\ lease'[e].device = lease[e].device
          /\ alloc[e].status \in {"burned", "activated"} => alloc'[e] = alloc[e]]_vars

(* After a drain no record reaches a sealed stream, late or repeated ones  *)
(* included, and no seal moves.                                            *)
SealIsFinal ==
  [][\A s \in Streams, e \in Epochs :
       seal[s][e] # Unsealed => /\ seal'[s][e] = seal[s][e]
                                /\ records'[s][e] = records[s][e]]_vars

(* The device a switch activates has rebuilt the workspace up to the very  *)
(* last revision: none was accepted between its pin and its activation.    *)
ActivatedAtHead ==
  [][\A w \in Workflows :
       wf[w].status = "bootstrapping" /\ wf'[w].status = "completed"
         => boot[w].target = Len(log)]_vars

(* A lease is only written under the security epoch in force: a login that *)
(* read its session before a password reset, or a switch opened before it, *)
(* gets none.                                                              *)
IssuedUnderCurrentSecurity ==
  [][\A e \in Epochs :
       Held(e)' /\ lease'[e] # lease[e]
         => /\ security.status = "normal"
            /\ lease'[e].security = security.epoch]_vars

(* The device control plane implements the abstract lease authority. *)
Holder == IF current \in Epochs /\ Held(current) THEN lease[current].device ELSE NoDevice

Authority == INSTANCE LeaseAuthority WITH holder <- Holder, epoch <- current, log <- log

(* Grants, renewals, drains, activations and accepted mutations are steps  *)
(* of the abstract authority or change nothing it shows.                   *)
ImplementsLeaseAuthority == Authority!Spec

(* No mutation of an earlier holder is ordered behind one of a later.       *)
FencedLog == Authority!Fenced

(* The invariant that every transaction preserves. *)
AuthorityInvariant ==
  /\ TypeOK
  /\ LeaseDiscipline
  /\ ReleasedIsSealed
  /\ SwitchIsolation
  /\ CursorFollowsLease
  /\ PendingEpochs
  /\ PinnedTarget
  /\ LogBelowCurrent
  /\ FencedLog

-----------------------------------------------------------------------------
(* What the documentation and the tests say and the code does not do.       *)

=============================================================================
