------------------------ MODULE DeviceAuthorityProofs ------------------------
(***************************************************************************)
(* Proofs about DeviceAuthority for any number of devices, workflows,      *)
(* epochs and records, and any durations.                                  *)
(***************************************************************************)
EXTENDS DeviceAuthority, TLAPS

-----------------------------------------------------------------------------
(* Type correctness.                                                       *)

\* The lease row the authority inserts for device d.
LEMMA IssuedLeaseType ==
  ASSUME TypeOK, NEW d \in Devices, NEW epoch \in Nat, NEW deadline \in Nat
  PROVE  /\ IssuedLease(d, epoch, deadline) \in Lease
         /\ IssuedLease(d, epoch, deadline).state = "held"
         /\ IssuedLease(d, epoch, deadline).device = d
         /\ IssuedLease(d, epoch, deadline).security = epoch
BY DurationsAssumption, BoundsAssumption DEF TypeOK, IssuedLease, Lease, Earlier, AnyDevice

\* The initial rows have their types.
LEMMA InitType == Init => TypeOK
<1> SUFFICES ASSUME Init PROVE TypeOK
  OBVIOUS
<1>z. 0 \in 0 .. MaxEpoch /\ 0 \in 0 .. MaxSequence /\ 1 \in 1 .. MaxSecurityEpoch
  BY BoundsAssumption
<1>1. /\ clock \in Nat /\ entitlement \in Nat
      /\ security \in [epoch : 1 .. MaxSecurityEpoch, status : {"normal", "recovery_pending"}]
      /\ highest \in 0 .. MaxEpoch /\ current \in 0 .. MaxEpoch
  BY <1>z DEF Init
<1>2. /\ loginView \in [Devices -> [deadline : Nat, security : Nat]]
      /\ slots \in [1 .. 2 -> AnyDevice]
      /\ cursors \in [Devices -> Cursor]
  BY DEF Init, NoView, Cursor, AnyDevice
<1>3. alloc \in [Epochs -> Allocation] /\ lease \in [Epochs -> Lease]
  BY DEF Init, NoLease, Lease, Allocation, AnyDevice, AnyWorkflow
<1>4. wf \in [Workflows -> Workflow] /\ cap \in [Workflows -> Capability]
  BY <1>z DEF Init, Workflow, Capability, AnyDevice
<1>5. boot \in [Workflows -> Bootstrap] /\ proof \in [Workflows -> Proof]
  BY <1>z DEF Init, Bootstrap, Proof, AnyDevice
<1>6. /\ records \in [Streams -> [Epochs -> SUBSET (1 .. MaxSequence)]]
      /\ seal \in [Streams -> [Epochs -> {Unsealed} \cup 0 .. MaxSequence]]
      /\ log \in Seq(Epochs)
  BY DEF Init
<1> QED
  BY <1>1, <1>2, <1>3, <1>4, <1>5, <1>6 DEF TypeOK

\* A workflow row whose status and pending epoch are updated.
LEMMA WorkflowRowType ==
  ASSUME NEW r \in Workflow,
         NEW status \in {"bootstrapping", "completed", "cancelled"},
         NEW pending \in 0 .. MaxEpoch
  PROVE  [r EXCEPT !.status = status, !.pending = pending] \in Workflow
BY Zenon DEF Workflow

\* Every operation of the authority writes rows of their types.
LEMMA TypeStep == TypeOK /\ [Next]_vars => TypeOK'
<1> SUFFICES ASSUME TypeOK, [Next]_vars
             PROVE  TypeOK'
  OBVIOUS
<1> USE DEF accountVars, epochVars, switchVars, ledgerVars
<1>h. highest \in 0 .. MaxEpoch /\ current \in 0 .. MaxEpoch /\ MaxEpoch \in Nat
  BY BoundsAssumption DEF TypeOK
<1>n. EpochAvailable => NextEpoch \in Epochs /\ NextEpoch \in 0 .. MaxEpoch
  BY <1>h DEF EpochAvailable, NextEpoch, Epochs
<1>z. 0 \in 0 .. MaxEpoch
  BY <1>h
<1>t. clock \in Nat /\ entitlement \in Nat
  BY DEF TypeOK
<1>s. security.epoch \in Nat
  BY BoundsAssumption DEF TypeOK
<1>a. alloc \in [Epochs -> Allocation]
  BY DEF TypeOK
<1>l. lease \in [Epochs -> Lease]
  BY DEF TypeOK
<1>w. wf \in [Workflows -> Workflow]
  BY DEF TypeOK
<1>c. cap \in [Workflows -> Capability]
  BY DEF TypeOK
<1>b. boot \in [Workflows -> Bootstrap]
  BY DEF TypeOK
<1>u. cursors \in [Devices -> Cursor]
  BY DEF TypeOK
<1>p. proof \in [Workflows -> Proof]
  BY DEF TypeOK
<1>v. loginView \in [Devices -> [deadline : Nat, security : Nat]] /\ NoView \in [deadline : Nat, security : Nat]
  BY DEF TypeOK, NoView
<1>r. records \in [Streams -> [Epochs -> SUBSET (1 .. MaxSequence)]]
  BY DEF TypeOK
<1>1. CASE UNCHANGED vars
  BY <1>1 DEF vars, TypeOK
<1>2. CASE Tick
  BY <1>2 DEF Tick, TypeOK
<1>3. ASSUME NEW status \in {"normal", "recovery_pending"}, AdvanceSecurityEpoch(status)
      PROVE  TypeOK'
  BY <1>3, BoundsAssumption DEF AdvanceSecurityEpoch, TypeOK
<1>4. ASSUME NEW deadline \in Deadlines, SetEntitlement(deadline)
      PROVE  TypeOK'
  BY <1>4, BoundsAssumption DEF SetEntitlement, TypeOK
<1>5. ASSUME NEW d \in Devices, Enroll(d)
      PROVE  TypeOK'
  BY <1>5 DEF Enroll, TypeOK, AnyDevice
<1>6. ASSUME NEW d \in Devices, ReadEntitlement(d)
      PROVE  TypeOK'
  BY <1>6, BoundsAssumption DEF ReadEntitlement, TypeOK
<1>7. ASSUME NEW d \in Devices, EndLogin(d)
      PROVE  TypeOK'
  BY <1>7 DEF EndLogin, TypeOK, NoView
<1>8. ASSUME NEW d \in Devices, GrantLoginLease(d)
      PROVE  TypeOK'
  <2>1. IssuedLease(d, loginView[d].security, loginView[d].deadline) \in Lease
    BY <1>v, IssuedLeaseType
  <2>2. lease' \in [Epochs -> Lease]
    BY <1>8, <1>n, <1>l, <2>1 DEF GrantLoginLease
  <2>3. alloc' \in [Epochs -> Allocation]
    BY <1>8, <1>n, <1>a DEF GrantLoginLease, Allocation, AnyWorkflow
  <2>4. loginView' \in [Devices -> [deadline : Nat, security : Nat]]
    BY <1>8, <1>v DEF GrantLoginLease
  <2>5. highest' \in 0 .. MaxEpoch /\ current' \in 0 .. MaxEpoch
    BY <1>8, <1>n DEF GrantLoginLease
  <2> QED
    BY <1>8, <2>2, <2>3, <2>4, <2>5 DEF GrantLoginLease, TypeOK
<1>9. ASSUME NEW d \in Devices, NEW e \in Epochs, RenewLoginLease(d, e)
      PROVE  TypeOK'
  <2>1. IssuedLease(d, loginView[d].security, loginView[d].deadline) \in Lease
    BY <1>v, IssuedLeaseType
  <2>2. lease' \in [Epochs -> Lease]
    BY <1>9, <1>l, <2>1 DEF RenewLoginLease
  <2>3. loginView' \in [Devices -> [deadline : Nat, security : Nat]]
    BY <1>9, <1>v DEF RenewLoginLease
  <2> QED
    BY <1>9, <2>2, <2>3 DEF RenewLoginLease, TypeOK
<1>10. ASSUME NEW w \in Workflows, NEW from \in Devices, NEW to \in Devices,
              NEW key \in Devices, OpenSwitch(w, from, to, key)
       PROVE  TypeOK'
  <2>1. [status |-> "draining", from |-> from, to |-> to, key |-> key,
         security |-> security.epoch, pending |-> 0,
         deadline |-> clock + WorkflowFor] \in Workflow
    BY <1>t, <1>h, BoundsAssumption, DurationsAssumption DEF Workflow, AnyDevice, TypeOK
  <2>2. wf' \in [Workflows -> Workflow]
    BY <1>10, <1>w, <2>1 DEF OpenSwitch, NewWorkflow
  <2> QED
    BY <1>10, <2>2 DEF OpenSwitch, TypeOK
<1>11. ASSUME NEW w \in Workflows, NEW to \in Devices, OpenFirstDevice(w, to)
       PROVE  TypeOK'
  <2>1. [status |-> "bootstrapping", from |-> NoDevice, to |-> to, key |-> to,
         security |-> security.epoch, pending |-> NextEpoch,
         deadline |-> clock + WorkflowFor] \in Workflow
    BY <1>11, <1>t, <1>n, BoundsAssumption, DurationsAssumption
       DEF OpenFirstDevice, Workflow, AnyDevice, TypeOK
  <2>2. wf' \in [Workflows -> Workflow]
    BY <1>11, <1>w, <2>1 DEF OpenFirstDevice, NewWorkflow
  <2>3. alloc' \in [Epochs -> Allocation] /\ highest' \in 0 .. MaxEpoch
    BY <1>11, <1>n, <1>a DEF OpenFirstDevice, Allocation, AnyWorkflow
  <2>4. cap' \in [Workflows -> Capability]
    BY <1>11, <1>t, <1>c, DurationsAssumption DEF OpenFirstDevice, Capability
  <2> QED
    BY <1>11, <2>2, <2>3, <2>4 DEF OpenFirstDevice, TypeOK
<1>12. ASSUME NEW w \in Workflows, ReadyCapability(w)
       PROVE  TypeOK'
  <2>1. cap' \in [Workflows -> Capability]
    BY <1>12, <1>c DEF ReadyCapability, Capability
  <2>2. boot' \in [Workflows -> Bootstrap]
    BY <1>12, <1>b DEF ReadyCapability, Bootstrap
  <2> QED
    BY <1>12, <2>1, <2>2 DEF ReadyCapability, TypeOK
<1>13. ASSUME NEW w \in Workflows, CancelWorkflow(w)
       PROVE  TypeOK'
  <2>1. wf' \in [Workflows -> Workflow]
    <3>1. [wf[w] EXCEPT !.status = "cancelled", !.pending = 0] \in Workflow
      BY Zenon, <1>w, <1>z, WorkflowRowType
    <3> QED
      BY <1>13, <1>w, <3>1 DEF CancelWorkflow
  <2>2. alloc' \in [Epochs -> Allocation]
    <3>1. \A e \in Epochs : [alloc[e] EXCEPT !.status = "burned"] \in Allocation
      BY <1>a DEF Allocation
    <3> QED
      BY <1>13, <1>a, <3>1 DEF CancelWorkflow
  <2> QED
    BY Zenon, <1>13, <2>1, <2>2 DEF CancelWorkflow, TypeOK
<1>14. ASSUME NEW w \in Workflows, NEW e \in Epochs,
              NEW heads \in [Streams -> 0 .. MaxSequence], IssueProof(w, e, heads)
       PROVE  TypeOK'
  <2>1. wf[w].from \in AnyDevice /\ e \in 0 .. MaxEpoch
    BY <1>w, <1>h DEF Workflow, Epochs
  <2>2. proof' \in [Workflows -> Proof]
    BY <1>14, <1>p, <1>t, <2>1, DurationsAssumption DEF IssueProof, Proof
  <2> QED
    BY <1>14, <2>2 DEF IssueProof, TypeOK
<1>15. ASSUME NEW w \in Workflows, CommitDrain(w)
       PROVE  TypeOK'
  <2>e. proof[w].epoch \in Epochs /\ NextEpoch \in Epochs /\ NextEpoch \in 0 .. MaxEpoch
    BY <1>15, <1>n DEF CommitDrain
  <2>1. proof' \in [Workflows -> Proof]
    BY <1>15, <1>p DEF CommitDrain, Proof
  <2>2. wf' \in [Workflows -> Workflow]
    <3>1. [wf[w] EXCEPT !.status = "bootstrapping", !.pending = NextEpoch] \in Workflow
      BY Zenon, <1>w, <2>e, WorkflowRowType
    <3> QED
      BY <1>15, <1>w, <3>1 DEF CommitDrain
  <2>3. seal' \in [Streams -> [Epochs -> {Unsealed} \cup 0 .. MaxSequence]]
    <3>1. proof[w].heads \in [Streams -> 0 .. MaxSequence]
      BY <1>p DEF Proof
    <3>2. seal \in [Streams -> [Epochs -> {Unsealed} \cup 0 .. MaxSequence]]
      BY DEF TypeOK
    <3> QED
      BY <1>15, <2>e, <3>1, <3>2 DEF CommitDrain
  <2>4. lease' \in [Epochs -> Lease]
    BY <1>15, <1>l, <2>e DEF CommitDrain, Lease
  <2>5. alloc' \in [Epochs -> Allocation] /\ highest' \in 0 .. MaxEpoch
    BY <1>15, <1>a, <2>e DEF CommitDrain, Allocation, AnyWorkflow
  <2>6. cap' \in [Workflows -> Capability]
    BY <1>15, <1>c, <1>t, DurationsAssumption DEF CommitDrain, Capability
  <2> QED
    BY <1>15, <2>1, <2>2, <2>3, <2>4, <2>5, <2>6 DEF CommitDrain, TypeOK
<1>16. ASSUME NEW w \in Workflows, NEW through \in 0 .. Len(log), PinCheckpoint(w, through)
       PROVE  TypeOK'
  <2>1. Len(log) \in Nat
    BY DEF TypeOK
  <2>2. Earlier(clock + PinFor, cap[w].expires) \in Nat
    BY <1>t, <1>c, DurationsAssumption DEF Earlier, Capability
  <2>3. boot' \in [Workflows -> Bootstrap]
    BY <1>16, <1>b, <2>1, <2>2 DEF PinCheckpoint, PinTarget, Bootstrap
  <2> QED
    BY <1>16, <2>3 DEF PinCheckpoint, TypeOK
<1>17. ASSUME NEW w \in Workflows, NEW through \in 0 .. Len(log), FetchMutations(w, through)
       PROVE  TypeOK'
  <2>1. through \in Nat
    OBVIOUS
  <2>2. boot' \in [Workflows -> Bootstrap]
    <3> DEFINE kind == IF through = boot[w].target THEN "submit_rebuild_digest"
                       ELSE "fetch_mutations"
    <3>1. [boot[w] EXCEPT !.from = through, !.kind = kind] \in Bootstrap
      BY Zenon, <1>b, <2>1 DEF Bootstrap
    <3> QED
      BY <1>17, <1>b, <3>1 DEF FetchMutations
  <2> QED
    BY <1>17, <2>2 DEF FetchMutations, TypeOK
<1>18. ASSUME NEW w \in Workflows, SubmitRebuildDigest(w)
       PROVE  TypeOK'
  <2>1. boot' \in [Workflows -> Bootstrap]
    BY <1>18, <1>b DEF SubmitRebuildDigest, Bootstrap
  <2> QED
    BY <1>18, <2>1 DEF SubmitRebuildDigest, TypeOK
<1>19. ASSUME NEW w \in Workflows, Activate(w)
       PROVE  TypeOK'
  <2>1. wf[w].to \in Devices /\ wf[w].pending \in Epochs /\ wf[w].pending \in 0 .. MaxEpoch
    BY <1>19, <1>h DEF Activate, Bound, TypeOK, AnyDevice, Epochs
  <2>2. IssuedLease(wf[w].to, security.epoch, entitlement) \in Lease
    BY <2>1, <1>t, <1>s, IssuedLeaseType
  <2>3. lease' \in [Epochs -> Lease]
    BY <1>19, <1>l, <2>1, <2>2 DEF Activate
  <2>4. wf' \in [Workflows -> Workflow]
    <3>1. [wf[w] EXCEPT !.status = "completed", !.pending = 0] \in Workflow
      BY Zenon, <1>w, <1>z, WorkflowRowType
    <3> QED
      BY <1>19, <1>w, <3>1 DEF Activate
  <2>5. cap' \in [Workflows -> Capability]
    BY <1>19, <1>c DEF Activate, Capability
  <2>6. alloc' \in [Epochs -> Allocation]
    BY <1>19, <1>a DEF Activate, Allocation
  <2>7. boot' \in [Workflows -> Bootstrap]
    BY <1>19, <1>b DEF Activate, Bootstrap
  <2>8. cursors' \in [Devices -> Cursor]
    <3>1. boot[w].target \in Nat
      BY <1>b DEF Bootstrap
    <3>2. cursors' = NextGeneration(wf[w].to, boot[w].target)
      BY <1>19 DEF Activate
    <3> QED
      BY <1>u, <3>1, <3>2 DEF NextGeneration, Cursor
  <2> QED
    BY <1>19, <2>1, <2>3, <2>4, <2>5, <2>6, <2>7, <2>8 DEF Activate, TypeOK
<1>20. ASSUME NEW d \in Devices, NEW e \in Epochs, NEW n \in 1 .. MaxSequence,
              AcceptMutation(d, e, n)
       PROVE  TypeOK'
  <2>1. records' \in [Streams -> [Epochs -> SUBSET (1 .. MaxSequence)]]
    BY <1>20, <1>r DEF AcceptMutation, Record, Streams
  <2>2. log' \in Seq(Epochs)
    BY <1>20 DEF AcceptMutation, TypeOK
  <2> QED
    BY <1>20, <2>1, <2>2 DEF AcceptMutation, TypeOK
<1>21. ASSUME NEW s \in Streams, NEW e \in Epochs, NEW n \in 1 .. MaxSequence,
              AppendRecord(s, e, n)
       PROVE  TypeOK'
  <2>1. records' \in [Streams -> [Epochs -> SUBSET (1 .. MaxSequence)]]
    BY <1>21, <1>r DEF AppendRecord, Record
  <2> QED
    BY Zenon, <1>21, <2>1 DEF AppendRecord, TypeOK
<1> QED
  BY <1>1, <1>2, <1>3, <1>4, <1>5, <1>6, <1>7, <1>8, <1>9, <1>10, <1>11, <1>12, <1>13,
     <1>14, <1>15, <1>16, <1>17, <1>18, <1>19, <1>20, <1>21
     DEF Next, AccountNext, SwitchNext, LedgerNext

(* Every row keeps the columns the schema gives it, whatever transactions  *)
(* commit and in whatever order.                                           *)
THEOREM TypeCorrect == Spec => []TypeOK
BY InitType, TypeStep, PTL DEF Spec

\* The two epoch counters are numbers.
LEMMA CounterTypes ==
  ASSUME TypeOK
  PROVE  highest \in Nat /\ current \in Nat /\ MaxEpoch \in Nat
BY BoundsAssumption DEF TypeOK

(* The next epoch has neither an allocation nor a lease. *)
LEMMA FreshEpoch ==
  ASSUME TypeOK, LeaseDiscipline, EpochAvailable
  PROVE  /\ NextEpoch \in Epochs /\ NextEpoch = highest + 1 /\ NextEpoch # 0
         /\ alloc[NextEpoch].status = "none" /\ lease[NextEpoch].state = "none"
<1>1. highest \in Nat /\ MaxEpoch \in Nat /\ highest < MaxEpoch
  BY BoundsAssumption DEF TypeOK, EpochAvailable
<1>2. /\ NextEpoch \in Epochs /\ NextEpoch = highest + 1 /\ NextEpoch # 0
      /\ ~(NextEpoch <= highest)
  BY <1>1 DEF NextEpoch, Epochs
<1>3. alloc[NextEpoch].status = "none"
  BY <1>2 DEF LeaseDiscipline
<1>4. lease[NextEpoch].state = "none"
  BY Zenon, <1>2, <1>3 DEF LeaseDiscipline
<1> QED
  BY <1>2, <1>3, <1>4

-----------------------------------------------------------------------------
(* Which transactions write what.                                          *)

(* Leases, allocations and the two counters are written by five            *)
(* transactions.                                                           *)
LEMMA EpochWriters ==
  ASSUME Next, ~UNCHANGED epochVars
  PROVE  \/ \E d \in Devices : GrantLoginLease(d)
         \/ \E d \in Devices, e \in Epochs : RenewLoginLease(d, e)
         \/ \E w \in Workflows, to \in Devices : OpenFirstDevice(w, to)
         \/ \E w \in Workflows : CancelWorkflow(w) \/ CommitDrain(w) \/ Activate(w)
BY Zenon DEF Next, AccountNext, SwitchNext, LedgerNext, epochVars, Tick, AdvanceSecurityEpoch,
       SetEntitlement, Enroll, ReadEntitlement, EndLogin, OpenSwitch, ReadyCapability,
       IssueProof, PinCheckpoint, FetchMutations, SubmitRebuildDigest, AcceptMutation,
       AppendRecord

(* Records, seals and the log are written by three. *)
LEMMA LedgerWriters ==
  ASSUME Next, ~UNCHANGED <<ledgerVars, log>>
  PROVE  \/ \E w \in Workflows : CommitDrain(w)
         \/ \E d \in Devices, e \in Epochs, n \in 1 .. MaxSequence : AcceptMutation(d, e, n)
         \/ \E s \in Streams, e \in Epochs, n \in 1 .. MaxSequence : AppendRecord(s, e, n)
<1>1. ~AccountNext
  BY DEF AccountNext, ledgerVars, Tick, AdvanceSecurityEpoch, SetEntitlement, Enroll,
         ReadEntitlement, EndLogin, GrantLoginLease, RenewLoginLease
<1>2. CASE SwitchNext
  <2>1. \A w \in Workflows, from, to, key \in Devices : ~OpenSwitch(w, from, to, key)
    BY DEF OpenSwitch, ledgerVars
  <2>2. \A w \in Workflows, to \in Devices : ~OpenFirstDevice(w, to)
    BY DEF OpenFirstDevice, ledgerVars
  <2>3. \A w \in Workflows : ~(ReadyCapability(w) \/ CancelWorkflow(w) \/ SubmitRebuildDigest(w))
    BY DEF ReadyCapability, CancelWorkflow, SubmitRebuildDigest, ledgerVars
  <2>4. \A w \in Workflows : ~Activate(w)
    BY DEF Activate, ledgerVars
  <2>5. \A w \in Workflows, e \in Epochs, heads \in [Streams -> 0 .. MaxSequence] :
          ~IssueProof(w, e, heads)
    BY DEF IssueProof, ledgerVars
  <2>6. \A w \in Workflows, through \in 0 .. Len(log) :
          ~(PinCheckpoint(w, through) \/ FetchMutations(w, through))
    BY DEF PinCheckpoint, FetchMutations, ledgerVars
  <2> QED
    BY <1>2, <2>1, <2>2, <2>3, <2>4, <2>5, <2>6 DEF SwitchNext
<1>3. CASE LedgerNext
  BY Zenon, <1>3 DEF LedgerNext
<1> QED
  BY <1>1, <1>2, <1>3 DEF Next

(* The rows of a switch are written by eight. *)
LEMMA SwitchWriters ==
  ASSUME Next, ~UNCHANGED <<wf, boot>>
  PROVE  \E w \in Workflows :
           \/ \E from, to, key \in Devices : OpenSwitch(w, from, to, key)
           \/ \E to \in Devices : OpenFirstDevice(w, to)
           \/ ReadyCapability(w)
           \/ CancelWorkflow(w)
           \/ CommitDrain(w)
           \/ \E through \in 0 .. Len(log) : PinCheckpoint(w, through) \/ FetchMutations(w, through)
           \/ SubmitRebuildDigest(w)
           \/ Activate(w)
BY Zenon DEF Next, AccountNext, SwitchNext, LedgerNext, switchVars, Tick, AdvanceSecurityEpoch,
       SetEntitlement, Enroll, ReadEntitlement, EndLogin, GrantLoginLease,
       RenewLoginLease, IssueProof, AcceptMutation, AppendRecord

-----------------------------------------------------------------------------
(* The invariant.                                                          *)

\* A new workspace satisfies the authority invariant.
LEMMA InitInvariant == Init => AuthorityInvariant
<1> SUFFICES ASSUME Init PROVE AuthorityInvariant
  OBVIOUS
<1>1. TypeOK
  BY InitType
<1>2. LeaseDiscipline
  <2>1. highest = 0 /\ current = 0
    BY Zenon DEF Init
  <2>2. \A e \in Epochs : lease[e].state = "none" /\ alloc[e].status = "none"
    BY DEF Init, NoLease
  <2>3. \A e \in Epochs : ~(e <= 0)
    BY BoundsAssumption DEF Epochs
  <2> QED
    BY <2>1, <2>2, <2>3 DEF LeaseDiscipline, Held
<1>r. ReleasedIsSealed
  BY Zenon DEF Init, ReleasedIsSealed, NoLease
<1>3. SwitchIsolation /\ PendingEpochs /\ PinnedTarget
  BY DEF Init, SwitchIsolation, PendingEpochs, PinnedTarget, Outstanding
<1>c. CursorFollowsLease
  <2>1. /\ \A d \in Devices : cursors[d].status # "active"
        /\ \A e \in Epochs : ~Held(e)
    BY DEF Init, NoLease, Held
  <2> QED
    BY Zenon, <2>1 DEF CursorFollowsLease
<1>4. LogBelowCurrent /\ FencedLog
  <2>1. DOMAIN log = {}
    BY DEF Init
  <2> QED
    BY Zenon, <2>1 DEF LogBelowCurrent, FencedLog, Authority!Fenced
<1> QED
  BY <1>1, <1>2, <1>r, <1>3, <1>c, <1>4 DEF AuthorityInvariant

\* The four tables stay in step: one held lease at most, that of the current epoch.
LEMMA DisciplineStep ==
  ASSUME AuthorityInvariant, Next
  PROVE  LeaseDiscipline'
<1> USE DEF AuthorityInvariant
<1>t. /\ highest \in Nat /\ current \in Nat /\ MaxEpoch \in Nat
      /\ lease \in [Epochs -> Lease] /\ alloc \in [Epochs -> Allocation]
  BY BoundsAssumption DEF TypeOK
<1>e. \A e \in Epochs : e \in Nat /\ e > 0
  BY <1>t DEF Epochs
<1>n. EpochAvailable => NextEpoch \in Epochs /\ NextEpoch = highest + 1
  BY FreshEpoch
<1>1. CASE UNCHANGED epochVars
  BY <1>1 DEF epochVars, LeaseDiscipline, Held
<1>2. ASSUME NEW d \in Devices, GrantLoginLease(d)
      PROVE  LeaseDiscipline'
  <2>1. IssuedLease(d, loginView[d].security, loginView[d].deadline).state = "held"
    BY DEF IssuedLease
  <2> QED
    BY <1>2, <1>t, <1>e, <1>n, <2>1 DEF GrantLoginLease, LeaseDiscipline, NoneHeld, Held
<1>3. ASSUME NEW d \in Devices, NEW e \in Epochs, RenewLoginLease(d, e)
      PROVE  LeaseDiscipline'
  <2>1. IssuedLease(d, loginView[d].security, loginView[d].deadline).state = "held"
    BY DEF IssuedLease
  <2> QED
    BY <1>3, <1>t, <2>1 DEF RenewLoginLease, LeaseDiscipline, Held
<1>4. ASSUME NEW w \in Workflows, NEW to \in Devices, OpenFirstDevice(w, to)
      PROVE  LeaseDiscipline'
  BY <1>4, <1>t, <1>e, <1>n DEF OpenFirstDevice, LeaseDiscipline, Held
<1>5. ASSUME NEW w \in Workflows, CancelWorkflow(w)
      PROVE  LeaseDiscipline'
  <2>1. \A e \in Epochs : e = wf[w].pending => alloc[e].status = "pending"
    BY <1>e DEF PendingEpochs
  <2> QED
    BY <1>5, <1>t, <1>e, <2>1 DEF CancelWorkflow, LeaseDiscipline, Held, Allocation
<1>6. ASSUME NEW w \in Workflows, CommitDrain(w)
      PROVE  LeaseDiscipline'
  <2> DEFINE p == proof[w].epoch
  <2>1. p \in Epochs /\ Held(p) /\ NextEpoch \in Epochs /\ NextEpoch = highest + 1
    BY <1>6, <1>n DEF CommitDrain, DomainActive
  <2>2. \A e \in Epochs : lease'[e].state = IF e = p THEN "released" ELSE lease[e].state
    BY <1>6, <1>t, <2>1 DEF CommitDrain, Lease
  <2>3. \A e \in Epochs : alloc'[e].status = IF e = NextEpoch THEN "pending" ELSE alloc[e].status
    BY <1>6, <1>t, <2>1 DEF CommitDrain
  <2>4. highest' = highest + 1 /\ current' = current
    BY <1>6, <2>1 DEF CommitDrain
  <2>5. ASSUME NEW e \in Epochs
        PROVE  /\ Held(e)' => e = current'
               /\ lease'[e].state # "none" <=> alloc'[e].status = "activated"
               /\ alloc'[e].status = "activated" => e <= current'
               /\ alloc'[e].status # "none" <=> e <= highest'
    <3>1. /\ Held(e) => e = current
          /\ lease[e].state # "none" <=> alloc[e].status = "activated"
          /\ alloc[e].status = "activated" => e <= current
          /\ alloc[e].status # "none" <=> e <= highest
      BY DEF LeaseDiscipline
    <3>2. e <= highest' <=> (e <= highest \/ e = NextEpoch)
      BY <1>t, <1>e, <2>1, <2>4
    <3>3. CASE e = NextEpoch
      BY <1>t, <1>e, <2>1, <2>2, <2>3, <2>4, <3>1, <3>2, <3>3 DEF Held
    <3>4. CASE e # NextEpoch
      BY <1>t, <1>e, <2>1, <2>2, <2>3, <2>4, <3>1, <3>2, <3>4 DEF Held
    <3> QED
      BY <3>3, <3>4
  <2>6. current' <= highest'
    BY <1>t, <2>4 DEF LeaseDiscipline
  <2> QED
    BY <2>5, <2>6 DEF LeaseDiscipline
<1>7. ASSUME NEW w \in Workflows, Activate(w)
      PROVE  LeaseDiscipline'
  <2>1. IssuedLease(wf[w].to, security.epoch, entitlement).state = "held"
    BY Zenon DEF IssuedLease
  <2> QED
    BY <1>7, <1>t, <1>e, <2>1
       DEF Activate, LeaseDiscipline, NoneHeld, Held, Allocation
<1> QED
  BY <1>1, <1>2, <1>3, <1>4, <1>5, <1>6, <1>7, EpochWriters

(* What the two kinds of lease write leave in the lease table. *)
LEMMA LeaseChanges ==
  ASSUME AuthorityInvariant, Next, NEW e \in Epochs, lease'[e] # lease[e]
  PROVE  \/ lease'[e].state = "held" /\ lease[e].state # "released"
         \/ \E w \in Workflows : CommitDrain(w) /\ e = proof[w].epoch
<1> USE DEF AuthorityInvariant
<1>t. /\ highest \in Nat /\ current \in Nat /\ MaxEpoch \in Nat
      /\ lease \in [Epochs -> Lease] /\ alloc \in [Epochs -> Allocation]
  BY BoundsAssumption DEF TypeOK
<1>e. \A f \in Epochs : f \in Nat /\ f > 0
  BY <1>t DEF Epochs
<1>n. EpochAvailable => NextEpoch \in Epochs /\ NextEpoch = highest + 1
  BY FreshEpoch
<1>1. ASSUME NEW d \in Devices, GrantLoginLease(d)
      PROVE  lease'[e].state = "held" /\ lease[e].state # "released"
  <2>1. IssuedLease(d, loginView[d].security, loginView[d].deadline).state = "held"
    BY Zenon DEF IssuedLease
  <2> QED
    BY <1>1, <1>t, <1>e, <1>n, <2>1 DEF GrantLoginLease, LeaseDiscipline
<1>2. ASSUME NEW d \in Devices, NEW f \in Epochs, RenewLoginLease(d, f)
      PROVE  lease'[e].state = "held" /\ lease[e].state # "released"
  <2>1. IssuedLease(d, loginView[d].security, loginView[d].deadline).state = "held"
    BY DEF IssuedLease
  <2> QED
    BY Zenon, <1>2, <1>t, <2>1 DEF RenewLoginLease, Held
<1>3. ASSUME NEW w \in Workflows, CommitDrain(w)
      PROVE  e = proof[w].epoch
  BY <1>3, <1>t DEF CommitDrain
<1>4. ASSUME NEW w \in Workflows, Activate(w)
      PROVE  lease'[e].state = "held" /\ lease[e].state # "released"
  <2>1. IssuedLease(wf[w].to, security.epoch, entitlement).state = "held"
    BY DEF IssuedLease
  <2> QED
    BY <1>4, <1>t, <1>e, <2>1 DEF Activate, LeaseDiscipline
<1>5. ~UNCHANGED epochVars
  BY DEF epochVars
<1> QED
  BY Zenon, <1>1, <1>2, <1>3, <1>4, <1>5, EpochWriters DEF OpenFirstDevice, CancelWorkflow

\* A released lease is sealed, and stays sealed, at the heads of its streams.
LEMMA SealedStep ==
  ASSUME AuthorityInvariant, Next
  PROVE  ReleasedIsSealed'
<1> USE DEF AuthorityInvariant
<1>t. /\ lease \in [Epochs -> Lease]
      /\ seal \in [Streams -> [Epochs -> {Unsealed} \cup 0 .. MaxSequence]]
      /\ records \in [Streams -> [Epochs -> SUBSET (1 .. MaxSequence)]]
      /\ proof \in [Workflows -> Proof]
      /\ MaxSequence \in Nat
  BY BoundsAssumption DEF TypeOK
<1> SUFFICES ASSUME NEW e \in Epochs, NEW s \in Streams, lease'[e].state = "released"
             PROVE  seal'[s][e] # Unsealed /\ records'[s][e] = 1 .. seal'[s][e]
  BY DEF ReleasedIsSealed
<1>1. ASSUME NEW w \in Workflows, CommitDrain(w), e = proof[w].epoch
      PROVE  seal'[s][e] # Unsealed /\ records'[s][e] = 1 .. seal'[s][e]
  <2>1. seal'[s][e] = proof[w].heads[s] /\ records' = records
    BY <1>1, <1>t DEF CommitDrain
  <2>2. records[s][e] = 1 .. proof[w].heads[s]
    BY <1>1 DEF CommitDrain, SealAccepted
  <2>3. proof[w].heads[s] \in 0 .. MaxSequence
    BY Zenon, <1>t DEF Proof
  <2> QED
    BY <2>1, <2>2, <2>3, <1>t DEF Unsealed
<1>2. CASE lease[e].state = "released"
  <2>1. seal[s][e] # Unsealed /\ records[s][e] = 1 .. seal[s][e]
    BY Zenon, <1>2 DEF ReleasedIsSealed
  <2>2. CASE UNCHANGED <<ledgerVars, log>>
    BY <2>1, <2>2 DEF ledgerVars
  <2>3. ASSUME NEW w \in Workflows, CommitDrain(w), e # proof[w].epoch
        PROVE  seal'[s][e] = seal[s][e] /\ records' = records
    BY Zenon, <2>3, <1>t DEF CommitDrain
  <2>4. ASSUME NEW d \in Devices, NEW f \in Epochs, NEW n \in 1 .. MaxSequence,
               AcceptMutation(d, f, n)
        PROVE  seal' = seal /\ records'[s][e] = records[s][e]
    BY Zenon, <2>4, <2>1, <1>t DEF AcceptMutation, Record, StreamOpen, Streams
  <2>5. ASSUME NEW r \in Streams, NEW f \in Epochs, NEW n \in 1 .. MaxSequence,
               AppendRecord(r, f, n)
        PROVE  seal' = seal /\ records'[s][e] = records[s][e]
    BY Zenon, <2>5, <2>1, <1>t DEF AppendRecord, Record, StreamOpen
  <2> QED
    BY Zenon, <1>1, <2>1, <2>2, <2>3, <2>4, <2>5, LedgerWriters
<1>3. CASE lease[e].state # "released"
  <2>1. \E w \in Workflows : CommitDrain(w) /\ e = proof[w].epoch
    BY Zenon, <1>3, LeaseChanges
  <2> QED
    BY <1>1, <2>1
<1> QED
  BY <1>2, <1>3

\* The log stays in the order of the epochs, none above the current one.
LEMMA LogStep ==
  ASSUME AuthorityInvariant, Next
  PROVE  LogBelowCurrent' /\ FencedLog'
<1> USE DEF AuthorityInvariant
<1>t. current \in Nat /\ log \in Seq(Epochs) /\ \A e \in Epochs : e \in Nat
  BY BoundsAssumption DEF TypeOK, Epochs
<1>c. current' \in Nat /\ current' >= current
  <2>1. CASE UNCHANGED epochVars
    BY <2>1, <1>t DEF epochVars
  <2>2. ASSUME NEW d \in Devices, GrantLoginLease(d)
        PROVE  current' \in Nat /\ current' >= current
    BY <2>2 DEF GrantLoginLease, NextEpoch, TypeOK
  <2>3. ASSUME NEW w \in Workflows, Activate(w)
        PROVE  current' \in Nat /\ current' >= current
    BY <2>3, <1>t DEF Activate
  <2>4. ASSUME NEW d \in Devices, NEW e \in Epochs, RenewLoginLease(d, e)
        PROVE  current' = current
    BY Zenon, <2>4 DEF RenewLoginLease
  <2>5. ASSUME NEW w \in Workflows, NEW to \in Devices, OpenFirstDevice(w, to)
        PROVE  current' = current
    BY <2>5 DEF OpenFirstDevice
  <2>6. ASSUME NEW w \in Workflows, CancelWorkflow(w) \/ CommitDrain(w)
        PROVE  current' = current
    BY <2>6 DEF CancelWorkflow, CommitDrain
  <2> QED
    BY <2>1, <2>2, <2>3, <2>4, <2>5, <2>6, <1>t, EpochWriters
<1>1. CASE log' = log
  BY <1>1, <1>t, <1>c DEF LogBelowCurrent, FencedLog, Authority!Fenced
<1>2. ASSUME NEW d \in Devices, NEW e \in Epochs, NEW n \in 1 .. MaxSequence,
             AcceptMutation(d, e, n)
      PROVE  LogBelowCurrent' /\ FencedLog'
  <2>1. log' = Append(log, e) /\ e = current /\ current' = current
    BY <1>2 DEF AcceptMutation, DomainActive, LeaseDiscipline, epochVars
  <2>2. \A i \in DOMAIN log' : log'[i] = IF i = Len(log) + 1 THEN e ELSE log[i]
    BY <2>1, <1>t
  <2>3. \A i \in DOMAIN log' : i \in DOMAIN log \/ i = Len(log) + 1
    BY <2>1, <1>t
  <2>4. \A i \in DOMAIN log : log[i] \in Nat /\ log[i] <= current /\ i < Len(log) + 1
    BY <1>t DEF LogBelowCurrent
  <2>5. LogBelowCurrent'
    BY <2>1, <2>2, <2>3, <2>4, <1>t DEF LogBelowCurrent
  <2>6. ASSUME NEW i \in DOMAIN log', NEW j \in DOMAIN log', i <= j
        PROVE  log'[i] <= log'[j]
    <3>1. CASE j = Len(log) + 1
      BY <2>1, <2>2, <2>3, <2>4, <3>1, <1>t
    <3>2. CASE j \in DOMAIN log
      <4>1. i \in DOMAIN log
        BY <2>1, <2>3, <2>4, <2>6, <3>2, <1>t
      <4> QED
        BY <2>2, <2>4, <2>6, <3>2, <4>1, <1>t DEF FencedLog, Authority!Fenced
    <3> QED
      BY <2>3, <3>1, <3>2
  <2> QED
    BY <2>5, <2>6 DEF FencedLog, Authority!Fenced
<1> QED
  BY Zenon, <1>1, <1>2, LedgerWriters DEF ledgerVars, CommitDrain, AppendRecord

\* The epoch a bootstrapping workflow waits for stays allocated to it.
LEMMA PendingStep ==
  ASSUME AuthorityInvariant, Next
  PROVE  PendingEpochs'
<1> USE DEF AuthorityInvariant
<1>t. /\ highest \in Nat /\ MaxEpoch \in Nat
      /\ alloc \in [Epochs -> Allocation] /\ wf \in [Workflows -> Workflow]
      /\ \A v \in Workflows : wf[v].pending # 0 => wf[v].pending \in Epochs
  BY BoundsAssumption DEF TypeOK, Workflow, Epochs
<1>n. EpochAvailable => NextEpoch \in Epochs /\ NextEpoch = highest + 1 /\ NextEpoch # 0
  BY FreshEpoch
<1>f. EpochAvailable => alloc[NextEpoch].status = "none"
  BY Zenon, FreshEpoch
<1> SUFFICES ASSUME NEW v \in Workflows
             PROVE  /\ wf'[v].status = "bootstrapping" <=> wf'[v].pending # 0
                    /\ wf'[v].pending # 0 => /\ alloc'[wf'[v].pending].status = "pending"
                                             /\ alloc'[wf'[v].pending].workflow = v
  BY Zenon DEF PendingEpochs
<1> USE DEF PendingEpochs
<1>2. ASSUME NEW d \in Devices, GrantLoginLease(d)
      PROVE  wf' = wf /\ \A e \in Epochs : alloc[e].status = "pending" => alloc'[e] = alloc[e]
  BY <1>2, <1>t, <1>n, <1>f DEF GrantLoginLease, switchVars
<1>3. ASSUME NEW w \in Workflows, NEW from \in Devices, NEW to \in Devices,
             NEW key \in Devices, OpenSwitch(w, from, to, key)
      PROVE  /\ alloc' = alloc
             /\ wf'[v] = wf[v] \/ (wf'[v].pending = 0 /\ wf'[v].status = "draining")
  <2>1. alloc' = alloc
    BY <1>3 DEF OpenSwitch, epochVars
  <2>2. CASE v = w
    BY <1>3, <1>t, <2>1, <2>2 DEF OpenSwitch, NewWorkflow
  <2>3. CASE v # w
    BY <1>3, <1>t, <2>1, <2>3 DEF OpenSwitch, NewWorkflow
  <2> QED
    BY Zenon, <2>2, <2>3
<1>4. ASSUME NEW w \in Workflows, NEW to \in Devices, OpenFirstDevice(w, to)
      PROVE  PendingEpochs'
  <2> DEFINE row == [status |-> "bootstrapping", from |-> NoDevice, to |-> to, key |-> to,
                     security |-> security.epoch, pending |-> NextEpoch,
                     deadline |-> clock + WorkflowFor]
  <2>r. row.pending = NextEpoch /\ row.status = "bootstrapping"
    OBVIOUS
  <2>f. DOMAIN wf = Workflows
    BY Zenon, <1>t
  <2>e. wf' = [wf EXCEPT ![w] = row]
    BY Zenon, <1>4 DEF OpenFirstDevice, NewWorkflow
  <2> HIDE DEF row
  <2>1. \A u \in Workflows : u # w => wf'[u] = wf[u]
    BY Zenon, <2>f, <2>e
  <2>2. wf'[w].pending = NextEpoch /\ wf'[w].status = "bootstrapping"
    BY Zenon, <2>r, <2>f, <2>e
  <2>3. EpochAvailable /\ alloc' = [alloc EXCEPT ![NextEpoch] =
             [status |-> "pending", source |-> "device_switch", workflow |-> w]]
    BY <1>4 DEF OpenFirstDevice
  <2>4. \A e \in Epochs : alloc[e].status = "pending" => alloc'[e] = alloc[e]
    BY <2>3, <1>t, <1>n, <1>f
  <2>5. alloc'[NextEpoch].status = "pending" /\ alloc'[NextEpoch].workflow = w
    BY <2>3, <1>t, <1>n
  <2>6. NextEpoch # 0
    BY <2>3, <1>n
  <2>7. ASSUME NEW u \in Workflows
        PROVE  /\ wf'[u].status = "bootstrapping" <=> wf'[u].pending # 0
               /\ wf'[u].pending # 0 => /\ alloc'[wf'[u].pending].status = "pending"
                                        /\ alloc'[wf'[u].pending].workflow = u
    <3>1. CASE u = w
      BY Zenon, <2>2, <2>5, <2>6, <3>1
    <3>2. CASE u # w
      BY <2>1, <2>4, <3>2, <1>t
    <3> QED
      BY Zenon, <3>1, <3>2
  <2> QED
    BY Zenon, <2>7
<1>5. ASSUME NEW w \in Workflows, CancelWorkflow(w)
      PROVE  PendingEpochs'
  <2>1. \A u \in Workflows : u # w => wf'[u] = wf[u]
    BY <1>5, <1>t DEF CancelWorkflow
  <2>2. wf'[w].pending = 0 /\ wf'[w].status = "cancelled"
    BY <1>5, <1>t DEF CancelWorkflow, Workflow
  <2>3. \A e \in Epochs : e # wf[w].pending => alloc'[e] = alloc[e]
    BY <1>5, <1>t DEF CancelWorkflow
  <2>4. \A u \in Workflows : u # w /\ wf[u].pending # 0 => wf[u].pending # wf[w].pending
    BY <1>t
  <2>7. ASSUME NEW u \in Workflows
        PROVE  /\ wf'[u].status = "bootstrapping" <=> wf'[u].pending # 0
               /\ wf'[u].pending # 0 => /\ alloc'[wf'[u].pending].status = "pending"
                                        /\ alloc'[wf'[u].pending].workflow = u
    <3>1. CASE u = w
      BY Zenon, <2>2, <3>1
    <3>2. CASE u # w
      BY <2>1, <2>3, <2>4, <3>2, <1>t
    <3> QED
      BY Zenon, <3>1, <3>2
  <2> QED
    BY <2>7
<1>6. ASSUME NEW w \in Workflows, CommitDrain(w)
      PROVE  PendingEpochs'
  <2>1. \A u \in Workflows : u # w => wf'[u] = wf[u]
    BY <1>6, <1>t DEF CommitDrain
  <2>2. wf'[w].pending = NextEpoch /\ wf'[w].status = "bootstrapping"
    BY <1>6, <1>t DEF CommitDrain, Workflow
  <2>3. EpochAvailable /\ alloc' = [alloc EXCEPT ![NextEpoch] =
             [status |-> "pending", source |-> "device_switch", workflow |-> w]]
    BY <1>6 DEF CommitDrain
  <2>4. \A e \in Epochs : alloc[e].status = "pending" => alloc'[e] = alloc[e]
    BY <2>3, <1>t, <1>n, <1>f
  <2>5. alloc'[NextEpoch].status = "pending" /\ alloc'[NextEpoch].workflow = w
    BY Zenon, <2>3, <1>t, <1>n
  <2>6. NextEpoch # 0
    BY Zenon, <2>3, <1>n
  <2>7. ASSUME NEW u \in Workflows
        PROVE  /\ wf'[u].status = "bootstrapping" <=> wf'[u].pending # 0
               /\ wf'[u].pending # 0 => /\ alloc'[wf'[u].pending].status = "pending"
                                        /\ alloc'[wf'[u].pending].workflow = u
    <3>1. CASE u = w
      BY Zenon, <2>2, <2>5, <2>6, <3>1
    <3>2. CASE u # w
      BY <2>1, <2>4, <3>2, <1>t
    <3> QED
      BY <3>1, <3>2
  <2> QED
    BY <2>7
<1>7. ASSUME NEW w \in Workflows, Activate(w)
      PROVE  PendingEpochs'
  <2>1. \A u \in Workflows : u # w => wf'[u] = wf[u]
    BY <1>7, <1>t DEF Activate
  <2>2. wf'[w].pending = 0 /\ wf'[w].status = "completed"
    BY <1>7, <1>t DEF Activate, Workflow
  <2>3. \A e \in Epochs : e # wf[w].pending => alloc'[e] = alloc[e]
    BY <1>7, <1>t DEF Activate
  <2>4. \A u \in Workflows : u # w /\ wf[u].pending # 0 => wf[u].pending # wf[w].pending
    BY <1>7, <1>t DEF Activate
  <2>7. ASSUME NEW u \in Workflows
        PROVE  /\ wf'[u].status = "bootstrapping" <=> wf'[u].pending # 0
               /\ wf'[u].pending # 0 => /\ alloc'[wf'[u].pending].status = "pending"
                                        /\ alloc'[wf'[u].pending].workflow = u
    <3>1. CASE u = w
      BY Zenon, <2>2, <3>1
    <3>2. CASE u # w
      BY <2>1, <2>3, <2>4, <3>2, <1>t
    <3> QED
      BY <3>1, <3>2
  <2> QED
    BY <2>7
<1>8. CASE UNCHANGED <<wf, alloc>>
  BY Zenon, <1>8
<1>9. \/ UNCHANGED <<wf, alloc>>
      \/ \E d \in Devices : GrantLoginLease(d)
      \/ \E w \in Workflows :
           \/ \E from, to, key \in Devices : OpenSwitch(w, from, to, key)
           \/ \E to \in Devices : OpenFirstDevice(w, to)
           \/ CancelWorkflow(w) \/ CommitDrain(w) \/ Activate(w)
  <2>1. CASE ~UNCHANGED epochVars
    BY Zenon, <2>1, EpochWriters DEF RenewLoginLease, switchVars
  <2>2. CASE UNCHANGED epochVars /\ ~UNCHANGED <<wf, boot>>
    BY Zenon, <2>2, SwitchWriters
       DEF epochVars, ReadyCapability, PinCheckpoint, FetchMutations, SubmitRebuildDigest
  <2>3. CASE UNCHANGED epochVars /\ UNCHANGED <<wf, boot>>
    BY Zenon, <2>3 DEF epochVars
  <2> QED
    BY Zenon, <2>1, <2>2, <2>3
<1>10. CASE \E d \in Devices : GrantLoginLease(d)
  BY <1>10, <1>2, <1>t
<1>11. CASE \E w \in Workflows, from, to, key \in Devices : OpenSwitch(w, from, to, key)
  BY <1>11, <1>3
<1>12. CASE PendingEpochs'
  BY <1>12
<1> QED
  BY Zenon, <1>4, <1>5, <1>6, <1>7, <1>8, <1>9, <1>10, <1>11, <1>12

\* While a switch bootstraps, nobody else can move the workspace head.
LEMMA IsolationStep ==
  ASSUME AuthorityInvariant, Next
  PROVE  SwitchIsolation'
<1> USE DEF AuthorityInvariant
<1>t. /\ wf \in [Workflows -> Workflow]
      /\ lease \in [Epochs -> Lease] /\ alloc \in [Epochs -> Allocation]
      /\ highest \in Nat /\ MaxEpoch \in Nat /\ \A e \in Epochs : e \in Nat
  BY BoundsAssumption DEF TypeOK, Epochs
<1>n. EpochAvailable => NextEpoch \in Epochs /\ NextEpoch = highest + 1
  BY FreshEpoch
<1>f. EpochAvailable => lease[NextEpoch].state = "none"
  BY Zenon, FreshEpoch
(* A transaction that leaves the status of the workflows and grants no      *)
(* switch lease keeps the switch isolated.                                  *)
<1>k. ASSUME \A w \in Workflows : wf'[w].status = wf[w].status,
             \A e \in Epochs : lease'[e].state = "held" =>
               \/ lease[e].state = "held" /\ alloc'[e].source = alloc[e].source
               \/ alloc'[e].source = "desktop_login"
      PROVE  SwitchIsolation'
  BY Zenon, <1>k DEF SwitchIsolation, Outstanding, Held
<1>1. CASE UNCHANGED <<wf, lease, alloc>>
  BY <1>1 DEF SwitchIsolation, Outstanding, Held
<1>2. ASSUME NEW d \in Devices, GrantLoginLease(d)
      PROVE  SwitchIsolation'
  <2>1. wf' = wf
    BY Zenon, <1>2 DEF GrantLoginLease, switchVars
  <2>2. \A e \in Epochs : IF e = NextEpoch
                          THEN alloc'[e].source = "desktop_login"
                          ELSE alloc'[e] = alloc[e] /\ lease'[e] = lease[e]
    BY Zenon, <1>2, <1>t, <1>n DEF GrantLoginLease
  <2> QED
    BY <1>k, <2>1, <2>2
<1>3. ASSUME NEW d \in Devices, NEW e \in Epochs, RenewLoginLease(d, e)
      PROVE  SwitchIsolation'
  <2>1. wf' = wf /\ alloc' = alloc
    BY Zenon, <1>3 DEF RenewLoginLease, switchVars
  <2>2. \A f \in Epochs : f # e => lease'[f] = lease[f]
    BY Zenon, <1>3, <1>t DEF RenewLoginLease
  <2>3. lease[e].state = "held"
    BY Zenon, <1>3 DEF RenewLoginLease, Held
  <2> QED
    BY Zenon, <1>k, <2>1, <2>2, <2>3
<1>4. ASSUME NEW w \in Workflows, NEW from \in Devices, NEW to \in Devices,
             NEW key \in Devices, OpenSwitch(w, from, to, key)
      PROVE  SwitchIsolation'
  <2>1. UNCHANGED <<lease, alloc>> /\ \A v \in Workflows : ~Outstanding(v)
    BY Zenon, <1>4 DEF OpenSwitch, NewWorkflow, epochVars
  <2>2. wf'[w].status = "draining" /\ \A v \in Workflows : v # w => wf'[v] = wf[v]
    BY Zenon, <1>4, <1>t DEF OpenSwitch, NewWorkflow
  <2> QED
    BY Zenon, <2>1, <2>2 DEF SwitchIsolation, Outstanding
<1>5. ASSUME NEW w \in Workflows, NEW to \in Devices, OpenFirstDevice(w, to)
      PROVE  SwitchIsolation'
  <2>1. lease' = lease /\ NoneHeld /\ \A v \in Workflows : ~Outstanding(v)
    BY Zenon, <1>5 DEF OpenFirstDevice, NewWorkflow
  <2>2. \A v \in Workflows : v # w => wf'[v] = wf[v]
    BY <1>5, <1>t DEF OpenFirstDevice, NewWorkflow
  <2> QED
    BY Zenon, <2>1, <2>2 DEF SwitchIsolation, Outstanding, NoneHeld, Held
<1>6. ASSUME NEW w \in Workflows, CancelWorkflow(w)
      PROVE  SwitchIsolation'
  <2>1. lease' = lease /\ \A e \in Epochs : alloc'[e].source = alloc[e].source
    BY <1>6, <1>t DEF CancelWorkflow, Allocation
  <2>2. /\ wf'[w].status = "cancelled"
        /\ \A v \in Workflows : v # w => wf'[v] = wf[v]
    BY <1>6, <1>t DEF CancelWorkflow, Workflow
  <2> QED
    BY <2>1, <2>2 DEF SwitchIsolation, Outstanding, Held
<1>7. ASSUME NEW w \in Workflows, CommitDrain(w)
      PROVE  SwitchIsolation'
  <2>1. \A e \in Epochs : lease'[e].state # "held"
    <3>1. proof[w].epoch \in Epochs /\ Held(proof[w].epoch)
      BY <1>7 DEF CommitDrain, DomainActive
    <3>2. \A e \in Epochs : e # proof[w].epoch => lease[e].state # "held"
      BY <3>1 DEF LeaseDiscipline, Held
    <3> QED
      BY <1>7, <1>t, <3>1, <3>2 DEF CommitDrain, Lease
  <2>2. /\ wf[w].status = "draining" /\ wf'[w].status = "bootstrapping"
        /\ \A v \in Workflows : v # w => wf'[v] = wf[v]
    BY <1>7, <1>t DEF CommitDrain, Workflow
  <2> QED
    BY <2>1, <2>2 DEF SwitchIsolation, Outstanding, Held
<1>8. ASSUME NEW w \in Workflows, Activate(w)
      PROVE  SwitchIsolation'
  <2>1. /\ wf[w].status = "bootstrapping" /\ wf'[w].status = "completed"
        /\ \A v \in Workflows : v # w => wf'[v] = wf[v]
    BY <1>8, <1>t DEF Activate, Workflow
  <2>2. \A v \in Workflows : wf'[v].status # "bootstrapping" /\ wf'[v].status # "draining"
    BY Zenon, <2>1 DEF SwitchIsolation, Outstanding
  <2> QED
    BY <2>2 DEF SwitchIsolation, Outstanding
<1>9. ASSUME NEW w \in Workflows,
             \/ ReadyCapability(w)
             \/ \E through \in 0 .. Len(log) : PinCheckpoint(w, through) \/ FetchMutations(w, through)
             \/ SubmitRebuildDigest(w)
      PROVE  UNCHANGED <<wf, lease, alloc>>
  BY Zenon, <1>9 DEF ReadyCapability, PinCheckpoint, FetchMutations, SubmitRebuildDigest, epochVars
<1>10. CASE UNCHANGED <<wf, boot>> /\ UNCHANGED epochVars
  BY <1>1, <1>10 DEF epochVars
<1> QED
  BY <1>1, <1>2, <1>3, <1>4, <1>5, <1>6, <1>7, <1>8, <1>9, <1>10, EpochWriters, SwitchWriters

\* The target of a bootstrap stays the head of the workspace.
LEMMA PinnedStep ==
  ASSUME AuthorityInvariant, Next
  PROVE  PinnedTarget'
<1> USE DEF AuthorityInvariant
<1>t. /\ wf \in [Workflows -> Workflow] /\ boot \in [Workflows -> Bootstrap]
      /\ log \in Seq(Epochs)
  BY Zenon DEF TypeOK
<1> SUFFICES ASSUME NEW v \in Workflows
             PROVE  /\ wf'[v].status \in {"absent", "draining"} => boot'[v].kind = "absent"
                    /\ wf'[v].status = "bootstrapping"
                         => \/ boot'[v].kind \in {"absent", "pin_checkpoint"}
                            \/ boot'[v].target = Len(log')
  BY DEF PinnedTarget
<1>i. /\ wf[v].status \in {"absent", "draining"} => boot[v].kind = "absent"
      /\ wf[v].status = "bootstrapping"
           => boot[v].kind \in {"absent", "pin_checkpoint"} \/ boot[v].target = Len(log)
  BY DEF PinnedTarget
<1>1. CASE wf'[v] = wf[v] /\ boot'[v] = boot[v] /\ log' = log
  BY Zenon, <1>1, <1>i
<1>2. ASSUME NEW d \in Devices, NEW e \in Epochs, NEW n \in 1 .. MaxSequence,
             AcceptMutation(d, e, n)
      PROVE  wf' = wf /\ boot' = boot /\ wf[v].status # "bootstrapping"
  <2>1. Held(e) /\ alloc[e].source = "device_switch"
    BY Zenon, <1>2 DEF AcceptMutation, DomainActive, InWorkspace
  <2> QED
    BY Zenon, <1>2, <2>1 DEF AcceptMutation, switchVars, SwitchIsolation
<1>3. ASSUME NEW w \in Workflows, NEW from \in Devices, NEW to \in Devices,
             NEW key \in Devices, OpenSwitch(w, from, to, key)
      PROVE  /\ boot' = boot /\ log' = log
             /\ wf'[v] = wf[v] \/ (wf[v].status = "absent" /\ wf'[v].status = "draining")
  <2>1. boot' = boot /\ log' = log
    BY <1>3 DEF OpenSwitch
  <2>2. CASE v = w
    BY <1>3, <1>t, <2>1, <2>2 DEF OpenSwitch, NewWorkflow
  <2>3. CASE v # w
    BY Zenon, <1>3, <1>t, <2>1, <2>3 DEF OpenSwitch, NewWorkflow
  <2> QED
    BY <2>2, <2>3
<1>4. ASSUME NEW w \in Workflows, NEW to \in Devices, OpenFirstDevice(w, to)
      PROVE  /\ boot' = boot /\ log' = log
             /\ wf'[v] = wf[v] \/ (wf[v].status = "absent" /\ wf'[v].status = "bootstrapping")
  <2>1. boot' = boot /\ log' = log
    BY Zenon, <1>4 DEF OpenFirstDevice
  <2>2. CASE v = w
    BY Zenon, <1>4, <1>t, <2>1, <2>2 DEF OpenFirstDevice, NewWorkflow
  <2>3. CASE v # w
    BY <1>4, <1>t, <2>1, <2>3 DEF OpenFirstDevice, NewWorkflow
  <2> QED
    BY <2>2, <2>3
<1>5. ASSUME NEW w \in Workflows, ReadyCapability(w)
      PROVE  /\ wf' = wf /\ log' = log
             /\ \/ boot'[v] = boot[v]
                \/ wf[v].status = "bootstrapping" /\ boot'[v].kind = "pin_checkpoint"
  <2>1. wf' = wf /\ log' = log
    BY <1>5 DEF ReadyCapability
  <2> QED
    BY <1>5, <1>t, <2>1 DEF ReadyCapability, Bootstrap
<1>6. ASSUME NEW w \in Workflows, CancelWorkflow(w)
      PROVE  /\ boot' = boot /\ log' = log
             /\ wf'[v] = wf[v] \/ wf'[v].status = "cancelled"
  BY <1>6, <1>t DEF CancelWorkflow, Workflow
<1>7. ASSUME NEW w \in Workflows, CommitDrain(w)
      PROVE  /\ boot' = boot /\ log' = log
             /\ wf'[v] = wf[v] \/ (wf[v].status = "draining" /\ wf'[v].status = "bootstrapping")
  BY Zenon, <1>7, <1>t DEF CommitDrain, Workflow
<1>8. ASSUME NEW w \in Workflows, NEW through \in 0 .. Len(log), PinCheckpoint(w, through)
      PROVE  /\ wf' = wf /\ log' = log
             /\ \/ boot'[v] = boot[v]
                \/ wf[v].status = "bootstrapping" /\ boot'[v].target = Len(log)
  BY Zenon, <1>8, <1>t DEF PinCheckpoint, PinTarget, StepAdmitted
<1>9. ASSUME NEW w \in Workflows, NEW through \in 0 .. Len(log), FetchMutations(w, through)
      PROVE  /\ wf' = wf /\ log' = log
             /\ \/ boot'[v] = boot[v]
                \/ /\ wf[v].status = "bootstrapping" /\ boot[v].kind = "fetch_mutations"
                   /\ boot'[v].target = boot[v].target
  <2>1. wf' = wf /\ log' = log
    BY <1>9 DEF FetchMutations
  <2>2. CASE v # w
    BY <1>9, <1>t, <2>1, <2>2 DEF FetchMutations
  <2>3. CASE v = w
    BY <1>9, <1>t, <2>1, <2>3 DEF FetchMutations, StepAdmitted, Bootstrap
  <2> QED
    BY Zenon, <2>2, <2>3
<1>10. ASSUME NEW w \in Workflows, SubmitRebuildDigest(w)
       PROVE  /\ wf' = wf /\ log' = log
              /\ \/ boot'[v] = boot[v]
                 \/ /\ wf[v].status = "bootstrapping" /\ boot[v].kind = "submit_rebuild_digest"
                    /\ boot'[v].target = boot[v].target
  <2>1. wf' = wf /\ log' = log
    BY Zenon, <1>10 DEF SubmitRebuildDigest
  <2> QED
    BY <1>10, <1>t, <2>1 DEF SubmitRebuildDigest, StepAdmitted, Bootstrap
<1>11. ASSUME NEW w \in Workflows, Activate(w)
       PROVE  /\ log' = log
              /\ \/ wf'[v] = wf[v] /\ boot'[v] = boot[v]
                 \/ wf'[v].status = "completed"
  <2>1. CASE v = w
    BY <1>11, <1>t, <2>1 DEF Activate, Workflow
  <2>2. CASE v # w
    BY Zenon, <1>11, <1>t, <2>2 DEF Activate
  <2> QED
    BY Zenon, <2>1, <2>2
<1>12. CASE ~UNCHANGED <<wf, boot>>
  <2>1. PICK w \in Workflows :
           \/ \E from, to, key \in Devices : OpenSwitch(w, from, to, key)
           \/ \E to \in Devices : OpenFirstDevice(w, to)
           \/ ReadyCapability(w)
           \/ CancelWorkflow(w)
           \/ CommitDrain(w)
           \/ \E through \in 0 .. Len(log) : PinCheckpoint(w, through) \/ FetchMutations(w, through)
           \/ SubmitRebuildDigest(w)
           \/ Activate(w)
    BY Zenon, <1>12, SwitchWriters
  <2>2. CASE \E from, to, key \in Devices : OpenSwitch(w, from, to, key)
    BY Zenon, <2>2, <1>3, <1>i
  <2>3. CASE \E to \in Devices : OpenFirstDevice(w, to)
    BY Zenon, <2>3, <1>4, <1>i
  <2>4. CASE ReadyCapability(w)
    BY <2>4, <1>5, <1>i
  <2>5. CASE CancelWorkflow(w)
    BY Zenon, <2>5, <1>6, <1>i
  <2>6. CASE CommitDrain(w)
    BY Zenon, <2>6, <1>7, <1>i
  <2>7. CASE \E through \in 0 .. Len(log) : PinCheckpoint(w, through)
    BY Zenon, <2>7, <1>8, <1>i
  <2>8. CASE \E through \in 0 .. Len(log) : FetchMutations(w, through)
    BY Zenon, <2>8, <1>9, <1>i
  <2>9. CASE SubmitRebuildDigest(w)
    BY Zenon, <2>9, <1>10, <1>i
  <2>10. CASE Activate(w)
    BY Zenon, <2>10, <1>11, <1>i
  <2> QED
    BY Zenon, <2>1, <2>2, <2>3, <2>4, <2>5, <2>6, <2>7, <2>8, <2>9, <2>10
<1>13. CASE UNCHANGED <<wf, boot>>
  <2>1. CASE log' = log
    BY Zenon, <1>13, <2>1, <1>1
  <2>2. CASE log' # log
    <3>1. \E d \in Devices, e \in Epochs, n \in 1 .. MaxSequence : AcceptMutation(d, e, n)
      BY Zenon, <2>2, LedgerWriters DEF CommitDrain, AppendRecord
    <3> QED
      BY Zenon, <3>1, <1>2, <1>i
  <2> QED
    BY Zenon, <2>1, <2>2
<1> QED
  BY <1>12, <1>13

(* Only the activation writes a cursor. *)
LEMMA CursorWriter ==
  ASSUME Next, cursors' # cursors
  PROVE  \E w \in Workflows : Activate(w)
<1>1. ~AccountNext
  BY Zenon DEF AccountNext, switchVars, Tick, AdvanceSecurityEpoch, SetEntitlement, Enroll,
         ReadEntitlement, EndLogin, GrantLoginLease, RenewLoginLease
<1>2. ~LedgerNext
  BY DEF LedgerNext, switchVars, AcceptMutation, AppendRecord
<1>3. CASE SwitchNext
  <2>1. \A w \in Workflows, from, to, key \in Devices : ~OpenSwitch(w, from, to, key)
    BY DEF OpenSwitch
  <2>2. \A w \in Workflows, to \in Devices : ~OpenFirstDevice(w, to)
    BY DEF OpenFirstDevice
  <2>3. \A w \in Workflows : ~(ReadyCapability(w) \/ CancelWorkflow(w) \/ SubmitRebuildDigest(w))
    BY DEF ReadyCapability, CancelWorkflow, SubmitRebuildDigest
  <2>4. \A w \in Workflows : ~CommitDrain(w)
    BY Zenon DEF CommitDrain
  <2>5. \A w \in Workflows, e \in Epochs, heads \in [Streams -> 0 .. MaxSequence] :
          ~IssueProof(w, e, heads)
    BY Zenon DEF IssueProof
  <2>6. \A w \in Workflows, through \in 0 .. Len(log) :
          ~(PinCheckpoint(w, through) \/ FetchMutations(w, through))
    BY DEF PinCheckpoint, FetchMutations
  <2> QED
    BY Zenon, <1>3, <2>1, <2>2, <2>3, <2>4, <2>5, <2>6 DEF SwitchNext
<1> QED
  BY Zenon, <1>1, <1>2, <1>3 DEF Next

\* The holder of a workspace lease keeps the only active cursor.
LEMMA CursorStep ==
  ASSUME AuthorityInvariant, Next
  PROVE  CursorFollowsLease'
<1> USE DEF AuthorityInvariant
<1>t. /\ lease \in [Epochs -> Lease] /\ alloc \in [Epochs -> Allocation]
      /\ cursors \in [Devices -> Cursor] /\ log \in Seq(Epochs)
      /\ highest \in Nat /\ MaxEpoch \in Nat
  BY BoundsAssumption DEF TypeOK
<1>n. EpochAvailable => NextEpoch \in Epochs /\ lease[NextEpoch].state = "none"
  BY FreshEpoch
<1>l. Len(log) \in Nat /\ Len(log') \in Nat /\ Len(log') >= Len(log)
  <2>1. CASE log' = log
    BY <1>t, <2>1
  <2>2. CASE log' # log
    <3>1. \E d \in Devices, e \in Epochs, n \in 1 .. MaxSequence : AcceptMutation(d, e, n)
      BY Zenon, <2>2, LedgerWriters DEF CommitDrain, AppendRecord
    <3>2. PICK e \in Epochs : log' = Append(log, e)
      BY Zenon, <3>1 DEF AcceptMutation
    <3> QED
      BY <1>t, <3>2
  <2> QED
    BY <2>1, <2>2
(* Without an activation: a workspace lease held now was held before, by    *)
(* the same device.                                                         *)
<1>k. ASSUME cursors' = cursors,
             \A e \in Epochs : lease'[e].state = "held" =>
               \/ /\ lease[e].state = "held" /\ lease'[e].device = lease[e].device
                  /\ alloc'[e] = alloc[e]
               \/ alloc'[e].source = "desktop_login"
      PROVE  CursorFollowsLease'
  <2>1. \A d \in Devices : cursors'[d].status = "active" => cursors'[d].revision <= Len(log')
    <3> SUFFICES ASSUME NEW d \in Devices, cursors'[d].status = "active"
                 PROVE  cursors'[d].revision <= Len(log')
      BY Zenon
    <3>1. cursors[d].revision \in Nat /\ cursors'[d] = cursors[d]
      BY Zenon, <1>k, <1>t DEF Cursor
    <3>2. cursors[d].revision <= Len(log)
      BY <3>1 DEF CursorFollowsLease
    <3> QED
      BY <1>l, <3>1, <3>2
  <2>2. ASSUME NEW e \in Epochs, Held(e)', InWorkspace(e)', NEW d \in Devices
        PROVE  cursors'[d].status = "active" <=> d = lease'[e].device
    BY Zenon, <1>k, <2>2 DEF CursorFollowsLease, Held, InWorkspace
  <2> QED
    BY Zenon, <2>1, <2>2 DEF CursorFollowsLease
<1>1. ASSUME NEW w \in Workflows, Activate(w)
      PROVE  CursorFollowsLease'
  <2>1. /\ boot[w].target = Len(log) /\ log' = log
        /\ cursors' = NextGeneration(wf[w].to, boot[w].target)
    BY <1>1 DEF Activate, PinnedTarget
  <2>2. \A d \in Devices : cursors'[d].status = "active" <=> d = wf[w].to
    <3> TAKE d \in Devices
    <3>1. CASE d = wf[w].to
      BY <2>1, <3>1 DEF NextGeneration
    <3>2. CASE d # wf[w].to
      <4>1. cursors'[d] = [cursors[d] EXCEPT !.status = IF cursors[d].status = "active"
                                                        THEN "retired"
                                                        ELSE cursors[d].status]
        BY <2>1, <3>2 DEF NextGeneration
      <4>2. cursors'[d].status # "active"
        BY <1>t, <4>1 DEF Cursor
      <4> QED
        BY <3>2, <4>2
    <3> QED
      BY <3>1, <3>2
  <2>3. \A d \in Devices : cursors'[d].status = "active" => cursors'[d].revision <= Len(log')
    BY <2>1, <2>2, <1>t, <1>l DEF NextGeneration
  <2>4. \A e \in Epochs : Held(e)' => lease'[e] = IssuedLease(wf[w].to, security.epoch, entitlement)
    BY <1>1, <1>t DEF Activate, NoneHeld, Held
  <2>5. IssuedLease(wf[w].to, security.epoch, entitlement).device = wf[w].to
    BY Zenon DEF IssuedLease
  <2> QED
    BY <2>2, <2>3, <2>4, <2>5 DEF CursorFollowsLease
<1>2. ASSUME NEW e \in Epochs, lease'[e].state = "held", ~\E w \in Workflows : Activate(w)
      PROVE  \/ /\ lease[e].state = "held" /\ lease'[e].device = lease[e].device
                /\ alloc'[e] = alloc[e]
             \/ alloc'[e].source = "desktop_login"
  <2>1. CASE UNCHANGED epochVars
    BY Zenon, <1>2, <2>1 DEF epochVars
  <2>2. ASSUME NEW d \in Devices, GrantLoginLease(d)
        PROVE  \/ lease'[e] = lease[e] /\ alloc'[e] = alloc[e]
               \/ alloc'[e].source = "desktop_login"
    BY Zenon, <1>t, <1>n, <2>2 DEF GrantLoginLease
  <2>3. ASSUME NEW d \in Devices, NEW f \in Epochs, RenewLoginLease(d, f)
        PROVE  /\ lease[e].state = "held" /\ lease'[e].device = lease[e].device
               /\ alloc'[e] = alloc[e]
    <3>1. IssuedLease(d, loginView[d].security, loginView[d].deadline).device = d
      BY DEF IssuedLease
    <3> QED
      BY Zenon, <1>2, <1>t, <2>3, <3>1 DEF RenewLoginLease, Held
  <2>4. ASSUME NEW w \in Workflows, NEW to \in Devices, OpenFirstDevice(w, to)
        PROVE  lease' = lease /\ alloc'[e] = alloc[e]
    <3>1. lease' = lease /\ NoneHeld
      BY <2>4 DEF OpenFirstDevice
    <3> QED
      BY <1>2, <3>1 DEF NoneHeld, Held
  <2>5. ASSUME NEW w \in Workflows, CancelWorkflow(w)
        PROVE  lease' = lease /\ alloc'[e] = alloc[e]
    <3>1. lease' = lease
      BY <2>5 DEF CancelWorkflow
    <3>2. alloc[e].status = "activated"
      BY <1>2, <3>1 DEF LeaseDiscipline
    <3>3. e # 0
      BY <1>t DEF Epochs
    <3>4. e # wf[w].pending
      BY <3>2, <3>3 DEF PendingEpochs
    <3> QED
      BY <2>5, <3>1, <3>4 DEF CancelWorkflow
  <2>6. ASSUME NEW w \in Workflows, CommitDrain(w)
        PROVE  lease'[e] = lease[e] /\ alloc'[e] = alloc[e]
    <3>1. lease'[e] = lease[e]
      <4>1. CASE e = proof[w].epoch
        BY <1>2, <1>t, <2>6, <4>1 DEF CommitDrain, Lease
      <4>2. CASE e # proof[w].epoch
        BY <1>t, <2>6, <4>2 DEF CommitDrain
      <4> QED
        BY <4>1, <4>2
    <3>2. e # NextEpoch /\ NextEpoch \in Epochs
      BY <1>2, <1>n, <2>6, <3>1 DEF CommitDrain
    <3> QED
      BY <1>t, <2>6, <3>1, <3>2 DEF CommitDrain
  <2>7. CASE lease'[e] = lease[e] /\ alloc'[e] = alloc[e]
    BY Zenon, <1>2, <2>7
  <2>8. CASE \E d \in Devices : GrantLoginLease(d)
    BY Zenon, <2>2, <2>7, <2>8
  <2>9. CASE \E d \in Devices, f \in Epochs : RenewLoginLease(d, f)
    BY Zenon, <2>3, <2>9
  <2>10. CASE \E w \in Workflows, to \in Devices : OpenFirstDevice(w, to)
    BY Zenon, <2>4, <2>7, <2>10
  <2>11. CASE \E w \in Workflows : CancelWorkflow(w) \/ CommitDrain(w)
    BY <2>5, <2>6, <2>7, <2>11
  <2> QED
    BY Zenon, <1>2, <2>1, <2>8, <2>9, <2>10, <2>11, EpochWriters
<1> QED
  BY <1>k, <1>1, <1>2, CursorWriter

-----------------------------------------------------------------------------
(* The invariant.                                                          *)

\* Every step keeps the authority invariant.
LEMMA InvariantStep == AuthorityInvariant /\ [Next]_vars => AuthorityInvariant'
<1>1. ASSUME AuthorityInvariant, Next
      PROVE  AuthorityInvariant'
  <2>1. TypeOK'
    BY <1>1, TypeStep DEF AuthorityInvariant
  <2> QED
    BY <1>1, <2>1, DisciplineStep, SealedStep, IsolationStep, CursorStep, PendingStep,
       PinnedStep, LogStep DEF AuthorityInvariant
<1>2. ASSUME AuthorityInvariant, UNCHANGED vars
      PROVE  AuthorityInvariant'
  <2>1. TypeOK'
    BY Zenon, <1>2, TypeStep DEF AuthorityInvariant
  <2>2. LeaseDiscipline' /\ ReleasedIsSealed'
    BY Zenon, <1>2 DEF AuthorityInvariant, vars, epochVars, ledgerVars, LeaseDiscipline,
                ReleasedIsSealed, Held
  <2>3. SwitchIsolation' /\ PendingEpochs' /\ PinnedTarget'
    BY <1>2 DEF AuthorityInvariant, vars, epochVars, switchVars, SwitchIsolation,
                PendingEpochs, PinnedTarget, Outstanding, Held
  <2>4. LogBelowCurrent' /\ FencedLog'
    BY Zenon, <1>2 DEF AuthorityInvariant, vars, epochVars, LogBelowCurrent, FencedLog,
                Authority!Fenced
  <2>5. CursorFollowsLease'
    BY <1>2 DEF AuthorityInvariant, vars, epochVars, switchVars, CursorFollowsLease, Held,
                InWorkspace
  <2> QED
    BY <2>1, <2>2, <2>3, <2>4, <2>5 DEF AuthorityInvariant
<1> QED
  BY <1>1, <1>2

(* Every transaction of the device control plane preserves the whole        *)
(* invariant, for any number of devices, switches, epochs and records.      *)
THEOREM AuthorityCorrect == Spec => []AuthorityInvariant
BY InitInvariant, InvariantStep, PTL DEF Spec

(* ensureCurrentLease, the drain transition and the activation together     *)
(* keep at most one held lease, of the current epoch.                       *)
THEOREM LeaseDisciplineHolds == Spec => []LeaseDiscipline
<1>1. AuthorityInvariant => LeaseDiscipline
  BY DEF AuthorityInvariant
<1> QED
  BY <1>1, AuthorityCorrect, PTL

(* commitDrain releases a lease only with its three streams sealed at a     *)
(* head below which nothing is missing.                                     *)
THEOREM ReleasedIsSealedHolds == Spec => []ReleasedIsSealed
<1>1. AuthorityInvariant => ReleasedIsSealed
  BY DEF AuthorityInvariant
<1> QED
  BY <1>1, AuthorityCorrect, PTL

(* A login lease may be granted in the middle of a switch, and still no      *)
(* lease that reaches the workspace is held while a target bootstraps.      *)
THEOREM SwitchIsolationHolds == Spec => []SwitchIsolation
<1>1. AuthorityInvariant => SwitchIsolation
  BY DEF AuthorityInvariant
<1> QED
  BY <1>1, AuthorityCorrect, PTL

(* commitActivation retires the cursor of the device switched away from and *)
(* starts a generation for the new one; no other transaction moves either.  *)
THEOREM CursorFollowsLeaseHolds == Spec => []CursorFollowsLease
<1>1. AuthorityInvariant => CursorFollowsLease
  BY DEF AuthorityInvariant
<1> QED
  BY <1>1, AuthorityCorrect, PTL

(* The mutation gate fences: the lease epochs of workspace_mutations never  *)
(* decrease along the server revision.                                      *)
THEOREM FencedLogHolds == Spec => []FencedLog
<1>1. AuthorityInvariant => FencedLog
  BY DEF AuthorityInvariant
<1> QED
  BY <1>1, AuthorityCorrect, PTL

-----------------------------------------------------------------------------
(* What a step may never do.                                               *)

(* workspace_append_mutation_record and its two twins refuse a sealed       *)
(* stream, and the drain seals only unsealed ones, so a seal is final.      *)
THEOREM SealIsFinalHolds == Spec => SealIsFinal
<1>1. ASSUME AuthorityInvariant, Next, NEW s \in Streams, NEW e \in Epochs,
             seal[s][e] # Unsealed
      PROVE  seal'[s][e] = seal[s][e] /\ records'[s][e] = records[s][e]
  <2>t. /\ seal \in [Streams -> [Epochs -> {Unsealed} \cup 0 .. MaxSequence]]
        /\ records \in [Streams -> [Epochs -> SUBSET (1 .. MaxSequence)]]
    BY <1>1 DEF AuthorityInvariant, TypeOK
  <2>1. CASE UNCHANGED <<ledgerVars, log>>
    BY <2>1 DEF ledgerVars
  <2>2. ASSUME NEW w \in Workflows, CommitDrain(w)
        PROVE  seal'[s][e] = seal[s][e] /\ records' = records
    <3>1. e # proof[w].epoch
      BY <1>1, <2>2 DEF CommitDrain, SealAccepted, StreamOpen
    <3> QED
      BY <2>2, <2>t, <3>1 DEF CommitDrain
  <2>3. ASSUME NEW d \in Devices, NEW f \in Epochs, NEW n \in 1 .. MaxSequence,
               AcceptMutation(d, f, n)
        PROVE  seal' = seal /\ records'[s][e] = records[s][e]
    BY Zenon, <1>1, <2>3, <2>t DEF AcceptMutation, Record, StreamOpen, Streams
  <2>4. ASSUME NEW r \in Streams, NEW f \in Epochs, NEW n \in 1 .. MaxSequence,
               AppendRecord(r, f, n)
        PROVE  seal' = seal /\ records'[s][e] = records[s][e]
    BY Zenon, <1>1, <2>4, <2>t DEF AppendRecord, Record, StreamOpen
  <2> QED
    BY Zenon, <1>1, <2>1, <2>2, <2>3, <2>4, LedgerWriters
<1>2. AuthorityInvariant /\ [Next]_vars =>
        [\A s \in Streams, e \in Epochs :
           seal[s][e] # Unsealed => /\ seal'[s][e] = seal[s][e]
                                    /\ records'[s][e] = records[s][e]]_vars
  BY <1>1
<1> QED
  BY <1>2, AuthorityCorrect, PTL DEF Spec, SealIsFinal

(* commitActivation accepts a device whose verified target is the head of   *)
(* the workspace at that moment, whatever happened since the pin.           *)
THEOREM ActivatedAtHeadHolds == Spec => ActivatedAtHead
<1>1. ASSUME AuthorityInvariant, Next, NEW v \in Workflows,
             wf[v].status = "bootstrapping", wf'[v].status = "completed"
      PROVE  boot[v].target = Len(log)
  <2>t. wf \in [Workflows -> Workflow]
    BY Zenon, <1>1 DEF AuthorityInvariant, TypeOK
  <2>1. ASSUME NEW w \in Workflows, Activate(w), v = w
        PROVE  boot[v].kind = "verified"
    BY <2>1 DEF Activate
  <2>2. ASSUME NEW w \in Workflows, Activate(w), v # w
        PROVE  wf'[v] = wf[v]
    BY Zenon, <2>2, <2>t DEF Activate
  <2>3. ASSUME NEW w \in Workflows, CommitDrain(w) \/ CancelWorkflow(w)
        PROVE  wf'[v] = wf[v] \/ wf'[v].status # "completed"
    <3>1. CASE CommitDrain(w)
      BY <3>1, <2>t DEF CommitDrain, Workflow
    <3>2. CASE CancelWorkflow(w)
      BY Zenon, <3>2, <2>t DEF CancelWorkflow, Workflow
    <3> QED
      BY Zenon, <2>3, <3>1, <3>2
  <2>4. ASSUME NEW w \in Workflows, NEW from \in Devices, NEW to \in Devices,
               NEW key \in Devices, OpenSwitch(w, from, to, key)
        PROVE  wf'[v] = wf[v]
    BY Zenon, <1>1, <2>4, <2>t DEF OpenSwitch, NewWorkflow
  <2>5. ASSUME NEW w \in Workflows, NEW to \in Devices, OpenFirstDevice(w, to)
        PROVE  wf'[v] = wf[v]
    BY Zenon, <1>1, <2>5, <2>t DEF OpenFirstDevice, NewWorkflow
  <2>6. ASSUME NEW w \in Workflows,
               \/ ReadyCapability(w)
               \/ \E through \in 0 .. Len(log) : PinCheckpoint(w, through) \/ FetchMutations(w, through)
               \/ SubmitRebuildDigest(w)
        PROVE  wf' = wf
    BY Zenon, <2>6 DEF ReadyCapability, PinCheckpoint, FetchMutations, SubmitRebuildDigest
  <2>7. wf'[v] # wf[v]
    BY Zenon, <1>1
  <2>8. \E w \in Workflows : Activate(w) /\ v = w
    BY Zenon, <1>1, <2>2, <2>3, <2>4, <2>5, <2>6, <2>7, SwitchWriters
  <2> QED
    BY Zenon, <1>1, <2>1, <2>8 DEF AuthorityInvariant, PinnedTarget
<1>2. AuthorityInvariant /\ [Next]_vars =>
        [\A w \in Workflows :
           wf[w].status = "bootstrapping" /\ wf'[w].status = "completed"
             => boot[w].target = Len(log)]_vars
  BY Zenon, <1>1
<1> QED
  BY <1>2, AuthorityCorrect, PTL DEF Spec, ActivatedAtHead

(* What one transaction does to the row of an epoch: nothing, a fresh row   *)
(* for an epoch never used, a renewal for the same device, or a release.    *)
LEMMA LeaseRowStep ==
  ASSUME AuthorityInvariant, Next, NEW e \in Epochs, lease'[e] # lease[e]
  PROVE  \/ lease[e].state = "none" /\ lease'[e].state = "held"
         \/ /\ lease[e].state = "held" /\ lease'[e].state \in {"held", "released"}
            /\ lease'[e].device = lease[e].device
<1> USE DEF AuthorityInvariant
<1>t. /\ highest \in Nat /\ current \in Nat /\ MaxEpoch \in Nat
      /\ lease \in [Epochs -> Lease] /\ alloc \in [Epochs -> Allocation]
  BY BoundsAssumption DEF TypeOK
<1>e. \A f \in Epochs : f \in Nat /\ f > 0
  BY <1>t DEF Epochs
<1>n. EpochAvailable => NextEpoch \in Epochs /\ NextEpoch = highest + 1
  BY FreshEpoch
<1>1. ASSUME NEW d \in Devices, GrantLoginLease(d)
      PROVE  lease[e].state = "none" /\ lease'[e].state = "held"
  <2>1. IssuedLease(d, loginView[d].security, loginView[d].deadline).state = "held"
    BY Zenon DEF IssuedLease
  <2>2. /\ EpochAvailable
        /\ lease' = [lease EXCEPT ![NextEpoch] =
                       IssuedLease(d, loginView[d].security, loginView[d].deadline)]
    BY Zenon, <1>1 DEF GrantLoginLease
  <2>3. e = NextEpoch
    BY Zenon, <1>t, <1>n, <2>2
  <2>4. lease[e].state = "none"
    BY Zenon, <2>2, <2>3, FreshEpoch
  <2> QED
    BY Zenon, <1>t, <2>1, <2>2, <2>3, <2>4
<1>2. ASSUME NEW d \in Devices, NEW f \in Epochs, RenewLoginLease(d, f)
      PROVE  /\ lease[e].state = "held" /\ lease'[e].state = "held"
             /\ lease'[e].device = lease[e].device
  <2>1. /\ IssuedLease(d, loginView[d].security, loginView[d].deadline).state = "held"
        /\ IssuedLease(d, loginView[d].security, loginView[d].deadline).device = d
    BY Zenon DEF IssuedLease
  <2>2. e = f
    BY Zenon, <1>2, <1>t DEF RenewLoginLease
  <2>3. lease'[e] = IssuedLease(d, loginView[d].security, loginView[d].deadline)
    BY <1>2, <1>t, <2>2 DEF RenewLoginLease
  <2> QED
    BY Zenon, <1>2, <2>1, <2>2, <2>3 DEF RenewLoginLease, Held
<1>3. ASSUME NEW w \in Workflows, CommitDrain(w)
      PROVE  /\ lease[e].state = "held" /\ lease'[e].state = "released"
             /\ lease'[e].device = lease[e].device
  <2>1. e = proof[w].epoch
    BY <1>3, <1>t DEF CommitDrain
  <2>2. lease[e].state = "held"
    BY <1>3, <2>1 DEF CommitDrain, DomainActive, Held
  <2>3. lease'[e] = [lease[e] EXCEPT !.state = "released"]
    BY Zenon, <1>3, <1>t, <2>1 DEF CommitDrain
  <2> QED
    BY <1>t, <2>2, <2>3 DEF Lease
<1>4. ASSUME NEW w \in Workflows, Activate(w)
      PROVE  lease[e].state = "none" /\ lease'[e].state = "held"
  <2>1. IssuedLease(wf[w].to, security.epoch, entitlement).state = "held"
    BY DEF IssuedLease
  <2>2. e = wf[w].pending
    BY <1>4, <1>t DEF Activate
  <2>3. lease'[e] = IssuedLease(wf[w].to, security.epoch, entitlement)
    BY <1>4, <1>t, <2>2 DEF Activate
  <2>4. alloc[e].status = "pending"
    BY <1>4, <2>2 DEF Activate
  <2> QED
    BY Zenon, <2>1, <2>3, <2>4 DEF LeaseDiscipline
<1>5. ~UNCHANGED epochVars
  BY DEF epochVars
<1> QED
  BY Zenon, <1>1, <1>2, <1>3, <1>4, <1>5, EpochWriters DEF OpenFirstDevice, CancelWorkflow

\* The counters never go back; the current epoch moves when nobody holds it.
LEMMA CounterStep ==
  ASSUME AuthorityInvariant, Next
  PROVE  /\ highest' >= highest
         /\ current' = current \/ (NoneHeld /\ current' > current /\ current' \in Epochs)
<1>i. TypeOK /\ LeaseDiscipline
  BY DEF AuthorityInvariant
<1>t. highest \in Nat /\ current \in Nat /\ MaxEpoch \in Nat /\ current <= highest
  BY <1>i, CounterTypes DEF LeaseDiscipline
<1>n. EpochAvailable => NextEpoch \in Epochs /\ NextEpoch = highest + 1
  BY <1>i, FreshEpoch
<1>1. CASE UNCHANGED epochVars
  BY <1>1, <1>t DEF epochVars
<1>2. ASSUME NEW d \in Devices, GrantLoginLease(d)
      PROVE  highest' >= highest /\ NoneHeld /\ current' > current /\ current' \in Epochs
  BY <1>2, <1>t, <1>n DEF GrantLoginLease
<1>3. ASSUME NEW d \in Devices, NEW e \in Epochs, RenewLoginLease(d, e)
      PROVE  highest' = highest /\ current' = current
  BY Zenon, <1>3 DEF RenewLoginLease
<1>4. ASSUME NEW w \in Workflows, NEW to \in Devices, OpenFirstDevice(w, to)
      PROVE  highest' >= highest /\ current' = current
  <2>1. EpochAvailable /\ highest' = NextEpoch /\ current' = current
    BY <1>4 DEF OpenFirstDevice
  <2> QED
    BY <1>t, <1>n, <2>1
<1>5. ASSUME NEW w \in Workflows, CancelWorkflow(w)
      PROVE  highest' = highest /\ current' = current
  BY <1>5 DEF CancelWorkflow
<1>6. ASSUME NEW w \in Workflows, CommitDrain(w)
      PROVE  highest' >= highest /\ current' = current
  <2>1. EpochAvailable /\ highest' = NextEpoch /\ current' = current
    BY <1>6 DEF CommitDrain
  <2> QED
    BY <1>t, <1>n, <2>1
<1>7. ASSUME NEW w \in Workflows, Activate(w)
      PROVE  highest' = highest /\ NoneHeld /\ current' > current /\ current' \in Epochs
  BY Zenon, <1>7, <1>t DEF Activate
<1> QED
  BY <1>1, <1>2, <1>3, <1>4, <1>5, <1>6, <1>7, <1>t, EpochWriters

(* A burned or activated allocation is never written again. *)
LEMMA AllocationStep ==
  ASSUME AuthorityInvariant, Next, NEW e \in Epochs,
         alloc[e].status \in {"burned", "activated"}
  PROVE  alloc'[e] = alloc[e]
<1> USE DEF AuthorityInvariant
<1>i. LeaseDiscipline /\ PendingEpochs
  BY Zenon
<1>t. /\ alloc \in [Epochs -> Allocation] /\ wf \in [Workflows -> Workflow]
      /\ highest \in Nat /\ MaxEpoch \in Nat
  BY Zenon, CounterTypes DEF TypeOK
<1> HIDE DEF AuthorityInvariant
<1>e. e \in Nat /\ e <= highest
  <2>1. e \in Nat
    BY <1>t DEF Epochs
  <2>2. alloc[e].status # "none"
    OBVIOUS
  <2> QED
    BY <1>i, <2>1, <2>2 DEF LeaseDiscipline
<1>n. EpochAvailable => NextEpoch \in Epochs /\ NextEpoch # e
  BY <1>t, <1>e DEF EpochAvailable, NextEpoch, Epochs
<1>1. CASE UNCHANGED epochVars
  BY <1>1 DEF epochVars
<1>2. ASSUME NEW d \in Devices, GrantLoginLease(d)
      PROVE  alloc'[e] = alloc[e]
  BY Zenon, <1>2, <1>t, <1>n DEF GrantLoginLease
<1>3. ASSUME NEW d \in Devices, NEW f \in Epochs, RenewLoginLease(d, f)
      PROVE  alloc' = alloc
  BY Zenon, <1>3 DEF RenewLoginLease
<1>4. ASSUME NEW w \in Workflows, NEW to \in Devices, OpenFirstDevice(w, to)
      PROVE  alloc'[e] = alloc[e]
  BY <1>4, <1>t, <1>n DEF OpenFirstDevice
<1>5. ASSUME NEW w \in Workflows, CancelWorkflow(w)
      PROVE  alloc'[e] = alloc[e]
  <2>1. e # wf[w].pending
    BY <1>5, <1>i, <1>e, <1>t DEF PendingEpochs, Epochs
  <2> QED
    BY <1>5, <2>1 DEF CancelWorkflow
<1>6. ASSUME NEW w \in Workflows, CommitDrain(w)
      PROVE  alloc'[e] = alloc[e]
  BY <1>6, <1>t, <1>n DEF CommitDrain
<1>7. ASSUME NEW w \in Workflows, Activate(w)
      PROVE  alloc'[e] = alloc[e]
  <2>1. e # wf[w].pending
    BY <1>7 DEF Activate
  <2> QED
    BY <1>7, <1>t, <2>1 DEF Activate
<1> QED
  BY Zenon, <1>1, <1>2, <1>3, <1>4, <1>5, <1>6, <1>7, EpochWriters

(* device_account_states and device_leases form a history: no login, drain, *)
(* cancellation or activation rewrites an epoch that was already used up.   *)
THEOREM EpochHistoryHolds == Spec => EpochHistory
<1> DEFINE Kept(e) ==
             /\ lease[e].state = "released" => lease'[e] = lease[e]
             /\ Held(e) => lease'[e].state # "none" /\ lease'[e].device = lease[e].device
             /\ alloc[e].status \in {"burned", "activated"} => alloc'[e] = alloc[e]
<1>1. ASSUME AuthorityInvariant, Next, NEW e \in Epochs
      PROVE  Kept(e)
  <2>1. CASE lease'[e] = lease[e]
    BY Zenon, <1>1, <2>1, AllocationStep DEF Held
  <2>2. CASE lease'[e] # lease[e]
    BY Zenon, <1>1, <2>2, AllocationStep, LeaseRowStep DEF Held
  <2> QED
    BY Zenon, <2>1, <2>2
<1>2. ASSUME AuthorityInvariant, Next
      PROVE  highest' >= highest /\ current' >= current
  <2>1. current \in Nat /\ \A e \in Epochs : e \in Nat
    BY <1>2, BoundsAssumption DEF AuthorityInvariant, TypeOK, Epochs
  <2> QED
    BY <1>2, <2>1, CounterStep
<1>3. AuthorityInvariant /\ [Next]_vars =>
        [/\ highest' >= highest
         /\ current' >= current
         /\ \A e \in Epochs : Kept(e)]_vars
  BY <1>1, <1>2
<1> QED
  BY <1>3, AuthorityCorrect, PTL DEF Spec, EpochHistory

(* ensureCurrentLease and commitActivation compare the security epoch they   *)
(* were given with the row they lock, so a lease row is never written for   *)
(* a session or a switch that a password reset has overtaken.               *)
THEOREM IssuedUnderCurrentSecurityHolds == Spec => IssuedUnderCurrentSecurity
<1>1. ASSUME AuthorityInvariant, Next, NEW e \in Epochs,
             lease'[e].state = "held", lease'[e] # lease[e]
      PROVE  security.status = "normal" /\ lease'[e].security = security.epoch
  <2>t. lease \in [Epochs -> Lease]
    BY Zenon, <1>1 DEF AuthorityInvariant, TypeOK
  <2>1. ASSUME NEW d \in Devices, GrantLoginLease(d)
        PROVE  security.status = "normal" /\ lease'[e].security = security.epoch
    <3>1. lease'[e] = IssuedLease(d, loginView[d].security, loginView[d].deadline)
      BY <1>1, <2>1, <2>t DEF GrantLoginLease
    <3>2. LoginAdmitted(d)
      BY <2>1 DEF GrantLoginLease
    <3>3. security.status = "normal"
      BY Zenon, <3>2 DEF LoginAdmitted, SecurityNormal
    <3>4. IssuedLease(d, loginView[d].security, loginView[d].deadline).security = security.epoch
      BY <3>2 DEF LoginAdmitted, SecurityNormal, IssuedLease
    <3> QED
      BY <3>1, <3>3, <3>4
  <2>2. ASSUME NEW d \in Devices, NEW f \in Epochs, RenewLoginLease(d, f)
        PROVE  security.status = "normal" /\ lease'[e].security = security.epoch
    <3>1. lease'[e] = IssuedLease(d, loginView[d].security, loginView[d].deadline)
      BY Zenon, <1>1, <2>2, <2>t DEF RenewLoginLease
    <3>2. LoginAdmitted(d)
      BY Zenon, <2>2 DEF RenewLoginLease
    <3>3. security.status = "normal"
      BY Zenon, <3>2 DEF LoginAdmitted, SecurityNormal
    <3>4. IssuedLease(d, loginView[d].security, loginView[d].deadline).security = security.epoch
      BY <3>2 DEF LoginAdmitted, SecurityNormal, IssuedLease
    <3> QED
      BY Zenon, <3>1, <3>3, <3>4
  <2>3. ASSUME NEW w \in Workflows, Activate(w)
        PROVE  security.status = "normal" /\ lease'[e].security = security.epoch
    <3>1. lease'[e] = IssuedLease(wf[w].to, security.epoch, entitlement)
      BY <1>1, <2>3, <2>t DEF Activate
    <3>2. security.status = "normal"
      BY <2>3 DEF Activate, SecurityNormal
    <3>3. IssuedLease(wf[w].to, security.epoch, entitlement).security = security.epoch
      BY DEF IssuedLease
    <3> QED
      BY <3>1, <3>2, <3>3
  <2>4. ASSUME NEW w \in Workflows, CommitDrain(w)
        PROVE  FALSE
    <3>1. e = proof[w].epoch /\ lease'[e] = [lease[e] EXCEPT !.state = "released"]
      BY <1>1, <2>4, <2>t DEF CommitDrain
    <3> QED
      BY <1>1, <2>t, <3>1 DEF Lease
  <2>5. ~UNCHANGED epochVars
    BY <1>1 DEF epochVars
  <2> QED
    BY Zenon, <1>1, <2>1, <2>2, <2>3, <2>4, <2>5, EpochWriters DEF OpenFirstDevice, CancelWorkflow
<1>2. AuthorityInvariant /\ [Next]_vars =>
        [\A e \in Epochs :
           Held(e)' /\ lease'[e] # lease[e]
             => /\ security.status = "normal"
                /\ lease'[e].security = security.epoch]_vars
  BY <1>1 DEF Held
<1> QED
  BY <1>2, AuthorityCorrect, PTL DEF Spec, IssuedUnderCurrentSecurity

-----------------------------------------------------------------------------
(* The refinement.                                                         *)

(* Whatever device_leases holds, the device that may execute is a real one. *)
LEMMA HolderIs ==
  ASSUME AuthorityInvariant, NEW e \in Epochs, Held(e)
  PROVE  e = current /\ Holder = lease[e].device
BY DEF AuthorityInvariant, LeaseDiscipline, Holder

\* Where no lease is held, the abstract holder is nobody.
LEMMA HolderNone ==
  ASSUME NoneHeld
  PROVE  Holder = NoDevice
BY DEF NoneHeld, Holder

\* Every step of the authority is a step of LeaseAuthority, or a stutter.
LEMMA RefinementStep ==
  ASSUME AuthorityInvariant, AuthorityInvariant', Next
  PROVE  [Authority!Next]_<<Holder, current, log>>
<1>i. TypeOK /\ TypeOK'
  BY DEF AuthorityInvariant
<1>c. current \in Nat /\ current' \in Nat
  <2>1. current \in 0 .. MaxEpoch /\ current' \in 0 .. MaxEpoch
    BY <1>i DEF TypeOK
  <2>2. MaxEpoch \in Nat
    BY Zenon, BoundsAssumption
  <2> QED
    BY <2>1, <2>2
<1>t. /\ lease \in [Epochs -> Lease] /\ current \in Nat /\ current' \in Nat
      /\ wf \in [Workflows -> Workflow] /\ slots \in [1 .. 2 -> AnyDevice]
  BY <1>i, <1>c DEF TypeOK
<1>b. Bound \subseteq Devices /\ NoDevice \notin Devices
  BY <1>t, NamesAssumption DEF Bound, AnyDevice
<1>1. ASSUME NEW e \in Epochs, NEW d \in Devices, NoneHeld, lease'[e].state = "held",
             lease'[e].device = d, current' > current, log' = log
      PROVE  Authority!Next
  <2>1. Holder = NoDevice
    BY Zenon, <1>1, HolderNone
  <2>2. Holder' = d
    BY <1>1 DEF AuthorityInvariant, LeaseDiscipline, Holder, Held
  <2>3. Authority!Grant(d)
    BY <1>1, <1>t, <2>1, <2>2 DEF Authority!Grant
  <2> QED
    BY <2>3 DEF Authority!Next
<1>2. ASSUME NEW d \in Devices, GrantLoginLease(d)
      PROVE  Authority!Next
  <2>1. NextEpoch \in Epochs /\ current' = NextEpoch /\ NextEpoch > current
    <3>1. highest \in Nat /\ MaxEpoch \in Nat
      BY <1>i, CounterTypes
    <3>2. current <= highest /\ highest < MaxEpoch /\ current' = NextEpoch
      BY <1>2 DEF GrantLoginLease, EpochAvailable
    <3> QED
      BY <1>t, <3>1, <3>2 DEF NextEpoch, Epochs
  <2>2. lease'[NextEpoch] = IssuedLease(d, loginView[d].security, loginView[d].deadline)
    BY <1>2, <1>t, <2>1 DEF GrantLoginLease
  <2>3. NoneHeld /\ log' = log
    BY <1>2 DEF GrantLoginLease
  <2>4. /\ IssuedLease(d, loginView[d].security, loginView[d].deadline).state = "held"
        /\ IssuedLease(d, loginView[d].security, loginView[d].deadline).device = d
    BY DEF IssuedLease
  <2>5. lease'[NextEpoch].state = "held" /\ lease'[NextEpoch].device = d
    BY Zenon, <2>2, <2>4
  <2> QED
    BY <1>1, <2>1, <2>3, <2>5
<1>3. ASSUME NEW w \in Workflows, Activate(w)
      PROVE  Authority!Next
  <2>1. /\ wf[w].pending \in Epochs /\ current' = wf[w].pending
        /\ wf[w].pending > current /\ wf[w].to \in Devices
    BY <1>3, <1>b DEF Activate
  <2>2. lease'[wf[w].pending] = IssuedLease(wf[w].to, security.epoch, entitlement)
    BY <1>3, <1>t, <2>1 DEF Activate
  <2>3. NoneHeld /\ log' = log
    BY Zenon, <1>3 DEF Activate
  <2>4. /\ IssuedLease(wf[w].to, security.epoch, entitlement).state = "held"
        /\ IssuedLease(wf[w].to, security.epoch, entitlement).device = wf[w].to
    BY Zenon DEF IssuedLease
  <2>5. /\ lease'[wf[w].pending].state = "held"
        /\ lease'[wf[w].pending].device = wf[w].to
    BY Zenon, <2>2, <2>4
  <2> QED
    BY <1>1, <2>1, <2>3, <2>5
<1>4. ASSUME NEW w \in Workflows, CommitDrain(w)
      PROVE  Authority!Next
  <2>1. /\ proof[w].epoch \in Epochs /\ Held(proof[w].epoch)
        /\ lease[proof[w].epoch].device \in Devices
    BY Zenon, <1>4, <1>b DEF CommitDrain, DomainActive, ProofUsable
  <2>2. Holder # NoDevice /\ proof[w].epoch = current
    BY Zenon, <1>b, <2>1, HolderIs
  <2>3. current' = current /\ log' = log /\ lease'[current].state = "released"
    BY <1>4, <1>t, <2>1, <2>2 DEF CommitDrain, Lease
  <2>4. Holder' = NoDevice
    BY <2>1, <2>2, <2>3 DEF Holder, Held
  <2> QED
    BY Zenon, <2>2, <2>3, <2>4 DEF Authority!Next, Authority!Release
<1>5. ASSUME NEW d \in Devices, NEW e \in Epochs, NEW n \in 1 .. MaxSequence,
             AcceptMutation(d, e, n)
      PROVE  Authority!Next
  <2>1. Held(e) /\ lease[e].device = d /\ log' = Append(log, e)
    BY <1>5 DEF AcceptMutation, DomainActive
  <2>2. e = current /\ Holder # NoDevice
    BY <1>b, <2>1, HolderIs
  <2>3. current' = current /\ lease' = lease
    BY <1>5 DEF AcceptMutation, epochVars
  <2>4. Holder' = Holder
    BY <2>3 DEF Holder, Held
  <2> QED
    BY Zenon, <2>1, <2>2, <2>3, <2>4 DEF Authority!Next, Authority!AppendEntry
<1>6. ASSUME NEW d \in Devices, NEW e \in Epochs, RenewLoginLease(d, e)
      PROVE  UNCHANGED <<Holder, current, log>>
  <2>1. Held(e) /\ lease[e].device = d /\ current' = current /\ log' = log
    BY <1>6 DEF RenewLoginLease
  <2>2. e = current /\ Holder = d
    BY Zenon, <2>1, HolderIs
  <2>3. lease'[e] = IssuedLease(d, loginView[d].security, loginView[d].deadline)
    BY Zenon, <1>6, <1>t DEF RenewLoginLease
  <2>4. /\ IssuedLease(d, loginView[d].security, loginView[d].deadline).state = "held"
        /\ IssuedLease(d, loginView[d].security, loginView[d].deadline).device = d
    BY Zenon DEF IssuedLease
  <2>5. lease'[e].state = "held" /\ lease'[e].device = d
    BY <2>3, <2>4
  <2>6. Holder' = d
    BY Zenon, <2>1, <2>2, <2>5 DEF Holder, Held
  <2> QED
    BY Zenon, <2>1, <2>2, <2>6
<1>7. CASE UNCHANGED <<lease, current, log>>
  BY <1>7 DEF Holder, Held
<1>8. ASSUME NEW w \in Workflows,
             CancelWorkflow(w) \/ \E to \in Devices : OpenFirstDevice(w, to)
      PROVE  UNCHANGED <<lease, current, log>>
  BY Zenon, <1>8 DEF CancelWorkflow, OpenFirstDevice
<1>9. ASSUME NEW s \in Streams, NEW e \in Epochs, NEW n \in 1 .. MaxSequence,
             AppendRecord(s, e, n)
      PROVE  UNCHANGED <<lease, current, log>>
  BY Zenon, <1>9 DEF AppendRecord, epochVars
<1>10. CASE UNCHANGED epochVars /\ UNCHANGED <<ledgerVars, log>>
  BY <1>7, <1>10 DEF epochVars
<1> QED
  BY <1>2, <1>3, <1>4, <1>5, <1>6, <1>7, <1>8, <1>9, <1>10, EpochWriters, LedgerWriters

(* The logins, drains, activations and accepted mutations of the Cloud,     *)
(* seen through the holder, its epoch and the log, are a fenced lease       *)
(* authority, for every number of devices, switches and epochs.             *)
THEOREM ImplementsLeaseAuthorityHolds == Spec => ImplementsLeaseAuthority
<1>1. Init => Authority!Init
  <2> SUFFICES ASSUME Init PROVE Authority!Init
    OBVIOUS
  <2>1. current = 0 /\ log = <<>>
    BY Zenon DEF Init
  <2>2. 0 \notin Epochs
    BY BoundsAssumption DEF Epochs
  <2> QED
    BY Zenon, <2>1, <2>2 DEF Authority!Init, Holder
<1>2. AuthorityInvariant /\ AuthorityInvariant' /\ [Next]_vars
        => [Authority!Next]_<<Holder, current, log>>
  <2>1. CASE UNCHANGED vars
    BY <2>1 DEF vars, epochVars, Holder, Held
  <2> QED
    BY Zenon, <2>1, RefinementStep
<1> QED
  BY <1>1, <1>2, AuthorityCorrect, PTL
     DEF Spec, ImplementsLeaseAuthority, Authority!Spec, Authority!vars
=============================================================================
