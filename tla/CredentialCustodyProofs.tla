----------------------- MODULE CredentialCustodyProofs -----------------------
(***************************************************************************)
(* The custody invariants of CredentialCustody hold for any number of      *)
(* preparations and faults.                                                *)
(***************************************************************************)
EXTENDS CredentialCustody, TLAPS

Confirmation(e) == [generation |-> e.generation, proof |-> e.proof,
                    result |-> "confirmed"]

\* Where an operation stands tells which phase its intent is in: no other
\* operation can have moved it.
OpAgrees ==
  /\ op.step = "prepared" => intent.phase = "prepared"
  /\ op.step \in {"inspecting", "matched", "contradicted"} =>
       intent.phase = "prewrite_inspection_started"
  /\ op.step \in {"marked", "written"} => intent.phase = "keychain_write_started"
  /\ op.step \in {"custody", "compared"} => Marked

\* What was read from the Keychain is still there when it is acted on.
SeenStands ==
  op.step = "compared" /\ ~tampered =>
    /\ op.seen = "target" => keychain = intent.target
    /\ op.seen = "base" => keychain = intent.base

\* An open intent is for the generation after the root's.
NextInLine == Live => /\ intent.expected = root.head
                      /\ intent.target.generation = root.head + 1

\* Use is denied from the inspection to the resolution, and the publication
\* stays what the root records.
DeniedWhileOpen ==
  /\ Live /\ intent.phase # "prepared" =>
       connection.use = "transition_pending" /\ connection.published = root.known
  /\ Marked => intent.base = root.known

\* The ledger and the Keychain's history do not run ahead of the root.
BehindRoot ==
  /\ \A l \in ledger : l.generation <= root.head
  /\ \A e \in written : e.generation <= root.head \/ (Marked /\ e = intent.target)

PublicationConfirmed ==
  /\ connection.use = "active" =>
       connection.published = root.known /\ connection.published # Absent
  /\ connection.published # Absent => Confirmation(connection.published) \in ledger

CustodyInvariant ==
  /\ TypeOK /\ OpAgrees /\ SeenStands /\ NextInLine /\ DeniedWhileOpen
  /\ BehindRoot /\ PublicationConfirmed /\ CustodyAccounted
  /\ GenerationStoredOnce /\ EvidenceConfirmed

-----------------------------------------------------------------------------
\* The empty envelope and a foreign one are envelopes; an idle process and a
\* freshly started lane have the shape of their kinds.
LEMMA Constants == /\ Absent \in Envelopes /\ Foreign \in Envelopes
                   /\ Idle \in OpRows /\ Startup \in LaneRows
<1>1. Absent \in Envelopes /\ Foreign \in Envelopes
  BY BoundsAssumption DEF Absent, Foreign, Envelopes
<1> QED
  BY <1>1 DEF Idle, Startup, OpRows, LaneRows, Steps

\* Moving an operation to another step keeps its shape.
LEMMA GoType == ASSUME op \in OpRows, NEW s \in Steps
                PROVE [op EXCEPT !.step = s] \in OpRows
BY DEF OpRows

\* The tables are empty and the Keychain holds nothing.
LEMMA InitHolds == Init => CustodyInvariant
<1> SUFFICES ASSUME Init PROVE CustodyInvariant
  OBVIOUS
<1>1. TypeOK
  <2>1. connection \in ConnectionRows /\ intent \in IntentRows
    BY Constants DEF Init, ConnectionRows, IntentRows, Phases
  <2>2. faults \in Nat /\ attempts \in Nat
    BY DEF Init
  <2> QED
    BY Zenon, <2>1, <2>2, Constants DEF Init, TypeOK
<1>2. OpAgrees /\ SeenStands /\ NextInLine /\ DeniedWhileOpen /\ CustodyAccounted
  BY DEF Init, OpAgrees, SeenStands, NextInLine, DeniedWhileOpen,
     CustodyAccounted,
         Marked, Orphan, Live, Idle
<1>3. BehindRoot /\ PublicationConfirmed
  BY DEF Init, BehindRoot, PublicationConfirmed, Marked, Orphan, Live, Confirmation
<1>4. GenerationStoredOnce /\ EvidenceConfirmed
  <2>1. evidence = {} /\ written = {} /\ stage # "staged" /\ intent.phase = "none"
    BY DEF Init
  <2>2. ~Live
    BY <2>1 DEF Live, Marked, Orphan
  <2> QED
    BY Zenon, <2>1, <2>2 DEF GenerationStoredOnce, EvidenceConfirmed
<1> QED
  BY <1>1, <1>2, <1>3, <1>4 DEF CustodyInvariant

\* Each step keeps every variable in its type.
LEMMA TypeStep == TypeOK /\ [Next]_vars => TypeOK'
<1> SUFFICES ASSUME TypeOK, [Next]_vars PROVE TypeOK'
  OBVIOUS
<1> USE DEF TypeOK, db, At
<1>1. CASE RequestRecovery
  BY Zenon, <1>1 DEF RequestRecovery, LaneRows
<1>2. ASSUME NEW kind \in {"activate", "observe"}, Submit(kind) PROVE TypeOK'
  BY <1>2 DEF Submit, LaneRows
<1>3. CASE StartRecovery
  <2>1. op' \in OpRows
    BY Zenon, <1>3, Constants DEF StartRecovery, OpRows, Steps, Idle
  <2>2. lane' \in LaneRows
    BY Zenon, <1>3 DEF StartRecovery, LaneRows
  <2> QED
    BY <1>3, Constants, <2>1, <2>2 DEF StartRecovery
<1>4. CASE StartOperation
  <2>1. op' \in OpRows
    BY Zenon, <1>4, Constants DEF StartOperation, OpRows, LaneRows, Steps, Idle
  <2>2. lane' \in LaneRows
    BY <1>4 DEF StartOperation, LaneRows
  <2> QED
    BY <1>4, Constants, <2>1, <2>2 DEF StartOperation
<1>5. CASE Prepare
  <2>1. [generation |-> NextGeneration, proof |-> attempts + 1] \in Envelopes
    BY DEF NextGeneration, Envelopes
  <2>2. op' \in OpRows
    BY Zenon, <1>5, Constants DEF Prepare, Stop, OpRows, Steps
  <2>3. intent' \in IntentRows
    <3>1. CASE op.current /\ ProvisionSeed
      <4>1. root.head \in Nat
        OBVIOUS
      <4>2. intent' = [phase |-> "prepared", base |-> Absent,
                       target |-> [generation |-> NextGeneration,
                       proof |-> attempts + 1],
                       expected |-> root.head, current |-> TRUE]
        BY <1>5, <3>1 DEF Prepare
      <4> QED
        BY <2>1, <4>1, <4>2, Constants DEF IntentRows, Phases
    <3>2. CASE ~(op.current /\ ProvisionSeed)
      BY <1>5, <3>2 DEF Prepare
    <3> QED
      BY <3>1, <3>2
  <2>4. attempts' \in Nat
    BY <1>5 DEF Prepare, NextGeneration
  <2> QED
    BY <1>5, <2>2, <2>3, <2>4 DEF Prepare
<1>6. CASE BeginPrewrite
  <2>1. "inspecting" \in Steps /\ "prewrite_inspection_started" \in Phases
    BY DEF Steps, Phases
  <2>2. op' \in OpRows
    BY Zenon, <1>6, <2>1, Constants, GoType DEF BeginPrewrite, Go, Stop
  <2>3. intent' \in IntentRows
    BY Zenon, <1>6, <2>1 DEF BeginPrewrite, IntentRows
  <2>4. connection' \in ConnectionRows
    BY Zenon, <1>6 DEF BeginPrewrite, ConnectionRows
  <2> QED
    BY Zenon, <1>6, <2>2, <2>3, <2>4 DEF BeginPrewrite
<1>7. CASE Inspect
  BY <1>7, GoType DEF Inspect, Go, Steps
<1>8. CASE Remediate
  BY Zenon, <1>8, Constants DEF Remediate, Stop, IntentRows, Phases, ConnectionRows
<1>9. CASE MarkWriteStarted
  BY Zenon, <1>9, Constants, GoType DEF MarkWriteStarted, Go, Stop, IntentRows,
     Phases, Steps
<1>10. CASE WriteKeychain
  BY <1>10, GoType DEF WriteKeychain, Go, IntentRows, Steps
<1>11. CASE RecoverOrphans
  BY <1>11, Constants, GoType DEF RecoverOrphans, FinishRecovery, Go, Stop,
     IntentRows, Phases, ConnectionRows, LaneRows, Steps
<1>12. CASE NextRecovery
  BY Zenon, <1>12, Constants, GoType DEF NextRecovery, FinishRecovery, Go, Stop,
     LaneRows, Steps
<1>13. CASE ReadCustody
  <2>1. op' \in OpRows
    BY Zenon, <1>13 DEF ReadCustody, Compare, OpRows, Steps
  <2> QED
    BY <1>13, Constants, <2>1 DEF ReadCustody
<1>14. CASE Resolve
  <2>1. op' \in OpRows /\ lane' \in LaneRows
    BY Zenon, <1>14, Constants DEF Resolve, FinishRecovery, Stop, LaneRows
  <2>2. CASE ~CanResolve
    BY <1>14, <2>1, <2>2 DEF Resolve
  <2>3. CASE CanResolve /\ Resolution = "recovery_required"
    BY <1>14, <2>1, <2>3 DEF Resolve, IntentRows, Phases
  <2>4. CASE CanResolve /\ Resolution # "recovery_required"
    <3>1. Resolution \in {"confirmed", "not_observed", "authority_stale"}
      BY <2>4 DEF Resolution
    <3>2. CommitResolution(Resolution)
      BY <1>14, <2>4 DEF Resolve
    <3>3. intent.target \in Envelopes /\ intent.target.generation \in Nat
             /\ intent.target.proof \in Nat
      BY DEF IntentRows, Envelopes
    <3>4. ledger' \subseteq LedgerRows /\ root' \in [head : Nat, known : Envelopes]
      BY <3>1, <3>2, <3>3 DEF CommitResolution, AdvanceRoot, LedgerRows
    <3>5. connection' \in ConnectionRows
      BY <3>2, <3>3, Constants DEF CommitResolution, PublicationAfter,
         ConnectionRows
    <3>6. intent' \in IntentRows
      BY <3>2 DEF CommitResolution, IntentRows, Phases
    <3>7. stage' \in {"none", "staged", "committed", "discarded"} /\ evidence' \subseteq Envelopes
      BY <3>2, <3>3 DEF CommitResolution
    <3> QED
      BY <1>14, <2>1, <3>4, <3>5, <3>6, <3>7 DEF Resolve
  <2> QED
    BY <2>2, <2>3, <2>4
<1>15. CASE PrepareObservation
  <2>1. op' \in OpRows
    <3>1. "reading" \in Steps /\ connection.published \in Envelopes
      BY DEF Steps, ConnectionRows
    <3>2. [op EXCEPT !.step = "reading", !.base = connection.published] \in OpRows
      BY Zenon, <3>1 DEF OpRows
    <3> QED
      BY Zenon, <1>15, <3>2, Constants DEF PrepareObservation, Stop
  <2> QED
    BY <1>15, Constants, <2>1 DEF PrepareObservation
<1>16. CASE LoadCredential
  BY <1>16, Constants, GoType DEF LoadCredential, Go, Stop, Steps
<1>17. CASE CommitObservation
  BY <1>17, Constants DEF CommitObservation, Stop, OpRows
<1>18. CASE Abandon
  BY <1>18, Constants DEF Abandon, Stop
<1>19. CASE InspectUnreadable
  BY <1>19, GoType DEF InspectUnreadable, Fault, Go, Steps
<1>20. CASE WriteFails
  <2>1. op' \in OpRows
    BY Zenon, <1>20 DEF WriteFails, OpRows, Steps
  <2>2. faults' \in Nat
    BY <1>20, Constants DEF WriteFails, Fault
  <2>3. keychain' \in Envelopes /\ written' \subseteq Envelopes
    BY <1>20 DEF WriteFails, IntentRows
  <2> QED
    BY <1>20, Constants, <2>1, <2>2, <2>3 DEF WriteFails
<1>21. CASE CustodyUnreadable
  <2>1. op' \in OpRows
    BY Zenon, <1>21 DEF CustodyUnreadable, OpRows, Steps
  <2>2. faults' \in Nat
    BY <1>21, Constants DEF CustodyUnreadable, Fault
  <2> QED
    BY <1>21, Constants, <2>1, <2>2 DEF CustodyUnreadable
<1>22. CASE Crash
  <2>1. faults' \in Nat
    BY <1>22, Constants DEF Crash, Fault
  <2> QED
    BY Zenon, <1>22, Constants, <2>1 DEF Crash
<1>23. CASE ChangeAuthority
  <2>1. op' \in OpRows
    BY Zenon, <1>23 DEF ChangeAuthority, OpRows, Steps
  <2>2. faults' \in Nat
    BY <1>23, Constants DEF ChangeAuthority, Fault
  <2>3. intent' \in IntentRows
    BY Zenon, <1>23 DEF ChangeAuthority, IntentRows
  <2> QED
    BY <1>23, Constants, <2>1, <2>2, <2>3 DEF ChangeAuthority
<1>24. CASE Tamper
  BY <1>24, Constants DEF Tamper, Fault
<1>25. CASE UNCHANGED vars
  BY <1>25 DEF vars
<1> QED
  BY <1>1, <1>2, <1>3, <1>4, <1>5, <1>6, <1>7, <1>8, <1>9, <1>10, <1>11, <1>12,
     <1>13, <1>14, <1>15, <1>16, <1>17, <1>18, <1>19, <1>20, <1>21, <1>22,
     <1>23, <1>24, <1>25 DEF Next, Step, Activation, Recovery, Observation

\* Every step keeps the custody invariant.
LEMMA InvariantStep == CustodyInvariant /\ [Next]_vars => CustodyInvariant'
<1> SUFFICES ASSUME CustodyInvariant, [Next]_vars PROVE CustodyInvariant'
  OBVIOUS
<1>0. TypeOK /\ TypeOK'
  BY TypeStep DEF CustodyInvariant
<1> USE DEF CustodyInvariant, OpAgrees, SeenStands, NextInLine, DeniedWhileOpen,
            BehindRoot, PublicationConfirmed, CustodyAccounted,
            GenerationStoredOnce,
            EvidenceConfirmed, Confirmation, Marked, Orphan, Live, db, At
<1>1. CASE RequestRecovery
  BY <1>0, <1>1 DEF RequestRecovery, TypeOK, OpRows, IntentRows, ConnectionRows
<1>2. ASSUME NEW kind \in {"activate", "observe"}, Submit(kind) PROVE CustodyInvariant'
  BY <1>0, <1>2 DEF Submit
<1>3. CASE StartRecovery
  BY <1>0, <1>3 DEF StartRecovery, Idle, TypeOK, OpRows, IntentRows,
     ConnectionRows
<1>4. CASE StartOperation
  BY <1>0, <1>4 DEF StartOperation, Idle, TypeOK, OpRows, IntentRows,
     ConnectionRows
<1>5. CASE Prepare
  <2>1. CASE op.current /\ ProvisionSeed
    <3>1. intent'.phase = "prepared" /\ intent'.expected = root.head
            /\ intent'.target.generation = root.head + 1
      BY <1>5, <2>1 DEF Prepare, NextGeneration
    <3>2. op'.step = "prepared" /\ stage' = "staged" /\ ~Live
      BY Zenon, <1>0, <1>5, <2>1 DEF Prepare, ProvisionSeed, TypeOK, OpRows
    <3>3. UNCHANGED <<root, connection, ledger, evidence, keychain, tampered, written>>
      BY <1>5 DEF Prepare
    <3> QED
      BY <1>0, <3>1, <3>2, <3>3
  <2>2. CASE ~(op.current /\ ProvisionSeed)
    BY <1>0, <1>5, <2>2 DEF Prepare, Stop, Idle
  <2> QED
    BY <2>1, <2>2
<1>6. CASE BeginPrewrite
  BY <1>0, <1>6 DEF BeginPrewrite, PublicationMatches, Go, Stop, Idle, TypeOK,
     OpRows, IntentRows, ConnectionRows
<1>7. CASE Inspect
  BY <1>0, <1>7 DEF Inspect, Go, TypeOK, OpRows, IntentRows, ConnectionRows
<1>8. CASE Remediate
  BY <1>0, <1>8 DEF Remediate, Stop, Idle, TypeOK, OpRows, IntentRows,
     ConnectionRows
<1>9. CASE MarkWriteStarted
  <2>1. CASE intent'.phase = "keychain_write_started"
    <3>1. intent' = [intent EXCEPT !.phase = "keychain_write_started", !.base = root.known]
            /\ op' = [op EXCEPT !.step = "marked"]
            /\ intent.phase = "prewrite_inspection_started"
      BY <1>0, <1>9, <2>1 DEF MarkWriteStarted, Go
    <3>2. UNCHANGED <<root, connection, stage, ledger, evidence, keychain, tampered, written>>
      BY <1>9 DEF MarkWriteStarted
    <3> QED
      BY <1>0, <3>1, <3>2 DEF TypeOK, OpRows, IntentRows
  <2>2. CASE intent' = intent /\ op' = Idle
    BY <1>0, <1>9, <2>2 DEF MarkWriteStarted, Idle
  <2> QED
    BY Zenon, <1>0, <1>9, <2>1, <2>2 DEF MarkWriteStarted, Stop, TypeOK, IntentRows
<1>10. CASE WriteKeychain
  BY <1>0, <1>10 DEF WriteKeychain, Go, TypeOK, OpRows, IntentRows,
     ConnectionRows
<1>11. CASE RecoverOrphans
  BY <1>0, <1>11 DEF RecoverOrphans, FinishRecovery, Go, Stop, Idle, TypeOK,
     OpRows, IntentRows, ConnectionRows
<1>12. CASE NextRecovery
  BY <1>0, <1>12 DEF NextRecovery, PublicationMatches, FinishRecovery, Go,
     Stop, Idle, TypeOK, OpRows, IntentRows, ConnectionRows
<1>13. CASE ReadCustody
  BY <1>0, <1>13 DEF ReadCustody, Reading, Compare, TypeOK, OpRows, IntentRows,
     ConnectionRows
<1>14. CASE Resolve
  <2>1. op'.step = "none" /\ UNCHANGED <<keychain, tampered, written>>
    BY <1>14 DEF Resolve, FinishRecovery, Stop, Idle
  <2>2. Marked
    BY <1>14 DEF Resolve
  <2>3. CASE ~CanResolve
    BY <1>0, <1>14, <2>1, <2>3 DEF Resolve
  <2>4. CASE CanResolve /\ Resolution = "recovery_required"
    <3>1. intent' = [intent EXCEPT !.phase = "recovery_required"]
            /\ UNCHANGED <<root, connection, stage, ledger, evidence>>
      BY <1>14, <2>4 DEF Resolve
    <3> QED
      BY <1>0, <2>1, <2>2, <3>1 DEF TypeOK, IntentRows
  <2>5. CASE CanResolve /\ Resolution # "recovery_required"
    <3> DEFINE r == Resolution
               t == intent.target
    <3>1. CommitResolution(r)
      BY <1>14, <2>5 DEF Resolve
    <3>2. /\ op.step = "compared"
          /\ r = "confirmed" \/ r = "authority_stale" => op.seen = "target"
          /\ r = "not_observed" => op.seen = "base"
          /\ r \in {"confirmed", "authority_stale", "not_observed"}
      BY <1>14, <2>5 DEF Resolution, Resolve
    <3>3. intent'.phase = "consumed" /\ stage' # "staged"
      BY <1>0, <3>1 DEF CommitResolution, TypeOK, IntentRows
    <3>4. /\ root'.head = root.head + 1
          /\ root'.known = IF r \in {"confirmed", "authority_stale"}
                          THEN t ELSE root.known
          /\ t.generation = root.head + 1 /\ root.head \in Nat
      BY <1>0, <2>2, <3>1 DEF CommitResolution, AdvanceRoot, TypeOK
    <3>5. /\ OpAgrees' /\ SeenStands' /\ NextInLine' /\ DeniedWhileOpen'
      BY <2>1, <3>3
    <3>6. BehindRoot' /\ GenerationStoredOnce'
      <4>1. ledger' = ledger \union {[generation |-> t.generation,
                                     proof |-> t.proof, result |-> r]}
        BY <3>1 DEF CommitResolution, AdvanceRoot
      <4>2. \A l \in ledger' : l.generation <= root'.head
        BY <1>0, <3>4, <4>1 DEF TypeOK, LedgerRows
      <4>3. \A e \in written : e.generation <= root'.head
        BY <1>0, <3>4 DEF TypeOK, Envelopes
      <4> QED
        BY <2>1, <4>2, <4>3
    <3>7. CustodyAccounted'
      BY <2>1, <2>2, <3>2, <3>4
    <3>8. PublicationConfirmed'
      <4>1. CASE r = "confirmed"
        <5>1. connection' = [use |-> "active",
        published |-> t] /\ Confirmation(t) \in ledger'
          BY <3>1, <4>1 DEF CommitResolution, PublicationAfter, AdvanceRoot
        <5>2. t # Absent
          BY <3>4 DEF Absent
        <5> QED
          BY <3>4, <4>1, <5>1, <5>2
      <4>2. CASE connection' = [connection EXCEPT !.use = "active"]
                   /\ r = "not_observed" /\ intent.base # Absent
                   /\ connection.published = intent.base
        <5>1. ledger \subseteq ledger'
          BY <3>1 DEF CommitResolution, AdvanceRoot
        <5> QED
          BY <1>0, <2>2, <3>4, <4>2, <5>1 DEF TypeOK, ConnectionRows
      <4>3. CASE connection' = [use |-> "remediation_required",
      published |-> Absent]
        BY <4>3
      <4> QED
        BY <3>1, <4>1, <4>2, <4>3 DEF CommitResolution, PublicationAfter
    <3>9. EvidenceConfirmed'
      <4>1. ledger \subseteq ledger' /\ (r = "confirmed" => Confirmation(t) \in ledger')
        BY <3>1 DEF CommitResolution, AdvanceRoot
      <4>2. evidence' = IF r = "confirmed" THEN evidence \union {t} ELSE evidence
        BY <3>1 DEF CommitResolution, CommitsStage
      <4> QED
        BY <3>3, <4>1, <4>2
    <3> QED
      BY <1>0, <3>5, <3>6, <3>7, <3>8, <3>9
  <2> QED
    BY <2>3, <2>4, <2>5
<1>15. CASE PrepareObservation
  <2>1. op'.step \in {"reading", "none"}
    <3>1. op \in OpRows
      BY <1>0 DEF TypeOK
    <3>2. CASE CanObserve
      BY Zenon, <1>15, <3>1, <3>2 DEF PrepareObservation, OpRows
    <3>3. CASE ~CanObserve
      BY <1>15, <3>3 DEF PrepareObservation, Stop, Idle
    <3> QED
      BY <3>2, <3>3
  <2>2. UNCHANGED <<db, keychain, tampered, written>>
    BY <1>15 DEF PrepareObservation
  <2> QED
    BY <1>0, <2>1, <2>2
<1>16. CASE LoadCredential
  BY <1>0, <1>16 DEF LoadCredential, Go, Stop, Idle, TypeOK, OpRows,
     IntentRows, ConnectionRows
<1>17. CASE CommitObservation
  BY <1>0, <1>17 DEF CommitObservation, CanObserve, ProvisionSeed, Stop, Idle,
     TypeOK, OpRows, IntentRows, ConnectionRows
<1>18. CASE Abandon
  BY <1>0, <1>18 DEF Abandon, Stop, Idle, TypeOK, OpRows, IntentRows,
     ConnectionRows
<1>19. CASE InspectUnreadable
  BY <1>0, <1>19 DEF InspectUnreadable, Fault, Go, TypeOK, OpRows, IntentRows,
     ConnectionRows
<1>20. CASE WriteFails
  BY <1>0, <1>20 DEF WriteFails, Fault, TypeOK, OpRows, IntentRows,
     ConnectionRows
<1>21. CASE CustodyUnreadable
  BY <1>0, <1>21 DEF CustodyUnreadable, Reading, Fault, TypeOK, OpRows,
     IntentRows, ConnectionRows
<1>22. CASE Crash
  BY <1>0, <1>22 DEF Crash, Fault, Idle, TypeOK, OpRows, IntentRows,
     ConnectionRows
<1>23. CASE ChangeAuthority
  BY <1>0, <1>23 DEF ChangeAuthority, Fault, TypeOK, OpRows, IntentRows,
     ConnectionRows
<1>24. CASE Tamper
  BY <1>0, <1>24 DEF Tamper, Fault, TypeOK, OpRows, IntentRows, ConnectionRows
<1>25. CASE UNCHANGED vars
  BY <1>0, <1>25 DEF vars
<1> QED
  BY Zenon, <1>0, <1>1, <1>2, <1>3, <1>4, <1>5, <1>6, <1>7, <1>8, <1>9, <1>10, <1>11,
     <1>12, <1>13, <1>14, <1>15, <1>16, <1>17, <1>18, <1>19, <1>20, <1>21,
     <1>22, <1>23, <1>24, <1>25 DEF Next, Step, Activation, Recovery,
     Observation

\* The invariant holds in every reachable state.
THEOREM CustodyCorrect == Spec => []CustodyInvariant
<1> QED
  BY InitHolds, InvariantStep, PTL DEF Spec

\* Use is allowed only for the envelope that the root records and the Keychain
\* holds, wherever an activation was cut off.
THEOREM UsableIsStoredHolds == Spec => []UsableIsStored
<1>1. CustodyInvariant => UsableIsStored
  BY DEF CustodyInvariant, UsableIsStored, PublicationConfirmed,
     CustodyAccounted,
         DeniedWhileOpen, Marked, Orphan, Live
<1> QED
  BY <1>1, CustodyCorrect, PTL

\* The database accounts for what the Keychain holds.
THEOREM CustodyAccountedHolds == Spec => []CustodyAccounted
<1>1. CustodyInvariant => CustodyAccounted
  BY DEF CustodyInvariant
<1> QED
  BY <1>1, CustodyCorrect, PTL

\* No generation number is ever stored with two credentials.
THEOREM GenerationStoredOnceHolds == Spec => []GenerationStoredOnce
<1>1. CustodyInvariant => GenerationStoredOnce
  BY DEF CustodyInvariant
<1> QED
  BY <1>1, CustodyCorrect, PTL

\* Evidence is only ever committed for a confirmed credential.
THEOREM EvidenceConfirmedHolds == Spec => []EvidenceConfirmed
<1>1. CustodyInvariant => EvidenceConfirmed
  BY DEF CustodyInvariant
<1> QED
  BY <1>1, CustodyCorrect, PTL

\* The scan of a recovery always finds the base it expects published, so it
\* does not fail on a marked intent.
THEOREM ScanFindsBaseHolds == Spec => []ScanFindsBase
<1>1. CustodyInvariant => ScanFindsBase
  BY DEF CustodyInvariant, ScanFindsBase, DeniedWhileOpen, PublicationMatches,
         Marked, Orphan, Live
<1> QED
  BY <1>1, CustodyCorrect, PTL
=============================================================================
