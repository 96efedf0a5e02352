-------------------------- MODULE CredentialCustody --------------------------
(***************************************************************************)
(* Activation of a Cloudflare credential across two stores that share no   *)
(* transaction: the workspace database (root, connection, intent, ledger,  *)
(* staged observation) and the operating system's Keychain.  One provider  *)
(* lane runs activations, observations and recoveries one at a time; the   *)
(* process may die between any two steps, the authority it was admitted    *)
(* under may change, and Keychain calls may fail.                          *)
(*                                                                         *)
(* An envelope is the public tuple of a stored credential: its generation  *)
(* and the random proof drawn when it was prepared.  Authority digests are *)
(* compared for equality with the current one only, so intent and          *)
(* operation keep a flag "current" that a change of authority clears.      *)
(***************************************************************************)
EXTENDS Naturals, FiniteSets

CONSTANTS MaxAttempts, \* preparations
          MaxFaults    \* crashes, authority changes, Keychain failures

ASSUME BoundsAssumption == MaxAttempts \in Nat /\ MaxFaults \in Nat

VARIABLES root,        \* highest resolved generation, last known envelope
          connection,  \* credential use state and published envelope
          intent,      \* the newest credential intent
          stage,       \* visibility of the intent's staged observation
          ledger,      \* resolved generations
          evidence,    \* envelopes that committed observations were made with
          keychain,    \* the envelope in the Keychain
          lane,        \* recovery gate and queue of the provider lane
          op,          \* what the lane is executing
          quarantined, \* connection denied in memory
          attempts, faults, tampered,
          written      \* history: every envelope this program stored

db == <<root, connection, intent, stage, ledger, evidence>>
vars == <<db, keychain, lane, op, quarantined, attempts, faults, tampered,
          written>>

Absent == [generation |-> 0, proof |-> 0]
\* A Keychain item that is malformed or was not written by an activation.
Foreign == [generation |-> 0, proof |-> MaxAttempts + 1]

Idle == [kind |-> "none", step |-> "none", current |-> TRUE,
         base |-> Absent, seen |-> "none"]

Startup == [recovering |-> TRUE, asked |-> TRUE, latest |-> FALSE,
            queued |-> "none"]

Init == /\ root = [head |-> 0, known |-> Absent]
        /\ connection = [use |-> "inactive", published |-> Absent]
        /\ intent = [phase |-> "none", target |-> Absent, base |-> Absent,
                     expected |-> 0, current |-> FALSE]
        /\ stage = "none"
        /\ ledger = {}
        /\ evidence = {}
        /\ keychain = Absent
        /\ lane = Startup
        /\ op = Idle
        /\ quarantined = FALSE
        /\ attempts = 0 /\ faults = 0 /\ tampered = FALSE
        /\ written = {}

Marked == intent.phase \in {"keychain_write_started", "recovery_required"}
OrphanUntilResolved == ~(intent.phase \in {"none", "cancelled", "consumed"}) \* mutant
Orphan == intent.phase \in {"prepared", "prewrite_inspection_started"}
Live == Marked \/ Orphan

\* An activation may start: use is settled and no intent is live.
ProvisionSeed == connection.use \in {"inactive", "active"} /\ ~Live

\* An active witness must be the published one; an absent one means none is.
PublicationMatches(witness) == connection.published = witness

At(kind, step) == op.kind = kind /\ op.step = step
Fault == faults < MaxFaults /\ faults' = faults + 1
Go(step) == op' = [op EXCEPT !.step = step]
Stop == op' = Idle

-----------------------------------------------------------------------------
(* The lane.  A recovery lifts the gate only if no other was asked for     *)
(* since it began, which the code tells from a generation number.          *)

\* A published session, a wake-up or the start of the program.
RequestRecovery ==
  /\ lane' = [lane EXCEPT !.recovering = TRUE, !.asked = TRUE, !.latest = FALSE]
  /\ UNCHANGED <<db, keychain, op, quarantined, attempts, faults, tampered, written>>

Submit(kind) ==
  /\ ~lane.recovering
  /\ lane.queued = "none" /\ op.kind = "none"
  /\ kind = "activate" => attempts < MaxAttempts
  /\ lane' = [lane EXCEPT !.queued = kind]
  /\ UNCHANGED <<db, keychain, op, quarantined, attempts, faults, tampered, written>>

StartRecovery ==
  /\ op.kind = "none" /\ lane.asked
  /\ lane' = [lane EXCEPT !.asked = FALSE, !.latest = TRUE]
  /\ op' = [Idle EXCEPT !.kind = "recover", !.step = "orphans"]
  /\ UNCHANGED <<db, keychain, quarantined, attempts, faults, tampered, written>>

\* The queued operation runs unless a recovery is waiting; an activation or
\* observation of a quarantined connection ends at once.
StartOperation ==
  /\ op.kind = "none" /\ ~lane.asked /\ lane.queued # "none"
  /\ lane' = [lane EXCEPT !.queued = "none"]
  /\ op' = IF quarantined \/ (lane.queued = "activate" /\ ~ProvisionSeed)
           THEN Idle
           ELSE [Idle EXCEPT !.kind = lane.queued, !.step = "admitted"]
  /\ UNCHANGED <<db, keychain, quarantined, attempts, faults, tampered, written>>

FinishRecovery(complete) ==
  /\ lane' = [lane EXCEPT !.recovering = @ /\ ~(complete /\ lane.latest)]
  /\ Stop

-----------------------------------------------------------------------------
(* Activation.  Every database write is refused once the operation's       *)
(* admission is no longer current.                                         *)

TakenGeneration == IF root.head = 0 THEN 1 ELSE root.head \* mutant
NextGeneration == root.head + 1

Prepare ==
  /\ At("activate", "admitted")
  /\ IF op.current /\ ProvisionSeed
     THEN /\ attempts' = attempts + 1
          /\ intent' = [phase |-> "prepared", base |-> Absent,
                        target |-> [generation |-> NextGeneration,
                                    proof |-> attempts + 1],
                        expected |-> root.head, current |-> TRUE]
          /\ stage' = "staged"
          /\ op' = [op EXCEPT !.step = "prepared", !.base = root.known]
     ELSE Stop /\ UNCHANGED <<intent, stage, attempts>>
  /\ UNCHANGED <<root, connection, ledger, evidence, keychain, lane,
                 quarantined, faults, tampered, written>>

\* The user closes the prompt, or the provider rejects the token.
Abandon ==
  /\ op.step = "admitted"
  /\ Stop
  /\ UNCHANGED <<db, keychain, lane, quarantined, attempts, faults, tampered, written>>

BeginPrewriteInUse == \* mutant: use is not denied before the Keychain is entered
  /\ At("activate", "prepared")
  /\ IF op.current /\ intent.current /\ intent.phase = "prepared"
        /\ PublicationMatches(root.known)
     THEN /\ intent' = [intent EXCEPT !.phase = "prewrite_inspection_started"]
          /\ Go("inspecting")
     ELSE Stop /\ UNCHANGED intent
  /\ UNCHANGED <<root, connection, stage, ledger, evidence, keychain, lane,
                 quarantined, attempts, faults, tampered, written>>

BeginPrewrite ==
  /\ At("activate", "prepared")
  /\ IF op.current /\ intent.current /\ intent.phase = "prepared"
        /\ PublicationMatches(root.known)
     THEN /\ intent' = [intent EXCEPT !.phase = "prewrite_inspection_started"]
          /\ connection' = [connection EXCEPT !.use = "transition_pending"]
          /\ Go("inspecting")
     ELSE Stop /\ UNCHANGED <<intent, connection>>
  /\ UNCHANGED <<root, stage, ledger, evidence, keychain, lane, quarantined,
                 attempts, faults, tampered, written>>

\* Under the Keychain lock: only the expected base may be replaced.
Inspect ==
  /\ At("activate", "inspecting")
  /\ Go(IF keychain = op.base THEN "matched" ELSE "contradicted")
  /\ UNCHANGED <<db, keychain, lane, quarantined, attempts, faults, tampered, written>>

InspectUnreadable ==
  /\ At("activate", "inspecting")
  /\ Fault
  /\ Go("contradicted")
  /\ UNCHANGED <<db, keychain, lane, quarantined, attempts, tampered, written>>

\* A contradiction that cannot be stored is kept in memory.
Remediate ==
  /\ At("activate", "contradicted")
  /\ IF op.current
     THEN /\ intent' = [intent EXCEPT !.phase = "cancelled"]
          /\ stage' = "discarded"
          /\ connection' = [connection EXCEPT !.use = "remediation_required"]
          /\ UNCHANGED quarantined
     ELSE quarantined' = TRUE /\ UNCHANGED <<intent, stage, connection>>
  /\ Stop
  /\ UNCHANGED <<root, ledger, evidence, keychain, lane, attempts, faults,
                 tampered, written>>

MarkWriteStarted ==
  /\ At("activate", "matched")
  /\ IF op.current /\ intent.current
        /\ intent.phase = "prewrite_inspection_started"
        /\ PublicationMatches(root.known)
     THEN /\ intent' = [intent EXCEPT !.phase = "keychain_write_started",
                                      !.base = root.known]
          /\ Go("marked")
     ELSE Stop /\ UNCHANGED intent
  /\ UNCHANGED <<root, connection, stage, ledger, evidence, keychain, lane,
                 quarantined, attempts, faults, tampered, written>>

WriteKeychain ==
  /\ At("activate", "marked")
  /\ keychain' = intent.target
  /\ written' = written \union {intent.target}
  /\ Go("written")
  /\ UNCHANGED <<db, lane, quarantined, attempts, faults, tampered>>

\* The call reports an error; whether the item was stored is unknown.
WriteFails ==
  /\ At("activate", "marked")
  /\ Fault
  /\ \/ /\ keychain' = intent.target
        /\ written' = written \union {intent.target}
     \/ UNCHANGED <<keychain, written>>
  /\ op' = [op EXCEPT !.step = "compared", !.seen = "other"]
  /\ UNCHANGED <<db, lane, quarantined, attempts, tampered>>

-----------------------------------------------------------------------------
(* Comparing custody and resolving a marked intent, at the end of an       *)
(* activation and in a recovery.                                           *)

Compare(base, target) == IF keychain = target THEN "target"
                         ELSE IF keychain = base THEN "base" ELSE "other"

Reading == At("activate", "written") \/ At("recover", "custody")

ReadCustody ==
  /\ Reading
  /\ op' = [op EXCEPT !.step = "compared",
                      !.seen = Compare(intent.base, intent.target)]
  /\ UNCHANGED <<db, keychain, lane, quarantined, attempts, faults, tampered, written>>

CustodyUnreadable ==
  /\ Reading
  /\ Fault
  /\ op' = [op EXCEPT !.step = "compared", !.seen = "other"]
  /\ UNCHANGED <<db, keychain, lane, quarantined, attempts, tampered, written>>

Resolution == CASE op.seen = "target" -> IF intent.current THEN "confirmed" ELSE "authority_stale"
                [] op.seen = "base" -> "not_observed"
                [] OTHER -> "recovery_required"

\* Append to the ledger and advance the root.
AdvanceRoot(resolution) ==
  /\ ledger' = ledger \union {[generation |-> intent.target.generation,
                               proof |-> intent.target.proof,
                               result |-> resolution]}
  /\ root' = [head |-> intent.target.generation,
              known |-> IF resolution \in {"confirmed", "authority_stale"}
                        THEN intent.target ELSE root.known]

\* Use is allowed again for the new credential, or for the old one when it
\* was found in place under the authority the intent was prepared with.
PublicationAfter(resolution) ==
  CASE resolution = "confirmed" ->
         [use |-> "active", published |-> intent.target]
    [] /\ resolution = "not_observed" /\ intent.current
       /\ intent.base # Absent /\ connection.published = intent.base ->
         [connection EXCEPT !.use = "active"]
    [] OTHER -> [use |-> "remediation_required", published |-> Absent]

\* The staged observation is made visible.
CommitsStage(resolution) == resolution = "confirmed"

CommitResolution(resolution) ==
  /\ AdvanceRoot(resolution)
  /\ connection' = PublicationAfter(resolution)
  /\ stage' = IF CommitsStage(resolution) THEN "committed" ELSE "discarded"
  /\ evidence' = IF CommitsStage(resolution)
                 THEN evidence \union {intent.target} ELSE evidence
  /\ intent' = [intent EXCEPT !.phase = "consumed"]

\* The transaction fails on a stale admission, an intent that is not marked,
\* a head that moved or a generation already in the ledger.
CanResolve == /\ op.current /\ Marked
              /\ \/ Resolution = "recovery_required"
                 \/ /\ root.head = intent.expected
                    /\ \A e \in ledger : e.generation # intent.target.generation

Resolve ==
  /\ op.step = "compared"
  /\ IF ~CanResolve THEN UNCHANGED db
     ELSE IF Resolution = "recovery_required"
     THEN /\ intent' = [intent EXCEPT !.phase = "recovery_required"]
          /\ UNCHANGED <<root, connection, stage, ledger, evidence>>
     ELSE CommitResolution(Resolution)
  /\ IF op.kind = "recover" THEN FinishRecovery(CanResolve)
     ELSE Stop /\ UNCHANGED lane
  /\ UNCHANGED <<keychain, quarantined, attempts, faults, tampered, written>>

-----------------------------------------------------------------------------
(* Recovery: orphans are cancelled, then each marked intent is compared    *)
(* with the Keychain.  It never writes the Keychain.                       *)

RecoverOrphans ==
  /\ At("recover", "orphans")
  /\ IF op.current
     THEN /\ intent' = [intent EXCEPT !.phase = IF Orphan THEN "cancelled" ELSE @]
          /\ stage' = IF Orphan THEN "discarded" ELSE stage
          /\ connection' = IF intent.phase = "prewrite_inspection_started"
                           THEN [connection EXCEPT !.use = "remediation_required"]
                           ELSE connection
          /\ Go("scan")
          /\ UNCHANGED lane
     ELSE FinishRecovery(FALSE) /\ UNCHANGED <<intent, stage, connection>>
  /\ UNCHANGED <<root, ledger, evidence, keychain, quarantined, attempts,
                 faults, tampered, written>>

NextRecoveryOnce == \* mutant: an intent found undecided is not looked at again
  /\ At("recover", "scan")
  /\ IF op.current /\ intent.phase = "keychain_write_started"
        /\ PublicationMatches(intent.base)
     THEN Go("custody") /\ UNCHANGED lane
     ELSE FinishRecovery(TRUE)
  /\ UNCHANGED <<db, keychain, quarantined, attempts, faults, tampered, written>>

NextRecovery ==
  /\ At("recover", "scan")
  /\ IF op.current /\ Marked /\ PublicationMatches(intent.base)
     THEN Go("custody") /\ UNCHANGED lane
     ELSE FinishRecovery(op.current /\ ~Marked)
  /\ UNCHANGED <<db, keychain, quarantined, attempts, faults, tampered, written>>

-----------------------------------------------------------------------------
(* Observation with the stored credential.                                 *)

CanObserve == /\ op.current /\ ProvisionSeed
              /\ connection.use = "active"
              /\ root.known = connection.published

PrepareObservation ==
  /\ At("observe", "admitted")
  /\ IF CanObserve
     THEN op' = [op EXCEPT !.step = "reading", !.base = connection.published]
     ELSE Stop
  /\ UNCHANGED <<db, keychain, lane, quarantined, attempts, faults, tampered, written>>

\* The item must be the published envelope; then the provider is asked.
LoadCredential ==
  /\ At("observe", "reading")
  /\ IF keychain = op.base THEN Go("observed") ELSE Stop
  /\ UNCHANGED <<db, keychain, lane, quarantined, attempts, faults, tampered, written>>

CommitObservation ==
  /\ At("observe", "observed")
  /\ evidence' = IF CanObserve /\ connection.published = op.base
                 THEN evidence \union {op.base} ELSE evidence
  /\ Stop
  /\ UNCHANGED <<root, connection, intent, stage, ledger, keychain, lane,
                 quarantined, attempts, faults, tampered, written>>

-----------------------------------------------------------------------------
(* Faults.                                                                 *)

\* The process dies; starting again opens a lane that asks for recovery.
Crash ==
  /\ Fault
  /\ op' = Idle /\ lane' = Startup /\ quarantined' = FALSE
  /\ UNCHANGED <<db, keychain, attempts, tampered, written>>

ChangeAuthority ==
  /\ Fault
  /\ op' = [op EXCEPT !.current = FALSE]
  /\ intent' = [intent EXCEPT !.current = FALSE]
  /\ UNCHANGED <<root, connection, stage, ledger, evidence, keychain, lane,
                 quarantined, attempts, tampered, written>>

\* The user or another program removes or replaces the Keychain item.
Tamper ==
  /\ ~tampered /\ Fault
  /\ tampered' = TRUE
  /\ keychain' \in {Absent, Foreign}
  /\ UNCHANGED <<db, lane, op, quarantined, attempts, written>>

Activation == \/ Prepare \/ BeginPrewrite \/ Inspect \/ Remediate
              \/ MarkWriteStarted \/ WriteKeychain
Recovery == RecoverOrphans \/ NextRecovery
Observation == PrepareObservation \/ LoadCredential \/ CommitObservation
Step == \/ StartRecovery \/ StartOperation \/ Activation \/ Recovery
        \/ ReadCustody \/ Resolve \/ Observation

Next == \/ RequestRecovery
        \/ \E kind \in {"activate", "observe"} : Submit(kind)
        \/ Step \/ Abandon
        \/ InspectUnreadable \/ WriteFails \/ CustodyUnreadable
        \/ Crash \/ ChangeAuthority \/ Tamper

\* The lane drains what it admitted, and sessions are published again and
\* again (every token refresh), each asking for a recovery.
Spec == /\ Init /\ [][Next]_vars
        /\ WF_vars(Step) /\ WF_vars(RequestRecovery)

-----------------------------------------------------------------------------
Envelopes == [generation : Nat, proof : Nat]

Phases == {"none", "prepared", "prewrite_inspection_started",
           "keychain_write_started", "recovery_required", "cancelled",
           "consumed"}

Steps == {"none", "admitted", "prepared", "inspecting", "matched", "contradicted",
          "marked", "written", "compared", "orphans", "scan", "custody",
          "reading", "observed"}

ConnectionRows == [use : {"inactive", "active", "transition_pending",
                          "remediation_required"}, published : Envelopes]
IntentRows == [phase : Phases, target : Envelopes, base : Envelopes,
               expected : Nat, current : BOOLEAN]
LedgerRows == [generation : Nat, proof : Nat,
               result : {"confirmed", "not_observed", "authority_stale"}]
LaneRows == [recovering : BOOLEAN, asked : BOOLEAN, latest : BOOLEAN,
             queued : {"none", "activate", "observe"}]
OpRows == [kind : {"none", "activate", "observe", "recover"}, step : Steps,
           current : BOOLEAN, base : Envelopes,
           seen : {"none", "target", "base", "other"}]

\* Every variable has the shape its table, Keychain item or lane state has.
TypeOK ==
  /\ root \in [head : Nat, known : Envelopes]
  /\ connection \in ConnectionRows /\ intent \in IntentRows
  /\ stage \in {"none", "staged", "committed", "discarded"}
  /\ ledger \subseteq LedgerRows
  /\ evidence \subseteq Envelopes /\ written \subseteq Envelopes
  /\ keychain \in Envelopes
  /\ lane \in LaneRows /\ op \in OpRows
  /\ quarantined \in BOOLEAN /\ tampered \in BOOLEAN
  /\ faults \in Nat /\ attempts \in Nat

\* A connection whose credential may be used publishes exactly the envelope
\* in the Keychain, and it is the one the root records: whatever step an
\* activation, a crash or a change of authority interrupted, no use is
\* allowed while the two stores disagree.
UsableIsStored ==
  connection.use = "active" /\ ~tampered =>
    /\ connection.published # Absent
    /\ connection.published = root.known
    /\ connection.published = keychain

\* What the Keychain holds is always accounted for in the database: it is the
\* envelope the root records, or the target of the intent that recovery will
\* resolve.  No crash loses track of a stored credential.
CustodyAccounted ==
  ~tampered => \/ keychain = root.known
               \/ Marked /\ keychain = intent.target

\* No two different credentials are ever stored under one generation, though
\* a cancelled preparation gives its number back.
GenerationStoredOnce ==
  \A a, b \in written : a.generation = b.generation => a = b

\* The scan of a recovery never meets a marked intent whose base differs from
\* the publication; it would fail there on every run, and the lane would stay
\* closed.
ScanFindsBase == Marked => PublicationMatches(intent.base)

\* Every committed observation was made with a credential that the ledger
\* confirms, and a staged one belongs to an intent that is still open.
EvidenceConfirmed ==
  /\ \A e \in evidence : \E l \in ledger :
        l = [generation |-> e.generation, proof |-> e.proof, result |-> "confirmed"]
  /\ stage = "staged" <=> Live

\* An intent does not stay open for ever: with the Keychain item untouched by
\* others, recoveries end every activation that was cut off, so that the
\* connection is not blocked by it.
IntentSettles == Live ~> (~Live \/ tampered)
=============================================================================
