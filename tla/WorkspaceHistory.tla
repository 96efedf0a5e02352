-------------------------- MODULE WorkspaceHistory --------------------------
(***************************************************************************)
(* The retained history of a workspace: checkpoints and their life cycle,  *)
(* log compaction (modules/workspace/checkpoints), and everybody compaction *)
(* has to wait for: reader cursors, the active device's cursor (modules/    *)
(* workspace/cursors), the checkpoint a bootstrapping device has pinned     *)
(* (modules/devices) and unresolved restore candidates (modules/recovery).  *)
(*                                                                          *)
(* The log holds the revisions after compacted up to head.  An action is one *)
(* database transaction, but for the activation of a device: its two halves *)
(* are the start, whose time decides whether the pin is live, and the end.  *)
(* A refusal changes nothing unless it has an action of its own.  Times are *)
(* remaining lifetimes, and zero has expired.                               *)
(***************************************************************************)
EXTENDS Integers, FiniteSets

CONSTANTS
    Checkpoint,     \* checkpoint ids
    Reader,         \* devices with a reader cursor
    Workflow,       \* bootstrap workflows, each the consumer of one pin
    Candidate,      \* restore candidates
    MaxRevision,    \* bound on the server revision
    PageLimit,      \* the largest bootstrap page, in rows
    LeaseTtl,       \* lifetime of a reader lease, in ticks
    PinTtl,         \* lifetime of a checkpoint pin, in ticks
    CandidateTtl,   \* lifetime of a restore candidate, in ticks
    NoCheckpoint    \* no checkpoint pinned

ASSUME BoundsAssumption ==
    /\ MaxRevision \in Nat
    /\ PageLimit \in Nat \ {0}
    /\ {LeaseTtl, PinTtl, CandidateTtl} \subseteq Nat \ {0}
ASSUME MarkerAssumption == NoCheckpoint \notin Checkpoint

VARIABLES
    head,           \* workspace_revisions.server_revision
    compacted,      \* workspace_revisions.compacted_through_server_revision
    checkpoint,     \* checkpoint[k]: the row of workspace_checkpoints
    reader,         \* reader[d]: the row of workspace_reader_cursors
    active,         \* the active row of workspace_device_cursors: its revision
    boot,           \* boot[w]: device_bootstrap_authorities and its checkpoint pin
    candidate       \* candidate[r]: the row of restore_candidates

vars == <<head, compacted, checkpoint, reader, active, boot, candidate>>

-----------------------------------------------------------------------------
Revision == 0 .. MaxRevision
NoRevision == -1

CheckpointRow ==
    [status : {"none", "building", "verified", "invalid", "available", "superseded"},
     through : Revision]
ReaderRow == [status : {"none", "active", "retired"}, read : Revision, left : 0 .. LeaseTtl]
BootStep == {"pin_checkpoint", "fetch_mutations", "submit_rebuild_digest",
             "ready", "activating", "activated"}
BootRow == [step : BootStep,
            pinned : Checkpoint \cup {NoCheckpoint}, pin : {"none", "held", "released"},
            left : 0 .. PinTtl, from : Revision, target : Revision]
CandidateRow == [status : {"none", "open", "rebase_required", "closed"},
                 comparison : Revision, left : 0 .. CandidateTtl]

Init ==
    /\ head = 0
    /\ compacted = 0
    /\ checkpoint = [k \in Checkpoint |-> [status |-> "none", through |-> 0]]
    /\ reader = [d \in Reader |-> [status |-> "none", read |-> 0, left |-> 0]]
    /\ active = NoRevision
    /\ boot = [w \in Workflow |-> [step |-> "pin_checkpoint", pinned |-> NoCheckpoint,
                                   pin |-> "none", left |-> 0, from |-> 0, target |-> 0]]
    /\ candidate = [r \in Candidate |-> [status |-> "none", comparison |-> 0, left |-> 0]]

\* compareAndAdvance: a push commits a mutation.
Commit ==
    /\ head < MaxRevision
    /\ head' = head + 1
    /\ UNCHANGED <<compacted, checkpoint, reader, active, boot, candidate>>

-----------------------------------------------------------------------------
(* Checkpoints. *)

\* build: a checkpoint is captured at the locked head.  Building an existing id
\* again returns it or is refused.
Build(k) ==
    /\ checkpoint[k].status = "none"
    /\ checkpoint' = [checkpoint EXCEPT ![k] = [status |-> "building", through |-> head]]
    /\ UNCHANGED <<head, compacted, reader, active, boot, candidate>>

\* verify: the recomputed digests agree with the stored ones, or they do not.
Verify(k, verdict) ==
    /\ checkpoint[k].status = "building"
    /\ checkpoint' = [checkpoint EXCEPT ![k].status = verdict]
    /\ UNCHANGED <<head, compacted, reader, active, boot, candidate>>

Publish(k) ==
    /\ checkpoint[k].status = "verified"
    /\ checkpoint' = [checkpoint EXCEPT ![k].status = "available"]
    /\ UNCHANGED <<head, compacted, reader, active, boot, candidate>>

Available == {k \in Checkpoint : checkpoint[k].status = "available"}

\* A pin counts until it is released; supersede and compact first release the
\* ones that have expired.
Holds(w) == boot[w].pin = "held" /\ boot[w].left > 0

ReleaseExpiredPins ==
    boot' = [w \in Workflow |-> IF boot[w].pin = "held" /\ boot[w].left = 0
                                  THEN [boot[w] EXCEPT !.pin = "released"] ELSE boot[w]]

\* Mutant of Supersede: pins are not looked at.
SupersedePinned(k) ==
    /\ k \in Available
    /\ Cardinality(Available) # 1
    /\ checkpoint' = [checkpoint EXCEPT ![k].status = "superseded"]
    /\ ReleaseExpiredPins
    /\ UNCHANGED <<head, compacted, reader, active, candidate>>

\* supersede: not a pinned checkpoint, and not the only available one.  A refusal
\* is an answer, not an error, so the expired pins it released stay released.
SupersedeRefused(k) ==
    /\ k \in Available
    /\ \/ \E w \in Workflow : Holds(w) /\ boot[w].pinned = k
       \/ Cardinality(Available) = 1
    /\ ReleaseExpiredPins
    /\ UNCHANGED <<head, compacted, checkpoint, reader, active, candidate>>

Supersede(k) ==
    /\ k \in Available
    /\ \A w \in Workflow : Holds(w) => boot[w].pinned # k
    /\ Cardinality(Available) # 1
    /\ checkpoint' = [checkpoint EXCEPT ![k].status = "superseded"]
    /\ ReleaseExpiredPins
    /\ UNCHANGED <<head, compacted, reader, active, candidate>>

-----------------------------------------------------------------------------
(* Readers. *)

\* open: a new cursor starts at a revision the log still follows.
OpenReader(d, at) ==
    /\ reader[d].status = "none"
    /\ compacted <= at
    /\ at <= head
    /\ reader' = [reader EXCEPT ![d] = [status |-> "active", read |-> at, left |-> LeaseTtl]]
    /\ UNCHANGED <<head, compacted, checkpoint, active, boot, candidate>>

\* confirmPendingDelivery: progress up to some revision of the log, and a new lease.
AdvanceReader(d, to) ==
    /\ reader[d].status = "active"
    /\ reader[d].left > 0
    /\ reader[d].read <= to
    /\ to <= head
    /\ reader' = [reader EXCEPT ![d] = [@ EXCEPT !.read = to, !.left = LeaseTtl]]
    /\ UNCHANGED <<head, compacted, checkpoint, active, boot, candidate>>

ExpiredReader(d) == reader[d].status = "active" /\ reader[d].left = 0

\* retireIfExpired: a pull of a device whose lease ran out.
RetireReader(d) ==
    /\ ExpiredReader(d)
    /\ reader' = [reader EXCEPT ![d].status = "retired"]
    /\ UNCHANGED <<head, compacted, checkpoint, active, boot, candidate>>

-----------------------------------------------------------------------------
(* The bootstrap of a device that takes over the workspace. *)

\* The pin_checkpoint step: any available checkpoint may be pinned, whatever has
\* been compacted; the head becomes the revision to rebuild up to.
PinCheckpoint(w, k) ==
    /\ boot[w].step = "pin_checkpoint"
    /\ k \in Available
    /\ boot' = [boot EXCEPT ![w] = [step |-> "fetch_mutations", pinned |-> k, pin |-> "held",
                                    left |-> PinTtl, from |-> checkpoint[k].through,
                                    target |-> head]]
    /\ UNCHANGED <<head, compacted, checkpoint, reader, active, candidate>>

PageEnd(target, from, pageLimit) ==
    IF target < from + pageLimit THEN target ELSE from + pageLimit

\* The authority moves past the page; without a next cursor the digest is due.
Fetched(b, end) ==
    [b EXCEPT !.from = end, !.step = IF end = b.target THEN "submit_rebuild_digest" ELSE b.step]

\* The fetch_mutations step: the device names the size of the page, which has to
\* be dense, so the log has to hold it.  The pin is not looked at.
FetchMutations(w, pageLimit) ==
    /\ boot[w].step = "fetch_mutations"
    /\ LET end == PageEnd(boot[w].target, boot[w].from, pageLimit)
       IN  /\ compacted <= boot[w].from \/ end = boot[w].from
           /\ boot' = [boot EXCEPT ![w] = Fetched(boot[w], end)]
    /\ UNCHANGED <<head, compacted, checkpoint, reader, active, candidate>>

\* The submit_rebuild_digest step: the digest is compared with the live portfolio,
\* so the head must still be the target.
SubmitRebuildDigest(w) ==
    /\ boot[w].step = "submit_rebuild_digest"
    /\ head = boot[w].target
    /\ boot' = [boot EXCEPT ![w].step = "ready"]
    /\ UNCHANGED <<head, compacted, checkpoint, reader, active, candidate>>

\* activate, up to the signing of the lease: the pin has to outlive the start of
\* the transaction.  The head is not locked.
BeginActivate(w) ==
    /\ boot[w].step = "ready"
    /\ boot[w].left > 0
    /\ boot' = [boot EXCEPT ![w].step = "activating"]
    /\ UNCHANGED <<head, compacted, checkpoint, reader, active, candidate>>

\* activate is refused or fails before it commits.
RollBackActivate(w) ==
    /\ boot[w].step = "activating"
    /\ boot' = [boot EXCEPT ![w].step = "ready"]
    /\ UNCHANGED <<head, compacted, checkpoint, reader, active, candidate>>

\* The rest of activate: the active cursor of the replaced device is retired, the
\* new device's starts at the target, and the pin is released.
CommitActivate(w) ==
    /\ boot[w].step = "activating"
    /\ active' = boot[w].target
    /\ boot' = [boot EXCEPT ![w] = [@ EXCEPT !.step = "activated", !.pin = "released"]]
    /\ UNCHANGED <<head, compacted, checkpoint, reader, candidate>>

-----------------------------------------------------------------------------
(* Restore candidates. *)

\* Mutant of CreateCandidate: an older baseline than the head is accepted.
CreateCandidateAnywhere(r) ==
    /\ candidate[r].status = "none"
    /\ candidate' = [candidate EXCEPT ![r] = [status |-> "open", comparison |-> 0,
                                              left |-> CandidateTtl]]
    /\ UNCHANGED <<head, compacted, checkpoint, reader, active, boot>>

\* create: the pinned baseline has to be the locked head.
CreateCandidate(r) ==
    /\ candidate[r].status = "none"
    /\ candidate' = [candidate EXCEPT ![r] = [status |-> "open", comparison |-> head,
                                              left |-> CandidateTtl]]
    /\ UNCHANGED <<head, compacted, checkpoint, reader, active, boot>>

\* transition: to rebase_required, or to one of the terminal states.
TransitionCandidate(r, to) ==
    /\ candidate[r].status \in {"open", "rebase_required"}
    /\ candidate' = [candidate EXCEPT ![r].status = to]
    /\ UNCHANGED <<head, compacted, checkpoint, reader, active, boot>>

Unresolved(r) == candidate[r].status \in {"open", "rebase_required"} /\ candidate[r].left > 0

-----------------------------------------------------------------------------
(* Compaction. *)

ReaderBounds ==
    {reader[d].read : d \in {d \in Reader : reader[d].status = "active" /\ reader[d].left > 0}}
PinBounds == {checkpoint[boot[w].pinned].through : w \in {w \in Workflow : Holds(w)}}
CandidateBounds == {candidate[r].comparison : r \in {r \in Candidate : Unresolved(r)}}
ActiveBounds == {active} \ {NoRevision}

\* Mutant of Bounds: the active device's cursor is forgotten.
BoundsWithoutActive == ReaderBounds \cup PinBounds \cup CandidateBounds

\* What compact takes the minimum of, after it has retired expired readers and
\* released expired pins.
Bounds == ReaderBounds \cup PinBounds \cup CandidateBounds \cup ActiveBounds

\* compact, workspace_compaction_advance and workspace_compaction_delete_prefix.
Compact(through) ==
    /\ compacted < through
    /\ through <= head
    /\ \A bound \in Bounds : through <= bound
    /\ \E k \in Available : through <= checkpoint[k].through
    /\ reader' = [d \in Reader |-> IF ExpiredReader(d)
                                     THEN [reader[d] EXCEPT !.status = "retired"] ELSE reader[d]]
    /\ ReleaseExpiredPins
    /\ compacted' = through
    /\ UNCHANGED <<head, checkpoint, active, candidate>>

Less(n) == IF n > 0 THEN n - 1 ELSE 0

Tick ==
    /\ reader' = [d \in Reader |-> [reader[d] EXCEPT !.left = Less(@)]]
    /\ boot' = [w \in Workflow |-> [boot[w] EXCEPT !.left = Less(@)]]
    /\ candidate' = [r \in Candidate |-> [candidate[r] EXCEPT !.left = Less(@)]]
    /\ UNCHANGED <<head, compacted, checkpoint, active>>

-----------------------------------------------------------------------------
Next ==
    \/ Commit
    \/ \E k \in Checkpoint : \/ Build(k)
                             \/ \E verdict \in {"verified", "invalid"} : Verify(k, verdict)
                             \/ Publish(k)
                             \/ Supersede(k)
                             \/ SupersedeRefused(k)
    \/ \E d \in Reader : \/ \E at \in Revision : OpenReader(d, at) \/ AdvanceReader(d, at)
                         \/ RetireReader(d)
    \/ \E w \in Workflow : \/ \E k \in Checkpoint : PinCheckpoint(w, k)
                           \/ \E pageLimit \in 1 .. PageLimit : FetchMutations(w, pageLimit)
                           \/ SubmitRebuildDigest(w)
                           \/ BeginActivate(w)
                           \/ RollBackActivate(w)
                           \/ CommitActivate(w)
    \/ \E r \in Candidate : \/ CreateCandidate(r)
                            \/ \E to \in {"rebase_required", "closed"} : TransitionCandidate(r, to)
    \/ \E through \in Revision : Compact(through)
    \/ Tick

Spec == Init /\ [][Next]_vars

-----------------------------------------------------------------------------
\* Type correctness of the rows.
TypeOK ==
    /\ head \in Revision
    /\ compacted \in Revision
    /\ checkpoint \in [Checkpoint -> CheckpointRow]
    /\ reader \in [Reader -> ReaderRow]
    /\ active \in Revision \cup {NoRevision}
    /\ boot \in [Workflow -> BootRow]
    /\ candidate \in [Candidate -> CandidateRow]

\* Nobody who is owed the log loses it: what an active reader has still to read
\* and the comparison revision of an unresolved restore candidate stay at or above
\* the compaction watermark, whatever expires, is pinned or is activated meanwhile.
OwedHistoryKept ==
    /\ \A d \in Reader : reader[d].status = "active" => compacted <= reader[d].read
    /\ \A r \in Candidate : Unresolved(r) => compacted <= candidate[r].comparison

\* A device activated while its checkpoint pin is live starts at a revision the log
\* still follows, and no compaction passes the active device's cursor.  (A pin that
\* runs out while its activation is under way no longer holds compaction back.)
ActiveDeviceKeepsHistory ==
    [][(\/ compacted' # compacted
        \/ \E w \in Workflow : boot[w].left > 0 /\ boot[w].step = "activating"
                               /\ boot'[w].step = "activated")
       => active' = NoRevision \/ compacted' <= active']_vars

\* A checkpoint stays available for as long as somebody holds a live pin on it:
\* supersede can never take it away under a bootstrap.
PinnedStaysAvailable ==
    \A w \in Workflow : Holds(w) => boot[w].pinned \in Available

\* Compaction never takes the log that follows a pinned checkpoint from a
\* bootstrap: once its next page can be read, it can be read while the pin lives.
BootstrapKeepsItsLog ==
    [][\A w \in Workflow :
          (Holds(w) /\ Holds(w)' /\ compacted <= boot[w].from) => compacted' <= boot'[w].from]_vars

\* Whatever has been compacted, some checkpoint remains available: supersede
\* refuses the last one.
SomeCheckpointLeft == compacted > 0 => Available # {}

=============================================================================
