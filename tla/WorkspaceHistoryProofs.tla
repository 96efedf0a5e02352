----------------------- MODULE WorkspaceHistoryProofs -----------------------
(* What WorkspaceHistory keeps for everybody who still needs the log or a    *)
(* checkpoint, for any number of readers, bootstraps, candidates and          *)
(* checkpoints and any lifetimes.                                             *)
(*                                                                            *)
(* The inductive invariant adds to the properties how the revisions of a      *)
(* bootstrap are ordered (checkpoint, progress, target, head) and that its    *)
(* pin is held from the moment it is taken until it expires or its device is  *)
(* activated.                                                                 *)
EXTENDS WorkspaceHistory, FiniteSetTheorems, TLAPS

\* Every checkpoint was captured at a revision of the workspace.
CapturedBelowHead == \A k \in Checkpoint : checkpoint[k].through <= head

\* A bootstrap reads from its checkpoint up to its target, which it has not passed.
BootOrdered ==
    \A w \in Workflow : boot[w].step # "pin_checkpoint" =>
        /\ boot[w].pinned \in Checkpoint
        /\ checkpoint[boot[w].pinned].status # "none"
        /\ checkpoint[boot[w].pinned].through <= boot[w].from
        /\ boot[w].from <= boot[w].target
        /\ boot[w].target <= head

\* A pin exists once the checkpoint is chosen, and until it expires it is held
\* unless the device has been activated.
PinHeld ==
    \A w \in Workflow :
        /\ (boot[w].step = "pin_checkpoint") <=> (boot[w].pin = "none")
        /\ boot[w].step \notin {"pin_checkpoint", "activated"} /\ boot[w].left > 0
             => boot[w].pin = "held"

\* While the pin is live, compaction has not passed the target.
TargetKept == \A w \in Workflow : Holds(w) => compacted <= boot[w].target

HistoryInvariant ==
    /\ TypeOK
    /\ compacted <= head
    /\ CapturedBelowHead
    /\ BootOrdered
    /\ PinHeld
    /\ TargetKept
    /\ PinnedStaysAvailable
    /\ OwedHistoryKept
    /\ SomeCheckpointLeft

-----------------------------------------------------------------------------
\* Types

\* The lifetimes are positive numbers.
LEMMA Lifetimes == LeaseTtl \in Nat \ {0} /\ PinTtl \in Nat \ {0} /\ CandidateTtl \in Nat \ {0}
  <1>1. LeaseTtl \in {LeaseTtl, PinTtl, CandidateTtl} /\ PinTtl \in {LeaseTtl, PinTtl, CandidateTtl}
        /\ CandidateTtl \in {LeaseTtl, PinTtl, CandidateTtl}
    OBVIOUS
  <1> QED
    BY <1>1, BoundsAssumption

\* A tick takes one unit of a lifetime and never goes below zero.
LEMMA LessLeft ==
  ASSUME NEW ttl \in Nat, NEW n \in 0 .. ttl
  PROVE  Less(n) \in 0 .. ttl /\ Less(n) <= n
  BY DEF Less

\* The initial state satisfies the invariant.
LEMMA InitHistory == Init => HistoryInvariant
  <1> SUFFICES ASSUME Init PROVE HistoryInvariant
    OBVIOUS
  <1>1. TypeOK
    BY BoundsAssumption, Lifetimes DEF Init, TypeOK, Revision, NoRevision, CheckpointRow, ReaderRow, BootRow,
       BootStep, CandidateRow
  <1>2. compacted <= head /\ CapturedBelowHead /\ SomeCheckpointLeft
    BY DEF Init, CapturedBelowHead, SomeCheckpointLeft
  <1>3. BootOrdered /\ PinHeld
    BY DEF Init, BootOrdered, PinHeld
  <1>4. TargetKept /\ PinnedStaysAvailable
    BY DEF Init, TargetKept, PinnedStaysAvailable, Holds
  <1>5. OwedHistoryKept
    BY DEF Init, OwedHistoryKept, Unresolved
  <1> QED
    BY <1>1, <1>2, <1>3, <1>4, <1>5 DEF HistoryInvariant

\* An update of one row keeps the table a table of rows.
LEMMA CheckpointUpdate ==
  ASSUME TypeOK, NEW k \in Checkpoint,
         NEW status \in {"none", "building", "verified", "invalid", "available", "superseded"},
         checkpoint' = [checkpoint EXCEPT ![k].status = status]
  PROVE  checkpoint' \in [Checkpoint -> CheckpointRow]
  BY DEF TypeOK, CheckpointRow

\* Releasing the expired pins changes nothing but the pins of expired rows.
LEMMA Releasing ==
  ASSUME TypeOK, ReleaseExpiredPins
  PROVE  /\ boot' \in [Workflow -> BootRow]
         /\ \A w \in Workflow :
              /\ boot'[w].step = boot[w].step /\ boot'[w].pinned = boot[w].pinned
              /\ boot'[w].left = boot[w].left /\ boot'[w].from = boot[w].from
              /\ boot'[w].target = boot[w].target
              /\ boot[w].left > 0 => boot'[w].pin = boot[w].pin
              /\ boot'[w].pin = boot[w].pin \/ (boot[w].pin = "held" /\ boot'[w].pin = "released")
  BY DEF TypeOK, ReleaseExpiredPins, BootRow

\* Type correctness is preserved by every action.
LEMMA TypeStep == ASSUME TypeOK, [Next]_vars PROVE TypeOK'
  <1> USE BoundsAssumption, Lifetimes
  <1>1. CASE Commit
    BY <1>1 DEF Commit, TypeOK, Revision
  <1>2. ASSUME NEW k \in Checkpoint, Build(k) PROVE TypeOK'
    BY <1>2 DEF Build, TypeOK, CheckpointRow
  <1>3. ASSUME NEW k \in Checkpoint, NEW verdict \in {"verified", "invalid"}, Verify(k, verdict)
        PROVE TypeOK'
    BY Zenon, <1>3, CheckpointUpdate DEF Verify, TypeOK
  <1>4. ASSUME NEW k \in Checkpoint, Publish(k) PROVE TypeOK'
    BY Zenon, <1>4, CheckpointUpdate DEF Publish, TypeOK
  <1>5. ASSUME NEW k \in Checkpoint, Supersede(k) PROVE TypeOK'
    BY Zenon, <1>5, CheckpointUpdate, Releasing DEF Supersede, TypeOK
  <1>6. ASSUME NEW k \in Checkpoint, SupersedeRefused(k) PROVE TypeOK'
    BY <1>6, Releasing DEF SupersedeRefused, TypeOK
  <1>7. ASSUME NEW d \in Reader, NEW at \in Revision, OpenReader(d, at) PROVE TypeOK'
    BY <1>7 DEF OpenReader, TypeOK, ReaderRow
  <1>8. ASSUME NEW d \in Reader, NEW at \in Revision, AdvanceReader(d, at) PROVE TypeOK'
    <2>1. reader[d] \in ReaderRow /\ reader \in [Reader -> ReaderRow]
      BY DEF TypeOK
    <2>2. [reader[d] EXCEPT !.read = at, !.left = LeaseTtl] \in ReaderRow
      <3>1. LeaseTtl \in 0 .. LeaseTtl
        OBVIOUS
      <3> QED
        BY <2>1, <3>1, Zenon DEF ReaderRow
    <2>3. reader' \in [Reader -> ReaderRow]
      BY <1>8, <2>1, <2>2 DEF AdvanceReader
    <2> QED
      BY <1>8, <2>3 DEF AdvanceReader, TypeOK
  <1>9. ASSUME NEW d \in Reader, RetireReader(d) PROVE TypeOK'
    BY <1>9 DEF RetireReader, TypeOK, ReaderRow
  <1>10. ASSUME NEW w \in Workflow, NEW k \in Checkpoint, PinCheckpoint(w, k) PROVE TypeOK'
    BY <1>10 DEF PinCheckpoint, TypeOK, BootRow, BootStep, CheckpointRow
  <1>11. ASSUME NEW w \in Workflow, NEW pageLimit \in 1 .. PageLimit, FetchMutations(w, pageLimit)
         PROVE TypeOK'
    <2>1. boot[w] \in BootRow
      BY DEF TypeOK
    <2>2. PageEnd(boot[w].target, boot[w].from, pageLimit) \in Revision
      BY <2>1 DEF PageEnd, BootRow, Revision
    <2>3. \A end \in Revision : Fetched(boot[w], end) \in BootRow
      BY Zenon, <2>1 DEF Fetched, BootRow, BootStep
    <2>4. boot' \in [Workflow -> BootRow]
      BY <1>11, <2>2, <2>3 DEF FetchMutations, TypeOK
    <2> QED
      BY <1>11, <2>4 DEF FetchMutations, TypeOK
  <1>12. ASSUME NEW w \in Workflow,
                SubmitRebuildDigest(w) \/ BeginActivate(w) \/ RollBackActivate(w)
         PROVE TypeOK'
    BY <1>12 DEF SubmitRebuildDigest, BeginActivate, RollBackActivate, TypeOK, BootRow, BootStep
  <1>13. ASSUME NEW w \in Workflow, CommitActivate(w) PROVE TypeOK'
    <2>1. boot[w] \in BootRow
      BY DEF TypeOK
    <2>2. [boot[w] EXCEPT !.step = "activated", !.pin = "released"] \in BootRow
      BY Zenon, <2>1 DEF BootRow, BootStep
    <2>3. boot' \in [Workflow -> BootRow]
      BY <1>13, <2>2 DEF CommitActivate, TypeOK
    <2>4. active' \in Revision
      BY <1>13, <2>1 DEF CommitActivate, BootRow
    <2> QED
      BY <1>13, <2>3, <2>4 DEF CommitActivate, TypeOK
  <1>14. ASSUME NEW r \in Candidate, CreateCandidate(r) PROVE TypeOK'
    BY <1>14 DEF CreateCandidate, TypeOK, CandidateRow
  <1>15. ASSUME NEW r \in Candidate, NEW to \in {"rebase_required", "closed"},
                TransitionCandidate(r, to)
         PROVE TypeOK'
    BY <1>15 DEF TransitionCandidate, TypeOK, CandidateRow
  <1>16. ASSUME NEW through \in Revision, Compact(through) PROVE TypeOK'
    BY <1>16, Releasing DEF Compact, TypeOK, ReaderRow
  <1>17. CASE Tick
    <2>1. reader' \in [Reader -> ReaderRow]
      <3>1. \A d \in Reader : [reader[d] EXCEPT !.left = Less(@)] \in ReaderRow
        BY LessLeft DEF TypeOK, ReaderRow
      <3> QED
        BY <1>17, <3>1 DEF Tick
    <2>2. boot' \in [Workflow -> BootRow]
      <3>1. \A w \in Workflow : [boot[w] EXCEPT !.left = Less(@)] \in BootRow
        BY LessLeft DEF TypeOK, BootRow
      <3> QED
        BY <1>17, <3>1 DEF Tick
    <2>3. candidate' \in [Candidate -> CandidateRow]
      <3>1. \A r \in Candidate : [candidate[r] EXCEPT !.left = Less(@)] \in CandidateRow
        BY LessLeft DEF TypeOK, CandidateRow
      <3> QED
        BY <1>17, <3>1 DEF Tick
    <2> QED
      BY <1>17, <2>1, <2>2, <2>3 DEF Tick, TypeOK
  <1>18. CASE UNCHANGED vars
    BY <1>18 DEF vars, TypeOK
  <1> QED
    BY <1>1, <1>2, <1>3, <1>4, <1>5, <1>6, <1>7, <1>8, <1>9, <1>10, <1>11, <1>12, <1>13, <1>14,
       <1>15, <1>16, <1>17, <1>18 DEF Next

-----------------------------------------------------------------------------
\* What the actions leave alone

\* A checkpoint's revision is written when it is built and never again, and a row
\* that exists keeps existing.
LEMMA CheckpointRowsStay ==
  ASSUME TypeOK, [Next]_vars
  PROVE  \A k \in Checkpoint : checkpoint[k].status # "none" =>
           checkpoint'[k].through = checkpoint[k].through /\ checkpoint'[k].status # "none"
  <1>1. ASSUME NEW k \in Checkpoint, Build(k)
        PROVE \A c \in Checkpoint : c # k => checkpoint'[c] = checkpoint[c]
    BY <1>1 DEF Build, TypeOK
  <1>2. ASSUME NEW k \in Checkpoint, NEW status \in {"verified", "invalid", "available", "superseded"},
               checkpoint' = [checkpoint EXCEPT ![k].status = status]
        PROVE \A c \in Checkpoint :
                /\ checkpoint'[c].through = checkpoint[c].through
                /\ checkpoint[c].status # "none" => checkpoint'[c].status # "none"
    BY Zenon, <1>2 DEF TypeOK, CheckpointRow
  <1>3. \/ UNCHANGED checkpoint
        \/ \E k \in Checkpoint : Build(k)
        \/ \E k \in Checkpoint, status \in {"verified", "invalid", "available", "superseded"} :
             checkpoint' = [checkpoint EXCEPT ![k].status = status]
    BY Zenon DEF Next, vars, Commit, Verify, Publish, Supersede, SupersedeRefused, OpenReader,
       AdvanceReader, RetireReader, PinCheckpoint, FetchMutations, SubmitRebuildDigest,
       BeginActivate, RollBackActivate, CommitActivate, CreateCandidate, TransitionCandidate,
       Compact, Tick
  <1>4. ASSUME NEW k \in Checkpoint, Build(k)
        PROVE \A c \in Checkpoint : checkpoint[c].status # "none" =>
                checkpoint'[c].through = checkpoint[c].through /\ checkpoint'[c].status # "none"
    BY <1>1, <1>4 DEF Build
  <1> QED
    BY <1>2, <1>3, <1>4

\* The head only grows.
LEMMA HeadGrows == ASSUME TypeOK, [Next]_vars PROVE head' \in Nat /\ head \in Nat /\ head <= head'
  <1>1. head \in Nat
    BY BoundsAssumption DEF TypeOK, Revision
  <1>2. head' = head \/ head' = head + 1
    BY Zenon DEF Next, vars, Commit, Build, Verify, Publish, Supersede, SupersedeRefused, OpenReader,
       AdvanceReader, RetireReader, PinCheckpoint, FetchMutations, SubmitRebuildDigest,
       BeginActivate, RollBackActivate, CommitActivate, CreateCandidate, TransitionCandidate,
       Compact, Tick
  <1> QED
    BY <1>1, <1>2

\* A step that neither pins for w nor fetches for it leaves its revisions alone; the
\* pin goes only when it has expired or with the activation.
BootStays(w) ==
    /\ boot'[w].pinned = boot[w].pinned
    /\ boot'[w].from = boot[w].from
    /\ boot'[w].target = boot[w].target
    /\ boot'[w].left \in Nat /\ boot'[w].left <= boot[w].left
    /\ (boot'[w].step = "pin_checkpoint") <=> (boot[w].step = "pin_checkpoint")
    /\ boot[w].step = "activated" => boot'[w].step = "activated"
    /\ \/ boot'[w].pin = boot[w].pin
       \/ /\ boot'[w].pin = "released"
          /\ \/ boot[w].pin = "held" /\ boot[w].left = 0
             \/ boot[w].step = "activating" /\ boot'[w].step = "activated"

\* What a step can do to the bootstrap w.
LEMMA BootMoves ==
  ASSUME TypeOK, [Next]_vars, NEW w \in Workflow
  PROVE  \/ \E k \in Checkpoint : PinCheckpoint(w, k)
         \/ \E pageLimit \in 1 .. PageLimit : FetchMutations(w, pageLimit)
         \/ BootStays(w)
  <1>0. boot[w] \in BootRow /\ boot \in [Workflow -> BootRow] /\ boot[w].left \in Nat
    BY Lifetimes DEF TypeOK, BootRow
  <1>1. ASSUME boot'[w] = boot[w] PROVE BootStays(w)
    BY <1>0, <1>1 DEF BootStays
  <1>2. CASE UNCHANGED boot
    BY <1>1, <1>2
  <1>3. CASE ReleaseExpiredPins
    BY <1>0, <1>3, Releasing DEF BootStays
  <1>4. CASE Tick
    <2>1. boot'[w] = [boot[w] EXCEPT !.left = Less(@)]
      BY <1>4 DEF Tick
    <2>2. Less(boot[w].left) \in Nat /\ Less(boot[w].left) <= boot[w].left
      BY <1>0 DEF Less
    <2> QED
      BY <1>0, <2>1, <2>2 DEF BootStays, BootRow
  <1>5. ASSUME NEW v \in Workflow, v # w,
               \/ \E k \in Checkpoint : PinCheckpoint(v, k)
               \/ \E pageLimit \in 1 .. PageLimit : FetchMutations(v, pageLimit)
               \/ SubmitRebuildDigest(v) \/ BeginActivate(v) \/ RollBackActivate(v)
               \/ CommitActivate(v)
        PROVE BootStays(w)
    <2>1. boot'[w] = boot[w]
      BY <1>0, <1>5 DEF PinCheckpoint, FetchMutations, SubmitRebuildDigest, BeginActivate,
         RollBackActivate, CommitActivate
    <2> QED
      BY <1>1, <2>1
  <1>6. CASE SubmitRebuildDigest(w) \/ BeginActivate(w) \/ RollBackActivate(w)
    BY <1>0, <1>6 DEF SubmitRebuildDigest, BeginActivate, RollBackActivate, BootStays, BootRow
  <1>7. CASE CommitActivate(w)
    <2>1. boot'[w] = [boot[w] EXCEPT !.step = "activated", !.pin = "released"]
      BY Zenon, <1>0, <1>7 DEF CommitActivate
    <2> QED
      BY <1>0, <1>7, <2>1 DEF CommitActivate, BootStays, BootRow
  <1>8. \/ UNCHANGED boot \/ ReleaseExpiredPins \/ Tick
        \/ \E v \in Workflow : \/ \E k \in Checkpoint : PinCheckpoint(v, k)
                               \/ \E pageLimit \in 1 .. PageLimit : FetchMutations(v, pageLimit)
                               \/ SubmitRebuildDigest(v) \/ BeginActivate(v) \/ RollBackActivate(v)
                               \/ CommitActivate(v)
    BY Zenon DEF Next, vars, Commit, Build, Verify, Publish, Supersede, SupersedeRefused, OpenReader,
       AdvanceReader, RetireReader, CreateCandidate, TransitionCandidate, Compact
  <1> QED
    BY <1>2, <1>3, <1>4, <1>5, <1>6, <1>7, <1>8

\* The compaction watermark moves only when compact moves it.
LEMMA WatermarkMoves ==
  ASSUME [Next]_vars PROVE compacted' = compacted \/ \E through \in Revision : Compact(through)
  BY Zenon DEF Next, vars, Commit, Build, Verify, Publish, Supersede, SupersedeRefused, OpenReader,
     AdvanceReader, RetireReader, PinCheckpoint, FetchMutations, SubmitRebuildDigest,
     BeginActivate, RollBackActivate, CommitActivate, CreateCandidate, TransitionCandidate, Tick

-----------------------------------------------------------------------------
\* The conjuncts of the invariant, one by one

\* No compaction and no checkpoint gets ahead of the head.
LEMMA HeadStep ==
  ASSUME HistoryInvariant, [Next]_vars
  PROVE  compacted' <= head' /\ CapturedBelowHead'
  <1>0. TypeOK /\ compacted <= head /\ CapturedBelowHead
    BY DEF HistoryInvariant
  <1>1. TypeOK'
    BY <1>0, TypeStep
  <1>2. head' \in Nat /\ head \in Nat /\ head <= head'
    BY <1>0, HeadGrows
  <1>3. compacted \in Nat /\ compacted' \in Nat
    BY <1>0, <1>1, BoundsAssumption DEF TypeOK, Revision
  <1>4. compacted' <= head'
    BY <1>0, <1>2, <1>3, WatermarkMoves DEF Compact
  <1>5. ASSUME NEW k \in Checkpoint PROVE checkpoint'[k].through <= head'
    <2>1. checkpoint[k].through \in Nat /\ checkpoint[k].through <= head
      BY <1>0, BoundsAssumption DEF TypeOK, CheckpointRow, Revision, CapturedBelowHead
    <2>2. checkpoint'[k].through = checkpoint[k].through \/ checkpoint'[k].through = head
      <3>1. CASE checkpoint[k].status # "none"
        BY <1>0, <3>1, CheckpointRowsStay
      <3>2. CASE \E c \in Checkpoint : Build(c)
        BY <1>0, <3>2 DEF Build, TypeOK
      <3>3. ASSUME NEW c \in Checkpoint, NEW status, checkpoint' = [checkpoint EXCEPT ![c].status = status]
            PROVE checkpoint'[k].through = checkpoint[k].through
        BY Zenon, <1>0, <3>3 DEF TypeOK, CheckpointRow
      <3>4. \/ UNCHANGED checkpoint
            \/ \E c \in Checkpoint : Build(c)
            \/ \E c \in Checkpoint, status \in {"verified", "invalid", "available", "superseded"} :
                 checkpoint' = [checkpoint EXCEPT ![c].status = status]
        BY Zenon DEF Next, vars, Commit, Verify, Publish, Supersede, SupersedeRefused, OpenReader,
           AdvanceReader, RetireReader, PinCheckpoint, FetchMutations, SubmitRebuildDigest,
           BeginActivate, RollBackActivate, CommitActivate, CreateCandidate, TransitionCandidate,
           Compact, Tick
      <3> QED
        BY <3>2, <3>3, <3>4
    <2> QED
      BY <1>2, <2>1, <2>2
  <1> QED
    BY <1>4, <1>5 DEF CapturedBelowHead

\* A bootstrap's revisions stay in order.
LEMMA BootOrderStep ==
  ASSUME HistoryInvariant, [Next]_vars
  PROVE  BootOrdered' /\ PinHeld'
  <1>0. TypeOK /\ CapturedBelowHead /\ BootOrdered /\ PinHeld
    BY DEF HistoryInvariant
  <1>1. head' \in Nat /\ head \in Nat /\ head <= head'
    BY <1>0, HeadGrows
  <1> SUFFICES ASSUME NEW w \in Workflow
        PROVE  /\ boot'[w].step # "pin_checkpoint" =>
                    /\ boot'[w].pinned \in Checkpoint
                    /\ checkpoint'[boot'[w].pinned].status # "none"
                    /\ checkpoint'[boot'[w].pinned].through <= boot'[w].from
                    /\ boot'[w].from <= boot'[w].target
                    /\ boot'[w].target <= head'
               /\ (boot'[w].step = "pin_checkpoint") <=> (boot'[w].pin = "none")
               /\ boot'[w].step \notin {"pin_checkpoint", "activated"} /\ boot'[w].left > 0
                    => boot'[w].pin = "held"
    BY DEF BootOrdered, PinHeld
  <1>2. /\ boot[w] \in BootRow /\ boot \in [Workflow -> BootRow]
        /\ boot[w].from \in Nat /\ boot[w].target \in Nat /\ boot[w].left \in Nat
    BY <1>0, BoundsAssumption, Lifetimes DEF TypeOK, BootRow, Revision
  <1>3. \A k \in Checkpoint : checkpoint[k].through \in Nat
    BY <1>0, BoundsAssumption DEF TypeOK, CheckpointRow, Revision
  <1>4. CASE \E k \in Checkpoint : PinCheckpoint(w, k)
    <2>1. PICK k \in Checkpoint : PinCheckpoint(w, k)
      BY <1>4
    <2>2. /\ boot'[w] = [step |-> "fetch_mutations", pinned |-> k, pin |-> "held",
                         left |-> PinTtl, from |-> checkpoint[k].through, target |-> head]
          /\ checkpoint' = checkpoint /\ checkpoint[k].status = "available"
      BY <1>2, <2>1 DEF PinCheckpoint, Available
    <2>3. checkpoint[k].through <= head
      BY <1>0 DEF CapturedBelowHead
    <2> QED
      BY <1>1, <1>3, <2>2, <2>3
  <1>5. CASE \E pageLimit \in 1 .. PageLimit : FetchMutations(w, pageLimit)
    <2>1. PICK pageLimit \in 1 .. PageLimit : FetchMutations(w, pageLimit)
      BY <1>5
    <2> DEFINE end == PageEnd(boot[w].target, boot[w].from, pageLimit)
    <2>2. /\ boot[w].step = "fetch_mutations" /\ checkpoint' = checkpoint
          /\ boot'[w] = Fetched(boot[w], end)
      BY <1>2, <2>1 DEF FetchMutations
    <2>3. end \in Nat /\ boot[w].from <= end /\ end <= boot[w].target
      BY <1>0, <1>2, <2>2, BoundsAssumption DEF PageEnd, BootOrdered
    <2> HIDE DEF end
    <2>4. /\ boot'[w].pinned = boot[w].pinned /\ boot'[w].target = boot[w].target
          /\ boot'[w].pin = boot[w].pin /\ boot'[w].left = boot[w].left /\ boot'[w].from = end
          /\ boot'[w].step \in {"fetch_mutations", "submit_rebuild_digest"}
      BY <1>2, <2>2 DEF Fetched, BootRow
    <2>5. checkpoint[boot[w].pinned].through \in Nat
      BY <1>0, <1>3, <2>2 DEF BootOrdered
    <2> QED
      BY <1>0, <1>1, <1>2, <2>2, <2>3, <2>4, <2>5 DEF BootOrdered, PinHeld
  <1>6. CASE BootStays(w)
    <2>1. boot[w].step # "pin_checkpoint" =>
             /\ checkpoint'[boot[w].pinned].status # "none"
             /\ checkpoint'[boot[w].pinned].through = checkpoint[boot[w].pinned].through
      BY <1>0, CheckpointRowsStay DEF BootOrdered
    <2> QED
      BY <1>0, <1>1, <1>2, <1>6, <2>1 DEF BootOrdered, PinHeld, BootStays
  <1> QED
    BY <1>0, <1>4, <1>5, <1>6, BootMoves

\* A live pin after a step was live before it, unless the step took it.
LEMMA LivePinWasLive ==
  ASSUME HistoryInvariant, [Next]_vars, NEW w \in Workflow,
         boot'[w].pin = "held", boot'[w].left > 0
  PROVE  \/ \E k \in Checkpoint : PinCheckpoint(w, k)
         \/ /\ Holds(w)
            /\ boot'[w].pinned = boot[w].pinned /\ boot'[w].target = boot[w].target
            /\ boot[w].from <= boot'[w].from
  <1>0. TypeOK /\ BootOrdered
    BY DEF HistoryInvariant
  <1>1. /\ boot[w] \in BootRow /\ boot \in [Workflow -> BootRow]
        /\ boot[w].from \in Nat /\ boot[w].target \in Nat /\ boot[w].left \in Nat
    BY <1>0, BoundsAssumption, Lifetimes DEF TypeOK, BootRow, Revision
  <1>2. CASE \E pageLimit \in 1 .. PageLimit : FetchMutations(w, pageLimit)
    <2>1. PICK pageLimit \in 1 .. PageLimit : FetchMutations(w, pageLimit)
      BY <1>2
    <2> DEFINE end == PageEnd(boot[w].target, boot[w].from, pageLimit)
    <2>2. boot[w].step = "fetch_mutations" /\ boot'[w] = Fetched(boot[w], end)
      BY <1>1, <2>1 DEF FetchMutations
    <2>3. boot[w].from <= end
      BY <1>0, <1>1, <2>2, BoundsAssumption DEF PageEnd, BootOrdered
    <2> HIDE DEF end
    <2> QED
      BY <1>1, <2>2, <2>3 DEF Fetched, BootRow, Holds
  <1>3. CASE BootStays(w)
    BY <1>1, <1>3 DEF BootStays, Holds
  <1> QED
    BY <1>0, <1>2, <1>3, BootMoves

\* Compaction keeps away from the target of a live bootstrap.
LEMMA TargetStep == ASSUME HistoryInvariant, [Next]_vars PROVE TargetKept'
  <1>0. TypeOK /\ compacted <= head /\ BootOrdered /\ PinHeld /\ TargetKept
    BY DEF HistoryInvariant
  <1> SUFFICES ASSUME NEW w \in Workflow, boot'[w].pin = "held", boot'[w].left > 0
               PROVE  compacted' <= boot'[w].target
    BY DEF TargetKept, Holds
  <1>1. CASE \E k \in Checkpoint : PinCheckpoint(w, k)
    BY <1>0, <1>1 DEF PinCheckpoint, TypeOK
  <1>2. CASE /\ Holds(w)
             /\ boot'[w].pinned = boot[w].pinned /\ boot'[w].target = boot[w].target
    <2>1. compacted <= boot[w].target
      BY <1>0, <1>2 DEF TargetKept
    <2>2. ASSUME NEW through \in Revision, Compact(through) PROVE through <= boot[w].target
      <3>1. checkpoint[boot[w].pinned].through \in Bounds
        BY <1>2 DEF Bounds, PinBounds
      <3>2. through <= checkpoint[boot[w].pinned].through
        BY <2>2, <3>1 DEF Compact
      <3>3. boot[w].step # "pin_checkpoint"
        BY <1>0, <1>2 DEF PinHeld, Holds
      <3>4. boot[w].pinned \in Checkpoint /\ checkpoint[boot[w].pinned].through <= boot[w].from
            /\ boot[w].from <= boot[w].target
        BY <1>0, <3>3 DEF BootOrdered
      <3>5. /\ checkpoint[boot[w].pinned].through \in Int
            /\ boot[w].from \in Int /\ boot[w].target \in Int /\ through \in Int
        BY <1>0, <3>4, BoundsAssumption DEF TypeOK, CheckpointRow, BootRow, Revision
      <3> QED
        BY <3>2, <3>4, <3>5
    <2> QED
      BY <1>2, <2>1, <2>2, WatermarkMoves DEF Compact
  <1> QED
    BY <1>1, <1>2, LivePinWasLive

\* An available checkpoint stays available until supersede takes it.
LEMMA AvailableStays ==
  ASSUME TypeOK, [Next]_vars, NEW k \in Checkpoint, checkpoint[k].status = "available"
  PROVE  checkpoint'[k].status = "available" \/ Supersede(k)
  <1>1. ASSUME NEW c \in Checkpoint, c # k,
               \/ Build(c) \/ (\E verdict \in {"verified", "invalid"} : Verify(c, verdict))
               \/ Publish(c) \/ Supersede(c)
        PROVE checkpoint'[k] = checkpoint[k]
    BY <1>1 DEF Build, Verify, Publish, Supersede, TypeOK
  <1>2. ~Build(k) /\ (\A verdict \in {"verified", "invalid"} : ~Verify(k, verdict)) /\ ~Publish(k)
    BY Zenon DEF Build, Verify, Publish
  <1>3. \/ UNCHANGED checkpoint
        \/ \E c \in Checkpoint : \/ Build(c)
                                 \/ \E verdict \in {"verified", "invalid"} : Verify(c, verdict)
                                 \/ Publish(c) \/ Supersede(c)
    BY Zenon DEF Next, vars, Commit, SupersedeRefused, OpenReader,
       AdvanceReader, RetireReader, PinCheckpoint, FetchMutations, SubmitRebuildDigest,
       BeginActivate, RollBackActivate, CommitActivate, CreateCandidate, TransitionCandidate,
       Compact, Tick
  <1> QED
    BY <1>1, <1>2, <1>3

\* supersede respects live pins.
LEMMA PinnedStep == ASSUME HistoryInvariant, [Next]_vars PROVE PinnedStaysAvailable'
  <1>0. TypeOK /\ PinnedStaysAvailable /\ BootOrdered /\ PinHeld
    BY DEF HistoryInvariant
  <1> SUFFICES ASSUME NEW w \in Workflow, boot'[w].pin = "held", boot'[w].left > 0
               PROVE  boot'[w].pinned \in Checkpoint
                      /\ checkpoint'[boot'[w].pinned].status = "available"
    BY DEF PinnedStaysAvailable, Holds, Available
  <1>1. CASE \E k \in Checkpoint : PinCheckpoint(w, k)
    BY <1>0, <1>1 DEF PinCheckpoint, TypeOK, Available
  <1>2. CASE Holds(w) /\ boot'[w].pinned = boot[w].pinned
    <2>1. boot[w].pinned \in Checkpoint /\ checkpoint[boot[w].pinned].status = "available"
      BY <1>0, <1>2 DEF PinnedStaysAvailable, Available
    <2>2. ~Supersede(boot[w].pinned)
      BY <1>2 DEF Supersede
    <2> QED
      BY <1>0, <1>2, <2>1, <2>2, AvailableStays
  <1> QED
    BY <1>1, <1>2, LivePinWasLive

\* compact passes neither a reader that is still active afterwards nor an
\* unresolved candidate.
LEMMA OwedStep == ASSUME HistoryInvariant, [Next]_vars PROVE OwedHistoryKept'
  <1>0. TypeOK /\ OwedHistoryKept /\ compacted <= head
    BY DEF HistoryInvariant
  <1>1. compacted \in Nat /\ head \in Nat
    BY <1>0, BoundsAssumption DEF TypeOK, Revision
  <1>2. ASSUME NEW d \in Reader, reader'[d].status = "active" PROVE compacted' <= reader'[d].read
    <2>0. reader[d] \in ReaderRow /\ reader \in [Reader -> ReaderRow] /\ reader[d].read \in Nat
      BY <1>0, BoundsAssumption DEF TypeOK, ReaderRow, Revision
    <2>1. CASE UNCHANGED <<reader, compacted>>
      BY <1>0, <1>2, <2>1 DEF OwedHistoryKept
    <2>2. ASSUME NEW c \in Reader, NEW at \in Revision, OpenReader(c, at)
          PROVE compacted' <= reader'[d].read
      BY <1>0, <1>2, <2>0, <2>2 DEF OpenReader, OwedHistoryKept
    <2>3. ASSUME NEW c \in Reader, NEW at \in Revision, AdvanceReader(c, at)
          PROVE compacted' <= reader'[d].read
      <3>1. at \in Nat /\ compacted' = compacted
        BY <2>3, BoundsAssumption DEF Revision, AdvanceReader
      <3>2. CASE c = d
        <4>1. reader'[d].read = at /\ reader[d].status = "active" /\ reader[d].read <= at
          BY <2>0, <2>3, <3>2 DEF AdvanceReader, ReaderRow
        <4> QED
          BY <1>0, <1>1, <2>0, <3>1, <4>1 DEF OwedHistoryKept
      <3>3. CASE c # d
        <4>1. reader'[d] = reader[d]
          BY <2>0, <2>3, <3>3 DEF AdvanceReader
        <4> QED
          BY <1>0, <1>2, <3>1, <4>1 DEF OwedHistoryKept
      <3> QED
        BY <3>2, <3>3
    <2>4. ASSUME NEW c \in Reader, RetireReader(c) PROVE compacted' <= reader'[d].read
      BY <1>0, <1>2, <2>0, <2>4 DEF RetireReader, OwedHistoryKept, ReaderRow
    <2>5. ASSUME NEW through \in Revision, Compact(through) PROVE compacted' <= reader'[d].read
      <3>1. ~ExpiredReader(d) /\ reader'[d] = reader[d]
        BY <1>2, <2>0, <2>5 DEF Compact, ReaderRow
      <3>2. reader[d].status = "active" /\ reader[d].left > 0
        BY <1>2, <2>0, <3>1, Lifetimes DEF ExpiredReader, ReaderRow
      <3>3. reader[d].read \in Bounds
        BY <3>2 DEF Bounds, ReaderBounds
      <3> QED
        BY <2>5, <3>1, <3>3 DEF Compact
    <2>6. CASE Tick
      BY Zenon, <1>0, <1>2, <2>0, <2>6 DEF Tick, OwedHistoryKept, ReaderRow
    <2> QED
      BY Zenon, <2>1, <2>2, <2>3, <2>4, <2>5, <2>6 DEF Next, vars, Commit, Build, Verify, Publish, Supersede,
         SupersedeRefused, PinCheckpoint, FetchMutations, SubmitRebuildDigest,
         BeginActivate, RollBackActivate, CommitActivate, CreateCandidate, TransitionCandidate
  <1>3. ASSUME NEW r \in Candidate, candidate'[r].status \in {"open", "rebase_required"},
               candidate'[r].left > 0
        PROVE compacted' <= candidate'[r].comparison
    <2>0. /\ candidate[r] \in CandidateRow /\ candidate \in [Candidate -> CandidateRow]
          /\ candidate[r].comparison \in Nat /\ candidate[r].left \in Nat
      BY <1>0, BoundsAssumption, Lifetimes DEF TypeOK, CandidateRow, Revision
    <2>1. CASE UNCHANGED <<candidate, compacted>>
      BY <1>0, <1>3, <2>1 DEF OwedHistoryKept, Unresolved
    <2>2. ASSUME NEW c \in Candidate, CreateCandidate(c)
          PROVE compacted' <= candidate'[r].comparison
      BY <1>0, <1>3, <2>0, <2>2 DEF CreateCandidate, OwedHistoryKept, Unresolved
    <2>3. ASSUME NEW c \in Candidate, NEW to \in {"rebase_required", "closed"},
                 TransitionCandidate(c, to)
          PROVE compacted' <= candidate'[r].comparison
      <3>1. /\ candidate'[r].comparison = candidate[r].comparison
            /\ candidate'[r].left = candidate[r].left /\ compacted' = compacted
        BY <2>0, <2>3 DEF TransitionCandidate, CandidateRow
      <3>2. candidate[r].status \in {"open", "rebase_required"}
        BY <1>3, <2>0, <2>3 DEF TransitionCandidate, CandidateRow
      <3> QED
        BY <1>0, <1>3, <3>1, <3>2 DEF OwedHistoryKept, Unresolved
    <2>4. ASSUME NEW through \in Revision, Compact(through)
          PROVE compacted' <= candidate'[r].comparison
      <3>1. candidate' = candidate
        BY <2>4 DEF Compact
      <3>2. candidate[r].comparison \in Bounds
        BY <1>3, <3>1 DEF Bounds, CandidateBounds, Unresolved
      <3> QED
        BY <2>4, <3>1, <3>2 DEF Compact
    <2>5. CASE Tick
      <3>1. candidate'[r] = [candidate[r] EXCEPT !.left = Less(@)] /\ compacted' = compacted
        BY <2>5 DEF Tick
      <3>2. Less(candidate[r].left) <= candidate[r].left /\ Less(candidate[r].left) \in Nat
        BY <2>0 DEF Less
      <3> QED
        BY <1>0, <1>3, <2>0, <3>1, <3>2 DEF OwedHistoryKept, Unresolved, CandidateRow
    <2> QED
      BY Zenon, <2>1, <2>2, <2>3, <2>4, <2>5 DEF Next, vars, Commit, Build, Verify, Publish, Supersede,
         SupersedeRefused, OpenReader, AdvanceReader, RetireReader, PinCheckpoint, FetchMutations,
         SubmitRebuildDigest, BeginActivate, RollBackActivate, CommitActivate
  <1> QED
    BY <1>2, <1>3 DEF OwedHistoryKept, Unresolved

\* supersede leaves one available checkpoint, and compact needs one.
LEMMA CheckpointStep == ASSUME HistoryInvariant, [Next]_vars PROVE SomeCheckpointLeft'
  <1>0. TypeOK /\ SomeCheckpointLeft
    BY DEF HistoryInvariant
  <1>1. ASSUME Available # {} PROVE \E c \in Checkpoint : checkpoint'[c].status = "available"
    <2>1. PICK k \in Checkpoint : checkpoint[k].status = "available"
      BY <1>1 DEF Available
    <2>2. CASE Supersede(k)
      <3>1. k \in Available /\ Cardinality(Available) # 1
        BY <2>2 DEF Supersede
      <3>2. Available # {k}
        BY <3>1, FS_Singleton
      <3>3. PICK c \in Available : c # k
        BY <3>1, <3>2
      <3>4. checkpoint'[c] = checkpoint[c]
        BY <1>0, <2>2, <3>3 DEF Supersede, TypeOK, Available
      <3> QED
        BY <3>3, <3>4 DEF Available
    <2> QED
      BY <1>0, <2>1, <2>2, AvailableStays
  <1>2. CASE compacted' = compacted
    BY <1>0, <1>1, <1>2 DEF SomeCheckpointLeft, Available
  <1>3. ASSUME NEW through \in Revision, Compact(through) PROVE Available # {}
    BY <1>3 DEF Compact
  <1> QED
    BY <1>1, <1>2, <1>3, WatermarkMoves DEF SomeCheckpointLeft, Available

-----------------------------------------------------------------------------
\* Every reachable state of the retained history satisfies the invariant.
THEOREM HistoryCorrect == Spec => []HistoryInvariant
  <1>1. ASSUME HistoryInvariant, [Next]_vars PROVE HistoryInvariant'
    <2>1. TypeOK'
      BY <1>1, TypeStep DEF HistoryInvariant
    <2>2. compacted' <= head' /\ CapturedBelowHead'
      BY <1>1, HeadStep
    <2>3. BootOrdered' /\ PinHeld'
      BY <1>1, BootOrderStep
    <2>4. TargetKept' /\ PinnedStaysAvailable' /\ OwedHistoryKept' /\ SomeCheckpointLeft'
      BY <1>1, TargetStep, PinnedStep, OwedStep, CheckpointStep
    <2> QED
      BY <2>1, <2>2, <2>3, <2>4 DEF HistoryInvariant
  <1> QED
    BY <1>1, InitHistory, PTL DEF Spec

\* No reader and no restore candidate loses history it is owed, however leases,
\* pins and candidates run out around compact.
THEOREM OwedHistoryKeptHolds == Spec => []OwedHistoryKept
  <1>1. HistoryInvariant => OwedHistoryKept
    BY DEF HistoryInvariant
  <1> QED
    BY <1>1, HistoryCorrect, PTL

\* supersede never takes a checkpoint from a bootstrap with a live pin.
THEOREM PinnedStaysAvailableHolds == Spec => []PinnedStaysAvailable
  <1>1. HistoryInvariant => PinnedStaysAvailable
    BY DEF HistoryInvariant
  <1> QED
    BY <1>1, HistoryCorrect, PTL

\* After any compaction some checkpoint is available.
THEOREM SomeCheckpointLeftHolds == Spec => []SomeCheckpointLeft
  <1>1. HistoryInvariant => SomeCheckpointLeft
    BY DEF HistoryInvariant
  <1> QED
    BY <1>1, HistoryCorrect, PTL

\* compact never passes the active device, and a device activated under a live pin
\* starts where the log still follows.
THEOREM ActiveDeviceKeepsHistoryHolds == Spec => ActiveDeviceKeepsHistory
  <1> DEFINE Step == (\/ compacted' # compacted
                      \/ \E w \in Workflow : boot[w].left > 0 /\ boot[w].step = "activating"
                                             /\ boot'[w].step = "activated")
                     => active' = NoRevision \/ compacted' <= active'
  <1>1. ASSUME HistoryInvariant, [Next]_vars PROVE Step
    <2>0. TypeOK /\ PinHeld /\ TargetKept
      BY <1>1 DEF HistoryInvariant
    <2>1. ASSUME NEW through \in Revision, Compact(through)
          PROVE active' = NoRevision \/ compacted' <= active'
      BY <2>1 DEF Compact, Bounds, ActiveBounds
    <2>2. ASSUME NEW w \in Workflow, boot[w].left > 0, boot[w].step = "activating",
                 boot'[w].step = "activated", compacted' = compacted
          PROVE compacted' <= active'
      <3>1. Holds(w)
        BY <2>0, <2>2 DEF PinHeld, Holds
      <3>2. compacted <= boot[w].target
        BY <2>0, <3>1 DEF TargetKept
      <3>3. boot[w] \in BootRow /\ boot \in [Workflow -> BootRow]
        BY Zenon, <2>0 DEF TypeOK
      <3>4. CommitActivate(w)
        <4>1. CASE UNCHANGED boot
          BY <2>2, <4>1
        <4>2. CASE ReleaseExpiredPins
          BY <2>0, <2>2, <4>2, Releasing
        <4>3. CASE Tick
          <5>1. boot'[w] = [boot[w] EXCEPT !.left = Less(@)]
            BY <4>3 DEF Tick
          <5>2. boot'[w].step = boot[w].step
            BY <3>3, <5>1 DEF BootRow
          <5> QED
            BY <2>2, <5>2
        <4>4. ASSUME NEW v \in Workflow, v # w,
                     \/ \E k \in Checkpoint : PinCheckpoint(v, k)
                     \/ \E pageLimit \in 1 .. PageLimit : FetchMutations(v, pageLimit)
                     \/ SubmitRebuildDigest(v) \/ BeginActivate(v) \/ RollBackActivate(v)
                     \/ CommitActivate(v)
              PROVE FALSE
          <5>1. boot'[w] = boot[w]
            BY <3>3, <4>4 DEF PinCheckpoint, FetchMutations, SubmitRebuildDigest, BeginActivate,
               RollBackActivate, CommitActivate
          <5> QED
            BY <2>2, <5>1
        <4>5. ~RollBackActivate(w)
          <5>1. RollBackActivate(w) => boot'[w].step = "ready"
            BY <3>3 DEF RollBackActivate, BootRow
          <5> QED
            BY <2>2, <5>1
        <4>6. ~((\E k \in Checkpoint : PinCheckpoint(w, k))
                \/ (\E pageLimit \in 1 .. PageLimit : FetchMutations(w, pageLimit))
                \/ SubmitRebuildDigest(w) \/ BeginActivate(w))
          BY <2>2 DEF PinCheckpoint, FetchMutations, SubmitRebuildDigest, BeginActivate
        <4> QED
          BY Zenon, <1>1, <4>1, <4>2, <4>3, <4>4, <4>5, <4>6 DEF Next, vars, Commit, Build, Verify, Publish,
             Supersede, SupersedeRefused, OpenReader, AdvanceReader, RetireReader, CreateCandidate,
             TransitionCandidate, Compact
      <3> QED
        BY <2>2, <3>2, <3>4 DEF CommitActivate
    <2> QED
      BY <1>1, <2>1, <2>2, WatermarkMoves
  <1> QED
    BY <1>1, HistoryCorrect, PTL DEF Spec, ActiveDeviceKeepsHistory

\* While its pin lives, a bootstrap that can read its next page keeps that page:
\* compact stops at the pinned checkpoint, from which the pages are read.
THEOREM BootstrapKeepsItsLogHolds == Spec => BootstrapKeepsItsLog
  <1> DEFINE Step == \A w \in Workflow :
               (Holds(w) /\ Holds(w)' /\ compacted <= boot[w].from) => compacted' <= boot'[w].from
  <1>1. ASSUME HistoryInvariant, [Next]_vars PROVE Step
    <2>0. TypeOK /\ TypeOK' /\ PinHeld /\ BootOrdered
      BY <1>1, TypeStep DEF HistoryInvariant
    <2> SUFFICES ASSUME NEW w \in Workflow, Holds(w), boot'[w].pin = "held", boot'[w].left > 0,
                        compacted <= boot[w].from
                 PROVE  compacted' <= boot'[w].from
      BY DEF Holds
    <2>1. boot[w].step # "pin_checkpoint"
      BY <2>0 DEF PinHeld, Holds
    <2>2. boot[w].pinned \in Checkpoint /\ checkpoint[boot[w].pinned].through <= boot[w].from
      BY <2>0, <2>1 DEF BootOrdered
    <2>3. /\ checkpoint[boot[w].pinned].through \in Nat /\ boot[w].from \in Nat
          /\ boot'[w].from \in Nat /\ compacted \in Nat /\ compacted' \in Nat
      BY <2>0, <2>2, BoundsAssumption DEF TypeOK, CheckpointRow, BootRow, Revision
    <2>4. boot[w].from <= boot'[w].from
      BY <1>1, <2>1, LivePinWasLive DEF PinCheckpoint
    <2>5. ASSUME NEW through \in Revision, Compact(through) PROVE compacted' <= boot[w].from
      <3>1. checkpoint[boot[w].pinned].through \in Bounds
        BY DEF Bounds, PinBounds
      <3>2. compacted' <= checkpoint[boot[w].pinned].through
        BY <2>5, <3>1 DEF Compact
      <3> QED
        BY <2>2, <2>3, <3>2
    <2> QED
      BY <1>1, <2>3, <2>4, <2>5, WatermarkMoves
  <1> QED
    BY <1>1, HistoryCorrect, PTL DEF Spec, BootstrapKeepsItsLog
=============================================================================
