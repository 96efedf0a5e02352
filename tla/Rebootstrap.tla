----------------------------- MODULE Rebootstrap -----------------------------
(* The replacement of the local workspace database by a checkpoint         *)
(* ("rebootstrap"), its crash points and its restart, under the authority  *)
(* of the local host.                                                      *)
(*                                                                         *)
(* The active database is always the file named business.db. A rebootstrap *)
(* clones it under a new key into the file of the free slot (A or B),      *)
(* installs the checkpoint plan in the clone, exchanges the two names and  *)
(* retires the old file. The keys are kept in a key store: one record for  *)
(* each slot and the "alias", a cache of the active key. An append-only    *)
(* journal of phases decides at restart whether to cancel or to resume.    *)
(*                                                                         *)
(* A database file and its key are one number: every file is created with  *)
(* a key of its own. A digest of a file's bytes is modelled by marks, the  *)
(* evidence taken of the file since its last change: a recorded digest     *)
(* matches the file exactly as long as the mark is there.                  *)
EXTENDS LocalHost

CONSTANTS
    MaxOperations,  \* highest operation number
    MaxCandidates,  \* candidate keys generated
    MaxFaults,      \* crashes, and storage errors the process survives
    MaxWrites,      \* local commits
    MaxRevision,    \* server revisions
    Plans           \* checkpoint plans: [checkpoint, head]

ASSUME RebootstrapAssumption ==
    /\ {MaxOperations, MaxCandidates, MaxFaults, MaxWrites, MaxRevision} \subseteq Nat
    /\ Plans \subseteq {p \in [checkpoint : 0..MaxRevision, head : 0..MaxRevision] :
                            p.checkpoint <= p.head}

VARIABLES
    dir,        \* the workspace directory: name -> file, 0 when absent
    synced,     \* the directory as of its last fsync
    disk,       \* file -> its content and the evidence it still matches
    wal,        \* business.db has -wal and -shm sidecars
    slots,      \* the key store's slot records
    alias,      \* the key store's alias
    journal,    \* last record, active publication link, torn tail
    up,         \* the process
    pc,         \* next durable step of the executor or of the restart
    work,       \* the operation it works on
    active,     \* in-memory custody: the file (and key) it holds as active
    nextOp,     \* in-memory operation counter
    candidates, \* candidate keys generated so far
    crashes,
    failures,
    committed,  \* history: local commits and the revision served
    undecided,  \* history: the process left what no restart can attribute
    overtaken   \* history: a kill left a journal record ahead of an unsynced exchange

diskVars == <<dir, synced, disk, wal>>
keyVars == <<slots, alias>>
procVars == <<up, pc, work, active, nextOp>>
faultVars == <<crashes, failures, undecided, overtaken>>
vars == <<hostVars, diskVars, keyVars, journal, procVars, candidates, faultVars, committed>>

Slots == {"A", "B"}
Names == {"business"} \cup Slots
Files == 1..(MaxCandidates + 1)
Other(s) == IF s = "A" THEN "B" ELSE "A"

Marks == {"prepared", "reserved", "verified"}
Content == [marks : SUBSET Marks, facts : 0..MaxWrites, rev : 0..MaxRevision, link : Nat]
Blank == [marks |-> {}, facts |-> 0, rev |-> 0, link |-> 0]

NoRecord == [op |-> 0, seq |-> 0, old |-> "B", created |-> FALSE, origin |-> <<0, 0>>,
             oldKey |-> 0, key |-> 0, proof |-> <<0, 0>>, phase |-> "none"]
NoSlot == [origin |-> <<0, 0>>, key |-> 0]
NoWork == [route |-> "none", cancel |-> FALSE, plan |-> [checkpoint |-> 0, head |-> 0],
           record |-> NoRecord]

Terminal == {"RetiredOld", "Cancelled"}
Phases == {"none", "Prepared", "CandidateReserved", "Verified", "PublishIntent", "Published",
           "ReopenedVerified"} \cup Terminal
Routes == {"none", "execute", "discard", "resume", "retire", "terminal"}
Steps == {"idle", "reserveOld", "reserveCandidate", "prepare", "create", "clone", "reserve",
          "install", "verify", "appendVerified", "intend", "exchange", "syncExchange", "alias",
          "publish", "reopen", "unlinkOld", "syncUnlink", "deleteOldSlot", "retire", "open",
          "dropFile", "syncDrop", "dropCandidateSlot", "dropOldSlot", "cancel"}

Records == [op : Nat, seq : Nat, old : Slots, created : BOOLEAN, origin : Nat \X Nat,
            oldKey : {0} \cup Files, key : {0} \cup Files,
            proof : (0..MaxWrites) \X (0..MaxRevision), phase : Phases]

TypeOK ==
    /\ HostTypeOK
    /\ dir \in [Names -> {0} \cup Files] /\ synced \in [Names -> {0} \cup Files]
    /\ disk \in [Files -> Content]
    /\ wal \in BOOLEAN
    /\ slots \in [Slots -> [origin : Nat \X Nat, key : {0} \cup Files]]
    /\ alias \in Files
    /\ journal \in [last : Records, link : Nat, torn : BOOLEAN]
    /\ up \in {"running", "down", "recovering", "quarantined"}
    /\ pc \in Steps
    /\ work \in [route : Routes, cancel : BOOLEAN,
                 plan : [checkpoint : 0..MaxRevision, head : 0..MaxRevision], record : Records]
    /\ active \in {0} \cup Files
    /\ nextOp \in Nat
    /\ candidates \in 0..MaxCandidates
    /\ crashes \in 0..MaxFaults /\ failures \in 0..MaxFaults
    /\ undecided \in BOOLEAN /\ overtaken \in BOOLEAN
    /\ committed \in [facts : 0..MaxWrites, rev : 0..MaxRevision]

Init ==
    /\ HostInit
    /\ dir = [n \in Names |-> IF n = "business" THEN 1 ELSE 0] /\ synced = dir
    /\ disk = [f \in Files |-> Blank]
    /\ wal = FALSE
    /\ slots = [s \in Slots |-> NoSlot]
    /\ alias = 1
    /\ journal = [last |-> NoRecord, link |-> 0, torn |-> FALSE]
    /\ up = "running" /\ pc = "idle" /\ work = NoWork /\ active = 1 /\ nextOp = 0
    /\ candidates = 0 /\ crashes = 0 /\ failures = 0 /\ undecided = FALSE
    /\ overtaken = FALSE
    /\ committed = [facts |-> 0, rev |-> 0]

rec == work.record
cand == Other(rec.old)
Business == dir["business"]

-----------------------------------------------------------------------------
(* The journal *)

ActiveSlot(last) ==
    CASE last.phase = "none" -> "A"
      [] last.phase = "RetiredOld" -> Other(last.old)
      [] OTHER -> last.old

Follows(phase) ==
    CASE phase = "Prepared" -> {"CandidateReserved", "Cancelled"}
      [] phase = "CandidateReserved" -> {"Verified", "Cancelled"}
      [] phase = "Verified" -> {"PublishIntent", "Cancelled"}
      [] phase = "PublishIntent" -> {"Published", "Cancelled"}
      [] phase = "Published" -> {"ReopenedVerified"}
      [] phase = "ReopenedVerified" -> {"RetiredOld"}
      [] OTHER -> {}

ValidOrigins(r) ==
    IF r.created
    THEN r.origin = <<r.op, r.seq>>
    ELSE r.origin[1] \in 1..(r.op - 1) /\ r.origin[2] \in 1..(r.seq - 1)

(* What the old slot's record must be when r follows the finished operation p. *)
ContinuesCustody(p, r) ==
    CASE p.phase = "RetiredOld" ->
            r.oldKey = p.key /\ r.origin = <<p.op, p.seq>> /\ ~r.created
      [] p.phase = "Cancelled" /\ p.created ->
            r.oldKey = p.oldKey /\ r.created
      [] p.phase = "Cancelled" /\ ~p.created ->
            r.oldKey = p.oldKey /\ r.origin = p.origin /\ ~r.created
      [] OTHER -> FALSE

ValidSuccessor(p, r) ==
    /\ ValidOrigins(r)
    /\ CASE r.op = p.op ->
              /\ r.phase \in Follows(p.phase)
              /\ p = [r EXCEPT !.phase = p.phase,
                               !.proof = IF r.phase = "Verified" THEN p.proof ELSE @]
         [] p.phase = "none" ->
              r.phase = "Prepared" /\ r.seq = 1 /\ r.created
         [] OTHER ->
              /\ p.phase \in Terminal /\ r.phase = "Prepared"
              /\ r.op > p.op /\ r.seq = p.seq + 1 /\ r.old = ActiveSlot(p)
              /\ ContinuesCustody(p, r)

CanAppend(r) == ~journal.torn /\ ValidSuccessor(journal.last, r)

Appended(r) ==
    [journal EXCEPT !.last = r, !.link = IF r.phase = "RetiredOld" THEN r.seq ELSE @]

-----------------------------------------------------------------------------
(* Steps of the executor and of the restart *)

(* The executor returns; the aggregate lock is released. *)
Release ==
    /\ holder' = "none" /\ pc' = "idle" /\ work' = NoWork
    /\ UNCHANGED <<requested, applied, restriction, authority, runtime, waiting, fenced, run,
                   lockedThrough>>

Go(step) == pc' = step /\ UNCHANGED <<hostVars, work>>

(* The restart is done: the host has custody, and no authority yet. *)
Ready == up' = "running" /\ pc' = "idle" /\ work' = NoWork /\ UNCHANGED hostVars

(* The journal is in the workspace directory: an append syncs it too. *)
Append(at, phase, then) ==
    /\ pc = at
    /\ CanAppend([rec EXCEPT !.phase = phase])
    /\ journal' = Appended([rec EXCEPT !.phase = phase])
    /\ pc' = then
    /\ work' = [work EXCEPT !.record.phase = phase]
    /\ synced' = dir
    /\ UNCHANGED <<hostVars, dir, disk, wal, keyVars, up, active, nextOp, candidates, faultVars,
                   committed>>

Begin(plan) ==
    /\ up = "running" /\ pc = "idle"
    /\ Take("rebootstrap")
    /\ candidates < MaxCandidates
    /\ ~journal.torn /\ journal.last.phase \in Terminal \cup {"none"}
    /\ LET last == journal.last
           op == (IF last.op > nextOp THEN last.op ELSE nextOp) + 1
       IN  /\ op <= MaxOperations
           /\ nextOp' = op
           /\ work' = [route |-> "execute", cancel |-> FALSE, plan |-> plan,
                       record |-> [NoRecord EXCEPT !.op = op, !.seq = last.seq + 1,
                                                   !.old = ActiveSlot(last)]]
    /\ pc' = "reserveOld"
    /\ UNCHANGED <<diskVars, keyVars, journal, up, active, candidates, faultVars, committed>>

(* reserve_rebootstrap: the WAL is folded into the file, then the evidence of *)
(* the old file is taken and its key gets a slot record.                      *)
ReserveOldSlot ==
    /\ pc = "reserveOld"
    /\ wal' = FALSE
    /\ disk' = [disk EXCEPT ![active].marks = {"prepared"}]
    /\ LET held == slots[rec.old]
           mine == <<rec.op, rec.seq>>
           fits == /\ Business = active /\ \A s \in Slots : dir[s] = 0
                   /\ held # NoSlot => held.key = active /\ held.origin[2] <= rec.seq
       IN  \/ /\ fits
              /\ slots' = [slots EXCEPT ![rec.old] = IF held = NoSlot
                              THEN [origin |-> mine, key |-> active] ELSE held]
              /\ work' = [work EXCEPT !.record.oldKey = active,
                                      !.record.created = (held = NoSlot),
                                      !.record.origin = slots'[rec.old].origin]
              /\ pc' = "reserveCandidate"
              /\ UNCHANGED hostVars
           \/ ~fits /\ Release /\ UNCHANGED slots
    /\ UNCHANGED <<dir, synced, alias, journal, up, active, nextOp, candidates, faultVars,
                   committed>>

ReserveCandidateSlot ==
    /\ pc = "reserveCandidate"
    /\ \/ /\ slots[cand] = NoSlot
          /\ candidates' = candidates + 1
          /\ slots' = [slots EXCEPT ![cand] = [origin |-> <<rec.op, rec.seq>>,
                                               key |-> candidates + 2]]
          /\ work' = [work EXCEPT !.record.key = candidates + 2]
          /\ pc' = "prepare"
          /\ UNCHANGED hostVars
       \/ slots[cand] # NoSlot /\ Release /\ UNCHANGED <<slots, candidates>>
    /\ UNCHANGED <<diskVars, alias, journal, up, active, nextOp, faultVars, committed>>

AppendPrepared == Append("prepare", "Prepared", "create")

(* The evidence names a custody the journal's grammar does not admit. *)
PrepareRejected ==
    /\ pc = "prepare"
    /\ ~CanAppend([rec EXCEPT !.phase = "Prepared"])
    /\ Release
    /\ UNCHANGED <<diskVars, keyVars, journal, up, active, nextOp, candidates, faultVars,
                   committed>>

(* materialize_candidate, up to the file's creation and up to its fsync. *)
CreateCandidate ==
    /\ pc = "create"
    /\ dir' = [dir EXCEPT ![cand] = rec.key]
    /\ Go("clone")
    /\ UNCHANGED <<synced, disk, wal, keyVars, journal, up, active, nextOp, candidates, faultVars,
                   committed>>

CloneCandidate ==
    /\ pc = "clone"
    /\ disk' = [disk EXCEPT ![rec.key] = [disk[active] EXCEPT !.marks = {"reserved"}]]
    /\ synced' = dir
    /\ Go("reserve")
    /\ UNCHANGED <<dir, wal, keyVars, journal, up, active, nextOp, candidates, faultVars,
                   committed>>

AppendReserved == Append("reserve", "CandidateReserved", "install")

(* Admitted without the floors. *)
AdmittedAlways(plan) == plan \in Plans

(* The plan is admitted only at or above every floor of the clone, and the *)
(* transaction commits only under the authority captured at the start.     *)
Admitted(plan) == disk[rec.key].rev <= plan.checkpoint

InstallPlan ==
    /\ pc = "install"
    /\ Admitted(work.plan) /\ FenceHolds
    /\ disk' = [disk EXCEPT ![rec.key].marks = {}, ![rec.key].rev = work.plan.head,
                            ![rec.key].link = rec.seq]
    /\ work' = [work EXCEPT !.record.proof = <<disk[rec.key].facts, work.plan.head>>]
    /\ pc' = "verify"
    /\ UNCHANGED <<hostVars, dir, synced, wal, keyVars, journal, up, active, nextOp, candidates,
                   faultVars, committed>>

InstallRejected ==
    /\ pc = "install"
    /\ ~(Admitted(work.plan) /\ FenceHolds)
    /\ disk' = [disk EXCEPT ![rec.key].marks = {}]
    /\ work' = [work EXCEPT !.cancel = TRUE]
    /\ pc' = "dropFile"
    /\ UNCHANGED <<hostVars, dir, synced, wal, keyVars, journal, up, active, nextOp, candidates,
                   faultVars, committed>>

(* The only writer is closed before both files are evidenced. *)
VerifyCandidate ==
    /\ pc = "verify"
    /\ runtime' = FALSE /\ run' = FALSE
    /\ disk' = [disk EXCEPT ![active].marks = @ \cup {"verified"},
                            ![rec.key].marks = @ \cup {"verified"}]
    /\ pc' = "appendVerified"
    /\ UNCHANGED <<requested, applied, restriction, authority, waiting, holder, fenced,
                   lockedThrough, work, dir, synced, wal, keyVars, journal, up, active, nextOp,
                   candidates, faultVars, committed>>

AppendVerified == Append("appendVerified", "Verified", "intend")
AppendIntent == Append("intend", "PublishIntent", "exchange")

SlotsExact ==
    /\ slots[rec.old] = [origin |-> rec.origin, key |-> rec.oldKey]
    /\ slots[cand] = [origin |-> <<rec.op, rec.seq>>, key |-> rec.key]

Exchange ==
    /\ pc = "exchange"
    /\ Business = active /\ dir[cand] = rec.key /\ dir[rec.old] = 0
    /\ "verified" \in disk[active].marks /\ "verified" \in disk[rec.key].marks
    /\ SlotsExact
    /\ dir' = [dir EXCEPT !["business"] = rec.key, ![cand] = active]
    /\ Go("syncExchange")
    /\ UNCHANGED <<synced, disk, wal, keyVars, journal, up, active, nextOp, candidates, faultVars,
                   committed>>

SyncExchange ==
    /\ pc = "syncExchange"
    /\ synced' = dir
    /\ active' = rec.key
    /\ Go("alias")
    /\ UNCHANGED <<dir, disk, wal, keyVars, journal, up, nextOp, candidates, faultVars, committed>>

(* The alias is stored: after the exchange, at the end of a restart, and in *)
(* a discard before the old slot's record may be deleted.                   *)
StoreAlias ==
    /\ pc = "alias"
    /\ alias' = active
    /\ \/ work.route = "terminal" /\ Ready
       \/ /\ work.route # "terminal"
          /\ Go(IF work.route = "discard" THEN "dropOldSlot"
                ELSE IF work.route = "retire" THEN "retire"
                ELSE CASE rec.phase = "PublishIntent" -> "publish"
                       [] rec.phase = "Published" -> "reopen"
                       [] OTHER -> "unlinkOld")
          /\ UNCHANGED up
    /\ UNCHANGED <<diskVars, slots, journal, active, nextOp, candidates, faultVars, committed>>

AppendPublished == Append("publish", "Published", "reopen")

(* verify_published_read_only, and the restart's proof fence. *)
LogicalHolds(f, r) ==
    <<disk[f].facts, disk[f].rev>> = r.proof /\ disk[f].link = r.seq

PublishedHolds ==
    /\ active = rec.key /\ Business = active /\ dir[cand] = rec.oldKey
    /\ \A f \in {rec.key, rec.oldKey} : "verified" \in disk[f].marks
    /\ SlotsExact /\ alias = active
    /\ LogicalHolds(active, rec)

AppendReopened == PublishedHolds /\ Append("reopen", "ReopenedVerified", "unlinkOld")

UnlinkOld ==
    /\ pc = "unlinkOld"
    /\ PublishedHolds
    /\ dir' = [dir EXCEPT ![cand] = 0]
    /\ Go("syncUnlink")
    /\ UNCHANGED <<synced, disk, wal, keyVars, journal, up, active, nextOp, candidates, faultVars,
                   committed>>

SyncUnlink ==
    /\ pc = "syncUnlink"
    /\ synced' = dir
    /\ Go("deleteOldSlot")
    /\ UNCHANGED <<dir, disk, wal, keyVars, journal, up, active, nextOp, candidates, faultVars,
                   committed>>

(* DeleteOldSlot where deleting a record that is gone is an error. *)
DeleteOldSlotOnce ==
    /\ pc = "deleteOldSlot" /\ slots[rec.old] # NoSlot
    /\ slots' = [slots EXCEPT ![rec.old] = NoSlot]
    /\ Go(IF work.route = "retire" THEN "alias" ELSE "retire")
    /\ UNCHANGED <<diskVars, alias, journal, up, active, nextOp, candidates, faultVars, committed>>

DeleteOldSlot ==
    /\ pc = "deleteOldSlot"
    /\ slots' = [slots EXCEPT ![rec.old] = NoSlot]
    /\ Go(IF work.route = "retire" THEN "alias" ELSE "retire")
    /\ UNCHANGED <<diskVars, alias, journal, up, active, nextOp, candidates, faultVars, committed>>

AppendRetired == work.route = "execute" /\ Append("retire", "RetiredOld", "open")

(* open_workspace refuses when business.db is not the file custody holds. *)
Opens == up = "running" /\ Business = active
Opened ==
    /\ wal' = TRUE /\ disk' = [disk EXCEPT ![active].marks = {}]
    /\ committed' = [committed EXCEPT !.rev = IF disk[active].rev > @ THEN disk[active].rev ELSE @]

Reopen ==
    /\ pc = "open"
    /\ Opens /\ Opened
    /\ runtime' = TRUE /\ holder' = "none"
    /\ pc' = "idle" /\ work' = NoWork
    /\ UNCHANGED <<requested, applied, restriction, authority, waiting, fenced, run,
                   lockedThrough, dir, synced, keyVars, journal, up, active, nextOp, candidates,
                   faultVars>>

-----------------------------------------------------------------------------
(* Giving a candidate up: its file, its slot record, in a restart the       *)
(* alias, the old slot's record if this operation created it, and Cancelled. *)

DropFile ==
    /\ pc = "dropFile"
    /\ dir' = [dir EXCEPT ![cand] = 0]
    /\ Go("syncDrop")
    /\ UNCHANGED <<synced, disk, wal, keyVars, journal, up, active, nextOp, candidates, faultVars,
                   committed>>

SyncDrop ==
    /\ pc = "syncDrop"
    /\ synced' = dir
    /\ Go("dropCandidateSlot")
    /\ UNCHANGED <<dir, disk, wal, keyVars, journal, up, active, nextOp, candidates, faultVars,
                   committed>>

DropCandidateSlot ==
    /\ pc = "dropCandidateSlot"
    /\ slots' = [slots EXCEPT ![cand] = NoSlot]
    /\ Go(IF work.route = "discard" THEN "alias" ELSE "dropOldSlot")
    /\ UNCHANGED <<diskVars, alias, journal, up, active, nextOp, candidates, faultVars, committed>>

DropOldSlot ==
    /\ pc = "dropOldSlot"
    /\ slots' = IF rec.created THEN [slots EXCEPT ![rec.old] = NoSlot] ELSE slots
    /\ IF work.cancel THEN Go("cancel") ELSE Release
    /\ UNCHANGED <<diskVars, alias, journal, up, active, nextOp, candidates, faultVars, committed>>

(* The last record of an operation given up in the running process, or of a *)
(* restart.                                                                 *)
Finish(at, phase) ==
    /\ pc = at
    /\ CanAppend([rec EXCEPT !.phase = phase])
    /\ journal' = Appended([rec EXCEPT !.phase = phase])
    /\ synced' = dir
    /\ IF work.route = "execute" THEN Release /\ UNCHANGED up ELSE Ready
    /\ UNCHANGED <<dir, disk, wal, keyVars, active, nextOp, candidates, faultVars, committed>>

AppendCancelled == Finish("cancel", "Cancelled")
FinishRetirement == work.route # "execute" /\ Finish("retire", "RetiredOld")

-----------------------------------------------------------------------------
(* A storage error the process survives. *)

Appending == {"prepare", "reserve", "appendVerified", "intend", "publish", "reopen", "retire",
              "cancel"}

JournalAfterFailure(phase) ==
    {journal, [journal EXCEPT !.torn = TRUE], Appended([rec EXCEPT !.phase = phase])}

PhaseAt(step) ==
    CASE step = "prepare" -> "Prepared"
      [] step = "reserve" -> "CandidateReserved"
      [] step = "appendVerified" -> "Verified"
      [] step = "intend" -> "PublishIntent"
      [] step = "publish" -> "Published"
      [] step = "reopen" -> "ReopenedVerified"
      [] step = "retire" -> "RetiredOld"
      [] step = "cancel" -> "Cancelled"

Fails == work.route = "execute" /\ crashes + failures < MaxFaults /\ failures' = failures + 1

AppendFails ==
    /\ pc \in Appending /\ Fails
    /\ CanAppend([rec EXCEPT !.phase = PhaseAt(pc)])
    /\ journal' \in JournalAfterFailure(PhaseAt(pc))
    /\ IF pc = "reserve" THEN Go("dropFile") ELSE Release
    /\ UNCHANGED <<diskVars, keyVars, up, active, nextOp, candidates, crashes,
                   undecided, overtaken, committed>>

(* The error is returned and everything stays as it is. *)
StepFails ==
    /\ pc \in Steps \ (Appending \cup {"idle", "install", "verify"}) /\ Fails
    /\ Release
    /\ wal' \in {wal, wal /\ pc # "reserveOld"}
    /\ UNCHANGED <<dir, synced, disk, keyVars, journal, up, active, nextOp, candidates, crashes,
                   undecided, overtaken, committed>>

VerifyFails ==
    /\ pc = "verify" /\ Fails
    /\ holder' = "none" /\ pc' = "idle" /\ work' = NoWork
    /\ runtime' = FALSE /\ run' = FALSE
    /\ UNCHANGED <<requested, applied, restriction, authority, waiting, fenced, lockedThrough,
                   diskVars, keyVars, journal, up, active, nextOp, candidates, crashes,
                   undecided, overtaken, committed>>

(* The error is returned after the files and records are cleaned up; only a *)
(* failed installation also cancels the operation in the journal.           *)
CleanupAfter(step) ==
    CASE step = "reserveCandidate" -> "dropOldSlot"
      [] step = "create" -> "dropCandidateSlot"
      [] step \in {"clone", "install"} -> "dropFile"

FailsCleanly ==
    /\ pc \in {"reserveCandidate", "create", "clone", "install"} /\ Fails
    /\ disk' = IF pc = "install" THEN [disk EXCEPT ![rec.key].marks = {}] ELSE disk
    /\ work' = [work EXCEPT !.cancel = (pc = "install")]
    /\ pc' = CleanupAfter(pc)
    /\ UNCHANGED <<hostVars, dir, synced, wal, keyVars, journal, up, active, nextOp, candidates,
                   crashes, undecided, overtaken, committed>>

-----------------------------------------------------------------------------
(* The host's own operations, with what they do to the workspace *)

storageVars == <<diskVars, keyVars, journal, procVars, candidates, faultVars, committed>>

(* A quarantined workspace has no custody: no Grant opens it, and nothing of *)
(* it changes any more.                                                      *)
HostUp == up = "running"

HostOnly ==
    /\ HostUp
    /\ \/ \E k \in Kinds : Request(k)
       \/ ClockMoves
       \/ AdmitRun
       \/ EndRun
       \/ Fence
       \/ Rollback
       \/ committed.facts < MaxWrites /\ BeginWrite
       \/ disk[Business].rev < MaxRevision /\ BeginSyncWrite
    /\ UNCHANGED storageVars

Grant ==
    /\ HostUp
    /\ \E t \in waiting : Granted(t)
    /\ Opens /\ Opened
    /\ UNCHANGED <<dir, synced, keyVars, journal, procVars, candidates, faultVars>>

(* Dropping the last connection folds the WAL and removes the sidecars. *)
Closed == wal' = (wal /\ ~runtime)

Lock ==
    /\ HostUp
    /\ \E t \in waiting : Locked(t) \/ Aborted(t)
    /\ Closed
    /\ UNCHANGED <<dir, synced, disk, keyVars, journal, procVars, candidates, faultVars, committed>>

(* The Grant is refused after the workspace was opened. *)
AbortOpened ==
    /\ Opens
    /\ \E t \in waiting : Aborted(t)
    /\ disk' = [disk EXCEPT ![active].marks = {}] /\ wal' = FALSE
    /\ UNCHANGED <<dir, synced, keyVars, journal, procVars, candidates, faultVars, committed>>

CommitWrite ==
    /\ Commit("write")
    /\ disk' = [disk EXCEPT ![active].marks = {}, ![active].facts = @ + 1]
    /\ committed' = [committed EXCEPT !.facts = @ + 1]
    /\ UNCHANGED <<dir, synced, wal, keyVars, journal, procVars, candidates, faultVars>>

CommitSync ==
    /\ Commit("sync")
    /\ disk' = [disk EXCEPT ![active].marks = {}, ![active].rev = @ + 1]
    /\ committed' = [committed EXCEPT !.rev = disk[active].rev + 1]
    /\ UNCHANGED <<dir, synced, wal, keyVars, journal, procVars, candidates, faultVars>>

-----------------------------------------------------------------------------
(* Crash and restart *)

(* The steps of the executor after which the restart cannot attribute what   *)
(* it finds: key records or a candidate file the journal does not name yet,  *)
(* or a candidate that was opened for writing.                               *)
Unattributed ==
    /\ work.route = "execute"
    /\ \/ pc \in {"reserveCandidate", "prepare", "clone", "reserve", "verify", "appendVerified",
                  "dropFile", "syncDrop"}
       \/ pc = "dropOldSlot" /\ rec.phase = "none"

(* The slot records that belong to the journal's last, finished operation. *)
CustodySlots(r) ==
    [s \in Slots |->
        CASE r.phase = "RetiredOld" /\ s # r.old -> [origin |-> <<r.op, r.seq>>, key |-> r.key]
          [] r.phase = "Cancelled" /\ ~r.created /\ s = r.old ->
                [origin |-> r.origin, key |-> r.oldKey]
          [] OTHER -> NoSlot]

(* A storage error made the executor return and leave its records behind. *)
Stranded ==
    /\ failures > 0
    /\ \/ journal.torn
       \/ journal.last.phase \notin Terminal \cup {"none"}
       \/ slots # CustodySlots(journal.last)

(* The power fails after a kill: it undoes a directory change the killed    *)
(* process had not synced. The restart works on from what it finds and does *)
(* not sync the directory before its first unlink or append.                *)
UndoneLater ==
    dir' # dir /\ pc \notin {"clone", "syncExchange", "syncUnlink", "syncDrop"}

ProcessGone ==
    /\ HostGone
    /\ up' = "down" /\ pc' = "idle" /\ work' = NoWork /\ active' = 0 /\ nextOp' = 0

(* The process is killed, or the power fails and what was not synced is lost. *)
Crash ==
    /\ up \in {"running", "recovering"}
    /\ crashes + failures < MaxFaults
    /\ crashes' = crashes + 1
    /\ dir' \in {dir, synced}
    /\ journal' \in IF pc \in Appending /\ CanAppend([rec EXCEPT !.phase = PhaseAt(pc)])
                    THEN JournalAfterFailure(PhaseAt(pc)) ELSE {journal}
    /\ undecided' = (wal \/ journal'.torn \/ Stranded \/ Unattributed \/ UndoneLater)
    /\ overtaken' = \/ overtaken
                     \/ /\ journal'.last # journal.last
                        /\ dir'["business"] # synced["business"]
    /\ ProcessGone
    /\ UNCHANGED <<synced, disk, wal, keyVars, candidates, failures, committed>>

Quit ==
    /\ up = "running" /\ holder = "none"
    /\ Closed
    /\ undecided' = (wal' \/ Stranded)
    /\ ProcessGone
    /\ UNCHANGED <<dir, synced, disk, keyVars, journal, candidates, crashes, failures, overtaken, committed>>

NoSlotFiles == \A s \in Slots : dir[s] = 0
Holds(s, origin, key) == slots[s] = [origin |-> origin, key |-> key]
OwnCandidate(r) == Holds(Other(r.old), <<r.op, r.seq>>, r.key)
OldRecord(r) == Holds(r.old, r.origin, r.oldKey)
OldEvidence(f, r) == f = r.oldKey /\ "prepared" \in disk[f].marks
LinkHolds(f) == journal.link # 0 => disk[f].link = journal.link

CleanStart == NoSlotFiles /\ \A s \in Slots : slots[s] = NoSlot /\ alias = Business

(* OldCredential that never looks at the alias. *)
OldCredentialInSlot(r) == OldRecord(r)

(* The alias stands in for the old slot's record only once everything else *)
(* of an operation that created that record is gone.                       *)
OldCredential(r) ==
    \/ OldRecord(r)
    \/ /\ slots[r.old] = NoSlot /\ r.created
       /\ dir[Other(r.old)] = 0 /\ slots[Other(r.old)] = NoSlot
       /\ alias = r.oldKey

CandidateEvidence(r) ==
    LET f == dir[Other(r.old)]
    IN  /\ OwnCandidate(r) /\ f = r.key
        /\ CASE r.phase = "CandidateReserved" -> "reserved" \in disk[f].marks
             [] r.phase \in {"Verified", "PublishIntent"} ->
                    /\ "verified" \in disk[f].marks /\ "verified" \in disk[r.oldKey].marks
                    /\ LogicalHolds(f, r)
             [] OTHER -> FALSE

(* Discardable by the key records alone, without the evidence of the files. *)
DiscardableByKeys(r) ==
    OldCredential(r) /\ (slots[Other(r.old)] # NoSlot => OwnCandidate(r))

Discardable(r) ==
    /\ dir[r.old] = 0
    /\ OldEvidence(Business, r) /\ OldCredential(r)
    /\ slots[Other(r.old)] # NoSlot => OwnCandidate(r)
    /\ dir[Other(r.old)] # 0 => CandidateEvidence(r)
    /\ r.phase = "PublishIntent" /\ dir[Other(r.old)] # 0 => OldRecord(r)

Resumable(r) ==
    /\ dir[r.old] = 0 /\ Business = r.key
    /\ OldRecord(r) /\ OwnCandidate(r)
    /\ OldEvidence(dir[Other(r.old)], r)
    /\ \A f \in {r.key, r.oldKey} : "verified" \in disk[f].marks
    /\ LogicalHolds(Business, r)

Retirable(r) ==
    /\ NoSlotFiles /\ Business = r.key
    /\ OwnCandidate(r)
    /\ slots[r.old] # NoSlot => slots[r.old].origin = r.origin
    /\ LogicalHolds(Business, r)

TerminalHolds(r) ==
    /\ NoSlotFiles
    /\ LinkHolds(Business)
    /\ IF r.phase = "RetiredOld"
       THEN slots[r.old] = NoSlot /\ OwnCandidate(r) /\ Business = r.key
       ELSE /\ slots[Other(r.old)] = NoSlot /\ Business = r.oldKey
            /\ IF r.created THEN slots[r.old] = NoSlot /\ alias = r.oldKey ELSE OldRecord(r)

(* What the restart makes of what it finds; it changes nothing on the way. *)
Classified ==
    LET r == journal.last
    IN  IF journal.torn \/ wal THEN "quarantine"
        ELSE IF r.phase = "none" THEN IF CleanStart THEN "clean" ELSE "quarantine"
        ELSE IF r.phase \in Terminal THEN IF TerminalHolds(r) THEN "terminal" ELSE "quarantine"
        ELSE IF /\ r.phase \in {"Prepared", "CandidateReserved", "Verified", "PublishIntent"}
                /\ Discardable(r) THEN "discard"
        ELSE IF /\ r.phase \in {"PublishIntent", "Published", "ReopenedVerified"}
                /\ Resumable(r) THEN "resume"
        ELSE IF r.phase = "ReopenedVerified" /\ Retirable(r) THEN "retire"
        ELSE "quarantine"

Restart ==
    /\ up = "down"
    /\ LET route == Classified
           at(step) == /\ up' = "recovering" /\ pc' = step
                       /\ work' = [NoWork EXCEPT !.route = route, !.record = journal.last,
                                                 !.cancel = (route = "discard")]
       IN  \/ /\ route = "quarantine"
              /\ up' = "quarantined" /\ restriction' = "Locked"
              /\ UNCHANGED <<pc, work, active>>
           \/ /\ route \in {"clean", "terminal"} /\ alias = Business
              /\ up' = "running" /\ active' = Business
              /\ UNCHANGED <<pc, work, restriction>>
           \/ /\ \/ route = "terminal" /\ alias # Business /\ at("alias")
                 \/ /\ route = "discard"
                    /\ at(IF dir[Other(journal.last.old)] = 0 THEN "dropCandidateSlot"
                                                              ELSE "dropFile")
                 \/ route = "resume" /\ at("alias")
                 \/ route = "retire" /\ at("deleteOldSlot")
              /\ active' = Business
              /\ UNCHANGED restriction
    /\ UNCHANGED <<requested, applied, authority, runtime, waiting, holder, fenced, run,
                   lockedThrough, diskVars, keyVars, journal, nextOp, candidates, faultVars,
                   committed>>

-----------------------------------------------------------------------------
RecoveryStep ==
    up = "recovering" /\
    ( \/ StoreAlias \/ AppendPublished \/ AppendReopened \/ UnlinkOld \/ SyncUnlink
      \/ DeleteOldSlot \/ FinishRetirement
      \/ DropFile \/ SyncDrop \/ DropCandidateSlot \/ DropOldSlot \/ AppendCancelled )

ExecutorStep ==
    up = "running" /\
    ( \/ ReserveOldSlot \/ ReserveCandidateSlot \/ AppendPrepared \/ PrepareRejected
      \/ CreateCandidate \/ CloneCandidate \/ AppendReserved \/ InstallPlan \/ InstallRejected
      \/ VerifyCandidate \/ AppendVerified \/ AppendIntent \/ Exchange \/ SyncExchange
      \/ StoreAlias \/ AppendPublished \/ AppendReopened \/ UnlinkOld \/ SyncUnlink
      \/ DeleteOldSlot \/ AppendRetired \/ Reopen
      \/ DropFile \/ SyncDrop \/ DropCandidateSlot \/ DropOldSlot \/ AppendCancelled )

Failure == AppendFails \/ StepFails \/ VerifyFails \/ FailsCleanly

HostStep == HostOnly \/ Grant \/ Lock \/ AbortOpened \/ CommitWrite \/ CommitSync

Next ==
    \/ HostStep
    \/ \E p \in Plans : Begin(p)
    \/ ExecutorStep
    \/ RecoveryStep
    \/ Failure
    \/ Crash
    \/ Quit
    \/ Restart

Spec == Init /\ [][Next]_vars /\ WF_vars(Restart) /\ WF_vars(RecoveryStep)

-----------------------------------------------------------------------------
(* A kill can leave a journal record in place ahead of an exchange whose      *)
(* directory change is not synced. What a power failure then finds is not     *)
(* promised: the three properties below end there.                            *)

(* Whatever has been synced, the key store can open business.db: the alias or *)
(* a slot record holds the key of the file that bears the name.               *)
ActiveReadable ==
    ~overtaken =>
        \A d \in {dir, synced} :
            /\ d["business"] # 0
            /\ d["business"] \in {alias} \cup {slots[s].key : s \in Slots}

(* No committed local change and no revision already served is ever missing *)
(* from business.db, not even when a crash undoes what was not yet synced.   *)
NothingLost ==
    ~overtaken =>
        \A d \in {dir, synced} :
            LET f == disk[d["business"]]
            IN  f.facts = committed.facts /\ f.rev >= committed.rev

(* After a kill or a power failure at any other step, and after a quit, the *)
(* restart decides: it cancels, resumes or opens, and does not quarantine.   *)
RestartDecides == up = "down" /\ ~undecided /\ ~overtaken => Classified # "quarantine"

(* A restart comes to an end: the operation is finished in the journal and *)
(* the host serves again, or the workspace is quarantined.                  *)
RecoverySettles ==
    (up = "down") ~>
        \/ up = "quarantined"
        \/ up = "running" /\ journal.last.phase \in Terminal \cup {"none"}
=============================================================================
