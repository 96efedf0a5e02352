-------------------------- MODULE RebootstrapProofs --------------------------
(* Proofs about the local host's authority and the rebootstrap under it.   *)
EXTENDS Rebootstrap, TLAPS

(* What makes LockHolds inductive. Every transition has an epoch of its    *)
(* own, none above the requested one; the epoch that closed the runtime is *)
(* not handed out again; so whenever the applied authority is the newest   *)
(* one and Active, it is newer than every lock.                            *)
LockInvariant ==
    /\ requested \in Nat /\ applied \in Nat /\ lockedThrough \in Nat
    /\ lockedThrough <= requested
    /\ \A t \in waiting : t.epoch \in Nat /\ t.epoch <= requested /\ t.epoch # lockedThrough
    /\ \A t, u \in waiting : t.epoch = u.epoch => t = u
    /\ applied = lockedThrough => restriction # "Active"
    /\ LockHolds

authorityVars == <<requested, applied, waiting, lockedThrough>>

(* A step of the rebootstrap, seen by the authority: it may close the runtime *)
(* and release the lock, and it hands out and applies no epoch.               *)
Bystander ==
    /\ UNCHANGED authorityVars
    /\ restriction' \in {restriction, "Locked"}
    /\ holder' \in {holder, "none"}

-----------------------------------------------------------------------------
\* The authority before its first transition: no epoch, no lock, no holder.
LEMMA InitLock ==
  ASSUME HostInit
  PROVE  LockInvariant
  BY DEF HostInit, LockInvariant, LockHolds

\* A new transition gets the epoch after the requested one.
LEMMA RequestKeepsLock ==
  ASSUME LockInvariant, NEW k \in Kinds, Request(k)
  PROVE  LockInvariant'
<1> DEFINE new == [kind |-> k, epoch |-> requested + 1]
<1>1. /\ new.epoch = requested + 1 /\ waiting' = waiting \cup {new}
      /\ requested' = requested + 1
      /\ UNCHANGED <<applied, restriction, holder, lockedThrough>>
  BY DEF Request
<1> HIDE DEF new
<1>2. \A t \in waiting' : t.epoch \in Nat /\ t.epoch <= requested' /\ t.epoch # lockedThrough'
  BY <1>1 DEF LockInvariant
<1>3. \A t, u \in waiting' : t.epoch = u.epoch => t = u
  BY <1>1 DEF LockInvariant
<1> QED
  BY <1>1, <1>2, <1>3 DEF LockInvariant, LockHolds

\* A transition that has the aggregate lock is applied, or closes the runtime.
LEMMA TransitionKeepsLock ==
  ASSUME LockInvariant, NEW t, Granted(t) \/ ClosedBy(t)
  PROVE  LockInvariant'
<1>1. /\ t \in waiting /\ waiting' = waiting \ {t} /\ applied' = t.epoch
      /\ holder = "none" /\ UNCHANGED <<requested, holder>>
  BY DEF Granted, ClosedBy, Settles
<1>2. /\ t.epoch \in Nat /\ t.epoch <= requested /\ t.epoch # lockedThrough
      /\ \A u \in waiting' : u.epoch \in Nat /\ u.epoch <= requested
                             /\ u.epoch # lockedThrough /\ u.epoch # t.epoch
      /\ \A u, v \in waiting' : u.epoch = v.epoch => u = v
  BY <1>1 DEF LockInvariant
<1>3. CASE Granted(t)
  BY <1>1, <1>2, <1>3 DEF LockInvariant, LockHolds, Granted
<1>4. CASE ClosedBy(t)
  <2>1. /\ lockedThrough' \in {t.epoch, lockedThrough} /\ restriction' = "Locked"
    BY <1>4 DEF ClosedBy
  <2> QED
    BY <1>1, <1>2, <2>1 DEF LockInvariant, LockHolds
<1> QED
  BY <1>3, <1>4

\* An operation takes the lock only under an authority newer than every lock.
LEMMA TakeKeepsLock ==
  ASSUME LockInvariant, NEW who, Take(who)
  PROVE  LockInvariant'
  BY DEF LockInvariant, LockHolds, Take, Authorized

\* A step that hands out no epoch and takes no lock.
LEMMA BystanderKeepsLock ==
  ASSUME LockInvariant, Bystander
  PROVE  LockInvariant'
  BY DEF LockInvariant, LockHolds, Bystander, authorityVars

\* The process is gone, and its authority with it.
LEMMA GoneKeepsLock ==
  ASSUME HostGone
  PROVE  LockInvariant'
  BY DEF LockInvariant, LockHolds, HostGone

\* Every operation of the local host keeps the invariant.
LEMMA HostKeepsLock ==
  ASSUME LockInvariant, [HostNext]_hostVars
  PROVE  LockInvariant'
<1>1. CASE \E k \in Kinds : Request(k)
  BY <1>1, RequestKeepsLock
<1>2. CASE \E t \in waiting : Granted(t) \/ Aborted(t) \/ Locked(t)
  BY <1>2, TransitionKeepsLock DEF Aborted, Locked
<1>3. CASE BeginWrite \/ BeginSyncWrite
  BY <1>3, TakeKeepsLock DEF BeginWrite, BeginSyncWrite
<1>4. CASE HostGone
  BY <1>4, GoneKeepsLock
<1>5. CASE ClockMoves \/ AdmitRun \/ EndRun \/ Fence \/ Rollback \/ Commit("write")
           \/ Commit("sync") \/ UNCHANGED hostVars
  <2>1. Bystander
    BY <1>5 DEF Bystander, authorityVars, ClockMoves, AdmitRun, EndRun, Fence, Rollback,
                Commit, hostVars
  <2> QED
    BY <2>1, BystanderKeepsLock
<1> QED
  BY <1>1, <1>2, <1>3, <1>4, <1>5 DEF HostNext

(* No write is in progress after a lock, for the local host alone and for   *)
(* any number of transitions: however late an older Grant is applied, what  *)
(* holds the aggregate lock works under an authority newer than every       *)
(* security lock, retryable lock and refused Grant.                         *)
THEOREM HostLockHolds == HostSpec => []LockHolds
<1>1. HostInit => LockInvariant
  BY InitLock
<1>2. LockInvariant /\ [HostNext]_hostVars => LockInvariant'
  BY HostKeepsLock
<1>3. LockInvariant => LockHolds
  BY DEF LockInvariant
<1> QED
  BY <1>1, <1>2, <1>3, PTL DEF HostSpec
-----------------------------------------------------------------------------
\* The ways an executor's step may treat the host's state.
LEMMA ReleaseIsBystander ==
  ASSUME \/ Release \/ UNCHANGED hostVars
         \/ /\ UNCHANGED <<requested, applied, restriction, waiting, lockedThrough>>
            /\ holder' \in {holder, "none"}
  PROVE  Bystander
  BY DEF Release, hostVars, Bystander, authorityVars

\* Every step of the executor closes the runtime, releases the lock or leaves the host alone.
LEMMA ExecutorIsBystander ==
  ASSUME ExecutorStep
  PROVE  Bystander
<1>1. CASE ReserveOldSlot \/ ReserveCandidateSlot \/ PrepareRejected
  BY Zenon, <1>1, ReleaseIsBystander DEF ReserveOldSlot, ReserveCandidateSlot, PrepareRejected
<1>2. CASE \/ AppendPrepared \/ AppendReserved \/ AppendVerified \/ AppendIntent
           \/ AppendPublished \/ AppendReopened \/ AppendRetired
  BY Zenon, <1>2, ReleaseIsBystander DEF AppendPrepared, AppendReserved, AppendVerified,
     AppendIntent, AppendPublished, AppendReopened, AppendRetired, Append
<1>3. CASE CreateCandidate \/ CloneCandidate \/ Exchange \/ SyncExchange \/ UnlinkOld \/ SyncUnlink
           \/ DeleteOldSlot \/ DropFile \/ SyncDrop \/ DropCandidateSlot
  BY Zenon, <1>3, ReleaseIsBystander DEF CreateCandidate, CloneCandidate, Exchange, SyncExchange,
     UnlinkOld, SyncUnlink, DeleteOldSlot, DropFile, SyncDrop, DropCandidateSlot, Go
<1>4. CASE InstallPlan \/ InstallRejected
  BY Zenon, <1>4, ReleaseIsBystander DEF InstallPlan, InstallRejected
<1>5. CASE VerifyCandidate \/ Reopen
  BY <1>5, ReleaseIsBystander DEF VerifyCandidate, Reopen
<1>6. CASE StoreAlias
  BY Zenon, <1>6, ReleaseIsBystander DEF StoreAlias, Ready, Go
<1>7. CASE DropOldSlot \/ AppendCancelled
  BY Zenon, <1>7, ReleaseIsBystander DEF DropOldSlot, AppendCancelled, Finish, Go, Ready
<1> QED
  BY Zenon, <1>1, <1>2, <1>3, <1>4, <1>5, <1>6, <1>7 DEF ExecutorStep

\* The restart works before there is any authority.
LEMMA RecoveryIsBystander ==
  ASSUME RecoveryStep
  PROVE  Bystander
<1>1. CASE AppendPublished \/ AppendReopened
  BY Zenon, <1>1, ReleaseIsBystander DEF AppendPublished, AppendReopened, Append
<1>2. CASE UnlinkOld \/ SyncUnlink \/ DeleteOldSlot \/ DropFile \/ SyncDrop \/ DropCandidateSlot
  BY Zenon, <1>2, ReleaseIsBystander DEF UnlinkOld, SyncUnlink, DeleteOldSlot, DropFile, SyncDrop,
     DropCandidateSlot, Go
<1>3. CASE StoreAlias
  BY Zenon, <1>3, ReleaseIsBystander DEF StoreAlias, Ready, Go
<1>4. CASE DropOldSlot \/ AppendCancelled \/ FinishRetirement
  BY Zenon, <1>4, ReleaseIsBystander DEF DropOldSlot, AppendCancelled, FinishRetirement, Finish,
     Go, Ready
<1> QED
  BY Zenon, <1>1, <1>2, <1>3, <1>4 DEF RecoveryStep

\* A storage error makes the executor return or clean up.
LEMMA FailureIsBystander ==
  ASSUME Failure
  PROVE  Bystander
<1>1. CASE AppendFails \/ StepFails \/ FailsCleanly
  BY Zenon, <1>1, ReleaseIsBystander DEF AppendFails, StepFails, FailsCleanly, Go
<1>2. CASE VerifyFails
  BY <1>2, ReleaseIsBystander DEF VerifyFails
<1> QED
  BY Zenon, <1>1, <1>2 DEF Failure

\* Every step of the whole keeps the invariant.
LEMMA NextKeepsLock ==
  ASSUME LockInvariant, [Next]_vars
  PROVE  LockInvariant'
<1>1. CASE HostStep
  <2>1. HostNext
    BY Zenon, <1>1 DEF HostStep, HostOnly, Grant, Lock, AbortOpened, CommitWrite, CommitSync, HostNext
  <2> QED
    BY Zenon, <2>1, HostKeepsLock
<1>2. CASE \E p \in Plans : Begin(p)
  BY Zenon, <1>2, TakeKeepsLock DEF Begin
<1>3. CASE ExecutorStep \/ RecoveryStep \/ Failure
  BY Zenon, <1>3, ExecutorIsBystander, RecoveryIsBystander, FailureIsBystander, BystanderKeepsLock
<1>4. CASE Crash \/ Quit
  BY Zenon, <1>4, GoneKeepsLock DEF Crash, Quit, ProcessGone
<1>5. CASE Restart
  <2>1. Bystander
    BY Zenon, <1>5 DEF Restart, Bystander, authorityVars
  <2> QED
    BY Zenon, <2>1, BystanderKeepsLock
<1>6. CASE UNCHANGED vars
  <2>1. Bystander
    BY Zenon, <1>6, ReleaseIsBystander DEF vars
  <2> QED
    BY Zenon, <2>1, BystanderKeepsLock
<1> QED
  BY Zenon, <1>1, <1>2, <1>3, <1>4, <1>5, <1>6 DEF Next

(* No write and no rebootstrap is in progress after a lock, for any number  *)
(* of transitions, operations, crashes and storage errors: a rebootstrap    *)
(* holds the aggregate lock over all its durable steps, and none of them    *)
(* lets an authority older than a lock back in.                             *)
THEOREM LockHoldsAlways == Spec => []LockHolds
<1>1. Init => LockInvariant
  BY InitLock DEF Init
<1>2. LockInvariant /\ [Next]_vars => LockInvariant'
  BY NextKeepsLock
<1>3. LockInvariant => LockHolds
  BY DEF LockInvariant
<1> QED
  BY <1>1, <1>2, <1>3, PTL DEF Spec
-----------------------------------------------------------------------------
(* Custody: which file is business.db, and who holds its key.               *)

Row == [op : Nat, seq : Nat, old : Slots, created : BOOLEAN, origin : Nat \X Nat,
        oldKey : Nat, key : Nat, proof : Nat \X Nat, phase : Phases]
SlotRow == [origin : Nat \X Nat, key : Nat]
FileRow == [marks : SUBSET Marks, facts : Nat, rev : Nat, link : Nat]
PlanRow == [checkpoint : 0..MaxRevision, head : 0..MaxRevision]
WorkRow == [route : Routes, cancel : BOOLEAN, plan : PlanRow, record : Row]
JournalRow == [last : Row, link : Nat, torn : BOOLEAN]

(* The shapes of the state, without the bounds of TypeOK. *)
Shapes ==
    /\ dir \in [Names -> Nat] /\ synced \in [Names -> Nat]
    /\ disk \in [Files -> FileRow]
    /\ slots \in [Slots -> SlotRow] /\ alias \in Nat
    /\ journal \in JournalRow
    /\ work \in WorkRow /\ active \in Nat /\ nextOp \in Nat
    /\ candidates \in 0..MaxCandidates
    /\ committed \in [facts : Nat, rev : Nat]

BeforeCandidate == {"reserveOld", "reserveCandidate"}
Cloned == {"reserve", "install", "verify", "appendVerified", "intend", "exchange"}
WithCandidate == {"prepare", "create", "clone"} \cup Cloned
BeforeExchange == BeforeCandidate \cup WithCandidate
WriterClosed == {"appendVerified", "intend", "exchange", "syncExchange"}
Cleanup == {"dropFile", "syncDrop", "dropCandidateSlot", "dropOldSlot", "cancel"}
Retiring == {"reopen", "unlinkOld", "syncUnlink", "deleteOldSlot", "retire"}

StepsOf(route) ==
    CASE route = "none" -> {"idle"}
      [] route = "execute" -> BeforeExchange \cup Cleanup \cup Retiring
                                  \cup {"syncExchange", "alias", "publish", "open"}
      [] route = "discard" -> Cleanup \cup {"alias"}
      [] route = "resume" -> Retiring \cup {"alias", "publish"}
      [] route = "retire" -> {"deleteOldSlot", "alias", "retire"}
      [] route = "terminal" -> {"alias"}
      [] OTHER -> {}

(* Who is at work: the executor under the aggregate lock, the restart, or nobody. *)
AtWork ==
    /\ pc \in StepsOf(work.route)
    /\ up = "running" => work.route \in {"none", "execute"}
    /\ up = "recovering" => work.route \in {"discard", "resume", "retire", "terminal"}
    /\ up \notin {"running", "recovering"} => work.route = "none"
    /\ work.route = "execute" => holder = "rebootstrap" /\ work.plan \in Plans
    /\ pc \in BeforeCandidate => candidates < MaxCandidates
    /\ pc \in WriterClosed => ~runtime
    /\ work.route = "discard" => work.cancel

OnDisk == synced["business"]

(* business.db is the file of the process, on the disk as in the directory. *)
Settled == Business = active /\ OnDisk = active
Kept == Settled /\ alias = active

(* An exchange that is not on the disk is the one the journal intends. *)
GapIsIntended ==
    Business # OnDisk =>
        /\ journal.last.phase = "PublishIntent"
        /\ Business = journal.last.key /\ OnDisk = journal.last.oldKey

(* Before the exchange, and when an operation is given up. *)
OldIsKept ==
    /\ up = "running" /\ pc = "idle" /\ journal.last.phase \in Terminal \cup {"none"} => Kept
    /\ pc \in BeforeExchange => Kept
    /\ pc \in BeforeExchange \ {"reserveOld"} => rec.oldKey = active
    /\ pc \in WithCandidate => rec.key # active
    /\ pc = "exchange" => journal.last = rec /\ rec.phase = "PublishIntent"
    /\ pc \in Cleanup =>
           \/ Kept
           \/ /\ Settled /\ slots[rec.old].key = active
              /\ work.route = "discard" /\ pc \in {"dropFile", "syncDrop", "dropCandidateSlot"}

(* From the exchange on. *)
NewIsKept ==
    /\ pc = "syncExchange" =>
           /\ journal.last = rec /\ rec.phase = "PublishIntent"
           /\ Business = rec.key /\ active = rec.oldKey /\ rec.key # active
    /\ pc = "alias" =>
           /\ Business = active
           /\ work.route # "resume" => Settled
           /\ work.route \in {"execute", "resume"} => journal.last = rec
           /\ work.route = "execute" => rec.phase = "PublishIntent"
           /\ work.route = "resume" => slots[rec.old].key = rec.oldKey
    /\ pc = "publish" =>
           Business = active /\ alias = active /\ (work.route = "execute" => Settled)
    /\ pc \in Retiring \cup {"open"} =>
           \/ Kept
           \/ /\ Settled /\ slots[cand].key = active
              /\ work.route = "retire" /\ pc = "deleteOldSlot"

(* What serves the workspace serves the file that is on the disk. *)
ServesSettled ==
    /\ up = "running" /\ Business = active => OnDisk = active
    /\ runtime \/ holder \in {"write", "sync"} => up = "running" /\ Settled

(* The key store can open file f; f holds every committed change. *)
Openable(f) == f = alias \/ \E s \in Slots : slots[s].key = f
Whole(f) == disk[f].facts = committed.facts /\ disk[f].rev >= committed.rev

(* Files are numbered in the order of their keys. *)
Numbered ==
    /\ Business \in 1..(candidates + 1) /\ OnDisk \in 1..(candidates + 1)
    /\ pc \in WithCandidate => rec.key \in 1..(candidates + 1)

(* A clone has at least what the active file has. *)
CloneIsWhole == pc \in Cloned => Whole(rec.key)

Custody == GapIsIntended /\ OldIsKept /\ NewIsKept /\ ServesSettled
Readable == Openable(Business) /\ Openable(OnDisk)
Complete == Numbered /\ CloneIsWhole /\ Whole(Business) /\ Whole(OnDisk)

CustodyState == Shapes /\ AtWork /\ Custody /\ Readable /\ Complete
CustodyInvariant == ~overtaken => CustodyState

-----------------------------------------------------------------------------
\* While the executor or the restart is at work, no write holds the lock.
LEMMA NoWriter ==
  ASSUME AtWork, ServesSettled, pc # "idle"
  PROVE  holder \notin {"write", "sync"} /\ up \in {"running", "recovering"}
<1>1. work.route # "none"
  BY DEF AtWork, StepsOf
<1>2. CASE up = "running"
  BY <1>1, <1>2 DEF AtWork
<1>3. CASE up # "running"
  BY <1>1, <1>3 DEF AtWork, ServesSettled
<1> QED
  BY <1>2, <1>3

\* Where the process, the directory, the disk and the alias agree, custody holds
\* but for what the next step needs.
LEMMA KeptArrives ==
  ASSUME Kept', runtime' => up' = "running", holder' \notin {"write", "sync"}
  PROVE  GapIsIntended' /\ ServesSettled' /\ Readable'
<1>1. GapIsIntended' /\ ServesSettled'
  BY DEF Kept, Settled, GapIsIntended, ServesSettled
<1>2. Readable'
  BY Zenon DEF Kept, Settled, Readable, Openable
<1> QED
  BY <1>1, <1>2

\* A step that leaves the files' contents alone.
LEMMA SameFiles ==
  ASSUME Complete, UNCHANGED <<disk, committed, candidates>>,
         Business' \in {Business, OnDisk}, OnDisk' \in {Business, OnDisk},
         pc' \in WithCandidate => pc \in WithCandidate /\ rec'.key = rec.key,
         pc' \in Cloned => pc \in Cloned
  PROVE  Complete'
<1>1. Cloned \subseteq WithCandidate
  BY DEF WithCandidate
<1>2. Numbered'
  BY Zenon DEF Complete, Numbered
<1>3. CloneIsWhole'
  BY Zenon, <1>1 DEF Complete, CloneIsWhole, Whole
<1>4. Whole(Business)' /\ Whole(OnDisk)'
  BY Zenon DEF Complete, Whole
<1> QED
  BY Zenon, <1>2, <1>3, <1>4 DEF Complete

\* Directory entries other than business.db.
LEMMA SlotNames ==
  /\ \A s \in Slots : Other(s) \in Slots /\ Other(s) # s /\ s \in Names /\ s # "business"
  /\ "business" \in Names
  BY DEF Slots, Names, Other

\* The fields of the operation's record.
LEMMA RecordShape ==
  ASSUME Shapes
  PROVE  /\ rec \in Row /\ rec.old \in Slots /\ cand \in Slots /\ cand # rec.old
         /\ rec.key \in Nat /\ rec.oldKey \in Nat /\ rec.op \in Nat /\ rec.seq \in Nat
         /\ <<rec.op, rec.seq>> \in Nat \X Nat /\ work.route \in Routes
         /\ Business \in Nat /\ OnDisk \in Nat
<1>1. rec \in Row /\ work.route \in Routes
  BY DEF Shapes, WorkRow, rec
<1>2. /\ rec.old \in Slots /\ rec.key \in Nat /\ rec.oldKey \in Nat /\ rec.op \in Nat
      /\ rec.seq \in Nat
  BY <1>1 DEF Row
<1>3. cand \in Slots /\ cand # rec.old
  BY <1>2, SlotNames DEF cand
<1>4. Business \in Nat /\ OnDisk \in Nat
  BY SlotNames DEF Shapes, Business, OnDisk
<1> QED
  BY <1>1, <1>2, <1>3, <1>4

\* The operation's record moves to another phase.
LEMMA RecordPhase ==
  ASSUME Shapes, NEW p \in Phases, work' = [work EXCEPT !.record.phase = p]
  PROVE  /\ work' \in WorkRow /\ rec' = [rec EXCEPT !.phase = p] /\ rec' \in Row
         /\ work'.route = work.route /\ work'.plan = work.plan /\ work'.cancel = work.cancel
         /\ rec'.key = rec.key /\ rec'.oldKey = rec.oldKey /\ rec'.old = rec.old
         /\ rec'.phase = p
<1>1. work \in WorkRow
  BY DEF Shapes
<1>2. rec' = [rec EXCEPT !.phase = p] /\ rec \in Row
  BY <1>1 DEF rec, WorkRow
<1>3. [rec EXCEPT !.phase = p] \in Row
  BY <1>2 DEF Row
<1>4. work' = [work EXCEPT !.record = [rec EXCEPT !.phase = p]]
  BY <1>1 DEF rec, WorkRow
<1>5. /\ work' \in WorkRow /\ work'.route = work.route /\ work'.plan = work.plan
      /\ work'.cancel = work.cancel
  BY <1>1, <1>3, <1>4 DEF WorkRow
<1>6. /\ rec'.key = rec.key /\ rec'.oldKey = rec.oldKey /\ rec'.old = rec.old
      /\ rec'.phase = p
  BY <1>2 DEF Row
<1> QED
  BY <1>2, <1>3, <1>5, <1>6

\* Nothing to work on.
LEMMA IdleWork == NoWork \in WorkRow /\ NoWork.route = "none" /\ StepsOf("none") = {"idle"}
<1>1. NoRecord \in Row
  BY DEF NoRecord, Row, Slots, Phases
<1>2. 0 \in 0..MaxRevision
  BY RebootstrapAssumption
<1> QED
  BY <1>1, <1>2 DEF NoWork, WorkRow, PlanRow, Routes, StepsOf
\* Nobody is at work, and everything is in agreement.
LEMMA AtRest ==
  ASSUME Kept', pc' = "idle", work'.route = "none", up' = "running",
         holder' \notin {"write", "sync"}
  PROVE  AtWork' /\ Custody' /\ Readable'
<1>1. GapIsIntended' /\ ServesSettled' /\ Readable'
  BY Zenon, KeptArrives
<1>2. AtWork'
  BY IdleWork DEF AtWork, WriterClosed, BeforeCandidate
<1>3. OldIsKept' /\ NewIsKept'
  BY DEF OldIsKept, NewIsKept, BeforeExchange, BeforeCandidate, WithCandidate, Cloned, Cleanup,
         Retiring
<1> QED
  BY Zenon, <1>1, <1>2, <1>3 DEF Custody

\* The executor returns, or the restart is done, with everything in agreement.
LEMMA Returned ==
  ASSUME Kept', pc' = "idle", work' = NoWork, up' = "running",
         holder' \notin {"write", "sync"}
  PROVE  AtWork' /\ Custody' /\ Readable'
<1>1. work'.route = "none"
  BY Zenon, IdleWork
<1> QED
  BY Zenon, <1>1, AtRest

\* The journal after record r.
LEMMA JournalShape ==
  ASSUME journal \in JournalRow, NEW r \in Row
  PROVE  Appended(r) \in JournalRow /\ Appended(r).last = r
<1>1. r.seq \in Nat
  BY DEF Row
<1> QED
  BY Zenon, <1>1 DEF JournalRow, Appended

\* A journal append syncs the directory, so that nothing is left to lose.
LEMMA AppendStep ==
  ASSUME CustodyState, NEW at, NEW phase \in Phases, NEW then, Append(at, phase, then),
         \/ at = "prepare" /\ then = "create"
         \/ at = "reserve" /\ then = "install"
         \/ at = "appendVerified" /\ then = "intend"
         \/ at = "intend" /\ then = "exchange" /\ phase = "PublishIntent"
         \/ at = "publish" /\ then = "reopen"
         \/ at = "reopen" /\ then = "unlinkOld"
         \/ at = "retire" /\ then = "open" /\ work.route = "execute"
  PROVE  CustodyState'
<1>i. Shapes /\ AtWork /\ OldIsKept /\ NewIsKept /\ ServesSettled /\ Readable /\ Complete
  BY Zenon DEF CustodyState, Custody
<1>a. /\ pc = at /\ pc' = then /\ work' = [work EXCEPT !.record.phase = phase]
      /\ journal' = Appended([rec EXCEPT !.phase = phase]) /\ synced' = dir
      /\ UNCHANGED <<hostVars, dir, disk, slots, alias, up, active, nextOp, candidates, committed>>
  BY Zenon DEF Append, keyVars
<1>h. UNCHANGED <<holder, runtime>>
  BY Zenon, <1>a DEF hostVars
<1>1. /\ work' \in WorkRow /\ rec' = [rec EXCEPT !.phase = phase] /\ rec' \in Row
      /\ work'.route = work.route /\ work'.plan = work.plan /\ work'.cancel = work.cancel
      /\ rec'.key = rec.key /\ rec'.oldKey = rec.oldKey /\ rec'.old = rec.old
      /\ rec'.phase = phase
  BY Zenon, <1>a, <1>i, RecordPhase
<1>2. journal' \in JournalRow /\ journal.last' = rec'
  BY Zenon, <1>1, <1>a, <1>i, JournalShape DEF Shapes
<1>3. Shapes'
  BY Zenon, <1>1, <1>2, <1>a, <1>i DEF Shapes
<1>4. Business = active /\ alias = active
  BY <1>a, <1>i DEF OldIsKept, NewIsKept, Kept, Settled, BeforeExchange, WithCandidate, Cloned,
     Retiring
<1>5. Kept'
  BY Zenon, <1>4, <1>a DEF Kept, Settled, Business, OnDisk
<1>6. AtWork'
  <2>1. CASE work.route = "execute"
    BY <1>1, <1>a, <1>h, <1>i, <2>1 DEF AtWork, WriterClosed, StepsOf, BeforeExchange, BeforeCandidate,
       WithCandidate, Cloned, Cleanup, Retiring
  <2>2. CASE work.route # "execute"
    BY <1>1, <1>a, <1>h, <1>i, <2>2 DEF AtWork, WriterClosed, StepsOf, BeforeCandidate, Cleanup, Retiring
  <2> QED
    BY <2>1, <2>2
<1>7. holder \notin {"write", "sync"} /\ (runtime => up = "running")
  BY <1>a, <1>i, NoWriter DEF ServesSettled
<1>8. GapIsIntended' /\ ServesSettled' /\ Readable'
  BY Zenon, <1>5, <1>7, <1>a, <1>h, KeptArrives
<1>9. OldIsKept'
  <2>1. then \in BeforeExchange => /\ rec.oldKey = active /\ then # "reserveOld"
    BY <1>a, <1>i DEF OldIsKept, BeforeExchange, BeforeCandidate, WithCandidate, Cloned
  <2>2. then \in WithCandidate => rec.key # active
    BY <1>a, <1>i DEF OldIsKept, WithCandidate, Cloned
  <2>3. then = "exchange" => rec'.phase = "PublishIntent"
    BY <1>1
  <2>4. pc' # "idle"
    BY <1>a
  <2> QED
    BY Zenon, <1>1, <1>2, <1>5, <1>a, <2>1, <2>2, <2>3, <2>4 DEF OldIsKept
<1>10. NewIsKept'
  BY <1>5, <1>a DEF NewIsKept, Kept, Settled
<1>11. Complete'
  <2>1. Business' = Business /\ OnDisk' = Business
    BY Zenon, <1>a DEF Business, OnDisk
  <2>2. (then \in WithCandidate => pc \in WithCandidate) /\ (then \in Cloned => pc \in Cloned)
    BY <1>a DEF WithCandidate, Cloned
  <2> QED
    BY Zenon, <1>1, <1>a, <1>i, <2>1, <2>2, SameFiles
<1> QED
  BY Zenon, <1>3, <1>6, <1>8, <1>9, <1>10, <1>11 DEF CustodyState, Custody
\* A slot's file comes or goes; business.db is another name.
LEMMA SlotFile ==
  ASSUME Shapes, NEW s \in Slots, NEW k \in Nat, dir' = [dir EXCEPT ![s] = k]
  PROVE  dir' \in [Names -> Nat] /\ Business' = Business
<1>1. dir \in [Names -> Nat]
  BY DEF Shapes
<1> QED
  BY <1>1, SlotNames DEF Business

\* A slot record comes or goes; the other slot keeps its own.
LEMMA SlotRecord ==
  ASSUME Shapes, NEW s \in Slots, NEW r \in SlotRow, slots' = [slots EXCEPT ![s] = r]
  PROVE  slots' \in [Slots -> SlotRow] /\ slots'[s] = r /\ \A t \in Slots \ {s} : slots'[t] = slots[t]
  BY DEF Shapes

\* No slot record.
LEMMA NoSlotShape == NoSlot \in SlotRow
  BY DEF NoSlot, SlotRow

(* The disk d with other evidence of file f. *)
Marked(d, f, m) == [d EXCEPT ![f].marks = m]

(* Disk e holds what disk d holds, with other evidence. *)
SameData(d, e) ==
    /\ e \in [Files -> FileRow]
    /\ \A g \in Files : e[g].facts = d[g].facts /\ e[g].rev = d[g].rev

\* Only the evidence of a file changes.
LEMMA Remarked ==
  ASSUME NEW disks \in [Files -> FileRow], NEW f, NEW m \in SUBSET Marks
  PROVE  SameData(disks, Marked(disks, f, m))
<1> DEFINE d == Marked(disks, f, m)
<1> SUFFICES /\ d \in [Files -> FileRow]
             /\ \A g \in Files : d[g].facts = disks[g].facts /\ d[g].rev = disks[g].rev
  BY Zenon DEF SameData
<1> USE DEF Marked
<1>1. disks \in [Files -> FileRow]
  OBVIOUS
<1>2. CASE f \in Files
  <2> DEFINE row == [disks[f] EXCEPT !.marks = m]
  <2>1. row \in FileRow /\ row.facts = disks[f].facts /\ row.rev = disks[f].rev
    BY <1>1, <1>2 DEF FileRow
  <2>2. d = [disks EXCEPT ![f] = row]
    BY <1>1, <1>2
  <2> HIDE DEF row
  <2> QED
    BY <1>1, <1>2, <2>1, <2>2
<1>3. CASE f \notin Files
  <2>1. d = disks
    BY <1>1, <1>3
  <2> QED
    BY Zenon, <1>1, <2>1
<1> QED
  BY <1>2, <1>3

\* The numbers of business.db are numbers of files.
LEMMA BusinessIsFile ==
  ASSUME Shapes, Complete
  PROVE  /\ Business \in Files /\ OnDisk \in Files
         /\ pc \in WithCandidate => rec.key \in Files
<1>1. candidates \in 0..MaxCandidates /\ MaxCandidates \in Nat
  BY RebootstrapAssumption DEF Shapes
<1>2. 1..(candidates + 1) \subseteq Files
  BY <1>1 DEF Files
<1> QED
  BY Zenon, <1>2 DEF Complete, Numbered

\* A step that changes evidence only.
LEMMA SameContents ==
  ASSUME Shapes, Complete, UNCHANGED <<committed, candidates>>,
         SameData(disk, disk'),
         Business' \in {Business, OnDisk}, OnDisk' \in {Business, OnDisk},
         pc' \in WithCandidate => pc \in WithCandidate /\ rec'.key = rec.key,
         pc' \in Cloned => pc \in Cloned
  PROVE  Complete'
<1>1. \A x : x \in Cloned => x \in WithCandidate
  BY DEF WithCandidate
<1>2. /\ Business \in Files /\ OnDisk \in Files
      /\ pc \in WithCandidate => rec.key \in Files
  BY Zenon, BusinessIsFile
<1>3. Numbered'
  BY Zenon DEF Complete, Numbered
<1>4. CloneIsWhole'
  BY Zenon, <1>1, <1>2 DEF Complete, CloneIsWhole, Whole, SameData
<1>5. Whole(Business)' /\ Whole(OnDisk)'
  BY Zenon, <1>2 DEF Complete, Whole, SameData
<1> QED
  BY Zenon, <1>3, <1>4, <1>5 DEF Complete

\* A step that moves on while business.db, its key and its contents stay.
LEMMA GoStep ==
  ASSUME CustodyState, Shapes', Complete',
         UNCHANGED <<hostVars, work, active, alias, up, journal, candidates>>,
         Business' = Business, OnDisk' \in {OnDisk, Business},
         \/ pc = "create" /\ pc' = "clone"
         \/ pc = "clone" /\ pc' = "reserve"
         \/ pc = "unlinkOld" /\ pc' = "syncUnlink"
         \/ pc = "syncUnlink" /\ pc' = "deleteOldSlot"
         \/ pc = "deleteOldSlot" /\ pc' = "retire" /\ work.route # "retire"
         \/ pc = "dropFile" /\ pc' = "syncDrop" /\ UNCHANGED slots
         \/ pc = "syncDrop" /\ pc' = "dropCandidateSlot" /\ UNCHANGED slots
         \/ pc = "dropCandidateSlot" /\ pc' = "dropOldSlot" /\ work.route # "discard"
         \/ pc = "dropOldSlot" /\ pc' = "cancel"
  PROVE  CustodyState'
<1>i. Shapes /\ AtWork /\ GapIsIntended /\ OldIsKept /\ NewIsKept /\ ServesSettled /\ Readable
  BY Zenon DEF CustodyState, Custody
<1>h. /\ UNCHANGED <<holder, runtime>> /\ rec' = rec
  BY Zenon DEF hostVars, rec
<1>1. AtWork'
  <2>1. CASE work.route = "execute"
    BY <1>h, <1>i, <2>1 DEF AtWork, WriterClosed, StepsOf, BeforeExchange, BeforeCandidate,
       WithCandidate, Cloned, Cleanup, Retiring
  <2>2. CASE work.route # "execute"
    BY <1>h, <1>i, <2>2 DEF AtWork, WriterClosed, StepsOf, BeforeCandidate, Cleanup, Retiring
  <2> QED
    BY <2>1, <2>2
<1>2. holder \notin {"write", "sync"} /\ (runtime => up = "running")
  BY <1>i, NoWriter DEF ServesSettled
<1>3. CASE Kept
  <2>1. Kept'
    BY <1>3 DEF Kept, Settled
  <2>2. GapIsIntended' /\ ServesSettled' /\ Readable'
    BY Zenon, <1>2, <1>h, <2>1, KeptArrives
  <2>3. OldIsKept'
    BY <1>h, <1>i, <2>1 DEF OldIsKept, BeforeExchange, BeforeCandidate, WithCandidate, Cloned, Cleanup
  <2>4. NewIsKept'
    BY <2>1 DEF NewIsKept
  <2> QED
    BY Zenon, <1>1, <2>2, <2>3, <2>4 DEF CustodyState, Custody
<1>4. CASE ~Kept
  <2>1. /\ pc \in {"dropFile", "syncDrop"} /\ UNCHANGED slots /\ Settled
        /\ slots[rec.old].key = active /\ work.route = "discard"
    BY <1>4, <1>i DEF OldIsKept, NewIsKept, BeforeExchange, WithCandidate, Cloned,
       Cleanup, Retiring
  <2>2. Settled' /\ Business' = OnDisk'
    BY <2>1 DEF Settled
  <2>3. Readable'
    BY Zenon, <1>i, <2>1, <2>2 DEF Readable, Openable, Settled
  <2>4. GapIsIntended' /\ ServesSettled'
    BY <1>2, <1>h, <2>2 DEF GapIsIntended, ServesSettled, Settled
  <2>5. pc' \in {"syncDrop", "dropCandidateSlot"}
    BY <2>1
  <2>6. OldIsKept' /\ NewIsKept'
    BY <1>h, <2>1, <2>2, <2>5 DEF OldIsKept, NewIsKept, BeforeExchange, BeforeCandidate,
       WithCandidate, Cloned, Retiring
  <2> QED
    BY Zenon, <1>1, <2>3, <2>4, <2>6 DEF CustodyState, Custody
<1> QED
  BY Zenon, <1>3, <1>4
-----------------------------------------------------------------------------
(* The executor's steps before the exchange. *)

\* A rebootstrap begins only when the journal's last operation is finished.
LEMMA BeginStep ==
  ASSUME CustodyState, NEW p \in Plans, Begin(p)
  PROVE  CustodyState'
<1>i. Shapes /\ AtWork /\ OldIsKept /\ ServesSettled /\ Complete
  BY Zenon DEF CustodyState, Custody
<1>a. /\ up = "running" /\ pc = "idle" /\ journal.last.phase \in Terminal \cup {"none"}
      /\ candidates < MaxCandidates /\ pc' = "reserveOld"
      /\ UNCHANGED <<dir, synced, disk, slots, alias, journal, up, active, candidates, committed>>
      /\ holder' = "rebootstrap" /\ runtime' = runtime
  BY Zenon DEF Begin, diskVars, keyVars, Take
<1> DEFINE op == (IF journal.last.op > nextOp THEN journal.last.op ELSE nextOp) + 1
           r == [NoRecord EXCEPT !.op = op, !.seq = journal.last.seq + 1,
                                 !.old = ActiveSlot(journal.last)]
<1>1. /\ nextOp' = op
      /\ work' = [route |-> "execute", cancel |-> FALSE, plan |-> p, record |-> r]
  BY Zenon DEF Begin
<1>2. journal.last \in Row
  BY <1>i DEF Shapes, JournalRow
<1>3. op \in Nat /\ journal.last.seq + 1 \in Nat
  BY <1>2, <1>i DEF Row, Shapes
<1>4. ActiveSlot(journal.last) \in Slots
  BY <1>2, SlotNames DEF ActiveSlot, Row, Slots
<1> HIDE DEF op
<1>5. r \in Row
  BY Zenon, <1>3, <1>4 DEF NoRecord, Row, Phases
<1> HIDE DEF r
<1>6. p \in PlanRow
  BY RebootstrapAssumption DEF PlanRow
<1>7. work' \in WorkRow /\ work'.route = "execute" /\ work'.plan = p
  BY <1>1, <1>5, <1>6 DEF WorkRow, Routes
<1>8. Shapes'
  BY Zenon, <1>1, <1>3, <1>7, <1>a, <1>i DEF Shapes
<1>9. Kept'
  BY Zenon, <1>a, <1>i DEF OldIsKept, Kept, Settled, Business, OnDisk
<1>10. GapIsIntended' /\ ServesSettled' /\ Readable'
  BY <1>9, <1>a, KeptArrives
<1>11. AtWork'
  BY <1>7, <1>a DEF AtWork, WriterClosed, StepsOf, BeforeExchange, BeforeCandidate
<1>12. OldIsKept' /\ NewIsKept'
  BY <1>9, <1>a DEF OldIsKept, NewIsKept, BeforeExchange, BeforeCandidate, WithCandidate, Cloned,
     Cleanup, Retiring
<1>13. Complete'
  <2>1. Business' = Business /\ OnDisk' = OnDisk
    BY Zenon, <1>a DEF Business, OnDisk
  <2>2. pc' \notin WithCandidate /\ pc' \notin Cloned
    BY <1>a DEF WithCandidate, Cloned
  <2> QED
    BY Zenon, <1>a, <1>i, <2>1, <2>2, SameFiles
<1> QED
  BY Zenon, <1>8, <1>10, <1>11, <1>12, <1>13 DEF CustodyState, Custody

\* Before a candidate is reserved, the old file is in place, open and complete.
LEMMA ReserveOldStep ==
  ASSUME CustodyState, up = "running", ReserveOldSlot
  PROVE  CustodyState'
<1>i. Shapes /\ AtWork /\ OldIsKept /\ ServesSettled /\ Complete
  BY Zenon DEF CustodyState, Custody
<1>a. /\ pc = "reserveOld" /\ disk' = [disk EXCEPT ![active].marks = {"prepared"}]
      /\ UNCHANGED <<dir, synced, alias, journal, up, active, nextOp, candidates, committed>>
  BY Zenon DEF ReserveOldSlot
<1>1. Kept /\ active \in Nat
  BY <1>a, <1>i DEF OldIsKept, BeforeExchange, BeforeCandidate, Shapes
<1>2. Kept'
  BY Zenon, <1>1, <1>a DEF Kept, Settled, Business, OnDisk
<1>3. Business' = Business /\ OnDisk' = OnDisk
  BY Zenon, <1>a DEF Business, OnDisk
<1>4. SameData(disk, disk') /\ disk' \in [Files -> FileRow]
  <2>1. {"prepared"} \in SUBSET Marks /\ disk \in [Files -> FileRow]
    BY <1>i DEF Marks, Shapes
  <2>2. disk' = Marked(disk, active, {"prepared"})
    BY Zenon, <1>a DEF Marked
  <2>3. SameData(disk, Marked(disk, active, {"prepared"}))
    BY Zenon, <2>1, Remarked
  <2> QED
    BY Zenon, <2>2, <2>3 DEF SameData
<1>5. CASE Release /\ UNCHANGED slots
  <2>1. AtWork' /\ Custody' /\ Readable'
    BY <1>2, <1>5, <1>a, Returned DEF Release
  <2>2. Shapes'
    BY Zenon, <1>4, <1>5, <1>a, <1>i, IdleWork DEF Shapes, Release
  <2>3. pc' \notin WithCandidate /\ pc' \notin Cloned
    BY <1>5 DEF WithCandidate, Cloned, Release
  <2>4. Complete'
    BY Zenon, <1>3, <1>4, <1>a, <1>i, <2>3, SameContents
  <2> QED
    BY Zenon, <2>1, <2>2, <2>4 DEF CustodyState
<1>6. CASE ~(Release /\ UNCHANGED slots)
  <2> DEFINE mine == [origin |-> <<rec.op, rec.seq>>, key |-> active]
             fresh == slots[rec.old] = NoSlot
  <2>1. /\ slots' = [slots EXCEPT ![rec.old] = IF fresh THEN mine ELSE slots[rec.old]]
        /\ work' = [work EXCEPT !.record.oldKey = active, !.record.created = fresh,
                                !.record.origin = slots'[rec.old].origin]
        /\ pc' = "reserveCandidate" /\ UNCHANGED hostVars
    BY Zenon, <1>6 DEF ReserveOldSlot
  <2>2. /\ rec \in Row /\ rec.old \in Slots /\ <<rec.op, rec.seq>> \in Nat \X Nat
    BY Zenon, <1>i, RecordShape
  <2>3. mine \in SlotRow /\ slots[rec.old] \in SlotRow
    BY <1>1, <1>i, <2>2 DEF SlotRow, Shapes
  <2> HIDE DEF mine, fresh
  <2>4. slots' \in [Slots -> SlotRow] /\ slots'[rec.old] \in SlotRow
    BY <1>i, <2>1, <2>2, <2>3 DEF Shapes
  <2> DEFINE origin == slots'[rec.old].origin
  <2>5. origin \in Nat \X Nat
    BY <2>4 DEF SlotRow
  <2>6. work' = [work EXCEPT !.record.oldKey = active, !.record.created = fresh,
                             !.record.origin = origin]
    BY <2>1
  <2> HIDE DEF origin
  <2>7. fresh \in BOOLEAN
    BY DEF fresh
  <2>8. /\ work' \in WorkRow /\ work'.route = work.route /\ work'.plan = work.plan
        /\ rec'.oldKey = active
    <3> DEFINE r == [rec EXCEPT !.oldKey = active, !.created = fresh, !.origin = origin]
    <3>1. r \in Row /\ r.oldKey = active
      BY Zenon, <1>1, <2>2, <2>5, <2>7 DEF Row
    <3>2. work \in WorkRow
      BY <1>i DEF Shapes
    <3>3. work' = [work EXCEPT !.record = r]
      BY Zenon, <2>6, <3>2 DEF rec, WorkRow
    <3> HIDE DEF r
    <3> QED
      BY <3>1, <3>2, <3>3 DEF rec, WorkRow
  <2>9. Shapes'
    BY Zenon, <1>4, <1>a, <1>i, <2>4, <2>8 DEF Shapes
  <2>10. work.route = "execute" /\ UNCHANGED <<holder, runtime>>
    BY <1>a, <1>i, <2>1 DEF AtWork, StepsOf, hostVars
  <2>11. AtWork'
    BY <1>a, <1>i, <2>1, <2>8, <2>10 DEF AtWork, WriterClosed, StepsOf, BeforeExchange, BeforeCandidate
  <2>12. GapIsIntended' /\ ServesSettled' /\ Readable'
    BY <1>2, <1>a, <1>i, <2>10, KeptArrives DEF AtWork
  <2>13. OldIsKept' /\ NewIsKept'
    BY <1>2, <1>a, <2>1, <2>8 DEF OldIsKept, NewIsKept, BeforeExchange, BeforeCandidate,
       WithCandidate, Cloned, Cleanup, Retiring
  <2>14. pc' \notin WithCandidate /\ pc' \notin Cloned
    BY <2>1 DEF WithCandidate, Cloned
  <2>15. Complete'
    BY Zenon, <1>3, <1>4, <1>a, <1>i, <2>14, SameContents
  <2> QED
    BY Zenon, <2>9, <2>11, <2>12, <2>13, <2>15 DEF CustodyState, Custody
<1> QED
  BY Zenon, <1>5, <1>6
\* The key of a candidate is a new number.
LEMMA ReserveCandidateStep ==
  ASSUME CustodyState, up = "running", ReserveCandidateSlot
  PROVE  CustodyState'
<1>i. Shapes /\ AtWork /\ OldIsKept /\ ServesSettled /\ Complete
  BY Zenon DEF CustodyState, Custody
<1>a. /\ pc = "reserveCandidate"
      /\ UNCHANGED <<dir, synced, disk, alias, journal, up, active, nextOp, committed>>
  BY Zenon DEF ReserveCandidateSlot, diskVars
<1>1. Kept /\ rec.oldKey = active /\ work.route = "execute" /\ candidates < MaxCandidates
  BY <1>a, <1>i DEF OldIsKept, BeforeExchange, BeforeCandidate, AtWork, StepsOf, Cleanup, Retiring
<1>2. Kept'
  BY Zenon, <1>1, <1>a DEF Kept, Settled, Business, OnDisk
<1>3. Business' = Business /\ OnDisk' = OnDisk
  BY Zenon, <1>a DEF Business, OnDisk
<1>4. CASE Release /\ UNCHANGED <<slots, candidates>>
  <2>1. AtWork' /\ Custody' /\ Readable'
    BY <1>2, <1>4, <1>a, Returned DEF Release
  <2>2. Shapes'
    BY Zenon, <1>4, <1>a, <1>i, IdleWork DEF Shapes, Release
  <2>3. pc' \notin WithCandidate /\ pc' \notin Cloned
    BY <1>4 DEF WithCandidate, Cloned, Release
  <2>4. Complete'
    BY Zenon, <1>3, <1>4, <1>a, <1>i, <2>3, SameFiles
  <2> QED
    BY Zenon, <2>1, <2>2, <2>4 DEF CustodyState
<1>5. CASE ~(Release /\ UNCHANGED <<slots, candidates>>)
  <2> DEFINE k == candidates + 2
             mine == [origin |-> <<rec.op, rec.seq>>, key |-> k]
  <2>1. /\ candidates' = candidates + 1 /\ slots' = [slots EXCEPT ![cand] = mine]
        /\ work' = [work EXCEPT !.record.key = k]
        /\ pc' = "prepare" /\ UNCHANGED hostVars
    BY Zenon, <1>5 DEF ReserveCandidateSlot
  <2>2. rec \in Row /\ cand \in Slots /\ <<rec.op, rec.seq>> \in Nat \X Nat
    BY Zenon, <1>i, RecordShape
  <2>3. /\ k \in Nat /\ candidates \in Nat /\ candidates' \in 0..MaxCandidates
        /\ k \in 1..(candidates' + 1)
    BY <1>1, <1>i, <2>1, RebootstrapAssumption DEF Shapes
  <2>4. mine \in SlotRow
    BY <2>2, <2>3 DEF SlotRow
  <2>5. k # active /\ Business \in 1..(candidates' + 1) /\ OnDisk \in 1..(candidates' + 1)
    BY <1>1, <1>i, <2>1, <2>3 DEF Complete, Numbered, Kept, Settled
  <2> HIDE DEF k, mine
  <2>6. slots' \in [Slots -> SlotRow]
    BY Zenon, <1>i, <2>1, <2>2, <2>4, SlotRecord
  <2>7. /\ work' \in WorkRow /\ work'.route = work.route /\ work'.plan = work.plan
        /\ rec'.oldKey = active /\ rec'.key = k
    <3> DEFINE r == [rec EXCEPT !.key = k]
    <3>1. r \in Row /\ r.oldKey = active /\ r.key = k
      BY Zenon, <1>1, <2>2, <2>3 DEF Row
    <3>2. work \in WorkRow
      BY <1>i DEF Shapes
    <3>3. work' = [work EXCEPT !.record = r]
      BY Zenon, <2>1, <3>2 DEF rec, WorkRow
    <3> HIDE DEF r
    <3> QED
      BY <3>1, <3>2, <3>3 DEF rec, WorkRow
  <2>8. Shapes'
    BY Zenon, <1>a, <1>i, <2>3, <2>6, <2>7 DEF Shapes
  <2>9. UNCHANGED <<holder, runtime>> /\ holder = "rebootstrap" /\ work.plan \in Plans
    BY <1>1, <1>i, <2>1 DEF AtWork, hostVars
  <2>10. AtWork'
    BY <1>1, <1>a, <2>1, <2>7, <2>9 DEF AtWork, WriterClosed, StepsOf, BeforeExchange, BeforeCandidate, WithCandidate
  <2>11. GapIsIntended' /\ ServesSettled' /\ Readable'
    BY <1>2, <1>a, <2>9, KeptArrives
  <2>12. OldIsKept' /\ NewIsKept'
    BY <1>2, <1>a, <2>1, <2>5, <2>7 DEF OldIsKept, NewIsKept, BeforeExchange, BeforeCandidate,
       WithCandidate, Cloned, Cleanup, Retiring
  <2>13. pc' \notin Cloned
    BY <2>1 DEF Cloned
  <2>14. Numbered'
    BY Zenon, <1>3, <2>3, <2>5, <2>7 DEF Numbered
  <2>15. Complete'
    BY Zenon, <1>3, <1>a, <1>i, <2>13, <2>14 DEF Complete, CloneIsWhole, Whole
  <2> QED
    BY Zenon, <2>8, <2>10, <2>11, <2>12, <2>15 DEF CustodyState, Custody
<1> QED
  BY Zenon, <1>4, <1>5

\* The journal refuses the operation, and the executor returns.
LEMMA PrepareRejectedStep ==
  ASSUME CustodyState, up = "running", PrepareRejected
  PROVE  CustodyState'
<1>i. Shapes /\ AtWork /\ OldIsKept /\ Complete
  BY Zenon DEF CustodyState, Custody
<1>a. /\ pc = "prepare" /\ Release
      /\ UNCHANGED <<dir, synced, disk, slots, alias, journal, up, active, nextOp, candidates, committed>>
  BY Zenon DEF PrepareRejected, diskVars, keyVars
<1>1. Kept
  BY <1>a, <1>i DEF OldIsKept, BeforeExchange, WithCandidate
<1>2. Kept' /\ Business' = Business /\ OnDisk' = OnDisk
  BY Zenon, <1>1, <1>a DEF Kept, Settled, Business, OnDisk
<1>3. AtWork' /\ Custody' /\ Readable'
  BY <1>2, <1>a, Returned DEF Release
<1>4. Shapes'
  BY Zenon, <1>a, <1>i, IdleWork DEF Shapes, Release
<1>5. pc' \notin WithCandidate /\ pc' \notin Cloned
  BY <1>a DEF WithCandidate, Cloned, Release
<1>6. Complete'
  BY Zenon, <1>2, <1>a, <1>i, <1>5, SameFiles
<1> QED
  BY Zenon, <1>3, <1>4, <1>6 DEF CustodyState

\* The candidate's file is created under the name of its slot.
LEMMA CreateStep ==
  ASSUME CustodyState, CreateCandidate
  PROVE  CustodyState'
<1>i. Shapes /\ Complete
  BY Zenon DEF CustodyState
<1>a. /\ pc = "create" /\ pc' = "clone" /\ dir' = [dir EXCEPT ![cand] = rec.key]
      /\ UNCHANGED <<hostVars, work, synced, disk, slots, alias, journal, up, active, nextOp,
                     candidates, committed>>
  BY Zenon DEF CreateCandidate, Go, keyVars
<1>1. cand \in Slots /\ rec.key \in Nat
  BY Zenon, <1>i, RecordShape
<1>2. dir' \in [Names -> Nat] /\ Business' = Business /\ OnDisk' = OnDisk /\ rec' = rec
  BY Zenon, <1>1, <1>a, <1>i, SlotFile DEF OnDisk, rec
<1>3. Shapes'
  BY Zenon, <1>2, <1>a, <1>i DEF Shapes
<1>4. pc \in WithCandidate /\ pc' \notin Cloned
  BY <1>a DEF WithCandidate, Cloned
<1>5. Complete'
  BY Zenon, <1>2, <1>4, <1>a, <1>i, SameFiles
<1> QED
  BY Zenon, <1>2, <1>3, <1>5, <1>a, GoStep
\* The clone is a file of its own that holds what the active file holds.
LEMMA CloneStep ==
  ASSUME CustodyState, CloneCandidate
  PROVE  CustodyState'
<1>i. Shapes /\ OldIsKept /\ Complete
  BY Zenon DEF CustodyState, Custody
<1> DEFINE row == [disk[active] EXCEPT !.marks = {"reserved"}]
<1>a. /\ pc = "clone" /\ pc' = "reserve" /\ disk' = [disk EXCEPT ![rec.key] = row]
      /\ synced' = dir
      /\ UNCHANGED <<hostVars, work, dir, slots, alias, journal, up, active, nextOp,
                     candidates, committed>>
  BY Zenon DEF CloneCandidate, Go, keyVars
<1>1. Settled /\ rec.key # active /\ rec' = rec
  BY <1>a, <1>i DEF OldIsKept, Kept, BeforeExchange, WithCandidate, rec
<1>2. Business' = Business /\ OnDisk' = Business /\ OnDisk = Business /\ Business = active
  BY Zenon, <1>1, <1>a DEF Business, OnDisk, Settled
<1>3. pc \in WithCandidate /\ pc' \in WithCandidate /\ pc' \in Cloned
  BY <1>a DEF WithCandidate, Cloned
<1>4. active \in Files /\ rec.key \in Files /\ disk \in [Files -> FileRow]
  BY Zenon, <1>2, <1>3, <1>i, BusinessIsFile DEF Shapes
<1>5. row \in FileRow /\ row.facts = disk[active].facts /\ row.rev = disk[active].rev
  BY <1>4 DEF FileRow, Marks
<1> HIDE DEF row
<1>6. /\ disk' \in [Files -> FileRow] /\ disk'[active] = disk[active] /\ disk'[rec.key] = row
  BY Zenon, <1>1, <1>4, <1>5, <1>a
<1>7. Shapes'
  BY Zenon, <1>6, <1>a, <1>i DEF Shapes
<1>8. Whole(active)
  BY Zenon, <1>2, <1>i DEF Complete
<1>9. Whole(Business)' /\ Whole(OnDisk)'
  BY Zenon, <1>2, <1>6, <1>8, <1>a DEF Whole
<1>10. CloneIsWhole'
  BY Zenon, <1>1, <1>5, <1>6, <1>8, <1>a DEF Whole, CloneIsWhole
<1>11. Numbered'
  BY Zenon, <1>1, <1>2, <1>3, <1>a, <1>i DEF Complete, Numbered
<1> QED
  BY Zenon, <1>2, <1>7, <1>9, <1>10, <1>11, <1>a, GoStep DEF Complete

\* Steps of the executor between the clone and the exchange that leave the directory alone.
LEMMA InstallArrives ==
  ASSUME CustodyState, Shapes', Complete',
         \/ pc = "install" /\ pc' = "verify"
         \/ pc = "verify" /\ pc' = "appendVerified"
         \/ pc \in {"install", "clone"} /\ pc' = "dropFile"
         \/ pc = "create" /\ pc' = "dropCandidateSlot"
         \/ pc = "reserveCandidate" /\ pc' = "dropOldSlot",
         UNCHANGED <<dir, synced, alias, journal, up, active, candidates, holder>>,
         runtime' \in {runtime, FALSE}, pc' = "appendVerified" => ~runtime',
         work'.route = work.route, work'.plan = work.plan,
         rec'.key = rec.key, rec'.oldKey = rec.oldKey
  PROVE  CustodyState'
<1>i. AtWork /\ OldIsKept /\ ServesSettled
  BY Zenon DEF CustodyState, Custody
<1>1. Kept /\ rec.oldKey = active /\ (pc # "reserveCandidate" => rec.key # active)
  BY <1>i DEF OldIsKept, BeforeExchange, BeforeCandidate, WithCandidate, Cloned
<1>2. work.route = "execute" /\ up = "running" /\ holder = "rebootstrap" /\ work.plan \in Plans
  <2>1. work.route = "execute"
    BY <1>i DEF AtWork, StepsOf, Cleanup, Retiring
  <2> QED
    BY <1>i, <2>1 DEF AtWork
<1>3. Kept'
  BY Zenon, <1>1 DEF Kept, Settled, Business, OnDisk
<1>4. GapIsIntended' /\ ServesSettled' /\ Readable'
  BY <1>2, <1>3, KeptArrives
<1>5. AtWork'
  BY <1>2 DEF AtWork, WriterClosed, StepsOf, BeforeExchange, BeforeCandidate, WithCandidate, Cloned, Cleanup
<1>6. OldIsKept'
  BY <1>1, <1>3 DEF OldIsKept, BeforeExchange, BeforeCandidate, WithCandidate, Cloned, Cleanup
<1>7. NewIsKept'
  BY <1>3 DEF NewIsKept
<1> QED
  BY Zenon, <1>4, <1>5, <1>6, <1>7 DEF CustodyState, Custody

\* The operation is to be cancelled, or to be cleaned up without a record.
LEMMA WorkCancel ==
  ASSUME Shapes, NEW b \in BOOLEAN, work' = [work EXCEPT !.cancel = b]
  PROVE  work' \in WorkRow /\ work'.route = work.route /\ work'.plan = work.plan /\ rec' = rec
<1>1. work \in WorkRow
  BY DEF Shapes
<1> QED
  BY <1>1 DEF WorkRow, rec

(* A file with a plan's revision and the link of its publication. *)
WithPlan(d, head, seq) == [d EXCEPT !.marks = {}, !.rev = head, !.link = seq]

\* A plan leaves the local facts of the file alone.
LEMMA Installed ==
  ASSUME NEW d \in FileRow, NEW head \in Nat, NEW seq \in Nat
  PROVE  /\ WithPlan(d, head, seq) \in FileRow
         /\ WithPlan(d, head, seq).facts = d.facts /\ WithPlan(d, head, seq).rev = head
  BY Zenon DEF FileRow, Marks, WithPlan

\* The plan is installed in the clone only: at or above the clone's revision.
LEMMA InstallStep ==
  ASSUME CustodyState, InstallPlan
  PROVE  CustodyState'
<1>i. Shapes /\ AtWork /\ OldIsKept /\ Complete
  BY Zenon DEF CustodyState, Custody
<1> DEFINE proof == <<disk[rec.key].facts, work.plan.head>>
           row == WithPlan(disk[rec.key], work.plan.head, rec.seq)
<1>a. /\ pc = "install" /\ pc' = "verify" /\ disk[rec.key].rev <= work.plan.checkpoint
      /\ disk' = [disk EXCEPT ![rec.key].marks = {}, ![rec.key].rev = work.plan.head,
                              ![rec.key].link = rec.seq]
      /\ work' = [work EXCEPT !.record.proof = proof]
      /\ UNCHANGED <<hostVars, dir, synced, slots, alias, journal, up, active, nextOp, candidates,
                     committed>>
  BY Zenon DEF InstallPlan, Admitted, keyVars
<1>1. Settled /\ rec.key # active
  BY <1>a, <1>i DEF OldIsKept, Kept, BeforeExchange, WithCandidate, Cloned
<1>2. Business' = Business /\ OnDisk' = Business /\ OnDisk = Business /\ Business = active
  BY Zenon, <1>1, <1>a DEF Business, OnDisk, Settled
<1>3. pc \in WithCandidate /\ pc \in Cloned
  BY <1>a DEF WithCandidate, Cloned
<1>4. active \in Files /\ rec.key \in Files /\ disk \in [Files -> FileRow]
  BY Zenon, <1>2, <1>3, <1>i, BusinessIsFile DEF Shapes
<1>5. disk[rec.key] \in FileRow
  BY <1>4
<1>6. /\ work.plan.checkpoint \in Nat /\ work.plan.head \in Nat
      /\ work.plan.checkpoint <= work.plan.head
  <2>1. work.route = "execute"
    BY <1>a, <1>i DEF AtWork, StepsOf, Cleanup, Retiring
  <2>2. work.plan \in Plans
    BY <1>i, <2>1 DEF AtWork
  <2> QED
    BY <2>2, RebootstrapAssumption
<1>7. rec \in Row /\ rec.seq \in Nat
  BY Zenon, <1>i, RecordShape
<1>8. /\ row \in FileRow /\ row.facts = disk[rec.key].facts /\ row.rev >= disk[rec.key].rev
  <2>1. row \in FileRow /\ row.facts = disk[rec.key].facts /\ row.rev = work.plan.head
    <3> DEFINE d == disk[rec.key]
               head == work.plan.head
               seq == rec.seq
    <3>1. d \in FileRow /\ head \in Nat /\ seq \in Nat
      BY Zenon, <1>5, <1>6, <1>7
    <3>2. row = WithPlan(d, head, seq)
      BY Zenon
    <3> HIDE DEF d, head, seq, row
    <3>3. WithPlan(d, head, seq) \in FileRow
      BY Zenon, <3>1, Installed
    <3>4. WithPlan(d, head, seq).facts = d.facts
      BY Zenon, <3>1, Installed
    <3>5. WithPlan(d, head, seq).rev = head
      BY Zenon, <3>1, Installed
    <3> QED
      BY Zenon, <3>2, <3>3, <3>4, <3>5 DEF d, head
  <2>2. disk[rec.key].rev \in Nat
    BY <1>5 DEF FileRow
  <2>3. disk[rec.key].rev <= work.plan.checkpoint
    BY Zenon, <1>a
  <2>4. work.plan.head >= disk[rec.key].rev
    BY <1>6, <2>2, <2>3
  <2> QED
    BY Zenon, <2>1, <2>4
<1>9. disk' = [disk EXCEPT ![rec.key] = row]
  BY Zenon, <1>4, <1>5, <1>a DEF WithPlan
<1>10. proof \in Nat \X Nat
  BY <1>5, <1>6 DEF FileRow
<1> HIDE DEF row, proof
<1>11. /\ disk' \in [Files -> FileRow] /\ disk'[active] = disk[active] /\ disk'[rec.key] = row
  BY Zenon, <1>1, <1>4, <1>8, <1>9
<1>12. /\ work' \in WorkRow /\ work'.route = work.route /\ work'.plan = work.plan
       /\ rec'.oldKey = rec.oldKey /\ rec'.key = rec.key
  <2> DEFINE r == [rec EXCEPT !.proof = proof]
  <2>1. r \in Row /\ r.oldKey = rec.oldKey /\ r.key = rec.key
    BY Zenon, <1>7, <1>10 DEF Row
  <2>2. work \in WorkRow
    BY <1>i DEF Shapes
  <2>3. work' = [work EXCEPT !.record = r]
    BY Zenon, <1>a, <2>2 DEF rec, WorkRow
  <2> HIDE DEF r
  <2> QED
    BY <2>1, <2>2, <2>3 DEF rec, WorkRow
<1>13. Shapes'
  BY Zenon, <1>11, <1>12, <1>a, <1>i DEF Shapes
<1>14. Whole(active) /\ Whole(rec.key)
  BY Zenon, <1>2, <1>3, <1>i DEF Complete, CloneIsWhole
<1>15. Whole(Business)' /\ Whole(OnDisk)'
  BY Zenon, <1>2, <1>11, <1>14, <1>a DEF Whole
<1>16. disk'[rec'.key].facts = committed'.facts /\ disk'[rec'.key].rev >= committed'.rev
  <2>1. committed.rev \in Nat /\ disk[rec.key].rev \in Nat /\ row.rev \in Nat
    BY <1>5, <1>8, <1>i DEF Shapes, FileRow
  <2>2. disk[rec.key].facts = committed.facts /\ disk[rec.key].rev >= committed.rev
    BY Zenon, <1>14 DEF Whole
  <2>3. row.facts = committed.facts /\ row.rev >= committed.rev
    BY <1>8, <2>1, <2>2
  <2> QED
    BY Zenon, <1>11, <1>12, <1>a, <2>3
<1>17. CloneIsWhole'
  BY Zenon, <1>16 DEF Whole, CloneIsWhole
<1>18. Numbered'
  BY Zenon, <1>2, <1>3, <1>12, <1>a, <1>i DEF Complete, Numbered
<1>19. Complete'
  BY Zenon, <1>15, <1>17, <1>18 DEF Complete
<1>20. UNCHANGED <<holder, runtime>>
  BY Zenon, <1>a DEF hostVars
<1> QED
  BY Zenon, <1>12, <1>13, <1>19, <1>20, <1>a, InstallArrives
\* New evidence of one file.
LEMMA MarkedDisk ==
  ASSUME Shapes, NEW f, NEW m \in SUBSET Marks, disk' = Marked(disk, f, m)
  PROVE  SameData(disk, disk') /\ disk' \in [Files -> FileRow]
<1>1. disk \in [Files -> FileRow]
  BY DEF Shapes
<1>2. SameData(disk, Marked(disk, f, m))
  BY Zenon, <1>1, Remarked
<1> QED
  BY Zenon, <1>2 DEF SameData

\* The executor gives the candidate up: the clone lost its evidence, no more.
LEMMA GivesUpStep ==
  ASSUME CustodyState,
         \/ pc \in {"install", "clone"} /\ pc' = "dropFile"
         \/ pc = "create" /\ pc' = "dropCandidateSlot"
         \/ pc = "reserveCandidate" /\ pc' = "dropOldSlot",
         disk' = disk \/ disk' = [disk EXCEPT ![rec.key].marks = {}],
         NEW b \in BOOLEAN, work' = [work EXCEPT !.cancel = b],
         UNCHANGED <<hostVars, dir, synced, slots, alias, journal, up, active, nextOp, candidates,
                     committed>>
  PROVE  CustodyState'
<1>i. Shapes /\ Complete
  BY Zenon DEF CustodyState
<1>1. SameData(disk, disk') /\ disk' \in [Files -> FileRow]
  <2>1. CASE disk' = disk
    BY Zenon, <1>i, <2>1 DEF SameData, Shapes
  <2>2. CASE disk' = [disk EXCEPT ![rec.key].marks = {}]
    <3>1. disk' = Marked(disk, rec.key, {}) /\ {} \in SUBSET Marks
      BY Zenon, <2>2 DEF Marked
    <3> QED
      BY Zenon, <1>i, <3>1, MarkedDisk
  <2> QED
    BY Zenon, <2>1, <2>2
<1>2. work' \in WorkRow /\ work'.route = work.route /\ work'.plan = work.plan /\ rec' = rec
  BY Zenon, <1>i, WorkCancel
<1>3. Shapes'
  BY Zenon, <1>1, <1>2, <1>i DEF Shapes
<1>4. pc' \in {"dropCandidateSlot", "dropFile", "dropOldSlot"}
  BY Zenon
<1>5. pc' \notin WithCandidate /\ pc' \notin Cloned
  BY <1>4 DEF WithCandidate, Cloned
<1>6. Business' = Business /\ OnDisk' = OnDisk
  BY Zenon DEF Business, OnDisk
<1>7. Complete'
  BY Zenon, <1>1, <1>5, <1>6, <1>i, SameContents
<1>8. UNCHANGED <<holder, runtime>> /\ pc' # "appendVerified"
  BY <1>4 DEF hostVars
<1> QED
  BY Zenon, <1>2, <1>3, <1>7, <1>8, InstallArrives

\* A plan that is refused, under the floor of the clone or after a lock.
LEMMA InstallRejectedStep ==
  ASSUME CustodyState, InstallRejected
  PROVE  CustodyState'
<1>a. /\ pc = "install" /\ disk' = [disk EXCEPT ![rec.key].marks = {}]
      /\ work' = [work EXCEPT !.cancel = TRUE] /\ pc' = "dropFile" /\ TRUE \in BOOLEAN
      /\ UNCHANGED <<hostVars, dir, synced, slots, alias, journal, up, active, nextOp, candidates,
                     committed>>
  BY Zenon DEF InstallRejected, keyVars
<1> QED
  BY Zenon, <1>a, GivesUpStep

\* Both files are evidenced after the only writer is closed.
LEMMA VerifyStep ==
  ASSUME CustodyState, VerifyCandidate
  PROVE  CustodyState'
<1>i. Shapes /\ Complete
  BY Zenon DEF CustodyState
<1> DEFINE m == disk[active].marks \cup {"verified"}
           d == Marked(disk, active, m)
           n == d[rec.key].marks \cup {"verified"}
<1>a. /\ pc = "verify" /\ pc' = "appendVerified" /\ runtime' = FALSE
      /\ disk' = [disk EXCEPT ![active].marks = @ \cup {"verified"},
                              ![rec.key].marks = @ \cup {"verified"}]
      /\ UNCHANGED <<holder, work, dir, synced, slots, alias, journal, up, active, nextOp,
                     candidates, committed>>
  BY Zenon DEF VerifyCandidate, keyVars
<1>1. disk' = Marked(d, rec.key, n)
  BY Zenon, <1>a DEF Marked
<1>2. pc \in WithCandidate /\ pc' \in WithCandidate /\ pc \in Cloned /\ disk \in [Files -> FileRow]
  BY <1>a, <1>i DEF WithCandidate, Cloned, Shapes
<1>3. CASE active \in Files
  <2>1. m \in SUBSET Marks
    BY <1>2, <1>3 DEF FileRow, Marks
  <2> HIDE DEF m
  <2>2. SameData(disk, d)
    BY Zenon, <1>2, <2>1, Remarked
  <2> HIDE DEF d
  <2>3. d \in [Files -> FileRow] /\ rec.key \in Files
    BY Zenon, <1>2, <1>i, <2>2, BusinessIsFile DEF SameData
  <2>4. n \in SUBSET Marks
    BY <2>3 DEF FileRow, Marks
  <2> HIDE DEF n
  <2>5. SameData(d, disk')
    BY Zenon, <1>1, <2>3, <2>4, Remarked
  <2>6. SameData(disk, disk') /\ disk' \in [Files -> FileRow]
    BY Zenon, <2>2, <2>5 DEF SameData
  <2>7. Shapes'
    BY Zenon, <1>a, <1>i, <2>6 DEF Shapes
  <2>8. Business' = Business /\ OnDisk' = OnDisk /\ rec' = rec
    BY Zenon, <1>a DEF Business, OnDisk, rec
  <2>9. Complete'
    BY Zenon, <1>2, <1>a, <1>i, <2>6, <2>8, SameContents
  <2> QED
    BY Zenon, <1>a, <2>7, <2>8, <2>9, InstallArrives
<1>4. active \in Files
  <2>1. Business = active
    BY <1>a DEF CustodyState, Custody, OldIsKept, Kept, Settled, BeforeExchange, WithCandidate, Cloned
  <2> QED
    BY Zenon, <1>i, <2>1, BusinessIsFile
<1> QED
  BY Zenon, <1>3, <1>4
-----------------------------------------------------------------------------
(* The exchange and what follows it. *)

\* The exchange gives business.db to the clone, whose key is in its slot's record.
LEMMA ExchangeStep ==
  ASSUME CustodyState, Exchange
  PROVE  CustodyState'
<1>i. /\ Shapes /\ AtWork /\ OldIsKept /\ NewIsKept /\ ServesSettled /\ Readable /\ Complete
  BY Zenon DEF CustodyState, Custody
<1>a. /\ pc = "exchange" /\ pc' = "syncExchange" /\ SlotsExact
      /\ dir' = [dir EXCEPT !["business"] = rec.key, ![cand] = active]
      /\ UNCHANGED <<hostVars, work, synced, disk, slots, alias, journal, up, active, nextOp,
                     candidates, committed>>
  BY Zenon DEF Exchange, Go, keyVars
<1>1. /\ Settled /\ rec.oldKey = active /\ rec.key # active
      /\ journal.last = rec /\ rec.phase = "PublishIntent"
  BY <1>a, <1>i DEF OldIsKept, Kept, BeforeExchange, BeforeCandidate, WithCandidate, Cloned
<1>2. cand \in Slots /\ rec.key \in Nat /\ active \in Nat /\ dir \in [Names -> Nat]
  BY Zenon, <1>i, RecordShape DEF Shapes
<1>3. cand \in Names /\ cand # "business" /\ "business" \in Names
  BY Zenon, <1>2, SlotNames
<1>4. dir' \in [Names -> Nat] /\ Business' = rec.key
  BY <1>2, <1>3, <1>a DEF Business
<1>5. OnDisk' = OnDisk /\ OnDisk = active /\ Business = active
  BY Zenon, <1>1, <1>a DEF OnDisk, Settled
<1>6. Shapes'
  BY Zenon, <1>4, <1>a, <1>i DEF Shapes
<1>7. rec' = rec /\ journal.last' = journal.last /\ UNCHANGED <<holder, runtime>>
  BY Zenon, <1>a DEF rec, hostVars
<1>8. work.route = "execute"
  BY <1>a, <1>i DEF AtWork, StepsOf, Cleanup, Retiring
<1>9. AtWork'
  BY <1>7, <1>8, <1>a, <1>i DEF AtWork, WriterClosed, StepsOf, BeforeCandidate
<1>10. GapIsIntended'
  BY Zenon, <1>1, <1>4, <1>5, <1>7 DEF GapIsIntended
<1>11. ~runtime /\ holder = "rebootstrap"
  BY <1>8, <1>a, <1>i DEF AtWork, WriterClosed
<1>12. ServesSettled'
  BY <1>1, <1>4, <1>7, <1>11, <1>a DEF ServesSettled
<1>13. OldIsKept' /\ NewIsKept'
  BY <1>1, <1>4, <1>7, <1>a DEF OldIsKept, NewIsKept, BeforeExchange, BeforeCandidate,
     WithCandidate, Cloned, Cleanup, Retiring
<1>14. slots[cand].key = rec.key
  BY <1>a DEF SlotsExact
<1>15. Readable'
  BY Zenon, <1>2, <1>4, <1>5, <1>14, <1>a, <1>i DEF Readable, Openable
<1>16. Complete'
  <2>1. pc \in WithCandidate /\ pc \in Cloned /\ pc' \notin WithCandidate /\ pc' \notin Cloned
    BY <1>a DEF WithCandidate, Cloned
  <2>2. Whole(rec.key) /\ Whole(OnDisk)
    BY Zenon, <1>i, <2>1 DEF Complete, CloneIsWhole
  <2>3. Numbered'
    BY Zenon, <1>4, <1>5, <1>a, <1>i, <2>1 DEF Complete, Numbered
  <2>4. Whole(Business)' /\ Whole(OnDisk)' /\ CloneIsWhole'
    BY Zenon, <1>4, <1>5, <1>a, <2>1, <2>2 DEF Whole, CloneIsWhole
  <2> QED
    BY Zenon, <2>3, <2>4 DEF Complete
<1> QED
  BY Zenon, <1>6, <1>9, <1>10, <1>12, <1>13, <1>15, <1>16 DEF CustodyState, Custody

\* The exchange is on the disk.
LEMMA SyncExchangeStep ==
  ASSUME CustodyState, SyncExchange
  PROVE  CustodyState'
<1>i. /\ Shapes /\ AtWork /\ NewIsKept /\ ServesSettled /\ Readable /\ Complete
  BY Zenon DEF CustodyState, Custody
<1>a. /\ pc = "syncExchange" /\ pc' = "alias" /\ synced' = dir /\ active' = rec.key
      /\ UNCHANGED <<hostVars, work, dir, disk, slots, alias, journal, up, nextOp, candidates,
                     committed>>
  BY Zenon DEF SyncExchange, Go, keyVars
<1>1. journal.last = rec /\ rec.phase = "PublishIntent" /\ Business = rec.key /\ rec.key \in Nat
  BY <1>a, <1>i, RecordShape DEF NewIsKept
<1>2. Business' = Business /\ OnDisk' = Business
  BY Zenon, <1>a DEF Business, OnDisk
<1>3. rec' = rec /\ journal.last' = journal.last /\ UNCHANGED <<holder, runtime>>
  BY Zenon, <1>a DEF rec, hostVars
<1>4. Shapes'
  BY Zenon, <1>1, <1>a, <1>i DEF Shapes
<1>5. work.route = "execute"
  BY <1>a, <1>i DEF AtWork, StepsOf, Cleanup, Retiring
<1>6. AtWork' /\ up = "running"
  BY <1>3, <1>5, <1>a, <1>i DEF AtWork, WriterClosed, StepsOf, BeforeCandidate
<1>7. Settled'
  BY Zenon, <1>1, <1>2, <1>a DEF Settled
<1>8. GapIsIntended' /\ ServesSettled'
  BY <1>2, <1>6, <1>7, <1>a DEF GapIsIntended, ServesSettled, Settled
<1>9. OldIsKept' /\ NewIsKept'
  BY <1>1, <1>3, <1>5, <1>7, <1>a DEF OldIsKept, NewIsKept, BeforeExchange, BeforeCandidate,
     WithCandidate, Cloned, Cleanup, Retiring, Settled
<1>10. Readable'
  BY Zenon, <1>2, <1>a, <1>i DEF Readable, Openable
<1>11. pc' \notin WithCandidate /\ pc' \notin Cloned
  BY <1>a DEF WithCandidate, Cloned
<1>12. Complete'
  BY Zenon, <1>2, <1>11, <1>a, <1>i, SameFiles
<1> QED
  BY Zenon, <1>4, <1>6, <1>8, <1>9, <1>10, <1>12 DEF CustodyState, Custody
\* A step of the executor or the restart that ends with everything in agreement.
LEMMA ArrivesKept ==
  ASSUME AtWork, ServesSettled, pc # "idle", Kept', UNCHANGED <<hostVars, work, up, candidates>>,
         pc' \in Cleanup \cup Retiring \cup {"publish"}, pc' \in StepsOf(work.route)
  PROVE  AtWork' /\ Custody' /\ Readable'
<1>1. UNCHANGED <<holder, runtime>>
  BY Zenon DEF hostVars
<1>2. holder \notin {"write", "sync"} /\ (runtime => up = "running")
  BY NoWriter DEF ServesSettled
<1>3. GapIsIntended' /\ ServesSettled' /\ Readable'
  BY Zenon, <1>1, <1>2, KeptArrives
<1>4. pc' \notin BeforeCandidate /\ pc' \notin WriterClosed
  BY DEF BeforeCandidate, WriterClosed, Cleanup, Retiring
<1>5. AtWork'
  BY Zenon, <1>1, <1>4 DEF AtWork
<1>6. pc' \notin BeforeExchange /\ pc' \notin WithCandidate /\ pc' \notin {"idle", "exchange"}
  BY DEF BeforeExchange, BeforeCandidate, WithCandidate, Cloned, Cleanup, Retiring
<1>7. OldIsKept'
  BY Zenon, <1>6 DEF OldIsKept
<1>8. pc' \notin {"syncExchange", "alias"}
  BY DEF Cleanup, Retiring
<1>9. NewIsKept'
  BY Zenon, <1>8 DEF NewIsKept, Kept, Settled
<1> QED
  BY Zenon, <1>3, <1>5, <1>7, <1>9 DEF Custody

\* Where no candidate is at hand next, the contents need no further care.
LEMMA FilesStay ==
  ASSUME Complete, UNCHANGED <<disk, committed, candidates>>,
         Business' \in {Business, OnDisk}, OnDisk' \in {Business, OnDisk},
         pc' \in Cleanup \cup Retiring \cup {"idle", "publish", "alias", "open"}
  PROVE  Complete'
<1>1. pc' \notin WithCandidate /\ pc' \notin Cloned
  BY DEF Cleanup, Retiring, WithCandidate, Cloned
<1> QED
  BY Zenon, <1>1, SameFiles

\* The alias is stored: from here on it holds the key of business.db.
LEMMA AliasStep ==
  ASSUME CustodyState, StoreAlias
  PROVE  CustodyState'
<1>i. /\ Shapes /\ AtWork /\ GapIsIntended /\ NewIsKept /\ ServesSettled /\ Complete
  BY Zenon DEF CustodyState, Custody
<1>a. /\ pc = "alias" /\ alias' = active
      /\ UNCHANGED <<dir, synced, disk, slots, journal, active, nextOp, candidates, committed>>
  BY Zenon DEF StoreAlias, diskVars
<1>1. /\ Business = active /\ active \in Nat
      /\ work.route # "resume" => Settled
      /\ work.route \in {"execute", "resume"} => journal.last = rec
      /\ work.route = "execute" => rec.phase = "PublishIntent"
      /\ work.route = "resume" => slots[rec.old].key = rec.oldKey
  BY <1>a, <1>i DEF NewIsKept, Shapes
<1>2. Business' = Business /\ OnDisk' = OnDisk
  BY Zenon, <1>a DEF Business, OnDisk
<1>3. holder \notin {"write", "sync"} /\ (runtime => up = "running")
  BY <1>a, <1>i, NoWriter DEF ServesSettled
<1>4. CASE work.route = "terminal"
  <2>1. /\ up' = "running" /\ pc' = "idle" /\ work' = NoWork /\ UNCHANGED hostVars
    BY Zenon, <1>4 DEF StoreAlias, Ready
  <2>2. Kept' /\ holder' = holder
    BY Zenon, <1>1, <1>2, <1>4, <1>a, <2>1 DEF Kept, Settled, hostVars
  <2>3. AtWork' /\ Custody' /\ Readable'
    BY Zenon, <1>3, <2>1, <2>2, Returned
  <2>4. Shapes'
    BY Zenon, <1>1, <1>a, <1>i, <2>1, IdleWork DEF Shapes
  <2>5. Complete'
    BY Zenon, <1>2, <1>a, <1>i, <2>1, FilesStay
  <2> QED
    BY Zenon, <2>3, <2>4, <2>5 DEF CustodyState
<1>5. CASE work.route # "terminal"
  <2>1. UNCHANGED <<hostVars, work, up>>
    BY Zenon, <1>5 DEF StoreAlias, Go
  <2> DEFINE route == work.route
             phase == rec.phase
  <2>10. pc' = IF route = "discard" THEN "dropOldSlot"
               ELSE IF route = "retire" THEN "retire"
               ELSE CASE phase = "PublishIntent" -> "publish"
                      [] phase = "Published" -> "reopen"
                      [] OTHER -> "unlinkOld"
    BY Zenon, <1>5 DEF StoreAlias, Go
  <2> HIDE DEF route, phase
  <2>2. Shapes'
    BY Zenon, <1>1, <1>a, <1>i, <2>1 DEF Shapes
  <2>3. work.route \in {"execute", "discard", "resume", "retire"}
    BY <1>5, <1>a, <1>i DEF AtWork, StepsOf
  <2>4. /\ pc' \in {"dropOldSlot", "retire", "publish", "reopen", "unlinkOld"}
        /\ work.route = "discard" => pc' = "dropOldSlot"
        /\ work.route = "retire" => pc' = "retire"
        /\ work.route \in {"execute", "resume"} =>
               /\ pc' \in {"publish", "reopen", "unlinkOld"}
               /\ rec.phase = "PublishIntent" => pc' = "publish"
    <3>1. /\ pc' \in {"dropOldSlot", "retire", "publish", "reopen", "unlinkOld"}
          /\ route = "discard" => pc' = "dropOldSlot"
          /\ route = "retire" => pc' = "retire"
          /\ route \notin {"discard", "retire"} =>
               /\ pc' \in {"publish", "reopen", "unlinkOld"}
               /\ phase = "PublishIntent" => pc' = "publish"
      BY <2>10
    <3> QED
      BY Zenon, <3>1 DEF route, phase
  <2>5. /\ pc' \in StepsOf(work.route)
        /\ pc' \in Cleanup \cup Retiring \cup {"publish"}
    BY <2>3, <2>4 DEF StepsOf, Cleanup, Retiring
  <2>6. Complete'
    BY Zenon, <1>2, <1>a, <1>i, <2>1, <2>5, FilesStay
  <2>7. CASE Settled
    <3>1. Kept' /\ pc # "idle"
      BY <1>2, <1>a, <2>7 DEF Kept, Settled
    <3>2. AtWork' /\ Custody' /\ Readable'
      BY Zenon, <1>a, <1>i, <2>1, <2>5, <3>1, ArrivesKept
    <3> QED
      BY Zenon, <2>2, <2>6, <3>2 DEF CustodyState
  <2>8. CASE ~Settled
    <3>1. /\ work.route = "resume" /\ journal.last = rec /\ slots[rec.old].key = rec.oldKey
          /\ Business # OnDisk
      BY Zenon, <1>1, <2>8 DEF Settled
    <3>2. /\ rec.phase = "PublishIntent" /\ Business = rec.key /\ OnDisk = rec.oldKey
          /\ pc' = "publish"
      BY Zenon, <1>i, <2>4, <3>1 DEF GapIsIntended
    <3>3. /\ journal.last' = rec /\ rec' = rec /\ slots'[rec.old].key = rec.oldKey
          /\ UNCHANGED <<holder, runtime>> /\ rec.old \in Slots
      BY Zenon, <1>a, <1>i, <2>1, <3>1, RecordShape DEF rec, hostVars
    <3>4. up = "recovering" /\ ~runtime
      BY <1>a, <1>i, <3>1 DEF AtWork, StepsOf, ServesSettled
    <3>5. AtWork'
      BY <1>a, <1>i, <2>1, <3>1, <3>2, <3>3 DEF AtWork, WriterClosed, BeforeCandidate, StepsOf
    <3>6. GapIsIntended'
      BY Zenon, <1>2, <3>2, <3>3 DEF GapIsIntended
    <3>7. ServesSettled'
      BY <1>3, <2>1, <3>3, <3>4 DEF ServesSettled
    <3>8. OldIsKept'
      BY <3>2 DEF OldIsKept, BeforeExchange, BeforeCandidate, WithCandidate, Cloned, Cleanup
    <3>9. NewIsKept'
      BY <1>1, <1>2, <1>a, <2>1, <3>1, <3>2 DEF NewIsKept, Retiring
    <3>10. Readable'
      BY Zenon, <1>1, <1>2, <1>a, <3>2, <3>3 DEF Readable, Openable
    <3> QED
      BY Zenon, <2>2, <2>6, <3>5, <3>6, <3>7, <3>8, <3>9, <3>10 DEF CustodyState, Custody
  <2> QED
    BY Zenon, <2>7, <2>8
<1> QED
  BY Zenon, <1>4, <1>5
\* A file of a slot is unlinked, or an unlink is synced.
LEMMA UnlinkStep ==
  ASSUME CustodyState, UnlinkOld \/ SyncUnlink \/ DropFile \/ SyncDrop
  PROVE  CustodyState'
<1>i. Shapes /\ Complete
  BY Zenon DEF CustodyState
<1>a. /\ UNCHANGED <<hostVars, work, disk, slots, alias, journal, up, active, nextOp, candidates,
                     committed>>
      /\ \/ pc = "unlinkOld" /\ pc' = "syncUnlink"
         \/ pc = "syncUnlink" /\ pc' = "deleteOldSlot"
         \/ pc = "dropFile" /\ pc' = "syncDrop"
         \/ pc = "syncDrop" /\ pc' = "dropCandidateSlot"
      /\ \/ dir' = [dir EXCEPT ![cand] = 0] /\ synced' = synced
         \/ dir' = dir /\ synced' = dir
  BY Zenon DEF UnlinkOld, SyncUnlink, DropFile, SyncDrop, Go, keyVars
<1>1. cand \in Slots /\ 0 \in Nat
  BY <1>i, RecordShape
<1>2. /\ dir' \in [Names -> Nat] /\ synced' \in [Names -> Nat]
      /\ Business' = Business /\ OnDisk' \in {OnDisk, Business}
  <2>1. CASE dir' = [dir EXCEPT ![cand] = 0] /\ synced' = synced
    BY Zenon, <1>1, <1>i, <2>1, SlotFile DEF OnDisk, Shapes
  <2>2. CASE dir' = dir /\ synced' = dir
    BY Zenon, <1>i, <2>2 DEF Business, OnDisk, Shapes
  <2> QED
    BY Zenon, <1>a, <2>1, <2>2
<1>3. Shapes'
  BY Zenon, <1>2, <1>a, <1>i DEF Shapes
<1>4. pc' \in Cleanup \cup Retiring
  BY <1>a DEF Cleanup, Retiring
<1>5. Complete'
  BY Zenon, <1>2, <1>4, <1>a, <1>i, FilesStay
<1> QED
  BY Zenon, <1>2, <1>3, <1>5, <1>a, GoStep

\* Files and directory stay while a slot record is deleted.
LEMMA SlotDeleted ==
  ASSUME CustodyState, NEW s \in Slots, slots' = [slots EXCEPT ![s] = NoSlot],
         UNCHANGED <<hostVars, work, dir, synced, disk, alias, journal, up, active, nextOp,
                     candidates, committed>>,
         pc' \in Cleanup \cup Retiring \cup {"alias"}
  PROVE  /\ Shapes' /\ Complete' /\ Business' = Business /\ OnDisk' = OnDisk /\ rec' = rec
         /\ \A t \in Slots \ {s} : slots'[t] = slots[t]
<1>i. Shapes /\ Complete
  BY Zenon DEF CustodyState
<1>1. Business' = Business /\ OnDisk' = OnDisk /\ rec' = rec
  BY Zenon DEF Business, OnDisk, rec
<1>2. slots' \in [Slots -> SlotRow] /\ \A t \in Slots \ {s} : slots'[t] = slots[t]
  BY Zenon, <1>i, NoSlotShape, SlotRecord
<1>3. Shapes'
  BY Zenon, <1>2, <1>i DEF Shapes
<1>4. Complete'
  BY Zenon, <1>1, <1>i, FilesStay
<1> QED
  BY Zenon, <1>1, <1>2, <1>3, <1>4

\* Before the alias is stored, the record of the other slot holds the key.
LEMMA AliasNext ==
  ASSUME CustodyState, Shapes', Complete', pc # "idle", pc' = "alias",
         work.route \in {"discard", "retire"},
         UNCHANGED <<hostVars, work, alias, journal, up, active, candidates>>,
         Business' = Business, OnDisk' = OnDisk, Settled,
         NEW s \in Slots, alias = active \/ slots'[s].key = active
  PROVE  CustodyState'
<1>i. AtWork /\ ServesSettled
  BY Zenon DEF CustodyState, Custody
<1>1. holder \notin {"write", "sync"} /\ (runtime => up = "running")
  BY <1>i, NoWriter DEF ServesSettled
<1>2. UNCHANGED <<holder, runtime>>
  BY Zenon DEF hostVars
<1>3. Settled' /\ Business' = OnDisk'
  BY Zenon DEF Settled
<1>4. AtWork'
  BY <1>2, <1>i DEF AtWork, WriterClosed, BeforeCandidate, StepsOf
<1>5. GapIsIntended' /\ ServesSettled'
  BY <1>1, <1>2, <1>3 DEF GapIsIntended, ServesSettled, Settled
<1>6. OldIsKept' /\ NewIsKept'
  BY <1>3 DEF OldIsKept, NewIsKept, BeforeExchange, BeforeCandidate, WithCandidate, Cloned,
     Cleanup, Retiring, Settled
<1>7. Readable'
  BY Zenon, <1>3 DEF Readable, Openable, Settled
<1> QED
  BY Zenon, <1>4, <1>5, <1>6, <1>7 DEF CustodyState, Custody

\* The old slot's record goes once the alias or the candidate's record has the key.
LEMMA DeleteOldStep ==
  ASSUME CustodyState, DeleteOldSlot
  PROVE  CustodyState'
<1>i. Shapes /\ AtWork /\ NewIsKept
  BY Zenon DEF CustodyState, Custody
<1>a. /\ pc = "deleteOldSlot" /\ slots' = [slots EXCEPT ![rec.old] = NoSlot]
      /\ pc' = (IF work.route = "retire" THEN "alias" ELSE "retire")
      /\ UNCHANGED <<hostVars, work, dir, synced, disk, alias, journal, up, active, nextOp,
                     candidates, committed>>
  BY Zenon DEF DeleteOldSlot, Go, diskVars
<1>1. pc # "idle" /\ pc' \in Cleanup \cup Retiring \cup {"alias"}
  BY <1>a DEF Retiring
<1>2. rec.old \in Slots /\ cand \in Slots \ {rec.old}
  BY <1>i, RecordShape
<1>3. /\ Shapes' /\ Complete' /\ Business' = Business /\ OnDisk' = OnDisk
      /\ \A t \in Slots \ {rec.old} : slots'[t] = slots[t]
  BY Zenon, <1>1, <1>2, <1>a, SlotDeleted
<1>4. Settled /\ (alias = active \/ slots[cand].key = active)
  BY <1>a, <1>i DEF NewIsKept, Kept, Retiring
<1>5. CASE work.route = "retire"
  <2>1. pc' = "alias" /\ work.route \in {"discard", "retire"} /\ cand \in Slots
    BY Zenon, <1>2, <1>5, <1>a
  <2>2. alias = active \/ slots'[cand].key = active
    BY Zenon, <1>2, <1>3, <1>4
  <2> QED
    BY Zenon, <1>1, <1>3, <1>4, <1>a, <2>1, <2>2, AliasNext
<1>6. CASE work.route # "retire"
  BY Zenon, <1>3, <1>6, <1>a, GoStep
<1> QED
  BY Zenon, <1>5, <1>6

\* The candidate's record goes; the old key is in the alias or in the old slot.
LEMMA DropCandidateStep ==
  ASSUME CustodyState, DropCandidateSlot
  PROVE  CustodyState'
<1>i. Shapes /\ AtWork /\ OldIsKept
  BY Zenon DEF CustodyState, Custody
<1>a. /\ pc = "dropCandidateSlot" /\ slots' = [slots EXCEPT ![cand] = NoSlot]
      /\ pc' = (IF work.route = "discard" THEN "alias" ELSE "dropOldSlot")
      /\ UNCHANGED <<hostVars, work, dir, synced, disk, alias, journal, up, active, nextOp,
                     candidates, committed>>
  BY Zenon DEF DropCandidateSlot, Go, diskVars
<1>1. pc # "idle" /\ pc' \in Cleanup \cup Retiring \cup {"alias"}
  BY <1>a DEF Cleanup
<1>2. cand \in Slots /\ rec.old \in Slots \ {cand}
  BY <1>i, RecordShape
<1>3. /\ Shapes' /\ Complete' /\ Business' = Business /\ OnDisk' = OnDisk
      /\ \A t \in Slots \ {cand} : slots'[t] = slots[t]
  BY Zenon, <1>1, <1>2, <1>a, SlotDeleted
<1>4. Settled /\ (alias = active \/ slots[rec.old].key = active)
  BY <1>a, <1>i DEF OldIsKept, Kept, Cleanup
<1>5. CASE work.route = "discard"
  <2>1. pc' = "alias" /\ work.route \in {"discard", "retire"} /\ rec.old \in Slots
    BY Zenon, <1>2, <1>5, <1>a
  <2>2. alias = active \/ slots'[rec.old].key = active
    BY Zenon, <1>2, <1>3, <1>4
  <2> QED
    BY Zenon, <1>1, <1>3, <1>4, <1>a, <2>1, <2>2, AliasNext
<1>6. CASE work.route # "discard"
  BY Zenon, <1>3, <1>6, <1>a, GoStep
<1> QED
  BY Zenon, <1>5, <1>6
\* The old slot's record goes, if this operation made it; the alias holds the key.
LEMMA DropOldStep ==
  ASSUME CustodyState, DropOldSlot
  PROVE  CustodyState'
<1>i. Shapes /\ AtWork /\ OldIsKept /\ Complete
  BY Zenon DEF CustodyState, Custody
<1>a. /\ pc = "dropOldSlot"
      /\ slots' = IF rec.created THEN [slots EXCEPT ![rec.old] = NoSlot] ELSE slots
      /\ UNCHANGED <<dir, synced, disk, alias, journal, up, active, nextOp, candidates, committed>>
  BY Zenon DEF DropOldSlot, diskVars
<1>1. rec.old \in Slots
  BY Zenon, <1>i, RecordShape
<1>2. slots' \in [Slots -> SlotRow]
  <2>1. CASE slots' = slots
    BY Zenon, <1>i, <2>1 DEF Shapes
  <2>2. CASE slots' = [slots EXCEPT ![rec.old] = NoSlot]
    BY Zenon, <1>1, <1>i, <2>2, NoSlotShape, SlotRecord
  <2> QED
    BY Zenon, <1>a, <2>1, <2>2
<1>3. Kept
  BY <1>a, <1>i DEF OldIsKept, Cleanup
<1>4. Kept' /\ Business' = Business /\ OnDisk' = OnDisk
  BY Zenon, <1>3, <1>a DEF Kept, Settled, Business, OnDisk
<1>5. CASE work.cancel
  <2>1. pc' = "cancel" /\ UNCHANGED <<hostVars, work>>
    BY Zenon, <1>5 DEF DropOldSlot, Go
  <2>2. Shapes'
    BY Zenon, <1>2, <1>a, <1>i, <2>1 DEF Shapes
  <2>3. pc' \in Cleanup
    BY <2>1 DEF Cleanup
  <2>4. Complete'
    BY Zenon, <1>4, <1>a, <1>i, <2>3, FilesStay
  <2> QED
    BY Zenon, <1>4, <1>a, <2>1, <2>2, <2>4, GoStep
<1>6. CASE ~work.cancel
  <2>1. /\ holder' = "none" /\ pc' = "idle" /\ work' = NoWork
    BY Zenon, <1>6 DEF DropOldSlot, Release
  <2>2. up' = "running"
    BY <1>6, <1>a, <1>i DEF AtWork, StepsOf, Retiring
  <2>3. AtWork' /\ Custody' /\ Readable'
    BY <1>4, <2>1, <2>2, Returned
  <2>4. Shapes'
    BY Zenon, <1>2, <1>a, <1>i, <2>1, IdleWork DEF Shapes
  <2>5. Complete'
    BY Zenon, <1>4, <1>a, <1>i, <2>1, FilesStay
  <2> QED
    BY Zenon, <2>3, <2>4, <2>5 DEF CustodyState
<1> QED
  BY Zenon, <1>5, <1>6

\* The last record of an operation: the process serves on, or begins to.
LEMMA FinishStep ==
  ASSUME CustodyState, AppendCancelled \/ FinishRetirement
  PROVE  CustodyState'
<1>i. Shapes /\ AtWork /\ OldIsKept /\ NewIsKept /\ ServesSettled /\ Complete
  BY Zenon DEF CustodyState, Custody
<1> DEFINE phase == IF pc = "cancel" THEN "Cancelled" ELSE "RetiredOld"
           r == [rec EXCEPT !.phase = phase]
<1>a. /\ pc \in {"cancel", "retire"} /\ journal' = Appended(r) /\ synced' = dir
      /\ IF work.route = "execute" THEN Release /\ UNCHANGED up ELSE Ready
      /\ UNCHANGED <<dir, disk, slots, alias, active, nextOp, candidates, committed>>
  <2>1. CASE AppendCancelled
    BY Zenon, <2>1 DEF AppendCancelled, Finish, keyVars
  <2>2. CASE FinishRetirement
    <3>1. pc = "retire" /\ phase = "RetiredOld"
      BY <2>2 DEF FinishRetirement, Finish
    <3> HIDE DEF phase
    <3> QED
      BY Zenon, <2>2, <3>1 DEF FinishRetirement, Finish, keyVars
  <2> QED
    BY Zenon, <2>1, <2>2
<1>1. phase \in Phases
  BY DEF Phases, Terminal
<1> HIDE DEF phase
<1>2. r \in Row
  <2>1. rec \in Row
    BY Zenon, <1>i, RecordShape
  <2> QED
    BY Zenon, <1>1, <2>1 DEF Row
<1> HIDE DEF r
<1>3. journal' \in JournalRow
  BY Zenon, <1>2, <1>a, <1>i, JournalShape DEF Shapes
<1>4. Kept
  BY <1>a, <1>i DEF OldIsKept, NewIsKept, Cleanup, Retiring
<1>5. Kept' /\ Business' = Business /\ OnDisk' = Business
  BY Zenon, <1>4, <1>a DEF Kept, Settled, Business, OnDisk
<1>6. holder \notin {"write", "sync"} /\ (work.route = "execute" => up = "running")
  <2>1. pc # "idle"
    BY <1>a
  <2> QED
    BY <1>i, <2>1, NoWriter DEF AtWork
<1>7. /\ pc' = "idle" /\ work' = NoWork /\ up' = "running" /\ holder' \in {holder, "none"}
  BY Zenon, <1>6, <1>a DEF Release, Ready, hostVars
<1>8. AtWork' /\ Custody' /\ Readable'
  BY <1>5, <1>6, <1>7, Returned
<1>9. Shapes'
  BY Zenon, <1>3, <1>7, <1>a, <1>i, IdleWork DEF Shapes
<1>10. Complete'
  BY Zenon, <1>5, <1>7, <1>a, <1>i, FilesStay
<1> QED
  BY Zenon, <1>8, <1>9, <1>10 DEF CustodyState

\* Opening business.db serves its revision and changes nothing it holds.
LEMMA OpenedFiles ==
  ASSUME Shapes, Complete, Settled, Opened, UNCHANGED <<dir, synced, candidates>>,
         pc' = "idle"
  PROVE  /\ disk' \in [Files -> FileRow] /\ committed' \in [facts : Nat, rev : Nat]
         /\ Complete'
<1> DEFINE old == committed.rev
           new == disk[active].rev
<1>1. /\ disk' = [disk EXCEPT ![active].marks = {}]
      /\ committed' = [committed EXCEPT !.rev = IF new > old THEN new ELSE old]
  BY Zenon DEF Opened
<1>2. SameData(disk, disk') /\ disk' \in [Files -> FileRow]
  <2>1. disk' = Marked(disk, active, {}) /\ {} \in SUBSET Marks
    BY Zenon, <1>1 DEF Marked
  <2> QED
    BY Zenon, <2>1, MarkedDisk
<1>3. Business = active /\ OnDisk = active /\ active \in Files
  BY Zenon, BusinessIsFile DEF Settled
<1>4. old \in Nat /\ new \in Nat /\ committed \in [facts : Nat, rev : Nat]
  BY <1>3 DEF Shapes, FileRow
<1>5. disk[active].facts = committed.facts
  BY Zenon, <1>3 DEF Complete, Whole
<1> HIDE DEF old, new
<1>6. /\ committed' \in [facts : Nat, rev : Nat] /\ committed'.facts = committed.facts
      /\ committed'.rev \in {new, old} /\ (new > old => committed'.rev = new)
      /\ (~(new > old) => committed'.rev = old)
  BY <1>1, <1>4
<1>7. new >= committed'.rev /\ new >= old
  <2>1. new >= old
    BY Zenon, <1>3 DEF Complete, Whole, old, new
  <2> QED
    BY <1>4, <1>6, <2>1
<1>8. disk'[active].facts = committed'.facts /\ disk'[active].rev >= committed'.rev
  BY Zenon, <1>2, <1>3, <1>5, <1>6, <1>7 DEF SameData, new
<1>9. Business' = active /\ OnDisk' = active
  BY Zenon, <1>3 DEF Business, OnDisk
<1>10. Whole(Business)' /\ Whole(OnDisk)'
  BY Zenon, <1>8, <1>9 DEF Whole
<1>11. pc' \notin WithCandidate /\ pc' \notin Cloned
  BY DEF WithCandidate, Cloned
<1>12. Numbered' /\ CloneIsWhole'
  BY Zenon, <1>3, <1>9, <1>11 DEF Complete, Numbered, CloneIsWhole
<1> QED
  BY Zenon, <1>2, <1>6, <1>10, <1>12 DEF Complete

\* The executor opens what it has published.
LEMMA ReopenStep ==
  ASSUME CustodyState, Reopen
  PROVE  CustodyState'
<1>i. Shapes /\ AtWork /\ NewIsKept /\ Complete
  BY Zenon DEF CustodyState, Custody
<1>a. /\ pc = "open" /\ Opens /\ Opened /\ holder' = "none" /\ pc' = "idle" /\ work' = NoWork
      /\ UNCHANGED <<dir, synced, slots, alias, journal, up, active, nextOp, candidates>>
  BY Zenon DEF Reopen, keyVars
<1>1. Kept
  BY <1>a, <1>i DEF NewIsKept, Retiring
<1>2. Kept' /\ up' = "running"
  BY Zenon, <1>1, <1>a DEF Kept, Settled, Business, OnDisk, Opens
<1>3. AtWork' /\ Custody' /\ Readable'
  BY <1>2, <1>a, Returned
<1>4. /\ disk' \in [Files -> FileRow] /\ committed' \in [facts : Nat, rev : Nat]
      /\ Complete'
  BY Zenon, <1>1, <1>a, <1>i, OpenedFiles DEF Kept
<1>5. Shapes'
  BY Zenon, <1>4, <1>a, <1>i, IdleWork DEF Shapes
<1> QED
  BY Zenon, <1>3, <1>4, <1>5 DEF CustodyState
-----------------------------------------------------------------------------
(* Storage errors, crashes and the restart. *)

\* An error in a journal append: the directory is synced and the alias is stored.
LEMMA AppendFailsStep ==
  ASSUME CustodyState, AppendFails
  PROVE  CustodyState'
<1>i. Shapes /\ AtWork /\ OldIsKept /\ NewIsKept /\ ServesSettled /\ Complete
  BY Zenon DEF CustodyState, Custody
<1> DEFINE r == [rec EXCEPT !.phase = PhaseAt(pc)]
<1>a. /\ pc \in Appending /\ work.route = "execute"
      /\ journal' \in {journal, [journal EXCEPT !.torn = TRUE], Appended(r)}
      /\ IF pc = "reserve" THEN Go("dropFile") ELSE Release
      /\ UNCHANGED <<dir, synced, disk, slots, alias, up, active, nextOp, candidates, committed>>
  BY Zenon DEF AppendFails, Fails, JournalAfterFailure, diskVars, keyVars
<1>1. PhaseAt(pc) \in Phases
  BY <1>a DEF PhaseAt, Appending, Phases, Terminal
<1>2. r \in Row
  <2>1. rec \in Row
    BY Zenon, <1>i, RecordShape
  <2> QED
    BY Zenon, <1>1, <2>1 DEF Row
<1> HIDE DEF r
<1>3. journal' \in JournalRow
  <2>1. journal \in JournalRow
    BY <1>i DEF Shapes
  <2>2. [journal EXCEPT !.torn = TRUE] \in JournalRow
    BY Zenon, <2>1 DEF JournalRow
  <2>3. Appended(r) \in JournalRow
    BY Zenon, <1>2, <2>1, JournalShape
  <2> QED
    BY Zenon, <1>a, <2>1, <2>2, <2>3
<1>4. Kept
  BY <1>a, <1>i DEF OldIsKept, NewIsKept, Kept, Appending, BeforeExchange, WithCandidate, Cloned,
     Cleanup, Retiring
<1>5. Kept' /\ Business' = Business /\ OnDisk' = OnDisk
  BY Zenon, <1>4, <1>a DEF Kept, Settled, Business, OnDisk
<1>6. up = "running"
  BY <1>a, <1>i DEF AtWork
<1>7. CASE pc = "reserve"
  <2>1. pc' = "dropFile" /\ UNCHANGED <<hostVars, work>>
    BY Zenon, <1>7, <1>a DEF Go
  <2>2. pc # "idle" /\ pc' \in Cleanup /\ pc' \in StepsOf(work.route)
    BY <1>7, <1>a, <2>1 DEF Cleanup, StepsOf
  <2>3. AtWork' /\ Custody' /\ Readable'
    BY Zenon, <1>5, <1>a, <1>i, <2>1, <2>2, ArrivesKept
  <2>4. Shapes'
    BY Zenon, <1>3, <1>a, <1>i, <2>1 DEF Shapes
  <2>5. Complete'
    BY Zenon, <1>5, <1>a, <1>i, <2>2, FilesStay
  <2> QED
    BY Zenon, <2>3, <2>4, <2>5 DEF CustodyState
<1>8. CASE pc # "reserve"
  <2>1. holder' = "none" /\ pc' = "idle" /\ work' = NoWork
    BY Zenon, <1>8, <1>a DEF Release
  <2>2. AtWork' /\ Custody' /\ Readable'
    BY <1>5, <1>6, <1>a, <2>1, Returned
  <2>3. Shapes'
    BY Zenon, <1>3, <1>a, <1>i, <2>1, IdleWork DEF Shapes
  <2>4. Complete'
    BY Zenon, <1>5, <1>a, <1>i, <2>1, FilesStay
  <2> QED
    BY Zenon, <2>2, <2>3, <2>4 DEF CustodyState
<1> QED
  BY Zenon, <1>7, <1>8

\* The error is returned; an exchange that is not synced, or whose alias is not
\* stored, stays behind a journal that intends it.
LEMMA StepFailsStep ==
  ASSUME CustodyState, StepFails \/ VerifyFails
  PROVE  CustodyState'
<1>i. /\ Shapes /\ AtWork /\ GapIsIntended /\ OldIsKept /\ NewIsKept /\ ServesSettled /\ Readable
      /\ Complete
  BY Zenon DEF CustodyState, Custody
<1>a. /\ pc \in Steps /\ pc \notin Appending \cup {"idle", "install"} /\ work.route = "execute"
      /\ holder' = "none" /\ pc' = "idle" /\ work' = NoWork /\ (runtime' => runtime)
      /\ UNCHANGED <<dir, synced, disk, slots, alias, journal, up, active, nextOp, candidates,
                     committed>>
  <2>1. CASE StepFails
    BY Zenon, <2>1 DEF StepFails, Fails, Release, keyVars
  <2>2. CASE VerifyFails
    BY Zenon, <2>2 DEF VerifyFails, Fails, diskVars, keyVars, Steps, Appending
  <2> QED
    BY Zenon, <2>1, <2>2
<1>1. Business' = Business /\ OnDisk' = OnDisk
  BY Zenon, <1>a DEF Business, OnDisk
<1>2. up = "running"
  BY <1>a, <1>i DEF AtWork
<1>3. Shapes'
  BY Zenon, <1>a, <1>i, IdleWork DEF Shapes
<1>4. Complete'
  BY Zenon, <1>1, <1>a, <1>i, FilesStay
<1>5. CASE Kept
  <2>1. Kept'
    BY Zenon, <1>1, <1>5, <1>a DEF Kept, Settled
  <2>2. AtWork' /\ Custody' /\ Readable'
    BY <1>2, <1>a, <2>1, Returned
  <2> QED
    BY Zenon, <1>3, <1>4, <2>2 DEF CustodyState
<1>6. CASE ~Kept
  <2>1. pc \in {"syncExchange", "alias"}
    BY <1>6, <1>a, <1>i DEF AtWork, StepsOf, OldIsKept, NewIsKept, Appending, BeforeExchange, Cleanup, Retiring
  <2>2. journal.last'.phase = "PublishIntent"
    BY <1>a, <1>i, <2>1 DEF NewIsKept
  <2>3. AtWork'
    BY <1>2, <1>a, IdleWork DEF AtWork, WriterClosed, BeforeCandidate
  <2>4. GapIsIntended'
    BY Zenon, <1>1, <1>a, <1>i DEF GapIsIntended
  <2>5. OldIsKept'
    BY <1>a, <2>2 DEF OldIsKept, Terminal, BeforeExchange, BeforeCandidate, WithCandidate, Cloned, Cleanup
  <2>6. NewIsKept'
    BY <1>a DEF NewIsKept, Retiring
  <2>7. ServesSettled'
    <3>1. holder' \notin {"write", "sync"}
      BY <1>a
    <3> QED
      BY Zenon, <1>1, <1>a, <1>i, <3>1 DEF ServesSettled, Settled
  <2>8. Readable'
    BY Zenon, <1>1, <1>a, <1>i DEF Readable, Openable
  <2> QED
    BY Zenon, <1>3, <1>4, <2>3, <2>4, <2>5, <2>6, <2>7, <2>8 DEF CustodyState, Custody
<1> QED
  BY Zenon, <1>5, <1>6

\* The first step of the cleanup after each failed step.
LEMMA CleanupSteps ==
  ASSUME NEW step \in {"reserveCandidate", "create", "clone", "install"}
  PROVE  \/ step \in {"install", "clone"} /\ CleanupAfter(step) = "dropFile"
         \/ step = "create" /\ CleanupAfter(step) = "dropCandidateSlot"
         \/ step = "reserveCandidate" /\ CleanupAfter(step) = "dropOldSlot"
<1>1. CASE step = "reserveCandidate"
  BY <1>1 DEF CleanupAfter
<1>2. CASE step = "create"
  BY <1>2 DEF CleanupAfter
<1>3. CASE step = "clone"
  BY <1>3 DEF CleanupAfter
<1>4. CASE step = "install"
  BY <1>4 DEF CleanupAfter
<1> QED
  BY <1>1, <1>2, <1>3, <1>4

\* The executor cleans up after an error.
LEMMA FailsCleanlyStep ==
  ASSUME CustodyState, FailsCleanly
  PROVE  CustodyState'
<1>a. /\ pc \in {"reserveCandidate", "create", "clone", "install"} /\ pc' = CleanupAfter(pc)
      /\ disk' = IF pc = "install" THEN [disk EXCEPT ![rec.key].marks = {}] ELSE disk
      /\ work' = [work EXCEPT !.cancel = (pc = "install")]
      /\ UNCHANGED <<hostVars, dir, synced, slots, alias, journal, up, active, nextOp, candidates,
                     committed>>
  BY Zenon DEF FailsCleanly, keyVars
<1>1. \/ pc \in {"install", "clone"} /\ pc' = "dropFile"
      \/ pc = "create" /\ pc' = "dropCandidateSlot"
      \/ pc = "reserveCandidate" /\ pc' = "dropOldSlot"
  BY Zenon, <1>a, CleanupSteps
<1>2. disk' = disk \/ disk' = [disk EXCEPT ![rec.key].marks = {}]
  BY Zenon, <1>a
<1>3. (pc = "install") \in BOOLEAN
  BY Zenon
<1> QED
  BY Zenon, <1>1, <1>2, <1>3, <1>a, GivesUpStep
\* The process is gone: what it has not synced may be lost, and the journal may
\* have one more record unless an exchange is still to be synced.
LEMMA ProcessGoneStep ==
  ASSUME CustodyState, ProcessGone, dir' \in {dir, synced}, journal' \in JournalRow,
         Business' # OnDisk' => journal'.last = journal.last,
         UNCHANGED <<synced, disk, slots, alias, candidates, committed>>
  PROVE  CustodyState'
<1>i. Shapes /\ GapIsIntended /\ Readable /\ Complete
  BY Zenon DEF CustodyState, Custody
<1>a. /\ up' = "down" /\ pc' = "idle" /\ work' = NoWork /\ active' = 0 /\ nextOp' = 0
      /\ ~runtime' /\ holder' = "none"
  BY DEF ProcessGone, HostGone
<1>1. Business' \in {Business, OnDisk} /\ OnDisk' = OnDisk
  BY Zenon DEF Business, OnDisk
<1>2. dir' \in [Names -> Nat] /\ 0 \in Nat
  BY <1>i DEF Shapes
<1>3. Shapes'
  BY Zenon, <1>2, <1>a, <1>i, IdleWork DEF Shapes
<1>4. AtWork'
  BY <1>a, IdleWork DEF AtWork, WriterClosed, BeforeCandidate
<1>5. GapIsIntended'
  BY Zenon, <1>1, <1>i DEF GapIsIntended
<1>6. OldIsKept' /\ NewIsKept'
  BY <1>a DEF OldIsKept, NewIsKept, BeforeExchange, BeforeCandidate, WithCandidate, Cloned,
     Cleanup, Retiring
<1>7. ServesSettled'
  BY <1>a DEF ServesSettled
<1>8. Readable'
  BY Zenon, <1>1, <1>i DEF Readable, Openable
<1>9. Complete'
  BY Zenon, <1>1, <1>a, <1>i, FilesStay
<1> QED
  BY Zenon, <1>3, <1>4, <1>5, <1>6, <1>7, <1>8, <1>9 DEF CustodyState, Custody

\* A crash leaves either directory; a record ahead of an unsynced exchange is overtaken.
LEMMA CrashStep ==
  ASSUME CustodyState, Crash, ~overtaken'
  PROVE  CustodyState'
<1>i. Shapes
  BY Zenon DEF CustodyState
<1> DEFINE r == [rec EXCEPT !.phase = PhaseAt(pc)]
<1>a. /\ ProcessGone /\ dir' \in {dir, synced}
      /\ journal'.last # journal.last => dir'["business"] = synced["business"]
      /\ UNCHANGED <<synced, disk, slots, alias, candidates, committed>>
  BY Zenon DEF Crash, keyVars
<1>b. \/ journal' = journal
      \/ pc \in Appending /\ journal' \in {journal, [journal EXCEPT !.torn = TRUE], Appended(r)}
  BY Zenon DEF Crash, JournalAfterFailure
<1>1. journal \in JournalRow /\ rec \in Row
  BY Zenon, <1>i, RecordShape DEF Shapes
<1>2. [journal EXCEPT !.torn = TRUE] \in JournalRow
  BY Zenon, <1>1 DEF JournalRow
<1>3. CASE pc \in Appending
  <2>1. PhaseAt(pc) \in Phases
    BY <1>3 DEF PhaseAt, Appending, Phases, Terminal
  <2>2. r \in Row
    BY Zenon, <1>1, <2>1 DEF Row
  <2> HIDE DEF r
  <2>3. journal' \in JournalRow
    BY Zenon, <1>1, <1>2, <1>b, <2>2, JournalShape
  <2> QED
    BY Zenon, <1>a, <2>3, ProcessGoneStep DEF Business, OnDisk
<1>4. CASE pc \notin Appending
  BY Zenon, <1>1, <1>4, <1>a, <1>b, ProcessGoneStep DEF Business, OnDisk
<1> QED
  BY Zenon, <1>3, <1>4

\* A quit is a crash that loses nothing.
LEMMA QuitStep ==
  ASSUME CustodyState, Quit
  PROVE  CustodyState'
<1>1. /\ ProcessGone
      /\ UNCHANGED <<dir, synced, journal, disk, slots, alias, candidates, committed>>
  BY Zenon DEF Quit, keyVars
<1>2. journal' \in JournalRow
  BY Zenon, <1>1 DEF CustodyState, Shapes
<1> QED
  BY Zenon, <1>1, <1>2, ProcessGoneStep

\* What each route of the restart has found.
LEMMA Classification ==
  /\ Classified = "clean" => journal.last.phase = "none"
  /\ Classified = "terminal" => journal.last.phase \in Terminal
  /\ Classified = "discard" =>
         /\ Business = journal.last.oldKey
         /\ \/ slots[journal.last.old].key = journal.last.oldKey
            \/ alias = journal.last.oldKey
  /\ Classified = "resume" => slots[journal.last.old].key = journal.last.oldKey
  /\ Classified = "retire" =>
         /\ journal.last.phase = "ReopenedVerified"
         /\ Business = journal.last.key
         /\ slots[Other(journal.last.old)].key = journal.last.key
<1> DEFINE r == journal.last
<1>1. /\ Classified = "clean" => r.phase = "none"
      /\ Classified = "terminal" => r.phase \in Terminal
      /\ Classified = "discard" => Discardable(r)
      /\ Classified = "resume" => Resumable(r)
      /\ Classified = "retire" => r.phase = "ReopenedVerified" /\ Retirable(r)
  BY Zenon DEF Classified
<1>2. ASSUME NEW s, NEW origin, NEW key, Holds(s, origin, key)
      PROVE  slots[s].key = key
  BY <1>2 DEF Holds
<1>3. OldRecord(r) => slots[r.old].key = r.oldKey
  BY Zenon, <1>2 DEF OldRecord
<1>4. OwnCandidate(r) => slots[Other(r.old)].key = r.key
  BY Zenon, <1>2 DEF OwnCandidate
<1>5. Discardable(r) => Business = r.oldKey /\ (OldRecord(r) \/ alias = r.oldKey)
  BY Zenon DEF Discardable, OldEvidence, OldCredential
<1>6. Resumable(r) => OldRecord(r)
  BY Zenon DEF Resumable
<1>7. Retirable(r) => Business = r.key /\ OwnCandidate(r)
  BY Zenon DEF Retirable
<1> QED
  BY Zenon, <1>1, <1>3, <1>4, <1>5, <1>6, <1>7
\* The restart has found out who holds business.db, and what it may delete.
LEMMA RestartStep ==
  ASSUME CustodyState, Restart
  PROVE  CustodyState'
<1>i. Shapes /\ AtWork /\ GapIsIntended /\ ServesSettled /\ Readable /\ Complete
  BY Zenon DEF CustodyState, Custody
<1> DEFINE r == journal.last
           route == Classified
           found == [NoWork EXCEPT !.route = route, !.record = r, !.cancel = (route = "discard")]
<1>a. /\ up = "down"
      /\ UNCHANGED <<runtime, holder, dir, synced, disk, slots, alias, journal, nextOp,
                     candidates, committed>>
  BY Zenon DEF Restart, diskVars, keyVars
<1>b. \/ up' = "quarantined" /\ UNCHANGED <<pc, work, active>>
      \/ /\ route \in {"clean", "terminal"} /\ alias = Business
         /\ up' = "running" /\ active' = Business /\ UNCHANGED <<pc, work>>
      \/ /\ up' = "recovering" /\ active' = Business /\ work' = found
         /\ \/ route = "terminal" /\ pc' = "alias"
            \/ route = "discard" /\ pc' \in {"dropCandidateSlot", "dropFile"}
            \/ route = "resume" /\ pc' = "alias"
            \/ route = "retire" /\ pc' = "deleteOldSlot"
  BY Zenon DEF Restart
<1>1. work.route = "none" /\ pc = "idle" /\ ~runtime /\ holder \notin {"write", "sync"}
  BY <1>a, <1>i, IdleWork DEF AtWork, ServesSettled
<1>2. Business' = Business /\ OnDisk' = OnDisk /\ Business \in Nat /\ r \in Row
  <2>1. r \in Row
    BY <1>i DEF Shapes, JournalRow
  <2> QED
    BY Zenon, <1>a, <1>i, <2>1, RecordShape DEF Business, OnDisk
<1>3. CASE up' = "quarantined" /\ UNCHANGED <<pc, work, active>>
  <2>1. Shapes' /\ Readable'
    BY Zenon, <1>2, <1>3, <1>a, <1>i DEF Shapes, Readable, Openable
  <2>2. AtWork'
    BY <1>1, <1>3, <1>a, <1>i DEF AtWork, WriterClosed, BeforeCandidate
  <2>3. GapIsIntended' /\ ServesSettled'
    BY <1>1, <1>2, <1>3, <1>a, <1>i DEF GapIsIntended, ServesSettled
  <2>4. OldIsKept' /\ NewIsKept'
    BY <1>1, <1>3 DEF OldIsKept, NewIsKept, BeforeExchange, BeforeCandidate, WithCandidate, Cloned,
       Cleanup, Retiring
  <2>5. pc' = "idle"
    BY Zenon, <1>1, <1>3
  <2>6. Complete'
    BY Zenon, <1>2, <1>a, <1>i, <2>5, FilesStay
  <2> QED
    BY Zenon, <2>1, <2>2, <2>3, <2>4, <2>6 DEF CustodyState, Custody
<1>4. CASE /\ route \in {"clean", "terminal"} /\ alias = Business
           /\ up' = "running" /\ active' = Business /\ UNCHANGED <<pc, work>>
  <2>1. r.phase \in Terminal \cup {"none"}
    BY Zenon, <1>4, Classification
  <2>2. Business = OnDisk
    BY <1>i, <2>1 DEF GapIsIntended, Terminal
  <2>3. Kept' /\ pc' = "idle" /\ work'.route = "none"
    BY Zenon, <1>1, <1>2, <1>4, <1>a, <2>2 DEF Kept, Settled
  <2>4. AtWork' /\ Custody' /\ Readable'
    BY Zenon, <1>1, <1>4, <1>a, <2>3, AtRest
  <2>5. Shapes'
    BY Zenon, <1>2, <1>4, <1>a, <1>i DEF Shapes
  <2>6. Complete'
    BY Zenon, <1>2, <1>a, <1>i, <2>3, FilesStay
  <2> QED
    BY Zenon, <2>4, <2>5, <2>6 DEF CustodyState
<1>5. CASE /\ up' = "recovering" /\ active' = Business /\ work' = found
           /\ \/ route = "terminal" /\ pc' = "alias"
              \/ route = "discard" /\ pc' \in {"dropCandidateSlot", "dropFile"}
              \/ route = "resume" /\ pc' = "alias"
              \/ route = "retire" /\ pc' = "deleteOldSlot"
  <2>1. route \in Routes
    BY <1>5 DEF Routes
  <2>2. (route = "discard") \in BOOLEAN
    BY Zenon
  <2> DEFINE b == route = "discard"
  <2> HIDE DEF route, r, b
  <2>3. found \in WorkRow /\ found.route = route /\ found.record = r /\ found.cancel = b
    <3>1. NoWork \in WorkRow
      BY Zenon, IdleWork
    <3>2. found = [NoWork EXCEPT !.route = route, !.record = r, !.cancel = b]
      BY Zenon DEF b
    <3>3. b \in BOOLEAN
      BY Zenon, <2>2 DEF b
    <3> HIDE DEF found
    <3> QED
      BY Zenon, <1>2, <2>1, <3>1, <3>2, <3>3 DEF WorkRow
  <2> HIDE DEF found
  <2>4. work' \in WorkRow /\ work'.route = route /\ rec' = r /\ (route = "discard" => work'.cancel)
    BY Zenon, <1>5, <2>3 DEF rec, b
  <2>5. Shapes'
    BY Zenon, <1>2, <1>5, <1>a, <1>i, <2>4 DEF Shapes
  <2>6. Readable'
    BY Zenon, <1>2, <1>a, <1>i DEF Readable, Openable
  <2>7. AtWork'
    BY <1>1, <1>5, <1>a, <2>4 DEF AtWork, WriterClosed, BeforeCandidate, StepsOf, Cleanup
  <2>8. pc' \in Cleanup \cup Retiring \cup {"alias"}
    BY <1>5 DEF Cleanup, Retiring
  <2>9. Complete'
    <3>1. pc' \in Cleanup \cup Retiring \cup {"idle", "publish", "alias", "open"}
      BY Zenon, <2>8
    <3>2. Business' \in {Business, OnDisk} /\ OnDisk' \in {Business, OnDisk}
      BY Zenon, <1>2
    <3>3. UNCHANGED <<disk, committed, candidates>>
      BY Zenon, <1>a
    <3> QED
      BY Zenon, <1>i, <3>1, <3>2, <3>3, FilesStay
  <2>10. GapIsIntended' /\ ServesSettled'
    BY Zenon, <1>1, <1>2, <1>5, <1>a, <1>i DEF GapIsIntended, ServesSettled
  <2>11. Business' = active' /\ (route # "resume" => Settled')
    <3>1. ASSUME route # "resume"
          PROVE  Business = OnDisk
      <4>1. CASE route = "terminal"
        <5>1. r.phase \in Terminal
          BY Zenon, <4>1, Classification DEF route, r
        <5> QED
          BY <1>i, <5>1 DEF GapIsIntended, Terminal, r
      <4>2. CASE route = "discard"
        <5>1. Business = r.oldKey
          BY Zenon, <4>2, Classification DEF route, r
        <5> QED
          BY Zenon, <1>i, <5>1 DEF GapIsIntended, r
      <4>3. CASE route = "retire"
        <5>1. r.phase = "ReopenedVerified"
          BY Zenon, <4>3, Classification DEF route, r
        <5> QED
          BY <1>i, <5>1 DEF GapIsIntended, r
      <4> QED
        BY Zenon, <1>5, <3>1, <4>1, <4>2, <4>3
    <3> QED
      BY Zenon, <1>2, <1>5, <3>1 DEF Settled
  <2>12. OldIsKept'
    <3>1. CASE route = "discard"
      <4>1. alias' = active' \/ slots'[rec'.old].key = active'
        BY Zenon, <1>5, <1>a, <2>4, <3>1, Classification DEF route, r
      <4> QED
        BY <1>5, <2>4, <2>11, <3>1, <4>1 DEF OldIsKept, Kept, BeforeExchange, BeforeCandidate,
           WithCandidate, Cloned, Cleanup
    <3>2. CASE route # "discard"
      BY <1>5, <3>2 DEF OldIsKept, BeforeExchange, BeforeCandidate, WithCandidate, Cloned, Cleanup
    <3> QED
      BY Zenon, <3>1, <3>2
  <2>13. NewIsKept'
    <3>1. CASE route = "retire"
      <4>1. slots'[cand'].key = active' /\ Settled' /\ work'.route = "retire"
        BY Zenon, <1>5, <1>a, <2>4, <2>11, <3>1, Classification DEF route, r, cand
      <4> QED
        BY <1>5, <3>1, <4>1 DEF NewIsKept, Retiring
    <3>2. CASE route = "resume"
      <4>1. slots'[rec'.old].key = rec'.oldKey /\ journal'.last = rec'
        BY Zenon, <1>a, <2>4, <3>2, Classification DEF route, r
      <4> QED
        BY <1>5, <2>4, <2>11, <3>2, <4>1 DEF NewIsKept, Retiring
    <3>3. CASE route \notin {"retire", "resume"}
      BY <1>5, <2>4, <2>11, <3>3 DEF NewIsKept, Retiring
    <3> QED
      BY Zenon, <3>1, <3>2, <3>3
  <2> QED
    BY Zenon, <2>5, <2>6, <2>7, <2>9, <2>10, <2>12, <2>13 DEF CustodyState, Custody
<1> QED
  BY Zenon, <1>3, <1>4, <1>5, <1>b

-----------------------------------------------------------------------------
\* A step of the host that leaves the records, the directory and the executor alone.
LEMMA HostFrame ==
  ASSUME CustodyState, Shapes', Complete',
         UNCHANGED <<dir, synced, slots, alias, journal, up, pc, work, active, candidates>>,
         runtime' \/ holder' \in {"write", "sync"} => up = "running" /\ Settled,
         work.route = "execute" => holder' = "rebootstrap" /\ (runtime' => runtime)
  PROVE  CustodyState'
<1>i. AtWork /\ GapIsIntended /\ OldIsKept /\ NewIsKept /\ ServesSettled /\ Readable
  BY Zenon DEF CustodyState, Custody
<1>1. Business' = Business /\ OnDisk' = OnDisk /\ rec' = rec /\ cand' = cand
  BY Zenon DEF Business, OnDisk, rec, cand
<1>2. Settled' = Settled /\ Kept' = Kept
  BY Zenon, <1>1 DEF Settled, Kept
<1>3. AtWork'
  <2>1. pc \in WriterClosed => work.route = "execute"
    BY <1>i DEF AtWork, StepsOf, WriterClosed, Cleanup, Retiring
  <2> QED
    BY Zenon, <1>i, <2>1 DEF AtWork
<1>4. GapIsIntended' /\ ServesSettled' /\ Readable'
  BY Zenon, <1>1, <1>2, <1>i DEF GapIsIntended, ServesSettled, Readable, Openable
<1>5. OldIsKept'
  BY Zenon, <1>1, <1>2, <1>i DEF OldIsKept
<1>6. NewIsKept'
  BY Zenon, <1>1, <1>2, <1>i DEF NewIsKept
<1> QED
  BY Zenon, <1>3, <1>4, <1>5, <1>6 DEF CustodyState, Custody

\* The host acts beside the executor: a transition asked for, the clock, a run
\* admitted or ended, a write begun, fenced or rolled back.
LEMMA HostOnlyStep ==
  ASSUME CustodyState, HostOnly
  PROVE  CustodyState'
<1>i. Shapes /\ AtWork /\ ServesSettled /\ Complete
  BY Zenon DEF CustodyState, Custody
<1>1. UNCHANGED <<dir, synced, disk, slots, alias, journal, up, pc, work, active, nextOp,
                  candidates, committed>>
  BY Zenon DEF HostOnly, storageVars, diskVars, keyVars, procVars
<1>2. /\ runtime' = runtime
      /\ \/ holder' = holder
         \/ holder = "none" /\ runtime
         \/ holder \in {"write", "sync"} /\ holder' = "none"
  BY Zenon DEF HostOnly, Request, ClockMoves, AdmitRun, EndRun, Fence, Rollback, BeginWrite,
     BeginSyncWrite, Take
<1>3. Shapes'
  BY Zenon, <1>1, <1>i DEF Shapes
<1>4. Complete'
  <2>1. Business' = Business /\ OnDisk' = OnDisk /\ rec' = rec
    BY Zenon, <1>1 DEF Business, OnDisk, rec
  <2> QED
    BY Zenon, <1>1, <1>i, <2>1, SameFiles
<1>5. runtime' \/ holder' \in {"write", "sync"} => up = "running" /\ Settled
  BY <1>2, <1>i DEF ServesSettled
<1>6. work.route = "execute" => holder' = "rebootstrap" /\ (runtime' => runtime)
  BY <1>2, <1>i DEF AtWork
<1> QED
  BY Zenon, <1>1, <1>3, <1>4, <1>5, <1>6, HostFrame

\* A transition waits for the aggregate lock: no operation is at work then.
LEMMA NobodyAtWork ==
  ASSUME AtWork, up = "running", holder # "rebootstrap"
  PROVE  work.route = "none" /\ pc = "idle"
BY DEF AtWork, StepsOf

\* A Grant opens the workspace.
LEMMA GrantStep ==
  ASSUME CustodyState, Grant
  PROVE  CustodyState'
<1>i. Shapes /\ AtWork /\ ServesSettled /\ Complete
  BY Zenon DEF CustodyState, Custody
<1>1. /\ UNCHANGED <<dir, synced, slots, alias, journal, up, pc, work, active, nextOp, candidates>>
      /\ up = "running" /\ Business = active /\ Opened
  BY Zenon DEF Grant, Opens, keyVars, procVars
<1>2. holder = "none" /\ holder' = "none"
  <2>1. PICK t \in waiting : Granted(t)
    BY Zenon DEF Grant
  <2> QED
    BY Zenon, <2>1 DEF Granted, Settles
<1>3. work.route = "none" /\ pc = "idle" /\ pc' = "idle"
  BY Zenon, <1>1, <1>2, <1>i, NobodyAtWork, "none" # "rebootstrap"
<1>4. Settled
  BY Zenon, <1>1, <1>i DEF ServesSettled, Settled
<1>5. disk' \in [Files -> FileRow] /\ committed' \in [facts : Nat, rev : Nat] /\ Complete'
  BY Zenon, <1>1, <1>3, <1>4, <1>i, OpenedFiles
<1>6. Shapes'
  BY Zenon, <1>1, <1>5, <1>i DEF Shapes
<1> QED
  BY <1>1, <1>2, <1>3, <1>4, <1>5, <1>6, HostFrame

\* A lock or a refused Grant closes the runtime.
LEMMA LockStep ==
  ASSUME CustodyState, Lock
  PROVE  CustodyState'
<1>i. Shapes /\ AtWork /\ ServesSettled /\ Complete
  BY Zenon DEF CustodyState, Custody
<1>1. /\ UNCHANGED <<dir, synced, disk, slots, alias, journal, up, pc, work, active, nextOp,
                     candidates, committed>>
      /\ up = "running"
  BY Zenon DEF Lock, HostUp, keyVars, procVars
<1>2. holder = "none" /\ holder' = "none" /\ runtime' = FALSE
  <2>1. PICK t \in waiting : Locked(t) \/ Aborted(t)
    BY Zenon DEF Lock
  <2> QED
    BY Zenon, <2>1 DEF Locked, Aborted, ClosedBy, Settles
<1>3. work.route = "none" /\ pc = "idle"
  BY <1>1, <1>2, <1>i, NobodyAtWork
<1>4. Shapes'
  BY Zenon, <1>1, <1>i DEF Shapes
<1>5. Complete'
  <2>1. Business' = Business /\ OnDisk' = OnDisk /\ rec' = rec
    BY Zenon, <1>1 DEF Business, OnDisk, rec
  <2> QED
    BY Zenon, <1>1, <1>i, <2>1, SameFiles
<1> QED
  BY <1>1, <1>2, <1>3, <1>4, <1>5, HostFrame

\* A Grant is refused after it opened the workspace.
LEMMA AbortOpenedStep ==
  ASSUME CustodyState, AbortOpened
  PROVE  CustodyState'
<1>i. Shapes /\ AtWork /\ ServesSettled /\ Complete
  BY Zenon DEF CustodyState, Custody
<1>1. /\ UNCHANGED <<dir, synced, slots, alias, journal, up, pc, work, active, nextOp, candidates,
                     committed>>
      /\ up = "running" /\ disk' = Marked(disk, active, {}) /\ {} \in SUBSET Marks
  BY Zenon DEF AbortOpened, Opens, keyVars, procVars, Marked
<1>2. holder = "none" /\ holder' = "none" /\ runtime' = FALSE
  <2>1. PICK t \in waiting : Aborted(t)
    BY Zenon DEF AbortOpened
  <2> QED
    BY Zenon, <2>1 DEF Aborted, ClosedBy, Settles
<1>3. work.route = "none" /\ pc = "idle"
  BY <1>1, <1>2, <1>i, NobodyAtWork
<1>4. SameData(disk, disk') /\ disk' \in [Files -> FileRow]
  BY Zenon, <1>1, <1>i, MarkedDisk
<1>5. Shapes'
  BY Zenon, <1>1, <1>4, <1>i DEF Shapes
<1>6. Complete'
  <2>1. Business' = Business /\ OnDisk' = OnDisk /\ rec' = rec
    BY Zenon, <1>1 DEF Business, OnDisk, rec
  <2> QED
    BY Zenon, <1>1, <1>4, <1>i, <2>1, SameContents
<1> QED
  BY <1>1, <1>2, <1>3, <1>5, <1>6, HostFrame

\* A row with one more fact, and a row with one more revision.
LEMMA CommittedRow ==
  ASSUME NEW row \in FileRow
  PROVE  /\ [row EXCEPT !.marks = {}, !.facts = row.facts + 1] \in FileRow
         /\ [row EXCEPT !.marks = {}, !.facts = row.facts + 1].facts = row.facts + 1
         /\ [row EXCEPT !.marks = {}, !.facts = row.facts + 1].rev = row.rev
         /\ [row EXCEPT !.marks = {}, !.rev = row.rev + 1] \in FileRow
         /\ [row EXCEPT !.marks = {}, !.rev = row.rev + 1].facts = row.facts
         /\ [row EXCEPT !.marks = {}, !.rev = row.rev + 1].rev = row.rev + 1
<1>1. row.facts \in Nat /\ row.rev \in Nat
  BY DEF FileRow
<1> DEFINE f == row.facts + 1
           r == row.rev + 1
<1>2. f \in Nat /\ r \in Nat
  BY <1>1
<1> HIDE DEF f, r
<1>3. [row EXCEPT !.marks = {}, !.facts = f] \in FileRow
  BY Zenon, <1>2 DEF FileRow
<1>4. [row EXCEPT !.marks = {}, !.rev = r] \in FileRow
  BY Zenon, <1>2 DEF FileRow
<1>5. /\ [row EXCEPT !.marks = {}, !.facts = f].facts = f
      /\ [row EXCEPT !.marks = {}, !.facts = f].rev = row.rev
  BY Zenon DEF FileRow
<1>6. /\ [row EXCEPT !.marks = {}, !.rev = r].facts = row.facts
      /\ [row EXCEPT !.marks = {}, !.rev = r].rev = r
  BY Zenon DEF FileRow
<1> QED
  BY Zenon, <1>3, <1>4, <1>5, <1>6 DEF f, r

\* A write commits to the open file: one more fact, or one more revision.
LEMMA CommitStep ==
  ASSUME CustodyState, CommitWrite \/ CommitSync
  PROVE  CustodyState'
<1>i. Shapes /\ AtWork /\ ServesSettled /\ Complete
  BY Zenon DEF CustodyState, Custody
<1>1. /\ UNCHANGED <<dir, synced, slots, alias, journal, up, pc, work, active, nextOp, candidates,
                     runtime>>
      /\ holder \in {"write", "sync"} /\ holder' = "none"
  BY Zenon DEF CommitWrite, CommitSync, Commit, keyVars, procVars
<1>2. up = "running" /\ Settled
  BY Zenon, <1>1, <1>i DEF ServesSettled
<1>3. work.route = "none" /\ pc = "idle"
  <2>1. holder # "rebootstrap"
    BY <1>1
  <2> QED
    BY Zenon, <1>2, <1>i, <2>1, NobodyAtWork
<1>4. Business = active /\ OnDisk = active /\ active \in Files
  BY Zenon, <1>2, <1>i, BusinessIsFile DEF Settled
<1>5. disk \in [Files -> FileRow] /\ committed \in [facts : Nat, rev : Nat]
  BY Zenon, <1>i DEF Shapes
<1>6. disk[active] \in FileRow /\ {} \in SUBSET Marks
  BY Zenon, <1>4, <1>5
<1>7. disk[active].facts = committed.facts /\ disk[active].rev >= committed.rev
  BY Zenon, <1>4, <1>i DEF Complete, Whole
<1>8. /\ disk' \in [Files -> FileRow] /\ committed' \in [facts : Nat, rev : Nat]
      /\ disk'[active].facts = committed'.facts /\ disk'[active].rev >= committed'.rev
  <2> DEFINE row == disk[active]
  <2>1. CASE CommitWrite
    <3> DEFINE new == [row EXCEPT !.marks = {}, !.facts = row.facts + 1]
    <3>1. disk' = [disk EXCEPT ![active] = new]
      BY Zenon, <1>4, <1>5, <2>1 DEF CommitWrite
    <3>2. committed' = [committed EXCEPT !.facts = @ + 1]
      BY Zenon, <2>1 DEF CommitWrite
    <3>3. new \in FileRow /\ new.facts = row.facts + 1 /\ new.rev = row.rev
      BY Zenon, <1>6, CommittedRow
    <3>4. /\ committed' \in [facts : Nat, rev : Nat]
          /\ committed'.facts = committed.facts + 1 /\ committed'.rev = committed.rev
      BY <1>5, <3>2
    <3> HIDE DEF new
    <3>5. disk' \in [Files -> FileRow] /\ disk'[active] = new
      BY <1>4, <1>5, <3>1, <3>3
    <3> QED
      BY Zenon, <1>7, <3>3, <3>4, <3>5
  <2>2. CASE CommitSync
    <3> DEFINE new == [row EXCEPT !.marks = {}, !.rev = row.rev + 1]
    <3>1. disk' = [disk EXCEPT ![active] = new]
      BY Zenon, <1>4, <1>5, <2>2 DEF CommitSync
    <3>2. committed' = [committed EXCEPT !.rev = row.rev + 1]
      BY Zenon, <2>2 DEF CommitSync
    <3>3. new \in FileRow /\ new.facts = row.facts /\ new.rev = row.rev + 1
      BY Zenon, <1>6, CommittedRow
    <3>4. /\ committed' \in [facts : Nat, rev : Nat]
          /\ committed'.facts = committed.facts /\ committed'.rev = row.rev + 1
      BY <1>5, <1>6, <3>2 DEF FileRow
    <3> HIDE DEF new
    <3>5. disk' \in [Files -> FileRow] /\ disk'[active] = new
      BY <1>4, <1>5, <3>1, <3>3
    <3>6. row.rev + 1 >= row.rev + 1
      <4>1. row.rev \in Nat
        BY Zenon, <1>6 DEF FileRow
      <4> HIDE DEF row
      <4> QED
        BY <4>1
    <3> QED
      BY Zenon, <1>7, <3>3, <3>4, <3>5, <3>6
  <2> QED
    BY Zenon, <2>1, <2>2
<1>9. Complete'
  <2>1. Business' = active' /\ OnDisk' = active' /\ active' = active /\ Business' = Business
        /\ OnDisk' = OnDisk /\ rec' = rec
    BY Zenon, <1>1, <1>4 DEF Business, OnDisk, rec
  <2>2. pc' \notin WithCandidate /\ pc' \notin Cloned
    BY <1>1, <1>3 DEF WithCandidate, Cloned
  <2>3. Whole(Business)' /\ Whole(OnDisk)'
    BY Zenon, <1>8, <2>1 DEF Whole
  <2>4. Numbered'
    BY Zenon, <1>1, <1>i, <2>1, <2>2 DEF Complete, Numbered
  <2> QED
    BY Zenon, <2>2, <2>3, <2>4 DEF Complete, CloneIsWhole
<1>10. Shapes'
  BY Zenon, <1>1, <1>8, <1>i DEF Shapes
<1> QED
  BY <1>1, <1>2, <1>3, <1>9, <1>10, HostFrame

-----------------------------------------------------------------------------
\* The appends of the executor and of the restart that are not an operation's last.
LEMMA AppendsKeepCustody ==
  ASSUME CustodyState,
         \/ AppendPrepared \/ AppendReserved \/ AppendVerified \/ AppendIntent
         \/ AppendPublished \/ AppendReopened \/ AppendRetired
  PROVE  CustodyState'
<1>1. {"Prepared", "CandidateReserved", "Verified", "PublishIntent", "Published",
       "ReopenedVerified", "RetiredOld"} \subseteq Phases
  BY DEF Phases, Terminal
<1>2. CASE AppendPrepared
  BY Zenon, <1>1, <1>2, AppendStep DEF AppendPrepared
<1>3. CASE AppendReserved
  BY Zenon, <1>1, <1>3, AppendStep DEF AppendReserved
<1>4. CASE AppendVerified
  BY Zenon, <1>1, <1>4, AppendStep DEF AppendVerified
<1>5. CASE AppendIntent
  BY Zenon, <1>1, <1>5, AppendStep DEF AppendIntent
<1>6. CASE AppendPublished
  BY Zenon, <1>1, <1>6, AppendStep DEF AppendPublished
<1>7. CASE AppendReopened
  BY Zenon, <1>1, <1>7, AppendStep DEF AppendReopened
<1>8. CASE AppendRetired
  BY Zenon, <1>1, <1>8, AppendStep DEF AppendRetired
<1> QED
  BY Zenon, <1>2, <1>3, <1>4, <1>5, <1>6, <1>7, <1>8

\* Every step of the executor and of the restart.
LEMMA WorkKeepsCustody ==
  ASSUME CustodyState, ExecutorStep \/ RecoveryStep
  PROVE  CustodyState'
<1>1. CASE \/ AppendPrepared \/ AppendReserved \/ AppendVerified \/ AppendIntent
           \/ AppendPublished \/ AppendReopened \/ AppendRetired
  BY Zenon, <1>1, AppendsKeepCustody
<1>2. CASE up = "running" /\ (ReserveOldSlot \/ ReserveCandidateSlot \/ PrepareRejected)
  BY Zenon, <1>2, ReserveOldStep, ReserveCandidateStep, PrepareRejectedStep
<1>3. CASE CreateCandidate \/ CloneCandidate \/ InstallPlan \/ InstallRejected \/ VerifyCandidate
  BY Zenon, <1>3, CreateStep, CloneStep, InstallStep, InstallRejectedStep, VerifyStep
<1>4. CASE Exchange \/ SyncExchange \/ StoreAlias \/ Reopen
  BY Zenon, <1>4, ExchangeStep, SyncExchangeStep, AliasStep, ReopenStep
<1>5. CASE UnlinkOld \/ SyncUnlink \/ DropFile \/ SyncDrop
  BY Zenon, <1>5, UnlinkStep
<1>6. CASE DeleteOldSlot \/ DropCandidateSlot \/ DropOldSlot
  BY Zenon, <1>6, DeleteOldStep, DropCandidateStep, DropOldStep
<1>7. CASE AppendCancelled \/ FinishRetirement
  BY Zenon, <1>7, FinishStep
<1> QED
  BY Zenon, <1>1, <1>2, <1>3, <1>4, <1>5, <1>6, <1>7 DEF ExecutorStep, RecoveryStep

\* Once overtaken, always overtaken.
LEMMA OvertakenStays ==
  ASSUME [Next]_vars, overtaken
  PROVE  overtaken'
<1>1. CASE HostStep
  BY Zenon, <1>1 DEF HostStep, HostOnly, Grant, Lock, AbortOpened, CommitWrite, CommitSync,
     storageVars, faultVars
<1>2. CASE \E p \in Plans : Begin(p)
  BY Zenon, <1>2 DEF Begin, faultVars
<1>3. CASE \/ AppendPrepared \/ AppendReserved \/ AppendVerified \/ AppendIntent
           \/ AppendPublished \/ AppendReopened \/ AppendRetired \/ AppendCancelled
           \/ FinishRetirement
  BY Zenon, <1>3 DEF AppendPrepared, AppendReserved, AppendVerified, AppendIntent,
     AppendPublished, AppendReopened, AppendRetired, Append, AppendCancelled, FinishRetirement,
     Finish, faultVars
<1>4. CASE ReserveOldSlot \/ ReserveCandidateSlot \/ PrepareRejected \/ CreateCandidate
           \/ CloneCandidate \/ InstallPlan \/ InstallRejected \/ VerifyCandidate
  BY Zenon, <1>4 DEF ReserveOldSlot, ReserveCandidateSlot, PrepareRejected, CreateCandidate,
     CloneCandidate, InstallPlan, InstallRejected, VerifyCandidate, faultVars
<1>5. CASE Exchange \/ SyncExchange \/ StoreAlias \/ Reopen \/ UnlinkOld \/ SyncUnlink
           \/ DeleteOldSlot
  BY Zenon, <1>5 DEF Exchange, SyncExchange, StoreAlias, Reopen, UnlinkOld, SyncUnlink,
     DeleteOldSlot, faultVars
<1>6. CASE DropFile \/ SyncDrop \/ DropCandidateSlot \/ DropOldSlot
  BY Zenon, <1>6 DEF DropFile, SyncDrop, DropCandidateSlot, DropOldSlot, faultVars
<1>7. CASE Failure
  BY Zenon, <1>7 DEF Failure, AppendFails, StepFails, VerifyFails, FailsCleanly
<1>8. CASE Crash \/ Quit \/ Restart
  BY Zenon, <1>8 DEF Crash, Quit, Restart, faultVars
<1>9. CASE UNCHANGED vars
  BY Zenon, <1>9 DEF vars, faultVars
<1> QED
  BY Zenon, <1>1, <1>2, <1>3, <1>4, <1>5, <1>6, <1>7, <1>8, <1>9 DEF Next, ExecutorStep,
     RecoveryStep

\* Every step keeps the custody invariant.
LEMMA NextKeepsCustody ==
  ASSUME CustodyInvariant, [Next]_vars
  PROVE  CustodyInvariant'
<1> SUFFICES ASSUME ~overtaken'
             PROVE  CustodyState'
  BY Zenon DEF CustodyInvariant
<1>1. CustodyState
  BY Zenon, OvertakenStays DEF CustodyInvariant
<1>2. CASE HostStep
  BY Zenon, <1>1, <1>2, HostOnlyStep, GrantStep, LockStep, AbortOpenedStep, CommitStep DEF HostStep
<1>3. CASE \E p \in Plans : Begin(p)
  BY Zenon, <1>1, <1>3, BeginStep
<1>4. CASE ExecutorStep \/ RecoveryStep
  BY Zenon, <1>1, <1>4, WorkKeepsCustody
<1>5. CASE Failure
  BY Zenon, <1>1, <1>5, AppendFailsStep, StepFailsStep, FailsCleanlyStep DEF Failure
<1>6. CASE Crash
  BY Zenon, <1>1, <1>6, CrashStep
<1>7. CASE Quit
  BY Zenon, <1>1, <1>7, QuitStep
<1>8. CASE Restart
  BY Zenon, <1>1, <1>8, RestartStep
<1>9. CASE UNCHANGED vars
  <2>1. UNCHANGED <<dir, synced, disk, slots, alias, journal, up, pc, work, active, nextOp,
                    candidates, committed, runtime, holder>>
    BY Zenon, <1>9 DEF vars, hostVars, diskVars, keyVars, procVars
  <2>2. Shapes /\ AtWork /\ ServesSettled /\ Complete
    BY Zenon, <1>1 DEF CustodyState, Custody
  <2>3. Shapes'
    BY Zenon, <2>1, <2>2 DEF Shapes
  <2>4. Business' = Business /\ OnDisk' = OnDisk /\ rec' = rec
    BY Zenon, <2>1 DEF Business, OnDisk, rec
  <2>5. Complete'
    BY Zenon, <2>1, <2>2, <2>4, SameFiles
  <2>6. work.route = "execute" => holder' = "rebootstrap" /\ (runtime' => runtime)
    BY Zenon, <2>1, <2>2 DEF AtWork
  <2>7. runtime' \/ holder' \in {"write", "sync"} => up = "running" /\ Settled
    BY Zenon, <2>1, <2>2 DEF ServesSettled
  <2> QED
    BY Zenon, <1>1, <2>1, <2>3, <2>5, <2>6, <2>7, HostFrame
<1> QED
  BY Zenon, <1>2, <1>3, <1>4, <1>5, <1>6, <1>7, <1>8, <1>9 DEF Next

\* The first start: business.db is file 1, the alias holds its key.
LEMMA InitCustody ==
  ASSUME Init
  PROVE  CustodyState
<1>1. /\ dir = [n \in Names |-> IF n = "business" THEN 1 ELSE 0] /\ synced = dir
      /\ disk = [f \in Files |-> Blank] /\ slots = [s \in Slots |-> NoSlot] /\ alias = 1
      /\ journal = [last |-> NoRecord, link |-> 0, torn |-> FALSE]
      /\ up = "running" /\ pc = "idle" /\ work = NoWork /\ active = 1 /\ nextOp = 0
      /\ candidates = 0 /\ committed = [facts |-> 0, rev |-> 0]
      /\ runtime = FALSE /\ holder = "none"
  BY Zenon DEF Init, HostInit
<1>2. dir \in [Names -> Nat] /\ Business = 1 /\ OnDisk = 1
  BY <1>1 DEF Names, Slots, Business, OnDisk
<1>3. MaxCandidates \in Nat /\ 1 \in Files /\ 0 \in 0..MaxCandidates
  BY RebootstrapAssumption DEF Files
<1>4. Shapes
  <2>1. disk \in [Files -> FileRow]
    <3>1. Blank \in FileRow
      BY DEF Blank, FileRow
    <3> QED
      BY Zenon, <1>1, <3>1
  <2>2. slots \in [Slots -> SlotRow]
    BY Zenon, <1>1, NoSlotShape
  <2>3. journal \in JournalRow
    <3>1. NoRecord \in Row
      BY Zenon, IdleWork DEF WorkRow, NoWork
    <3> QED
      BY <1>1, <3>1 DEF JournalRow
  <2>4. work \in WorkRow
    BY Zenon, <1>1, IdleWork
  <2>5. committed \in [facts : Nat, rev : Nat]
    BY <1>1
  <2> QED
    BY <1>1, <1>2, <1>3, <2>1, <2>2, <2>3, <2>4, <2>5 DEF Shapes
<1>5. work.route = "none"
  BY <1>1, IdleWork
<1>6. Kept
  BY Zenon, <1>1, <1>2 DEF Kept, Settled
<1>7. AtWork
  BY <1>1, <1>5 DEF AtWork, StepsOf, BeforeCandidate, WriterClosed
<1>8. GapIsIntended /\ ServesSettled /\ Readable
  <2>1. GapIsIntended /\ Readable
    BY Zenon, <1>1, <1>2 DEF GapIsIntended, Readable, Openable
  <2>2. ServesSettled
    BY <1>1, <1>2 DEF ServesSettled
  <2> QED
    BY Zenon, <2>1, <2>2
<1>9. OldIsKept /\ NewIsKept
  BY <1>1, <1>6 DEF OldIsKept, NewIsKept, BeforeExchange, BeforeCandidate, WithCandidate, Cloned,
     Cleanup, Retiring
<1>10. Complete
  <2>1. pc \notin WithCandidate /\ pc \notin Cloned
    BY <1>1 DEF WithCandidate, Cloned
  <2>2. Numbered /\ CloneIsWhole
    BY <1>1, <1>2, <2>1 DEF Numbered, CloneIsWhole
  <2>3. Whole(1)
    <3>1. disk[1] = Blank
      BY Zenon, <1>1, <1>3
    <3> QED
      BY <1>1, <3>1 DEF Whole, Blank
  <2> QED
    BY Zenon, <1>2, <2>2, <2>3 DEF Complete
<1> QED
  BY Zenon, <1>4, <1>7, <1>8, <1>9, <1>10 DEF CustodyState, Custody

(* The custody invariant holds in every execution: any number of operations, *)
(* of writes, of storage errors and of kills and power failures at any step. *)
THEOREM CustodyHolds == Spec => []CustodyInvariant
<1>1. Init => CustodyInvariant
  BY InitCustody DEF CustodyInvariant
<1>2. CustodyInvariant /\ [Next]_vars => CustodyInvariant'
  BY NextKeepsCustody
<1> QED
  BY <1>1, <1>2, PTL DEF Spec

(* Whatever has been synced, the alias or a slot record holds the key of the *)
(* file named business.db: execute_rebootstrap, its cleanup and the restart  *)
(* never delete the last copy of the key the workspace depends on.           *)
THEOREM ActiveReadableHolds == Spec => []ActiveReadable
<1>1. CustodyInvariant => ActiveReadable
  <2> SUFFICES ASSUME CustodyState, NEW d \in {dir, synced}
               PROVE  /\ d["business"] # 0
                      /\ d["business"] \in {alias} \cup {slots[s].key : s \in Slots}
    BY Zenon DEF CustodyInvariant, ActiveReadable
  <2>1. Readable /\ Shapes /\ Complete
    BY Zenon DEF CustodyState
  <2>2. Business \in Files /\ OnDisk \in Files
    BY Zenon, <2>1, BusinessIsFile
  <2>3. 0 \notin Files
    BY DEF Files
  <2>4. d["business"] \in {Business, OnDisk}
    BY Zenon DEF Business, OnDisk
  <2>5. d["business"] # 0
    BY Zenon, <2>2, <2>3, <2>4
  <2>6. Openable(d["business"])
    BY Zenon, <2>1, <2>4 DEF Readable
  <2> QED
    BY Zenon, <2>5, <2>6 DEF Openable
<1> QED
  BY <1>1, CustodyHolds, PTL

(* No committed local change and no revision already served is missing from  *)
(* business.db, whichever directory a crash leaves: the clone the executor   *)
(* exchanges in holds everything the file it replaces held.                  *)
THEOREM NothingLostHolds == Spec => []NothingLost
<1>1. CustodyInvariant => NothingLost
  <2> SUFFICES ASSUME CustodyState, NEW d \in {dir, synced}
               PROVE  /\ disk[d["business"]].facts = committed.facts
                      /\ disk[d["business"]].rev >= committed.rev
    BY Zenon DEF CustodyInvariant, NothingLost
  <2>1. Whole(Business) /\ Whole(OnDisk)
    BY Zenon DEF CustodyState, Complete
  <2>2. d["business"] \in {Business, OnDisk}
    BY Zenon DEF Business, OnDisk
  <2>3. Whole(d["business"])
    BY Zenon, <2>1, <2>2
  <2> QED
    BY Zenon, <2>3 DEF Whole
<1> QED
  BY <1>1, CustodyHolds, PTL
=============================================================================
