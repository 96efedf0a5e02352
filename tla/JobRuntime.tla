----------------------------- MODULE JobRuntime -----------------------------
(***************************************************************************)
(* The durable job runtime of one workspace: jobs, the lease of each       *)
(* partition, the attempts, the quarantine and replay events, and the      *)
(* single-use handles the workers hold.  Each call runs in one tenant      *)
(* transaction whose row locks keep other calls off the rows it changes;   *)
(* only a claim is split, at the point where another claim can come        *)
(* between its two locks.  Time is counted in ticks until each deadline.   *)
(***************************************************************************)
EXTENDS Integers, Sequences, FiniteSets

CONSTANTS
  Jobs,             \* idempotency keys, each the key of at most one job
  Partitions,
  PartitionOf,      \* the partition the payload of a job derives
  Workers,
  Admins,           \* administrators who may hold a verified replay capability
  NoJob, NoWorker,
  MaxAttempts,      \* max_attempts of the runtime policy
  AttemptLimit,     \* upper bound of the attempt_count column
  LeaseTicks, AttemptTicks, BackoffTicks,
  MaxConflicts,     \* bound: conflicting requests per key
  MaxReplays        \* bound: replays per job

ASSUME JobConstants ==
  /\ PartitionOf \in [Jobs -> Partitions]
  /\ NoJob \notin Jobs /\ NoWorker \notin Workers
  /\ {MaxAttempts, AttemptLimit, LeaseTicks, AttemptTicks, BackoffTicks} \subseteq Nat \ {0}
  /\ MaxAttempts <= AttemptLimit /\ LeaseTicks <= AttemptTicks
  /\ {MaxConflicts, MaxReplays} \subseteq Nat

VARIABLES
  job,          \* job_runtime_jobs
  partition,    \* job_runtime_partition_leases
  attempts,     \* job_runtime_attempts, by attempt number
  quarantined,  \* job_runtime_quarantine_events of each job, counted
  claiming,     \* the job row a claim under way has locked
  handles,      \* handles minted and not yet consumed
  capabilities, \* verified replay capabilities not yet consumed
  effects       \* committed handler transactions of each job

vars == <<job, partition, attempts, quarantined, claiming, handles,
          capabilities, effects>>

Outcomes == {"running", "succeeded", "retry_scheduled", "lease_expired", "quarantined"}

Job ==
  [state : {"absent", "available", "leased", "retry_wait", "completed", "quarantined"},
   wait : Int, attempt : 0 .. AttemptLimit,
   epoch : Nat, worker : Workers \cup {NoWorker}, lease : Nat, deadline : Nat,
   generation : Nat]

Partition ==
  [state : {"released", "held", "renewed"}, job : Jobs \cup {NoJob},
   worker : Workers \cup {NoWorker}, highest : Nat, current : Nat, lease : Nat]

Attempt == [epoch : Nat \ {0}, outcome : Outcomes]

Handle == [job : Jobs, worker : Workers, epoch : Nat, attempt : 0 .. AttemptLimit]

(* Every row has the columns the schema gives it. *)
TypeOK ==
  /\ job \in [Jobs -> Job]
  /\ partition \in [Partitions -> Partition]
  /\ attempts \in [Jobs -> Seq(Attempt)]
  /\ quarantined \in [Jobs -> [conflict : Nat, given_up : Nat]]
  /\ claiming \in [Workers -> Jobs \cup {NoJob}]
  /\ handles \subseteq Handle
  /\ capabilities \subseteq [job : Jobs, admin : Admins, generation : Nat]
  /\ effects \in [Jobs -> Nat]

NoRow ==
  [state |-> "absent", wait |-> 0, attempt |-> 0, epoch |-> 0,
   worker |-> NoWorker, lease |-> 0, deadline |-> 0, generation |-> 0]

Init ==
  /\ job = [j \in Jobs |-> NoRow]
  /\ partition = [p \in Partitions |->
       [state |-> "released", job |-> NoJob, worker |-> NoWorker, highest |-> 0,
        current |-> 0, lease |-> 0]]
  /\ attempts = [j \in Jobs |-> <<>>]
  /\ quarantined = [j \in Jobs |-> [conflict |-> 0, given_up |-> 0]]
  /\ claiming = [w \in Workers |-> NoJob]
  /\ handles = {}
  /\ capabilities = {}
  /\ effects = [j \in Jobs |-> 0]

-----------------------------------------------------------------------------
Elapse(ticks) == IF ticks > 0 THEN ticks - 1 ELSE 0

Least(m, n) == IF m < n THEN m ELSE n

(* clock_timestamp() moves on. *)
Tick ==
  /\ \/ \E j \in Jobs : job[j].wait > 0 \/ job[j].lease > 0 \/ job[j].deadline > 0
     \/ \E p \in Partitions : partition[p].lease > 0
  /\ job' = [j \in Jobs |->
       [job[j] EXCEPT !.wait = Elapse(@), !.lease = Elapse(@), !.deadline = Elapse(@)]]
  /\ partition' = [p \in Partitions |-> [partition[p] EXCEPT !.lease = Elapse(@)]]
  /\ UNCHANGED <<attempts, quarantined, claiming, handles, capabilities,
                 effects>>

-----------------------------------------------------------------------------
(* Of the reasons only this is told apart: whether another request came      *)
(* under the key, or the job itself was given up.                            *)
InsertQuarantine(j, reason) ==
  quarantined' = [quarantined EXCEPT ![j][reason] = @ + 1]

(* The first request under a key is stored. *)
Enqueue(j) ==
  /\ job[j].state = "absent"
  /\ job' = [job EXCEPT ![j] = [NoRow EXCEPT !.state = "available"]]
  /\ UNCHANGED <<partition, attempts, quarantined, claiming, handles, capabilities,
                 effects>>

(* A later one with the same digest is a duplicate and changes nothing; one   *)
(* with another digest is recorded as a conflict, behind the row lock of a    *)
(* claim under way.                                                           *)
EnqueueConflict(j) ==
  /\ job[j].state # "absent"
  /\ j \notin {claiming[w] : w \in Workers}
  /\ quarantined[j].conflict < MaxConflicts
  /\ InsertQuarantine(j, "conflict")
  /\ UNCHANGED <<job, partition, attempts, claiming, handles, capabilities, effects>>

Active(p) == partition[p].state \in {"held", "renewed"} /\ partition[p].lease > 0

Due(j) ==
  /\ \/ job[j].state \in {"available", "retry_wait"} /\ job[j].wait = 0
     \/ job[j].state = "leased" /\ job[j].lease = 0
  /\ ~Active(PartitionOf[j])

(* Due jobs whose rows no other claim has locked, expired leases first. *)
Candidates ==
  LET free == {j \in Jobs : Due(j) /\ j \notin {claiming[w] : w \in Workers}}
      expired == {j \in free : job[j].state = "leased"}
  IN  IF expired # {} THEN expired ELSE free

(* First lock of a claim: the job row, skipping the rows others have locked. *)
SelectCandidate(w, j) ==
  /\ claiming[w] = NoJob
  /\ j \in Candidates
  /\ claiming' = [claiming EXCEPT ![w] = j]
  /\ UNCHANGED <<job, partition, attempts, quarantined, handles,
                 capabilities, effects>>

PartitionFreeIfIdle(p, j) == ~Active(p)                           \* mutant

PartitionFree(p, j) == ~Active(p) /\ partition[p].job \in {NoJob, j}

ExpireRunningNever(j) == attempts[j]                              \* mutant

(* A claim that takes over an expired lease closes the attempt that held it. *)
ExpireRunning(j) ==
  [n \in DOMAIN attempts[j] |->
     IF job[j].state = "leased" /\ attempts[j][n].outcome = "running"
     THEN [attempts[j][n] EXCEPT !.outcome = "lease_expired"] ELSE attempts[j][n]]

AttemptStorable(number) == number <= AttemptLimit

NextLeaseEpoch(p, j) == partition[p].highest + 1

(* Second lock of a claim: the partition row, checked again before the lease *)
(* is written to the job, the partition and a new attempt.  The column bound *)
(* aborts the transaction of a claim past the last attempt number.           *)
Claim(w) ==
  LET j == claiming[w]
      p == PartitionOf[j]
      epoch == NextLeaseEpoch(p, j)
      number == job[j].attempt + 1
  IN  /\ j # NoJob
      /\ PartitionFree(p, j)
      /\ AttemptStorable(number)
      /\ job' = [job EXCEPT ![j] =
           [@ EXCEPT !.state = "leased", !.attempt = number, !.epoch = epoch,
                     !.worker = w, !.lease = LeaseTicks, !.deadline = AttemptTicks]]
      /\ partition' = [partition EXCEPT ![p] =
           [state |-> "held", job |-> j, worker |-> w, highest |-> epoch,
            current |-> epoch, lease |-> LeaseTicks]]
      /\ attempts' = [attempts EXCEPT ![j] =
           Append(ExpireRunning(j), [epoch |-> epoch, outcome |-> "running"])]
      /\ handles' = handles \cup
           {[job |-> j, worker |-> w, epoch |-> epoch, attempt |-> number]}
      /\ claiming' = [claiming EXCEPT ![w] = NoJob]
      /\ UNCHANGED <<quarantined, capabilities, effects>>

(* The partition was taken in between, or the attempt number is used up. *)
ClaimFails(w) ==
  LET j == claiming[w] IN
  /\ j # NoJob
  /\ ~PartitionFree(PartitionOf[j], j) \/ ~AttemptStorable(job[j].attempt + 1)
  /\ claiming' = [claiming EXCEPT ![w] = NoJob]
  /\ UNCHANGED <<job, partition, attempts, quarantined, handles,
                 capabilities, effects>>

-----------------------------------------------------------------------------
(* lockFenced: the handle names the lease in force, and neither it nor the   *)
(* attempt has run out.                                                      *)
Fenced(h) ==
  LET j == h.job
      p == PartitionOf[j]
  IN  /\ job[j].state = "leased" /\ job[j].worker = h.worker
      /\ job[j].epoch = h.epoch /\ job[j].attempt = h.attempt
      /\ job[j].lease > 0 /\ job[j].deadline > 0
      /\ partition[p].job = j /\ partition[p].worker = h.worker
      /\ partition[p].current = h.epoch
      /\ Active(p)

ConsumeHandle(h) == handles' = handles \ {h}

(* A lease is extended by its length, never past the deadline of the attempt. *)
Renew(h) ==
  LET j == h.job
      left == Least(LeaseTicks, job[j].deadline)
  IN  /\ Fenced(h)
      /\ job' = [job EXCEPT ![j].lease = left]
      /\ partition' = [partition EXCEPT ![PartitionOf[j]] =
           [@ EXCEPT !.state = "renewed", !.lease = left]]
      /\ UNCHANGED <<attempts, quarantined, claiming, handles,
                     capabilities, effects>>

ReleaseNothing(h) == partition                                    \* mutant

ReleasePartition(h) ==
  LET p == PartitionOf[h.job] IN
  IF partition[p].worker = h.worker /\ partition[p].current = h.epoch
  THEN [partition EXCEPT ![p] =
          [@ EXCEPT !.state = "released", !.job = NoJob, !.worker = NoWorker,
                    !.current = 0, !.lease = 0]]
  ELSE partition

CloseAttempt(h, outcome) ==
  [attempts EXCEPT ![h.job][h.attempt].outcome = outcome]

(* The job leaves its lease for another state. *)
LeaveLease(j, state, wait) ==
  [job EXCEPT ![j] = [@ EXCEPT !.state = state, !.wait = wait, !.worker = NoWorker,
                               !.lease = 0, !.deadline = 0]]

CompleteFenced(h) ==
  /\ attempts' = CloseAttempt(h, "succeeded")
  /\ job' = LeaveLease(h.job, "completed", 0)
  /\ partition' = ReleasePartition(h)

QuarantineFenced(h) ==
  /\ attempts' = CloseAttempt(h, "quarantined")
  /\ job' = LeaveLease(h.job, "quarantined", 0)
  /\ InsertQuarantine(h.job, "given_up")
  /\ partition' = ReleasePartition(h)

(* executeDatabaseJob: the kind is still registered and the authorization    *)
(* still stands, or the job is quarantined; the handler's writes commit with *)
(* the completion.                                                           *)
Execute(h) ==
  /\ Fenced(h)
  /\ ConsumeHandle(h)
  /\ \/ /\ CompleteFenced(h)
        /\ effects' = [effects EXCEPT ![h.job] = @ + 1]
        /\ UNCHANGED quarantined
     \/ /\ QuarantineFenced(h)
        /\ UNCHANGED effects
  /\ UNCHANGED <<claiming, capabilities>>

(* The wait doubles with every attempt. *)
Backoff(attempt) == BackoffTicks * 2^(attempt - 1)

RetryAllowed(attempt) == attempt < MaxAttempts

Retry(h) ==
  LET j == h.job IN
  /\ Fenced(h)
  /\ ConsumeHandle(h)
  /\ \/ /\ RetryAllowed(job[j].attempt)
        /\ attempts' = CloseAttempt(h, "retry_scheduled")
        /\ job' = LeaveLease(j, "retry_wait", Backoff(job[j].attempt))
        /\ partition' = ReleasePartition(h)
        /\ UNCHANGED quarantined
     \/ /\ ~RetryAllowed(job[j].attempt)
        /\ QuarantineFenced(h)
     \/ QuarantineFenced(h)                    \* not retryable, or refused
  /\ UNCHANGED <<claiming, capabilities, effects>>

Quarantine(h) ==
  /\ Fenced(h)
  /\ ConsumeHandle(h)
  /\ QuarantineFenced(h)
  /\ UNCHANGED <<claiming, capabilities, effects>>

(* A call consumes its handle first: it answers stale when the lease is gone, *)
(* and when its transaction rolls back the lease stays until it expires.      *)
SpendHandle(h) ==
  /\ ConsumeHandle(h)
  /\ UNCHANGED <<job, partition, attempts, quarantined, claiming, capabilities, effects>>

-----------------------------------------------------------------------------
(* The administrator's authorization of one replay is verified; the caller   *)
(* names a quarantine event and the generation it believes the job is in.    *)
VerifyReplayAuthorization(admin, j) ==
  /\ quarantined[j].conflict + quarantined[j].given_up > 0
  /\ capabilities' = capabilities \cup
       {[job |-> j, admin |-> admin, generation |-> job[j].generation]}
  /\ UNCHANGED <<job, partition, attempts, quarantined, claiming, handles, effects>>

ReplayableInAnyState(c) == job[c.job].generation = c.generation   \* mutant

Replayable(c) ==
  job[c.job].state = "quarantined" /\ job[c.job].generation = c.generation

Replayed(row) ==
  [row EXCEPT !.state = "available", !.wait = 0, !.generation = row.generation + 1]

(* The job starts over with the attempts it has used, unless it moved on      *)
(* since the capability was issued or its own authorization was withdrawn.    *)
Replay(c) ==
  /\ capabilities' = capabilities \ {c}
  /\ \/ /\ Replayable(c)
        /\ job[c.job].generation < MaxReplays
        /\ job' = [job EXCEPT ![c.job] = Replayed(job[c.job])]
     \/ UNCHANGED job
  /\ UNCHANGED <<partition, attempts, quarantined, claiming, handles, effects>>

-----------------------------------------------------------------------------
WorkerNext ==
  \/ \E w \in Workers : (\E j \in Jobs : SelectCandidate(w, j)) \/ Claim(w) \/ ClaimFails(w)
  \/ \E h \in handles : Renew(h) \/ Execute(h) \/ Retry(h) \/ Quarantine(h)
                        \/ SpendHandle(h)

Next ==
  \/ Tick
  \/ \E j \in Jobs : Enqueue(j) \/ EnqueueConflict(j)
  \/ WorkerNext
  \/ \E admin \in Admins, j \in Jobs : VerifyReplayAuthorization(admin, j)
  \/ \E c \in capabilities : Replay(c)

Spec == Init /\ [][Next]_vars

-----------------------------------------------------------------------------
Leased(j) == job[j].state = "leased"

(* A leased job and its partition name each other with the same worker, epoch *)
(* and time left, so that two jobs of a partition are never leased together;  *)
(* the epoch is the highest the partition has given out.                      *)
LeasesAgree ==
  /\ \A j \in Jobs : Leased(j) =>
       LET p == partition[PartitionOf[j]] IN
       /\ p.job = j /\ p.worker = job[j].worker
       /\ p.current = job[j].epoch /\ p.current = p.highest
       /\ p.lease = job[j].lease
  /\ \A p \in Partitions : partition[p].job # NoJob =>
       Leased(partition[p].job) /\ PartitionOf[partition[p].job] = p

(* A job has one attempt per number, in the order of strictly growing lease   *)
(* epochs, and only the last one is running, exactly while the job is leased. *)
AttemptsLedger ==
  \A j \in Jobs :
    /\ Len(attempts[j]) = job[j].attempt
    /\ \A n \in DOMAIN attempts[j] :
         attempts[j][n].outcome = "running" <=> (Leased(j) /\ n = job[j].attempt)
    /\ \A n \in 2 .. Len(attempts[j]) : attempts[j][n - 1].epoch < attempts[j][n].epoch
    /\ Leased(j) => attempts[j][job[j].attempt].epoch = job[j].epoch

(* Whatever is retried, lost or replayed, the handler's transaction of a job  *)
(* commits once, in its only successful attempt.                              *)
EffectsOnce ==
  \A j \in Jobs :
    /\ effects[j] = Cardinality({n \in DOMAIN attempts[j] : attempts[j][n].outcome = "succeeded"})
    /\ effects[j] = IF job[j].state = "completed" THEN 1 ELSE 0

(* Each replay answers one quarantining of its job: replays never outnumber   *)
(* them, and a job is quarantined exactly while one has not been replayed.    *)
ReplaysAccounted ==
  \A j \in Jobs :
    quarantined[j].given_up =
      job[j].generation + (IF job[j].state = "quarantined" THEN 1 ELSE 0)

-----------------------------------------------------------------------------
(* What a caller of the runtime sees of a job. *)
Seen(state) ==
  CASE state = "absent" -> "absent"
    [] state \in {"available", "retry_wait"} -> "waiting"
    [] state = "leased" -> "working"
    [] state = "completed" -> "done"
    [] state = "quarantined" -> "parked"

Status == [j \in Jobs |-> Seen(job[j].state)]

Queue == INSTANCE JobQueue WITH status <- Status

(* The runtime implements a queue that works on one job of a partition at a   *)
(* time, runs every job's effects at most once and never reopens a done job.  *)
ImplementsJobQueue == Queue!Spec
=============================================================================
