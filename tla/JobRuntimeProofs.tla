-------------------------- MODULE JobRuntimeProofs --------------------------
(***************************************************************************)
(* Proofs about JobRuntime for any set of jobs, partitions and workers and *)
(* any policy: leases, attempts, effects and replays stay consistent, and  *)
(* the runtime implements JobQueue.                                        *)
(***************************************************************************)
EXTENDS JobRuntime, FiniteSetTheorems, SequenceTheorems, TLAPS

\* A job that is leased or was completed has had an attempt.
AttemptMade ==
  \A j \in Jobs : job[j].state \in {"leased", "completed"} => job[j].attempt >= 1

\* A partition's counter covers every epoch its jobs were leased under, so
\* that the next epoch is new.
EpochsIssued ==
  \A j \in Jobs : \A n \in DOMAIN attempts[j] :
    attempts[j][n].epoch <= partition[PartitionOf[j]].highest

\* The row a claim has locked cannot be moved on by anybody else: it waits,
\* or its lease has run out and no handle passes the fence any more.
ClaimLocks ==
  \A w \in Workers : claiming[w] # NoJob =>
    /\ \/ job[claiming[w]].state \in {"available", "retry_wait"}
       \/ job[claiming[w]].state = "leased" /\ job[claiming[w]].lease = 0
    /\ \A v \in Workers : claiming[v] = claiming[w] => v = w

\* The attempt that succeeded is the last of a completed job.
SucceededLast ==
  \A j \in Jobs : \A n \in DOMAIN attempts[j] :
    attempts[j][n].outcome = "succeeded"
      <=> (job[j].state = "completed" /\ n = job[j].attempt)

\* A key nothing was stored under has no attempts and no replays.
AbsentBlank ==
  \A j \in Jobs : job[j].state = "absent" => job[j].attempt = 0 /\ job[j].generation = 0

EffectsCommitted ==
  \A j \in Jobs : effects[j] = IF job[j].state = "completed" THEN 1 ELSE 0

RowsAgree ==
  /\ LeasesAgree /\ AttemptsLedger /\ AttemptMade /\ EpochsIssued
  /\ ClaimLocks /\ SucceededLast /\ AbsentBlank

JobInvariant ==
  TypeOK /\ RowsAgree /\ EffectsCommitted /\ ReplaysAccounted

-----------------------------------------------------------------------------
\* A job in any other state than quarantined adds nothing to its replays.
LEMMA NotQuarantined ==
  ASSUME NEW g \in Nat, NEW state, state # "quarantined"
  PROVE  g + (IF state = "quarantined" THEN 1 ELSE 0) = g
OBVIOUS

\* No wait is a wait.
LEMMA ZeroWaits == 0 \in Int
OBVIOUS

\* A job of a partition is a job, and a lock is on one.
LEMMA Shapes ==
  ASSUME TypeOK
  PROVE  /\ \A j \in Jobs : PartitionOf[j] \in Partitions
         /\ \A j \in Jobs : job[j] \in Job
         /\ \A p \in Partitions : partition[p] \in Partition
         /\ \A j \in Jobs : attempts[j] \in Seq(Attempt)
         /\ \A w \in Workers : claiming[w] # NoJob => claiming[w] \in Jobs
BY Zenon, JobConstants DEF TypeOK

\* Closing an attempt changes the outcome of that attempt and nothing else.
LEMMA Closed ==
  ASSUME TypeOK, RowsAgree, NEW h \in Handle, Fenced(h), NEW outcome \in Outcomes
  PROVE  LET j == h.job
             closed == CloseAttempt(h, outcome)
         IN  /\ j \in Jobs /\ h.attempt \in DOMAIN attempts[j]
             /\ closed \in [Jobs -> Seq(Attempt)]
             /\ Len(closed[j]) = Len(attempts[j])
             /\ DOMAIN closed[j] = DOMAIN attempts[j]
             /\ closed[j][h.attempt].outcome = outcome
             /\ \A n \in DOMAIN attempts[j] :
                  /\ closed[j][n].epoch = attempts[j][n].epoch
                  /\ n # h.attempt => closed[j][n] = attempts[j][n]
             /\ \A k \in Jobs \ {j} : closed[k] = attempts[k]
<1> DEFINE j == h.job
           closed == CloseAttempt(h, outcome)
           row == [attempts[j][h.attempt] EXCEPT !.outcome = outcome]
<1>1. j \in Jobs /\ h.attempt = job[j].attempt /\ Leased(j)
  BY DEF Handle, Fenced, Leased
<1>2. attempts[j] \in Seq(Attempt) /\ job[j] \in Job
  BY <1>1, Shapes
<1>3. h.attempt \in 1 .. Len(attempts[j])
  BY <1>1, <1>2 DEF RowsAgree, AttemptMade, AttemptsLedger, Leased, Job
<1>4. attempts[j][h.attempt] \in Attempt
  BY <1>2, <1>3
<1>5. row \in Attempt /\ row.outcome = outcome
      /\ row.epoch = attempts[j][h.attempt].epoch
  BY <1>4 DEF Attempt
<1>6. closed = [attempts EXCEPT ![j] = [attempts[j] EXCEPT ![h.attempt] = row]]
  BY <1>1, <1>2, <1>3 DEF CloseAttempt, TypeOK
<1>7. attempts \in [Jobs -> Seq(Attempt)]
  BY DEF TypeOK
<1> HIDE DEF row, closed
<1>8. [attempts[j] EXCEPT ![h.attempt] = row] \in Seq(Attempt)
      /\ Len([attempts[j] EXCEPT ![h.attempt] = row]) = Len(attempts[j])
  BY <1>2, <1>3, <1>5, ExceptSeq
<1>9. closed[j] = [attempts[j] EXCEPT ![h.attempt] = row]
      /\ \A k \in Jobs \ {j} : closed[k] = attempts[k]
  BY <1>1, <1>6, <1>7
<1>10. closed \in [Jobs -> Seq(Attempt)]
  BY <1>1, <1>6, <1>7, <1>8
<1>11. DOMAIN attempts[j] = 1 .. Len(attempts[j])
       /\ DOMAIN closed[j] = DOMAIN attempts[j]
  BY <1>2, <1>9
<1>12. closed[j][h.attempt] = row
       /\ \A n \in DOMAIN attempts[j] : n # h.attempt => closed[j][n] = attempts[j][n]
  BY Zenon, <1>3, <1>9, <1>11
<1> QED
  BY <1>1, <1>3, <1>5, <1>8, <1>9, <1>10, <1>11, <1>12 DEF closed

\* A fenced call that ends a lease leaves the rows of the job, its partition
\* and its attempts in agreement.
LEMMA LeaveStep ==
  ASSUME TypeOK, RowsAgree, NEW h \in Handle, Fenced(h), NEW wait \in Int,
         NEW outcome \in {"succeeded", "retry_scheduled", "quarantined"},
         NEW state \in {"completed", "retry_wait", "quarantined"},
         outcome = "succeeded" <=> state = "completed",
         attempts' = CloseAttempt(h, outcome),
         job' = LeaveLease(h.job, state, wait),
         partition' = ReleasePartition(h),
         claiming' = claiming
  PROVE  /\ job' \in [Jobs -> Job]
         /\ partition' \in [Partitions -> Partition]
         /\ attempts' \in [Jobs -> Seq(Attempt)]
         /\ job'[h.job].state = state
         /\ job'[h.job].generation = job[h.job].generation
         /\ \A k \in Jobs \ {h.job} : job'[k] = job[k]
         /\ RowsAgree'
<1> DEFINE j == h.job
           p == PartitionOf[j]
<1>1. j \in Jobs /\ p \in Partitions /\ job[j] \in Job /\ partition[p] \in Partition
  BY Shapes DEF Handle
<1>2. /\ job[j].state = "leased" /\ job[j].attempt = h.attempt /\ job[j].lease > 0
      /\ partition[p].job = j /\ partition[p].worker = h.worker
      /\ partition[p].current = h.epoch
  BY DEF Fenced
<1>3. outcome \in Outcomes
  BY DEF Outcomes
<1>a. /\ h.attempt \in DOMAIN attempts[j]
      /\ attempts' \in [Jobs -> Seq(Attempt)]
      /\ Len(attempts'[j]) = Len(attempts[j])
      /\ DOMAIN attempts'[j] = DOMAIN attempts[j]
      /\ attempts'[j][h.attempt].outcome = outcome
      /\ \A n \in DOMAIN attempts[j] :
            /\ attempts'[j][n].epoch = attempts[j][n].epoch
            /\ n # h.attempt => attempts'[j][n] = attempts[j][n]
      /\ \A k \in Jobs \ {j} : attempts'[k] = attempts[k]
  BY <1>3, Closed
<1>j. /\ job' \in [Jobs -> Job]
      /\ job'[j].state = state /\ job'[j].attempt = job[j].attempt
      /\ job'[j].generation = job[j].generation
      /\ \A k \in Jobs \ {j} : job'[k] = job[k]
  <2>1. job \in [Jobs -> Job]
    BY DEF TypeOK
  <2>2. job' = [job EXCEPT ![j] = [job[j] EXCEPT !.state = state, !.wait = wait,
                  !.worker = NoWorker, !.lease = 0, !.deadline = 0]]
    BY <1>1, <2>1 DEF LeaveLease
  <2>3. /\ [job[j] EXCEPT !.state = state, !.wait = wait, !.worker = NoWorker,
                          !.lease = 0, !.deadline = 0] \in Job
        /\ [job[j] EXCEPT !.state = state, !.wait = wait, !.worker = NoWorker,
                          !.lease = 0, !.deadline = 0].state = state
        /\ [job[j] EXCEPT !.state = state, !.wait = wait, !.worker = NoWorker,
                          !.lease = 0, !.deadline = 0].attempt = job[j].attempt
        /\ [job[j] EXCEPT !.state = state, !.wait = wait, !.worker = NoWorker,
                          !.lease = 0, !.deadline = 0].generation = job[j].generation
    BY Zenon, <1>1 DEF Job
  <2> QED
    BY <1>1, <2>1, <2>2, <2>3
<1>p. /\ partition' \in [Partitions -> Partition]
      /\ partition'[p].job = NoJob /\ partition'[p].highest = partition[p].highest
      /\ \A q \in Partitions \ {p} : partition'[q] = partition[q]
  <2> DEFINE freed == [partition[p] EXCEPT !.state = "released", !.job = NoJob,
                         !.worker = NoWorker, !.current = 0, !.lease = 0]
  <2>1. partition \in [Partitions -> Partition]
    BY DEF TypeOK
  <2>2. partition' = [partition EXCEPT ![p] = freed]
    BY <1>1, <1>2, <2>1 DEF ReleasePartition
  <2>3. freed \in Partition /\ freed.job = NoJob /\ freed.highest = partition[p].highest
    BY Zenon, <1>1 DEF Partition
  <2> QED
    BY <1>1, <2>1, <2>2, <2>3
<1>k. \A k \in Jobs \ {j} : PartitionOf[k] = p => ~Leased(k)
  BY <1>1, <1>2 DEF RowsAgree, LeasesAgree, Leased
<1>c. \A w \in Workers : claiming[w] # j
  BY <1>1, <1>2, JobConstants DEF RowsAgree, ClaimLocks
<1>w. \A w \in Workers : claiming[w] # NoJob => claiming[w] \in Jobs \ {j}
  BY <1>c, Shapes
<1>s. \A k \in Jobs : PartitionOf[k] \in Partitions
  BY Shapes
<1>4. LeasesAgree'
  <2>1. ASSUME NEW k \in Jobs, Leased(k)'
        PROVE  LET q == partition'[PartitionOf[k]] IN
               /\ q.job = k /\ q.worker = job'[k].worker
               /\ q.current = job'[k].epoch /\ q.current = q.highest
               /\ q.lease = job'[k].lease
    <3>1. k # j /\ job'[k] = job[k] /\ Leased(k)
      BY <1>j, <2>1 DEF Leased
    <3>2. PartitionOf[k] # p /\ partition'[PartitionOf[k]] = partition[PartitionOf[k]]
      BY <1>k, <1>p, <1>s, <3>1
    <3> QED
      BY <3>1, <3>2 DEF RowsAgree, LeasesAgree
  <2>2. ASSUME NEW q \in Partitions, partition'[q].job # NoJob
        PROVE  job'[partition'[q].job].state = "leased" /\ PartitionOf[partition'[q].job] = q
    <3>1. q # p /\ partition'[q] = partition[q]
      BY <1>p, <2>2
    <3>2. /\ partition[q].job # j /\ PartitionOf[partition[q].job] = q
          /\ Leased(partition[q].job)
      BY <2>2, <3>1 DEF RowsAgree, LeasesAgree
    <3>3. partition[q].job \in Jobs
      BY Zenon, <2>2, <3>1, Shapes DEF Partition
    <3> QED
      BY <1>j, <3>1, <3>2, <3>3 DEF Leased
  <2> QED
    BY <2>1, <2>2 DEF LeasesAgree, Leased
<1>5. AttemptsLedger'
  <2> SUFFICES ASSUME NEW k \in Jobs
               PROVE  /\ Len(attempts'[k]) = job'[k].attempt
                      /\ \A n \in DOMAIN attempts'[k] :
                           attempts'[k][n].outcome = "running"
                             <=> (Leased(k)' /\ n = job'[k].attempt)
                      /\ \A n \in 2 .. Len(attempts'[k]) :
                           attempts'[k][n - 1].epoch < attempts'[k][n].epoch
                      /\ Leased(k)' => attempts'[k][job'[k].attempt].epoch = job'[k].epoch
    BY DEF AttemptsLedger
  <2>1. CASE k # j
    <3>1. attempts'[k] = attempts[k] /\ job'[k] = job[k]
      BY <1>a, <1>j, <2>1
    <3>2. Leased(k)' <=> Leased(k)
      BY Zenon, <3>1 DEF Leased
    <3> QED
      BY <3>1, <3>2 DEF RowsAgree, AttemptsLedger
  <2>2. CASE k = j
    <3>1. ~Leased(j)'
      BY <1>j DEF Leased
    <3>2. attempts[j] \in Seq(Attempt) /\ DOMAIN attempts[j] = 1 .. Len(attempts[j])
      BY <1>1, Shapes
    <3>3. ASSUME NEW n \in DOMAIN attempts'[j]
          PROVE  attempts'[j][n].outcome # "running"
      <4>1. CASE n = h.attempt
        BY Zenon, <1>a, <4>1
      <4>2. CASE n # h.attempt
        <5>1. attempts[j][n].outcome # "running"
          BY Zenon, <1>1, <1>2, <1>a, <4>2 DEF RowsAgree, AttemptsLedger
        <5> QED
          BY Zenon, <1>a, <4>2, <5>1
      <4> QED
        BY Zenon, <4>1, <4>2
    <3>4. ASSUME NEW n \in 2 .. Len(attempts'[j])
          PROVE  attempts'[j][n - 1].epoch < attempts'[j][n].epoch
      <4>1. n \in 2 .. Len(attempts[j])
        BY <1>a
      <4>2. n \in DOMAIN attempts[j] /\ n - 1 \in DOMAIN attempts[j]
        BY <3>2, <4>1
      <4>3. attempts[j][n - 1].epoch < attempts[j][n].epoch
        BY Zenon, <1>1, <4>1 DEF RowsAgree, AttemptsLedger
      <4> QED
        BY <1>a, <4>2, <4>3
    <3> QED
      BY <1>1, <1>a, <1>j, <2>2, <3>1, <3>3, <3>4 DEF RowsAgree, AttemptsLedger
  <2> QED
    BY Zenon, <2>1, <2>2
<1>6. AttemptMade'
  BY Zenon, <1>1, <1>2, <1>j DEF RowsAgree, AttemptMade
<1>7. EpochsIssued'
  <2> SUFFICES ASSUME NEW k \in Jobs, NEW n \in DOMAIN attempts'[k]
               PROVE  attempts'[k][n].epoch <= partition'[PartitionOf[k]].highest
    BY DEF EpochsIssued
  <2>1. partition'[PartitionOf[k]].highest = partition[PartitionOf[k]].highest
    BY <1>p, <1>s
  <2>2. n \in DOMAIN attempts[k] /\ attempts'[k][n].epoch = attempts[k][n].epoch
    <3>1. CASE k = j
      BY <1>a, <3>1
    <3>2. CASE k # j
      <4>1. attempts'[k] = attempts[k]
        BY Zenon, <1>a, <3>2
      <4> QED
        BY <4>1
    <3> QED
      BY Zenon, <3>1, <3>2
  <2> QED
    BY <2>1, <2>2 DEF RowsAgree, EpochsIssued
<1>8. ClaimLocks'
  BY <1>w, <1>j DEF RowsAgree, ClaimLocks
<1>9. SucceededLast'
  <2> SUFFICES ASSUME NEW k \in Jobs, NEW n \in DOMAIN attempts'[k]
               PROVE  attempts'[k][n].outcome = "succeeded"
                        <=> (job'[k].state = "completed" /\ n = job'[k].attempt)
    BY DEF SucceededLast
  <2>1. CASE k # j
    <3>1. attempts'[k] = attempts[k] /\ job'[k] = job[k]
      BY Zenon, <1>a, <1>j, <2>1
    <3> QED
      BY Zenon, <3>1 DEF RowsAgree, SucceededLast
  <2>2. CASE k = j
    <3>1. n \in DOMAIN attempts[j]
      BY Zenon, <1>a, <2>2
    <3>2. CASE n = h.attempt
      BY Zenon, <1>2, <1>a, <1>j, <2>2, <3>2
    <3>3. CASE n # h.attempt
      <4>1. attempts[j][n].outcome # "succeeded"
        BY Zenon, <1>1, <1>2, <3>1 DEF RowsAgree, SucceededLast
      <4> QED
        BY Zenon, <1>2, <1>a, <1>j, <2>2, <3>1, <3>3, <4>1
    <3> QED
      BY <3>2, <3>3
  <2> QED
    BY Zenon, <2>1, <2>2
<1>10. AbsentBlank'
  BY <1>j DEF RowsAgree, AbsentBlank
<1> QED
  BY Zenon, <1>a, <1>j, <1>p, <1>4, <1>5, <1>6, <1>7, <1>8, <1>9, <1>10 DEF RowsAgree

\* Closing the attempts that ran under an expired lease changes outcomes only.
LEMMA Expired ==
  ASSUME TypeOK, NEW j \in Jobs
  PROVE  /\ ExpireRunning(j) \in Seq(Attempt)
         /\ Len(ExpireRunning(j)) = Len(attempts[j])
         /\ DOMAIN ExpireRunning(j) = DOMAIN attempts[j]
         /\ \A n \in DOMAIN attempts[j] :
              /\ ExpireRunning(j)[n].epoch = attempts[j][n].epoch
              /\ ExpireRunning(j)[n].outcome =
                   IF job[j].state = "leased" /\ attempts[j][n].outcome = "running"
                   THEN "lease_expired" ELSE attempts[j][n].outcome
<1>1. attempts[j] \in Seq(Attempt) /\ DOMAIN attempts[j] = 1 .. Len(attempts[j])
      /\ Len(attempts[j]) \in Nat
  BY Shapes
<1>2. ASSUME NEW n \in DOMAIN attempts[j]
      PROVE  /\ attempts[j][n] \in Attempt
             /\ [attempts[j][n] EXCEPT !.outcome = "lease_expired"] \in Attempt
             /\ [attempts[j][n] EXCEPT !.outcome = "lease_expired"].epoch = attempts[j][n].epoch
             /\ [attempts[j][n] EXCEPT !.outcome = "lease_expired"].outcome = "lease_expired"
  <2>1. attempts[j][n] \in Attempt
    BY <1>1
  <2> QED
    BY <2>1 DEF Attempt, Outcomes
<1>3. ExpireRunning(j) \in [1 .. Len(attempts[j]) -> Attempt]
  BY <1>1, <1>2 DEF ExpireRunning
<1>4. ExpireRunning(j) \in Seq(Attempt) /\ Len(ExpireRunning(j)) = Len(attempts[j])
  BY <1>1, <1>3
<1>5. ASSUME NEW n \in DOMAIN attempts[j]
      PROVE  /\ ExpireRunning(j)[n].epoch = attempts[j][n].epoch
             /\ ExpireRunning(j)[n].outcome =
                  IF job[j].state = "leased" /\ attempts[j][n].outcome = "running"
                  THEN "lease_expired" ELSE attempts[j][n].outcome
  BY <1>2 DEF ExpireRunning
<1> QED
  BY <1>1, <1>3, <1>4, <1>5

\* A claim writes the lease to the job, its partition and a new attempt, all
\* under an epoch the partition has not used.
LEMMA ClaimStep ==
  ASSUME TypeOK, RowsAgree, NEW w \in Workers, Claim(w)
  PROVE  TypeOK' /\ RowsAgree'
<1> DEFINE j == claiming[w]
           p == PartitionOf[j]
           epoch == partition[p].highest + 1
           number == job[j].attempt + 1
           leased == [job[j] EXCEPT !.state = "leased", !.attempt = number,
                        !.epoch = epoch, !.worker = w, !.lease = LeaseTicks,
                        !.deadline = AttemptTicks]
           held == [state |-> "held", job |-> j, worker |-> w, highest |-> epoch,
                    current |-> epoch, lease |-> LeaseTicks]
           new == [epoch |-> epoch, outcome |-> "running"]
<1>1. /\ j \in Jobs /\ p \in Partitions /\ job[j] \in Job /\ partition[p] \in Partition
      /\ attempts[j] \in Seq(Attempt)
  BY Shapes DEF Claim
<1>2. /\ epoch \in Nat \ {0} /\ number \in 0 .. AttemptLimit /\ number >= 1
      /\ LeaseTicks \in Nat \ {0} /\ AttemptTicks \in Nat /\ AttemptLimit \in Nat
  <2>1. LeaseTicks \in Nat \ {0} /\ AttemptTicks \in Nat /\ AttemptLimit \in Nat
    BY JobConstants
  <2>2. partition[p].highest \in Nat
    BY <1>1 DEF Partition
  <2>3. job[j].attempt \in 0 .. AttemptLimit
    BY <1>1 DEF Job
  <2>4. number <= AttemptLimit
    BY DEF Claim, AttemptStorable
  <2> QED
    BY <2>1, <2>2, <2>3, <2>4
<1>3. /\ job' = [job EXCEPT ![j] = leased]
      /\ partition' = [partition EXCEPT ![p] = held]
      /\ attempts' = [attempts EXCEPT ![j] = Append(ExpireRunning(j), new)]
      /\ handles' = handles \cup {[job |-> j, worker |-> w, epoch |-> epoch,
                                   attempt |-> number]}
      /\ claiming' = [claiming EXCEPT ![w] = NoJob]
      /\ UNCHANGED <<quarantined, capabilities, effects>>
  BY DEF Claim, NextLeaseEpoch
<1>4. ~Active(p) /\ partition[p].job \in {NoJob, j}
  BY DEF Claim, PartitionFree
<1>5. /\ leased \in Job /\ leased.state = "leased" /\ leased.attempt = number
      /\ leased.epoch = epoch /\ leased.worker = w /\ leased.lease = LeaseTicks
  BY ZenonT(40), <1>1, <1>2 DEF Job
<1>6. held \in Partition /\ new \in Attempt
  BY Zenon, <1>1, <1>2 DEF Partition, Attempt, Outcomes
<1> HIDE DEF leased
<1>j. /\ job' \in [Jobs -> Job] /\ job'[j] = leased
      /\ \A k \in Jobs \ {j} : job'[k] = job[k]
  BY Zenon, <1>1, <1>3, <1>5 DEF TypeOK
<1>p. /\ partition' \in [Partitions -> Partition] /\ partition'[p] = held
      /\ \A q \in Partitions \ {p} : partition'[q] = partition[q]
  BY Zenon, <1>1, <1>3, <1>6 DEF TypeOK
<1>a. /\ attempts' \in [Jobs -> Seq(Attempt)]
      /\ attempts'[j] = Append(ExpireRunning(j), new)
      /\ \A k \in Jobs \ {j} : attempts'[k] = attempts[k]
  BY SMTT(30), <1>1, <1>3, <1>6, Expired DEF TypeOK
<1> HIDE DEF held
<1>l. Len(attempts[j]) = job[j].attempt
  BY Zenon, <1>1 DEF RowsAgree, AttemptsLedger
<1>n. /\ Len(attempts'[j]) = number /\ DOMAIN attempts'[j] = 1 .. number
      /\ attempts'[j][number] = new
      /\ \A n \in 1 .. number - 1 :
           /\ n \in DOMAIN attempts[j]
           /\ attempts'[j][n].epoch = attempts[j][n].epoch
           /\ attempts'[j][n].outcome =
                IF job[j].state = "leased" /\ attempts[j][n].outcome = "running"
                THEN "lease_expired" ELSE attempts[j][n].outcome
  <2>1. /\ ExpireRunning(j) \in Seq(Attempt) /\ Len(ExpireRunning(j)) = number - 1
        /\ DOMAIN attempts[j] = 1 .. number - 1
    BY SMTT(30), <1>1, <1>2, <1>l, Expired
  <2> HIDE DEF new
  <2>2. /\ Len(attempts'[j]) = number /\ DOMAIN attempts'[j] = 1 .. number
        /\ attempts'[j][number] = new
        /\ \A n \in 1 .. number - 1 : attempts'[j][n] = ExpireRunning(j)[n]
    BY SMTT(30), <1>2, <1>6, <1>a, <2>1, AppendProperties
  <2> QED
    BY SMTT(30), <1>1, <2>1, <2>2, Expired
<1>c. /\ claiming' \in [Workers -> Jobs \cup {NoJob}] /\ claiming'[w] = NoJob
      /\ \A v \in Workers \ {w} : claiming'[v] = claiming[v] /\ claiming[v] # j
  BY Zenon, <1>1, <1>3, JobConstants DEF TypeOK, RowsAgree, ClaimLocks
<1>k. \A k \in Jobs \ {j} : PartitionOf[k] = p => ~Leased(k)
  BY <1>1, <1>4, JobConstants DEF RowsAgree, LeasesAgree, Leased
<1>s. \A k \in Jobs : PartitionOf[k] \in Partitions
  BY Zenon, Shapes
<1>t. TypeOK'
  <2>1. [job |-> j, worker |-> w, epoch |-> epoch, attempt |-> number] \in Handle
    BY Zenon, <1>1, <1>2 DEF Handle
  <2>2. handles' \subseteq Handle
    BY Zenon, <1>3, <2>1 DEF TypeOK
  <2> QED
    BY Zenon, <1>3, <1>j, <1>p, <1>a, <1>c, <2>2 DEF TypeOK
<1>7. LeasesAgree'
  <2>1. ASSUME NEW k \in Jobs, job'[k].state = "leased"
        PROVE  LET q == partition'[PartitionOf[k]] IN
               /\ q.job = k /\ q.worker = job'[k].worker
               /\ q.current = job'[k].epoch /\ q.current = q.highest
               /\ q.lease = job'[k].lease
    <3>1. CASE k = j
      BY SMTT(30), <1>5, <1>j, <1>p, <3>1 DEF held
    <3>2. CASE k # j
      <4>1. job'[k] = job[k] /\ Leased(k)
        BY Zenon, <1>j, <2>1, <3>2 DEF Leased
      <4>2. partition'[PartitionOf[k]] = partition[PartitionOf[k]]
        BY Zenon, <1>k, <1>p, <1>s, <3>2, <4>1
      <4> QED
        BY <4>1, <4>2 DEF RowsAgree, LeasesAgree
    <3> QED
      BY Zenon, <3>1, <3>2
  <2>2. ASSUME NEW q \in Partitions, partition'[q].job # NoJob
        PROVE  job'[partition'[q].job].state = "leased" /\ PartitionOf[partition'[q].job] = q
    <3>1. CASE q = p
      BY <1>5, <1>j, <1>p, <3>1 DEF held
    <3>2. CASE q # p
      <4>1. partition'[q] = partition[q] /\ partition[q].job \in Jobs
        BY Zenon, <1>p, <2>2, <3>2, Shapes DEF Partition
      <4>2. Leased(partition[q].job) /\ PartitionOf[partition[q].job] = q
        BY Zenon, <2>2, <4>1 DEF RowsAgree, LeasesAgree
      <4> QED
        BY Zenon, <1>j, <3>2, <4>1, <4>2 DEF Leased
    <3> QED
      BY Zenon, <3>1, <3>2
  <2> QED
    BY Zenon, <2>1, <2>2 DEF LeasesAgree, Leased
<1>i. \A n \in 1 .. number - 1 : attempts[j][n].epoch \in Nat /\ attempts[j][n].epoch < epoch
  <2> SUFFICES ASSUME NEW n \in 1 .. number - 1
               PROVE  attempts[j][n].epoch \in Nat /\ attempts[j][n].epoch < epoch
    OBVIOUS
  <2>1. n \in DOMAIN attempts[j]
    BY <1>n
  <2>2. attempts[j][n] \in Attempt
    BY <1>1, <2>1
  <2>3. attempts[j][n].epoch <= partition[p].highest
    BY Zenon, <1>1, <2>1 DEF RowsAgree, EpochsIssued
  <2>4. attempts[j][n].epoch \in Nat
    BY Zenon, <2>2 DEF Attempt
  <2>5. partition[p].highest \in Nat
    BY Zenon, <1>1 DEF Partition
  <2> QED
    BY <2>3, <2>4, <2>5
<1>8. AttemptsLedger'
  <2> SUFFICES ASSUME NEW k \in Jobs
               PROVE  /\ Len(attempts'[k]) = job'[k].attempt
                      /\ \A n \in DOMAIN attempts'[k] :
                           attempts'[k][n].outcome = "running"
                             <=> (job'[k].state = "leased" /\ n = job'[k].attempt)
                      /\ \A n \in 2 .. Len(attempts'[k]) :
                           attempts'[k][n - 1].epoch < attempts'[k][n].epoch
                      /\ job'[k].state = "leased" =>
                           attempts'[k][job'[k].attempt].epoch = job'[k].epoch
    BY DEF AttemptsLedger, Leased
  <2>1. CASE k # j
    <3>1. attempts'[k] = attempts[k] /\ job'[k] = job[k]
      BY Zenon, <1>a, <1>j, <2>1
    <3> QED
      BY <3>1 DEF RowsAgree, AttemptsLedger, Leased
  <2>2. CASE k = j
    <3>1. \A n \in 1 .. number - 1 : attempts'[j][n].outcome # "running"
      BY Zenon, <1>1, <1>n DEF RowsAgree, AttemptsLedger, Leased
    <3>2. attempts'[j][number].outcome = "running" /\ attempts'[j][number].epoch = epoch
      BY <1>n
    <3>3. ASSUME NEW n \in DOMAIN attempts'[j]
          PROVE  attempts'[j][n].outcome = "running" <=> n = number
      BY <1>2, <1>n, <3>1, <3>2
    <3>4. ASSUME NEW n \in 2 .. number
          PROVE  attempts'[j][n - 1].epoch < attempts'[j][n].epoch
      <4>1. CASE n = number
        <5>1. n - 1 \in 1 .. number - 1
          BY SMTT(30), <1>2, <4>1
        <5>2. attempts'[j][n - 1].epoch < epoch
          BY Zenon, <1>i, <1>n, <5>1
        <5> QED
          BY Zenon, <3>2, <4>1, <5>2
      <4>2. CASE n # number
        <5>1. n \in 1 .. number - 1 /\ n - 1 \in 1 .. number - 1 /\ n \in 2 .. Len(attempts[j])
          <6>1. number \in Nat /\ Len(attempts[j]) = number - 1
            BY <1>1, <1>2, <1>l DEF Job
          <6> QED
            BY SMTT(30), <4>2, <6>1
        <5>2. attempts[j][n - 1].epoch < attempts[j][n].epoch
          BY Zenon, <1>1, <5>1 DEF RowsAgree, AttemptsLedger
        <5> QED
          BY Zenon, <1>n, <5>1, <5>2
      <4> QED
        BY Zenon, <4>1, <4>2
    <3>5. /\ job'[j].attempt = number /\ job'[j].state = "leased"
          /\ job'[j].epoch = epoch /\ Len(attempts'[j]) = number
      BY Zenon, <1>5, <1>j, <1>n
    <3> QED
      BY ZenonT(40), <2>2, <3>2, <3>3, <3>4, <3>5
  <2> QED
    BY Zenon, <2>1, <2>2
<1>9. AttemptMade'
  BY <1>2, <1>5, <1>j DEF RowsAgree, AttemptMade
<1>10. EpochsIssued'
  <2> SUFFICES ASSUME NEW k \in Jobs, NEW n \in DOMAIN attempts'[k]
               PROVE  attempts'[k][n].epoch <= partition'[PartitionOf[k]].highest
    BY DEF EpochsIssued
  <2>1. CASE k = j
    <3>h. held.highest = epoch
      BY DEF held
    <3>1. partition'[p].highest = epoch
      BY Zenon, <1>p, <3>h
    <3>2. CASE n = number
      <4>1. attempts'[k][n].epoch = epoch
        <5>1. new.epoch = epoch
          OBVIOUS
        <5> QED
          BY Zenon, <1>n, <2>1, <3>2, <5>1
      <4>2. epoch <= epoch
        BY <1>2
      <4> QED
        BY Zenon, <2>1, <3>1, <4>1, <4>2
    <3>3. CASE n # number
      <4>1. n \in 1 .. number
        BY Zenon, <1>n, <2>1
      <4>2. n \in 1 .. number - 1
        BY <1>2, <3>3, <4>1
      <4>3. attempts'[k][n].epoch = attempts[j][n].epoch
        BY Zenon, <1>n, <2>1, <4>2
      <4>4. attempts[j][n].epoch \in Nat /\ attempts[j][n].epoch < epoch
        BY Zenon, <1>i, <4>2
      <4> HIDE DEF epoch
      <4>5. attempts[j][n].epoch <= epoch
        BY <1>2, <4>4
      <4> QED
        BY Zenon, <2>1, <3>1, <4>3, <4>5
    <3> QED
      BY Zenon, <3>2, <3>3
  <2>2. CASE k # j
    <3>1. attempts'[k] = attempts[k] /\ attempts[k] \in Seq(Attempt)
      BY Zenon, <1>a, <2>2, Shapes
    <3>2. attempts[k][n] \in Attempt
      BY <3>1
    <3>3. attempts[k][n].epoch <= partition[PartitionOf[k]].highest
      BY Zenon, <3>1 DEF RowsAgree, EpochsIssued
    <3>4. CASE PartitionOf[k] = p
      <4>1. partition'[p].highest = epoch
        BY <1>p DEF held
      <4> QED
        <5>1. attempts[k][n].epoch \in Nat
          BY Zenon, <3>2 DEF Attempt
        <5>2. partition[p].highest \in Nat
          BY Zenon, <1>1 DEF Partition
        <5>3. attempts[k][n].epoch <= epoch
          BY <3>3, <3>4, <5>1, <5>2
        <5> QED
          BY Zenon, <3>1, <3>4, <4>1, <5>3
    <3>5. CASE PartitionOf[k] # p
      BY Zenon, <1>p, <1>s, <3>1, <3>3, <3>5
    <3> QED
      BY Zenon, <3>4, <3>5
  <2> QED
    BY <2>1, <2>2
<1>11. ClaimLocks'
  <2> SUFFICES ASSUME NEW v \in Workers, claiming'[v] # NoJob
               PROVE  /\ \/ job'[claiming'[v]].state \in {"available", "retry_wait"}
                         \/ job'[claiming'[v]].state = "leased" /\ job'[claiming'[v]].lease = 0
                      /\ \A u \in Workers : claiming'[u] = claiming'[v] => u = v
    BY DEF ClaimLocks
  <2>1. v # w /\ claiming'[v] = claiming[v] /\ claiming[v] # j
    BY <1>c
  <2>2. claiming[v] \in Jobs /\ job'[claiming[v]] = job[claiming[v]]
    BY <1>j, <2>1, Shapes
  <2>3. \A u \in Workers : claiming'[u] = claiming'[v] => u # w /\ claiming[u] = claiming[v]
    BY Zenon, <1>c, <2>1
  <2> QED
    BY Zenon, <2>1, <2>2, <2>3 DEF RowsAgree, ClaimLocks
<1>12. SucceededLast'
  <2> SUFFICES ASSUME NEW k \in Jobs, NEW n \in DOMAIN attempts'[k]
               PROVE  attempts'[k][n].outcome = "succeeded"
                        <=> (job'[k].state = "completed" /\ n = job'[k].attempt)
    BY DEF SucceededLast
  <2>1. CASE k # j
    <3>1. attempts'[k] = attempts[k] /\ job'[k] = job[k]
      BY Zenon, <1>a, <1>j, <2>1
    <3> QED
      BY <3>1 DEF RowsAgree, SucceededLast
  <2>2. CASE k = j
    <3>1. job[j].state # "completed"
      BY Zenon, <1>1, JobConstants DEF RowsAgree, ClaimLocks
    <3>2. CASE n = number
      <4>1. attempts'[j][number].outcome = "running" /\ job'[j].state = "leased"
        BY SMTT(30), <1>5, <1>j, <1>n
      <4> QED
        BY Zenon, <2>2, <3>2, <4>1
    <3>3. CASE n # number
      <4>1. n \in 1 .. number - 1
        BY <1>2, <1>n, <2>2, <3>3
      <4>2. attempts[j][n].outcome # "succeeded"
        BY Zenon, <1>1, <1>n, <3>1, <4>1 DEF RowsAgree, SucceededLast
      <4> QED
        BY Zenon, <1>5, <1>j, <1>n, <2>2, <4>1, <4>2
    <3> QED
      BY Zenon, <3>2, <3>3
  <2> QED
    BY <2>1, <2>2
<1>13. AbsentBlank'
  BY Zenon, <1>5, <1>j DEF RowsAgree, AbsentBlank
<1> QED
  BY Zenon, <1>t, <1>7, <1>8, <1>9, <1>10, <1>11, <1>12, <1>13 DEF RowsAgree

\* Time and renewals move the deadlines of a job and of its partition
\* together, and no lease that ran out comes back.
LEMMA TimeStep ==
  ASSUME TypeOK, RowsAgree, UNCHANGED <<attempts, claiming>>,
         \A j \in Jobs :
           /\ job'[j].state = job[j].state /\ job'[j].attempt = job[j].attempt
           /\ job'[j].epoch = job[j].epoch /\ job'[j].worker = job[j].worker
           /\ job'[j].generation = job[j].generation
           /\ job[j].lease = 0 => job'[j].lease = 0
           /\ Leased(j) => partition'[PartitionOf[j]].lease = job'[j].lease,
         \A p \in Partitions :
           /\ partition'[p].job = partition[p].job
           /\ partition'[p].worker = partition[p].worker
           /\ partition'[p].current = partition[p].current
           /\ partition'[p].highest = partition[p].highest
  PROVE  RowsAgree'
<1>s. /\ \A j \in Jobs : PartitionOf[j] \in Partitions
      /\ \A p \in Partitions : partition[p].job # NoJob => partition[p].job \in Jobs
      /\ \A w \in Workers : claiming[w] # NoJob => claiming[w] \in Jobs
  BY Zenon, Shapes DEF Partition
<1>u. attempts' = attempts /\ claiming' = claiming
  OBVIOUS
<1>1. LeasesAgree'
  <2>1. ASSUME NEW j \in Jobs, Leased(j)'
        PROVE  LET p == partition'[PartitionOf[j]] IN
               /\ p.job = j /\ p.worker = job'[j].worker
               /\ p.current = job'[j].epoch /\ p.current = p.highest
               /\ p.lease = job'[j].lease
    <3>1. Leased(j) /\ PartitionOf[j] \in Partitions
      BY Zenon, <1>s, <2>1 DEF Leased
    <3>2. LET p == partition[PartitionOf[j]] IN
          /\ p.job = j /\ p.worker = job[j].worker
          /\ p.current = job[j].epoch /\ p.current = p.highest
      BY Zenon, <3>1 DEF RowsAgree, LeasesAgree
    <3> QED
      BY Zenon, <3>1, <3>2
  <2>2. ASSUME NEW p \in Partitions, partition'[p].job # NoJob
        PROVE  Leased(partition[p].job)' /\ PartitionOf[partition'[p].job] = p
    <3>1. partition'[p].job = partition[p].job /\ partition[p].job \in Jobs
      BY Zenon, <1>s, <2>2
    <3>2. Leased(partition[p].job) /\ PartitionOf[partition[p].job] = p
      BY Zenon, <2>2, <3>1 DEF RowsAgree, LeasesAgree
    <3> QED
      BY Zenon, <3>1, <3>2 DEF Leased
  <2> QED
    BY Zenon, <2>1, <2>2 DEF LeasesAgree
<1>2. AttemptsLedger'
  <2> SUFFICES ASSUME NEW k \in Jobs
               PROVE  /\ Len(attempts[k]) = job'[k].attempt
                      /\ \A n \in DOMAIN attempts[k] :
                           attempts[k][n].outcome = "running"
                             <=> (job'[k].state = "leased" /\ n = job'[k].attempt)
                      /\ \A n \in 2 .. Len(attempts[k]) :
                           attempts[k][n - 1].epoch < attempts[k][n].epoch
                      /\ job'[k].state = "leased" =>
                           attempts[k][job'[k].attempt].epoch = job'[k].epoch
    BY <1>u DEF AttemptsLedger, Leased
  <2>1. /\ Len(attempts[k]) = job[k].attempt
        /\ \A n \in DOMAIN attempts[k] :
             attempts[k][n].outcome = "running"
               <=> (job[k].state = "leased" /\ n = job[k].attempt)
        /\ \A n \in 2 .. Len(attempts[k]) :
             attempts[k][n - 1].epoch < attempts[k][n].epoch
        /\ job[k].state = "leased" => attempts[k][job[k].attempt].epoch = job[k].epoch
    BY Zenon DEF RowsAgree, AttemptsLedger, Leased
  <2> QED
    BY Zenon, <2>1
<1>3. AttemptMade' /\ AbsentBlank'
  BY Zenon DEF RowsAgree, AttemptMade, AbsentBlank
<1>4. EpochsIssued'
  BY Zenon, <1>s, <1>u DEF RowsAgree, EpochsIssued
<1>5. ClaimLocks'
  BY <1>s, <1>u DEF RowsAgree, ClaimLocks
<1>6. SucceededLast'
  BY <1>u DEF RowsAgree, SucceededLast
<1> QED
  BY Zenon, <1>1, <1>2, <1>3, <1>4, <1>5, <1>6 DEF RowsAgree

\* A job that was not stored yet, or was quarantined, becomes available with
\* the attempts it has had.
LEMMA AvailableStep ==
  ASSUME TypeOK, RowsAgree, UNCHANGED <<partition, attempts, claiming>>,
         NEW j \in Jobs, job[j].state \in {"absent", "quarantined"},
         NEW row \in Job, row.state = "available", row.attempt = job[j].attempt,
         job' = [job EXCEPT ![j] = row]
  PROVE  job' \in [Jobs -> Job] /\ RowsAgree'
<1>1. job' \in [Jobs -> Job] /\ job'[j] = row /\ \A k \in Jobs \ {j} : job'[k] = job[k]
  BY DEF TypeOK
<1>u. attempts' = attempts /\ claiming' = claiming /\ partition' = partition
  OBVIOUS
<1>s. /\ \A k \in Jobs : PartitionOf[k] \in Partitions
      /\ \A p \in Partitions : partition[p].job # NoJob => partition[p].job \in Jobs
      /\ \A w \in Workers : claiming[w] # NoJob => claiming[w] \in Jobs
  BY Shapes DEF Partition
<1>2. \A k \in Jobs : /\ job'[k].attempt = job[k].attempt
                      /\ job'[k].state = "leased" <=> job[k].state = "leased"
                      /\ job'[k].state = "completed" <=> job[k].state = "completed"
                      /\ job'[k].state = "leased" => job'[k] = job[k]
  BY Zenon, <1>1
<1>3. LeasesAgree'
  <2>1. ASSUME NEW k \in Jobs, Leased(k)'
        PROVE  LET p == partition'[PartitionOf[k]] IN
               /\ p.job = k /\ p.worker = job'[k].worker
               /\ p.current = job'[k].epoch /\ p.current = p.highest
               /\ p.lease = job'[k].lease
    <3>1. Leased(k) /\ job'[k] = job[k]
      BY Zenon, <1>2, <2>1 DEF Leased
    <3>2. LET p == partition[PartitionOf[k]] IN
          /\ p.job = k /\ p.worker = job[k].worker
          /\ p.current = job[k].epoch /\ p.current = p.highest
          /\ p.lease = job[k].lease
      BY Zenon, <3>1 DEF RowsAgree, LeasesAgree
    <3> QED
      BY Zenon, <1>u, <3>1, <3>2
  <2>2. ASSUME NEW p \in Partitions, partition'[p].job # NoJob
        PROVE  Leased(partition[p].job)' /\ PartitionOf[partition'[p].job] = p
    <3>1. partition'[p].job = partition[p].job /\ partition[p].job \in Jobs
      BY Zenon, <1>s, <1>u, <2>2
    <3>2. Leased(partition[p].job) /\ PartitionOf[partition[p].job] = p
      BY Zenon, <2>2, <3>1 DEF RowsAgree, LeasesAgree
    <3> QED
      BY Zenon, <1>2, <3>1, <3>2 DEF Leased
  <2> QED
    BY Zenon, <2>1, <2>2 DEF LeasesAgree
<1>4. AttemptsLedger'
  <2> SUFFICES ASSUME NEW k \in Jobs
               PROVE  /\ Len(attempts[k]) = job'[k].attempt
                      /\ \A n \in DOMAIN attempts[k] :
                           attempts[k][n].outcome = "running"
                             <=> (job'[k].state = "leased" /\ n = job'[k].attempt)
                      /\ \A n \in 2 .. Len(attempts[k]) :
                           attempts[k][n - 1].epoch < attempts[k][n].epoch
                      /\ job'[k].state = "leased" =>
                           attempts[k][job'[k].attempt].epoch = job'[k].epoch
    BY <1>u DEF AttemptsLedger, Leased
  <2>1. /\ Len(attempts[k]) = job[k].attempt
        /\ \A n \in DOMAIN attempts[k] :
             attempts[k][n].outcome = "running"
               <=> (job[k].state = "leased" /\ n = job[k].attempt)
        /\ \A n \in 2 .. Len(attempts[k]) :
             attempts[k][n - 1].epoch < attempts[k][n].epoch
        /\ job[k].state = "leased" => attempts[k][job[k].attempt].epoch = job[k].epoch
    BY Zenon DEF RowsAgree, AttemptsLedger, Leased
  <2>2. /\ job'[k].attempt = job[k].attempt
        /\ job'[k].state = "leased" <=> job[k].state = "leased"
        /\ job'[k].state = "leased" => job'[k].epoch = job[k].epoch
    BY Zenon, <1>2
  <2> QED
    BY Zenon, <2>1, <2>2
<1>5. AttemptMade' /\ AbsentBlank'
  BY Zenon, <1>1, <1>2 DEF RowsAgree, AttemptMade, AbsentBlank
<1>6. EpochsIssued'
  BY Zenon, <1>u DEF RowsAgree, EpochsIssued
<1>7. ClaimLocks'
  <2>1. \A w \in Workers : claiming[w] # j
    BY Zenon, JobConstants DEF RowsAgree, ClaimLocks
  <2> QED
    <3>1. ASSUME NEW w \in Workers, claiming[w] # NoJob
          PROVE  /\ \/ job'[claiming[w]].state \in {"available", "retry_wait"}
                    \/ job'[claiming[w]].state = "leased" /\ job'[claiming[w]].lease = 0
                 /\ \A v \in Workers : claiming[v] = claiming[w] => v = w
      <4>1. job'[claiming[w]] = job[claiming[w]]
        BY Zenon, <1>s, <1>1, <2>1, <3>1
      <4>2. /\ \/ job[claiming[w]].state \in {"available", "retry_wait"}
               \/ job[claiming[w]].state = "leased" /\ job[claiming[w]].lease = 0
            /\ \A v \in Workers : claiming[v] = claiming[w] => v = w
        BY Zenon, <3>1 DEF RowsAgree, ClaimLocks
      <4> QED
        BY Zenon, <4>1, <4>2
    <3> QED
      BY <1>u, <3>1 DEF ClaimLocks
<1>8. SucceededLast'
  BY <1>u, <1>2 DEF RowsAgree, SucceededLast
<1> QED
  BY Zenon, <1>1, <1>3, <1>4, <1>5, <1>6, <1>7, <1>8 DEF RowsAgree

-----------------------------------------------------------------------------
\* Empty tables satisfy the job invariant.
LEMMA InitHolds == Init => JobInvariant
<1> SUFFICES ASSUME Init PROVE JobInvariant
  OBVIOUS
<1>1. NoRow \in Job /\ NoRow.state = "absent" /\ NoRow.attempt = 0 /\ NoRow.generation = 0
  BY JobConstants DEF NoRow, Job
<1>2. \A j \in Jobs : /\ job[j] = NoRow /\ attempts[j] = <<>> /\ effects[j] = 0
                      /\ quarantined[j] = [conflict |-> 0, given_up |-> 0]
  BY DEF Init
<1>3. \A p \in Partitions : partition[p] \in Partition /\ partition[p].job = NoJob
  BY DEF Init, Partition
<1>4. TypeOK
  <2>1. job \in [Jobs -> Job] /\ partition \in [Partitions -> Partition]
    BY Zenon, <1>1, <1>3 DEF Init
  <2>2. attempts \in [Jobs -> Seq(Attempt)]
    BY DEF Init
  <2> QED
    BY Zenon, <2>1, <2>2 DEF TypeOK, Init
<1>5. LeasesAgree /\ AttemptMade /\ AbsentBlank /\ EffectsCommitted
  BY Zenon, <1>1, <1>2, <1>3 DEF LeasesAgree, AttemptMade, AbsentBlank, EffectsCommitted, Leased
<1>6. AttemptsLedger /\ EpochsIssued /\ SucceededLast
  BY <1>1, <1>2 DEF AttemptsLedger, EpochsIssued, SucceededLast, Leased
<1>7. ClaimLocks
  BY Zenon DEF Init, ClaimLocks
<1>8. ReplaysAccounted
  BY SMTT(30), <1>1, <1>2 DEF ReplaysAccounted
<1> QED
  BY Zenon, <1>4, <1>5, <1>6, <1>7, <1>8 DEF JobInvariant, RowsAgree

\* What a fenced call does to its job: complete it, park it or let it wait.
LEMMA FencedStep ==
  ASSUME JobInvariant, NEW h \in handles, Fenced(h),
         handles' = handles \ {h}, UNCHANGED <<claiming, capabilities>>,
         \/ CompleteFenced(h) /\ effects' = [effects EXCEPT ![h.job] = @ + 1]
            /\ UNCHANGED quarantined
         \/ QuarantineFenced(h) /\ UNCHANGED effects
         \/ /\ attempts' = CloseAttempt(h, "retry_scheduled")
            /\ job' = LeaveLease(h.job, "retry_wait", Backoff(job[h.job].attempt))
            /\ partition' = ReleasePartition(h)
            /\ UNCHANGED <<quarantined, effects>>
  PROVE  JobInvariant'
<1> DEFINE j == h.job
<1>1. TypeOK /\ RowsAgree /\ h \in Handle /\ claiming' = claiming
  BY Zenon DEF JobInvariant, TypeOK
<1>2. j \in Jobs /\ job[j] \in Job /\ job[j].state = "leased"
  BY Zenon, <1>1, Shapes DEF Handle, Fenced
<1>3. effects[j] = 0 /\ quarantined[j].given_up = job[j].generation
  <2>1. job[j].generation \in Nat
    BY Zenon, <1>2 DEF Job
  <2>2. effects[j] = 0
    BY Zenon, <1>2 DEF JobInvariant, EffectsCommitted
  <2>3. quarantined[j].given_up =
          job[j].generation + (IF job[j].state = "quarantined" THEN 1 ELSE 0)
    BY Zenon, <1>2 DEF JobInvariant, ReplaysAccounted
  <2> QED
    BY Zenon, <1>2, <2>1, <2>2, <2>3, NotQuarantined
<1>g. job[j].generation \in Nat
  BY Zenon, <1>2 DEF Job
<1>t. ASSUME job' \in [Jobs -> Job], partition' \in [Partitions -> Partition],
             attempts' \in [Jobs -> Seq(Attempt)],
             quarantined' \in [Jobs -> [conflict : Nat, given_up : Nat]],
             effects' \in [Jobs -> Nat]
      PROVE  TypeOK'
  BY Zenon, <1>1, <1>t DEF TypeOK
<1>4. CASE CompleteFenced(h) /\ effects' = [effects EXCEPT ![h.job] = @ + 1]
           /\ UNCHANGED quarantined
  <2>1. /\ job' \in [Jobs -> Job] /\ partition' \in [Partitions -> Partition]
        /\ attempts' \in [Jobs -> Seq(Attempt)]
        /\ job'[j].state = "completed" /\ job'[j].generation = job[j].generation
        /\ \A k \in Jobs \ {j} : job'[k] = job[k]
        /\ RowsAgree'
    <3>1. /\ attempts' = CloseAttempt(h, "succeeded") /\ job' = LeaveLease(h.job, "completed", 0)
          /\ partition' = ReleasePartition(h)
      BY Zenon, <1>4 DEF CompleteFenced
    <3> QED
      BY ZenonT(40), <1>1, <3>1, ZeroWaits, LeaveStep
  <2>2. /\ effects' \in [Jobs -> Nat] /\ effects'[j] = 1
        /\ \A k \in Jobs \ {j} : effects'[k] = effects[k]
    BY <1>1, <1>2, <1>3, <1>4 DEF TypeOK
  <2>3. TypeOK'
    BY ZenonT(40), <1>1, <1>4, <1>t, <2>1, <2>2 DEF TypeOK
  <2>4. EffectsCommitted'
    BY Zenon, <2>1, <2>2 DEF JobInvariant, EffectsCommitted
  <2>5. ReplaysAccounted'
    <3> SUFFICES ASSUME NEW k \in Jobs
                 PROVE  quarantined'[k].given_up = job'[k].generation
                          + (IF job'[k].state = "quarantined" THEN 1 ELSE 0)
      BY Zenon DEF ReplaysAccounted
    <3>1. quarantined' = quarantined
      BY Zenon, <1>4
    <3>2. CASE k = j
      BY Zenon, <1>3, <1>g, <2>1, <3>1, <3>2, NotQuarantined
    <3>3. CASE k # j
      <4>1. job'[k] = job[k]
        BY Zenon, <2>1, <3>3
      <4> QED
        BY Zenon, <3>1, <4>1 DEF JobInvariant, ReplaysAccounted
    <3> QED
      BY Zenon, <3>2, <3>3
  <2> QED
    BY ZenonT(40), <2>1, <2>3, <2>4, <2>5 DEF JobInvariant
<1>5. CASE QuarantineFenced(h) /\ UNCHANGED effects
  <2>1. /\ job' \in [Jobs -> Job] /\ partition' \in [Partitions -> Partition]
        /\ attempts' \in [Jobs -> Seq(Attempt)]
        /\ job'[j].state = "quarantined" /\ job'[j].generation = job[j].generation
        /\ \A k \in Jobs \ {j} : job'[k] = job[k]
        /\ RowsAgree'
    <3>1. /\ attempts' = CloseAttempt(h, "quarantined")
          /\ job' = LeaveLease(h.job, "quarantined", 0) /\ partition' = ReleasePartition(h)
      BY Zenon, <1>5 DEF QuarantineFenced
    <3> QED
      BY ZenonT(40), <1>1, <3>1, ZeroWaits, LeaveStep
  <2>2. /\ quarantined' \in [Jobs -> [conflict : Nat, given_up : Nat]]
        /\ quarantined'[j].given_up = quarantined[j].given_up + 1
        /\ \A k \in Jobs \ {j} : quarantined'[k] = quarantined[k]
    <3>1. /\ quarantined \in [Jobs -> [conflict : Nat, given_up : Nat]]
          /\ quarantined' = [quarantined EXCEPT ![j]["given_up"] = @ + 1]
      BY Zenon, <1>1, <1>5 DEF QuarantineFenced, InsertQuarantine, TypeOK
    <3> QED
      BY SMTT(30), <1>2, <3>1
  <2>3. TypeOK'
    BY Zenon, <1>1, <1>5, <1>t, <2>1, <2>2 DEF TypeOK
  <2>4. EffectsCommitted'
    BY Zenon, <1>2, <1>5, <2>1 DEF JobInvariant, EffectsCommitted
  <2>5. ReplaysAccounted'
    <3> SUFFICES ASSUME NEW k \in Jobs
                 PROVE  quarantined'[k].given_up = job'[k].generation
                          + (IF job'[k].state = "quarantined" THEN 1 ELSE 0)
      BY DEF ReplaysAccounted
    <3>1. CASE k = j
      BY Zenon, <1>3, <1>g, <2>1, <2>2, <3>1
    <3>2. CASE k # j
      <4>1. quarantined'[k] = quarantined[k] /\ job'[k] = job[k]
        BY Zenon, <2>1, <2>2, <3>2
      <4> QED
        BY Zenon, <4>1 DEF JobInvariant, ReplaysAccounted
    <3> QED
      BY <3>1, <3>2
  <2> QED
    BY Zenon, <2>1, <2>3, <2>4, <2>5 DEF JobInvariant
<1>6. CASE /\ attempts' = CloseAttempt(h, "retry_scheduled")
           /\ job' = LeaveLease(h.job, "retry_wait", Backoff(job[h.job].attempt))
           /\ partition' = ReleasePartition(h)
           /\ UNCHANGED <<quarantined, effects>>
  <2>1. Backoff(job[j].attempt) \in Int
    <3>1. BackoffTicks \in Int /\ job[j].attempt \in Int
      BY SMTT(30), <1>2, JobConstants DEF Job
    <3> QED
      BY SMTT(30), <3>1 DEF Backoff
  <2>2. /\ job' \in [Jobs -> Job] /\ partition' \in [Partitions -> Partition]
        /\ attempts' \in [Jobs -> Seq(Attempt)]
        /\ job'[j].state = "retry_wait" /\ job'[j].generation = job[j].generation
        /\ \A k \in Jobs \ {j} : job'[k] = job[k]
        /\ RowsAgree'
    BY ZenonT(40), <1>1, <1>6, <2>1, LeaveStep
  <2>3. TypeOK'
    BY Zenon, <1>1, <1>6, <1>t, <2>2 DEF TypeOK
  <2>4. EffectsCommitted'
    BY ZenonT(40), <1>2, <1>6, <2>2 DEF JobInvariant, EffectsCommitted
  <2>5. ReplaysAccounted'
    <3> SUFFICES ASSUME NEW k \in Jobs
                 PROVE  quarantined'[k].given_up = job'[k].generation
                          + (IF job'[k].state = "quarantined" THEN 1 ELSE 0)
      BY DEF ReplaysAccounted
    <3>1. quarantined' = quarantined
      BY ZenonT(40), <1>6
    <3>2. CASE k = j
      BY Zenon, <1>3, <1>g, <2>2, <3>1, <3>2, NotQuarantined
    <3>3. CASE k # j
      <4>1. job'[k] = job[k]
        BY <2>2, <3>3
      <4> QED
        BY <3>1, <4>1 DEF JobInvariant, ReplaysAccounted
    <3> QED
      BY <3>2, <3>3
  <2> QED
    BY Zenon, <2>2, <2>3, <2>4, <2>5 DEF JobInvariant
<1> QED
  BY Zenon, <1>4, <1>5, <1>6

\* Time passes: leases and deadlines run down together.
LEMMA TickStep ==
  ASSUME JobInvariant, Tick
  PROVE  JobInvariant'
<1> DEFINE later(j) == [job[j] EXCEPT !.wait = Elapse(@), !.lease = Elapse(@),
                                      !.deadline = Elapse(@)]
           passed(p) == [partition[p] EXCEPT !.lease = Elapse(@)]
<1>1. TypeOK /\ RowsAgree /\ UNCHANGED <<attempts, claiming>>
  BY ZenonT(40) DEF JobInvariant, Tick
<1>2. /\ job' = [j \in Jobs |-> later(j)]
      /\ partition' = [p \in Partitions |-> passed(p)]
  BY Zenon DEF Tick
<1>3. ASSUME NEW j \in Jobs
      PROVE  /\ later(j) \in Job /\ later(j).state = job[j].state
             /\ later(j).attempt = job[j].attempt /\ later(j).epoch = job[j].epoch
             /\ later(j).worker = job[j].worker
             /\ later(j).generation = job[j].generation
             /\ later(j).lease = Elapse(job[j].lease)
             /\ job[j].lease = 0 => later(j).lease = 0
  <2>1. job[j] \in Job
    BY Zenon, <1>1, Shapes
  <2>2. /\ Elapse(job[j].wait) \in Int /\ Elapse(job[j].lease) \in Nat
        /\ Elapse(job[j].deadline) \in Nat
        /\ job[j].lease = 0 => Elapse(job[j].lease) = 0
    <3>1. job[j].wait \in Int /\ job[j].lease \in Nat /\ job[j].deadline \in Nat
      BY <2>1 DEF Job
    <3> QED
      BY <3>1 DEF Elapse
  <2> QED
    BY Zenon, <2>1, <2>2 DEF Job
<1>4. ASSUME NEW p \in Partitions
      PROVE  /\ passed(p) \in Partition /\ passed(p).job = partition[p].job
             /\ passed(p).worker = partition[p].worker
             /\ passed(p).current = partition[p].current
             /\ passed(p).highest = partition[p].highest
             /\ passed(p).lease = Elapse(partition[p].lease)
  <2>1. partition[p] \in Partition
    BY <1>1, Shapes
  <2>2. Elapse(partition[p].lease) \in Nat
    BY <2>1 DEF Partition, Elapse
  <2> QED
    BY <2>1, <2>2 DEF Partition
<1> HIDE DEF later, passed
<1>5. job' \in [Jobs -> Job] /\ partition' \in [Partitions -> Partition]
  BY Zenon, <1>2, <1>3, <1>4
<1>6. ASSUME NEW j \in Jobs, Leased(j)
      PROVE  partition'[PartitionOf[j]].lease = job'[j].lease
  <2>1. PartitionOf[j] \in Partitions
    BY Zenon, JobConstants
  <2>2. partition[PartitionOf[j]].lease = job[j].lease
    BY Zenon, <1>1, <1>6 DEF RowsAgree, LeasesAgree
  <2> QED
    BY <1>2, <1>3, <1>4, <2>1, <2>2
<1>7. RowsAgree'
  <2>1. \A j \in Jobs :
          /\ job'[j].state = job[j].state /\ job'[j].attempt = job[j].attempt
          /\ job'[j].epoch = job[j].epoch /\ job'[j].worker = job[j].worker
          /\ job'[j].generation = job[j].generation
          /\ job[j].lease = 0 => job'[j].lease = 0
    BY Zenon, <1>2, <1>3
  <2>2. \A p \in Partitions :
          /\ partition'[p].job = partition[p].job
          /\ partition'[p].worker = partition[p].worker
          /\ partition'[p].current = partition[p].current
          /\ partition'[p].highest = partition[p].highest
    BY Zenon, <1>2, <1>4
  <2> QED
    BY Zenon, <1>1, <1>6, <2>1, <2>2, TimeStep
<1>8. TypeOK'
  BY ZenonT(40), <1>1, <1>5 DEF Tick, TypeOK
<1>9. EffectsCommitted' /\ ReplaysAccounted'
  <2>1. \A j \in Jobs : /\ job'[j].state = job[j].state
                        /\ job'[j].generation = job[j].generation
    BY <1>2, <1>3
  <2> QED
    BY ZenonT(40), <2>1 DEF JobInvariant, EffectsCommitted, ReplaysAccounted, Tick
<1> QED
  BY <1>7, <1>8, <1>9 DEF JobInvariant

\* A worker renews its partition and its job in one transaction.
LEMMA RenewStep ==
  ASSUME JobInvariant, NEW h \in handles, Renew(h)
  PROVE  JobInvariant'
<1> DEFINE j == h.job
           p == PartitionOf[j]
           left == Least(LeaseTicks, job[j].deadline)
           renewed == [partition[p] EXCEPT !.state = "renewed", !.lease = left]
           extended == [job[j] EXCEPT !.lease = left]
<1>1. TypeOK /\ RowsAgree /\ h \in Handle /\ Fenced(h)
      /\ UNCHANGED <<attempts, claiming>>
  BY Zenon DEF JobInvariant, TypeOK, Renew
<1>2. /\ j \in Jobs /\ p \in Partitions /\ job[j] \in Job /\ partition[p] \in Partition
  BY Zenon, <1>1, Shapes DEF Handle
<1>3. /\ Leased(j) /\ partition[p].job = j /\ job[j].lease > 0
      /\ left \in Nat /\ job[j].lease # 0
  <2>1. LeaseTicks \in Nat /\ job[j].deadline \in Nat
    BY <1>2, JobConstants DEF Job
  <2> QED
    BY SMTT(30), <1>1, <2>1 DEF Fenced, Leased, Least
<1>4. /\ extended \in Job /\ extended.state = job[j].state
      /\ extended.attempt = job[j].attempt /\ extended.epoch = job[j].epoch
      /\ extended.worker = job[j].worker /\ extended.generation = job[j].generation
      /\ extended.lease = left
  BY <1>2, <1>3 DEF Job
<1>5. /\ renewed \in Partition /\ renewed.job = partition[p].job
      /\ renewed.worker = partition[p].worker /\ renewed.current = partition[p].current
      /\ renewed.highest = partition[p].highest /\ renewed.lease = left
  BY Zenon, <1>2, <1>3 DEF Partition
<1>6. job' = [job EXCEPT ![j] = extended] /\ partition' = [partition EXCEPT ![p] = renewed]
  BY Zenon, <1>1, <1>2 DEF Renew, TypeOK
<1> HIDE DEF extended, renewed
<1>7. /\ job' \in [Jobs -> Job] /\ job'[j] = extended
      /\ \A k \in Jobs \ {j} : job'[k] = job[k]
      /\ partition' \in [Partitions -> Partition] /\ partition'[p] = renewed
      /\ \A q \in Partitions \ {p} : partition'[q] = partition[q]
  BY Zenon, <1>1, <1>2, <1>4, <1>5, <1>6 DEF TypeOK
<1>8. ASSUME NEW k \in Jobs, Leased(k)
      PROVE  partition'[PartitionOf[k]].lease = job'[k].lease
  <2>1. CASE k = j
    BY Zenon, <1>4, <1>5, <1>7, <2>1
  <2>2. CASE k # j
    <3>1. PartitionOf[k] # p /\ partition[PartitionOf[k]].lease = job[k].lease
      BY ZenonT(40), <1>1, <1>3, <1>8, <2>2 DEF RowsAgree, LeasesAgree
    <3> QED
      BY Zenon, <1>7, <2>2, <3>1, JobConstants
  <2> QED
    BY Zenon, <2>1, <2>2
<1>9. RowsAgree'
  <2>1. \A k \in Jobs :
          /\ job'[k].state = job[k].state /\ job'[k].attempt = job[k].attempt
          /\ job'[k].epoch = job[k].epoch /\ job'[k].worker = job[k].worker
          /\ job'[k].generation = job[k].generation
          /\ job[k].lease = 0 => job'[k].lease = 0
    BY Zenon, <1>3, <1>4, <1>7
  <2>2. \A q \in Partitions :
          /\ partition'[q].job = partition[q].job
          /\ partition'[q].worker = partition[q].worker
          /\ partition'[q].current = partition[q].current
          /\ partition'[q].highest = partition[q].highest
    BY Zenon, <1>5, <1>7
  <2> QED
    BY Zenon, <1>1, <1>8, <2>1, <2>2, TimeStep
<1>10. TypeOK'
  BY <1>1, <1>7 DEF Renew, TypeOK
<1>11. EffectsCommitted' /\ ReplaysAccounted'
  <2>1. \A k \in Jobs : /\ job'[k].state = job[k].state
                        /\ job'[k].generation = job[k].generation
    BY <1>4, <1>7
  <2> QED
    BY ZenonT(40), <2>1 DEF JobInvariant, EffectsCommitted, ReplaysAccounted, Renew
<1> QED
  BY <1>9, <1>10, <1>11 DEF JobInvariant

\* A job is enqueued.
LEMMA EnqueueStep ==
  ASSUME JobInvariant, NEW j \in Jobs, Enqueue(j)
  PROVE  JobInvariant'
<1> DEFINE row == [NoRow EXCEPT !.state = "available"]
<1>1. /\ TypeOK /\ RowsAgree /\ job[j].state = "absent" /\ job' = [job EXCEPT ![j] = row]
      /\ UNCHANGED <<partition, attempts, claiming>>
  BY DEF JobInvariant, Enqueue
<1>2. row \in Job /\ row.state = "available" /\ row.attempt = 0 /\ row.generation = 0
  BY JobConstants DEF NoRow, Job
<1>3. job[j].attempt = 0 /\ job[j].generation = 0
  BY <1>1 DEF RowsAgree, AbsentBlank
<1> HIDE DEF row
<1>4. job' \in [Jobs -> Job] /\ RowsAgree'
  BY Zenon, <1>1, <1>2, <1>3, AvailableStep
<1>5. \A k \in Jobs : /\ job'[k].generation = job[k].generation
                      /\ job'[k].state = "completed" <=> job[k].state = "completed"
                      /\ job'[k].state = "quarantined" <=> job[k].state = "quarantined"
  BY <1>1, <1>2, <1>3 DEF TypeOK
<1>6. TypeOK'
  BY Zenon, <1>1, <1>4 DEF TypeOK, Enqueue
<1>7. EffectsCommitted' /\ ReplaysAccounted'
  BY <1>5 DEF JobInvariant, EffectsCommitted, ReplaysAccounted, Enqueue
<1> QED
  BY <1>4, <1>6, <1>7 DEF JobInvariant

\* A row that is available again keeps its attempt.
LEMMA Reopened ==
  ASSUME NEW row \in Job, NEW wait \in Int, NEW n \in Nat
  PROVE  LET new == [row EXCEPT !.state = "available", !.wait = wait, !.generation = n]
         IN  /\ new \in Job /\ new.state = "available"
             /\ new.attempt = row.attempt /\ new.generation = n
BY Zenon DEF Job

\* A replayed row: available again, one generation later.
LEMMA ReplayedRow ==
  ASSUME NEW row \in Job
  PROVE  /\ Replayed(row) \in Job
         /\ Replayed(row).state = "available"
         /\ Replayed(row).attempt = row.attempt
         /\ row.generation \in Nat
         /\ Replayed(row).generation = row.generation + 1
<1>1. row.generation \in Nat /\ row.generation + 1 \in Nat /\ 0 \in Int
  BY DEF Job
<1> DEFINE new(wait, n) == [row EXCEPT !.state = "available", !.wait = wait, !.generation = n]
<1>2. \A wait \in Int, n \in Nat :
        /\ new(wait, n) \in Job /\ new(wait, n).state = "available"
        /\ new(wait, n).attempt = row.attempt /\ new(wait, n).generation = n
  BY Zenon, Reopened
<1>3. Replayed(row) = new(0, row.generation + 1)
  BY DEF Replayed
<1> HIDE DEF new
<1> QED
  BY <1>1, <1>2, <1>3

\* Rows that do not change stay in agreement.
LEMMA RowsKept ==
  ASSUME RowsAgree, job' = job, partition' = partition, attempts' = attempts,
         claiming' = claiming
  PROVE  RowsAgree'
<1>1. LeasesAgree'
  BY DEF RowsAgree, LeasesAgree, Leased
<1>2. AttemptsLedger'
  BY DEF RowsAgree, AttemptsLedger, Leased
<1>3. AttemptMade' /\ EpochsIssued' /\ AbsentBlank'
  BY DEF RowsAgree, AttemptMade, EpochsIssued, AbsentBlank
<1>4. ClaimLocks'
  BY DEF RowsAgree, ClaimLocks
<1>5. SucceededLast'
  BY DEF RowsAgree, SucceededLast
<1> QED
  BY Zenon, <1>1, <1>2, <1>3, <1>4, <1>5 DEF RowsAgree

\* An operator replays a quarantined job with a capability.
LEMMA ReplayStep ==
  ASSUME JobInvariant, NEW c \in capabilities, Replay(c)
  PROVE  JobInvariant'
<1> DEFINE j == c.job
           row == Replayed(job[j])
<1>1. /\ TypeOK /\ RowsAgree /\ UNCHANGED <<partition, attempts, claiming>>
      /\ UNCHANGED <<quarantined, handles, effects>> /\ capabilities' \subseteq capabilities
      /\ j \in Jobs
  BY Zenon DEF JobInvariant, Replay, TypeOK
<1>2. CASE UNCHANGED job
  <2>1. TypeOK'
    BY Zenon, <1>1, <1>2 DEF TypeOK
  <2>s. job' = job /\ partition' = partition /\ attempts' = attempts /\ claiming' = claiming
    BY Zenon, <1>1, <1>2
  <2>2. RowsAgree'
    BY Zenon, <1>1, <2>s, RowsKept
  <2>3. EffectsCommitted' /\ ReplaysAccounted'
    BY Zenon, <1>1, <1>2 DEF JobInvariant, EffectsCommitted, ReplaysAccounted
  <2> QED
    BY Zenon, <2>1, <2>2, <2>3 DEF JobInvariant, RowsAgree
<1>3. CASE Replayable(c) /\ job' = [job EXCEPT ![c.job] = Replayed(job[c.job])]
  <2>1. job[j] \in Job /\ job[j].state = "quarantined" /\ job' = [job EXCEPT ![j] = row]
    BY Zenon, <1>1, <1>3, Shapes DEF Replayable
  <2>2. /\ row \in Job /\ row.state = "available" /\ row.attempt = job[j].attempt
        /\ row.generation = job[j].generation + 1 /\ job[j].generation \in Nat
    BY <2>1, ReplayedRow
  <2> HIDE DEF row
  <2>3. job' \in [Jobs -> Job] /\ RowsAgree'
    BY ZenonT(40), <1>1, <2>1, <2>2, AvailableStep
  <2>4. job'[j] = row /\ \A k \in Jobs \ {j} : job'[k] = job[k]
    BY Zenon, <1>1, <2>1, <2>2 DEF TypeOK
  <2>5. TypeOK'
    BY Zenon, <1>1, <2>3 DEF TypeOK
  <2>6. EffectsCommitted'
    BY Zenon, <1>1, <2>1, <2>2, <2>4 DEF JobInvariant, EffectsCommitted
  <2>7. ReplaysAccounted'
    <3> SUFFICES ASSUME NEW k \in Jobs
                 PROVE  quarantined'[k].given_up = job'[k].generation
                          + (IF job'[k].state = "quarantined" THEN 1 ELSE 0)
      BY DEF ReplaysAccounted
    <3>1. quarantined[k].given_up = job[k].generation
                          + (IF job[k].state = "quarantined" THEN 1 ELSE 0)
      BY Zenon DEF JobInvariant, ReplaysAccounted
    <3>2. CASE k = j
      BY SMTT(30), <1>1, <2>1, <2>2, <2>4, <3>1, <3>2
    <3>3. CASE k # j
      BY Zenon, <1>1, <2>4, <3>1, <3>3
    <3> QED
      BY Zenon, <3>2, <3>3
  <2> QED
    BY Zenon, <2>3, <2>5, <2>6, <2>7 DEF JobInvariant
<1> QED
  BY Zenon, <1>2, <1>3 DEF Replay

\* A step that leaves jobs, partitions and attempts alone keeps what relates
\* them; only the locks of claims need an argument.
LEMMA QuietStep ==
  ASSUME JobInvariant, UNCHANGED <<job, partition, attempts, effects>>,
         claiming' \in [Workers -> Jobs \cup {NoJob}], ClaimLocks',
         handles' \subseteq Handle,
         capabilities' \subseteq [job : Jobs, admin : Admins, generation : Nat],
         quarantined' \in [Jobs -> [conflict : Nat, given_up : Nat]],
         \A j \in Jobs : quarantined'[j].given_up = quarantined[j].given_up
  PROVE  JobInvariant'
<1>1. TypeOK'
  BY Zenon DEF JobInvariant, TypeOK
<1>2. LeasesAgree' /\ AttemptsLedger' /\ AttemptMade' /\ EpochsIssued'
      /\ SucceededLast' /\ AbsentBlank'
  <2>1. LeasesAgree'
    BY ZenonT(40) DEF JobInvariant, RowsAgree, LeasesAgree, Leased
  <2>2. AttemptsLedger' /\ AttemptMade'
    BY ZenonT(40) DEF JobInvariant, RowsAgree, AttemptsLedger, AttemptMade, Leased
  <2>3. EpochsIssued' /\ SucceededLast' /\ AbsentBlank'
    BY ZenonT(40) DEF JobInvariant, RowsAgree, EpochsIssued, SucceededLast, AbsentBlank
  <2> QED
    BY Zenon, <2>1, <2>2, <2>3
<1>3. EffectsCommitted' /\ ReplaysAccounted'
  BY Zenon DEF JobInvariant, EffectsCommitted, ReplaysAccounted
<1> QED
  BY Zenon, <1>1, <1>2, <1>3 DEF JobInvariant, RowsAgree

\* Every step keeps the job invariant.
LEMMA InvariantStep == JobInvariant /\ [Next]_vars => JobInvariant'
<1> SUFFICES ASSUME JobInvariant, [Next]_vars PROVE JobInvariant'
  OBVIOUS
<1>t. /\ claiming \in [Workers -> Jobs \cup {NoJob}] /\ handles \subseteq Handle
      /\ capabilities \subseteq [job : Jobs, admin : Admins, generation : Nat]
      /\ quarantined \in [Jobs -> [conflict : Nat, given_up : Nat]]
      /\ \A j \in Jobs : job[j] \in Job
      /\ ClaimLocks
  BY Zenon, Shapes DEF JobInvariant, RowsAgree, TypeOK
<1>1. CASE UNCHANGED vars
  <2>1. UNCHANGED <<job, partition, attempts, effects>> /\ claiming' = claiming
        /\ handles' = handles /\ capabilities' = capabilities /\ quarantined' = quarantined
    BY Zenon, <1>1 DEF vars
  <2>2. ClaimLocks'
    BY <1>t, <2>1 DEF ClaimLocks
  <2> QED
    BY Zenon, <1>t, <2>1, <2>2, QuietStep
<1>2. CASE Tick
  BY <1>2, TickStep
<1>3. ASSUME NEW j \in Jobs, Enqueue(j) PROVE JobInvariant'
  BY Zenon, <1>3, EnqueueStep
<1>4. ASSUME NEW j \in Jobs, EnqueueConflict(j) PROVE JobInvariant'
  <2>1. UNCHANGED <<job, partition, attempts, effects>> /\ claiming' = claiming
        /\ handles' = handles /\ capabilities' = capabilities
        /\ quarantined' = [quarantined EXCEPT ![j]["conflict"] = @ + 1]
    BY Zenon, <1>4 DEF EnqueueConflict, InsertQuarantine
  <2>2. quarantined' \in [Jobs -> [conflict : Nat, given_up : Nat]]
        /\ \A k \in Jobs : quarantined'[k].given_up = quarantined[k].given_up
    BY SMTT(30), <1>t, <2>1
  <2>3. ClaimLocks'
    BY Zenon, <1>t, <2>1 DEF ClaimLocks
  <2> QED
    BY Zenon, <1>t, <2>1, <2>2, <2>3, QuietStep
<1>5. ASSUME NEW w \in Workers, NEW j \in Jobs, SelectCandidate(w, j) PROVE JobInvariant'
  <2>1. UNCHANGED <<job, partition, attempts, effects>> /\ quarantined' = quarantined
        /\ handles' = handles /\ capabilities' = capabilities
        /\ claiming' = [claiming EXCEPT ![w] = j]
    BY Zenon, <1>5 DEF SelectCandidate
  <2>2. /\ \A v \in Workers : claiming[v] # j
        /\ \/ job[j].state \in {"available", "retry_wait"}
           \/ job[j].state = "leased" /\ job[j].lease = 0
    BY <1>5 DEF SelectCandidate, Candidates, Due
  <2>3. claiming' \in [Workers -> Jobs \cup {NoJob}] /\ claiming'[w] = j
        /\ \A v \in Workers \ {w} : claiming'[v] = claiming[v]
    BY Zenon, <1>t, <2>1
  <2>4. ClaimLocks'
    BY Zenon, <1>t, <2>1, <2>2, <2>3 DEF ClaimLocks
  <2> QED
    BY Zenon, <1>t, <2>1, <2>3, <2>4, QuietStep
<1>6. ASSUME NEW w \in Workers, Claim(w) PROVE JobInvariant'
  <2>1. TypeOK' /\ RowsAgree'
    BY <1>6, ClaimStep DEF JobInvariant
  <2>2. claiming[w] \in Jobs /\ job[claiming[w]] \in Job
        /\ job[claiming[w]].state \notin {"completed", "quarantined"}
    BY ZenonT(40), <1>6, <1>t DEF Claim, ClaimLocks
  <2>3. \A k \in Jobs : /\ job'[k].generation = job[k].generation
                        /\ job'[k].state = "completed" <=> job[k].state = "completed"
                        /\ job'[k].state = "quarantined" <=> job[k].state = "quarantined"
    <3> DEFINE j == claiming[w]
               row == [job[j] EXCEPT !.state = "leased", !.attempt = job[j].attempt + 1,
                         !.epoch = partition[PartitionOf[j]].highest + 1, !.worker = w,
                         !.lease = LeaseTicks, !.deadline = AttemptTicks]
    <3>1. job' = [job EXCEPT ![j] = row] /\ job \in [Jobs -> Job]
      BY <1>6 DEF Claim, NextLeaseEpoch, JobInvariant, TypeOK
    <3>2. row.state = "leased" /\ row.generation = job[j].generation
      BY <2>2 DEF Job
    <3> HIDE DEF row
    <3> QED
      BY <2>2, <3>1, <3>2
  <2>4. effects' = effects /\ quarantined' = quarantined
    BY Zenon, <1>6 DEF Claim
  <2>5. EffectsCommitted' /\ ReplaysAccounted'
    BY <2>3, <2>4 DEF JobInvariant, EffectsCommitted, ReplaysAccounted
  <2> QED
    BY <2>1, <2>5 DEF JobInvariant
<1>7. ASSUME NEW w \in Workers, ClaimFails(w) PROVE JobInvariant'
  <2>1. UNCHANGED <<job, partition, attempts, effects>> /\ quarantined' = quarantined
        /\ handles' = handles /\ capabilities' = capabilities
        /\ claiming' = [claiming EXCEPT ![w] = NoJob]
    BY Zenon, <1>7 DEF ClaimFails
  <2>2. claiming' \in [Workers -> Jobs \cup {NoJob}] /\ claiming'[w] = NoJob
        /\ \A v \in Workers \ {w} : claiming'[v] = claiming[v]
    BY Zenon, <1>t, <2>1
  <2>3. ClaimLocks'
    BY <1>t, <2>1, <2>2 DEF ClaimLocks
  <2> QED
    BY ZenonT(40), <1>t, <2>1, <2>2, <2>3, QuietStep
<1>8. ASSUME NEW h \in handles, Renew(h) PROVE JobInvariant'
  BY Zenon, <1>8, RenewStep
<1>9. ASSUME NEW h \in handles, Execute(h) PROVE JobInvariant'
  BY Zenon, <1>9, FencedStep DEF Execute, ConsumeHandle
<1>10. ASSUME NEW h \in handles, Retry(h) PROVE JobInvariant'
  BY Zenon, <1>10, FencedStep DEF Retry, ConsumeHandle
<1>11. ASSUME NEW h \in handles, Quarantine(h) PROVE JobInvariant'
  BY Zenon, <1>11, FencedStep DEF Quarantine, ConsumeHandle
<1>12. ASSUME NEW h \in handles, SpendHandle(h) PROVE JobInvariant'
  <2>1. UNCHANGED <<job, partition, attempts, effects>> /\ claiming' = claiming
        /\ handles' \subseteq handles /\ capabilities' = capabilities
        /\ quarantined' = quarantined
    BY Zenon, <1>12 DEF SpendHandle, ConsumeHandle
  <2>2. ClaimLocks'
    BY Zenon, <1>t, <2>1 DEF ClaimLocks
  <2> QED
    BY Zenon, <1>t, <2>1, <2>2, QuietStep
<1>13. ASSUME NEW admin \in Admins, NEW j \in Jobs, VerifyReplayAuthorization(admin, j)
       PROVE  JobInvariant'
  <2>1. UNCHANGED <<job, partition, attempts, effects>> /\ claiming' = claiming
        /\ handles' = handles /\ quarantined' = quarantined
        /\ capabilities' = capabilities \cup
             {[job |-> j, admin |-> admin, generation |-> job[j].generation]}
    BY Zenon, <1>13 DEF VerifyReplayAuthorization
  <2>2. capabilities' \subseteq [job : Jobs, admin : Admins, generation : Nat]
    BY SMTT(30), <1>t, <2>1 DEF Job
  <2>3. ClaimLocks'
    BY Zenon, <1>t, <2>1 DEF ClaimLocks
  <2> QED
    BY Zenon, <1>t, <2>1, <2>2, <2>3, QuietStep
<1>14. ASSUME NEW c \in capabilities, Replay(c) PROVE JobInvariant'
  BY <1>14, ReplayStep
<1> QED
  BY <1>1, <1>2, <1>3, <1>4, <1>5, <1>6, <1>7, <1>8, <1>9, <1>10, <1>11, <1>12, <1>13,
     <1>14 DEF Next, WorkerNext

-----------------------------------------------------------------------------
(* The inductive invariant: the rows of a job, of its partition and of its   *)
(* attempts agree with each other, with the effects and with the replays.    *)
THEOREM JobsCorrect == Spec => []JobInvariant
BY InitHolds, InvariantStep, PTL DEF Spec

(* Two jobs of a partition are never leased together, and a lease has the    *)
(* highest epoch its partition gave out.                                     *)
THEOREM LeasesAgreeHolds == Spec => []LeasesAgree
<1>1. JobInvariant => LeasesAgree
  BY Zenon DEF JobInvariant, RowsAgree
<1> QED
  BY <1>1, JobsCorrect, PTL

(* Attempts are numbered without gaps, under growing epochs, and only the    *)
(* last one of a leased job is running.                                      *)
THEOREM AttemptsLedgerHolds == Spec => []AttemptsLedger
<1>1. JobInvariant => AttemptsLedger
  BY Zenon DEF JobInvariant, RowsAgree
<1> QED
  BY <1>1, JobsCorrect, PTL

(* The handler's transaction of a job commits once, in its only successful   *)
(* attempt.                                                                  *)
THEOREM EffectsOnceHolds == Spec => []EffectsOnce
<1>1. JobInvariant => EffectsOnce
  <2> SUFFICES ASSUME JobInvariant, NEW j \in Jobs
               PROVE  /\ effects[j] = Cardinality({n \in DOMAIN attempts[j] :
                                         attempts[j][n].outcome = "succeeded"})
                      /\ effects[j] = IF job[j].state = "completed" THEN 1 ELSE 0
    BY DEF EffectsOnce
  <2> DEFINE won == {n \in DOMAIN attempts[j] : attempts[j][n].outcome = "succeeded"}
  <2>1. effects[j] = IF job[j].state = "completed" THEN 1 ELSE 0
    BY DEF JobInvariant, EffectsCommitted
  <2>2. \A n \in DOMAIN attempts[j] : attempts[j][n].outcome = "succeeded"
          <=> (job[j].state = "completed" /\ n = job[j].attempt)
    BY Zenon DEF JobInvariant, RowsAgree, SucceededLast
  <2>3. CASE job[j].state = "completed"
    <3>1. job[j] \in Job /\ attempts[j] \in Seq(Attempt)
      BY Zenon, Shapes DEF JobInvariant
    <3>2. job[j].attempt >= 1 /\ Len(attempts[j]) = job[j].attempt
      BY Zenon, <2>3 DEF JobInvariant, RowsAgree, AttemptMade, AttemptsLedger
    <3>3. job[j].attempt \in DOMAIN attempts[j]
      BY <3>1, <3>2 DEF Job
    <3>4. won = {job[j].attempt}
      BY <2>2, <2>3, <3>3
    <3>5. Cardinality(won) = 1
      BY Zenon, <3>4, FS_Singleton
    <3> QED
      BY Zenon, <2>1, <2>3, <3>5
  <2>4. CASE job[j].state # "completed"
    <3>1. won = {}
      BY Zenon, <2>2, <2>4
    <3>2. Cardinality(won) = 0
      BY <3>1, FS_EmptySet
    <3> QED
      BY Zenon, <2>1, <2>4, <3>2
  <2> QED
    BY Zenon, <2>3, <2>4
<1> QED
  BY <1>1, JobsCorrect, PTL

(* Each replay answers one quarantining of its job.                          *)
THEOREM ReplaysAccountedHolds == Spec => []ReplaysAccounted
<1>1. JobInvariant => ReplaysAccounted
  BY DEF JobInvariant
<1> QED
  BY <1>1, JobsCorrect, PTL

-----------------------------------------------------------------------------
\* A step that moves no job is a stutter of the queue; one that moves a
\* single job is the queue's move of that job.
LEMMA Seeing ==
  /\ Seen("absent") = "absent" /\ Seen("available") = "waiting"
  /\ Seen("retry_wait") = "waiting" /\ Seen("leased") = "working"
  /\ Seen("completed") = "done" /\ Seen("quarantined") = "parked"
BY Zenon DEF Seen

\* A step that changes no row's state is a stutter of the queue.
LEMMA StatusKept ==
  ASSUME \A j \in Jobs : job'[j].state = job[j].state, effects' = effects
  PROVE  UNCHANGED <<Status, effects>>
<1>1. \A j \in Jobs : Status'[j] = Status[j]
  BY Zenon DEF Status
<1>2. Status = [j \in Jobs |-> Status[j]] /\ Status' = [j \in Jobs |-> Status'[j]]
  BY DEF Status
<1>3. Status' = Status
  BY Zenon, <1>1, <1>2
<1> QED
  BY Zenon, <1>3

\* A step that changes one row's state changes one status of the queue.
LEMMA StatusMoves ==
  ASSUME NEW j \in Jobs, NEW to,
         \A k \in Jobs \ {j} : job'[k].state = job[k].state,
         Status'[j] = to
  PROVE  Status' = [Status EXCEPT ![j] = to]
<1>1. \A k \in Jobs \ {j} : Status'[k] = Status[k]
  BY Zenon DEF Status
<1>2. Status = [k \in Jobs |-> Status[k]] /\ Status' = [k \in Jobs |-> Status'[k]]
  BY Zenon DEF Status
<1> QED
  BY Zenon, <1>1, <1>2

\* Every step of the runtime is a step of JobQueue, or a stutter.
LEMMA QueueStep ==
  ASSUME JobInvariant, [Next]_vars
  PROVE  [Queue!Next]_<<Status, effects>>
<1>t. TypeOK /\ RowsAgree /\ job \in [Jobs -> Job] /\ handles \subseteq Handle
  BY Zenon DEF JobInvariant, TypeOK
<1>s. \A j \in Jobs : /\ job[j].state = "absent" => Status[j] = "absent"
                      /\ job[j].state \in {"available", "retry_wait"} => Status[j] = "waiting"
                      /\ job[j].state = "leased" <=> Status[j] = "working"
                      /\ job[j].state = "quarantined" => Status[j] = "parked"
  <2> SUFFICES ASSUME NEW j \in Jobs
               PROVE  /\ job[j].state = "absent" => Status[j] = "absent"
                      /\ job[j].state \in {"available", "retry_wait"} => Status[j] = "waiting"
                      /\ job[j].state = "leased" <=> Status[j] = "working"
                      /\ job[j].state = "quarantined" => Status[j] = "parked"
    OBVIOUS
  <2>1. job[j].state \in {"absent", "available", "leased", "retry_wait", "completed",
                          "quarantined"}
    BY <1>t DEF Job
  <2>2. Status[j] = Seen(job[j].state)
    BY Zenon DEF Status
  <2> QED
    BY Zenon, <2>1, <2>2, Seeing
<1>l. ASSUME NEW h \in handles, Fenced(h)
      PROVE  h.job \in Jobs /\ Status[h.job] = "working" /\ effects[h.job] = 0
  <2>1. h.job \in Jobs /\ job[h.job].state = "leased"
    BY Zenon, <1>t, <1>l DEF Handle, Fenced
  <2> QED
    BY Zenon, <1>s, <2>1 DEF JobInvariant, EffectsCommitted
<1>q. ASSUME NEW h \in handles, Fenced(h), QuarantineFenced(h), effects' = effects
      PROVE  Queue!Next
  <2>1. job' = LeaveLease(h.job, "quarantined", 0) /\ h.job \in Jobs /\ job[h.job] \in Job
    BY <1>q, <1>l, <1>t DEF QuarantineFenced
  <2>2. job'[h.job].state = "quarantined" /\ \A k \in Jobs \ {h.job} : job'[k] = job[k]
    BY Zenon, <1>t, <2>1 DEF LeaveLease, Job
  <2>3. Status'[h.job] = "parked"
    BY Zenon, <2>1, <2>2, Seeing DEF Status
  <2>4. Queue!Park(h.job)
    BY Zenon, <1>l, <1>q, <2>1, <2>2, <2>3, StatusMoves DEF Queue!Park, Queue!Move
  <2> QED
    BY Zenon, <2>1, <2>4 DEF Queue!Next
<1>1. CASE UNCHANGED vars
  BY Zenon, <1>1, StatusKept DEF vars
<1>2. CASE Tick
  <2>1. \A j \in Jobs : job'[j].state = job[j].state
    BY Zenon, <1>2, <1>t DEF Tick, Job
  <2> QED
    BY ZenonT(40), <1>2, <2>1, StatusKept DEF Tick
<1>3. ASSUME NEW j \in Jobs, Enqueue(j) PROVE Queue!Next
  <2>1. job'[j].state = "available" /\ \A k \in Jobs \ {j} : job'[k] = job[k]
    BY <1>3, <1>t DEF Enqueue, NoRow
  <2>2. Status[j] = "absent" /\ Status'[j] = "waiting"
    BY <1>3, <1>s, <2>1, Seeing DEF Enqueue, Status
  <2>3. Queue!Submit(j)
    BY Zenon, <1>3, <2>1, <2>2, StatusMoves DEF Queue!Submit, Queue!Move, Enqueue
  <2> QED
    BY <2>3 DEF Queue!Next
<1>4. ASSUME NEW w \in Workers, Claim(w) PROVE [Queue!Next]_<<Status, effects>>
  <2> DEFINE j == claiming[w]
  <2>1. j \in Jobs /\ effects' = effects /\ PartitionFree(PartitionOf[j], j)
    BY Zenon, <1>4, <1>t, Shapes DEF Claim
  <2>2. job'[j].state = "leased" /\ \A k \in Jobs \ {j} : job'[k] = job[k]
    BY Zenon, <1>4, <1>t, <2>1 DEF Claim, Job
  <2>3. CASE job[j].state = "leased"
    BY Zenon, <2>1, <2>2, <2>3, StatusKept
  <2>4. CASE job[j].state # "leased"
    <3>1. Status[j] = "waiting"
      BY Zenon, <1>s, <1>t, <2>1, <2>4, JobConstants DEF RowsAgree, ClaimLocks
    <3>2. \A k \in Jobs : PartitionOf[k] = PartitionOf[j] => Status[k] # "working"
      <4> SUFFICES ASSUME NEW k \in Jobs, PartitionOf[k] = PartitionOf[j],
                          job[k].state = "leased"
                   PROVE  FALSE
        BY Zenon, <1>s
      <4>1. partition[PartitionOf[j]].job = k
        BY Zenon, <1>t DEF RowsAgree, LeasesAgree, Leased
      <4> QED
        BY Zenon, <2>1, <2>4, <4>1, JobConstants DEF PartitionFree
    <3>3. Status'[j] = "working"
      BY Zenon, <2>1, <2>2, Seeing DEF Status
    <3>4. Queue!Start(j)
      BY Zenon, <2>1, <2>2, <3>1, <3>2, <3>3, StatusMoves DEF Queue!Start, Queue!Move
    <3> QED
      BY Zenon, <2>1, <3>4 DEF Queue!Next
  <2> QED
    BY <2>3, <2>4
<1>5. ASSUME NEW h \in handles, Renew(h) PROVE UNCHANGED <<Status, effects>>
  <2>1. h.job \in Jobs /\ job' = [job EXCEPT ![h.job].lease =
                                  Least(LeaseTicks, job[h.job].deadline)]
    BY <1>5, <1>t DEF Renew, Handle
  <2>2. \A k \in Jobs : job'[k].state = job[k].state
    BY Zenon, <1>t, <2>1 DEF Job
  <2> QED
    BY Zenon, <1>5, <2>2, StatusKept DEF Renew
<1>6. ASSUME NEW h \in handles, Execute(h) PROVE Queue!Next
  <2>1. CASE QuarantineFenced(h) /\ UNCHANGED effects
    BY Zenon, <1>6, <1>q, <2>1 DEF Execute
  <2>2. CASE CompleteFenced(h) /\ effects' = [effects EXCEPT ![h.job] = @ + 1]
    <3>1. /\ job' = LeaveLease(h.job, "completed", 0) /\ h.job \in Jobs
          /\ Status[h.job] = "working" /\ effects[h.job] = 0
      BY Zenon, <1>6, <1>l, <2>2 DEF CompleteFenced, Execute
    <3>2. job'[h.job].state = "completed" /\ \A k \in Jobs \ {h.job} : job'[k] = job[k]
      BY Zenon, <1>t, <3>1 DEF LeaveLease, Job
    <3>3. Status'[h.job] = "done"
      BY Zenon, <3>1, <3>2, Seeing DEF Status
    <3>4. effects' = [effects EXCEPT ![h.job] = 1]
      BY SMTT(30), <1>t, <2>2, <3>1 DEF TypeOK
    <3>5. Queue!Finish(h.job)
      BY Zenon, <3>1, <3>2, <3>3, <3>4, StatusMoves DEF Queue!Finish, Queue!Move
    <3> QED
      BY Zenon, <3>1, <3>5 DEF Queue!Next
  <2> QED
    BY Zenon, <1>6, <2>1, <2>2 DEF Execute
<1>7. ASSUME NEW h \in handles, Retry(h) PROVE Queue!Next
  <2>1. CASE QuarantineFenced(h)
    BY Zenon, <1>7, <1>q, <2>1 DEF Retry
  <2>2. CASE job' = LeaveLease(h.job, "retry_wait", Backoff(job[h.job].attempt))
    <3>1. h.job \in Jobs /\ Status[h.job] = "working" /\ effects' = effects
      BY <1>7, <1>l DEF Retry
    <3>2. job'[h.job].state = "retry_wait" /\ \A k \in Jobs \ {h.job} : job'[k] = job[k]
      BY Zenon, <1>t, <2>2, <3>1 DEF LeaveLease, Job
    <3>3. Status'[h.job] = "waiting"
      BY Zenon, <3>1, <3>2, Seeing DEF Status
    <3>4. Queue!Defer(h.job)
      BY Zenon, <3>1, <3>2, <3>3, StatusMoves DEF Queue!Defer, Queue!Move
    <3> QED
      BY Zenon, <3>1, <3>4 DEF Queue!Next
  <2> QED
    BY Zenon, <1>7, <2>1, <2>2 DEF Retry
<1>8. ASSUME NEW h \in handles, Quarantine(h) PROVE Queue!Next
  BY Zenon, <1>8, <1>q DEF Quarantine
<1>9. ASSUME NEW c \in capabilities, Replay(c) PROVE [Queue!Next]_<<Status, effects>>
  <2>1. c.job \in Jobs /\ effects' = effects
    BY Zenon, <1>9, <1>t DEF Replay, TypeOK
  <2>2. CASE UNCHANGED job
    BY Zenon, <2>1, <2>2, StatusKept
  <2>3. CASE Replayable(c) /\ job' = [job EXCEPT ![c.job] = Replayed(job[c.job])]
    <3>1. job'[c.job].state = "available" /\ \A k \in Jobs \ {c.job} : job'[k] = job[k]
      BY Zenon, <1>t, <2>1, <2>3, ReplayedRow
    <3>2. Status[c.job] = "parked" /\ Status'[c.job] = "waiting"
      BY Zenon, <1>s, <2>1, <2>3, <3>1, Seeing DEF Status, Replayable
    <3>3. Queue!Unpark(c.job)
      BY Zenon, <2>1, <3>1, <3>2, StatusMoves DEF Queue!Unpark, Queue!Move
    <3> QED
      BY Zenon, <2>1, <3>3 DEF Queue!Next
  <2> QED
    BY Zenon, <1>9, <2>2, <2>3 DEF Replay
<1>10. ASSUME job' = job, effects' = effects PROVE UNCHANGED <<Status, effects>>
  BY Zenon, <1>10, StatusKept
<1>11. ASSUME NEW j \in Jobs, EnqueueConflict(j) PROVE UNCHANGED <<Status, effects>>
  BY <1>10, <1>11 DEF EnqueueConflict
<1>12. ASSUME NEW w \in Workers, NEW j \in Jobs, SelectCandidate(w, j)
       PROVE  UNCHANGED <<Status, effects>>
  BY Zenon, <1>10, <1>12 DEF SelectCandidate
<1>13. ASSUME NEW w \in Workers, ClaimFails(w) PROVE UNCHANGED <<Status, effects>>
  BY Zenon, <1>10, <1>13 DEF ClaimFails
<1>14. ASSUME NEW h \in handles, SpendHandle(h) PROVE UNCHANGED <<Status, effects>>
  BY Zenon, <1>10, <1>14 DEF SpendHandle
<1>15. ASSUME NEW admin \in Admins, NEW j \in Jobs, VerifyReplayAuthorization(admin, j)
       PROVE  UNCHANGED <<Status, effects>>
  BY <1>10, <1>15 DEF VerifyReplayAuthorization
<1> QED
  BY Zenon, <1>1, <1>2, <1>3, <1>4, <1>5, <1>6, <1>7, <1>8, <1>9, <1>11, <1>12, <1>13, <1>14,
     <1>15 DEF Next, WorkerNext

(* The runtime implements a queue that works on one job of a partition at a  *)
(* time, commits the effects of a job once and never reopens a done job.     *)
THEOREM ImplementsJobQueueHolds == Spec => ImplementsJobQueue
<1>1. Init => Queue!Init
  BY Seeing DEF Init, NoRow, Queue!Init, Status
<1> QED
  BY <1>1, QueueStep, JobsCorrect, PTL
     DEF Spec, ImplementsJobQueue, Queue!Spec, Queue!vars
=============================================================================
