------------------------ MODULE CommercialAuthority ------------------------
(***************************************************************************)
(* How provider facts become the account's commercial authority.  Receipts *)
(* schedule generations of a reconciliation; a worker leases one, reads    *)
(* the provider outside any transaction and applies what it saw under the  *)
(* fences the job was planned with.  Deadlines, cancellation and refund    *)
(* commands move the slot and the authority meanwhile, refund evidence     *)
(* blocks access until its own lineage is settled or fails, and a release  *)
(* frees the slot for the next agreement.  The provider is Stripe, whose   *)
(* refunds and disputes are resources of their own.                        *)
(*                                                                         *)
(* The revisions of slot, agreement and authority only grow, and a job     *)
(* compares the ones it was planned with for equality.  A job therefore    *)
(* carries the set of those that are still current; an action that moves a *)
(* revision takes its name out of every job.  A job that fails its         *)
(* comparison once does so for ever: its worker only completes it, and it  *)
(* is left out here from that moment on.                                   *)
(***************************************************************************)
EXTENDS Naturals, FiniteSets

CONSTANTS Agreements,   \* agreements the account may acquire one after another
          Lineages,     \* refunds, reversals and disputes of the first payment
          OwnRefund,    \* the lineage of the refund the account asks for
          Kinds,        \* purchase kinds on offer
          MaxTime,      \* last instant of the clock
          MaxVersion,   \* versions of an agreement the provider makes by itself
          MaxAttempts,  \* commercial_jobs.max_attempts
          MaxFaults,    \* leases that run out, reads that fail, redrives
          Nobody

ASSUME AuthorityAssumption ==
    /\ Nobody \notin Agreements
    /\ OwnRefund \in Lineages /\ Kinds \subseteq {"subscription", "fixed_term"}
    /\ MaxTime \in Nat /\ MaxVersion \in Nat /\ MaxAttempts \in Nat \ {0} /\ MaxFaults \in Nat

Triggers == {"agreement"} \cup Lineages
Revisions == {"slot", "agreement", "authority"}

VARIABLES
    now,
    truth,     \* provider: the agreement's term, renewal, access, refunds, and version
    events,    \* authenticated receipts that wait to be bound
    agr,       \* provider_agreements, and the version last applied to them
    jobs,      \* reconciliation jobs that are not finished, with what their worker read
    auth,      \* commercial_authorities with its right; the projection follows it
    heads,     \* agreement_refund_evidence_heads
    first,     \* first_paid_purchase_eligibilities
    refund,    \* first_purchase_refund_requests
    cancel,    \* cancellation_intents
    slot,      \* commercial_provider_slots, its current operation, its eligibility row
    due,       \* due_authority jobs
    release,   \* a release job waits
    faults

commands == <<first, refund, cancel>>
vars == <<now, truth, events, agr, jobs, auth, heads, first, refund, cancel, slot, due, release, faults>>

NoTruth == [through |-> 0, renews |-> FALSE, active |-> FALSE, refund |-> [l \in Lineages |-> "none"], ver |-> 0]
NoAgreement == [kind |-> "none", through |-> 0, renews |-> FALSE, returned |-> FALSE, ver |-> 0]
Vacant == [holder |-> Nobody, op |-> "none", eligible |-> FALSE]

Init ==
    /\ now = 0 /\ faults = 0
    /\ truth = [g \in Agreements |-> NoTruth]
    /\ events = {}
    /\ agr = [g \in Agreements |-> NoAgreement]
    /\ jobs = {}
    /\ auth = [by |-> Nobody, state |-> "none", grants |-> FALSE, until |-> 0]
    /\ heads = [g \in Agreements |-> [l \in Lineages |-> "none"]]
    /\ first = [by |-> Nobody, state |-> "none"]
    /\ refund = [by |-> Nobody, state |-> "none"]
    /\ cancel = [g \in Agreements |-> "none"]
    /\ slot = Vacant
    /\ due = {}
    /\ release = FALSE

\* The dispositions of a reconciliation: a job is applied when its generation
\* is the newest and every revision it was planned with is current.
JobCurrent(j) == j.newest /\ j.fresh = Revisions

\* The dispositions of a deadline: it is the one of the current right.
DueCurrent(d) == d.fresh = Revisions

\* The jobs that can still be applied once some revisions have moved on.
OutdateJobs(work, moved) ==
    LET left == {[j EXCEPT !.fresh = @ \ moved] : j \in work} IN {j \in left : j.state = "dead_letter" \/ JobCurrent(j)}
OutdateDue(work, moved) ==
    LET left == {[d EXCEPT !.fresh = @ \ moved] : d \in work} IN {d \in left : DueCurrent(d)}

----------------------------------------------------------------------------
\* The provider's side

\* A change at the provider and the webhook it sends; a webhook is delivered
\* late and in any order, but not lost.
Change(g, new, trigger) ==
    /\ truth' = [truth EXCEPT ![g] = [new EXCEPT !.ver = @ + 1]]
    /\ events' = events \cup {<<g, trigger>>}

ProviderActs(g, new, trigger) ==
    /\ truth[g].ver < MaxVersion
    /\ Change(g, new, trigger)
    /\ UNCHANGED <<now, agr, jobs, auth, heads, commands, slot, due, release, faults>>

\* A term that ran out is renewed and paid.
Renew(g) ==
    /\ truth[g].renews /\ truth[g].through <= now
    /\ ProviderActs(g, [truth[g] EXCEPT !.through = now + 1], "agreement")

\* Access is suspended, or resumed.
Suspend(g) ==
    /\ agr[g].kind = "subscription"
    /\ ProviderActs(g, [truth[g] EXCEPT !.active = ~@], "agreement")

\* A refund or dispute that this account did not ask for.
OpenReversal(g, l) ==
    /\ agr[g].kind # "none" /\ l # OwnRefund /\ truth[g].refund[l] = "none"
    /\ ProviderActs(g, [truth[g] EXCEPT !.refund[l] = "pending"], l)

\* A pending lineage is settled in full, or fails.
ResolveReversal(g, l, outcome) ==
    /\ truth[g].refund[l] = "pending"
    /\ ProviderActs(g, [truth[g] EXCEPT !.refund[l] = outcome], l)

Tick ==
    /\ now < MaxTime
    /\ now' = now + 1
    /\ UNCHANGED <<truth, events, agr, jobs, auth, heads, commands, slot, due, release, faults>>

----------------------------------------------------------------------------
\* Acquisition and receipts

\* A job of the newest generation, planned with the current revisions.
Job(g, trigger, attempts) ==
    [g |-> g, trig |-> trigger, newest |-> TRUE, fresh |-> Revisions,
     attempts |-> attempts, state |-> "waiting", seen |-> NoTruth]

\* handoff_provider_agreement: the slot passes to a new agreement, whose
\* first reconciliation has no receipt.
HandOff(g, k) ==
    /\ slot.holder = Nobody /\ agr[g].kind = "none"
    /\ slot' = [Vacant EXCEPT !.holder = g]
    /\ truth' = [truth EXCEPT ![g] = [@ EXCEPT !.through = now + 1, !.renews = (k = "subscription"), !.active = TRUE]]
    /\ agr' = [agr EXCEPT ![g] = [@ EXCEPT !.kind = k, !.through = IF k = "fixed_term" THEN now + 1 ELSE 0]]
    /\ jobs' = OutdateJobs(jobs, {"slot"}) \cup {Job(g, "agreement", 0)}
    /\ due' = OutdateDue(due, {"slot"})
    /\ UNCHANGED <<now, events, auth, heads, commands, release, faults>>

\* A newer generation completes the waiting jobs and makes the others stale.
Superseded(g) ==
    OutdateJobs({IF j.g = g THEN [j EXCEPT !.newest = FALSE] ELSE j : j \in {k \in jobs : k.g = g => k.state # "waiting"}}, {})

\* bind_receipt_work; the job of an agreement that is not in the slot is stale
\* from the start.
BindReceipt(g, t) ==
    /\ <<g, t>> \in events
    /\ events' = events \ {<<g, t>>}
    /\ jobs' = Superseded(g) \cup (IF slot.holder = g THEN {Job(g, t, 0)} ELSE {})
    /\ UNCHANGED <<now, truth, agr, auth, heads, commands, slot, due, release, faults>>

----------------------------------------------------------------------------
\* Reconciliation

Becomes(j, k) == jobs' = (jobs \ {j}) \cup {k}

\* lease_reconciliation_work
LeaseReconciliation(j) ==
    /\ j.state = "waiting"
    /\ Becomes(j, [j EXCEPT !.state = "leased", !.attempts = IF @ < MaxAttempts THEN @ + 1 ELSE @])
    /\ UNCHANGED <<now, truth, events, agr, auth, heads, commands, slot, due, release, faults>>

\* reader.read: the provider's state of this moment.
ReadProvider(j) ==
    /\ j.state = "leased"
    /\ Becomes(j, [j EXCEPT !.state = "read", !.seen = truth[j.g]])
    /\ UNCHANGED <<now, truth, events, agr, auth, heads, commands, slot, due, release, faults>>

Faulty(j, state) ==
    /\ faults < MaxFaults
    /\ faults' = faults + 1
    /\ Becomes(j, [j EXCEPT !.state = state, !.seen = NoTruth])
    /\ UNCHANGED <<now, truth, events, agr, auth, heads, commands, slot, due, release>>

\* The lease of a slow or dead worker runs out; require_work refuses whatever
\* that worker still does with it.
LeaseExpires(j) == j.state \in {"leased", "read"} /\ Faulty(j, "waiting")

\* fail_bound_work: an error of the read, or of the database, is retried
\* until the attempts are used up.
FailBoundWork(j) ==
    j.state \in {"leased", "read"} /\ Faulty(j, IF j.attempts >= MaxAttempts THEN "dead_letter" ELSE "waiting")

\* redrive_dead_letter_job: a leased child with the parent's generation and
\* revisions, current or not; the parent is not redriven again.
Redrive(j) ==
    /\ j.state = "dead_letter" /\ faults < MaxFaults
    /\ faults' = faults + 1
    /\ jobs' = (jobs \ {j}) \cup {k \in {[j EXCEPT !.state = "leased", !.attempts = 1]} : JobCurrent(k)}
    /\ UNCHANGED <<now, truth, events, agr, auth, heads, commands, slot, due, release>>

\* What the reader makes of the resource the receipt names: pending stands
\* for every fact that blocks.
Fact(seen, trigger) == IF trigger \in Lineages THEN seen.refund[trigger] ELSE "none"

\* The evidence head of one lineage after a fact about it: a failure undoes a
\* block, a settlement is for good.
HeadAfter(head, fact) ==
    CASE fact = "settled" -> "settled"
      [] fact = "failed" /\ head = "blocking" -> "failed"
      [] fact = "pending" /\ head # "settled" -> "blocking"
      [] OTHER -> head

\* Only the lineage the receipt names moves.
HeadsAfter(g, trigger, fact) ==
    [l \in Lineages |-> IF l = trigger THEN HeadAfter(heads[g][l], fact) ELSE heads[g][l]]

\* The paid term: fixed at purchase, or the longest ever seen.
ThroughAfter(g, seen) ==
    IF agr[g].kind = "fixed_term" \/ agr[g].through > seen.through THEN agr[g].through ELSE seen.through

RefundLockedWhileEnding(g) == refund.by = g /\ refund.state = "termination_pending"  \* mutant
\* An accepted refund keeps its agreement from granting for ever.
RefundLocked(g) == refund.by = g \/ (first.state = "claimed" /\ first.by = g)

GrantsByFact(g, seen, fact, newHeads, through) ==  \* mutant
    ~RefundLocked(g) /\ fact \in {"none", "failed"} /\ through > now /\ seen.active
\* Whether an observation grants access.
Grants(g, seen, fact, newHeads, through) ==
    /\ ~RefundLocked(g)
    /\ \A l \in Lineages : newHeads[l] \notin {"blocking", "settled"}
    /\ fact \in {"none", "failed"}
    /\ through > now
    /\ seen.active

RightState(g, seen, fact, newHeads, through) ==
    IF RefundLocked(g) \/ (\E l \in Lineages : newHeads[l] = "settled") THEN "revoked"
    ELSE IF through <= now THEN "expired"
    ELSE IF Grants(g, seen, fact, newHeads, through) THEN "active" ELSE "suspended"

OverWhenElapsed(g, renews, newHeads, through) == through <= now  \* mutant
\* The agreement's paid time is over and it renews no more, or its price has
\* been returned in full.
Over(g, renews, newHeads, through) ==
    IF agr[g].kind = "fixed_term"
    THEN through <= now \/ \E l \in Lineages : newHeads[l] = "settled"
    ELSE ~renews /\ through <= now

\* The first payment opens the account's one refund; a reversal the account
\* did not ask for closes it.
FirstAfter(g, trigger, fact) ==
    LET opened == IF first.state = "none" THEN [by |-> g, state |-> "available"] ELSE first
    IN  IF opened.by = g /\ opened.state # "claimed" /\ fact = "settled" /\ trigger # OwnRefund
        THEN [opened EXCEPT !.state = "reversed"] ELSE opened

\* apply_agreement_observation_and_authority: evidence, agreement, authority,
\* refund and eligibility move together.  A lineage that still blocks is read
\* again in a new generation, within the attempts of this one; the others
\* that block wait for their turn, least recently updated first (here: any).
Apply(j) ==
    LET g == j.g
        seen == j.seen
        fact == Fact(seen, j.trig)
        newHeads == HeadsAfter(g, j.trig, fact)
        through == ThroughAfter(g, seen)
        blocking == {l \in Lineages : newHeads[l] = "blocking"}
        over == Over(g, seen.renews, newHeads, through)
        right == [by |-> g, state |-> RightState(g, seen, fact, newHeads, through),
                  grants |-> Grants(g, seen, fact, newHeads, through), until |-> through]
        moved == {"agreement"} \cup (IF right = auth THEN {} ELSE {"authority"})
        others == OutdateJobs(jobs \ {j}, moved)
    IN
    /\ j.state = "read"
    /\ heads' = [heads EXCEPT ![g] = newHeads]
    /\ auth' = right
    /\ agr' = [agr EXCEPT ![g] = [@ EXCEPT !.through = through, !.renews = seen.renews, !.ver = seen.ver,
                                           !.returned = \E l \in Lineages : seen.refund[l] = "settled"]]
    /\ first' = FirstAfter(g, j.trig, fact)
    /\ refund' = IF fact = "settled" /\ refund = [by |-> g, state |-> "refund_pending"]
                 THEN [refund EXCEPT !.state = "refunded"] ELSE refund
    /\ slot' = [slot EXCEPT !.eligible = @ \/ over]
    /\ IF blocking # {} /\ j.attempts < MaxAttempts
       THEN \E l \in blocking : jobs' = others \cup {Job(g, l, j.attempts)}
       ELSE jobs' = others \cup {[j EXCEPT !.state = "dead_letter", !.newest = FALSE, !.seen = NoTruth] : l \in blocking}
    /\ due' = OutdateDue(due, moved) \cup {[g |-> g, at |-> through, fresh |-> Revisions]}
    /\ release' = (release \/ (over /\ blocking = {}))
    /\ UNCHANGED <<now, truth, events, cancel, faults>>

----------------------------------------------------------------------------
\* Deadlines, commands and release

\* apply_due_authority: the right ends at its deadline.
ApplyDue(d) ==
    /\ d.at <= now
    /\ auth' = [auth EXCEPT !.state = "expired", !.grants = FALSE]
    /\ due' = OutdateDue(due \ {d}, {"authority"})
    /\ jobs' = OutdateJobs(jobs, {"authority"})
    /\ LET over == agr[d.g].kind = "fixed_term" \/ (~agr[d.g].renews /\ agr[d.g].through <= now)
       IN  slot' = [slot EXCEPT !.eligible = @ \/ over] /\ release' = (release \/ over)
    /\ UNCHANGED <<now, truth, events, agr, heads, commands, faults>>

\* A command puts its operation into the slot: a new slot version.
TakeSlot(o, moved) ==
    /\ slot' = [slot EXCEPT !.op = o, !.eligible = FALSE]
    /\ jobs' = OutdateJobs(jobs, moved)
    /\ due' = OutdateDue(due, moved)

\* request_cancellation; the command looked at the billing state in a
\* transaction before this one, so any operation may be in the slot by now.
RequestCancellation(g) ==
    /\ slot.holder = g /\ agr[g].kind = "subscription" /\ cancel[g] = "none"
    /\ cancel' = [cancel EXCEPT ![g] = "requested"]
    /\ TakeSlot("cancel", {"slot"})
    /\ UNCHANGED <<now, truth, events, agr, auth, heads, first, refund, release, faults>>

\* record_operation_result: the provider has confirmed the cancellation.
CancellationConfirmed(g) ==
    /\ slot.holder = g /\ slot.op = "cancel"
    /\ slot' = [slot EXCEPT !.op = "none"]
    /\ cancel' = [cancel EXCEPT ![g] = "scheduled"]
    /\ Change(g, [truth[g] EXCEPT !.renews = FALSE], "agreement")
    /\ release' = TRUE
    /\ UNCHANGED <<now, agr, jobs, auth, heads, first, refund, due, faults>>

\* request_first_purchase_refund, accepted: once in the account's life, for
\* the agreement that is in the slot and under the authority.
RequestRefund(g) ==
    /\ first = [by |-> g, state |-> "available"] /\ slot.holder = g /\ auth.by = g /\ ~agr[g].returned
    /\ first' = [first EXCEPT !.state = "claimed"]
    /\ refund' = [by |-> g, state |-> IF agr[g].kind = "subscription" THEN "termination_pending" ELSE "refund_pending"]
    /\ auth' = [auth EXCEPT !.state = "revoked", !.grants = FALSE]
    /\ TakeSlot(IF agr[g].kind = "subscription" THEN "terminate" ELSE "refund", {"slot", "authority"})
    /\ UNCHANGED <<now, truth, events, agr, heads, cancel, release, faults>>

\* record_operation_result: the termination is confirmed and the refund is
\* planned in a new slot version.
TerminationConfirmed(g) ==
    /\ slot.holder = g /\ slot.op = "terminate"
    /\ refund' = [refund EXCEPT !.state = "refund_pending"]
    /\ TakeSlot("refund", {"slot"})
    /\ Change(g, [truth[g] EXCEPT !.renews = FALSE], "agreement")
    /\ UNCHANGED <<now, agr, auth, heads, first, cancel, release, faults>>

\* record_operation_result: the provider has taken the refund.
RefundConfirmed(g) ==
    /\ slot.holder = g /\ slot.op = "refund"
    /\ slot' = [slot EXCEPT !.op = "none"]
    /\ Change(g, [truth[g] EXCEPT !.refund[OwnRefund] = "pending"], OwnRefund)
    /\ release' = (release \/ refund.state = "refunded")
    /\ UNCHANGED <<now, agr, jobs, auth, heads, commands, due, faults>>

\* What keeps an agreement that grants no access in its slot.
ReleaseBlocked(g) ==
    \/ \E l \in Lineages : heads[g][l] = "blocking"
    \/ refund.by = g /\ refund.state # "refunded"
    \/ cancel[g] = "requested"
    \/ slot.op # "none"

\* Releasable: no access, and the term is over by the evidence of this slot
\* version and by the agreement as it stands.
Releasable(g) == ~auth.grants /\ slot.eligible /\ Over(g, agr[g].renews, heads[g], agr[g].through)

\* release_provider_slot; a blocked job waits for its hour.
ReleaseSlot ==
    /\ release /\ slot.holder # Nobody
    /\ auth.grants \/ ~ReleaseBlocked(slot.holder)
    /\ release' = FALSE
    /\ IF Releasable(slot.holder)
       THEN slot' = Vacant /\ jobs' = OutdateJobs(jobs, {"slot"}) /\ due' = OutdateDue(due, {"slot"})
       ELSE UNCHANGED <<slot, jobs, due>>
    /\ UNCHANGED <<now, truth, events, agr, auth, heads, commands, faults>>

----------------------------------------------------------------------------
Reconcile == \E j \in jobs : LeaseReconciliation(j) \/ ReadProvider(j) \/ Apply(j)
Receive == \E g \in Agreements, t \in Triggers : BindReceipt(g, t)
Confirm == \E g \in Agreements : CancellationConfirmed(g) \/ TerminationConfirmed(g) \/ RefundConfirmed(g)

Next ==
    \/ Tick
    \/ \E g \in Agreements :
          \/ \E k \in Kinds : HandOff(g, k)
          \/ Renew(g) \/ Suspend(g)
          \/ \E l \in Lineages : OpenReversal(g, l) \/ \E o \in {"settled", "failed"} : ResolveReversal(g, l, o)
          \/ RequestCancellation(g) \/ RequestRefund(g)
    \/ Receive \/ Reconcile \/ Confirm
    \/ \E j \in jobs : LeaseExpires(j) \/ FailBoundWork(j) \/ Redrive(j)
    \/ \E d \in due : ApplyDue(d)
    \/ ReleaseSlot

Spec == Init /\ [][Next]_vars

----------------------------------------------------------------------------
\* Properties

Holders == Agreements \cup {Nobody}
Outcomes == {"none", "pending", "settled", "failed"}
TruthRow == [through : Nat, renews : BOOLEAN, active : BOOLEAN, refund : [Lineages -> Outcomes], ver : Nat]
JobStates == {"waiting", "leased", "read", "dead_letter"}
RightStates == {"none", "active", "suspended", "expired", "revoked"}
Operations == {"none", "cancel", "terminate", "refund"}
Evidence == {"none", "blocking", "failed", "settled"}
AgreementRow == [kind : Kinds \cup {"none"}, through : Nat, renews : BOOLEAN, returned : BOOLEAN, ver : Nat]
JobRow == [g : Agreements, trig : Triggers, newest : BOOLEAN, fresh : SUBSET Revisions, attempts : 0 .. MaxAttempts,
           state : JobStates, seen : TruthRow]
RightRow == [by : Holders, state : RightStates, grants : BOOLEAN, until : Nat]
SlotRow == [holder : Holders, op : Operations, eligible : BOOLEAN]
DueRow == [g : Agreements, at : Nat, fresh : SUBSET Revisions]

TypeOK ==
    /\ now \in 0 .. MaxTime /\ faults \in 0 .. MaxFaults /\ release \in BOOLEAN
    /\ truth \in [Agreements -> TruthRow] /\ events \subseteq Agreements \X Triggers
    /\ agr \in [Agreements -> AgreementRow] /\ jobs \subseteq JobRow /\ auth \in RightRow
    /\ heads \in [Agreements -> [Lineages -> Evidence]]
    /\ first \in [by : Holders, state : {"none", "available", "claimed", "reversed"}]
    /\ refund \in [by : Holders, state : {"none", "termination_pending", "refund_pending", "refunded"}]
    /\ cancel \in [Agreements -> {"none", "requested", "scheduled"}]
    /\ slot \in SlotRow /\ due \subseteq DueRow

\* Accepting a refund is an irreversible fence: no observation, read before or
\* after it by whichever worker, makes the agreement grant access again.
RefundedNeverGrants == refund.by # Nobody /\ auth.by = refund.by => ~auth.grants

\* While a lineage of refund evidence blocks, or once one is settled, the
\* agreement grants no access, whatever its other receipts report.
BlockedNeverGrants ==
    auth.by # Nobody /\ (\E l \in Lineages : heads[auth.by][l] \in {"blocking", "settled"}) => ~auth.grants

\* Only the truth about its own lineage lifts a block: a head resolved as
\* failed belongs to a refund that did fail at the provider.
FailedIsReal == \A g \in Agreements, l \in Lineages : heads[g][l] = "failed" => truth[g].refund[l] = "failed"

\* Observations take effect in the order of the provider's own history, also
\* when workers complete in reverse or a lease is lost.
ObservationsInOrder == [][\A g \in Agreements : agr'[g].ver >= agr[g].ver]_agr

\* A slot is given up only by an agreement whose paid term has run out at the
\* provider, or whose price was returned there: the account never holds two
\* running purchases, even if a renewal crosses the release.
PaidTermKeepsSlot ==
    [][\A g \in Agreements : slot.holder = g /\ slot'.holder # g =>
          truth[g].through <= now \/ \E l \in Lineages : truth[g].refund[l] = "settled"]_slot

\* A right expires no earlier than the term the agreement has been paid for,
\* however late an older deadline runs.
NotExpiredEarly == auth.state = "expired" => agr[auth.by].through <= now

=============================================================================
