-------------------------- MODULE ProviderDispatch --------------------------
(***************************************************************************)
(* Provider mutations of one account's commercial slot: checkout creation, *)
(* fixed-term capture, cancellation, refund termination and first-purchase *)
(* refund.  The slot names the one operation that may act.  An operation   *)
(* is carried out by a process that leases its work, reads the recorded    *)
(* state, obtains and consumes a dispatch permit, calls the provider       *)
(* outside any transaction, and records the answer; processes crash,       *)
(* leases run out, account commands take leases over, and calls stay in    *)
(* flight after their caller is gone.                                      *)
(***************************************************************************)
EXTENDS Naturals, FiniteSets

CONSTANTS Attempts,        \* purchase attempts, by their request ids
          Clients,         \* account commands in flight
          Workers,         \* provider operation workers
          CancelRequests,  \* request ids of cancellation commands
          Kinds,           \* purchases on offer
          MaxAttempts,     \* provider_operation_work.max_attempts
          MaxFaults,       \* crashes, early lease expiries, command replays, redrives
          Nobody

ASSUME LimitsAssumption == MaxAttempts \in Nat \ {0} /\ MaxFaults \in Nat

PurchaseKinds == {"stripe_subscription", "paypal_subscription", "stripe_fixed", "paypal_fixed"}
Subscriptions == {"stripe_subscription", "paypal_subscription"}
StripeKinds == {"stripe_subscription", "stripe_fixed"}
Processes == Clients \cup Workers
OpKinds == {"create", "capture", "terminate", "refund"} \cup CancelRequests
RefundKinds == {"terminate", "refund"}
Ops == Attempts \X OpKinds
Unresolved == {"planned", "permit_issued", "dispatch_consumed", "outcome_unknown"}
Final == {"confirmed", "rejected", "manual_resolution"}
WorkStates == {"absent", "ready", "leased", "retry_wait", "succeeded", "quarantined", "dead_letter"}
RefundStates == {"none", "termination_pending", "refund_pending", "retry_wait", "manual_resolution", "refunded"}
IntentStates == {"none", "requested", "outcome_unknown", "scheduled", "failed_retryable", "manual_resolution"}

VARIABLES
    kind,       \* purchase_attempts: what each reserved attempt buys, "none" before
    slot,       \* commercial_provider_slots and the eligibility row of its epoch
    op,         \* provider_operations: state, and whether the agreement is set
    work,       \* provider_operation_work: latest row of the operation's chain
    intent,     \* cancellation_intents, by request id
    refund,     \* first_purchase_refund_requests and the claimed eligibility
    grants,     \* commercial_authorities.grants_access
    paid,       \* first_paid_purchase_eligibilities: the first paid attempt
    ended,      \* attempts whose agreement renews no more and is paid out
    release,    \* a release job waits
    proc,       \* processes: step, operation, answer, and whether they read first
    wire,       \* operations with a call in flight whose caller is gone
    effect,     \* operations the provider carried out
    faults

vars == <<kind, slot, op, work, intent, refund, grants, paid, ended, release, proc, wire, effect, faults>>
provider == <<wire, effect>>
account == <<intent, refund, grants, paid, ended, release>>

Idle == [pc |-> "idle", op |-> Nobody, out |-> "none", read |-> FALSE]
NoOp == [state |-> "absent", linked |-> FALSE]
NoWork == [state |-> "absent", holder |-> Nobody, live |-> FALSE, attempts |-> 0, gen |-> 0]
Vacant == [state |-> "vacant", attempt |-> Nobody, op |-> Nobody, eligible |-> FALSE]

Init ==
    /\ kind = [a \in Attempts |-> "none"]
    /\ slot = Vacant
    /\ op = [o \in Ops |-> NoOp]
    /\ work = [o \in Ops |-> NoWork]
    /\ intent = [r \in CancelRequests |-> "none"]
    /\ refund = [attempt |-> Nobody, state |-> "none"]
    /\ grants = FALSE
    /\ paid = Nobody
    /\ ended = {}
    /\ release = FALSE
    /\ proc = [p \in Processes |-> Idle]
    /\ wire = {}
    /\ effect = {}
    /\ faults = 0

----------------------------------------------------------------------------
\* Leases and fences

\* The process holds the lease of the operation's work, unexpired and under
\* the token of the latest grant.
Holds(p, o) == work[o].state = "leased" /\ work[o].holder = p /\ work[o].live

\* The operation is the slot's current one and its holder is the slot's.
ExactCurrent(o) ==
    /\ slot.op = o
    /\ \/ slot.state = "attempt_held" /\ ~op[o].linked
       \/ slot.state = "agreement_held" /\ op[o].linked

\* A process starts on the work it was just given.
Begin(p, o) == proc' = [proc EXCEPT ![p] = [pc |-> "leased", op |-> o, out |-> "none", read |-> FALSE]]
Step(p, pc) == proc' = [proc EXCEPT ![p].pc = pc]
Leave(p) == proc' = [proc EXCEPT ![p] = Idle]

\* An error: the worker reports it with fail_bound_work, a command gives up.
Abort(p) == IF p \in Workers THEN proc' = [proc EXCEPT ![p] = [Idle EXCEPT !.pc = "failing", !.op = proc[p].op]] ELSE Leave(p)

LeaseTo(p, w) == [w EXCEPT !.state = "leased", !.holder = p, !.live = TRUE]
CloseTo(s, w) == [w EXCEPT !.state = s, !.holder = Nobody, !.live = FALSE]

\* A command finds the first work row of its operation; quarantined and
\* dead-lettered rows are immutable and ask for a controlled redrive.
CommandMayLease(o) == work[o].gen = 0 /\ work[o].state \notin {"absent", "quarantined", "dead_letter"}

----------------------------------------------------------------------------
\* Account commands

\* createCheckout, first use of a request id.
ReserveNew(c, a, k) ==
    LET o == <<a, "create">> IN
    /\ proc[c].pc = "idle" /\ kind[a] = "none" /\ slot.state = "vacant"
    /\ kind' = [kind EXCEPT ![a] = k]
    /\ op' = [op EXCEPT ![o].state = "planned"]
    /\ slot' = [state |-> "attempt_held", attempt |-> a, op |-> o, eligible |-> FALSE]
    /\ work' = [work EXCEPT ![o] = LeaseTo(c, @)]
    /\ Begin(c, o)
    /\ UNCHANGED <<account, provider, faults>>

\* createCheckout, the same request again: the lease moves to the command
\* whoever holds it, the operation is left as it is.
ReserveReplay(c, a) ==
    LET o == <<a, "create">> IN
    /\ proc[c].pc = "idle" /\ kind[a] # "none" /\ CommandMayLease(o) /\ faults < MaxFaults
    /\ work' = [work EXCEPT ![o] = LeaseTo(c, @)]
    /\ faults' = faults + 1
    /\ Begin(c, o)
    /\ UNCHANGED <<kind, slot, op, account, provider>>

\* cancelSubscription reads the billing status in a transaction of its own.
CancelStatus(c) ==
    /\ proc[c].pc = "idle" /\ slot.state = "agreement_held" /\ grants
    /\ proc' = [proc EXCEPT ![c] = [Idle EXCEPT !.pc = "cancelling", !.op = <<slot.attempt, "create">>]]
    /\ UNCHANGED <<kind, slot, op, work, account, provider, faults>>

\* request_cancellation: a new operation takes the slot over.
RequestCancellation(c, r) ==
    LET a == proc[c].op[1] o == <<a, r>> IN
    /\ proc[c].pc = "cancelling" /\ intent[r] = "none"
    /\ slot.state = "agreement_held" /\ slot.attempt = a /\ kind[a] \in Subscriptions
    /\ op' = [op EXCEPT ![o] = [state |-> "planned", linked |-> TRUE]]
    /\ intent' = [intent EXCEPT ![r] = "requested"]
    /\ slot' = [slot EXCEPT !.op = o, !.eligible = FALSE]
    /\ work' = [work EXCEPT ![o] = LeaseTo(c, @)]
    /\ Begin(c, o)
    /\ UNCHANGED <<kind, refund, grants, paid, ended, release, provider, faults>>

\* request_cancellation, the same request again.
ReplayCancellation(c, r) ==
    LET a == proc[c].op[1] o == <<a, r>> IN
    /\ proc[c].pc = "cancelling" /\ intent[r] # "none"
    /\ slot.state = "agreement_held" /\ slot.attempt = a /\ CommandMayLease(o) /\ faults < MaxFaults
    /\ work' = [work EXCEPT ![o] = LeaseTo(c, @)]
    /\ faults' = faults + 1
    /\ Begin(c, o)
    /\ UNCHANGED <<kind, slot, op, account, provider>>

\* cancelSubscription is refused: the slot has moved on, the purchase is no
\* subscription, or the work asks for a redrive.
CancelRefused(c, r) ==
    LET a == proc[c].op[1] IN
    /\ proc[c].pc = "cancelling"
    /\ \/ slot.state # "agreement_held" \/ slot.attempt # a \/ kind[a] \notin Subscriptions
       \/ intent[r] # "none" /\ (~CommandMayLease(<<a, r>>) \/ faults = MaxFaults)
    /\ Leave(c)
    /\ UNCHANGED <<kind, slot, op, work, account, provider, faults>>

\* confirm_fixed_term_capture: new, or the same request again.
ConfirmCapture(c) ==
    LET a == slot.attempt o == <<a, "capture">> IN
    /\ proc[c].pc = "idle" /\ slot.state = "attempt_held" /\ kind[a] = "paypal_fixed"
    /\ \/ /\ slot.op = <<a, "create">> /\ op[slot.op].state = "confirmed"
          /\ op' = [op EXCEPT ![o].state = "planned"]
          /\ slot' = [slot EXCEPT !.op = o, !.eligible = FALSE]
          /\ UNCHANGED faults
       \/ /\ slot.op = o /\ CommandMayLease(o) /\ faults < MaxFaults
          /\ faults' = faults + 1
          /\ UNCHANGED <<op, slot>>
    /\ work' = [work EXCEPT ![o] = LeaseTo(c, @)]
    /\ Begin(c, o)
    /\ UNCHANGED <<kind, account, provider>>

\* request_first_purchase_refund: accepted once per account; access ends with
\* the acceptance and the termination (or refund) takes the slot over.
RequestRefund ==
    LET a == slot.attempt
        o == IF kind[a] \in Subscriptions THEN <<a, "terminate">> ELSE <<a, "refund">> IN
    /\ slot.state = "agreement_held" /\ refund.state = "none" /\ paid = a
    /\ op' = [op EXCEPT ![o] = [state |-> "planned", linked |-> TRUE]]
    /\ refund' = [attempt |-> a, state |-> IF kind[a] \in Subscriptions THEN "termination_pending" ELSE "refund_pending"]
    /\ grants' = FALSE
    /\ slot' = [slot EXCEPT !.op = o, !.eligible = FALSE]
    /\ work' = [work EXCEPT ![o].state = "ready"]
    /\ UNCHANGED <<kind, intent, paid, ended, release, proc, provider, faults>>

----------------------------------------------------------------------------
\* Work leases

\* Due work of the current operation; refund work in retry_wait also needs
\* its request to wait for a retry.
Leasable(o) ==
    /\ ExactCurrent(o)
    /\ \/ work[o].state = "ready"
       \/ work[o].state = "retry_wait" /\ (o[2] \in RefundKinds => refund.state = "retry_wait")
       \/ work[o].state = "leased" /\ ~work[o].live

\* What a lease that ran out leaves of the operation: an unused permit is
\* revoked, a consumed one makes the outcome unknown.
Abandoned(s) ==
    CASE s = "permit_issued" -> "planned"
      [] s = "dispatch_consumed" -> "outcome_unknown"
      [] OTHER -> s

\* lease_provider_operation_work
LeaseWork(w, o) ==
    /\ proc[w].pc = "idle" /\ Leasable(o)
    /\ op' = [op EXCEPT ![o].state = IF work[o].state = "leased" THEN Abandoned(@) ELSE @]
    /\ work' = [work EXCEPT ![o] = [LeaseTo(w, @) EXCEPT
                    !.attempts = IF @ < MaxAttempts THEN @ + 1 ELSE @]]
    /\ Begin(w, o)
    /\ UNCHANGED <<kind, slot, account, provider, faults>>

\* The thirty seconds of a lease pass before the work is given back.
LeaseExpires(o) ==
    /\ work[o].state = "leased" /\ work[o].live /\ faults < MaxFaults
    /\ work' = [work EXCEPT ![o].live = FALSE]
    /\ faults' = faults + 1
    /\ UNCHANGED <<kind, slot, op, account, proc, provider>>

\* A call outlives its caller; once the operation is done it changes nothing.
Orphan(p) == wire' = IF proc[p].pc = "calling" THEN wire \cup ({proc[p].op} \ effect) ELSE wire

\* A process dies, or its command is abandoned; its lease and its call stay.
Crash(p) ==
    /\ proc[p].pc # "idle" /\ faults < MaxFaults
    /\ Leave(p)
    /\ Orphan(p)
    /\ faults' = faults + 1
    /\ UNCHANGED <<kind, slot, op, work, account, effect>>

\* A lease nobody serves any more runs out in any case.
OrphanExpires(o) ==
    /\ work[o].state = "leased" /\ work[o].live
    /\ work[o].holder \in Processes => proc[work[o].holder].op # o \/ proc[work[o].holder].pc = "cancelling"
    /\ work' = [work EXCEPT ![o].live = FALSE]
    /\ UNCHANGED <<kind, slot, op, account, proc, provider, faults>>

\* redrive_dead_letter_operation: a leased child continues the operation.
Redrive(o) ==
    /\ work[o].state = "dead_letter" /\ faults < MaxFaults
    /\ work' = [work EXCEPT ![o] = [state |-> "leased", holder |-> Nobody, live |-> TRUE,
                                    attempts |-> 1, gen |-> @.gen + 1]]
    /\ faults' = faults + 1
    /\ UNCHANGED <<kind, slot, op, account, proc, provider>>

----------------------------------------------------------------------------
\* One execution: replay, recover, permit, call, record

NeedsHandoff(o) == <<kind[o[1]], o[2]>> \in {<<"paypal_subscription", "create">>, <<"paypal_fixed", "capture">>}

\* What follows a recorded or replayed result: a worker hands a confirmed
\* PayPal agreement over, and so does createCheckout for a subscription.
AfterResult(p, o, out) ==
    IF out = "confirmed" /\ NeedsHandoff(o) /\ ~op[o].linked /\ (p \in Workers \/ o[2] = "create")
    THEN Step(p, "handoff")
    ELSE Leave(p)

\* heartbeat_bound_work and read_operation_replay
ReadReplay(p) ==
    LET o == proc[p].op s == op[o].state IN
    /\ proc[p].pc = "leased"
    /\ \/ /\ ~Holds(p, o)
          /\ Abort(p)
          /\ UNCHANGED work
       \/ /\ Holds(p, o) /\ s \in Final
          /\ work' = [work EXCEPT ![o] = IF s = "confirmed" /\ NeedsHandoff(o) /\ ~op[o].linked
                                         THEN @ ELSE CloseTo("succeeded", @)]
          /\ AfterResult(p, o, s)
       \/ /\ Holds(p, o) /\ s \notin Final
          /\ Step(p, IF s = "outcome_unknown" \/ o[2] \in RefundKinds THEN "recover" ELSE "dispatch")
          /\ UNCHANGED work
    /\ UNCHANGED <<kind, slot, op, account, provider, faults>>

Ends == CancelRequests \cup {"terminate"}

\* StripeCommercialCheckoutGateway.recover: what its reads can find.  A
\* cancellation is found in a subscription that ends in any way, a refund
\* termination only in one that is canceled, a refund by its operation id.
StripeFinds(o) ==
    \/ o[2] \in CancelRequests /\ \E k \in Ends : <<o[1], k>> \in effect
    \/ o[2] \in RefundKinds /\ o \in effect

\* PayPalCommercialCheckoutGateway.recover: a cancelled subscription answers
\* for every kind of ending; a completed order for the capture, a refunded
\* payment for the refund.
PayPalFinds(o) ==
    \/ o[2] \in Ends /\ \E k \in Ends : <<o[1], k>> \in effect
    \/ o[2] \in {"capture", "refund"} /\ o \in effect

\* The gateway of the attempt's provider; a creation without a recorded
\* resource has nothing to look for.
Finds(o) == IF kind[o[1]] \in StripeKinds THEN StripeFinds(o) ELSE PayPalFinds(o)

\* The provider resource an operation aims at is in the state it asks for.
InEffect(o) == o \in effect \/ Finds(o)

\* execute, recovery before a write: a read may miss what was done.  Its
\* error, except a mismatch found while the outcome is unknown, ends the
\* execution.
Recover(p) ==
    LET o == proc[p].op IN
    /\ proc[p].pc = "recover"
    /\ \/ /\ Finds(o)
          /\ proc' = [proc EXCEPT ![p].pc = "permit", ![p].out = "confirmed", ![p].read = TRUE]
       \/ proc' = [proc EXCEPT ![p].pc = "dispatch", ![p].read = TRUE]
       \/ /\ o[2] = "capture" /\ o \in effect
          /\ proc' = [proc EXCEPT ![p].pc = "permit", ![p].out = "manual_resolution", ![p].read = TRUE]
       \/ Abort(p)
    /\ UNCHANGED <<kind, slot, op, work, account, provider, faults>>

\* issue_dispatch_permit, for a call ("dispatch") or for a recovered answer.
IssuePermit(p) ==
    LET o == proc[p].op IN
    /\ proc[p].pc \in {"dispatch", "permit"}
    /\ IF Holds(p, o) /\ ExactCurrent(o) /\ op[o].state \in {"planned", "outcome_unknown"}
       THEN /\ op' = [op EXCEPT ![o].state = "permit_issued"]
            /\ Step(p, IF proc[p].pc = "dispatch" THEN "consume" ELSE "consume_recovered")
       ELSE Abort(p) /\ UNCHANGED op
    /\ UNCHANGED <<kind, slot, work, account, provider, faults>>

\* consume_dispatch_permit, then the SDK call leaves; the permit may have
\* outlived its sixty seconds.
ConsumePermit(p) ==
    LET o == proc[p].op IN
    /\ proc[p].pc \in {"consume", "consume_recovered"}
    /\ \/ /\ Holds(p, o) /\ ExactCurrent(o) /\ op[o].state = "permit_issued"
          /\ op' = [op EXCEPT ![o].state = "dispatch_consumed"]
          /\ IF proc[p].pc = "consume" THEN proc' = [proc EXCEPT ![p].pc = "calling", ![p].read = FALSE]
                                      ELSE Step(p, "record")
       \/ /\ Abort(p)
          /\ UNCHANGED op
    /\ UNCHANGED <<kind, slot, work, account, wire, effect, faults>>

\* StripeCommercialCheckoutGateway: only creation and refund map provider
\* errors to a rejection, and for a creation any client error does, also one
\* of a repeated key; a session that does not match asks for an operator.
StripeAnswers(o, done) ==
    {"outcome_unknown"}
    \cup (IF done THEN {"confirmed"} ELSE {})
    \cup (IF o[2] = "create" THEN {"rejected"} ELSE {})
    \cup (IF o[2] = "create" /\ done THEN {"manual_resolution"} ELSE {})
    \cup (IF o[2] = "refund" /\ ~done THEN {"rejected"} ELSE {})

\* PayPalCommercialCheckoutGateway: likewise, with reads around the keyed
\* write of a creation, and a capture that checks its order before and after.
PayPalAnswers(o, done) ==
    {"outcome_unknown"}
    \cup (IF done THEN {"confirmed"} ELSE {})
    \cup (IF o[2] = "create" THEN {"rejected"} ELSE {})
    \cup (IF o[2] = "capture" \/ (o[2] = "create" /\ done) THEN {"manual_resolution"} ELSE {})
    \cup (IF o[2] = "refund" /\ ~done THEN {"rejected"} ELSE {})

AnswersHopeful(o, done) == {"confirmed", "outcome_unknown"}  \* mutant
\* What execute makes of the gateway's answer or error.
Answers(o, done) == IF kind[o[1]] \in StripeKinds THEN StripeAnswers(o, done) ELSE PayPalAnswers(o, done)

\* The provider carries a keyed operation out at most once, or fails.
Perform(o, done) ==
    /\ o \in effect => done
    /\ effect' = IF done THEN effect \cup {o} ELSE effect

\* A caller gets its answer.
Answer(p) ==
    LET o == proc[p].op IN
    /\ proc[p].pc = "calling"
    /\ \E done \in BOOLEAN : /\ Perform(o, done)
                             /\ wire' = IF done THEN wire \ {o} ELSE wire
                             /\ \E out \in Answers(o, done) : proc' = [proc EXCEPT ![p].pc = "record", ![p].out = out]
    /\ UNCHANGED <<kind, slot, op, work, account, faults>>

\* The caller's connection times out while its call is still in flight.
CallTimesOut(p) ==
    /\ proc[p].pc = "calling"
    /\ proc' = [proc EXCEPT ![p].pc = "record", ![p].out = "outcome_unknown"]
    /\ Orphan(p)
    /\ UNCHANGED <<kind, slot, op, work, account, effect, faults>>

\* A call without a caller arrives, or is lost.
Arrive(o) ==
    /\ o \in wire
    /\ wire' = wire \ {o}
    /\ \E done \in BOOLEAN : Perform(o, done)
    /\ UNCHANGED <<kind, slot, op, work, account, proc, faults>>

----------------------------------------------------------------------------
\* record_operation_result

Exhausted(o) == work[o].attempts >= MaxAttempts

IntentAfter(o, out) ==
    IF o[2] \in CancelRequests /\ intent[o[2]] # "scheduled"
    THEN [intent EXCEPT ![o[2]] = CASE out = "confirmed" -> "scheduled"
                                    [] out = "rejected" -> "failed_retryable"
                                    [] OTHER -> out]
    ELSE intent

RefundAfter(o, out) ==
    IF o[2] \notin RefundKinds \/ refund.state = "refunded" THEN refund
    ELSE [refund EXCEPT !.state =
            CASE out = "confirmed" -> "refund_pending"
              [] out = "outcome_unknown" /\ ~Exhausted(o) -> "retry_wait"
              [] OTHER -> "manual_resolution"]

PlansRefundUnconfirmed(o, out) == o[2] = "terminate" /\ refund.state # "refunded" /\ op[<<o[1], "refund">>].state = "absent"  \* mutant
\* A confirmed termination plans the refund operation and gives it the slot.
PlansRefund(o, out) ==
    o[2] = "terminate" /\ out = "confirmed" /\ refund.state # "refunded" /\ op[<<o[1], "refund">>].state = "absent"

WorkAfter(o, out) ==
    CASE out = "outcome_unknown" -> CloseTo(IF Exhausted(o) THEN "dead_letter" ELSE "retry_wait", work[o])
      [] out = "confirmed" /\ NeedsHandoff(o) -> work[o]
      [] OTHER -> CloseTo("succeeded", work[o])

\* A rejected attempt, a confirmed cancellation and a settled refund wake or
\* create the release job.
WakesRelease(o, out) ==
    \/ out = "rejected" /\ slot.state = "attempt_held" /\ o[2] \notin CancelRequests
    \/ out = "confirmed" /\ o[2] \in CancelRequests
    \/ o[2] \in RefundKinds /\ refund.state = "refunded"

Record(p) ==
    LET o == proc[p].op
        out == proc[p].out
        next == <<o[1], "refund">>
    IN
    /\ proc[p].pc = "record"
    /\ IF ~(Holds(p, o) /\ ExactCurrent(o) /\ op[o].state = "dispatch_consumed")
       THEN Abort(p) /\ UNCHANGED <<op, work, slot, intent, refund, release>>
       ELSE /\ op' = [op EXCEPT ![o].state = out,
                                ![next] = IF PlansRefund(o, out) THEN [state |-> "planned", linked |-> TRUE] ELSE @]
            /\ work' = [work EXCEPT ![o] = WorkAfter(o, out),
                                    ![next] = IF PlansRefund(o, out) THEN [NoWork EXCEPT !.state = "ready"] ELSE @]
            /\ slot' = [slot EXCEPT !.op = IF PlansRefund(o, out) THEN next ELSE @,
                                    !.eligible = CASE PlansRefund(o, out) -> FALSE
                                                   [] out = "rejected" /\ slot.state = "attempt_held"
                                                      /\ o[2] \notin CancelRequests -> TRUE
                                                   [] OTHER -> @]
            /\ intent' = IntentAfter(o, out)
            /\ refund' = RefundAfter(o, out)
            /\ release' = (release \/ WakesRelease(o, out))
            /\ AfterResult(p, o, out)
    /\ UNCHANGED <<kind, grants, paid, ended, provider, faults>>

\* The recorded resources conflict with a binding of another attempt: the
\* work is quarantined and the operation keeps its consumed permit.
RecordConflict(p) ==
    LET o == proc[p].op IN
    /\ proc[p].pc = "record" /\ proc[p].out = "confirmed" /\ o[2] \in {"create", "refund"}
    /\ Holds(p, o) /\ ExactCurrent(o) /\ op[o].state = "dispatch_consumed"
    /\ work' = [work EXCEPT ![o] = CloseTo("quarantined", @)]
    /\ refund' = IF o[2] \in RefundKinds /\ refund.state # "refunded" THEN [refund EXCEPT !.state = "manual_resolution"] ELSE refund
    /\ Leave(p)
    /\ UNCHANGED <<kind, slot, op, intent, grants, paid, ended, release, provider, faults>>

\* fail_bound_work, with a transient failure or one that quarantines.
FailBoundWork(w) ==
    LET o == proc[w].op IN
    /\ proc[w].pc = "failing"
    /\ IF ~(Holds(w, o) /\ ExactCurrent(o)) THEN UNCHANGED <<op, work, refund>>
       ELSE \E next \in {"quarantined", IF Exhausted(o) THEN "dead_letter" ELSE "retry_wait"} :
            /\ op' = [op EXCEPT ![o].state = IF @ \in {"permit_issued", "dispatch_consumed"} THEN "outcome_unknown" ELSE @]
            /\ work' = [work EXCEPT ![o] = CloseTo(next, @)]
            /\ refund' = IF o[2] \in RefundKinds /\ refund.state # "refunded"
                         THEN [refund EXCEPT !.state = IF next = "retry_wait" THEN next ELSE "manual_resolution"]
                         ELSE refund
    /\ Leave(w)
    /\ UNCHANGED <<kind, slot, intent, grants, paid, ended, release, provider, faults>>

----------------------------------------------------------------------------
\* Agreement handoff, observations and release

\* The slot passes from the attempt to its agreement.
BindAgreement(o) ==
    /\ slot' = [slot EXCEPT !.state = "agreement_held", !.eligible = FALSE]
    /\ op' = [op EXCEPT ![o].linked = TRUE]

\* handoff_provider_agreement by the process that holds the work.
Handoff(p) ==
    LET o == proc[p].op IN
    /\ proc[p].pc = "handoff"
    /\ \/ /\ Holds(p, o) /\ op[o].state = "confirmed"
          /\ \/ slot.state = "attempt_held" /\ slot.attempt = o[1] /\ BindAgreement(o)
             \/ slot.state = "agreement_held" /\ slot.attempt = o[1] /\ op[o].linked /\ UNCHANGED <<slot, op>>
          /\ work' = [work EXCEPT ![o] = CloseTo("succeeded", @)]
          /\ Leave(p)
       \/ /\ Abort(p)
          /\ UNCHANGED <<slot, op, work>>
    /\ UNCHANGED <<kind, account, provider, faults>>

\* A receipt hands a Stripe agreement over, once the creation is confirmed.
ReceiptHandoff ==
    LET o == slot.op IN
    /\ slot.state = "attempt_held" /\ o[2] = "create" /\ op[o].state = "confirmed"
    /\ kind[o[1]] \in StripeKinds
    /\ BindAgreement(o)
    /\ UNCHANGED <<kind, work, account, proc, provider, faults>>

\* A reconciliation finds the agreement paid and running.
ObservePaid ==
    /\ slot.state = "agreement_held" /\ ~grants /\ slot.attempt \notin ended
    /\ refund.attempt # slot.attempt
    /\ grants' = TRUE
    /\ paid' = IF paid = Nobody THEN slot.attempt ELSE paid
    /\ UNCHANGED <<kind, slot, op, work, intent, refund, ended, release, proc, provider, faults>>

\* The provider lets the agreement run out, or a reconciliation finds that it
\* renews no more and its paid time is over.
ObserveEnded ==
    LET a == slot.attempt IN
    /\ slot.state = "agreement_held" /\ ~slot.eligible
    /\ kind[a] \in Subscriptions => InEffect(<<a, "terminate">>) \/ \E r \in CancelRequests : InEffect(<<a, r>>)
    /\ grants' = FALSE
    /\ ended' = ended \cup {a}
    /\ slot' = [slot EXCEPT !.eligible = TRUE]
    /\ release' = TRUE
    /\ UNCHANGED <<kind, op, work, intent, refund, paid, proc, provider, faults>>

\* A reconciliation finds the accepted refund settled in full.
ObserveRefunded ==
    /\ refund.state \notin {"none", "refunded"} /\ <<refund.attempt, "refund">> \in effect
    /\ refund' = [refund EXCEPT !.state = "refunded"]
    /\ UNCHANGED <<kind, slot, op, work, intent, grants, paid, ended, release, proc, provider, faults>>

\* What keeps an agreement in its slot.
ReleaseBlocked ==
    \/ refund.attempt = slot.attempt /\ refund.state # "refunded"
    \/ \E r \in CancelRequests : op[<<slot.attempt, r>>].linked
          /\ intent[r] \in {"requested", "outcome_unknown", "failed_retryable", "manual_resolution"}
    \/ /\ slot.op[2] \in RefundKinds \cup CancelRequests
       /\ \/ op[slot.op].state \in Unresolved \cup {"manual_resolution"}
          \/ work[slot.op].state \in {"ready", "leased", "retry_wait", "quarantined", "dead_letter"}

\* release_provider_slot; a blocked job waits an hour and comes back.
ReleaseSlot ==
    /\ release
    /\ IF slot.state = "agreement_held" /\ ~grants /\ ReleaseBlocked
       THEN UNCHANGED <<slot, release>>
       ELSE /\ release' = FALSE
            /\ slot' = IF /\ slot.eligible
                          /\ slot.state = "agreement_held" => ~grants /\ slot.attempt \in ended
                       THEN Vacant ELSE slot
    /\ UNCHANGED <<kind, op, work, intent, refund, grants, paid, ended, proc, provider, faults>>

----------------------------------------------------------------------------
ProcessStep(p) ==
    \/ ReadReplay(p) \/ Recover(p) \/ IssuePermit(p) \/ ConsumePermit(p) \/ Answer(p) \/ CallTimesOut(p)
    \/ Record(p) \/ RecordConflict(p) \/ Handoff(p)
    \/ p \in Workers /\ FailBoundWork(p)

Next ==
    \/ \E c \in Clients : \/ \E a \in Attempts : ReserveReplay(c, a) \/ \E k \in Kinds : ReserveNew(c, a, k)
                          \/ CancelStatus(c)
                          \/ \E r \in CancelRequests : RequestCancellation(c, r) \/ ReplayCancellation(c, r) \/ CancelRefused(c, r)
                          \/ ConfirmCapture(c)
    \/ RequestRefund
    \/ \E w \in Workers, o \in Ops : LeaseWork(w, o)
    \/ \E o \in Ops : LeaseExpires(o) \/ OrphanExpires(o) \/ Redrive(o) \/ Arrive(o)
    \/ \E p \in Processes : ProcessStep(p) \/ Crash(p)
    \/ ReceiptHandoff \/ ObservePaid \/ ObserveEnded \/ ObserveRefunded \/ ReleaseSlot

Spec == Init /\ [][Next]_vars

----------------------------------------------------------------------------
\* Properties

TypeOK ==
    /\ kind \in [Attempts -> PurchaseKinds \cup {"none"}]
    /\ slot.state \in {"vacant", "attempt_held", "agreement_held"}
    /\ slot.state = "vacant" <=> slot.attempt = Nobody
    /\ slot.state # "vacant" => slot.attempt \in Attempts /\ slot.op \in Ops /\ slot.op[1] = slot.attempt
    /\ \A o \in Ops : /\ op[o].state \in {"absent"} \cup Unresolved \cup Final
                      /\ work[o].state \in WorkStates
                      /\ op[o].state = "absent" <=> work[o].state = "absent"
                      /\ work[o].state # "leased" => work[o].holder = Nobody
    /\ intent \in [CancelRequests -> IntentStates]
    /\ refund.state \in RefundStates
    /\ wire \subseteq Ops \ effect

InFlight == wire \cup {proc[p].op : p \in {q \in Processes : proc[q].pc = "calling"}}

\* An operation recorded as confirmed has been carried out by the provider:
\* neither a late answer, nor a recovery read, nor a lease that changed hands
\* turns a lost call into a confirmation (record_operation_result).
ConfirmedIsReal == \A o \in Ops : op[o].state = "confirmed" => InEffect(o)

\* The refund of a subscription's first payment is sent only after the
\* provider has ended the subscription, whichever worker, lease or redrive
\* carries the two operations.
RefundAfterTermination ==
    \A a \in Attempts : <<a, "refund">> \in effect \cup InFlight /\ kind[a] \in Subscriptions => InEffect(<<a, "terminate">>)

=============================================================================
