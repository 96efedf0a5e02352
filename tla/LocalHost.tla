------------------------------ MODULE LocalHost ------------------------------
(* The authority of DesktopLocalHost over the local workspace.             *)
(*                                                                         *)
(* A transition (a new Grant or a lock) first raises                       *)
(* transition_requested_epoch without any lock and only then queues for    *)
(* the aggregate lock operation_selection -> authority_publication ->      *)
(* runtime_state, so transitions may be applied in another order than they *)
(* were requested. A business or sync write takes the same locks, checks   *)
(* the authority it finds, works, and checks again right before its        *)
(* COMMIT. The composition without a continuity manager is modelled, the   *)
(* one the production build creates.                                       *)
EXTENDS Naturals

CONSTANT MaxRequests    \* transitions requested in the life of one process

ASSUME RequestsAssumption == MaxRequests \in Nat

VARIABLES
    requested,      \* transition_requested_epoch
    applied,        \* applied_authority_epoch
    restriction,    \* RuntimeRestriction
    authority,      \* "none", or whether the clock is within its time window
    runtime,        \* runtime_state holds an open workspace
    waiting,        \* transitions that have their epoch and wait for the locks
    holder,         \* who holds the aggregate lock across several steps
    fenced,         \* the holder has passed its commit fence
    run,            \* a Native Cloud run is admitted on the open runtime
    lockedThrough   \* history: the highest epoch that closed the runtime

hostVars == <<requested, applied, restriction, authority, runtime, waiting,
              holder, fenced, run, lockedThrough>>

(* A lock is enter_security_lock, enter_retryable_lock or commercial read-only, *)
(* which needs a current continuation and is aborted in this composition. They *)
(* differ in the restriction they publish: SecurityLocked or RetryableLocked,  *)
(* here "Locked".                                                              *)
Kinds == {"grant", "lock"}
Restrictions == {"ActivationRequired", "Active", "Locked"}
Holders == {"none", "write", "sync", "rebootstrap"}

HostTypeOK ==
    /\ requested \in 0..MaxRequests
    /\ applied \in 0..MaxRequests
    /\ restriction \in Restrictions
    /\ authority \in {"none", "current", "outside"}
    /\ runtime \in BOOLEAN
    /\ waiting \subseteq [kind : Kinds, epoch : 1..MaxRequests]
    /\ holder \in Holders
    /\ fenced \in BOOLEAN
    /\ run \in BOOLEAN
    /\ lockedThrough \in 0..MaxRequests

HostInit ==
    /\ requested = 0
    /\ applied = 0
    /\ restriction = "ActivationRequired"
    /\ authority = "none"
    /\ runtime = FALSE
    /\ waiting = {}
    /\ holder = "none"
    /\ fenced = FALSE
    /\ run = FALSE
    /\ lockedThrough = 0

-----------------------------------------------------------------------------
(* Transitions *)

Request(kind) ==
    /\ requested < MaxRequests
    /\ requested' = requested + 1
    /\ waiting' = waiting \cup {[kind |-> kind, epoch |-> requested + 1]}
    /\ UNCHANGED <<applied, restriction, authority, runtime, holder, fenced, run, lockedThrough>>

Settles(t) ==
    /\ holder = "none"
    /\ t \in waiting
    /\ waiting' = waiting \ {t}
    /\ applied' = t.epoch
    /\ UNCHANGED <<requested, holder, fenced>>

(* A new or a dropped runtime has another nonce: no admitted run holds on it. *)
ClosedBy(t) ==
    /\ Settles(t)
    /\ restriction' = "Locked"
    /\ authority' = "none"
    /\ runtime' = FALSE
    /\ run' = FALSE
    /\ lockedThrough' = IF t.epoch > lockedThrough THEN t.epoch ELSE lockedThrough

Granted(t) ==
    /\ t.kind = "grant"
    /\ Settles(t)
    /\ restriction' = "Active"
    /\ authority' = "current"
    /\ runtime' = TRUE
    /\ run' = FALSE
    /\ UNCHANGED lockedThrough

(* abort_transition: a Grant that is refused. *)
Aborted(t) == t.kind = "grant" /\ ClosedBy(t)

Locked(t) == t.kind = "lock" /\ ClosedBy(t)

(* The wall clock leaves the authority's window or steps back into it. *)
ClockMoves ==
    /\ authority # "none"
    /\ authority' = IF authority = "current" THEN "outside" ELSE "current"
    /\ UNCHANGED <<requested, applied, restriction, runtime, waiting, holder, fenced, run,
                   lockedThrough>>

-----------------------------------------------------------------------------
(* Operations under the authority *)

(* Authorized without the comparison with the requested epoch. *)
AuthorizedAsApplied == restriction = "Active" /\ authority = "current"

Authorized ==
    /\ restriction = "Active"
    /\ requested = applied
    /\ authority = "current"

FenceHolds == requested = applied /\ authority = "current"

Take(who) ==
    /\ holder = "none"
    /\ Authorized
    /\ runtime
    /\ holder' = who
    /\ UNCHANGED <<requested, applied, restriction, authority, runtime, waiting, fenced, run,
                   lockedThrough>>

BeginWrite == Take("write")

AdmitRun ==
    /\ holder = "none" /\ Authorized /\ runtime
    /\ run' = TRUE
    /\ UNCHANGED <<requested, applied, restriction, authority, runtime, waiting, holder, fenced,
                   lockedThrough>>

BeginSyncWrite == run /\ Take("sync")

(* The run ends: it is done, or its recheck fails. *)
EndRun ==
    /\ holder = "none" /\ run
    /\ run' = FALSE
    /\ UNCHANGED <<requested, applied, restriction, authority, runtime, waiting, holder, fenced,
                   lockedThrough>>

Fence ==
    /\ holder \in {"write", "sync"} /\ ~fenced
    /\ FenceHolds
    /\ fenced' = TRUE
    /\ UNCHANGED <<requested, applied, restriction, authority, runtime, waiting, holder, run,
                   lockedThrough>>

Rollback ==
    /\ holder \in {"write", "sync"} /\ ~fenced
    /\ ~FenceHolds
    /\ holder' = "none"
    /\ UNCHANGED <<requested, applied, restriction, authority, runtime, waiting, fenced, run,
                   lockedThrough>>

Commit(who) ==
    /\ holder = who /\ fenced
    /\ holder' = "none"
    /\ fenced' = FALSE
    /\ UNCHANGED <<requested, applied, restriction, authority, runtime, waiting, run,
                   lockedThrough>>

HostGone ==
    /\ requested' = 0 /\ applied' = 0 /\ restriction' = "ActivationRequired"
    /\ authority' = "none" /\ runtime' = FALSE /\ waiting' = {}
    /\ holder' = "none" /\ fenced' = FALSE /\ run' = FALSE /\ lockedThrough' = 0

HostNext ==
    \/ \E k \in Kinds : Request(k)
    \/ \E t \in waiting : Granted(t) \/ Aborted(t) \/ Locked(t)
    \/ ClockMoves
    \/ BeginWrite
    \/ AdmitRun
    \/ BeginSyncWrite
    \/ EndRun
    \/ Fence
    \/ Rollback
    \/ Commit("write")
    \/ Commit("sync")
    \/ HostGone

HostSpec == HostInit /\ [][HostNext]_hostVars

-----------------------------------------------------------------------------
(* No write is in progress after a lock: once enter_security_lock,          *)
(* enter_retryable_lock or a refused Grant has closed the runtime, nothing  *)
(* works under an authority that was requested before it, although an       *)
(* older Grant may still be applied after the lock and publish itself.      *)
LockHolds == holder # "none" => applied > lockedThrough
=============================================================================
