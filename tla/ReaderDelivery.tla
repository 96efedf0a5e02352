--------------------------- MODULE ReaderDelivery ---------------------------
(***************************************************************************)
(* Durable delivery of the workspace's mutation history to its readers:    *)
(* the reader cursors and pending deliveries that the cloud keeps          *)
(* (modules/workspace/cursors), the two-transaction pull handler           *)
(* (modules/workspace/sync/http-service.ts), the desktop's reader state    *)
(* and page application (crates/local-storage, business/mod.rs), and the   *)
(* part of log compaction that readers hold back.                          *)
(*                                                                         *)
(* One pull of a device is outstanding at a time.  A pull the device gave  *)
(* up on may still reach the server: it is then the device's late request, *)
(* and nobody reads its answer.                                            *)
(*                                                                         *)
(* Times are remaining lifetimes: a lease or a delivery has expired when   *)
(* its count has reached zero, and Tick takes one unit from all of them.   *)
(* Tokens are MACs over the delivery they name, so two deliveries never    *)
(* share one: a delivery takes a token that nobody holds any more.         *)
(***************************************************************************)
EXTENDS Integers, FiniteSets

CONSTANTS
    Device,         \* the desktop devices of one workspace
    Token,          \* confirmation tokens
    NoToken,        \* the null token
    NoDelivery,     \* no pending delivery
    NoRequest,      \* no pull request in this slot
    NoReply,        \* no answer in the device's hands
    NoPage,         \* the device has applied no page yet
    MaxRevision,    \* bound on the server revision
    PageLimit,      \* rows per page (256 in the desktop's requests)
    LeaseTtl        \* lifetime of a reader lease, in ticks

ASSUME TokenAssumption == NoToken \notin Token
ASSUME MarkerAssumption ==
    /\ NoDelivery \notin [from : Int, through : Int, target : Int,
                          next : Token \cup {NoToken},
                          predecessor : Token \cup {NoToken},
                          confirm : Token, expires : Int]
    /\ NoRequest \notin [after : Int, cursor : Token \cup {NoToken},
                         confirm : Token \cup {NoToken},
                         stage : {"pull", "open", "retry"}]
ASSUME RevisionAssumption == MaxRevision \in Nat
ASSUME PageAssumption == PageLimit \in Nat \ {0}
ASSUME TtlAssumption == LeaseTtl \in Nat \ {0}

VARIABLES
    head,           \* the workspace's server revision
    compacted,      \* revisions up to here have been deleted from the log
    cursor,         \* cursor[d]: the row of workspace_reader_cursors
    pending,        \* pending[d]: the row of workspace_reader_pending_deliveries
    local,          \* local[d]: sync_reader_state and the applied revision
    request,        \* request[d][slot]: a pull request the server may handle
    reply           \* reply[d]: the answer to the device's waiting request

vars == <<head, compacted, cursor, pending, local, request, reply>>

-----------------------------------------------------------------------------
Revision == 0 .. MaxRevision
NoRevision == -1
Slot == {"waiting", "late"}
TokenOrNone == Token \cup {NoToken}

Cursor == [status : {"unknown", "active", "retired"}, read : Revision,
           lease : 0 .. LeaseTtl, pinned : Revision \cup {NoRevision},
           continuation : TokenOrNone]

Delivery == [from : Revision, through : Revision, target : Revision,
             next : TokenOrNone, predecessor : TokenOrNone,
             confirm : Token, expires : 0 .. LeaseTtl]

\* What the page digest covers: the bounds, the rows (fixed by the bounds) and
\* the continuation cursor, but not the confirmation token.
Page == [from : Revision, through : Revision, target : Revision, next : TokenOrNone]

Local == [status : {"new", "active", "rebootstrap_required"}, applied : Revision,
          cursor : TokenOrNone, confirm : TokenOrNone, page : Page \cup {NoPage}]

Request == [after : Revision, cursor : TokenOrNone, confirm : TokenOrNone,
            stage : {"pull", "open", "retry"}]

Reply == [code : {"accepted", "rebootstrap", "conflict"}, page : Page,
          confirm : TokenOrNone]

\* Init: a workspace with some history, and devices that hold some prefix of it
\* and have never pulled.
Init ==
    /\ head \in Revision
    /\ compacted \in 0 .. head
    /\ cursor = [d \in Device |-> [status |-> "unknown", read |-> 0, lease |-> 0,
                                   pinned |-> NoRevision, continuation |-> NoToken]]
    /\ pending = [d \in Device |-> NoDelivery]
    /\ \E applied \in [Device -> 0 .. head] :
          local = [d \in Device |-> [status |-> "new", applied |-> applied[d],
                                     cursor |-> NoToken, confirm |-> NoToken,
                                     page |-> NoPage]]
    /\ request = [d \in Device |-> [s \in Slot |-> NoRequest]]
    /\ reply = [d \in Device |-> NoReply]

-----------------------------------------------------------------------------
(* The device prepares and gives up pulls. *)

Busy(d) == request[d]["waiting"] # NoRequest \/ reply[d] # NoReply

\* read_sync_pull_request_v2: present the stored tokens, or the applied revision
\* alone when the device has no reader state.
PreparePull(d) ==
    /\ ~Busy(d)
    /\ local[d].status # "rebootstrap_required"
    /\ request' = [request EXCEPT ![d]["waiting"] =
                     [after |-> local[d].applied, cursor |-> local[d].cursor,
                      confirm |-> local[d].confirm, stage |-> "pull"]]
    /\ UNCHANGED <<head, compacted, cursor, pending, local, reply>>

\* The transport times out, or the desktop restarts: the request is lost, or its
\* answer is; all the device remembers is in its database.
AbandonPull(d) ==
    /\ Busy(d)
    /\ request' = [request EXCEPT ![d]["waiting"] = NoRequest]
    /\ reply' = [reply EXCEPT ![d] = NoReply]
    /\ UNCHANGED <<head, compacted, cursor, pending, local>>

\* The device times out on a request that the server will still handle.
OutlivePull(d) ==
    /\ request[d]["waiting"] # NoRequest
    /\ request[d]["late"] = NoRequest
    /\ request' = [request EXCEPT ![d] = [s \in Slot |-> IF s = "late" THEN request[d]["waiting"]
                                                                     ELSE NoRequest]]
    /\ UNCHANGED <<head, compacted, cursor, pending, local, reply>>

-----------------------------------------------------------------------------
(* The server's pull handler, one action per outcome of a transaction. *)

Answer(d, s, r) ==
    /\ request' = [request EXCEPT ![d][s] = NoRequest]
    /\ reply' = IF s = "waiting" THEN [reply EXCEPT ![d] = r] ELSE reply

EmptyPage == [from |-> 0, through |-> 0, target |-> 0, next |-> NoToken]
Refused(code) == [code |-> code, page |-> EmptyPage, confirm |-> NoToken]

Retired(c) == [c EXCEPT !.status = "retired", !.pinned = NoRevision,
                        !.continuation = NoToken]

\* Mutant of Unresumable: a pull does not look at the lease.
UnresumableIgnoringLease(c) == c.status = "retired" \/ c.read < compacted

\* READER_CURSOR_RETIRED, _TTL_EXPIRED and _COMPACTION_RACE.
Unresumable(c) == c.status = "retired" \/ c.lease = 0 \/ c.read < compacted

\* pullV2 finds no cursor: pull() answers a request with tokens with a conflict
\* and goes on to open a cursor for one without.
PullUnknown(d, s) ==
    /\ request[d][s] # NoRequest
    /\ request[d][s].stage = "pull"
    /\ cursor[d].status = "unknown"
    /\ IF request[d][s].cursor # NoToken \/ request[d][s].confirm # NoToken
         THEN Answer(d, s, Refused("conflict"))
         ELSE /\ request' = [request EXCEPT ![d][s].stage = "open"]
              /\ UNCHANGED reply
    /\ UNCHANGED <<head, compacted, cursor, pending, local>>

\* open: refuse a revision below the compaction watermark, retire an expired
\* cursor that another request opened, insist on the revision of a live one.
OpenRefusal(c, at) ==
    IF at < compacted \/ (c.status # "unknown" /\ (c.status = "retired" \/ c.lease = 0))
      THEN "rebootstrap"
    ELSE IF at > head
           \/ (c.status = "active" /\ (c.read # at \/ c.pinned # NoRevision))
      THEN "conflict"
    ELSE "none"

Opened(at) == [status |-> "active", read |-> at, lease |-> LeaseTtl,
               pinned |-> NoRevision, continuation |-> NoToken]

OpenCursor(d, s) ==
    /\ request[d][s] # NoRequest
    /\ request[d][s].stage = "open"
    /\ LET at == request[d][s].after
           refusal == OpenRefusal(cursor[d], at)
       IN  IF refusal = "none"
             THEN /\ cursor' = [cursor EXCEPT ![d] =
                                  IF @.status = "unknown" THEN Opened(at) ELSE @]
                  /\ request' = [request EXCEPT ![d][s].stage = "retry"]
                  /\ UNCHANGED reply
             ELSE /\ cursor' = [cursor EXCEPT ![d] =
                                  IF at >= compacted /\ @.status = "active" /\ @.lease = 0
                                    THEN Retired(@) ELSE @]
                  /\ Answer(d, s, Refused(refusal))
    /\ UNCHANGED <<head, compacted, pending, local>>

\* pullV2 has locked the workspace head, the cursor and its pending delivery.
InPull(d, s) ==
    /\ request[d][s] # NoRequest
    /\ request[d][s].stage \in {"pull", "retry"}
    /\ cursor[d].status # "unknown"

PullUnresumable(d, s) ==
    /\ InPull(d, s)
    /\ Unresumable(cursor[d])
    /\ cursor' = [cursor EXCEPT ![d] = Retired(@)]
    /\ Answer(d, s, Refused("rebootstrap"))
    /\ UNCHANGED <<head, compacted, pending, local>>

\* The request presents what the pending delivery, once applied, told the device.
Confirms(q, p) ==
    /\ p # NoDelivery
    /\ p.expires > 0
    /\ q.confirm = p.confirm
    /\ q.after = p.through
    /\ q.cursor = p.next

\* The request presents what preceded the pending delivery.
Repeats(q, c, p) ==
    /\ p # NoDelivery
    /\ p.expires > 0
    /\ q.confirm = p.predecessor
    /\ q.after = c.read
    /\ q.cursor = c.continuation

\* There is no delivery yet, and the request presents the opened cursor.
Begins(q, c, p) ==
    /\ p = NoDelivery
    /\ q.confirm = NoToken
    /\ q.after = c.read
    /\ q.cursor = c.continuation

PullStale(d, s) ==
    /\ InPull(d, s)
    /\ ~Unresumable(cursor[d])
    /\ ~Confirms(request[d][s], pending[d])
    /\ ~Repeats(request[d][s], cursor[d], pending[d])
    /\ ~Begins(request[d][s], cursor[d], pending[d])
    /\ Answer(d, s, Refused("conflict"))
    /\ UNCHANGED <<head, compacted, cursor, pending, local>>

Delivered(p) ==
    [code |-> "accepted", confirm |-> p.confirm,
     page |-> [from |-> p.from, through |-> p.through, target |-> p.target,
               next |-> p.next]]

\* replayPending: the stored bounds give the stored page and token again.
PullReplay(d, s) ==
    /\ InPull(d, s)
    /\ ~Unresumable(cursor[d])
    /\ Repeats(request[d][s], cursor[d], pending[d])
    /\ Answer(d, s, Delivered(pending[d]))
    /\ UNCHANGED <<head, compacted, cursor, pending, local>>

TokensOf(q) == IF q = NoRequest THEN {} ELSE {q.cursor, q.confirm}

TokensInUse(d) ==
    {cursor[d].continuation, local[d].cursor, local[d].confirm}
    \cup UNION {TokensOf(request[d][s]) : s \in Slot}
    \cup (IF pending[d] = NoDelivery
            THEN {} ELSE {pending[d].next, pending[d].predecessor, pending[d].confirm})
    \cup (IF reply[d] = NoReply THEN {} ELSE {reply[d].page.next, reply[d].confirm})
    \cup (IF local[d].page = NoPage THEN {} ELSE {local[d].page.next})

LowerOf(a, b) == IF a < b THEN a ELSE b

\* createPending: the next page up to the pinned target, or to the head when no
\* target is pinned.  The stored expiry is cut to the whole second, so it may run
\* out up to one unit before the lease does.
NewDelivery(c, predecessor, token, cut) ==
    LET target == IF c.pinned = NoRevision THEN head ELSE c.pinned
        through == LowerOf(target, c.read + PageLimit)
    IN  [from |-> c.read, through |-> through, target |-> target,
         next |-> IF through = target THEN NoToken ELSE token,
         predecessor |-> predecessor, confirm |-> token,
         expires |-> LeaseTtl - cut]

FreshToken(d) == CHOOSE t \in Token \ TokensInUse(d) : TRUE

CreatePending(d, s, c, predecessor) ==
    /\ Token \ TokensInUse(d) # {}
    /\ \E cut \in {0, 1} :
          LET p == NewDelivery(c, predecessor, FreshToken(d), cut)
          IN  /\ pending' = [pending EXCEPT ![d] = p]
              /\ Answer(d, s, Delivered(p))

\* Mutant of PullFirst: the cursor advances when a page is delivered.
PullFirstAdvancing(d, s) ==
    /\ InPull(d, s)
    /\ ~Unresumable(cursor[d])
    /\ Begins(request[d][s], cursor[d], pending[d])
    /\ CreatePending(d, s, cursor[d], request[d][s].confirm)
    /\ cursor' = [cursor EXCEPT ![d].read = pending'[d].through]
    /\ UNCHANGED <<head, compacted, local>>

PullFirst(d, s) ==
    /\ InPull(d, s)
    /\ ~Unresumable(cursor[d])
    /\ Begins(request[d][s], cursor[d], pending[d])
    /\ CreatePending(d, s, cursor[d], request[d][s].confirm)
    /\ UNCHANGED <<head, compacted, cursor, local>>

\* confirmPendingDelivery: the confirmed page becomes the cursor's progress, and
\* its continuation pins the target until the target is reached.
Advanced(c, p) ==
    [status |-> "active", read |-> p.through, lease |-> LeaseTtl,
     pinned |-> IF p.next = NoToken THEN NoRevision ELSE p.target,
     continuation |-> p.next]

\* Confirming a delivery and creating its successor are one transaction.
PullConfirm(d, s) ==
    /\ InPull(d, s)
    /\ ~Unresumable(cursor[d])
    /\ Confirms(request[d][s], pending[d])
    /\ cursor' = [cursor EXCEPT ![d] = Advanced(@, pending[d])]
    /\ CreatePending(d, s, Advanced(cursor[d], pending[d]), request[d][s].confirm)
    /\ UNCHANGED <<head, compacted, local>>

-----------------------------------------------------------------------------
(* The device completes a pull, in one database transaction. *)

\* The page the device applied last, with the revision it left behind.
SamePage(l, r) == l.applied = r.page.through /\ l.page = r.page

\* A page is applied when it is not the last one again and starts at the applied
\* revision.  The last page again is an exact replay when it comes with the stored
\* token, and a MutationConflict when it does not: neither changes the database.
Appliable(l, r) ==
    /\ r.code = "accepted"
    /\ l.status # "rebootstrap_required"
    /\ ~SamePage(l, r)
    /\ r.page.from = l.applied

Applied(l, r) ==
    [status |-> "active", applied |-> r.page.through, cursor |-> r.page.next,
     confirm |-> r.confirm, page |-> r.page]

\* mark_sync_rebootstrap_required_v2: no further pull is prepared.
MarkedForRebootstrap(l) ==
    [l EXCEPT !.status = "rebootstrap_required", !.cursor = NoToken, !.confirm = NoToken]

CompletePull(d) ==
    /\ reply[d] # NoReply
    /\ local' = [local EXCEPT ![d] =
                   IF Appliable(@, reply[d]) THEN Applied(@, reply[d])
                   ELSE IF reply[d].code = "rebootstrap" THEN MarkedForRebootstrap(@)
                   ELSE @]
    /\ reply' = [reply EXCEPT ![d] = NoReply]
    /\ UNCHANGED <<head, compacted, cursor, pending, request>>

-----------------------------------------------------------------------------
(* The workspace around the readers. *)

\* A push commits a mutation.
CommitMutation ==
    /\ head < MaxRevision
    /\ head' = head + 1
    /\ UNCHANGED <<compacted, cursor, pending, local, request, reply>>

\* compact: expired cursors are retired first, then no live one may be passed.
\* (Its other bounds only ever refuse more.)
Expired(c) == c.status = "active" /\ c.lease = 0

\* Mutant of Compact: expired cursors are passed over but stay active.
CompactKeepingExpired(through) ==
    /\ compacted < through
    /\ through <= head
    /\ \A d \in Device : cursor[d].status = "active" /\ ~Expired(cursor[d])
                            => through <= cursor[d].read
    /\ compacted' = through
    /\ UNCHANGED <<head, cursor, pending, local, request, reply>>

Compact(through) ==
    /\ compacted < through
    /\ through <= head
    /\ \A d \in Device : cursor[d].status = "active" /\ ~Expired(cursor[d])
                            => through <= cursor[d].read
    /\ cursor' = [d \in Device |-> IF Expired(cursor[d]) THEN Retired(cursor[d])
                                                         ELSE cursor[d]]
    /\ compacted' = through
    /\ UNCHANGED <<head, pending, local, request, reply>>

Less(n) == IF n > 0 THEN n - 1 ELSE 0

Tick ==
    /\ \E d \in Device : cursor[d].lease > 0
    /\ cursor' = [d \in Device |-> [cursor[d] EXCEPT !.lease = Less(@)]]
    /\ pending' = [d \in Device |->
                     IF pending[d] = NoDelivery THEN NoDelivery
                     ELSE [pending[d] EXCEPT !.expires = Less(@)]]
    /\ UNCHANGED <<head, compacted, local, request, reply>>

-----------------------------------------------------------------------------
PullV2(d, s) ==
    \/ PullUnresumable(d, s)
    \/ PullStale(d, s)
    \/ PullReplay(d, s)
    \/ PullFirst(d, s)
    \/ PullConfirm(d, s)

Next ==
    \/ \E d \in Device : PreparePull(d) \/ AbandonPull(d) \/ OutlivePull(d) \/ CompletePull(d)
    \/ \E d \in Device, s \in Slot : PullUnknown(d, s) \/ OpenCursor(d, s) \/ PullV2(d, s)
    \/ CommitMutation
    \/ \E through \in Revision : Compact(through)
    \/ Tick

Spec == Init /\ [][Next]_vars

\* The lane pulls every thirty seconds for as long as the device is authorised,
\* and each transaction of a pull that keeps being made is reached in the end; time
\* passes.
Fairness ==
    /\ \A d \in Device : WF_vars(PreparePull(d)) /\ SF_vars(CompletePull(d))
    /\ \A d \in Device : /\ SF_vars(PullUnknown(d, "waiting"))
                          /\ SF_vars(OpenCursor(d, "waiting"))
                          /\ SF_vars(PullV2(d, "waiting"))
    /\ WF_vars(Tick)

FairSpec == Spec /\ Fairness

-----------------------------------------------------------------------------
\* Type correctness of the cursor and delivery rows, the device's reader state
\* and the messages.
TypeOK ==
    /\ head \in Revision
    /\ compacted \in Revision
    /\ cursor \in [Device -> Cursor]
    /\ pending \in [Device -> Delivery \cup {NoDelivery}]
    /\ local \in [Device -> Local]
    /\ request \in [Device -> [Slot -> Request \cup {NoRequest}]]
    /\ reply \in [Device -> Reply \cup {NoReply}]

\* Compaction never takes history away from a live reader: the log still holds
\* every revision after what an active cursor has confirmed, so its pending
\* delivery can be built again, and the compaction_race branch of pullV2 is a
\* defence that never fires.
LiveReaderKeepsHistory ==
    \A d \in Device : cursor[d].status = "active" =>
        /\ compacted <= cursor[d].read
        /\ cursor[d].read <= head
        /\ pending[d] # NoDelivery => pending[d].from = cursor[d].read
                                      /\ pending[d].target <= head

\* confirmPendingDelivery moves the cloud's progress for a reader only over
\* revisions that the device has durably applied, whatever answers were lost and
\* however late an abandoned request is handled.  Compaction relies on it.
ConfirmedIsApplied ==
    \A d \in Device : cursor[d].status # "unknown" => cursor[d].read <= local[d].applied

\* The device can always go on: while its lease and its pending delivery last,
\* what it would present next either confirms the delivery or asks for it again,
\* so pullV2 never answers an honest device READER_CURSOR_STALE_PRESENTATION.
ReaderCanResume ==
    \A d \in Device :
        ( /\ cursor[d].status = "active" /\ cursor[d].lease > 0
          /\ local[d].status # "rebootstrap_required"
          /\ pending[d] # NoDelivery /\ pending[d].expires > 0 ) =>
        LET q == [after |-> local[d].applied, cursor |-> local[d].cursor,
                  confirm |-> local[d].confirm]
        IN  Confirms(q, pending[d]) \/ Repeats(q, cursor[d], pending[d])

\* A device that keeps pulling is, again and again, either up to date or told that
\* it has to rebootstrap: no reader falls behind silently forever.
ReaderSettles ==
    \A d \in Device :
        []<>(local[d].applied = head \/ local[d].status = "rebootstrap_required")

=============================================================================
