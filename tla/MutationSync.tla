----------------------------- MODULE MutationSync -----------------------------
(***************************************************************************)
(* Synchronisation of business mutations between the Desktop stores of one *)
(* workspace and its Cloud log.  A device edits or deletes domain assets   *)
(* in its local store and queues each change in an outbox; its sync lane   *)
(* claims due rows, pushes them in batches, splits a batch the Cloud will  *)
(* not parse, and settles each row by the Cloud's answer; it pulls pages   *)
(* of the log and merges them, keeping local values and recording the      *)
(* remote ones as conflict candidates where a local change is pending.     *)
(*                                                                         *)
(* The Cloud's ingest and each local operation is one database transaction *)
(* and one action.  Between them requests are lost, delayed or answered    *)
(* after the device has given up, the process stops, and the execution     *)
(* lease moves to another device or to a new epoch of the same device.     *)
(*                                                                         *)
(* A mutation is named by its device and its sequence on that device, the  *)
(* row's place in the outbox.  An upsert carries every shared field of the *)
(* asset, as every producer of one writes them all.  The receipts and the  *)
(* drain records are written in the transaction that appends to the log    *)
(* and are read off the log here.                                          *)
(***************************************************************************)
EXTENDS Integers, Sequences, FiniteSets, FiniteSetsExt

CONSTANTS
  Devices,
  Entities,      \* domain assets known to the Cloud
  Fields,        \* shared fields of an asset
  Values,
  InitialValue,  \* of every field at revision 0
  FirstDevice,   \* holder of the first lease
  WireForms,     \* {"valid"}, or with "refused": rows the Cloud's schema refuses
  MaxSequence,   \* bound on the mutations of each device
  MaxInFlight,   \* bound on the requests on their way to the Cloud
  MaxEpoch,      \* bound on the lease epochs
  BatchLimit,    \* rows of one claim, 256 in the code
  MaxRequests,   \* requests of one push, 9 in the code
  PageLimit      \* mutations of one pulled page

LifecycleStatus == "lifecycleStatus"

ASSUME NamesAssumption ==
  /\ FirstDevice \in Devices
  /\ InitialValue \in Values
  /\ Fields # {} /\ LifecycleStatus \notin Fields
  /\ WireForms \subseteq {"valid", "refused"}

ASSUME BoundsAssumption ==
  /\ MaxSequence \in [Devices -> Nat]
  /\ MaxInFlight \in Nat \ {0}
  /\ MaxEpoch \in Nat \ {0}
  /\ BatchLimit \in Nat \ {0}
  /\ MaxRequests \in Nat \ {0}
  /\ PageLimit \in Nat \ {0}

VARIABLES
  active,     \* Cloud: the device holding the current lease
  epoch,      \* Cloud: the epoch of the current lease
  log,        \* Cloud: accepted mutations by server revision
  replica,    \* Cloud: value and last modifying revision of every field
  net,        \* push requests on their way to the Cloud
  mine,       \* per device: the lease epoch its local authority holds, or 0
  outbox,     \* per device: sync_outbox by device sequence
  asset,      \* per device: status of each asset in the local projection
  value,      \* per device: value of each field in the local projection
  pendingBy,  \* per device: the mutation a field version waits for, 0 when clean
  tombstone,  \* per device: sync_tombstones status of each asset
  applied,    \* per device: applied_through_revision
  target,     \* per device: the pinned target of its last applied page
  conflicts,  \* per device: sync_conflicts
  lane,       \* per device: the push in progress
  page        \* per device: the page pulled and not yet applied

cloudVars  == <<active, epoch, log, replica>>
storeVars  == <<asset, value, pendingBy, tombstone, conflicts>>
readerVars == <<applied, target>>
vars == <<cloudVars, net, mine, outbox, storeVars, readerVars, lane, page>>

(* The place of n in a set of sequence numbers, and the number at a place. *)
Rank(S, n) == Cardinality({m \in S : m <= n})
Nth(S, i) == CHOOSE n \in S : Rank(S, n) = i

AllFields == Fields \cup {LifecycleStatus}
Statuses  == {"active", "archived"}

-----------------------------------------------------------------------------
(* The rows.                                                               *)

Row ==
  [entity : Entities, kind : {"upsert", "delete"}, value : [Fields -> Values],
   base : Nat, epoch : Nat, wire : {"valid", "refused"},
   state : {"pending", "sending", "acknowledged", "rejected"},
   due : {"now", "later"}, revision : Nat]

Entry ==
  [device : Devices, sequence : Nat, entity : Entities, kind : {"upsert", "delete"},
   value : [Fields -> Values], base : Nat, epoch : Nat]

Conflict ==
  [revision : Nat, entity : Entities, field : AllFields,
   local : Values \cup Statuses, remote : Values \cup Statuses,
   status : {"open", "resolved_local", "resolved_remote"}]

Request == [device : Devices, batch : SUBSET Nat]

Codes == {"none", "accepted", "input", "authorization", "storage", "fault"}

Lane ==
  [phase : {"idle", "ready", "waiting", "answered"}, stack : Seq(SUBSET Nat),
   requests : 0 .. MaxRequests, epoch : Nat, code : Codes,
   acks : SUBSET (Nat \X Nat)]

IdleLane ==
  [phase |-> "idle", stack |-> <<>>, requests |-> 0, epoch |-> 0,
   code |-> "none", acks |-> {}]

Page   == [through : Nat, target : Nat, epoch : Nat]
NoPage == [through |-> 0, target |-> 0, epoch |-> 0]

(* Every row has the columns the schemas give it. *)
TypeOK ==
  /\ active \in Devices
  /\ epoch \in 1 .. MaxEpoch
  /\ log \in Seq(Entry)
  /\ replica \in [Entities -> [Fields -> [value : Values, revision : Nat]]]
  /\ net \subseteq Request
  /\ mine \in [Devices -> 0 .. MaxEpoch]
  /\ outbox \in [Devices -> Seq(Row)]
  /\ asset \in [Devices -> [Entities -> Statuses]]
  /\ value \in [Devices -> [Entities -> [Fields -> Values]]]
  /\ pendingBy \in [Devices -> [Entities -> [AllFields -> Nat]]]
  /\ tombstone \in [Devices -> [Entities -> {"none", "pending", "contested", "replicated"}]]
  /\ applied \in [Devices -> Nat]
  /\ target \in [Devices -> Nat]
  /\ conflicts \in [Devices -> SUBSET Conflict]
  /\ lane \in [Devices -> Lane]
  /\ page \in [Devices -> Page]

Init ==
  /\ active = FirstDevice
  /\ epoch = 1
  /\ log = <<>>
  /\ replica = [e \in Entities |-> [f \in Fields |-> [value |-> InitialValue, revision |-> 0]]]
  /\ net = {}
  /\ mine = [d \in Devices |-> IF d = FirstDevice THEN 1 ELSE 0]
  /\ outbox = [d \in Devices |-> <<>>]
  /\ asset = [d \in Devices |-> [e \in Entities |-> "active"]]
  /\ value = [d \in Devices |-> [e \in Entities |-> [f \in Fields |-> InitialValue]]]
  /\ pendingBy = [d \in Devices |-> [e \in Entities |-> [f \in AllFields |-> 0]]]
  /\ tombstone = [d \in Devices |-> [e \in Entities |-> "none"]]
  /\ applied = [d \in Devices |-> 0]
  /\ target = [d \in Devices |-> 0]
  /\ conflicts = [d \in Devices |-> {}]
  /\ lane = [d \in Devices |-> IdleLane]
  /\ page = [d \in Devices |-> NoPage]

-----------------------------------------------------------------------------
(* The execution lease, as far as synchronisation depends on it.           *)

(* The lease passes to d, which may be the device that held the last one.  *)
HandOver(d) ==
  /\ epoch < MaxEpoch
  /\ active' = d
  /\ epoch' = epoch + 1
  /\ mine' = [mine EXCEPT ![d] = epoch + 1]
  /\ UNCHANGED <<log, replica, net, outbox, storeVars, readerVars, lane, page>>

(* A former holder learns that its lease is gone. *)
LoseAuthority(d) ==
  /\ mine[d] # 0
  /\ active # d
  /\ mine' = [mine EXCEPT ![d] = 0]
  /\ UNCHANGED <<cloudVars, net, outbox, storeVars, readerVars, lane, page>>

-----------------------------------------------------------------------------
(* Local changes.                                                          *)

NextSequence(d) == Len(outbox[d]) + 1

NewRow(d, e, kind, v, wire) ==
  [entity |-> e, kind |-> kind, value |-> v, base |-> applied[d], epoch |-> mine[d],
   wire |-> wire, state |-> "pending", due |-> "now", revision |-> 0]

MayWrite(d) == mine[d] # 0 /\ Len(outbox[d]) < MaxSequence[d]

Edit(d, e, v, wire) ==
  /\ MayWrite(d)
  /\ asset[d][e] = "active"
  /\ value' = [value EXCEPT ![d][e] = v]
  /\ pendingBy' = [pendingBy EXCEPT ![d][e] =
                     [f \in AllFields |-> IF f \in Fields THEN NextSequence(d) ELSE @[f]]]
  /\ outbox' = [outbox EXCEPT ![d] = Append(@, NewRow(d, e, "upsert", v, wire))]
  /\ UNCHANGED <<cloudVars, net, mine, asset, tombstone, conflicts, readerVars, lane, page>>

(* The tombstone is inserted, not upserted: one that a pulled delete left   *)
(* behind makes the transaction fail.                                      *)
Delete(d, e, wire) ==
  /\ MayWrite(d)
  /\ asset[d][e] = "active"
  /\ tombstone[d][e] = "none"
  /\ asset' = [asset EXCEPT ![d][e] = "archived"]
  /\ pendingBy' = [pendingBy EXCEPT ![d][e][LifecycleStatus] = NextSequence(d)]
  /\ tombstone' = [tombstone EXCEPT ![d][e] = "pending"]
  /\ outbox' = [outbox EXCEPT ![d] = Append(@, NewRow(d, e, "delete", value[d][e], wire))]
  /\ UNCHANGED <<cloudVars, net, mine, value, conflicts, readerVars, lane, page>>

-----------------------------------------------------------------------------
(* Push, on the device.                                                    *)

Open(d) == {n \in DOMAIN outbox[d] : outbox[d][n].state \in {"pending", "sending"}}

(* Rows are read in device order and reading stops at the first that is    *)
(* not due.                                                                *)
Claimable(d) == {n \in Open(d) : \A m \in Open(d) : m <= n => outbox[d][m].due = "now"}

Lowest(S, k) == {n \in S : Rank(S, n) <= k}

Marked(d, S, state, due) ==
  [outbox EXCEPT ![d] = [n \in DOMAIN @ |->
     IF n \in S THEN [@[n] EXCEPT !.state = state, !.due = due] ELSE @[n]]]

Claim(d) ==
  LET batch == Lowest(Claimable(d), BatchLimit) IN
  /\ mine[d] # 0
  /\ lane[d] = IdleLane
  /\ page[d] = NoPage
  /\ batch # {}
  /\ outbox' = Marked(d, batch, "sending", "later")
  /\ lane' = [lane EXCEPT ![d] = [IdleLane EXCEPT !.phase = "ready", !.stack = <<batch>>,
                                                   !.epoch = mine[d]]]
  /\ UNCHANGED <<cloudVars, net, mine, storeVars, readerVars, page>>

(* The first request of a push is sent under the admission of its claim,   *)
(* every other one under an admission of its own.                          *)
Admitted(d) == mine[d] # 0 /\ lane[d].epoch \in {0, mine[d]}

Send(d) ==
  /\ lane[d].phase = "ready"
  /\ lane[d].requests < MaxRequests
  /\ Cardinality(net) < MaxInFlight
  /\ Admitted(d)
  /\ net' = net \cup {[device |-> d, batch |-> Head(lane[d].stack)]}
  /\ lane' = [lane EXCEPT ![d].phase = "waiting", ![d].requests = @ + 1, ![d].epoch = mine[d]]
  /\ UNCHANGED <<cloudVars, mine, outbox, storeVars, readerVars, page>>

(* Every row the push has not settled waits for its backoff. *)
Defer(d) ==
  /\ mine[d] # 0
  /\ outbox' = Marked(d, UNION Range(lane[d].stack), "pending", "later")
  /\ lane' = [lane EXCEPT ![d] = IdleLane]

DeferRestEarly(d) ==
  /\ lane[d].phase = "ready"
  /\ lane[d].requests + 1 >= MaxRequests
  /\ Defer(d)
  /\ UNCHANGED <<cloudVars, net, mine, storeVars, readerVars, page>>

(* The request allowance is spent. *)
DeferRest(d) ==
  /\ lane[d].phase = "ready"
  /\ lane[d].requests = MaxRequests
  /\ Defer(d)
  /\ UNCHANGED <<cloudVars, net, mine, storeVars, readerVars, page>>

(* The transport reports a retryable failure, whether or not the Cloud got *)
(* or will get the request.                                                *)
RequestFails(d) ==
  /\ lane[d].phase \in {"waiting", "answered"}
  /\ Defer(d)
  /\ UNCHANGED <<cloudVars, net, mine, storeVars, readerVars, page>>

(* The push ends with its rows still claimed: the outcome is unknown, the   *)
(* admission is stale, authorization is missing, or the process stops.      *)
Abandon(d) ==
  /\ lane[d] # IdleLane
  /\ lane' = [lane EXCEPT ![d] = IdleLane]
  /\ UNCHANGED <<cloudVars, net, mine, outbox, storeVars, readerVars, page>>

BackoffElapses(d, n) ==
  /\ n \in Open(d)
  /\ outbox[d][n].state = "pending"
  /\ outbox[d][n].due = "later"
  /\ outbox' = Marked(d, {n}, "pending", "now")
  /\ UNCHANGED <<cloudVars, net, mine, storeVars, readerVars, lane, page>>

(* The 60 s lease of the rows of an abandoned push runs out. *)
LeaseExpires(d) ==
  LET held == {n \in Open(d) : outbox[d][n].state = "sending" /\ outbox[d][n].due = "later"} IN
  /\ lane[d] = IdleLane
  /\ held # {}
  /\ outbox' = Marked(d, held, "sending", "now")
  /\ UNCHANGED <<cloudVars, net, mine, storeVars, readerVars, lane, page>>

-----------------------------------------------------------------------------
(* Push, in the Cloud.                                                     *)

Revisions(d, n) == {r \in DOMAIN log : log[r].device = d /\ log[r].sequence = n}

FreshAlways(d, batch) == batch

(* The mutations of a batch that have no receipt yet. *)
Fresh(d, batch) == {n \in batch : Revisions(d, n) = {}}

Assigned(d, batch, n) == Len(log) + Rank(Fresh(d, batch), n)

LastModifiedInBatch(d, batch, n, f) ==
  LET earlier == {m \in Fresh(d, batch) : m < n /\ outbox[d][m].entity = outbox[d][n].entity
                                          /\ outbox[d][m].kind = "upsert"}
  IN IF earlier # {} THEN Assigned(d, batch, Max(earlier)) ELSE 0

(* The revision that last modified a field before mutation n of the batch: *)
(* an earlier mutation of the batch, or the replica.                       *)
LastModified(d, batch, n, f) ==
  LET e == outbox[d][n].entity
      earlier == {m \in Fresh(d, batch) : m < n /\ outbox[d][m].entity = e
                                          /\ outbox[d][m].kind = "upsert"}
  IN IF earlier # {} THEN Assigned(d, batch, Max(earlier)) ELSE replica[e][f].revision

Stale(d, batch) ==
  \E n \in Fresh(d, batch), f \in Fields :
    /\ outbox[d][n].kind = "upsert"
    /\ LastModified(d, batch, n, f) > outbox[d][n].base

Code(d, batch) ==
  IF \E n \in batch : outbox[d][n].wire = "refused" THEN "input"
  ELSE IF active # d THEN "authorization"
  ELSE IF Stale(d, batch) THEN "storage"
  ELSE IF \E n \in Fresh(d, batch) : outbox[d][n].epoch # epoch THEN "fault" ELSE "accepted"

NewEntry(d, n) ==
  LET row == outbox[d][n] IN
  [device |-> d, sequence |-> n, entity |-> row.entity, kind |-> row.kind,
   value |-> row.value, base |-> row.base, epoch |-> row.epoch]

Accept(d, batch) ==
  LET fresh == Fresh(d, batch)
      upserts(e) == {n \in fresh : outbox[d][n].entity = e /\ outbox[d][n].kind = "upsert"}
  IN
  /\ log' = log \o [i \in 1 .. Cardinality(fresh) |-> NewEntry(d, Nth(fresh, i))]
  /\ replica' = [e \in Entities |-> [f \in Fields |->
       IF upserts(e) = {} THEN replica[e][f]
       ELSE [value |-> outbox[d][Max(upserts(e))].value[f],
             revision |-> Assigned(d, batch, Max(upserts(e)))]]]

AcksAtHead(d, batch) ==
  {<<n, Len(log) + Cardinality(Fresh(d, batch))>> : n \in batch}

Acks(d, batch) ==
  {<<n, IF Revisions(d, n) = {} THEN Assigned(d, batch, n) ELSE Max(Revisions(d, n))>> : n \in batch}

(* The Cloud takes a request.  The answer reaches the device only if its   *)
(* push still waits for this request.                                      *)
Ingest(d, batch) ==
  LET code == Code(d, batch) IN
  /\ [device |-> d, batch |-> batch] \in net
  /\ net' = net \ {[device |-> d, batch |-> batch]}
  /\ IF code = "accepted" THEN Accept(d, batch) ELSE UNCHANGED <<log, replica>>
  /\ lane' = IF lane[d].phase = "waiting" /\ Head(lane[d].stack) = batch
             THEN [lane EXCEPT ![d].phase = "answered", ![d].code = code,
                     ![d].acks = IF code = "accepted" THEN Acks(d, batch) ELSE {}]
             ELSE lane
  /\ UNCHANGED <<active, epoch, mine, outbox, storeVars, readerVars, page>>

LoseRequest(r) ==
  /\ r \in net
  /\ net' = net \ {r}
  /\ UNCHANGED <<cloudVars, mine, outbox, storeVars, readerVars, lane, page>>

-----------------------------------------------------------------------------
(* Completion of a push, on the device.                                    *)

Answered(d, codes) ==
  /\ lane[d].phase = "answered"
  /\ lane[d].code \in codes
  /\ lane[d].epoch = mine[d]

(* The push goes on with the rest of its stack. *)
Continue(d, stack) ==
  lane' = [lane EXCEPT ![d] =
             IF stack = <<>> THEN IdleLane
             ELSE [IdleLane EXCEPT !.phase = "ready", !.stack = stack,
                                   !.requests = lane[d].requests]]

AcknowledgeWholeAsset(d) ==
  LET batch == Head(lane[d].stack)
      revision(n) == (CHOOSE ack \in lane[d].acks : ack[1] = n)[2]
  IN
  /\ Answered(d, {"accepted"})
  /\ outbox' = [outbox EXCEPT ![d] = [n \in DOMAIN @ |->
                  IF n \in batch
                  THEN [@[n] EXCEPT !.state = "acknowledged", !.due = "now", !.revision = revision(n)]
                  ELSE @[n]]]
  /\ pendingBy' = [pendingBy EXCEPT ![d] = [e \in Entities |-> [f \in AllFields |->
                     IF \E n \in batch : outbox[d][n].entity = e THEN 0 ELSE @[e][f]]]]
  /\ Continue(d, Tail(lane[d].stack))
  /\ UNCHANGED <<cloudVars, net, mine, asset, value, tombstone, conflicts, readerVars, page>>

Acknowledge(d) ==
  LET batch == Head(lane[d].stack)
      revision(n) == (CHOOSE ack \in lane[d].acks : ack[1] = n)[2]
  IN
  /\ Answered(d, {"accepted"})
  /\ outbox' = [outbox EXCEPT ![d] = [n \in DOMAIN @ |->
                  IF n \in batch
                  THEN [@[n] EXCEPT !.state = "acknowledged", !.due = "now", !.revision = revision(n)]
                  ELSE @[n]]]
  /\ pendingBy' = [pendingBy EXCEPT ![d] = [e \in Entities |-> [f \in AllFields |->
                     IF @[e][f] \in batch THEN 0 ELSE @[e][f]]]]
  /\ Continue(d, Tail(lane[d].stack))
  /\ UNCHANGED <<cloudVars, net, mine, asset, value, tombstone, conflicts, readerVars, page>>

Isolate(d) ==
  LET batch == Head(lane[d].stack)
      left  == Lowest(batch, Cardinality(batch) \div 2)
  IN
  /\ Answered(d, {"input"})
  /\ Cardinality(batch) > 1
  /\ Continue(d, <<left, batch \ left>> \o Tail(lane[d].stack))
  /\ UNCHANGED <<cloudVars, net, mine, outbox, storeVars, readerVars, page>>

Reject(d) ==
  /\ Answered(d, {"input"})
  /\ Cardinality(Head(lane[d].stack)) = 1
  /\ outbox' = Marked(d, Head(lane[d].stack), "rejected", "now")
  /\ Continue(d, Tail(lane[d].stack))
  /\ UNCHANGED <<cloudVars, net, mine, storeVars, readerVars, page>>

DeferRefused(d) ==
  /\ Answered(d, {"storage", "fault"})
  /\ Defer(d)
  /\ UNCHANGED <<cloudVars, net, mine, storeVars, readerVars, page>>

-----------------------------------------------------------------------------
(* Pull.                                                                   *)

(* The Cloud reads the next page for the device, up to the target pinned by *)
(* its last page or else up to the head of the log.                         *)
Pull(d) ==
  LET goal == IF target[d] > applied[d] THEN target[d] ELSE Len(log) IN
  /\ mine[d] # 0
  /\ active = d
  /\ lane[d] = IdleLane
  /\ page[d] = NoPage
  /\ applied[d] < goal
  /\ page' = [page EXCEPT ![d] = [through |-> Min({goal, applied[d] + PageLimit}),
                                  target |-> goal, epoch |-> mine[d]]]
  /\ UNCHANGED <<cloudVars, net, mine, outbox, storeVars, readerVars, lane>>

LosePage(d) ==
  /\ page[d] # NoPage
  /\ page' = [page EXCEPT ![d] = NoPage]
  /\ UNCHANGED <<cloudVars, net, mine, outbox, storeVars, readerVars, lane>>

(* The revisions of the page that concern one asset, by kind. *)
InPage(d, e, kind) ==
  {r \in (applied[d] + 1) .. page[d].through : log[r].entity = e /\ log[r].kind = kind}

(* An upsert of an asset that has a tombstone, of an earlier page or of this *)
(* one, makes the transaction that applies the page fail.                    *)
Refused(d) ==
  \E e \in Entities : \E r \in InPage(d, e, "upsert") :
    \/ tombstone[d][e] # "none"
    \/ \E q \in InPage(d, e, "delete") : q < r

PendingStatusOnly(d, e) == pendingBy[d][e][LifecycleStatus] # 0

Pending(d, e) == \E f \in AllFields : pendingBy[d][e][f] # 0

Candidate(d, r, f, local, remote) ==
  [revision |-> r, entity |-> log[r].entity, field |-> f, local |-> local,
   remote |-> remote, status |-> "open"]

CandidatesUnlessSending(d) ==
  UNION {{Candidate(d, r, f, value[d][e][f], log[r].value[f]) :
            r \in InPage(d, e, "upsert"),
            f \in {g \in Fields : /\ pendingBy[d][e][g] # 0
                                  /\ outbox[d][pendingBy[d][e][g]].state # "sending"}} :
         e \in Entities}

(* The candidates of the page: remote values of fields with a pending local *)
(* change, and deletes of assets with one.                                  *)
Candidates(d) ==
  UNION {{Candidate(d, r, f, value[d][e][f], log[r].value[f]) :
            r \in InPage(d, e, "upsert"), f \in {g \in Fields : pendingBy[d][e][g] # 0}} :
         e \in Entities}
  \cup
  UNION {{Candidate(d, r, LifecycleStatus, asset[d][e], "archived") : r \in InPage(d, e, "delete")} :
         e \in {x \in Entities : Pending(d, x)}}

ApplyPage(d) ==
  /\ page[d] # NoPage
  /\ page[d].epoch = mine[d]
  /\ ~Refused(d)
  /\ value' = [value EXCEPT ![d] = [e \in Entities |-> [f \in Fields |->
                 IF pendingBy[d][e][f] = 0 /\ InPage(d, e, "upsert") # {}
                 THEN log[Max(InPage(d, e, "upsert"))].value[f]
                 ELSE @[e][f]]]]
  /\ asset' = [asset EXCEPT ![d] = [e \in Entities |->
                 IF InPage(d, e, "delete") # {} /\ ~Pending(d, e) THEN "archived" ELSE @[e]]]
  /\ tombstone' = [tombstone EXCEPT ![d] = [e \in Entities |->
                     IF InPage(d, e, "delete") = {} THEN @[e]
                     ELSE IF Pending(d, e) THEN "contested" ELSE "replicated"]]
  /\ conflicts' = [conflicts EXCEPT ![d] = @ \cup Candidates(d)]
  /\ applied' = [applied EXCEPT ![d] = page[d].through]
  /\ target' = [target EXCEPT ![d] = page[d].target]
  /\ page' = [page EXCEPT ![d] = NoPage]
  /\ UNCHANGED <<cloudVars, net, mine, outbox, pendingBy, lane>>

RefusePage(d) ==
  /\ page[d] # NoPage
  /\ page[d].epoch = mine[d]
  /\ Refused(d)
  /\ page' = [page EXCEPT ![d] = NoPage]
  /\ UNCHANGED <<cloudVars, net, mine, outbox, storeVars, readerVars, lane>>

-----------------------------------------------------------------------------
(* The conflict centre.                                                    *)

Current(d, c) == IF c.field = LifecycleStatus THEN asset[d][c.entity] ELSE value[d][c.entity][c.field]

(* A resolution needs the evidence of the candidate to be current, a reader *)
(* that has caught up, and no push in flight for the asset.                 *)
Resolvable(d, c) ==
  /\ mine[d] # 0
  /\ c.status = "open"
  /\ c.local = Current(d, c)
  /\ applied[d] >= target[d]
  /\ \A n \in DOMAIN outbox[d] : outbox[d][n].entity = c.entity => outbox[d][n].state # "sending"

Settle(d, c, status) ==
  conflicts' = [conflicts EXCEPT ![d] = (@ \ {c}) \cup {[c EXCEPT !.status = status]}]

KeepLocal(d, c) ==
  /\ c \in conflicts[d]
  /\ Resolvable(d, c)
  /\ Len(outbox[d]) < MaxSequence[d]
  /\ c.field # LifecycleStatus
  /\ outbox' = [outbox EXCEPT ![d] =
                  Append(@, NewRow(d, c.entity, "upsert", value[d][c.entity], "valid"))]
  /\ Settle(d, c, "resolved_local")
  /\ UNCHANGED <<cloudVars, net, mine, asset, value, pendingBy, tombstone, readerVars, lane, page>>

AcceptRemote(d, c) ==
  /\ c \in conflicts[d]
  /\ Resolvable(d, c)
  /\ pendingBy' = [pendingBy EXCEPT ![d][c.entity][c.field] = 0]
  /\ IF c.field = LifecycleStatus
     THEN /\ asset' = [asset EXCEPT ![d][c.entity] = "archived"]
          /\ tombstone' = [tombstone EXCEPT ![d][c.entity] = "replicated"]
          /\ UNCHANGED value
     ELSE /\ value' = [value EXCEPT ![d][c.entity][c.field] = c.remote]
          /\ UNCHANGED <<asset, tombstone>>
  /\ Settle(d, c, "resolved_remote")
  /\ UNCHANGED <<cloudVars, net, mine, outbox, readerVars, lane, page>>

-----------------------------------------------------------------------------

Change(d) ==
  \/ \E e \in Entities, v \in [Fields -> Values], w \in WireForms : Edit(d, e, v, w)
  \/ \E e \in Entities, w \in WireForms : Delete(d, e, w)
  \/ \E c \in conflicts[d] : KeepLocal(d, c)
  \/ \E c \in conflicts[d] : AcceptRemote(d, c)

Push(d) ==
  \/ Claim(d)
  \/ Send(d)
  \/ DeferRest(d)
  \/ RequestFails(d)
  \/ Abandon(d)
  \/ Acknowledge(d)
  \/ Isolate(d)
  \/ Reject(d)
  \/ DeferRefused(d)
  \/ LeaseExpires(d)
  \/ \E n \in DOMAIN outbox[d] : BackoffElapses(d, n)

Read(d) ==
  \/ Pull(d)
  \/ LosePage(d)
  \/ ApplyPage(d)
  \/ RefusePage(d)

Next ==
  \/ \E d \in Devices : HandOver(d) \/ LoseAuthority(d) \/ Change(d) \/ Push(d) \/ Read(d)
  \/ \E r \in net : Ingest(r.device, r.batch)
  \/ \E r \in net : LoseRequest(r)

Spec == Init /\ [][Next]_vars

(* The push of d has what its next step needs: an admission to send, a      *)
(* request on its way, or an answer it can act on.                          *)
CanGoOn(d) ==
  CASE lane[d].phase = "ready" -> Admitted(d)
    [] lane[d].phase = "waiting" -> [device |-> d, batch |-> Head(lane[d].stack)] \in net
    [] lane[d].phase = "answered" -> lane[d].code # "authorization" /\ lane[d].epoch = mine[d]
    [] OTHER -> FALSE

Ends(d) == ~CanGoOn(d) /\ (RequestFails(d) \/ Abandon(d))

(* A stopped process, a failed transport, or a lost message. *)
Interruption ==
  \/ \E d \in Devices : CanGoOn(d) /\ Abandon(d)
  \/ \E d \in Devices : CanGoOn(d) /\ lane[d].code \notin {"storage", "fault"} /\ RequestFails(d)
  \/ \E d \in Devices : page[d].epoch = mine[d] /\ ~Refused(d) /\ LosePage(d)
  \/ \E r \in net : lane[r.device].phase = "waiting" /\ LoseRequest(r)

(* The steps of the coordinator are taken, timers run out, and the Cloud    *)
(* takes the requests it gets.  Every cycle starts with a push, so a claim  *)
(* that is possible again and again between pulls is made.                  *)
Fairness ==
  /\ WF_vars(\E r \in net : Ingest(r.device, r.batch))
  /\ \A d \in Devices :
       /\ SF_vars(Claim(d))
       /\ WF_vars(Send(d))
       /\ WF_vars(Acknowledge(d) \/ Isolate(d) \/ Reject(d) \/ DeferRefused(d) \/ DeferRest(d))
       /\ WF_vars(Ends(d))
       /\ WF_vars(LeaseExpires(d))
       /\ \A n \in 1 .. MaxSequence[d] : WF_vars(n \in DOMAIN outbox[d] /\ BackoffElapses(d, n))
       /\ WF_vars(Pull(d))
       /\ WF_vars(ApplyPage(d) \/ RefusePage(d) \/ (page[d].epoch # mine[d] /\ LosePage(d)))

(* From some time on the process stays up and the network works. *)
Stability == <>[][~Interruption]_vars

FairSpec == Spec /\ Fairness /\ Stability

-----------------------------------------------------------------------------
(* Properties.                                                             *)

(* A row the device holds as acknowledged at a revision is the mutation the *)
(* Cloud's log has at that revision, whatever answers were lost or repeated *)
(* before the one that acknowledged it.                                     *)
AcknowledgedIsLogged ==
  \A d \in Devices : \A n \in DOMAIN outbox[d] :
    outbox[d][n].state = "acknowledged" =>
      /\ outbox[d][n].revision \in DOMAIN log
      /\ log[outbox[d][n].revision] = NewEntry(d, n)

(* An accepted upsert was made with every earlier accepted write of the     *)
(* same asset in view: none lies between its base and its own revision.     *)
NoLostUpdate ==
  \A r \in DOMAIN log : log[r].kind = "upsert" =>
    ~ \E q \in DOMAIN log :
        /\ log[r].base < q
        /\ q < r
        /\ log[q].kind = "upsert"
        /\ log[q].entity = log[r].entity

(* The value of the last write of a field up to a revision. *)
ValueAt(e, f, r) ==
  LET writes == {q \in DOMAIN log : q <= r /\ log[q].entity = e /\ log[q].kind = "upsert"}
  IN IF writes = {} THEN InitialValue ELSE log[Max(writes)].value[f]

Acknowledged(d, e) ==
  {outbox[d][n].revision : n \in {m \in DOMAIN outbox[d] :
                                    /\ outbox[d][m].entity = e
                                    /\ outbox[d][m].kind = "upsert"
                                    /\ outbox[d][m].state = "acknowledged"}}

(* A field that is clean and never was in conflict shows what the log says  *)
(* as far as the device knows the log: up to its applied revision, or up to *)
(* its own latest acknowledged mutation of the asset.                       *)
CleanFieldsConverge ==
  \A d \in Devices, e \in Entities, f \in Fields :
    (pendingBy[d][e][f] = 0 /\ ~ \E c \in conflicts[d] : c.entity = e /\ c.field = f) =>
      value[d][e][f] = ValueAt(e, f, Max({applied[d]} \cup Acknowledged(d, e)))

(* The conflict centre knows the value that revision r wrote to a field. *)
HasCandidate(d, r, f) ==
  \E c \in conflicts[d] :
    /\ c.revision = r /\ c.entity = log[r].entity
    /\ c.field = f /\ c.remote = log[r].value[f]

(* A remote change that met a pending local change is kept as a candidate:  *)
(* every write of the asset pulled since the pending change was made has    *)
(* one, with the value it wrote.                                            *)
CandidatesComplete ==
  \A d \in Devices, e \in Entities, f \in Fields :
    pendingBy[d][e][f] # 0 =>
      \A r \in (outbox[d][pendingBy[d][e][f]].base + 1) .. applied[d] :
        (log[r].entity = e /\ log[r].kind = "upsert") =>
          HasCandidate(d, r, f)

(* Nothing but the user changes what the user has changed and not yet       *)
(* synchronised: a step that neither queues a local mutation nor resolves a *)
(* conflict leaves the value of a pending field, and the status of an asset *)
(* with a pending change, as they are.                                      *)
PendingChangesKept ==
  [][\A d \in Devices, e \in Entities :
       (outbox'[d] = outbox[d] /\ conflicts[d] \subseteq conflicts'[d]) =>
         /\ \A f \in Fields : pendingBy[d][e][f] # 0 => value'[d][e][f] = value[d][e][f]
         /\ (\E f \in AllFields : pendingBy[d][e][f] # 0) => asset'[d][e] = asset[d][e]]_vars

(* The mutations of d that are neither in the log nor rejected, and the queue *)
(* that MutationDelivery makes of them.                                       *)
Undelivered(d) ==
  {n \in DOMAIN outbox[d] : Revisions(d, n) = {} /\ outbox[d][n].state # "rejected"}

Queue(d) ==
  [i \in 1 .. Cardinality(Undelivered(d)) |->
     [device |-> d, sequence |-> Nth(Undelivered(d), i)]]

Delivery == INSTANCE MutationDelivery WITH
  issued <- [d \in Devices |-> Len(outbox[d])],
  queue  <- [d \in Devices |-> Queue(d)],
  log    <- [r \in DOMAIN log |-> [device |-> log[r].device, sequence |-> log[r].sequence]]

(* Seen from the log, the outbox of every device is a FIFO queue: each      *)
(* mutation is accepted at most once and in the order it was made, through  *)
(* lost answers, late requests, crashes, isolation and lease changes.       *)
DeliveredOnceInOrder == Delivery!Spec

(* The open rows of d would be accepted if they were sent together. *)
Deliverable(d) ==
  /\ active = d
  /\ mine[d] = epoch
  /\ \A n \in Open(d) : outbox[d][n].epoch = epoch
  /\ ~Stale(d, Open(d))

(* While the open rows are acceptable, apart from rows the Cloud's schema   *)
(* refuses, the oldest open row does not stay open forever.                 *)
OldestRowSettles ==
  \A d \in Devices : \A n \in 1 .. MaxSequence[d] :
    (Open(d) # {} /\ n = Min(Open(d) \cup {MaxSequence[d]}) /\ Deliverable(d)) ~>
      (n \notin Open(d) \/ ~Deliverable(d))

=============================================================================
