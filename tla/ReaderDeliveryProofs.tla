------------------------ MODULE ReaderDeliveryProofs ------------------------
(* What ReaderDelivery guarantees to any number of readers, with any number  *)
(* of revisions, any page size and any lease.                                *)
(*                                                                           *)
(* Two arguments run through the proofs. Revisions only move forward: a      *)
(* delivery lies between the cursor it starts from and the head, and a       *)
(* request names a revision its device has applied, however late it comes.   *)
(* And a delivery's token is new when it is created: a request that carries  *)
(* it was prepared after the delivery was applied, so the device is in one   *)
(* of two places, before its pending delivery or right behind it.            *)
EXTENDS ReaderDelivery, TLAPS

-----------------------------------------------------------------------------
\* Revisions

\* A delivery starts at its cursor and lies within the log.
DeliveryOrdered(d) ==
    pending[d] # NoDelivery =>
        /\ pending[d].from <= pending[d].through
        /\ pending[d].through <= pending[d].target
        /\ pending[d].target <= head

\* An unknown device has no delivery, and an active cursor can be resumed.
CursorOrdered(d) ==
    /\ cursor[d].status = "unknown" => pending[d] = NoDelivery
    /\ cursor[d].status = "active" =>
          /\ compacted <= cursor[d].read
          /\ cursor[d].read <= head
          /\ cursor[d].pinned # NoRevision => /\ cursor[d].read <= cursor[d].pinned
                                              /\ cursor[d].pinned <= head
          /\ pending[d] # NoDelivery => pending[d].from = cursor[d].read

\* Requests and cursors stay behind what the device has applied, and answers move it
\* forward.
AppliedAhead(d) ==
    /\ \A s \in Slot : request[d][s] # NoRequest => request[d][s].after <= local[d].applied
    /\ reply[d] # NoReply /\ reply[d].code = "accepted"
         => reply[d].page.from <= reply[d].page.through
    /\ cursor[d].status # "unknown" => cursor[d].read <= local[d].applied

RevisionInvariant ==
    /\ TypeOK
    /\ compacted <= head
    /\ \A d \in Device : DeliveryOrdered(d) /\ CursorOrdered(d) /\ AppliedAhead(d)

-----------------------------------------------------------------------------
\* Types

\* Answering clears the request and hands the answer to a waiting device.
LEMMA AnswerRows ==
  ASSUME TypeOK, NEW d \in Device, NEW s \in Slot, NEW r, Answer(d, s, r)
  PROVE  /\ \A e \in Device : e # d => request'[e] = request[e] /\ reply'[e] = reply[e]
         /\ \A t \in Slot : t # s => request'[d][t] = request[d][t]
         /\ request'[d][s] = NoRequest
         /\ s = "waiting" => reply'[d] = r
         /\ s # "waiting" => reply'[d] = reply[d]
         /\ request' \in [Device -> [Slot -> Request \cup {NoRequest}]]
         /\ r \in Reply => reply' \in [Device -> Reply \cup {NoReply}]
  BY DEF TypeOK, Answer

\* Every other request stays, and an answer to a late one reaches nobody.
LEMMA AnswerSlots ==
  ASSUME TypeOK, NEW d \in Device, NEW s \in Slot, NEW r, Answer(d, s, r)
  PROVE  /\ \A t \in Slot : request'[d][t] = request[d][t] \/ request'[d][t] = NoRequest
         /\ request'[d][s] = NoRequest
         /\ s = "waiting" => reply'[d] = r
         /\ s # "waiting" => reply'[d] = reply[d] /\ request'[d]["waiting"] = request[d]["waiting"]
  <1>1. "waiting" \in Slot
    BY DEF Slot
  <1>2. /\ \A t \in Slot : t # s => request'[d][t] = request[d][t]
        /\ request'[d][s] = NoRequest
        /\ s = "waiting" => reply'[d] = r
        /\ s # "waiting" => reply'[d] = reply[d]
    BY AnswerRows
  <1> QED
    BY Zenon, <1>1, <1>2

\* Refusals and deliveries are answers.
LEMMA AnswerTypes ==
  /\ \A code \in {"rebootstrap", "conflict"} : Refused(code) \in Reply
  /\ \A p \in Delivery : Delivered(p) \in Reply
  <1>1. ASSUME NEW code \in {"rebootstrap", "conflict"} PROVE Refused(code) \in Reply
    BY RevisionAssumption DEF Refused, Reply, EmptyPage, Page, Revision, TokenOrNone
  <1>2. ASSUME NEW p \in Delivery PROVE Delivered(p) \in Reply
    BY DEF Delivered, Delivery, Reply, Page, TokenOrNone
  <1> QED
    BY <1>1, <1>2

\* Deliveries and requests are never mistaken for their absence.
LEMMA Markers == NoDelivery \notin Delivery /\ NoRequest \notin Request
  <1>1. Revision \subseteq Int /\ 0 .. LeaseTtl \subseteq Int
    BY RevisionAssumption, TtlAssumption DEF Revision
  <1>2. \A p \in Delivery : p \in [from : Int, through : Int, target : Int,
                                   next : Token \cup {NoToken}, predecessor : Token \cup {NoToken},
                                   confirm : Token, expires : Int]
    BY Zenon, <1>1 DEF Delivery, TokenOrNone
  <1>3. \A q \in Request : q \in [after : Int, cursor : Token \cup {NoToken},
                                  confirm : Token \cup {NoToken},
                                  stage : {"pull", "open", "retry"}]
    BY Zenon, <1>1 DEF Request, TokenOrNone
  <1> QED
    BY <1>2, <1>3, MarkerAssumption

\* What a new delivery is: it starts at the cursor, does not pass its target, and
\* takes a token nobody holds.
LEMMA NewDeliveryRow ==
  ASSUME TypeOK, NEW d \in Device, NEW c \in Cursor, NEW pre \in TokenOrNone,
         NEW token \in Token, NEW cut \in {0, 1}
  PROVE  LET p == NewDelivery(c, pre, token, cut)
         IN  /\ p \in Delivery
             /\ p.from = c.read /\ p.predecessor = pre /\ p.confirm = token
             /\ p.through <= p.target
             /\ p.target = IF c.pinned = NoRevision THEN head ELSE c.pinned
             /\ c.read <= p.target => p.from <= p.through
  <1> DEFINE target == IF c.pinned = NoRevision THEN head ELSE c.pinned
             through == LowerOf(target, c.read + PageLimit)
  <1>1. target \in Revision /\ c.read \in Revision
    BY DEF TypeOK, Cursor
  <1>2. through \in Revision /\ through <= target /\ (c.read <= target => c.read <= through)
    BY <1>1, RevisionAssumption, PageAssumption DEF LowerOf, Revision
  <1>3. LeaseTtl - cut \in 0 .. LeaseTtl
    BY TtlAssumption
  <1>4. NewDelivery(c, pre, token, cut)
          = [from |-> c.read, through |-> through, target |-> target,
             next |-> IF through = target THEN NoToken ELSE token,
             predecessor |-> pre, confirm |-> token, expires |-> LeaseTtl - cut]
    BY DEF NewDelivery
  <1>5. (IF through = target THEN NoToken ELSE token) \in TokenOrNone
    BY DEF TokenOrNone
  <1> HIDE DEF target, through
  <1>6. NewDelivery(c, pre, token, cut) \in Delivery
    BY <1>1, <1>2, <1>3, <1>4, <1>5 DEF Delivery
  <1> QED
    BY <1>2, <1>4, <1>6 DEF target

\* The cursor after a confirmation stands where the confirmed delivery ended.
LEMMA AdvancedRow ==
  ASSUME NEW c, NEW p \in Delivery
  PROVE  /\ Advanced(c, p) \in Cursor /\ Advanced(c, p).read = p.through /\ Advanced(c, p).status = "active"
         /\ Advanced(c, p).continuation = p.next
         /\ Advanced(c, p).pinned = NoRevision \/ Advanced(c, p).pinned = p.target
  <1> DEFINE pin == IF p.next = NoToken THEN NoRevision ELSE p.target
  <1>1. p.through \in Revision /\ p.target \in Revision /\ p.next \in TokenOrNone
    BY Zenon DEF Delivery
  <1>2. LeaseTtl \in 0 .. LeaseTtl
    BY TtlAssumption
  <1>3. pin \in Revision \cup {NoRevision} /\ (pin = NoRevision \/ pin = p.target)
    BY Zenon, <1>1
  <1>4. Advanced(c, p) = [status |-> "active", read |-> p.through, lease |-> LeaseTtl,
                          pinned |-> pin, continuation |-> p.next]
    BY Zenon DEF Advanced
  <1> HIDE DEF pin
  <1> QED
    BY <1>1, <1>2, <1>3, <1>4 DEF Cursor

\* createPending stores such a delivery and answers with it.
LEMMA Creating ==
  ASSUME TypeOK, NEW d \in Device, NEW s \in Slot, NEW c \in Cursor, NEW pre \in TokenOrNone,
         CreatePending(d, s, c, pre)
  PROVE  \E p \in Delivery :
           /\ p.from = c.read /\ p.predecessor = pre
           /\ p.confirm \in Token /\ p.confirm \notin TokensInUse(d)
           /\ p.through <= p.target
           /\ p.target = IF c.pinned = NoRevision THEN head ELSE c.pinned
           /\ c.read <= p.target => p.from <= p.through
           /\ pending' = [pending EXCEPT ![d] = p]
           /\ Answer(d, s, Delivered(p))
  <1>1. FreshToken(d) \in Token /\ FreshToken(d) \notin TokensInUse(d)
    <2>1. \E t \in Token \ TokensInUse(d) : TRUE
      BY DEF CreatePending
    <2>2. FreshToken(d) \in Token \ TokensInUse(d)
      BY <2>1 DEF FreshToken
    <2> QED
      BY <2>2
  <1>2. PICK cut \in {0, 1} :
          /\ pending' = [pending EXCEPT ![d] = NewDelivery(c, pre, FreshToken(d), cut)]
          /\ Answer(d, s, Delivered(NewDelivery(c, pre, FreshToken(d), cut)))
    BY Zenon DEF CreatePending
  <1> DEFINE p == NewDelivery(c, pre, FreshToken(d), cut)
  <1>3. /\ p \in Delivery
        /\ p.from = c.read /\ p.predecessor = pre /\ p.confirm = FreshToken(d)
        /\ p.through <= p.target
        /\ p.target = IF c.pinned = NoRevision THEN head ELSE c.pinned
        /\ c.read <= p.target => p.from <= p.through
    BY <1>1, NewDeliveryRow
  <1> HIDE DEF p
  <1>4. pending' = [pending EXCEPT ![d] = p] /\ Answer(d, s, Delivered(p))
    BY <1>2 DEF p
  <1> QED
    BY Zenon, <1>1, <1>3, <1>4

\* In particular its token is one nobody holds.
LEMMA CreatingNew ==
  ASSUME TypeOK, NEW d \in Device, NEW s \in Slot, NEW c \in Cursor, NEW pre \in TokenOrNone,
         CreatePending(d, s, c, pre)
  PROVE  \E p \in Delivery :
           /\ p.predecessor = pre /\ p.confirm \notin TokensInUse(d)
           /\ pending' = [pending EXCEPT ![d] = p] /\ Answer(d, s, Delivered(p))
  <1>1. PICK p \in Delivery :
           /\ p.from = c.read /\ p.predecessor = pre
           /\ p.confirm \in Token /\ p.confirm \notin TokensInUse(d)
           /\ p.through <= p.target
           /\ p.target = IF c.pinned = NoRevision THEN head ELSE c.pinned
           /\ c.read <= p.target => p.from <= p.through
           /\ pending' = [pending EXCEPT ![d] = p]
           /\ Answer(d, s, Delivered(p))
    BY Creating
  <1> QED
    BY Zenon, <1>1

\* Type correctness is preserved by every action.
LEMMA TypeStep == ASSUME TypeOK, [Next]_vars PROVE TypeOK'
  <1>1. ASSUME NEW d \in Device, PreparePull(d) PROVE TypeOK'
    <2>1. [after |-> local[d].applied, cursor |-> local[d].cursor,
           confirm |-> local[d].confirm, stage |-> "pull"] \in Request
      BY DEF TypeOK, Local, Request
    <2>2. request' \in [Device -> [Slot -> Request \cup {NoRequest}]]
      BY <1>1, <2>1 DEF PreparePull, TypeOK, Slot
    <2> QED
      BY <1>1, <2>2 DEF PreparePull, TypeOK
  <1>2. ASSUME NEW d \in Device, AbandonPull(d) PROVE TypeOK'
    BY <1>2 DEF AbandonPull, TypeOK, Slot
  <1>3. ASSUME NEW d \in Device, OutlivePull(d) PROVE TypeOK'
    BY <1>3 DEF OutlivePull, TypeOK, Slot
  <1>4. ASSUME NEW d \in Device, CompletePull(d) PROVE TypeOK'
    <2>1. local[d] \in Local /\ reply[d] \in Reply \cup {NoReply}
      BY DEF TypeOK
    <2>2. reply[d] \in Reply
      BY <1>4, <2>1 DEF CompletePull
    <2>3. Applied(local[d], reply[d]) \in Local
      BY <2>2 DEF Applied, Local, Reply, Page
    <2>4. MarkedForRebootstrap(local[d]) \in Local
      BY Zenon, <2>1 DEF MarkedForRebootstrap, Local, TokenOrNone
    <2>5. local' \in [Device -> Local]
      BY <1>4, <2>1, <2>3, <2>4 DEF CompletePull, TypeOK
    <2> QED
      BY <1>4, <2>5 DEF CompletePull, TypeOK
  <1>5. ASSUME NEW d \in Device, NEW s \in Slot, PullUnknown(d, s) PROVE TypeOK'
    <2>1. CASE Answer(d, s, Refused("conflict"))
      BY <1>5, <2>1, AnswerRows, AnswerTypes DEF PullUnknown, TypeOK
    <2>2. CASE request' = [request EXCEPT ![d][s].stage = "open"] /\ UNCHANGED reply
      <3>1. request[d][s] \in Request
        BY <1>5 DEF PullUnknown, TypeOK
      <3>2. [request[d][s] EXCEPT !.stage = "open"] \in Request
        BY <3>1 DEF Request
      <3>3. request' \in [Device -> [Slot -> Request \cup {NoRequest}]]
        BY <2>2, <3>2 DEF TypeOK
      <3> QED
        BY <1>5, <2>2, <3>3 DEF PullUnknown, TypeOK
    <2> QED
      BY <1>5, <2>1, <2>2 DEF PullUnknown
  <1>6. ASSUME NEW d \in Device, NEW s \in Slot, OpenCursor(d, s) PROVE TypeOK'
    <2> DEFINE at == request[d][s].after
    <2>1. request[d][s] \in Request /\ cursor[d] \in Cursor /\ at \in Revision
      BY <1>6 DEF OpenCursor, TypeOK, Request
    <2>2. Opened(at) \in Cursor
      BY <2>1, TtlAssumption DEF Opened, Cursor, TokenOrNone
    <2>3. Retired(cursor[d]) \in Cursor
      BY Zenon, <2>1 DEF Retired, Cursor, TokenOrNone
    <2>4. cursor' \in [Device -> Cursor]
      BY <1>6, <2>1, <2>2, <2>3 DEF OpenCursor, TypeOK
    <2>5. CASE OpenRefusal(cursor[d], at) = "none"
      <3>1. [request[d][s] EXCEPT !.stage = "retry"] \in Request
        BY <2>1 DEF Request
      <3>2. request' = [request EXCEPT ![d][s].stage = "retry"] /\ reply' = reply
        BY <1>6, <2>5 DEF OpenCursor
      <3>3. request' \in [Device -> [Slot -> Request \cup {NoRequest}]]
        BY <3>1, <3>2 DEF TypeOK
      <3> QED
        BY <1>6, <2>4, <3>2, <3>3 DEF OpenCursor, TypeOK
    <2>6. CASE OpenRefusal(cursor[d], at) # "none"
      <3>1. OpenRefusal(cursor[d], at) \in {"rebootstrap", "conflict"}
        BY <2>6 DEF OpenRefusal
      <3>2. Answer(d, s, Refused(OpenRefusal(cursor[d], at)))
        BY <1>6, <2>6 DEF OpenCursor
      <3>3. Refused(OpenRefusal(cursor[d], at)) \in Reply
        BY <3>1, AnswerTypes
      <3>4. /\ request' \in [Device -> [Slot -> Request \cup {NoRequest}]]
            /\ reply' \in [Device -> Reply \cup {NoReply}]
        BY <3>2, <3>3, AnswerRows
      <3> QED
        BY <1>6, <2>4, <3>4 DEF OpenCursor, TypeOK
    <2> QED
      BY <2>5, <2>6
  <1>7. ASSUME NEW d \in Device, NEW s \in Slot, PullUnresumable(d, s) PROVE TypeOK'
    <2>1. Retired(cursor[d]) \in Cursor
      BY Zenon DEF TypeOK, Retired, Cursor, TokenOrNone
    <2> QED
      BY <1>7, <2>1, AnswerRows, AnswerTypes DEF PullUnresumable, TypeOK
  <1>8. ASSUME NEW d \in Device, NEW s \in Slot, PullStale(d, s) PROVE TypeOK'
    BY <1>8, AnswerRows, AnswerTypes DEF PullStale, TypeOK
  <1>9. ASSUME NEW d \in Device, NEW s \in Slot, PullReplay(d, s) PROVE TypeOK'
    <2>1. pending[d] \in Delivery
      BY <1>9 DEF PullReplay, Repeats, TypeOK
    <2> QED
      BY <1>9, <2>1, AnswerRows, AnswerTypes DEF PullReplay, TypeOK
  <1>10. ASSUME NEW d \in Device, NEW s \in Slot, PullFirst(d, s) PROVE TypeOK'
    <2>1. request[d][s].confirm \in TokenOrNone /\ cursor[d] \in Cursor
      BY <1>10 DEF PullFirst, InPull, TypeOK, Request
    <2>2. PICK p \in Delivery : pending' = [pending EXCEPT ![d] = p] /\ Answer(d, s, Delivered(p))
      BY <1>10, <2>1, Creating DEF PullFirst
    <2> QED
      BY <1>10, <2>2, AnswerRows, AnswerTypes DEF PullFirst, TypeOK
  <1>11. ASSUME NEW d \in Device, NEW s \in Slot, PullConfirm(d, s) PROVE TypeOK'
    <2>1. request[d][s].confirm \in TokenOrNone
      BY <1>11 DEF PullConfirm, InPull, TypeOK, Request
    <2>2. Advanced(cursor[d], pending[d]) \in Cursor
      <3>1. pending[d] \in Delivery
        BY <1>11 DEF PullConfirm, Confirms, TypeOK
      <3> QED
        BY <3>1, TtlAssumption DEF Advanced, Cursor, Delivery
    <2>3. PICK p \in Delivery : pending' = [pending EXCEPT ![d] = p] /\ Answer(d, s, Delivered(p))
      BY <1>11, <2>1, <2>2, Creating DEF PullConfirm
    <2> QED
      BY <1>11, <2>2, <2>3, AnswerRows, AnswerTypes DEF PullConfirm, TypeOK
  <1>12. CASE CommitMutation
    BY <1>12, RevisionAssumption DEF CommitMutation, TypeOK, Revision
  <1>13. ASSUME NEW through \in Revision, Compact(through) PROVE TypeOK'
    <2>1. \A d \in Device : Retired(cursor[d]) \in Cursor
      BY Zenon DEF TypeOK, Retired, Cursor, TokenOrNone
    <2> QED
      BY <1>13, <2>1 DEF Compact, TypeOK
  <1>14. CASE Tick
    <2>1. \A n \in 0 .. LeaseTtl : Less(n) \in 0 .. LeaseTtl
      BY TtlAssumption DEF Less
    <2>2. \A d \in Device : [cursor[d] EXCEPT !.lease = Less(@)] \in Cursor
      BY Zenon, <2>1 DEF TypeOK, Cursor
    <2>3. \A d \in Device : pending[d] # NoDelivery => [pending[d] EXCEPT !.expires = Less(@)] \in Delivery
      BY Zenon, <2>1 DEF TypeOK, Delivery
    <2> QED
      BY <1>14, <2>2, <2>3 DEF Tick, TypeOK
  <1>15. CASE UNCHANGED vars
    BY <1>15 DEF vars, TypeOK
  <1> QED
    BY <1>1, <1>2, <1>3, <1>4, <1>5, <1>6, <1>7, <1>8, <1>9, <1>10, <1>11, <1>12, <1>13, <1>14, <1>15
       DEF Next, PullV2

-----------------------------------------------------------------------------
\* One device at a time

\* Nothing of device e changes.
Same(e) ==
    /\ cursor'[e] = cursor[e]
    /\ pending'[e] = pending[e]
    /\ local'[e] = local[e]
    /\ request'[e] = request[e]
    /\ reply'[e] = reply[e]

\* A step of device d or of its pull on the server.
DeviceStep(d) ==
    \/ PreparePull(d) \/ AbandonPull(d) \/ OutlivePull(d) \/ CompletePull(d)
    \/ \E s \in Slot : PullUnknown(d, s) \/ OpenCursor(d, s) \/ PullV2(d, s)

\* Such a step leaves the other devices and the log alone.
LEMMA OthersSame ==
  ASSUME TypeOK, NEW d \in Device, DeviceStep(d)
  PROVE  head' = head /\ compacted' = compacted /\ \A e \in Device \ {d} : Same(e)
  <1>1. CASE PreparePull(d) \/ AbandonPull(d) \/ OutlivePull(d) \/ CompletePull(d)
    BY <1>1 DEF TypeOK, PreparePull, AbandonPull, OutlivePull, CompletePull, Same
  <1>2. ASSUME NEW s \in Slot, PullUnknown(d, s)
        PROVE head' = head /\ compacted' = compacted /\ \A e \in Device \ {d} : Same(e)
    BY <1>2 DEF TypeOK, PullUnknown, Answer, Same
  <1>3. ASSUME NEW s \in Slot, OpenCursor(d, s)
        PROVE head' = head /\ compacted' = compacted /\ \A e \in Device \ {d} : Same(e)
    BY <1>3 DEF TypeOK, OpenCursor, Answer, Same
  <1>4. ASSUME NEW s \in Slot, PullUnresumable(d, s) \/ PullStale(d, s) \/ PullReplay(d, s)
        PROVE head' = head /\ compacted' = compacted /\ \A e \in Device \ {d} : Same(e)
    BY <1>4 DEF TypeOK, PullUnresumable, PullStale, PullReplay, Answer, Same
  <1>5. ASSUME NEW s \in Slot, PullFirst(d, s) \/ PullConfirm(d, s)
        PROVE head' = head /\ compacted' = compacted /\ \A e \in Device \ {d} : Same(e)
    <2>1. /\ head' = head /\ compacted' = compacted /\ local' = local
          /\ \A e \in Device \ {d} : cursor'[e] = cursor[e]
      BY <1>5 DEF TypeOK, PullFirst, PullConfirm
    <2>2. \A e \in Device \ {d} : pending'[e] = pending[e] /\ request'[e] = request[e] /\ reply'[e] = reply[e]
      BY <1>5 DEF TypeOK, PullFirst, PullConfirm, CreatePending, Answer
    <2> QED
      BY <2>1, <2>2 DEF Same
  <1> QED
    BY <1>1, <1>2, <1>3, <1>4, <1>5 DEF DeviceStep, PullV2

\* A device nothing happens to keeps its part of the invariant while the log grows.
LEMMA Frame ==
  ASSUME RevisionInvariant, TypeOK', NEW e \in Device, Same(e), head <= head', compacted' = compacted
  PROVE  DeliveryOrdered(e)' /\ CursorOrdered(e)' /\ AppliedAhead(e)'
  <1>0. TypeOK /\ DeliveryOrdered(e) /\ CursorOrdered(e) /\ AppliedAhead(e)
    BY DEF RevisionInvariant
  <1>1. head \in Int /\ head' \in Int
    BY <1>0, RevisionAssumption DEF TypeOK, Revision
  <1>2. pending[e] # NoDelivery => pending[e].target \in Int
    BY <1>0, RevisionAssumption DEF TypeOK, Delivery, Revision
  <1>3. cursor[e].read \in Int /\ cursor[e].pinned \in Int
    BY <1>0, RevisionAssumption DEF TypeOK, Cursor, Revision, NoRevision
  <1>4. DeliveryOrdered(e)'
    BY <1>0, <1>1, <1>2 DEF Same, DeliveryOrdered
  <1>5. CursorOrdered(e)'
    BY <1>0, <1>1, <1>3 DEF Same, CursorOrdered
  <1>6. AppliedAhead(e)'
    BY <1>0 DEF Same, AppliedAhead
  <1> QED
    BY <1>4, <1>5, <1>6

\* The actions of a device preserve the order of its revisions.
LEMMA DeviceRevisions ==
  ASSUME RevisionInvariant, TypeOK', NEW d \in Device, DeviceStep(d)
  PROVE  DeliveryOrdered(d)' /\ CursorOrdered(d)' /\ AppliedAhead(d)'
  <1>0. TypeOK /\ DeliveryOrdered(d) /\ CursorOrdered(d) /\ AppliedAhead(d)
    BY DEF RevisionInvariant
  <1>1. head' = head /\ compacted' = compacted
    BY <1>0, OthersSame
  <1>2. /\ local[d] \in Local /\ local[d].applied \in Nat /\ head \in Nat /\ compacted \in Nat
        /\ cursor[d] \in Cursor /\ cursor[d].read \in Nat /\ cursor[d].pinned \in Int
        /\ pending[d] # NoDelivery => /\ pending[d] \in Delivery
                                      /\ pending[d].from \in Nat /\ pending[d].through \in Nat
                                      /\ pending[d].target \in Nat
    BY <1>0, RevisionAssumption DEF TypeOK, Local, Cursor, Delivery, Revision, NoRevision
  <1>3. ASSUME NEW s \in Slot, NEW r, Answer(d, s, r), local' = local,
               r.code = "accepted" => r.page.from <= r.page.through,
               cursor'[d].status # "unknown" => cursor'[d].read <= local[d].applied
        PROVE AppliedAhead(d)'
    BY <1>0, <1>3, AnswerRows DEF AppliedAhead
  <1>4. CASE PreparePull(d)
    <2>1. /\ cursor' = cursor /\ pending' = pending /\ local' = local /\ reply' = reply
          /\ \A s \in Slot : request'[d][s] # request[d][s] => request'[d][s].after = local[d].applied
      BY <1>0, <1>4 DEF PreparePull, TypeOK, Slot
    <2> QED
      BY <1>0, <1>1, <1>2, <2>1 DEF DeliveryOrdered, CursorOrdered, AppliedAhead
  <1>5. CASE AbandonPull(d)
    <2>1. /\ cursor' = cursor /\ pending' = pending /\ local' = local /\ reply'[d] = NoReply
          /\ \A s \in Slot : request'[d][s] = request[d][s] \/ request'[d][s] = NoRequest
      BY <1>0, <1>5 DEF AbandonPull, TypeOK, Slot
    <2> QED
      BY <1>0, <1>1, <2>1 DEF DeliveryOrdered, CursorOrdered, AppliedAhead
  <1>6. CASE OutlivePull(d)
    <2>1. /\ cursor' = cursor /\ pending' = pending /\ local' = local /\ reply' = reply
          /\ "waiting" \in Slot
          /\ \A s \in Slot : request'[d][s] = request[d]["waiting"] \/ request'[d][s] = NoRequest
      BY <1>0, <1>6 DEF OutlivePull, TypeOK, Slot
    <2> QED
      BY <1>0, <1>1, <2>1 DEF DeliveryOrdered, CursorOrdered, AppliedAhead
  <1>7. CASE CompletePull(d)
    <2>1. /\ cursor' = cursor /\ pending' = pending /\ request' = request /\ reply'[d] = NoReply
          /\ local[d].applied <= local'[d].applied
      <3>1. reply[d] \in Reply
        BY <1>0, <1>7 DEF CompletePull, TypeOK
      <3>2. Appliable(local[d], reply[d]) => Applied(local[d], reply[d]).applied = reply[d].page.through
                                             /\ local[d].applied <= reply[d].page.through
        BY <1>0, <1>7 DEF Appliable, Applied, AppliedAhead, CompletePull
      <3>3. MarkedForRebootstrap(local[d]).applied = local[d].applied
        BY <1>2 DEF MarkedForRebootstrap, Local
      <3> QED
        BY <1>0, <1>2, <1>7, <3>2, <3>3 DEF CompletePull, TypeOK
    <2>2. local'[d].applied \in Nat
      BY RevisionAssumption DEF TypeOK, Local, Revision
    <2>3. \A s \in Slot : request[d][s] # NoRequest => request[d][s].after \in Nat
      BY <1>0, RevisionAssumption DEF TypeOK, Request, Revision
    <2> QED
      BY <1>0, <1>1, <1>2, <2>1, <2>2, <2>3 DEF DeliveryOrdered, CursorOrdered, AppliedAhead
  <1>8. ASSUME NEW s \in Slot, PullUnknown(d, s)
        PROVE DeliveryOrdered(d)' /\ CursorOrdered(d)' /\ AppliedAhead(d)'
    <2>1. cursor' = cursor /\ pending' = pending /\ local' = local
      BY <1>8 DEF PullUnknown
    <2>2. AppliedAhead(d)'
      <3>1. CASE Answer(d, s, Refused("conflict"))
        BY <1>0, <1>3, <2>1, <3>1 DEF Refused, AppliedAhead
      <3>2. CASE request' = [request EXCEPT ![d][s].stage = "open"] /\ UNCHANGED reply
        <4>1. request[d][s] \in Request
          BY <1>0, <1>8 DEF PullUnknown, TypeOK
        <4>2. \A t \in Slot : t # s => request'[d][t] = request[d][t]
          BY <1>0, <3>2 DEF TypeOK
        <4>3. request'[d][s].after = request[d][s].after /\ request[d][s] # NoRequest
          BY <1>0, <1>8, <3>2, <4>1 DEF TypeOK, Request, PullUnknown
        <4> QED
          BY <1>0, <2>1, <3>2, <4>2, <4>3 DEF AppliedAhead
      <3> QED
        BY Zenon, <1>8, <3>1, <3>2 DEF PullUnknown
    <2> QED
      BY <1>0, <1>1, <2>1, <2>2 DEF DeliveryOrdered, CursorOrdered
  <1>9. ASSUME NEW s \in Slot, OpenCursor(d, s)
        PROVE DeliveryOrdered(d)' /\ CursorOrdered(d)' /\ AppliedAhead(d)'
    <2> DEFINE at == request[d][s].after
    <2>1. /\ request[d][s] \in Request /\ request[d][s] # NoRequest /\ at \in Nat
          /\ at <= local[d].applied /\ pending' = pending /\ local' = local
      BY <1>0, <1>9, RevisionAssumption DEF OpenCursor, TypeOK, Request, Revision, AppliedAhead
    <2> HIDE DEF at
    <2>2. CASE OpenRefusal(cursor[d], at) = "none"
      <3>1. /\ cursor'[d] = IF cursor[d].status = "unknown" THEN Opened(at) ELSE cursor[d]
            /\ request' = [request EXCEPT ![d][s].stage = "retry"] /\ reply' = reply
        BY <1>0, <1>9, <2>2 DEF OpenCursor, TypeOK, at
      <3>2. compacted <= at /\ at <= head
        BY <1>2, <2>1, <2>2 DEF OpenRefusal
      <3>3. /\ Opened(at).status = "active" /\ Opened(at).read = at /\ Opened(at).pinned = NoRevision
        BY DEF Opened
      <3>4. CursorOrdered(d)'
        BY <1>0, <1>1, <1>2, <2>1, <3>1, <3>2, <3>3 DEF CursorOrdered
      <3>5. /\ \A t \in Slot : t # s => request'[d][t] = request[d][t]
            /\ request'[d][s].after = at
        BY <1>0, <2>1, <3>1 DEF TypeOK, Request, at
      <3>6. AppliedAhead(d)'
        BY <1>0, <2>1, <3>1, <3>3, <3>5 DEF AppliedAhead
      <3> QED
        BY <1>0, <1>1, <2>1, <3>4, <3>6 DEF DeliveryOrdered
    <2>3. CASE OpenRefusal(cursor[d], at) # "none"
      <3>1. /\ cursor'[d] = cursor[d]
               \/ (cursor'[d] = Retired(cursor[d]) /\ cursor[d].status = "active")
            /\ Answer(d, s, Refused(OpenRefusal(cursor[d], at)))
        BY <1>0, <1>9, <2>3 DEF OpenCursor, TypeOK, at
      <3>2. Retired(cursor[d]).status = "retired" /\ Retired(cursor[d]).read = cursor[d].read
        BY <1>2 DEF Retired, Cursor
      <3>3. CursorOrdered(d)'
        BY <1>0, <1>1, <2>1, <3>1, <3>2 DEF CursorOrdered
      <3>4. Refused(OpenRefusal(cursor[d], at)).code # "accepted"
        BY Zenon DEF Refused, OpenRefusal
      <3>5. AppliedAhead(d)'
        BY Zenon, <1>0, <1>3, <2>1, <3>1, <3>2, <3>4 DEF AppliedAhead
      <3> QED
        BY <1>0, <1>1, <2>1, <3>3, <3>5 DEF DeliveryOrdered
    <2> QED
      BY <2>2, <2>3
  <1>10. ASSUME NEW s \in Slot, PullUnresumable(d, s)
         PROVE DeliveryOrdered(d)' /\ CursorOrdered(d)' /\ AppliedAhead(d)'
    <2>1. /\ pending' = pending /\ local' = local /\ Answer(d, s, Refused("rebootstrap"))
          /\ cursor'[d] = Retired(cursor[d]) /\ cursor[d].status # "unknown"
      BY Zenon, <1>0, <1>10 DEF PullUnresumable, InPull, TypeOK
    <2>2. Retired(cursor[d]).status = "retired" /\ Retired(cursor[d]).read = cursor[d].read
      BY <1>2 DEF Retired, Cursor
    <2>3. AppliedAhead(d)'
      BY Zenon, <1>0, <1>3, <2>1, <2>2 DEF AppliedAhead, Refused
    <2> QED
      BY <1>0, <1>1, <2>1, <2>2, <2>3 DEF DeliveryOrdered, CursorOrdered
  <1>11. ASSUME NEW s \in Slot, PullStale(d, s)
         PROVE DeliveryOrdered(d)' /\ CursorOrdered(d)' /\ AppliedAhead(d)'
    <2>1. /\ pending' = pending /\ local' = local /\ cursor' = cursor
          /\ Answer(d, s, Refused("conflict"))
      BY Zenon, <1>11 DEF PullStale
    <2> QED
      BY Zenon, <1>0, <1>1, <1>3, <2>1 DEF DeliveryOrdered, CursorOrdered, AppliedAhead, Refused
  <1>12. ASSUME NEW s \in Slot, PullReplay(d, s)
         PROVE DeliveryOrdered(d)' /\ CursorOrdered(d)' /\ AppliedAhead(d)'
    <2>1. /\ pending' = pending /\ local' = local /\ cursor' = cursor
          /\ Answer(d, s, Delivered(pending[d])) /\ pending[d] # NoDelivery
      BY Zenon, <1>12 DEF PullReplay, Repeats
    <2>2. Delivered(pending[d]).page.from <= Delivered(pending[d]).page.through
      BY Zenon, <1>0, <2>1 DEF Delivered, DeliveryOrdered
    <2>3. AppliedAhead(d)'
      BY Zenon, <1>0, <1>3, <2>1, <2>2 DEF AppliedAhead
    <2> QED
      BY Zenon, <1>0, <1>1, <2>1, <2>3 DEF DeliveryOrdered, CursorOrdered
  <1>13. ASSUME NEW s \in Slot, PullFirst(d, s)
         PROVE DeliveryOrdered(d)' /\ CursorOrdered(d)' /\ AppliedAhead(d)'
    <2>1. /\ request[d][s].confirm \in TokenOrNone /\ cursor' = cursor /\ local' = local
          /\ cursor[d].status = "active"
      BY <1>0, <1>2, <1>13 DEF PullFirst, InPull, TypeOK, Request, Unresumable, Cursor
    <2>2. PICK p \in Delivery :
            /\ p.from = cursor[d].read
            /\ p.through <= p.target
            /\ p.target = IF cursor[d].pinned = NoRevision THEN head ELSE cursor[d].pinned
            /\ cursor[d].read <= p.target => p.from <= p.through
            /\ pending' = [pending EXCEPT ![d] = p] /\ Answer(d, s, Delivered(p))
      BY Zenon, <1>0, <1>2, <1>13, <2>1, Creating DEF PullFirst
    <2>3. pending'[d] = p /\ p.from <= p.through /\ p.target <= head
      BY <1>0, <1>2, <2>1, <2>2 DEF TypeOK, CursorOrdered
    <2>4. Delivered(p).page.from = p.from /\ Delivered(p).page.through = p.through
      BY Zenon DEF Delivered
    <2>5. AppliedAhead(d)'
      BY Zenon, <1>0, <1>3, <2>1, <2>2, <2>3, <2>4 DEF AppliedAhead
    <2> QED
      BY <1>0, <1>1, <2>1, <2>2, <2>3, <2>5 DEF DeliveryOrdered, CursorOrdered
  <1>14. ASSUME NEW s \in Slot, PullConfirm(d, s)
         PROVE DeliveryOrdered(d)' /\ CursorOrdered(d)' /\ AppliedAhead(d)'
    <2> DEFINE c == Advanced(cursor[d], pending[d])
    <2>1. /\ request[d][s].confirm \in TokenOrNone /\ local' = local /\ cursor'[d] = c
          /\ cursor[d].status = "active" /\ pending[d] # NoDelivery /\ request[d][s] # NoRequest
          /\ request[d][s].after = pending[d].through
      BY <1>0, <1>2, <1>14 DEF PullConfirm, InPull, TypeOK, Request, Unresumable, Cursor, Confirms
    <2>2. /\ c \in Cursor /\ c.read = pending[d].through /\ c.status = "active"
          /\ c.pinned = NoRevision \/ c.pinned = pending[d].target
      BY Zenon, <1>2, <2>1, AdvancedRow
    <2> HIDE DEF c
    <2>3. PICK p \in Delivery :
            /\ p.from = c.read
            /\ p.through <= p.target
            /\ p.target = IF c.pinned = NoRevision THEN head ELSE c.pinned
            /\ c.read <= p.target => p.from <= p.through
            /\ pending' = [pending EXCEPT ![d] = p] /\ Answer(d, s, Delivered(p))
      BY Zenon, <1>0, <1>14, <2>1, <2>2, Creating DEF PullConfirm, c
    <2>4. /\ pending[d].from <= pending[d].through /\ pending[d].through <= pending[d].target
          /\ pending[d].target <= head /\ pending[d].from = cursor[d].read
          /\ compacted <= cursor[d].read
      BY <1>0, <2>1 DEF DeliveryOrdered, CursorOrdered
    <2>5. c.read <= head /\ compacted <= c.read /\ (c.pinned # NoRevision => c.read <= c.pinned /\ c.pinned <= head)
      BY <1>2, <2>1, <2>2, <2>4
    <2>6. pending'[d] = p /\ p.from <= p.through /\ p.target <= head
      BY <1>0, <1>2, <2>1, <2>2, <2>3, <2>5 DEF TypeOK
    <2>7. Delivered(p).page.from = p.from /\ Delivered(p).page.through = p.through
      BY DEF Delivered
    <2>8. c.read <= local[d].applied
      BY Zenon, <1>0, <2>1, <2>2 DEF AppliedAhead
    <2>9. AppliedAhead(d)'
      BY <1>0, <1>3, <2>1, <2>3, <2>6, <2>7, <2>8 DEF AppliedAhead
    <2> QED
      BY Zenon, <1>0, <1>1, <2>1, <2>2, <2>3, <2>5, <2>6, <2>9 DEF DeliveryOrdered, CursorOrdered
  <1> QED
    BY <1>4, <1>5, <1>6, <1>7, <1>8, <1>9, <1>10, <1>11, <1>12, <1>13, <1>14 DEF DeviceStep, PullV2

\* A step is one of a device, or moves the log or the clock.
LEMMA Steps ==
  ASSUME [Next]_vars
  PROVE  \/ \E d \in Device : DeviceStep(d)
         \/ CommitMutation
         \/ \E through \in Revision : Compact(through)
         \/ Tick
         \/ UNCHANGED vars
  BY DEF Next, DeviceStep

\* Every step preserves the order of revisions.
LEMMA RevisionStep == ASSUME RevisionInvariant, [Next]_vars PROVE RevisionInvariant'
  <1>0. TypeOK /\ TypeOK' /\ compacted <= head
    BY TypeStep DEF RevisionInvariant
  <1>1. head \in Nat /\ head' \in Nat /\ compacted \in Nat /\ compacted' \in Nat
    BY <1>0, RevisionAssumption DEF TypeOK, Revision
  <1>2. ASSUME NEW d \in Device, DeviceStep(d) PROVE RevisionInvariant'
    <2>1. head' = head /\ compacted' = compacted /\ \A e \in Device \ {d} : Same(e)
      BY <1>0, <1>2, OthersSame
    <2>2. DeliveryOrdered(d)' /\ CursorOrdered(d)' /\ AppliedAhead(d)'
      BY <1>0, <1>2, DeviceRevisions
    <2>3. ASSUME NEW e \in Device \ {d} PROVE DeliveryOrdered(e)' /\ CursorOrdered(e)' /\ AppliedAhead(e)'
      BY <1>0, <1>1, <2>1, Frame
    <2> QED
      BY <1>0, <2>1, <2>2, <2>3 DEF RevisionInvariant
  <1>3. CASE CommitMutation \/ UNCHANGED vars
    <2>1. head <= head' /\ compacted' = compacted /\ \A e \in Device : Same(e)
      BY <1>1, <1>3 DEF CommitMutation, vars, Same
    <2>2. ASSUME NEW e \in Device PROVE DeliveryOrdered(e)' /\ CursorOrdered(e)' /\ AppliedAhead(e)'
      BY <1>0, <1>1, <2>1, Frame
    <2> QED
      BY <1>0, <1>1, <2>1, <2>2 DEF RevisionInvariant
  <1>4. ASSUME NEW through \in Revision, Compact(through) PROVE RevisionInvariant'
    <2>1. compacted' = through /\ through <= head /\ head' = head
          /\ pending' = pending /\ local' = local /\ request' = request /\ reply' = reply
      BY Zenon, <1>4 DEF Compact
    <2>2. ASSUME NEW e \in Device PROVE DeliveryOrdered(e)' /\ CursorOrdered(e)' /\ AppliedAhead(e)'
      <3>0. DeliveryOrdered(e) /\ CursorOrdered(e) /\ AppliedAhead(e) /\ cursor[e] \in Cursor
        BY <1>0 DEF RevisionInvariant, TypeOK
      <3>1. /\ cursor'[e].read = cursor[e].read
            /\ cursor'[e].status = "unknown" <=> cursor[e].status = "unknown"
            /\ cursor'[e].status = "active" => cursor'[e] = cursor[e] /\ through <= cursor[e].read
        BY Zenon, <1>4, <3>0 DEF Compact, Expired, Retired, Cursor
      <3> QED
        BY <2>1, <3>0, <3>1 DEF DeliveryOrdered, CursorOrdered, AppliedAhead
    <2> QED
      BY <1>0, <2>1, <2>2 DEF RevisionInvariant
  <1>5. CASE Tick
    <2>1. head' = head /\ compacted' = compacted /\ local' = local /\ request' = request /\ reply' = reply
      BY Zenon, <1>5 DEF Tick
    <2>2. ASSUME NEW e \in Device PROVE DeliveryOrdered(e)' /\ CursorOrdered(e)' /\ AppliedAhead(e)'
      <3>0. DeliveryOrdered(e) /\ CursorOrdered(e) /\ AppliedAhead(e) /\ cursor[e] \in Cursor
        BY <1>0 DEF RevisionInvariant, TypeOK
      <3>1. /\ cursor'[e].read = cursor[e].read /\ cursor'[e].status = cursor[e].status
            /\ cursor'[e].pinned = cursor[e].pinned
        BY <1>5, <3>0 DEF Tick, Cursor
      <3>2. /\ pending[e] = NoDelivery => pending'[e] = NoDelivery
            /\ pending[e] # NoDelivery => /\ pending'[e].from = pending[e].from
                                          /\ pending'[e].through = pending[e].through
                                          /\ pending'[e].target = pending[e].target
        BY <1>0, <1>5 DEF Tick, TypeOK, Delivery
      <3> QED
        BY <2>1, <3>0, <3>1, <3>2 DEF DeliveryOrdered, CursorOrdered, AppliedAhead
    <2> QED
      BY <1>0, <2>1, <2>2 DEF RevisionInvariant
  <1> QED
    BY <1>2, <1>3, <1>4, <1>5, Steps

\* The initial state satisfies the invariant.
LEMMA InitRevisions == Init => RevisionInvariant
  <1> SUFFICES ASSUME Init PROVE RevisionInvariant
    OBVIOUS
  <1>1. head \in Revision /\ compacted \in Revision /\ compacted <= head
    BY RevisionAssumption DEF Init, Revision
  <1>2. PICK applied \in [Device -> 0 .. head] :
          local = [d \in Device |-> [status |-> "new", applied |-> applied[d],
                                     cursor |-> NoToken, confirm |-> NoToken, page |-> NoPage]]
    BY DEF Init
  <1>3. local \in [Device -> Local]
    <2>1. \A d \in Device : applied[d] \in Revision
      BY <1>1, RevisionAssumption DEF Revision
    <2> QED
      BY <1>2, <2>1 DEF Local, TokenOrNone
  <1>4. cursor \in [Device -> Cursor]
    BY RevisionAssumption, TtlAssumption DEF Init, Cursor, Revision, NoRevision, TokenOrNone
  <1>5. TypeOK
    BY Zenon, <1>1, <1>3, <1>4 DEF Init, TypeOK
  <1>6. ASSUME NEW d \in Device PROVE DeliveryOrdered(d) /\ CursorOrdered(d) /\ AppliedAhead(d)
    BY DEF Init, DeliveryOrdered, CursorOrdered, AppliedAhead
  <1> QED
    BY <1>1, <1>5, <1>6 DEF RevisionInvariant

\* Every reachable state has its revisions in order.
THEOREM RevisionsCorrect == Spec => []RevisionInvariant
  BY InitRevisions, RevisionStep, PTL DEF Spec

\* Compaction never takes from a live reader what it has still to read, for any
\* number of devices and however pulls are lost, repeated or handled late.
THEOREM LiveReaderKeepsHistoryHolds == Spec => []LiveReaderKeepsHistory
  <1>1. RevisionInvariant => LiveReaderKeepsHistory
    BY Zenon DEF RevisionInvariant, LiveReaderKeepsHistory, DeliveryOrdered, CursorOrdered
  <1> QED
    BY <1>1, RevisionsCorrect, PTL

\* The progress that the Cloud records for a reader is never ahead of what the
\* device has durably applied.
THEOREM ConfirmedIsAppliedHolds == Spec => []ConfirmedIsApplied
  <1>1. RevisionInvariant => ConfirmedIsApplied
    BY DEF RevisionInvariant, ConfirmedIsApplied, AppliedAhead
  <1> QED
    BY <1>1, RevisionsCorrect, PTL

-----------------------------------------------------------------------------
\* What a device presents

\* The device stands before its pending delivery: it holds what preceded it.
AtCursor(d) ==
    /\ local[d].confirm = pending[d].predecessor
    /\ local[d].applied = cursor[d].read
    /\ local[d].cursor = cursor[d].continuation

\* The device stands behind its pending delivery: it has applied it.
AtPending(d) ==
    /\ local[d].confirm = pending[d].confirm
    /\ local[d].applied = pending[d].through
    /\ local[d].cursor = pending[d].next

\* A waiting request presents what the device still holds, and a device that has to
\* rebootstrap neither waits nor has an answer.
Waits(d) ==
    /\ request[d]["waiting"] # NoRequest =>
          /\ reply[d] = NoReply
          /\ local[d].status # "rebootstrap_required"
          /\ request[d]["waiting"].after = local[d].applied
          /\ request[d]["waiting"].cursor = local[d].cursor
          /\ request[d]["waiting"].confirm = local[d].confirm
    /\ reply[d] # NoReply => local[d].status # "rebootstrap_required"

\* Until its first delivery a device holds no token and has not moved.
Unread(d) ==
    pending[d] = NoDelivery =>
        /\ local[d].confirm = NoToken /\ local[d].cursor = NoToken
        /\ \A s \in Slot : request[d][s] # NoRequest => request[d][s].after = local[d].applied
        /\ reply[d] # NoReply => reply[d].code # "accepted"
        /\ cursor[d].status = "active" => /\ cursor[d].read = local[d].applied
                                          /\ cursor[d].continuation = NoToken

\* A delivery's token differs from its predecessor's.
TokenNew(d) == pending[d] # NoDelivery => pending[d].predecessor # pending[d].confirm

\* A device with a live cursor stands before or behind its pending delivery; a
\* request with the delivery's token was made behind it, an answer in the device's
\* hands is the delivery and finds the device before it.
InPlace(d) ==
    ( /\ cursor[d].status = "active" /\ pending[d] # NoDelivery
      /\ local[d].status # "rebootstrap_required" ) =>
        /\ AtCursor(d) \/ AtPending(d)
        /\ \A s \in Slot :
             request[d][s] # NoRequest /\ request[d][s].confirm = pending[d].confirm => AtPending(d)
        /\ reply[d] # NoReply /\ reply[d].code = "accepted"
             => AtCursor(d) /\ reply[d] = Delivered(pending[d])

Placed(d) == Waits(d) /\ Unread(d) /\ TokenNew(d) /\ InPlace(d)

ResumeInvariant == RevisionInvariant /\ \A d \in Device : Placed(d)

\* A device nothing happens to stays in its place.
LEMMA PlacedFrame == ASSUME NEW e \in Device, Placed(e), Same(e) PROVE Placed(e)'
  <1>1. Waits(e)'
    BY Zenon DEF Placed, Same, Waits
  <1>2. Unread(e)'
    BY Zenon DEF Placed, Same, Unread
  <1>3. TokenNew(e)'
    BY Zenon DEF Placed, Same, TokenNew
  <1>4. InPlace(e)'
    BY Zenon DEF Placed, Same, InPlace, AtCursor, AtPending
  <1> QED
    BY Zenon, <1>1, <1>2, <1>3, <1>4 DEF Placed

\* A refusal, or the answer to a request nobody waits for, moves no device whose
\* cursor keeps its place or is retired.
LEMMA PlacedRefusal ==
  ASSUME TypeOK, NEW d \in Device, Placed(d), NEW s \in Slot, NEW code \in {"rebootstrap", "conflict"},
         request[d][s] # NoRequest,
         Answer(d, s, Refused(code)), local' = local, pending' = pending,
         cursor'[d] = cursor[d] \/ cursor'[d].status = "retired"
  PROVE  Placed(d)'
  <1>0. Waits(d) /\ Unread(d) /\ TokenNew(d) /\ InPlace(d)
    BY Zenon DEF Placed
  <1>1. /\ \A t \in Slot : request'[d][t] = request[d][t] \/ request'[d][t] = NoRequest
        /\ request'[d][s] = NoRequest
        /\ s = "waiting" => reply'[d] = Refused(code)
        /\ s # "waiting" => reply'[d] = reply[d] /\ request'[d]["waiting"] = request[d]["waiting"]
    BY Zenon, AnswerSlots
  <1>2. Refused(code).code # "accepted"
    BY Zenon DEF Refused
  <1>3. Waits(d)'
    BY Zenon, <1>0, <1>1 DEF Waits, Slot
  <1>4. Unread(d)'
    BY Zenon, <1>0, <1>1, <1>2 DEF Unread
  <1>5. TokenNew(d)'
    BY <1>0 DEF TokenNew
  <1>6. InPlace(d)'
    BY Zenon, <1>0, <1>1, <1>2 DEF InPlace, AtCursor, AtPending
  <1> QED
    BY <1>3, <1>4, <1>5, <1>6 DEF Placed

\* A delivery with a new token, made for a device that stands where the cursor now
\* is, leaves the device before it.
LEMMA PlacedCreation ==
  ASSUME TypeOK, TypeOK', NEW d \in Device, Waits(d), NEW s \in Slot, NEW p \in Delivery,
         request[d][s] # NoRequest, p.predecessor = request[d][s].confirm,
         p.confirm \notin TokensInUse(d), local' = local,
         pending' = [pending EXCEPT ![d] = p], Answer(d, s, Delivered(p)),
         local[d].status # "rebootstrap_required" =>
            /\ local[d].confirm = p.predecessor
            /\ local[d].applied = cursor'[d].read
            /\ local[d].cursor = cursor'[d].continuation
            /\ ~(reply[d] # NoReply /\ reply[d].code = "accepted")
  PROVE  Placed(d)'
  <1>1. /\ \A t \in Slot : request'[d][t] = request[d][t] \/ request'[d][t] = NoRequest
        /\ request'[d][s] = NoRequest
        /\ s = "waiting" => reply'[d] = Delivered(p)
        /\ s # "waiting" => reply'[d] = reply[d] /\ request'[d]["waiting"] = request[d]["waiting"]
    BY AnswerSlots
  <1>2. pending'[d] = p /\ p # NoDelivery
    BY Zenon, Markers DEF TypeOK
  <1>3. \A t \in Slot : request[d][t] # NoRequest => request[d][t].confirm # p.confirm
    <2>1. \A t \in Slot : request[d][t] # NoRequest =>
            /\ request[d][t].confirm \in TokensOf(request[d][t])
            /\ TokensOf(request[d][t]) \in {TokensOf(request[d][u]) : u \in Slot}
      BY DEF TokensOf
    <2>2. \A t \in Slot : request[d][t] # NoRequest =>
            request[d][t].confirm \in UNION {TokensOf(request[d][u]) : u \in Slot}
      BY Zenon, <2>1
    <2> QED
      BY Zenon, <2>2 DEF TokensInUse
  <1>4. Waits(d)'
    BY Zenon, <1>1 DEF Waits, Slot
  <1>5. Unread(d)'
    BY <1>2 DEF Unread
  <1>6. TokenNew(d)'
    BY Zenon, <1>2, <1>3 DEF TokenNew
  <1>7. InPlace(d)'
    <2>1. ASSUME local'[d].status # "rebootstrap_required" PROVE AtCursor(d)'
      BY Zenon, <1>2, <2>1 DEF AtCursor
    <2>2. \A t \in Slot : request'[d][t] # NoRequest => request'[d][t].confirm # p.confirm
      BY Zenon, <1>1, <1>3
    <2>3. ASSUME local'[d].status # "rebootstrap_required", reply'[d] # NoReply,
                 reply'[d].code = "accepted"
          PROVE reply'[d] = Delivered(p)
      BY Zenon, <1>1, <2>3
    <2>4. Delivered(pending[d])' = Delivered(p)
      BY Zenon, <1>2 DEF Delivered
    <2> QED
      BY Zenon, <1>2, <2>1, <2>2, <2>3, <2>4 DEF InPlace
  <1> QED
    BY Zenon, <1>4, <1>5, <1>6, <1>7 DEF Placed

\* Every step of a device leaves it in its place.
LEMMA PlacedStep ==
  ASSUME ResumeInvariant, TypeOK', NEW d \in Device, DeviceStep(d)
  PROVE  Placed(d)'
  <1>0. /\ TypeOK /\ CursorOrdered(d) /\ Placed(d)
        /\ Waits(d) /\ Unread(d) /\ TokenNew(d) /\ InPlace(d)
    BY DEF ResumeInvariant, RevisionInvariant, Placed
  <1>1. /\ "waiting" \in Slot /\ "late" \in Slot /\ cursor[d] \in Cursor /\ local[d] \in Local
        /\ \A s \in Slot : request[d][s] # NoRequest =>
              request[d][s] \in Request /\ request[d][s].confirm \in TokenOrNone
        /\ pending[d] # NoDelivery => pending[d] \in Delivery /\ pending[d].confirm \in Token
    BY <1>0 DEF Slot, TypeOK, Request, Delivery
  <1>2. CASE PreparePull(d)
    <2>1. /\ cursor' = cursor /\ pending' = pending /\ local' = local /\ reply' = reply
          /\ reply[d] = NoReply /\ local[d].status # "rebootstrap_required"
          /\ request'[d]["late"] = request[d]["late"]
          /\ request'[d]["waiting"] = [after |-> local[d].applied, cursor |-> local[d].cursor,
                                       confirm |-> local[d].confirm, stage |-> "pull"]
      BY Zenon, <1>0, <1>2 DEF PreparePull, Busy, TypeOK, Slot
    <2>q. /\ request'[d]["waiting"].after = local[d].applied
          /\ request'[d]["waiting"].cursor = local[d].cursor
          /\ request'[d]["waiting"].confirm = local[d].confirm
      BY <2>1
    <2>s. \A s \in Slot : s = "waiting" \/ (s = "late" /\ request'[d][s] = request[d][s])
      BY Zenon, <2>1 DEF Slot
    <2>2. Waits(d)'
      BY Zenon, <2>1, <2>q DEF Waits
    <2>3. Unread(d)' /\ TokenNew(d)'
      BY Zenon, <1>0, <2>1, <2>q, <2>s DEF Unread, TokenNew
    <2>4. InPlace(d)'
      <3>1. ASSUME cursor[d].status = "active", pending[d] # NoDelivery,
                   local[d].confirm = pending[d].confirm
            PROVE AtPending(d)
        BY Zenon, <1>0, <2>1, <3>1 DEF InPlace, AtCursor, TokenNew
      <3>2. AtPending(d)' <=> AtPending(d)
        BY <2>1 DEF AtPending
      <3>3. AtCursor(d)' <=> AtCursor(d)
        BY <2>1 DEF AtCursor
      <3> QED
        BY Zenon, <1>0, <2>1, <2>q, <2>s, <3>1, <3>2, <3>3 DEF InPlace
    <2> QED
      BY Zenon, <2>2, <2>3, <2>4 DEF Placed
  <1>3. CASE AbandonPull(d)
    <2>1. /\ cursor' = cursor /\ pending' = pending /\ local' = local /\ reply'[d] = NoReply
          /\ request'[d]["waiting"] = NoRequest /\ request'[d]["late"] = request[d]["late"]
      BY Zenon, <1>0, <1>3 DEF AbandonPull, TypeOK, Slot
    <2>2. Waits(d)' /\ TokenNew(d)'
      BY Zenon, <1>0, <2>1 DEF Waits, TokenNew
    <2>3. Unread(d)'
      BY <1>0, <2>1 DEF Unread, Slot
    <2>4. InPlace(d)'
      BY Zenon, <1>0, <2>1 DEF InPlace, AtCursor, AtPending, Slot
    <2> QED
      BY <2>2, <2>3, <2>4 DEF Placed
  <1>4. CASE OutlivePull(d)
    <2>1. /\ cursor' = cursor /\ pending' = pending /\ local' = local /\ reply' = reply
          /\ request'[d]["waiting"] = NoRequest /\ request'[d]["late"] = request[d]["waiting"]
      BY Zenon, <1>0, <1>4 DEF OutlivePull, TypeOK, Slot
    <2>2. Waits(d)' /\ TokenNew(d)'
      BY Zenon, <1>0, <2>1 DEF Waits, TokenNew
    <2>3. Unread(d)'
      BY Zenon, <1>0, <2>1 DEF Unread, Slot
    <2>4. InPlace(d)'
      BY Zenon, <1>0, <2>1 DEF InPlace, AtCursor, AtPending, Slot
    <2> QED
      BY <2>2, <2>3, <2>4 DEF Placed
  <1>5. CASE CompletePull(d)
    <2>1. /\ cursor' = cursor /\ pending' = pending /\ request' = request /\ reply'[d] = NoReply
          /\ reply[d] # NoReply /\ request[d]["waiting"] = NoRequest
      BY Zenon, <1>0, <1>5 DEF CompletePull, TypeOK, Waits
    <2>2. TokenNew(d)'
      BY <1>0, <2>1 DEF TokenNew
    <2>3. CASE Appliable(local[d], reply[d])
      <3>1. /\ local'[d].status = "active" /\ local'[d].applied = reply[d].page.through
            /\ local'[d].cursor = reply[d].page.next /\ local'[d].confirm = reply[d].confirm
        BY Zenon, <1>0, <1>5, <2>3 DEF CompletePull, TypeOK, Applied
      <3>2. reply[d].code = "accepted" /\ pending[d] # NoDelivery
        BY Zenon, <1>0, <2>1, <2>3 DEF Appliable, Unread
      <3>3. ASSUME cursor[d].status = "active" PROVE AtPending(d)'
        <4>1. reply[d] = Delivered(pending[d])
          BY Zenon, <1>0, <2>1, <2>3, <3>2, <3>3 DEF InPlace, Appliable
        <4>2. /\ reply[d].page.through = pending[d].through /\ reply[d].page.next = pending[d].next
              /\ reply[d].confirm = pending[d].confirm
          BY <4>1 DEF Delivered
        <4> QED
          BY Zenon, <2>1, <3>1, <4>2 DEF AtPending
      <3>4. Waits(d)'
        BY <2>1 DEF Waits
      <3>5. Unread(d)'
        BY Zenon, <2>1, <3>2 DEF Unread
      <3>6. InPlace(d)'
        BY <2>1, <3>3 DEF InPlace
      <3> QED
        BY <2>2, <3>4, <3>5, <3>6 DEF Placed
    <2>4. CASE ~Appliable(local[d], reply[d]) /\ reply[d].code = "rebootstrap"
      <3>1. local'[d] = MarkedForRebootstrap(local[d])
        BY <1>0, <1>5, <2>4 DEF CompletePull, TypeOK
      <3>2. /\ local'[d].status = "rebootstrap_required" /\ local'[d].applied = local[d].applied
            /\ local'[d].cursor = NoToken /\ local'[d].confirm = NoToken
        BY <1>1, <3>1 DEF MarkedForRebootstrap, Local
      <3>3. Waits(d)' /\ InPlace(d)'
        BY Zenon, <2>1, <3>2 DEF Waits, InPlace
      <3>4. Unread(d)'
        BY <1>0, <2>1, <3>2 DEF Unread
      <3> QED
        BY <2>2, <3>3, <3>4 DEF Placed
    <2>5. CASE ~Appliable(local[d], reply[d]) /\ reply[d].code # "rebootstrap"
      <3>1. local'[d] = local[d]
        BY Zenon, <1>0, <1>5, <2>5 DEF CompletePull, TypeOK
      <3>2. Waits(d)' /\ Unread(d)'
        BY Zenon, <1>0, <2>1, <3>1 DEF Waits, Unread
      <3>3. InPlace(d)'
        BY Zenon, <1>0, <2>1, <3>1 DEF InPlace, AtCursor, AtPending
      <3> QED
        BY <2>2, <3>2, <3>3 DEF Placed
    <2> QED
      BY Zenon, <2>3, <2>4, <2>5
  <1>6. ASSUME NEW s \in Slot, NEW stage \in {"open", "retry"}, request[d][s] # NoRequest,
               request' = [request EXCEPT ![d][s].stage = stage], reply' = reply,
               local' = local, pending' = pending,
               \/ cursor'[d] = cursor[d]
               \/ cursor[d].status = "unknown" /\ cursor'[d] = Opened(request[d][s].after)
        PROVE Placed(d)'
    <2>1. /\ \A t \in Slot : t # s => request'[d][t] = request[d][t]
          /\ request'[d][s].after = request[d][s].after /\ request'[d][s].cursor = request[d][s].cursor
          /\ request'[d][s].confirm = request[d][s].confirm
          /\ request'[d][s] # NoRequest
      <3>1. request'[d][s] = [request[d][s] EXCEPT !.stage = stage]
        BY <1>0, <1>6 DEF TypeOK
      <3>2. [request[d][s] EXCEPT !.stage = stage] \in Request
        BY <1>1, <1>6 DEF Request
      <3> QED
        BY Zenon, <1>0, <1>1, <1>6, <3>1, <3>2, Markers DEF TypeOK, Request
    <2>2. \A t \in Slot : request'[d][t] # NoRequest =>
            /\ request[d][t] # NoRequest /\ request'[d][t].after = request[d][t].after
            /\ request'[d][t].cursor = request[d][t].cursor
            /\ request'[d][t].confirm = request[d][t].confirm
      BY <1>6, <2>1
    <2>3. Waits(d)'
      BY <1>0, <1>1, <1>6, <2>2 DEF Waits
    <2>4. Unread(d)'
      <3>1. Opened(request[d][s].after).read = request[d][s].after
            /\ Opened(request[d][s].after).continuation = NoToken
        BY DEF Opened
      <3> QED
        BY <1>0, <1>6, <2>2, <3>1 DEF Unread
    <2>5. TokenNew(d)'
      BY <1>0, <1>6 DEF TokenNew
    <2>6. InPlace(d)'
      <3>1. CASE cursor'[d] = cursor[d]
        BY <1>0, <1>6, <2>2, <3>1 DEF InPlace, AtCursor, AtPending
      <3>2. CASE cursor[d].status = "unknown"
        BY <1>0, <1>6, <3>2 DEF InPlace, CursorOrdered
      <3> QED
        BY <1>6, <3>1, <3>2
    <2> QED
      BY <2>3, <2>4, <2>5, <2>6 DEF Placed
  <1>7. ASSUME NEW s \in Slot, PullUnknown(d, s) PROVE Placed(d)'
    <2>1. request[d][s] # NoRequest /\ cursor' = cursor /\ pending' = pending /\ local' = local
      BY Zenon, <1>7 DEF PullUnknown
    <2>2. CASE Answer(d, s, Refused("conflict"))
      BY Zenon, <1>0, <2>1, <2>2, PlacedRefusal
    <2>3. CASE request' = [request EXCEPT ![d][s].stage = "open"] /\ reply' = reply
      BY Zenon, <1>6, <2>1, <2>3
    <2> QED
      BY <1>7, <2>2, <2>3 DEF PullUnknown
  <1>8. ASSUME NEW s \in Slot, OpenCursor(d, s) PROVE Placed(d)'
    <2>1. request[d][s] # NoRequest /\ pending' = pending /\ local' = local
      BY <1>8 DEF OpenCursor
    <2>2. CASE OpenRefusal(cursor[d], request[d][s].after) = "none"
      <3>1. /\ cursor'[d] = IF cursor[d].status = "unknown" THEN Opened(request[d][s].after)
                                                            ELSE cursor[d]
            /\ request' = [request EXCEPT ![d][s].stage = "retry"] /\ reply' = reply
        BY Zenon, <1>0, <1>8, <2>2 DEF OpenCursor, TypeOK
      <3> QED
        BY Zenon, <1>6, <2>1, <3>1
    <2>3. CASE OpenRefusal(cursor[d], request[d][s].after) # "none"
      <3>1. /\ cursor'[d] = cursor[d] \/ cursor'[d] = Retired(cursor[d])
            /\ Answer(d, s, Refused(OpenRefusal(cursor[d], request[d][s].after)))
        BY <1>0, <1>8, <2>3 DEF OpenCursor, TypeOK
      <3>2. Retired(cursor[d]).status = "retired"
        BY <1>1 DEF Retired, Cursor
      <3>3. OpenRefusal(cursor[d], request[d][s].after) \in {"rebootstrap", "conflict"}
        BY Zenon, <2>3 DEF OpenRefusal
      <3> QED
        BY <1>0, <2>1, <3>1, <3>2, <3>3, PlacedRefusal
    <2> QED
      BY <2>2, <2>3
  <1>9. ASSUME NEW s \in Slot, PullUnresumable(d, s) PROVE Placed(d)'
    <2>1. /\ request[d][s] # NoRequest /\ pending' = pending /\ local' = local
          /\ cursor'[d] = Retired(cursor[d]) /\ Answer(d, s, Refused("rebootstrap"))
      BY Zenon, <1>0, <1>9 DEF PullUnresumable, InPull, TypeOK
    <2>2. Retired(cursor[d]).status = "retired"
      BY <1>1 DEF Retired, Cursor
    <2> QED
      BY <1>0, <2>1, <2>2, PlacedRefusal
  <1>10. ASSUME NEW s \in Slot, PullStale(d, s) PROVE Placed(d)'
    <2>1. /\ request[d][s] # NoRequest /\ pending' = pending /\ local' = local
          /\ cursor' = cursor /\ Answer(d, s, Refused("conflict"))
      BY <1>10 DEF PullStale, InPull
    <2> QED
      BY Zenon, <1>0, <2>1, PlacedRefusal
  <1>11. ASSUME NEW s \in Slot, PullReplay(d, s) PROVE Placed(d)'
    <2>1. /\ request[d][s] # NoRequest /\ pending' = pending /\ local' = local /\ cursor' = cursor
          /\ Answer(d, s, Delivered(pending[d])) /\ pending[d] # NoDelivery
          /\ request[d][s].confirm = pending[d].predecessor /\ request[d][s].after = cursor[d].read
          /\ request[d][s].cursor = cursor[d].continuation
      BY <1>11 DEF PullReplay, InPull, Repeats
    <2>2. /\ \A t \in Slot : request'[d][t] = request[d][t] \/ request'[d][t] = NoRequest
          /\ request'[d][s] = NoRequest
          /\ s = "waiting" => reply'[d] = Delivered(pending[d])
          /\ s # "waiting" => reply'[d] = reply[d] /\ request'[d]["waiting"] = request[d]["waiting"]
      BY Zenon, <1>0, <2>1, AnswerSlots
    <2>3. s = "waiting" => AtCursor(d) /\ local[d].status # "rebootstrap_required"
      BY Zenon, <1>0, <2>1 DEF Waits, AtCursor
    <2>4. Waits(d)'
      BY Zenon, <1>0, <2>1, <2>2 DEF Waits, Slot
    <2>5. Unread(d)' /\ TokenNew(d)'
      BY Zenon, <1>0, <2>1 DEF Unread, TokenNew
    <2>6. InPlace(d)'
      BY Zenon, <1>0, <2>1, <2>2, <2>3 DEF InPlace, AtCursor, AtPending, Delivered
    <2> QED
      BY Zenon, <2>4, <2>5, <2>6 DEF Placed
  <1>12. ASSUME NEW s \in Slot, PullFirst(d, s) PROVE Placed(d)'
    <2>1. /\ request[d][s] # NoRequest /\ cursor' = cursor /\ local' = local
          /\ cursor[d].status = "active" /\ pending[d] = NoDelivery
          /\ request[d][s].confirm = NoToken /\ request[d][s].confirm \in TokenOrNone
      BY Zenon, <1>1, <1>12 DEF PullFirst, InPull, Unresumable, Cursor, Begins
    <2>a. CreatePending(d, s, cursor[d], request[d][s].confirm)
      BY Zenon, <1>12 DEF PullFirst
    <2>b. TypeOK /\ cursor[d] \in Cursor /\ request[d][s].confirm \in TokenOrNone
      BY Zenon, <1>0, <1>1, <2>1
    <2>2. PICK p \in Delivery :
            /\ p.predecessor = request[d][s].confirm /\ p.confirm \notin TokensInUse(d)
            /\ pending' = [pending EXCEPT ![d] = p] /\ Answer(d, s, Delivered(p))
      BY Zenon, <2>a, <2>b, CreatingNew
    <2>3. /\ local[d].confirm = NoToken /\ local[d].applied = cursor[d].read
          /\ local[d].cursor = cursor[d].continuation
          /\ ~(reply[d] # NoReply /\ reply[d].code = "accepted")
      BY Zenon, <1>0, <2>1 DEF Unread
    <2> QED
      BY Zenon, <1>0, <2>1, <2>2, <2>3, PlacedCreation
  <1>13. ASSUME NEW s \in Slot, PullConfirm(d, s) PROVE Placed(d)'
    <2> DEFINE c == Advanced(cursor[d], pending[d])
    <2>1. /\ request[d][s] # NoRequest /\ local' = local /\ cursor'[d] = c
          /\ cursor[d].status = "active" /\ pending[d] # NoDelivery
          /\ request[d][s].confirm = pending[d].confirm /\ request[d][s].confirm \in TokenOrNone
      BY Zenon, <1>0, <1>1, <1>13 DEF PullConfirm, InPull, Unresumable, Cursor, Confirms, TypeOK
    <2>2. c \in Cursor /\ c.read = pending[d].through /\ c.continuation = pending[d].next
      BY Zenon, <1>1, <2>1, AdvancedRow
    <2> HIDE DEF c
    <2>a. CreatePending(d, s, c, request[d][s].confirm)
      BY Zenon, <1>13 DEF PullConfirm, c
    <2>b. TypeOK /\ c \in Cursor /\ request[d][s].confirm \in TokenOrNone
      BY Zenon, <1>0, <2>1, <2>2
    <2>3. PICK p \in Delivery :
            /\ p.predecessor = request[d][s].confirm /\ p.confirm \notin TokensInUse(d)
            /\ pending' = [pending EXCEPT ![d] = p] /\ Answer(d, s, Delivered(p))
      BY Zenon, <2>a, <2>b, CreatingNew
    <2>4. ASSUME local[d].status # "rebootstrap_required"
          PROVE /\ local[d].confirm = p.predecessor
                /\ local[d].applied = cursor'[d].read
                /\ local[d].cursor = cursor'[d].continuation
                /\ ~(reply[d] # NoReply /\ reply[d].code = "accepted")
      <3>1. AtPending(d)
        BY Zenon, <1>0, <2>1, <2>4 DEF InPlace
      <3>2. ~AtCursor(d)
        BY Zenon, <1>0, <2>1, <3>1 DEF AtCursor, AtPending, TokenNew
      <3> QED
        BY Zenon, <1>0, <2>1, <2>2, <2>3, <2>4, <3>1, <3>2 DEF AtPending, InPlace
    <2> QED
      BY Zenon, <1>0, <2>1, <2>3, <2>4, PlacedCreation
  <1> QED
    BY <1>2, <1>3, <1>4, <1>5, <1>7, <1>8, <1>9, <1>10, <1>11, <1>12, <1>13 DEF DeviceStep, PullV2

\* Every step keeps every device in its place.
LEMMA ResumeStep == ASSUME ResumeInvariant, [Next]_vars PROVE ResumeInvariant'
  <1>0. RevisionInvariant' /\ TypeOK /\ TypeOK' /\ \A d \in Device : Placed(d)
    BY RevisionStep DEF ResumeInvariant, RevisionInvariant
  <1>1. SUFFICES ASSUME NEW e \in Device PROVE Placed(e)'
    BY <1>0 DEF ResumeInvariant
  <1>2. Waits(e) /\ Unread(e) /\ TokenNew(e) /\ InPlace(e) /\ cursor[e] \in Cursor
    BY <1>0 DEF Placed, TypeOK
  <1>3. ASSUME NEW d \in Device, DeviceStep(d) PROVE Placed(e)'
    <2>1. CASE e = d
      BY <1>0, <1>3, <2>1, PlacedStep
    <2>2. CASE e # d
      BY <1>0, <1>3, <2>2, OthersSame, PlacedFrame
    <2> QED
      BY <2>1, <2>2
  <1>4. CASE CommitMutation \/ UNCHANGED vars
    <2>1. Same(e)
      BY <1>4 DEF CommitMutation, vars, Same
    <2> QED
      BY <1>0, <2>1, PlacedFrame
  <1>5. ASSUME NEW through \in Revision, Compact(through) PROVE Placed(e)'
    <2>1. pending' = pending /\ local' = local /\ request' = request /\ reply' = reply
      BY <1>5 DEF Compact
    <2>2. cursor'[e].status = "active" => cursor[e].status = "active" /\ cursor'[e] = cursor[e]
      BY Zenon, <1>2, <1>5 DEF Compact, Expired, Retired, Cursor
    <2>3. Waits(e)' /\ TokenNew(e)'
      BY <1>2, <2>1 DEF Waits, TokenNew
    <2>4. Unread(e)'
      BY Zenon, <1>2, <2>1, <2>2 DEF Unread
    <2>5. InPlace(e)'
      BY Zenon, <1>2, <2>1, <2>2 DEF InPlace, AtCursor, AtPending
    <2> QED
      BY <2>3, <2>4, <2>5 DEF Placed
  <1>6. CASE Tick
    <2>1. local' = local /\ request' = request /\ reply' = reply
      BY <1>6 DEF Tick
    <2>2. /\ cursor'[e].read = cursor[e].read /\ cursor'[e].status = cursor[e].status
          /\ cursor'[e].continuation = cursor[e].continuation
      BY <1>2, <1>6 DEF Tick, Cursor
    <2>3. /\ pending[e] = NoDelivery <=> pending'[e] = NoDelivery
          /\ pending[e] # NoDelivery =>
               /\ pending'[e].from = pending[e].from /\ pending'[e].through = pending[e].through
               /\ pending'[e].target = pending[e].target /\ pending'[e].next = pending[e].next
               /\ pending'[e].predecessor = pending[e].predecessor
               /\ pending'[e].confirm = pending[e].confirm
      <3>1. CASE pending[e] = NoDelivery
        BY <1>6, <3>1 DEF Tick
      <3>2. CASE pending[e] # NoDelivery
        <4>1. pending[e] \in Delivery /\ pending'[e] = [pending[e] EXCEPT !.expires = Less(@)]
          BY <1>0, <1>6, <3>2 DEF Tick, TypeOK
        <4>2. pending'[e] \in Delivery
          BY <4>1, TtlAssumption DEF Delivery, Less
        <4> QED
          BY <3>2, <4>1, <4>2, Markers DEF Delivery
      <3> QED
        BY <3>1, <3>2
    <2>4. pending[e] # NoDelivery => Delivered(pending[e])' = Delivered(pending[e])
      BY <2>3 DEF Delivered
    <2>5. Waits(e)' /\ TokenNew(e)'
      BY Zenon, <1>2, <2>1, <2>3 DEF Waits, TokenNew
    <2>6. Unread(e)'
      BY Zenon, <1>2, <2>1, <2>2, <2>3 DEF Unread
    <2>7. InPlace(e)'
      BY Zenon, <1>2, <2>1, <2>2, <2>3, <2>4 DEF InPlace, AtCursor, AtPending
    <2> QED
      BY <2>5, <2>6, <2>7 DEF Placed
  <1> QED
    BY <1>3, <1>4, <1>5, <1>6, Steps

\* Initially no device has read anything.
LEMMA InitResume == Init => ResumeInvariant
  <1> SUFFICES ASSUME Init, NEW d \in Device PROVE Placed(d)
    BY InitRevisions DEF ResumeInvariant
  <1>1. local[d].confirm = NoToken /\ local[d].cursor = NoToken
    BY DEF Init
  <1> QED
    BY Zenon, <1>1 DEF Init, Placed, Waits, Unread, TokenNew, InPlace, Slot

\* The strengthened invariant holds in every state.
THEOREM ResumeCorrect == Spec => []ResumeInvariant
  BY InitResume, ResumeStep, PTL DEF Spec

\* pullV2 never answers an honest device READER_CURSOR_STALE_PRESENTATION while its
\* lease and its pending delivery last: what the device presents next confirms the
\* delivery or asks for it again, for any number of devices and any interleaving of
\* lost and late answers.
THEOREM ReaderCanResumeHolds == Spec => []ReaderCanResume
  <1>1. ASSUME ResumeInvariant PROVE ReaderCanResume
    <2>1. SUFFICES ASSUME NEW d \in Device, cursor[d].status = "active",
                          local[d].status # "rebootstrap_required",
                          pending[d] # NoDelivery, pending[d].expires > 0
                   PROVE LET q == [after |-> local[d].applied, cursor |-> local[d].cursor,
                                   confirm |-> local[d].confirm]
                         IN  Confirms(q, pending[d]) \/ Repeats(q, cursor[d], pending[d])
      BY Zenon DEF ReaderCanResume
    <2>2. AtCursor(d) \/ AtPending(d)
      BY Zenon, <1>1, <2>1 DEF ResumeInvariant, Placed, InPlace
    <2> QED
      BY Zenon, <2>1, <2>2 DEF AtCursor, AtPending, Confirms, Repeats
  <1> QED
    BY <1>1, ResumeCorrect, PTL
=============================================================================
