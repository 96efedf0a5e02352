--------------------- MODULE CommercialAuthorityProofs ---------------------
(* Proofs about CommercialAuthority, for every number of agreements, of     *)
(* refund lineages and of faults, and for every length of time.             *)
(*                                                                          *)
(* The provider only moves forward: a renewal that has ended does not come  *)
(* back, a lineage that is settled or has failed stays so. An observation   *)
(* that a worker holds is therefore a lower bound of the provider's state,  *)
(* as long as no newer one has been applied (Saw); and the fences a job was *)
(* planned with see to it that it is not applied then.                      *)
EXTENDS CommercialAuthority, TLAPS

(* What a worker has seen of agreement g is not older than what was applied, *)
(* and what it saw end has ended.                                            *)
Saw(g, seen) ==
    /\ agr[g].ver <= seen.ver /\ seen.ver <= truth[g].ver /\ seen.through > 0
    /\ ~seen.renews => ~truth[g].renews /\ truth[g].through <= seen.through
    /\ \A l \in Lineages : seen.refund[l] \in {"settled", "failed"} => truth[g].refund[l] = seen.refund[l]

(* A job that can be applied is about the agreement in the slot. *)
Planned(j) ==
    /\ j.state = "dead_letter" \/ JobCurrent(j)
    /\ JobCurrent(j) => j.g = slot.holder

JobsFit == \A j \in jobs : Planned(j) /\ (j.state = "read" => Saw(j.g, j.seen))

(* A deadline that can be applied is the one of the current right. *)
DueFits == \A d \in due : d.g = slot.holder /\ d.g = auth.by /\ d.at = agr[d.g].through /\ d.at > 0

(* Only an agreement that was handed off is in the slot or holds the right, *)
(* and only an observed one is eligible for release.                        *)
Placed ==
    /\ slot.holder # Nobody => agr[slot.holder].kind # "none"
    /\ auth.by # Nobody => agr[auth.by].kind # "none"
    /\ slot.eligible => slot.holder # Nobody /\ agr[slot.holder].through > 0
    /\ auth.state = "expired" => auth.by # Nobody

(* An agreement that renews no more is paid no longer than is known here. *)
Ended(g) == ~truth[g].renews /\ truth[g].through <= agr[g].through
Terms ==
    \A g \in Agreements :
        /\ agr[g].ver <= truth[g].ver
        /\ agr[g].kind # "none" => truth[g].through > 0
        /\ agr[g].kind = "fixed_term" => Ended(g)
        /\ agr[g].kind = "subscription" /\ agr[g].through > 0 /\ ~agr[g].renews => Ended(g)

EvidenceReal ==
    \A g \in Agreements, l \in Lineages :
        heads[g][l] \in {"failed", "settled"} => truth[g].refund[l] = heads[g][l]

(* The refund the account asks for is sent to the provider once. *)
Unsent(g) == truth[g].refund[OwnRefund] = "none"
OneRefund ==
    /\ first.state # "claimed" => slot.op \in {"none", "cancel"} /\ \A g \in Agreements : Unsent(g)
    /\ slot.op \in {"terminate", "refund"} => slot.holder # Nobody /\ Unsent(slot.holder)

CommercialInvariant ==
    /\ TypeOK /\ Placed /\ JobsFit /\ DueFits /\ Terms /\ EvidenceReal /\ OneRefund
    /\ RefundedNeverGrants /\ BlockedNeverGrants /\ NotExpiredEarly

(* The provider's state of every agreement moves forward. *)
Forward(old, new) ==
    /\ new.ver >= old.ver
    /\ old.through > 0 => new.through > 0
    /\ ~old.renews => ~new.renews /\ new.through = old.through
    /\ \A l \in Lineages : old.refund[l] \in {"settled", "failed"} => new.refund[l] = old.refund[l]
TruthGrows == \A g \in Agreements : Forward(truth[g], truth'[g])

-----------------------------------------------------------------------------
\* What was seen stays a lower bound while the provider moves on.
LEMMA SawStays ==
  ASSUME TypeOK, TypeOK', NEW g \in Agreements, NEW seen \in TruthRow, Saw(g, seen),
         Forward(truth[g], truth'[g]), agr'[g].ver = agr[g].ver
  PROVE  Saw(g, seen)'
<1>1. truth[g] \in TruthRow /\ truth'[g] \in TruthRow
  BY Zenon DEF TypeOK
<1>2. /\ truth[g].ver \in Nat /\ truth'[g].ver \in Nat /\ seen.ver \in Nat
      /\ truth[g].through \in Nat /\ truth'[g].through \in Nat /\ seen.through \in Nat
  BY <1>1 DEF TruthRow
<1>3. seen.ver <= truth'[g].ver
  <2>1. seen.ver <= truth[g].ver /\ truth'[g].ver >= truth[g].ver
    BY Zenon DEF Saw, Forward
  <2> QED
    BY <1>2, <2>1
<1>4. ~seen.renews => ~truth'[g].renews /\ truth'[g].through <= seen.through
  BY Zenon DEF Saw, Forward
<1>5. ASSUME NEW l \in Lineages, seen.refund[l] \in {"settled", "failed"}
      PROVE  truth'[g].refund[l] = seen.refund[l]
  BY Zenon, <1>5 DEF Saw, Forward
<1> QED
  BY Zenon, <1>3, <1>4, <1>5 DEF Saw

\* Jobs that stay, and new ones that have read nothing yet.
LEMMA JobsStay ==
  ASSUME TypeOK, TypeOK', JobsFit, TruthGrows, UNCHANGED agr, slot'.holder = slot.holder,
         \A k \in jobs' : k \in jobs \/ (Planned(k) /\ k.state # "read")
  PROVE  JobsFit'
<1> SUFFICES ASSUME NEW k \in jobs'
             PROVE  Planned(k)' /\ (k.state = "read" => Saw(k.g, k.seen)')
  BY Zenon DEF JobsFit
<1>1. Planned(k)
  BY Zenon DEF JobsFit
<1>2. Planned(k)'
  BY Zenon, <1>1 DEF Planned, JobCurrent
<1>3. ASSUME k.state = "read"
      PROVE  Saw(k.g, k.seen)'
  <2>1. k \in jobs /\ Saw(k.g, k.seen)
    BY Zenon, <1>3 DEF JobsFit
  <2>2. k.g \in Agreements /\ k.seen \in TruthRow
    <3>1. k \in JobRow
      BY Zenon, <2>1 DEF TypeOK
    <3> QED
      BY Zenon, <3>1 DEF JobRow
  <2>3. Forward(truth[k.g], truth'[k.g])
    BY Zenon, <2>2 DEF TruthGrows
  <2> QED
    BY Zenon, <2>1, <2>2, <2>3, SawStays
<1> QED
  BY Zenon, <1>2, <1>3

\* A step that changes neither what was observed nor what it grants.
LEMMA Frame ==
  ASSUME CommercialInvariant, TypeOK', TruthGrows, UNCHANGED <<agr, heads, auth>>,
         refund'.by = refund.by, slot'.holder = slot.holder, slot'.eligible => slot.eligible,
         now' >= now, JobsFit', DueFits', OneRefund'
  PROVE  CommercialInvariant'
<1>i. TypeOK /\ Placed /\ Terms /\ EvidenceReal /\ RefundedNeverGrants /\ BlockedNeverGrants
      /\ NotExpiredEarly
  BY Zenon DEF CommercialInvariant
<1>1. Placed'
  BY Zenon, <1>i DEF Placed
<1>2. EvidenceReal'
  BY Zenon, <1>i DEF EvidenceReal, TruthGrows, Forward
<1>3. RefundedNeverGrants' /\ BlockedNeverGrants'
  BY Zenon, <1>i DEF RefundedNeverGrants, BlockedNeverGrants
<1>4. NotExpiredEarly'
  <2> SUFFICES ASSUME auth.state = "expired"
               PROVE  agr[auth.by].through <= now'
    BY Zenon DEF NotExpiredEarly
  <2>1. auth.by \in Agreements
    BY <1>i DEF Placed, TypeOK, RightRow, Holders
  <2>2. agr[auth.by].through \in Nat /\ now \in Nat /\ now' \in Nat
    BY <1>i, <2>1 DEF TypeOK, AgreementRow
  <2>3. agr[auth.by].through <= now
    BY Zenon, <1>i DEF NotExpiredEarly
  <2> QED
    BY <2>2, <2>3
<1>5. Terms'
  <2> SUFFICES ASSUME NEW g \in Agreements
               PROVE  /\ agr[g].ver <= truth'[g].ver
                      /\ agr[g].kind # "none" => truth'[g].through > 0
                      /\ Ended(g) => Ended(g)'
    BY Zenon, <1>i DEF Terms
  <2>1. Forward(truth[g], truth'[g])
    BY Zenon DEF TruthGrows
  <2>2. agr[g].ver <= truth'[g].ver
    <3>1. truth[g].ver \in Nat /\ truth'[g].ver \in Nat /\ agr[g].ver \in Nat
      BY <1>i DEF TypeOK, TruthRow, AgreementRow
    <3>2. agr[g].ver <= truth[g].ver /\ truth'[g].ver >= truth[g].ver
      BY Zenon, <1>i, <2>1 DEF Terms, Forward
    <3> QED
      BY <3>1, <3>2
  <2> QED
    BY Zenon, <1>i, <2>1, <2>2 DEF Terms, Forward, Ended
<1> QED
  BY Zenon, <1>1, <1>2, <1>3, <1>4, <1>5 DEF CommercialInvariant

-----------------------------------------------------------------------------
(* The provider *)

\* A row with another term.
LEMMA TermEdit ==
  ASSUME NEW r \in TruthRow, NEW t \in Nat
  PROVE  /\ [r EXCEPT !.through = t] \in TruthRow
         /\ [r EXCEPT !.through = t].through = t
         /\ [r EXCEPT !.through = t].renews = r.renews
         /\ [r EXCEPT !.through = t].refund = r.refund
         /\ [r EXCEPT !.through = t].ver = r.ver
BY Zenon DEF TruthRow

\* A row with another access.
LEMMA AccessEdit ==
  ASSUME NEW r \in TruthRow, NEW b \in BOOLEAN
  PROVE  /\ [r EXCEPT !.active = b] \in TruthRow
         /\ [r EXCEPT !.active = b].through = r.through
         /\ [r EXCEPT !.active = b].renews = r.renews
         /\ [r EXCEPT !.active = b].refund = r.refund
         /\ [r EXCEPT !.active = b].ver = r.ver
BY Zenon DEF TruthRow

\* A row that renews, or not.
LEMMA RenewalEdit ==
  ASSUME NEW r \in TruthRow, NEW b \in BOOLEAN
  PROVE  /\ [r EXCEPT !.renews = b] \in TruthRow
         /\ [r EXCEPT !.renews = b].through = r.through
         /\ [r EXCEPT !.renews = b].renews = b
         /\ [r EXCEPT !.renews = b].refund = r.refund
         /\ [r EXCEPT !.renews = b].ver = r.ver
BY Zenon DEF TruthRow

\* A row of another version.
LEMMA VersionEdit ==
  ASSUME NEW r \in TruthRow, NEW v \in Nat
  PROVE  /\ [r EXCEPT !.ver = v] \in TruthRow
         /\ [r EXCEPT !.ver = v].through = r.through
         /\ [r EXCEPT !.ver = v].renews = r.renews
         /\ [r EXCEPT !.ver = v].refund = r.refund
         /\ [r EXCEPT !.ver = v].ver = v
BY Zenon DEF TruthRow

(* A row with another outcome of one lineage. *)
WithOutcome(r, l, o) == [r EXCEPT !.refund[l] = o]

\* Only that outcome is another one.
LEMMA OutcomeEdit ==
  ASSUME NEW r \in TruthRow, NEW l \in Lineages, NEW o \in Outcomes
  PROVE  /\ WithOutcome(r, l, o) \in TruthRow
         /\ WithOutcome(r, l, o).ver = r.ver /\ WithOutcome(r, l, o).through = r.through
         /\ WithOutcome(r, l, o).renews = r.renews /\ WithOutcome(r, l, o).refund[l] = o
         /\ \A k \in Lineages \ {l} : WithOutcome(r, l, o).refund[k] = r.refund[k]
<1> DEFINE f == [r.refund EXCEPT ![l] = o]
           new == [r EXCEPT !.refund[l] = o]
<1>1. r.refund \in [Lineages -> Outcomes]
  BY Zenon DEF TruthRow
<1>2. /\ f \in [Lineages -> Outcomes] /\ f[l] = o
      /\ \A k \in Lineages \ {l} : f[k] = r.refund[k]
  BY Zenon, <1>1
<1>3. new = [r EXCEPT !.refund = f]
  BY Zenon
<1> HIDE DEF f
<1>4. /\ new \in TruthRow /\ new.ver = r.ver /\ new.through = r.through
      /\ new.renews = r.renews /\ new.refund = f
  BY Zenon, <1>2, <1>3 DEF TruthRow
<1> HIDE DEF new
<1>5. WithOutcome(r, l, o) = new
  BY Zenon DEF WithOutcome, new
<1> QED
  BY Zenon, <1>2, <1>4, <1>5

\* The provider moves agreement g forward and sends a webhook.
LEMMA Changed ==
  ASSUME TypeOK, NEW g \in Agreements, NEW new \in TruthRow, NEW t \in Triggers,
         Change(g, new, t), new.ver = truth[g].ver, Forward(truth[g], new)
  PROVE  /\ truth' \in [Agreements -> TruthRow] /\ events' \subseteq Agreements \X Triggers
         /\ TruthGrows /\ truth'[g].refund = new.refund
         /\ \A h \in Agreements \ {g} : truth'[h] = truth[h]
<1>1. truth \in [Agreements -> TruthRow] /\ events \subseteq Agreements \X Triggers
  BY Zenon DEF TypeOK
<1> DEFINE v == new.ver + 1
           row == [new EXCEPT !.ver = v]
<1>2. new.ver \in Nat /\ v \in Nat /\ v >= new.ver
  BY DEF TruthRow
<1>3. truth' = [truth EXCEPT ![g] = row] /\ events' = events \cup {<<g, t>>}
  BY Zenon DEF Change
<1> HIDE DEF v
<1>4. /\ row \in TruthRow /\ row.ver = v /\ row.through = new.through /\ row.renews = new.renews
      /\ row.refund = new.refund
  BY Zenon, <1>2, VersionEdit
<1> HIDE DEF row
<1>5. /\ truth' \in [Agreements -> TruthRow] /\ truth'[g] = row
      /\ \A h \in Agreements \ {g} : truth'[h] = truth[h]
  BY Zenon, <1>1, <1>3, <1>4
<1>6. Forward(truth[g], row)
  <2>1. row.ver >= truth[g].ver
    BY Zenon, <1>2, <1>4
  <2> QED
    BY Zenon, <1>4, <2>1 DEF Forward
<1>7. ASSUME NEW h \in Agreements
      PROVE  Forward(truth[h], truth[h])
  <2>1. truth[h].ver \in Nat
    BY <1>1 DEF TruthRow
  <2>2. truth[h].ver >= truth[h].ver
    BY <2>1
  <2> QED
    BY Zenon, <2>2 DEF Forward
<1>8. TruthGrows
  BY Zenon, <1>5, <1>6, <1>7 DEF TruthGrows
<1>9. events' \subseteq Agreements \X Triggers
  BY <1>1, <1>3
<1> QED
  BY Zenon, <1>4, <1>5, <1>8, <1>9

\* The provider does nothing.
LEMMA TruthStands ==
  ASSUME TypeOK, UNCHANGED truth
  PROVE  TruthGrows
<1> SUFFICES ASSUME NEW g \in Agreements
             PROVE  Forward(truth[g], truth[g])
  BY Zenon DEF TruthGrows
<1>1. truth[g].ver \in Nat
  BY DEF TypeOK, TruthRow
<1>2. truth[g].ver >= truth[g].ver
  BY <1>1
<1> QED
  BY Zenon, <1>2 DEF Forward

\* A change the provider makes by itself.
LEMMA ProviderStep ==
  ASSUME CommercialInvariant, NEW g \in Agreements, NEW new \in TruthRow, NEW t \in Triggers,
         ProviderActs(g, new, t), new.ver = truth[g].ver, Forward(truth[g], new),
         \/ new.refund[OwnRefund] = truth[g].refund[OwnRefund]
         \/ truth[g].refund[OwnRefund] # "none"
  PROVE  CommercialInvariant'
<1>i. TypeOK /\ JobsFit /\ DueFits /\ OneRefund
  BY Zenon DEF CommercialInvariant
<1>a. /\ Change(g, new, t)
      /\ UNCHANGED <<now, agr, jobs, auth, heads, first, refund, cancel, slot, due, release, faults>>
  BY Zenon DEF ProviderActs, commands
<1>1. /\ truth' \in [Agreements -> TruthRow] /\ events' \subseteq Agreements \X Triggers
      /\ TruthGrows /\ truth'[g].refund = new.refund
      /\ \A h \in Agreements \ {g} : truth'[h] = truth[h]
  BY Zenon, <1>a, <1>i, Changed
<1>2. TypeOK'
  BY Zenon, <1>1, <1>a, <1>i DEF TypeOK
<1>3. JobsFit'
  BY Zenon, <1>1, <1>2, <1>a, <1>i, JobsStay
<1>4. DueFits'
  BY Zenon, <1>a, <1>i DEF DueFits
<1>5. OneRefund'
  <2>1. \A h \in Agreements : Unsent(h) => Unsent(h)'
    BY Zenon, <1>1 DEF Unsent
  <2>2. slot.op \in {"terminate", "refund"} => slot.holder \in Agreements
    <3>1. slot.holder \in Holders
      BY Zenon, <1>i DEF TypeOK, SlotRow
    <3> QED
      BY Zenon, <3>1, <1>i DEF Holders, OneRefund
  <2> QED
    BY Zenon, <1>a, <1>i, <2>1, <2>2 DEF OneRefund
<1>6. now' >= now
  BY <1>a, <1>i DEF TypeOK
<1> QED
  BY Zenon, <1>1, <1>2, <1>3, <1>4, <1>5, <1>6, <1>a, Frame

\* A paid term follows one that ran out: only an agreement that renews.
LEMMA RenewStep ==
  ASSUME CommercialInvariant, NEW g \in Agreements, Renew(g)
  PROVE  CommercialInvariant'
<1> DEFINE t == now + 1
           new == [truth[g] EXCEPT !.through = t]
<1>1. TypeOK /\ truth[g] \in TruthRow /\ truth[g].ver \in Nat /\ t \in Nat /\ t > 0
  <2>1. TypeOK
    BY Zenon DEF CommercialInvariant
  <2>2. truth[g] \in TruthRow
    BY Zenon, <2>1 DEF TypeOK
  <2> QED
    BY AuthorityAssumption, <2>1, <2>2 DEF TypeOK, TruthRow
<1>2. truth[g].renews /\ ProviderActs(g, new, "agreement")
  BY Zenon DEF Renew
<1> HIDE DEF t
<1>3. /\ new \in TruthRow /\ new.ver = truth[g].ver /\ new.through = t
      /\ new.renews = truth[g].renews /\ new.refund = truth[g].refund
  BY Zenon, <1>1, TermEdit
<1> HIDE DEF new
<1>4. new.ver >= truth[g].ver
  BY <1>1, <1>3
<1>5. Forward(truth[g], new)
  BY Zenon, <1>1, <1>2, <1>3, <1>4 DEF Forward
<1>6. "agreement" \in Triggers
  BY Zenon DEF Triggers
<1> QED
  BY Zenon, <1>2, <1>3, <1>5, <1>6, ProviderStep

\* Access is suspended or resumed.
LEMMA SuspendStep ==
  ASSUME CommercialInvariant, NEW g \in Agreements, Suspend(g)
  PROVE  CommercialInvariant'
<1> DEFINE b == ~truth[g].active
           new == [truth[g] EXCEPT !.active = b]
<1>1. TypeOK /\ truth[g] \in TruthRow /\ truth[g].ver \in Nat /\ b \in BOOLEAN
  <2>1. TypeOK
    BY Zenon DEF CommercialInvariant
  <2>2. truth[g] \in TruthRow
    BY Zenon, <2>1 DEF TypeOK
  <2>3. truth[g].ver \in Nat
    BY Zenon, <2>2 DEF TruthRow
  <2> QED
    BY Zenon, <2>1, <2>2, <2>3
<1>2. ProviderActs(g, new, "agreement")
  BY Zenon DEF Suspend
<1> HIDE DEF b
<1>3. /\ new \in TruthRow /\ new.ver = truth[g].ver /\ new.through = truth[g].through
      /\ new.renews = truth[g].renews /\ new.refund = truth[g].refund
  BY Zenon, <1>1, AccessEdit
<1> HIDE DEF new
<1>4. new.ver >= truth[g].ver
  BY <1>1, <1>3
<1>5. Forward(truth[g], new)
  BY Zenon, <1>3, <1>4 DEF Forward
<1>6. "agreement" \in Triggers
  BY Zenon DEF Triggers
<1> QED
  BY Zenon, <1>2, <1>3, <1>5, <1>6, ProviderStep

\* A lineage is opened, settled or fails; a settled or failed one stays so.
LEMMA ReversalStep ==
  ASSUME CommercialInvariant, NEW g \in Agreements, NEW l \in Lineages,
         NEW o \in Outcomes,
         ProviderActs(g, [truth[g] EXCEPT !.refund[l] = o], l),
         truth[g].refund[l] \in {"none", "pending"},
         l = OwnRefund => truth[g].refund[l] = "pending"
  PROVE  CommercialInvariant'
<1> DEFINE new == WithOutcome(truth[g], l, o)
<1>1. truth[g] \in TruthRow /\ truth[g].ver \in Nat
  <2>1. truth[g] \in TruthRow
    BY Zenon DEF CommercialInvariant, TypeOK
  <2> QED
    BY Zenon, <2>1 DEF TruthRow
<1>2. /\ new \in TruthRow /\ new.ver = truth[g].ver /\ new.through = truth[g].through
      /\ new.renews = truth[g].renews
      /\ \A k \in Lineages \ {l} : new.refund[k] = truth[g].refund[k]
  BY <1>1, OutcomeEdit, SMT
<1>3. ProviderActs(g, new, l)
  BY Zenon DEF WithOutcome
<1> HIDE DEF new
<1>4. new.ver >= truth[g].ver
  BY <1>1, <1>2
<1>5. ASSUME NEW k \in Lineages, truth[g].refund[k] \in {"settled", "failed"}
      PROVE  new.refund[k] = truth[g].refund[k]
  <2>1. k # l
    BY <1>5
  <2> QED
    BY Zenon, <1>2, <2>1
<1>6. Forward(truth[g], new)
  BY Zenon, <1>2, <1>4, <1>5 DEF Forward
<1>7. \/ new.refund[OwnRefund] = truth[g].refund[OwnRefund]
      \/ truth[g].refund[OwnRefund] # "none"
  <2>1. OwnRefund \in Lineages
    BY Zenon, AuthorityAssumption
  <2>2. "pending" # "none"
    OBVIOUS
  <2> QED
    BY Zenon, <1>2, <2>1, <2>2
<1>8. l \in Triggers
  BY Zenon DEF Triggers
<1> QED
  BY Zenon, <1>2, <1>3, <1>6, <1>7, <1>8, ProviderStep

\* Every step of the provider and of the clock.
LEMMA WorldStep ==
  ASSUME CommercialInvariant,
         \/ Tick
         \/ \E g \in Agreements :
               \/ Renew(g) \/ Suspend(g)
               \/ \E l \in Lineages : \/ OpenReversal(g, l)
                                      \/ \E o \in {"settled", "failed"} : ResolveReversal(g, l, o)
  PROVE  CommercialInvariant'
<1>1. CASE Tick
  <2>i. TypeOK /\ JobsFit /\ DueFits /\ OneRefund
    BY Zenon DEF CommercialInvariant
  <2>1. /\ now' = now + 1 /\ now < MaxTime
        /\ UNCHANGED <<truth, events, agr, jobs, auth, heads, first, refund, cancel, slot, due,
                       release, faults>>
    BY Zenon, <1>1 DEF Tick, commands
  <2>2. now' \in 0 .. MaxTime /\ now' >= now
    BY <2>1, <2>i, AuthorityAssumption DEF TypeOK
  <2>3. TypeOK'
    BY Zenon, <2>1, <2>2, <2>i DEF TypeOK
  <2>4. TruthGrows
    BY Zenon, <2>1, <2>i, TruthStands
  <2>5. JobsFit'
    BY Zenon, <2>1, <2>3, <2>4, <2>i, JobsStay
  <2>6. DueFits' /\ OneRefund'
    BY Zenon, <2>1, <2>i DEF DueFits, OneRefund, Unsent
  <2> QED
    BY Zenon, <2>1, <2>2, <2>3, <2>4, <2>5, <2>6, Frame
<1>2. ASSUME NEW g \in Agreements, NEW l \in Lineages, OpenReversal(g, l)
      PROVE  CommercialInvariant'
  <2>1. /\ ProviderActs(g, [truth[g] EXCEPT !.refund[l] = "pending"], l)
        /\ truth[g].refund[l] = "none" /\ l # OwnRefund
    BY Zenon, <1>2 DEF OpenReversal
  <2>2. "pending" \in Outcomes
    BY DEF Outcomes
  <2> QED
    BY Zenon, <2>1, <2>2, ReversalStep
<1>3. ASSUME NEW g \in Agreements, NEW l \in Lineages, NEW o \in {"settled", "failed"},
             ResolveReversal(g, l, o)
      PROVE  CommercialInvariant'
  <2>1. /\ ProviderActs(g, [truth[g] EXCEPT !.refund[l] = o], l)
        /\ truth[g].refund[l] = "pending"
    BY Zenon, <1>3 DEF ResolveReversal
  <2>2. o \in Outcomes
    BY DEF Outcomes
  <2> QED
    BY Zenon, <2>1, <2>2, ReversalStep
<1> QED
  BY Zenon, <1>1, <1>2, <1>3, RenewStep, SuspendStep

-----------------------------------------------------------------------------
(* Reconciliation jobs *)

\* Nothing has been observed.
LEMMA NoTruthRow == NoTruth \in TruthRow
<1>1. [l \in Lineages |-> "none"] \in [Lineages -> Outcomes]
  BY DEF Outcomes
<1> QED
  BY <1>1 DEF NoTruth, TruthRow

(* The steps of a job: its state with what was read, or with its attempts. *)
WithSeen(j, s, t) == [j EXCEPT !.state = s, !.seen = t]
WithAttempt(j, s, a) == [j EXCEPT !.state = s, !.attempts = a]

\* A leased, read or returned job.
LEMMA SeenEdit ==
  ASSUME NEW j \in JobRow, NEW s \in JobStates, NEW t \in TruthRow
  PROVE  /\ WithSeen(j, s, t) \in JobRow
         /\ WithSeen(j, s, t).state = s
         /\ WithSeen(j, s, t).seen = t
         /\ WithSeen(j, s, t).g = j.g
         /\ WithSeen(j, s, t).newest = j.newest
         /\ WithSeen(j, s, t).fresh = j.fresh
BY Zenon DEF JobRow, WithSeen

\* One more attempt.
LEMMA AttemptEdit ==
  ASSUME NEW j \in JobRow, NEW s \in JobStates, NEW a \in 0 .. MaxAttempts
  PROVE  /\ WithAttempt(j, s, a) \in JobRow
         /\ WithAttempt(j, s, a).state = s
         /\ WithAttempt(j, s, a).g = j.g
         /\ WithAttempt(j, s, a).newest = j.newest
         /\ WithAttempt(j, s, a).fresh = j.fresh
BY Zenon DEF JobRow, WithAttempt

\* A job a newer generation has overtaken.
LEMMA NewestEdit ==
  ASSUME NEW j \in JobRow
  PROVE  /\ [j EXCEPT !.newest = FALSE] \in JobRow /\ [j EXCEPT !.newest = FALSE].newest = FALSE
         /\ [j EXCEPT !.newest = FALSE].state = j.state /\ [j EXCEPT !.newest = FALSE].g = j.g
BY Zenon DEF JobRow

\* A job some of whose revisions have moved on.
LEMMA FreshEdit ==
  ASSUME NEW j \in JobRow, NEW f \in SUBSET Revisions
  PROVE  /\ [j EXCEPT !.fresh = f] \in JobRow /\ [j EXCEPT !.fresh = f].fresh = f
         /\ [j EXCEPT !.fresh = f].state = j.state /\ [j EXCEPT !.fresh = f].g = j.g
         /\ [j EXCEPT !.fresh = f].newest = j.newest
         /\ f = j.fresh => [j EXCEPT !.fresh = f] = j
BY Zenon DEF JobRow

\* A job that is new, or read the provider's state of this moment.
LEMMA NewJob ==
  ASSUME NEW g \in Agreements, NEW t \in Triggers, NEW a \in 0 .. MaxAttempts
  PROVE  /\ Job(g, t, a) \in JobRow /\ JobCurrent(Job(g, t, a)) /\ Job(g, t, a).g = g
         /\ Job(g, t, a).state = "waiting"
<1>1. "waiting" \in JobStates /\ Revisions \in SUBSET Revisions
  BY Zenon DEF JobStates
<1>2. Job(g, t, a) \in JobRow
  BY Zenon, <1>1, NoTruthRow DEF Job, JobRow
<1> QED
  BY Zenon, <1>2 DEF Job, JobCurrent

\* What is left of a set of jobs once some revisions have moved on.
LEMMA Outdated ==
  ASSUME NEW work \in SUBSET JobRow, NEW moved, NEW k \in OutdateJobs(work, moved)
  PROVE  /\ k \in JobRow /\ (k.state = "dead_letter" \/ JobCurrent(k))
         /\ JobCurrent(k) \/ k.state = "read" => k \in work
         /\ moved \cap Revisions # {} => ~JobCurrent(k) /\ k.state = "dead_letter"
<1>1. PICK j \in work : k = [j EXCEPT !.fresh = @ \ moved]
  BY Zenon DEF OutdateJobs
<1> DEFINE f == j.fresh \ moved
<1>2. j \in JobRow /\ j.fresh \in SUBSET Revisions /\ f \in SUBSET Revisions
  <2>1. j \in JobRow
    BY Zenon
  <2> QED
    BY Zenon, <2>1 DEF JobRow
<1>3. k = [j EXCEPT !.fresh = f]
  BY Zenon, <1>1
<1>4. /\ moved \cap Revisions # {} => f # Revisions
      /\ f = Revisions => f = j.fresh
  BY Zenon, <1>2
<1> HIDE DEF f
<1>5. k \in JobRow /\ k.fresh = f /\ (f = j.fresh => k = j)
  BY Zenon, <1>2, <1>3, FreshEdit
<1>6. k.state = "dead_letter" \/ JobCurrent(k)
  BY Zenon DEF OutdateJobs
<1>7. JobCurrent(k) => k \in work
  BY Zenon, <1>4, <1>5 DEF JobCurrent
<1>8. moved \cap Revisions # {} => ~JobCurrent(k)
  BY Zenon, <1>4, <1>5 DEF JobCurrent
<1>9. "read" # "dead_letter"
  OBVIOUS
<1> QED
  BY Zenon, <1>5, <1>6, <1>7, <1>8, <1>9

\* A step of a worker or of a receipt: only jobs change.
LEMMA JobsOnly ==
  ASSUME CommercialInvariant, jobs' \subseteq JobRow, JobsFit', events' \subseteq events,
         faults' \in 0 .. MaxFaults,
         UNCHANGED <<now, truth, agr, auth, heads, first, refund, cancel, slot, due, release>>
  PROVE  CommercialInvariant'
<1>i. TypeOK /\ DueFits /\ OneRefund
  BY Zenon DEF CommercialInvariant
<1>1. TypeOK'
  <2>1. events' \subseteq Agreements \X Triggers
    BY Zenon, <1>i DEF TypeOK
  <2> QED
    BY Zenon, <1>i, <2>1 DEF TypeOK
<1>2. TruthGrows
  BY Zenon, <1>i, TruthStands
<1>3. DueFits' /\ OneRefund'
  BY Zenon, <1>i DEF DueFits, OneRefund, Unsent
<1>4. now' >= now
  BY <1>i DEF TypeOK
<1> QED
  BY Zenon, <1>1, <1>2, <1>3, <1>4, Frame

\* A step that replaces one job by another of the same agreement and plan.
LEMMA BecomesStep ==
  ASSUME CommercialInvariant, NEW j \in jobs, NEW k \in JobRow,
         jobs' \subseteq (jobs \ {j}) \cup {k}, Planned(k),
         k.state = "read" => k.seen = truth[k.g],
         events' \subseteq events, faults' \in 0 .. MaxFaults,
         UNCHANGED <<now, truth, agr, auth, heads, first, refund, cancel, slot, due, release>>
  PROVE  CommercialInvariant'
<1>i. TypeOK /\ JobsFit /\ Terms /\ Placed
  BY Zenon DEF CommercialInvariant
<1>1. jobs' \subseteq JobRow
  BY Zenon, <1>i DEF TypeOK
<1>2. JobsFit'
  <2> SUFFICES ASSUME NEW x \in jobs'
               PROVE  Planned(x)' /\ (x.state = "read" => Saw(x.g, x.seen)')
    BY Zenon DEF JobsFit
  <2>1. Planned(x) /\ x \in JobRow
    BY Zenon, <1>1, <1>i DEF JobsFit
  <2>2. Planned(x)'
    BY Zenon, <2>1 DEF Planned, JobCurrent
  <2>3. x.state = "read" => Saw(x.g, x.seen)
    <3>1. CASE x \in jobs
      BY Zenon, <1>i, <3>1 DEF JobsFit
    <3>2. CASE x = k /\ x.state = "read"
      <4>1. k.g \in Agreements /\ k.g = slot.holder /\ x.seen = truth[k.g]
        <5>1. k.g \in Agreements
          BY Zenon DEF JobRow
        <5>2. k.state # "dead_letter"
          BY <3>2
        <5> QED
          BY Zenon, <3>2, <5>1, <5>2 DEF Planned
      <4>2. k.g # Nobody
        BY Zenon, <4>1, AuthorityAssumption
      <4>3. agr[k.g].ver <= truth[k.g].ver /\ truth[k.g].through > 0
        BY Zenon, <1>i, <4>1, <4>2 DEF Terms, Placed
      <4>4. truth[k.g].ver \in Nat /\ truth[k.g].through \in Nat
        BY <1>i, <4>1 DEF TypeOK, TruthRow
      <4>5. truth[k.g].ver <= truth[k.g].ver /\ truth[k.g].through <= truth[k.g].through
        BY <4>4
      <4> QED
        BY Zenon, <3>2, <4>1, <4>3, <4>5 DEF Saw
    <3> QED
      BY Zenon, <3>1, <3>2
  <2>4. Saw(x.g, x.seen) => Saw(x.g, x.seen)'
    BY Zenon DEF Saw
  <2> QED
    BY Zenon, <2>2, <2>3, <2>4
<1> QED
  BY Zenon, <1>1, <1>2, JobsOnly

\* A worker leases a job, reads, fails, or loses its lease.
LEMMA WorkerStep ==
  ASSUME CommercialInvariant, NEW j \in jobs,
         LeaseReconciliation(j) \/ ReadProvider(j) \/ LeaseExpires(j) \/ FailBoundWork(j)
  PROVE  CommercialInvariant'
<1>i. TypeOK /\ j \in JobRow /\ Planned(j) /\ j.g \in Agreements
  <2>1. TypeOK /\ JobsFit
    BY Zenon DEF CommercialInvariant
  <2>2. j \in JobRow
    BY Zenon, <2>1 DEF TypeOK
  <2> QED
    BY Zenon, <2>1, <2>2 DEF JobsFit, JobRow
<1>r. j \in JobRow
  BY Zenon, <1>i
<1>s. "leased" \in JobStates
  BY DEF JobStates
<1>d. "read" \in JobStates
  BY DEF JobStates
<1>t. truth[j.g] \in TruthRow /\ faults \in 0 .. MaxFaults
  BY Zenon, <1>i DEF TypeOK
<1>1. CASE LeaseReconciliation(j)
  <2> DEFINE a == IF j.attempts < MaxAttempts THEN j.attempts + 1 ELSE j.attempts
             k == WithAttempt(j, "leased", a)
  <2>1. /\ j.state = "waiting" /\ jobs' = (jobs \ {j}) \cup {k}
        /\ UNCHANGED <<now, truth, events, agr, auth, heads, first, refund, cancel, slot, due,
                       release, faults>>
    BY Zenon, <1>1 DEF LeaseReconciliation, Becomes, commands, WithAttempt
  <2>2. a \in 0 .. MaxAttempts
    <3>1. j.attempts \in 0 .. MaxAttempts
      BY Zenon, <1>i DEF JobRow
    <3> QED
      BY <3>1, AuthorityAssumption
  <2> HIDE DEF a
  <2>3. k \in JobRow /\ k.state = "leased" /\ k.g = j.g /\ k.newest = j.newest /\ k.fresh = j.fresh
    BY Zenon, <1>r, <1>s, <2>2, AttemptEdit
  <2> HIDE DEF k
  <2>4. JobCurrent(j) /\ j.g = slot.holder
    BY <1>i, <2>1 DEF Planned
  <2>5. Planned(k) /\ k.state # "read"
    BY Zenon, <2>3, <2>4, "leased" # "read" DEF Planned, JobCurrent
  <2> QED
    BY Zenon, <1>t, <2>1, <2>3, <2>5, BecomesStep
<1>2. CASE ReadProvider(j)
  <2> DEFINE t == truth[j.g]
             k == WithSeen(j, "read", t)
  <2>1. /\ j.state = "leased" /\ jobs' = (jobs \ {j}) \cup {k}
        /\ UNCHANGED <<now, truth, events, agr, auth, heads, first, refund, cancel, slot, due,
                       release, faults>>
    BY Zenon, <1>2 DEF ReadProvider, Becomes, commands, WithSeen
  <2>0. t \in TruthRow
    BY Zenon, <1>t
  <2> HIDE DEF t
  <2>2. /\ k \in JobRow /\ k.state = "read" /\ k.g = j.g /\ k.newest = j.newest
        /\ k.fresh = j.fresh /\ k.seen = t
    BY <1>d, <1>r, <2>0, SeenEdit, SMT
  <2> HIDE DEF k
  <2>3. JobCurrent(j) /\ j.g = slot.holder
    BY <1>i, <2>1 DEF Planned
  <2>4. Planned(k)
    BY Zenon, <2>2, <2>3 DEF Planned, JobCurrent
  <2> QED
    BY Zenon, <1>t, <2>1, <2>2, <2>4, BecomesStep DEF t
<1>3. CASE LeaseExpires(j) \/ FailBoundWork(j)
  <2>1. PICK s \in {"waiting", "dead_letter"} : j.state \in {"leased", "read"} /\ Faulty(j, s)
    BY Zenon, <1>3 DEF LeaseExpires, FailBoundWork
  <2> DEFINE k == WithSeen(j, s, NoTruth)
  <2>2. /\ jobs' = (jobs \ {j}) \cup {k} /\ faults < MaxFaults /\ faults' = faults + 1
        /\ UNCHANGED <<now, truth, events, agr, auth, heads, first, refund, cancel, slot, due,
                       release>>
    BY Zenon, <2>1 DEF Faulty, Becomes, commands, WithSeen
  <2>3. faults' \in 0 .. MaxFaults
    BY <1>t, <2>2, AuthorityAssumption
  <2>4. s \in JobStates
    BY DEF JobStates
  <2>5. k \in JobRow /\ k.state = s /\ k.g = j.g /\ k.newest = j.newest /\ k.fresh = j.fresh
    BY <1>r, <2>4, NoTruthRow, SeenEdit, SMT
  <2> HIDE DEF k
  <2>6. JobCurrent(j) /\ j.g = slot.holder
    BY <1>i, <2>1 DEF Planned
  <2>7. Planned(k)
    BY Zenon, <2>5, <2>6 DEF Planned, JobCurrent
  <2>8. k.state # "read"
    BY <2>5
  <2> QED
    BY Zenon, <2>2, <2>3, <2>5, <2>7, <2>8, BecomesStep
<1> QED
  BY Zenon, <1>1, <1>2, <1>3

\* An operator redrives a job that was given up.
LEMMA RedriveStep ==
  ASSUME CommercialInvariant, NEW j \in jobs, Redrive(j)
  PROVE  CommercialInvariant'
<1>i. TypeOK /\ j \in JobRow /\ Planned(j)
  <2>1. TypeOK /\ JobsFit
    BY Zenon DEF CommercialInvariant
  <2> QED
    BY Zenon, <2>1 DEF JobsFit, TypeOK
<1> DEFINE k == WithAttempt(j, "leased", 1)
<1>1. /\ j.state = "dead_letter" /\ faults < MaxFaults /\ faults' = faults + 1
      /\ jobs' = (jobs \ {j}) \cup {x \in {k} : JobCurrent(x)}
      /\ UNCHANGED <<now, truth, events, agr, auth, heads, first, refund, cancel, slot, due, release>>
  BY Zenon DEF Redrive, commands, WithAttempt
<1>2. faults' \in 0 .. MaxFaults /\ 1 \in 0 .. MaxAttempts
  BY <1>1, <1>i, AuthorityAssumption DEF TypeOK
<1>3. k \in JobRow /\ k.state = "leased" /\ k.g = j.g /\ k.newest = j.newest /\ k.fresh = j.fresh
  <2>1. "leased" \in JobStates
    BY DEF JobStates
  <2> QED
    BY Zenon, <1>2, <1>i, <2>1, AttemptEdit
<1> HIDE DEF k
<1>4. CASE JobCurrent(k)
  <2>1. Planned(k) /\ k.state # "read" /\ jobs' \subseteq (jobs \ {j}) \cup {k}
    BY Zenon, <1>1, <1>3, <1>4, <1>i, "leased" # "read" DEF Planned, JobCurrent
  <2> QED
    BY Zenon, <1>1, <1>2, <1>3, <2>1, BecomesStep
<1>5. CASE ~JobCurrent(k)
  <2>1. j.state # "read"
    BY <1>1
  <2>2. jobs' \subseteq (jobs \ {j}) \cup {j}
    BY Zenon, <1>1, <1>5
  <2> QED
    BY Zenon, <1>1, <1>2, <1>i, <2>1, <2>2, BecomesStep
<1> QED
  BY Zenon, <1>4, <1>5

\* A receipt is bound: it overtakes the jobs of its agreement.
LEMMA ReceiptStep ==
  ASSUME CommercialInvariant, NEW g \in Agreements, NEW t \in Triggers, BindReceipt(g, t)
  PROVE  CommercialInvariant'
<1>i. TypeOK /\ JobsFit /\ jobs \subseteq JobRow
  <2>1. TypeOK /\ JobsFit
    BY Zenon DEF CommercialInvariant
  <2> QED
    BY Zenon, <2>1 DEF TypeOK
<1>1. /\ events' \subseteq events
      /\ jobs' = Superseded(g) \cup (IF slot.holder = g THEN {Job(g, t, 0)} ELSE {})
      /\ UNCHANGED <<now, truth, agr, auth, heads, first, refund, cancel, slot, due, release, faults>>
  BY Zenon DEF BindReceipt, commands
<1> DEFINE kept == {k \in jobs : k.g = g => k.state # "waiting"}
           work == {IF j.g = g THEN [j EXCEPT !.newest = FALSE] ELSE j : j \in kept}
<1>2. Superseded(g) = OutdateJobs(work, {})
  BY Zenon DEF Superseded
<1>3. ASSUME NEW x \in work
      PROVE  x \in JobRow /\ (JobCurrent(x) => x \in jobs)
  <2>1. PICK j \in kept : x = IF j.g = g THEN [j EXCEPT !.newest = FALSE] ELSE j
    BY Zenon
  <2>2. j \in jobs /\ j \in JobRow
    BY Zenon, <1>i
  <2>3. CASE j.g = g
    <3>1. x = [j EXCEPT !.newest = FALSE]
      BY Zenon, <2>1, <2>3
    <3>2. x \in JobRow /\ x.newest = FALSE
      BY Zenon, <2>2, <3>1, NewestEdit
    <3> QED
      BY Zenon, <3>2 DEF JobCurrent
  <2>4. CASE j.g # g
    BY Zenon, <2>1, <2>2, <2>4
  <2> QED
    BY Zenon, <2>3, <2>4
<1>4. work \in SUBSET JobRow
  BY Zenon, <1>3
<1> HIDE DEF work, kept
<1>5. /\ Job(g, t, 0) \in JobRow /\ JobCurrent(Job(g, t, 0)) /\ Job(g, t, 0).g = g
      /\ Job(g, t, 0).state = "waiting"
  <2>1. 0 \in 0 .. MaxAttempts
    BY AuthorityAssumption
  <2> QED
    BY Zenon, <2>1, NewJob
<1>6. ASSUME NEW x \in jobs'
      PROVE  x \in JobRow /\ (x \in jobs \/ (Planned(x) /\ x.state # "read"))
  <2>1. CASE x \in Superseded(g)
    <3>1. /\ x \in JobRow /\ (x.state = "dead_letter" \/ JobCurrent(x))
          /\ JobCurrent(x) \/ x.state = "read" => x \in work
      <4>1. x \in OutdateJobs(work, {})
        BY Zenon, <1>2, <2>1
      <4> QED
        BY <1>4, <4>1, Outdated
    <3>2. CASE JobCurrent(x)
      BY Zenon, <1>3, <3>1, <3>2
    <3>3. CASE ~JobCurrent(x)
      <4>1. x.state # "read"
        BY <3>1, <3>3
      <4> QED
        BY Zenon, <3>1, <3>3, <4>1 DEF Planned
    <3> QED
      BY Zenon, <3>2, <3>3
  <2>2. CASE slot.holder = g /\ x = Job(g, t, 0)
    BY Zenon, <1>5, <2>2, "waiting" # "read" DEF Planned
  <2> QED
    BY Zenon, <1>1, <2>1, <2>2
<1>7. TruthGrows /\ jobs' \subseteq JobRow
  BY Zenon, <1>1, <1>6, <1>i, TruthStands
<1>8. TypeOK'
  <2>1. events' \subseteq Agreements \X Triggers
    BY Zenon, <1>1, <1>i DEF TypeOK
  <2> QED
    BY Zenon, <1>1, <1>7, <1>i, <2>1 DEF TypeOK
<1>9. JobsFit'
  BY Zenon, <1>1, <1>6, <1>7, <1>8, <1>i, JobsStay
<1>10. faults' \in 0 .. MaxFaults
  BY Zenon, <1>8 DEF TypeOK
<1> QED
  BY Zenon, <1>1, <1>7, <1>9, <1>10, JobsOnly

-----------------------------------------------------------------------------
(* Commands and confirmations *)

(* The slot with another operation, and with the operation of a command. *)
WithOperation(s, o) == [s EXCEPT !.op = o]
Taken(s, o) == [s EXCEPT !.op = o, !.eligible = FALSE]

\* The holder stays in the slot.
LEMMA SlotEdits ==
  ASSUME NEW s \in SlotRow, NEW o \in Operations
  PROVE  /\ WithOperation(s, o) \in SlotRow /\ WithOperation(s, o).holder = s.holder
         /\ WithOperation(s, o).op = o /\ WithOperation(s, o).eligible = s.eligible
         /\ Taken(s, o) \in SlotRow /\ Taken(s, o).holder = s.holder
         /\ Taken(s, o).op = o /\ Taken(s, o).eligible = FALSE
<1>1. /\ WithOperation(s, o) \in SlotRow /\ WithOperation(s, o).holder = s.holder
      /\ WithOperation(s, o).op = o /\ WithOperation(s, o).eligible = s.eligible
  BY Zenon DEF SlotRow, WithOperation
<1>2. /\ Taken(s, o) \in SlotRow /\ Taken(s, o).holder = s.holder
      /\ Taken(s, o).op = o /\ Taken(s, o).eligible = FALSE
  BY Zenon DEF SlotRow, Taken
<1> QED
  BY Zenon, <1>1, <1>2

\* No deadline outlives a revision it was planned with.
LEMMA NoDueLeft ==
  ASSUME NEW work \in SUBSET DueRow, NEW moved, moved \cap Revisions # {}
  PROVE  OutdateDue(work, moved) = {}
<1> SUFFICES ASSUME NEW d \in OutdateDue(work, moved)
             PROVE  FALSE
  BY Zenon
<1>1. PICK e \in work : d = [e EXCEPT !.fresh = @ \ moved]
  BY Zenon DEF OutdateDue
<1>2. e.fresh \in SUBSET Revisions /\ d.fresh = e.fresh \ moved
  <2>1. e \in DueRow
    BY Zenon
  <2> QED
    BY Zenon, <1>1, <2>1 DEF DueRow
<1>3. d.fresh = Revisions
  BY Zenon DEF OutdateDue, DueCurrent
<1> QED
  BY Zenon, <1>2, <1>3

\* Once a revision has moved on, the jobs that are left can only be redriven in vain.
LEMMA AllOutdated ==
  ASSUME NEW work \in SUBSET JobRow, NEW moved, moved \cap Revisions # {},
         \A x \in jobs' : \/ x \in OutdateJobs(work, moved)
                          \/ x \in JobRow /\ Planned(x)' /\ x.state # "read"
  PROVE  jobs' \subseteq JobRow /\ JobsFit'
<1>1. ASSUME NEW x \in OutdateJobs(work, moved)
      PROVE  x \in JobRow /\ Planned(x)' /\ x.state # "read"
  <2>1. x \in JobRow /\ ~JobCurrent(x) /\ x.state = "dead_letter"
    BY Zenon, Outdated
  <2>2. x.state # "read"
    BY <2>1
  <2> QED
    BY Zenon, <2>1, <2>2 DEF Planned, JobCurrent
<1> QED
  BY Zenon, <1>1 DEF JobsFit

\* A command takes the slot: every plan made for the slot is outdated.
LEMMA CommandFrame ==
  ASSUME CommercialInvariant, NEW o \in Operations, NEW moved, moved \cap Revisions # {},
         TakeSlot(o, moved)
  PROVE  /\ slot' = Taken(slot, o) /\ slot' \in SlotRow /\ slot'.holder = slot.holder
         /\ slot'.op = o /\ slot'.eligible = FALSE
         /\ jobs' \subseteq JobRow /\ JobsFit' /\ due' = {} /\ DueFits'
<1>i. TypeOK
  BY Zenon DEF CommercialInvariant
<1>1. /\ slot' = Taken(slot, o) /\ jobs' = OutdateJobs(jobs, moved) /\ due' = OutdateDue(due, moved)
  BY Zenon DEF TakeSlot, Taken
<1>2. slot \in SlotRow /\ jobs \in SUBSET JobRow /\ due \in SUBSET DueRow
  BY Zenon, <1>i DEF TypeOK
<1>3. /\ slot' \in SlotRow /\ slot'.holder = slot.holder
      /\ slot'.op = o /\ slot'.eligible = FALSE
  BY Zenon, <1>1, <1>2, SlotEdits
<1>4. jobs' \subseteq JobRow /\ JobsFit'
  BY Zenon, <1>1, <1>2, AllOutdated
<1>5. due' = {}
  BY Zenon, <1>1, <1>2, NoDueLeft
<1>6. DueFits'
  BY Zenon, <1>5 DEF DueFits
<1> QED
  BY Zenon, <1>1, <1>3, <1>4, <1>5, <1>6

\* Moving on the slot or the authority moves on a revision.
LEMMA SomethingMoved ==
  /\ {"slot"} \cap Revisions # {} /\ {"slot", "authority"} \cap Revisions # {}
  /\ {"authority"} \cap Revisions # {}
  /\ "cancel" \in Operations /\ "terminate" \in Operations /\ "refund" \in Operations
  /\ "none" \in Operations
BY DEF Revisions, Operations

\* request_cancellation
LEMMA CancellationStep ==
  ASSUME CommercialInvariant, NEW g \in Agreements, RequestCancellation(g)
  PROVE  CommercialInvariant'
<1>i. TypeOK /\ OneRefund
  BY Zenon DEF CommercialInvariant
<1>1. /\ TakeSlot("cancel", {"slot"}) /\ cancel' = [cancel EXCEPT ![g] = "requested"]
      /\ UNCHANGED <<now, truth, events, agr, auth, heads, first, refund, release, faults>>
  BY Zenon DEF RequestCancellation
<1>2. /\ slot' \in SlotRow /\ slot'.holder = slot.holder
      /\ slot'.op = "cancel" /\ slot'.eligible = FALSE
      /\ jobs' \subseteq JobRow /\ JobsFit' /\ due' = {} /\ DueFits'
  BY Zenon, <1>1, SomethingMoved, CommandFrame
<1>3. TypeOK'
  <2>1. cancel' \in [Agreements -> {"none", "requested", "scheduled"}]
    BY <1>1, <1>i DEF TypeOK
  <2>2. due' \subseteq DueRow
    BY Zenon, <1>2
  <2> QED
    BY Zenon, <1>1, <1>2, <1>i, <2>1, <2>2 DEF TypeOK
<1>4. TruthGrows
  BY Zenon, <1>1, <1>i, TruthStands
<1>5. OneRefund'
  <2>1. slot'.op \in {"none", "cancel"} /\ slot'.op \notin {"terminate", "refund"}
    BY <1>2
  <2>2. \A h \in Agreements : Unsent(h) => Unsent(h)'
    BY Zenon, <1>1 DEF Unsent
  <2> QED
    BY Zenon, <1>1, <1>i, <2>1, <2>2 DEF OneRefund
<1>6. now' >= now
  BY <1>1, <1>i DEF TypeOK
<1> QED
  BY Zenon, <1>1, <1>2, <1>3, <1>4, <1>5, <1>6, Frame

\* The provider stops renewing an agreement that was handed off.
LEMMA RenewalEnds ==
  ASSUME TypeOK, NEW g \in Agreements, Change(g, [truth[g] EXCEPT !.renews = FALSE], "agreement")
  PROVE  /\ truth' \in [Agreements -> TruthRow] /\ events' \subseteq Agreements \X Triggers
         /\ TruthGrows /\ \A h \in Agreements : Unsent(h) => Unsent(h)'
<1> DEFINE new == [truth[g] EXCEPT !.renews = FALSE]
<1>1. truth[g] \in TruthRow /\ truth[g].ver \in Nat
  <2>1. truth[g] \in TruthRow
    BY Zenon DEF TypeOK
  <2> QED
    BY Zenon, <2>1 DEF TruthRow
<1>2. /\ new \in TruthRow /\ new.ver = truth[g].ver /\ new.through = truth[g].through
      /\ new.renews = FALSE /\ new.refund = truth[g].refund
  BY Zenon, <1>1, RenewalEdit
<1>3. Change(g, new, "agreement") /\ "agreement" \in Triggers
  BY Zenon DEF Triggers
<1> HIDE DEF new
<1>4. new.ver >= truth[g].ver
  BY <1>1, <1>2
<1>5. Forward(truth[g], new)
  BY Zenon, <1>2, <1>4 DEF Forward
<1>6. /\ truth' \in [Agreements -> TruthRow] /\ events' \subseteq Agreements \X Triggers
      /\ TruthGrows /\ truth'[g].refund = new.refund
      /\ \A h \in Agreements \ {g} : truth'[h] = truth[h]
  BY Zenon, <1>2, <1>3, <1>5, Changed
<1>7. \A h \in Agreements : Unsent(h) => Unsent(h)'
  BY Zenon, <1>2, <1>6 DEF Unsent
<1> QED
  BY Zenon, <1>6, <1>7

\* record_operation_result of a cancellation
LEMMA CancellationConfirmedStep ==
  ASSUME CommercialInvariant, NEW g \in Agreements, CancellationConfirmed(g)
  PROVE  CommercialInvariant'
<1>i. TypeOK /\ JobsFit /\ DueFits /\ OneRefund
  BY Zenon DEF CommercialInvariant
<1>1. /\ slot' = WithOperation(slot, "none") /\ cancel' = [cancel EXCEPT ![g] = "scheduled"]
      /\ Change(g, [truth[g] EXCEPT !.renews = FALSE], "agreement") /\ release' = TRUE
      /\ UNCHANGED <<now, agr, jobs, auth, heads, first, refund, due, faults>>
  BY Zenon DEF CancellationConfirmed, WithOperation
<1>2. /\ slot' \in SlotRow /\ slot'.holder = slot.holder /\ slot'.op = "none"
      /\ slot'.eligible = slot.eligible
  <2>1. slot \in SlotRow
    BY Zenon, <1>i DEF TypeOK
  <2> QED
    BY Zenon, <1>1, <2>1, SomethingMoved, SlotEdits
<1>3. /\ truth' \in [Agreements -> TruthRow] /\ events' \subseteq Agreements \X Triggers
      /\ TruthGrows /\ \A h \in Agreements : Unsent(h) => Unsent(h)'
  BY Zenon, <1>1, <1>i, RenewalEnds
<1>4. TypeOK'
  <2>1. cancel' \in [Agreements -> {"none", "requested", "scheduled"}]
    BY <1>1, <1>i DEF TypeOK
  <2>2. release' \in BOOLEAN
    BY Zenon, <1>1
  <2> QED
    BY Zenon, <1>1, <1>2, <1>3, <1>i, <2>1, <2>2 DEF TypeOK
<1>5. JobsFit'
  BY Zenon, <1>1, <1>2, <1>3, <1>4, <1>i, JobsStay
<1>6. DueFits'
  BY Zenon, <1>1, <1>2, <1>i DEF DueFits
<1>7. OneRefund'
  <2>1. slot'.op \in {"none", "cancel"} /\ slot'.op \notin {"terminate", "refund"}
    BY <1>2
  <2> QED
    BY Zenon, <1>1, <1>3, <1>i, <2>1 DEF OneRefund
<1>8. now' >= now
  BY <1>1, <1>i DEF TypeOK
<1> QED
  BY Zenon, <1>1, <1>2, <1>3, <1>4, <1>5, <1>6, <1>7, <1>8, Frame

\* record_operation_result of a termination
LEMMA TerminationConfirmedStep ==
  ASSUME CommercialInvariant, NEW g \in Agreements, TerminationConfirmed(g)
  PROVE  CommercialInvariant'
<1>i. TypeOK /\ OneRefund
  BY Zenon DEF CommercialInvariant
<1>1. /\ slot.holder = g /\ slot.op = "terminate"
      /\ refund' = [refund EXCEPT !.state = "refund_pending"] /\ TakeSlot("refund", {"slot"})
      /\ Change(g, [truth[g] EXCEPT !.renews = FALSE], "agreement")
      /\ UNCHANGED <<now, agr, auth, heads, first, cancel, release, faults>>
  BY Zenon DEF TerminationConfirmed
<1>2. /\ slot' \in SlotRow /\ slot'.holder = slot.holder
      /\ slot'.op = "refund" /\ slot'.eligible = FALSE
      /\ jobs' \subseteq JobRow /\ JobsFit' /\ due' = {} /\ DueFits'
  BY Zenon, <1>1, SomethingMoved, CommandFrame
<1>3. /\ truth' \in [Agreements -> TruthRow] /\ events' \subseteq Agreements \X Triggers
      /\ TruthGrows /\ \A h \in Agreements : Unsent(h) => Unsent(h)'
  BY Zenon, <1>1, <1>i, RenewalEnds
<1>4. /\ refund' \in [by : Holders, state : {"none", "termination_pending", "refund_pending", "refunded"}]
      /\ refund'.by = refund.by
  BY <1>1, <1>i DEF TypeOK
<1>5. TypeOK'
  <2>1. due' \subseteq DueRow
    BY Zenon, <1>2
  <2> QED
    BY Zenon, <1>1, <1>2, <1>3, <1>4, <1>i, <2>1 DEF TypeOK
<1>6. OneRefund'
  <2>1. first.state = "claimed"
    BY <1>1, <1>i DEF OneRefund
  <2>2. slot.holder # Nobody /\ Unsent(slot.holder)
    BY Zenon, <1>1, <1>i DEF OneRefund
  <2>3. Unsent(g)
    BY Zenon, <1>1, <2>2
  <2>4. Unsent(g)'
    BY Zenon, <1>3, <2>3
  <2>5. slot'.holder = g /\ first'.state = "claimed" /\ slot'.holder # Nobody
    BY Zenon, <1>1, <1>2, <2>1, <2>2
  <2> QED
    BY Zenon, <2>4, <2>5 DEF OneRefund
<1>7. now' >= now
  BY <1>1, <1>i DEF TypeOK
<1>8. slot'.eligible => slot.eligible
  BY Zenon, <1>2
<1> QED
  BY Zenon, <1>1, <1>2, <1>3, <1>4, <1>5, <1>6, <1>7, <1>8, Frame

\* record_operation_result of a refund
LEMMA RefundConfirmedStep ==
  ASSUME CommercialInvariant, NEW g \in Agreements, RefundConfirmed(g)
  PROVE  CommercialInvariant'
<1>i. TypeOK /\ JobsFit /\ DueFits /\ OneRefund
  BY Zenon DEF CommercialInvariant
<1> DEFINE new == WithOutcome(truth[g], OwnRefund, "pending")
<1>1. /\ slot.holder = g /\ slot.op = "refund" /\ slot' = WithOperation(slot, "none")
      /\ Change(g, new, OwnRefund) /\ release' = (release \/ refund.state = "refunded")
      /\ UNCHANGED <<now, agr, jobs, auth, heads, first, refund, cancel, due, faults>>
  BY Zenon DEF RefundConfirmed, WithOperation, WithOutcome, commands
<1>2. /\ slot' \in SlotRow /\ slot'.holder = slot.holder /\ slot'.op = "none"
      /\ slot'.eligible = slot.eligible
  <2>1. slot \in SlotRow
    BY Zenon, <1>i DEF TypeOK
  <2> QED
    BY Zenon, <1>1, <2>1, SomethingMoved, SlotEdits
<1>3. truth[g] \in TruthRow /\ truth[g].ver \in Nat /\ OwnRefund \in Lineages
  <2>1. truth[g] \in TruthRow
    BY Zenon, <1>i DEF TypeOK
  <2> QED
    BY Zenon, <2>1, AuthorityAssumption DEF TruthRow
<1>4. /\ new \in TruthRow /\ new.ver = truth[g].ver /\ new.through = truth[g].through
      /\ new.renews = truth[g].renews
      /\ \A k \in Lineages \ {OwnRefund} : new.refund[k] = truth[g].refund[k]
  <2>1. "pending" \in Outcomes
    BY DEF Outcomes
  <2> QED
    BY <1>3, <2>1, OutcomeEdit, SMT
<1> HIDE DEF new
<1>5. Unsent(g) /\ first.state = "claimed"
  BY <1>1, <1>i DEF OneRefund
<1>6. Forward(truth[g], new)
  <2>1. new.ver >= truth[g].ver
    BY <1>3, <1>4
  <2>2. ASSUME NEW k \in Lineages, truth[g].refund[k] \in {"settled", "failed"}
        PROVE  new.refund[k] = truth[g].refund[k]
    <3>1. k # OwnRefund
      BY <1>5, <2>2 DEF Unsent
    <3> QED
      BY Zenon, <1>4, <3>1
  <2> QED
    BY Zenon, <1>4, <2>1, <2>2 DEF Forward
<1>7. truth' \in [Agreements -> TruthRow] /\ events' \subseteq Agreements \X Triggers /\ TruthGrows
  <2>1. OwnRefund \in Triggers
    BY Zenon, <1>3 DEF Triggers
  <2> QED
    BY Zenon, <1>1, <1>4, <1>6, <1>i, <2>1, Changed
<1>8. TypeOK'
  <2>1. release' \in BOOLEAN
    BY Zenon, <1>1
  <2> QED
    BY Zenon, <1>1, <1>2, <1>7, <1>i, <2>1 DEF TypeOK
<1>9. JobsFit'
  BY Zenon, <1>1, <1>2, <1>7, <1>8, <1>i, JobsStay
<1>10. DueFits'
  BY Zenon, <1>1, <1>2, <1>i DEF DueFits
<1>11. OneRefund'
  <2>1. slot'.op \notin {"terminate", "refund"}
    BY <1>2
  <2> QED
    BY Zenon, <1>1, <1>5, <2>1 DEF OneRefund
<1>12. now' >= now
  BY <1>1, <1>i DEF TypeOK
<1> QED
  BY Zenon, <1>1, <1>2, <1>7, <1>8, <1>9, <1>10, <1>11, <1>12, Frame

-----------------------------------------------------------------------------
(* The refund command, deadlines and the release *)

Withdrawn(r, s) == [r EXCEPT !.state = s, !.grants = FALSE]
WithEligible(s, b) == [s EXCEPT !.eligible = b]

\* A right that no longer grants.
LEMMA RightEdit ==
  ASSUME NEW r \in RightRow, NEW s \in RightStates
  PROVE  /\ Withdrawn(r, s) \in RightRow /\ Withdrawn(r, s).by = r.by
         /\ Withdrawn(r, s).state = s /\ Withdrawn(r, s).grants = FALSE
BY Zenon DEF RightRow, Withdrawn

\* A slot that may be found eligible.
LEMMA EligibleEdit ==
  ASSUME NEW s \in SlotRow, NEW b \in BOOLEAN
  PROVE  /\ WithEligible(s, b) \in SlotRow /\ WithEligible(s, b).holder = s.holder
         /\ WithEligible(s, b).op = s.op /\ WithEligible(s, b).eligible = b
BY Zenon DEF SlotRow, WithEligible

\* A step that withdraws the right, under the fences of a plan about its agreement.
LEMMA WithdrawnFrame ==
  ASSUME CommercialInvariant, NEW s \in RightStates, auth' = Withdrawn(auth, s), TypeOK',
         UNCHANGED <<now, truth, agr, heads>>, JobsFit', DueFits', OneRefund', slot'.holder = slot.holder,
         slot'.eligible => slot.holder # Nobody /\ agr[slot.holder].through > 0,
         s = "expired" => auth.by # Nobody /\ agr[auth.by].through <= now
  PROVE  CommercialInvariant'
<1>i. TypeOK /\ Placed /\ Terms /\ EvidenceReal
  BY Zenon DEF CommercialInvariant
<1>1. auth'.by = auth.by /\ auth'.state = s /\ auth'.grants = FALSE
  <2>1. auth \in RightRow
    BY Zenon, <1>i DEF TypeOK
  <2> QED
    BY Zenon, <2>1, RightEdit
<1>2. Placed'
  BY Zenon, <1>1, <1>i DEF Placed
<1>3. Terms' /\ EvidenceReal'
  BY Zenon, <1>i DEF Terms, Ended, EvidenceReal
<1>4. RefundedNeverGrants' /\ BlockedNeverGrants'
  BY Zenon, <1>1 DEF RefundedNeverGrants, BlockedNeverGrants
<1>5. NotExpiredEarly'
  BY Zenon, <1>1 DEF NotExpiredEarly
<1> QED
  BY Zenon, <1>2, <1>3, <1>4, <1>5 DEF CommercialInvariant

\* request_first_purchase_refund
LEMMA RefundStep ==
  ASSUME CommercialInvariant, NEW g \in Agreements, RequestRefund(g)
  PROVE  CommercialInvariant'
<1>i. TypeOK /\ OneRefund
  BY Zenon DEF CommercialInvariant
<1> DEFINE o == IF agr[g].kind = "subscription" THEN "terminate" ELSE "refund"
           r == IF agr[g].kind = "subscription" THEN "termination_pending" ELSE "refund_pending"
<1>1. /\ first = [by |-> g, state |-> "available"] /\ slot.holder = g
      /\ first' = [first EXCEPT !.state = "claimed"] /\ refund' = [by |-> g, state |-> r]
      /\ auth' = Withdrawn(auth, "revoked") /\ TakeSlot(o, {"slot", "authority"})
      /\ UNCHANGED <<now, truth, events, agr, heads, cancel, release, faults>>
  BY Zenon DEF RequestRefund, Withdrawn
<1>2. o \in Operations /\ o \in {"terminate", "refund"}
  BY DEF Operations
<1>3. /\ slot' \in SlotRow /\ slot'.holder = slot.holder /\ slot'.op = o /\ slot'.eligible = FALSE
      /\ jobs' \subseteq JobRow /\ JobsFit' /\ due' = {} /\ DueFits'
  BY Zenon, <1>1, <1>2, SomethingMoved, CommandFrame
<1>4. first'.state = "claimed" /\ first' \in [by : Holders, state : {"none", "available", "claimed", "reversed"}]
  BY <1>1, <1>i DEF TypeOK
<1>5. refund' \in [by : Holders, state : {"none", "termination_pending", "refund_pending", "refunded"}]
  BY <1>1 DEF Holders
<1>6. "revoked" \in RightStates /\ "revoked" # "expired"
  BY DEF RightStates
<1>7. auth' \in RightRow
  <2>1. auth \in RightRow
    BY Zenon, <1>i DEF TypeOK
  <2> QED
    BY Zenon, <1>1, <1>6, <2>1, RightEdit
<1>8. TypeOK'
  <2>1. due' \subseteq DueRow
    BY Zenon, <1>3
  <2> QED
    BY Zenon, <1>1, <1>3, <1>4, <1>5, <1>7, <1>i, <2>1 DEF TypeOK
<1>9. OneRefund'
  <2>1. first.state # "claimed"
    BY <1>1
  <2>2. Unsent(g)
    BY Zenon, <1>i, <2>1 DEF OneRefund
  <2>3. Unsent(g)'
    BY Zenon, <1>1, <2>2 DEF Unsent
  <2>4. slot'.holder = g /\ g # Nobody
    BY Zenon, <1>1, <1>3, AuthorityAssumption
  <2> QED
    BY Zenon, <1>4, <2>3, <2>4 DEF OneRefund
<1> HIDE DEF o, r
<1> QED
  BY Zenon, <1>1, <1>3, <1>6, <1>8, <1>9, WithdrawnFrame

\* apply_due_authority
LEMMA DueStep ==
  ASSUME CommercialInvariant, NEW d \in due, ApplyDue(d)
  PROVE  CommercialInvariant'
<1>i. TypeOK /\ DueFits /\ OneRefund
  BY Zenon DEF CommercialInvariant
<1> DEFINE over == agr[d.g].kind = "fixed_term" \/ (~agr[d.g].renews /\ agr[d.g].through <= now)
<1>1. /\ d.at <= now /\ auth' = Withdrawn(auth, "expired")
      /\ due' = OutdateDue(due \ {d}, {"authority"}) /\ jobs' = OutdateJobs(jobs, {"authority"})
      /\ slot' = WithEligible(slot, slot.eligible \/ over) /\ release' = (release \/ over)
      /\ UNCHANGED <<now, truth, events, agr, heads, first, refund, cancel, faults>>
  BY Zenon DEF ApplyDue, Withdrawn, WithEligible, commands
<1>2. slot.holder = d.g /\ auth.by = d.g /\ agr[d.g].through <= now /\ agr[d.g].through > 0
  BY Zenon, <1>1, <1>i DEF DueFits
<1>3. d.g \in Agreements /\ d.g # Nobody
  <2>1. d \in DueRow
    BY Zenon, <1>i DEF TypeOK
  <2>2. d.g \in Agreements
    BY Zenon, <2>1 DEF DueRow
  <2> QED
    BY Zenon, <2>2, AuthorityAssumption
<1>4. slot' \in SlotRow /\ slot'.holder = slot.holder /\ slot'.op = slot.op
  <2>1. slot \in SlotRow /\ (slot.eligible \/ over) \in BOOLEAN
    BY Zenon, <1>i DEF TypeOK
  <2> QED
    BY Zenon, <1>1, <2>1, EligibleEdit
<1>5. "expired" \in RightStates
  BY DEF RightStates
<1>6. auth' \in RightRow /\ release' \in BOOLEAN
  <2>1. auth \in RightRow
    BY Zenon, <1>i DEF TypeOK
  <2> QED
    BY Zenon, <1>1, <1>5, <2>1, RightEdit
<1> HIDE DEF over
<1>7. due' = {}
  <2>1. due \ {d} \in SUBSET DueRow
    BY Zenon, <1>i DEF TypeOK
  <2> QED
    BY Zenon, <1>1, <2>1, SomethingMoved, NoDueLeft
<1>8. jobs' \subseteq JobRow /\ JobsFit'
  <2>1. jobs \in SUBSET JobRow
    BY Zenon, <1>i DEF TypeOK
  <2> QED
    BY Zenon, <1>1, <2>1, SomethingMoved, AllOutdated
<1>9. TypeOK'
  <2>1. due' \subseteq DueRow
    BY Zenon, <1>7
  <2> QED
    BY Zenon, <1>1, <1>4, <1>6, <1>8, <1>i, <2>1 DEF TypeOK
<1>10. DueFits'
  BY Zenon, <1>7 DEF DueFits
<1>11. OneRefund'
  BY Zenon, <1>1, <1>4, <1>i DEF OneRefund, Unsent
<1> QED
  BY Zenon, <1>1, <1>2, <1>3, <1>4, <1>5, <1>8, <1>9, <1>10, <1>11, WithdrawnFrame

\* release_provider_slot
LEMMA ReleaseStep ==
  ASSUME CommercialInvariant, ReleaseSlot
  PROVE  CommercialInvariant'
<1>i. TypeOK /\ Placed /\ JobsFit /\ DueFits /\ Terms /\ EvidenceReal /\ OneRefund
      /\ RefundedNeverGrants /\ BlockedNeverGrants /\ NotExpiredEarly
  BY Zenon DEF CommercialInvariant
<1>1. UNCHANGED <<now, truth, events, agr, auth, heads, first, refund, cancel, faults>> /\ release' = FALSE
  BY Zenon DEF ReleaseSlot, commands
<1>2. /\ Terms' /\ EvidenceReal' /\ RefundedNeverGrants' /\ BlockedNeverGrants' /\ NotExpiredEarly'
  BY Zenon, <1>1, <1>i
     DEF Terms, Ended, EvidenceReal, RefundedNeverGrants, BlockedNeverGrants, NotExpiredEarly
<1>3. CASE UNCHANGED <<slot, jobs, due>>
  <2>1. TypeOK'
    BY Zenon, <1>1, <1>3, <1>i DEF TypeOK
  <2>2. JobsFit'
    BY Zenon, <1>1, <1>3, <1>i DEF JobsFit, Planned, Saw, JobCurrent
  <2>3. Placed' /\ DueFits' /\ OneRefund'
    BY Zenon, <1>1, <1>3, <1>i DEF Placed, DueFits, OneRefund, Unsent
  <2> QED
    BY Zenon, <1>2, <2>1, <2>2, <2>3 DEF CommercialInvariant
<1>4. CASE slot' = Vacant /\ jobs' = OutdateJobs(jobs, {"slot"}) /\ due' = OutdateDue(due, {"slot"})
  <2>1. slot' \in SlotRow /\ slot'.holder = Nobody /\ slot'.op = "none" /\ slot'.eligible = FALSE
    BY <1>4 DEF Vacant, SlotRow, Holders, Operations
  <2>2. jobs \in SUBSET JobRow /\ due \in SUBSET DueRow
    BY Zenon, <1>i DEF TypeOK
  <2>3. jobs' \subseteq JobRow /\ JobsFit'
    BY Zenon, <1>4, <2>2, SomethingMoved, AllOutdated
  <2>4. due' = {}
    BY Zenon, <1>4, <2>2, SomethingMoved, NoDueLeft
  <2>5. TypeOK'
    <3>1. due' \subseteq DueRow
      BY Zenon, <2>4
    <3> QED
      BY Zenon, <1>1, <1>i, <2>1, <2>3, <3>1 DEF TypeOK
  <2>6. Placed' /\ DueFits'
    BY Zenon, <1>1, <1>i, <2>1, <2>4 DEF Placed, DueFits
  <2>7. OneRefund'
    <3>1. slot'.op \in {"none", "cancel"} /\ slot'.op \notin {"terminate", "refund"}
      BY <2>1
    <3> QED
      BY Zenon, <1>1, <1>i, <3>1 DEF OneRefund, Unsent
  <2> QED
    BY Zenon, <1>2, <2>3, <2>5, <2>6, <2>7 DEF CommercialInvariant
<1> QED
  BY Zenon, <1>3, <1>4 DEF ReleaseSlot

-----------------------------------------------------------------------------
(* The hand-off *)

Bought(r, t, b) == [r EXCEPT !.through = t, !.renews = b, !.active = TRUE]
Acquired(r, k, t) == [r EXCEPT !.kind = k, !.through = t]

\* The provider's row of a new agreement.
LEMMA BoughtEdit ==
  ASSUME NEW r \in TruthRow, NEW t \in Nat, NEW b \in BOOLEAN
  PROVE  /\ Bought(r, t, b) \in TruthRow /\ Bought(r, t, b).through = t /\ Bought(r, t, b).renews = b
         /\ Bought(r, t, b).refund = r.refund /\ Bought(r, t, b).ver = r.ver
BY Zenon DEF TruthRow, Bought

\* handoff_provider_agreement
LEMMA HandOffStep ==
  ASSUME CommercialInvariant, NEW g \in Agreements, NEW k \in Kinds, HandOff(g, k)
  PROVE  CommercialInvariant'
<1>i. TypeOK /\ Placed /\ Terms /\ EvidenceReal /\ OneRefund
      /\ RefundedNeverGrants /\ BlockedNeverGrants /\ NotExpiredEarly
  BY Zenon DEF CommercialInvariant
<1> DEFINE t == IF k = "fixed_term" THEN now + 1 ELSE 0
           b == (k = "subscription")
           row == Bought(truth[g], now + 1, b)
           bought == Acquired(agr[g], k, t)
<1>1. /\ agr[g].kind = "none" /\ slot' = [Vacant EXCEPT !.holder = g]
      /\ truth' = [truth EXCEPT ![g] = row] /\ agr' = [agr EXCEPT ![g] = bought]
      /\ jobs' = OutdateJobs(jobs, {"slot"}) \cup {Job(g, "agreement", 0)}
      /\ due' = OutdateDue(due, {"slot"})
      /\ UNCHANGED <<now, events, auth, heads, first, refund, cancel, release, faults>>
  BY Zenon DEF HandOff, Bought, Acquired, commands
<1>2. now + 1 \in Nat /\ now + 1 > 0 /\ t \in Nat /\ b \in BOOLEAN
  BY <1>i, AuthorityAssumption DEF TypeOK
<1>3. truth \in [Agreements -> TruthRow] /\ agr \in [Agreements -> AgreementRow]
  BY Zenon, <1>i DEF TypeOK
<1>4. k # "none" /\ k \in {"subscription", "fixed_term"}
  BY AuthorityAssumption
<1>5. k = "fixed_term" => ~b /\ t = now + 1
  BY Zenon, <1>4
<1>6. k = "subscription" => t = 0
  OBVIOUS
<1> HIDE DEF t, b
<1>7. /\ row \in TruthRow /\ row.through = now + 1 /\ row.renews = b
      /\ row.refund = truth[g].refund /\ row.ver = truth[g].ver
  <2>1. truth[g] \in TruthRow
    BY Zenon, <1>3
  <2> QED
    BY <1>2, <2>1, BoughtEdit, SMT
<1>8. bought \in AgreementRow /\ bought.kind = k /\ bought.through = t /\ bought.ver = agr[g].ver
  <2>1. agr[g] \in AgreementRow
    BY Zenon, <1>3
  <2> QED
    BY Zenon, <1>2, <2>1 DEF AgreementRow, Acquired
<1> HIDE DEF row, bought
<1>9. /\ truth' \in [Agreements -> TruthRow] /\ truth'[g] = row
      /\ \A h \in Agreements : h # g => truth'[h] = truth[h]
  BY Zenon, <1>1, <1>3, <1>7
<1>10. /\ agr' \in [Agreements -> AgreementRow] /\ agr'[g] = bought
       /\ \A h \in Agreements : h # g => agr'[h] = agr[h]
  BY Zenon, <1>1, <1>3, <1>8
<1>11. slot' \in SlotRow /\ slot'.holder = g /\ slot'.op = "none" /\ slot'.eligible = FALSE
  BY Zenon, <1>1 DEF Vacant, SlotRow, Holders, Operations
<1>12. jobs' \subseteq JobRow /\ JobsFit'
  <2>1. jobs \in SUBSET JobRow
    BY Zenon, <1>i DEF TypeOK
  <2>2. 0 \in 0 .. MaxAttempts
    BY AuthorityAssumption
  <2>3. "agreement" \in Triggers
    BY DEF Triggers
  <2> DEFINE new == Job(g, "agreement", 0)
  <2>4. new \in JobRow /\ JobCurrent(new) /\ new.g = g /\ new.state = "waiting"
    BY Zenon, <2>2, <2>3, NewJob
  <2> HIDE DEF new
  <2>5. Planned(new)'
    BY Zenon, <1>11, <2>4 DEF Planned, JobCurrent
  <2>6. new.state # "read"
    BY <2>4
  <2>7. \A x \in jobs' : x \in OutdateJobs(jobs, {"slot"}) \/ x = new
    BY Zenon, <1>1 DEF new
  <2> QED
    BY Zenon, <2>1, <2>4, <2>5, <2>6, <2>7, SomethingMoved, AllOutdated
<1>13. due' = {}
  <2>1. due \in SUBSET DueRow
    BY Zenon, <1>i DEF TypeOK
  <2> QED
    BY Zenon, <1>1, <2>1, SomethingMoved, NoDueLeft
<1>14. TypeOK'
  <2>1. due' \subseteq DueRow
    BY Zenon, <1>13
  <2> QED
    BY Zenon, <1>1, <1>9, <1>10, <1>11, <1>12, <1>i, <2>1 DEF TypeOK
<1>15. (auth.by \in Agreements /\ auth.by # g) \/ auth.by = Nobody
  <2>1. auth.by \in Holders
    BY Zenon, <1>i DEF TypeOK, RightRow
  <2> QED
    BY Zenon, <1>1, <1>i, <2>1 DEF Placed, Holders
<1>16. Placed'
  <2>1. agr'[slot'.holder].kind # "none"
    BY Zenon, <1>4, <1>8, <1>10, <1>11
  <2> QED
    BY Zenon, <1>1, <1>10, <1>11, <1>15, <1>i, <2>1 DEF Placed
<1>17. DueFits'
  BY Zenon, <1>13 DEF DueFits
<1>18. Terms'
  <2> SUFFICES ASSUME NEW h \in Agreements
               PROVE  /\ agr'[h].ver <= truth'[h].ver
                      /\ agr'[h].kind # "none" => truth'[h].through > 0
                      /\ agr'[h].kind = "fixed_term" => Ended(h)'
                      /\ agr'[h].kind = "subscription" /\ agr'[h].through > 0 /\ ~agr'[h].renews => Ended(h)'
    BY Zenon DEF Terms
  <2>1. CASE h # g
    BY Zenon, <1>9, <1>10, <1>i, <2>1 DEF Terms, Ended
  <2>2. CASE h = g
    <3>1. agr'[h].ver <= truth'[h].ver
      BY Zenon, <1>7, <1>8, <1>9, <1>10, <1>i, <2>2 DEF Terms
    <3>2. truth'[h].through > 0
      BY Zenon, <1>2, <1>7, <1>9, <2>2
    <3>3. ASSUME k = "fixed_term" PROVE Ended(h)'
      <4>1. ~truth'[h].renews /\ truth'[h].through = now + 1 /\ agr'[h].through = now + 1
        BY Zenon, <1>7, <1>8, <1>5, <1>9, <1>10, <2>2, <3>3
      <4> QED
        BY <1>2, <4>1 DEF Ended
    <3>4. ASSUME k = "subscription" PROVE ~(agr'[h].through > 0)
      <4>1. agr'[h].through = 0
        BY Zenon, <1>8, <1>6, <1>10, <2>2, <3>4
      <4> QED
        BY <4>1
    <3>5. agr'[h].kind = k
      BY Zenon, <1>8, <1>10, <2>2
    <3> QED
      BY Zenon, <3>1, <3>2, <3>3, <3>4, <3>5
  <2> QED
    BY Zenon, <2>1, <2>2
<1>19. \A h \in Agreements : truth'[h].refund = truth[h].refund
  BY Zenon, <1>7, <1>9
<1>20. EvidenceReal'
  BY Zenon, <1>1, <1>19, <1>i DEF EvidenceReal
<1>21. OneRefund'
  <2>1. slot'.op \in {"none", "cancel"} /\ slot'.op \notin {"terminate", "refund"}
    BY <1>11
  <2> QED
    BY Zenon, <1>1, <1>19, <1>i, <2>1 DEF OneRefund, Unsent
<1>22. RefundedNeverGrants' /\ BlockedNeverGrants'
  BY Zenon, <1>1, <1>i DEF RefundedNeverGrants, BlockedNeverGrants
<1>23. NotExpiredEarly'
  <2>1. auth.state = "expired" => auth.by # Nobody /\ agr[auth.by].through <= now
    BY Zenon, <1>i DEF Placed, NotExpiredEarly
  <2> QED
    BY Zenon, <1>1, <1>10, <1>15, <2>1 DEF NotExpiredEarly
<1> QED
  BY Zenon, <1>12, <1>14, <1>16, <1>17, <1>18, <1>20, <1>21, <1>22, <1>23 DEF CommercialInvariant

-----------------------------------------------------------------------------
(* The observation *)

\* A head ends as failed or settled only by a fact that says so.
LEMMA HeadOfFact ==
  ASSUME NEW head \in Evidence, NEW fact \in Outcomes
  PROVE  /\ HeadAfter(head, fact) \in Evidence
         /\ HeadAfter(head, fact) \in {"failed", "settled"}
              => HeadAfter(head, fact) = head \/ HeadAfter(head, fact) = fact
BY DEF HeadAfter, Evidence, Outcomes

\* What the observation says of a lineage is what the provider has on record.
LEMMA HeadsOfFact ==
  ASSUME TypeOK, EvidenceReal, NEW g \in Agreements, NEW seen \in TruthRow, Saw(g, seen), NEW trigger \in Triggers
  PROVE  /\ Fact(seen, trigger) \in Outcomes
         /\ HeadsAfter(g, trigger, Fact(seen, trigger)) \in [Lineages -> Evidence]
         /\ \A l \in Lineages : LET h == HeadsAfter(g, trigger, Fact(seen, trigger))[l]
                                IN  h \in {"failed", "settled"} => truth[g].refund[l] = h
<1> DEFINE fact == Fact(seen, trigger)
           new == HeadsAfter(g, trigger, fact)
<1>1. seen.refund \in [Lineages -> Outcomes] /\ "none" \in Outcomes
  <2>1. seen.refund \in [Lineages -> Outcomes]
    BY Zenon DEF TruthRow
  <2> QED
    BY <2>1 DEF Outcomes
<1>2. fact \in Outcomes
  BY Zenon, <1>1 DEF Fact
<1>3. \A l \in Lineages : l = trigger => fact = seen.refund[l]
  BY Zenon DEF Fact
<1> HIDE DEF fact
<1>4. \A l \in Lineages : heads[g][l] \in Evidence
  <2>1. heads[g] \in [Lineages -> Evidence]
    BY Zenon DEF TypeOK
  <2> QED
    BY Zenon, <2>1
<1>5. new = [l \in Lineages |-> IF l = trigger THEN HeadAfter(heads[g][l], fact) ELSE heads[g][l]]
  BY Zenon DEF HeadsAfter
<1>6. ASSUME NEW l \in Lineages
      PROVE  new[l] = IF l = trigger THEN HeadAfter(heads[g][l], fact) ELSE heads[g][l]
  BY Zenon, <1>5
<1>7. new \in [Lineages -> Evidence]
  <2>1. \A l \in Lineages : (IF l = trigger THEN HeadAfter(heads[g][l], fact) ELSE heads[g][l]) \in Evidence
    BY Zenon, <1>2, <1>4, HeadOfFact
  <2> QED
    BY Zenon, <1>5, <2>1
<1> HIDE DEF new
<1>8. ASSUME NEW l \in Lineages, new[l] \in {"failed", "settled"}
      PROVE  truth[g].refund[l] = new[l]
  <2>1. heads[g][l] \in {"failed", "settled"} => truth[g].refund[l] = heads[g][l]
    BY Zenon DEF EvidenceReal
  <2>2. CASE l # trigger
    BY Zenon, <1>6, <1>8, <2>1, <2>2
  <2>3. CASE l = trigger
    <3>1. new[l] = HeadAfter(heads[g][l], fact)
      BY Zenon, <1>6, <2>3
    <3>2. new[l] = heads[g][l] \/ new[l] = fact
      BY Zenon, <1>2, <1>4, <1>8, <3>1, HeadOfFact
    <3>3. CASE new[l] = heads[g][l]
      BY Zenon, <1>8, <2>1, <3>3
    <3>4. CASE new[l] = fact
      <4>1. seen.refund[l] = new[l]
        BY Zenon, <1>3, <2>3, <3>4
      <4> QED
        BY Zenon, <1>8, <4>1 DEF Saw
    <3> QED
      BY Zenon, <3>2, <3>3, <3>4
  <2> QED
    BY Zenon, <2>2, <2>3
<1> QED
  BY Zenon, <1>2, <1>7, <1>8 DEF fact, new

\* The term after an observation, and what it says of an agreement that has ended.
LEMMA TermOfObservation ==
  ASSUME TypeOK, Terms, NEW g \in Agreements, NEW seen \in TruthRow, Saw(g, seen), agr[g].kind # "none"
  PROVE  /\ ThroughAfter(g, seen) \in Nat /\ ThroughAfter(g, seen) > 0
         /\ agr[g].kind = "fixed_term" \/ ~seen.renews
              => ~truth[g].renews /\ truth[g].through <= ThroughAfter(g, seen)
<1>1. truth[g] \in TruthRow /\ agr[g] \in AgreementRow
  BY Zenon DEF TypeOK
<1>2. agr[g].through \in Nat /\ seen.through \in Nat /\ truth[g].through \in Nat
  BY Zenon, <1>1 DEF TruthRow, AgreementRow
<1>3. /\ seen.through > 0 /\ truth[g].through > 0
      /\ ~seen.renews => ~truth[g].renews /\ truth[g].through <= seen.through
      /\ agr[g].kind = "fixed_term" => ~truth[g].renews /\ truth[g].through <= agr[g].through
  BY Zenon DEF Saw, Terms, Ended
<1>4. CASE agr[g].kind = "fixed_term"
  <2>1. ThroughAfter(g, seen) = agr[g].through
    BY Zenon, <1>4 DEF ThroughAfter
  <2> QED
    BY <1>2, <1>3, <1>4, <2>1
<1>5. CASE agr[g].kind # "fixed_term"
  <2>1. ThroughAfter(g, seen) = IF agr[g].through > seen.through THEN agr[g].through ELSE seen.through
    BY Zenon, <1>5 DEF ThroughAfter
  <2> QED
    BY <1>2, <1>3, <1>5, <2>1
<1> QED
  BY Zenon, <1>4, <1>5

\* A right that is planned from an observation.
LEMMA RightOfObservation ==
  ASSUME NEW g, NEW seen, NEW fact, NEW h, NEW t
  PROVE  /\ RightState(g, seen, fact, h, t) \in RightStates
         /\ RightState(g, seen, fact, h, t) = "expired" => t <= now
         /\ Grants(g, seen, fact, h, t) \in BOOLEAN
         /\ Grants(g, seen, fact, h, t) =>
              refund.by # g /\ \A l \in Lineages : h[l] \notin {"blocking", "settled"}
<1>1. RightState(g, seen, fact, h, t) \in RightStates /\ (RightState(g, seen, fact, h, t) = "expired" => t <= now)
  BY DEF RightState, RightStates
<1>2. Grants(g, seen, fact, h, t) \in BOOLEAN
  BY DEF Grants
<1>3. Grants(g, seen, fact, h, t) => refund.by # g /\ \A l \in Lineages : h[l] \notin {"blocking", "settled"}
  BY Zenon DEF Grants, RefundLocked
<1> QED
  BY Zenon, <1>1, <1>2, <1>3

\* A claimed first purchase stays claimed.
LEMMA FirstOfObservation ==
  ASSUME TypeOK, NEW g \in Agreements, NEW trigger, NEW fact
  PROVE  /\ FirstAfter(g, trigger, fact) \in [by : Holders, state : {"none", "available", "claimed", "reversed"}]
         /\ first.state = "claimed" => FirstAfter(g, trigger, fact).state = "claimed"
<1> DEFINE Rows == [by : Holders, state : {"none", "available", "claimed", "reversed"}]
           opened == IF first.state = "none" THEN [by |-> g, state |-> "available"] ELSE first
<1>1. first \in Rows
  BY Zenon DEF TypeOK
<1>2. opened \in Rows /\ (first.state = "claimed" => opened.state = "claimed")
  BY <1>1 DEF Holders
<1>3. FirstAfter(g, trigger, fact) =
        IF opened.by = g /\ opened.state # "claimed" /\ fact = "settled" /\ trigger # OwnRefund
        THEN [opened EXCEPT !.state = "reversed"] ELSE opened
  BY Zenon DEF FirstAfter
<1> HIDE DEF opened
<1> QED
  BY <1>2, <1>3

Observed(r, t, b, v, x) == [r EXCEPT !.through = t, !.renews = b, !.ver = v, !.returned = x]
Parked(j) == [j EXCEPT !.state = "dead_letter", !.newest = FALSE, !.seen = NoTruth]

\* A job whose attempts are used up while its lineage blocks.
LEMMA ParkedEdit ==
  ASSUME NEW j \in JobRow
  PROVE  Parked(j) \in JobRow /\ Parked(j).newest = FALSE /\ Parked(j).state = "dead_letter"
<1>1. NoTruth \in TruthRow /\ "dead_letter" \in JobStates
  BY NoTruthRow DEF JobStates
<1> QED
  BY Zenon, <1>1 DEF JobRow, Parked

(* The names Apply gives to what it computes. *)
FactOf(j) == Fact(j.seen, j.trig)
HeadsOf(j) == HeadsAfter(j.g, j.trig, FactOf(j))
ThroughOf(j) == ThroughAfter(j.g, j.seen)
StateOf(j) == RightState(j.g, j.seen, FactOf(j), HeadsOf(j), ThroughOf(j))
GrantsOf(j) == Grants(j.g, j.seen, FactOf(j), HeadsOf(j), ThroughOf(j))
OverOf(j) == Over(j.g, j.seen.renews, HeadsOf(j), ThroughOf(j))
RightOf(j) == [by |-> j.g, state |-> StateOf(j), grants |-> GrantsOf(j), until |-> ThroughOf(j)]
MovedBy(j) == {"agreement"} \cup (IF RightOf(j) = auth THEN {} ELSE {"authority"})
BlockingOf(j) == {l \in Lineages : HeadsOf(j)[l] = "blocking"}
ReturnedOf(j) == \E l \in Lineages : j.seen.refund[l] = "settled"
RefundOf(j) == IF FactOf(j) = "settled" /\ refund = [by |-> j.g, state |-> "refund_pending"]
               THEN [refund EXCEPT !.state = "refunded"] ELSE refund

\* Apply, by these names.
LEMMA ApplyParts ==
  ASSUME NEW j, Apply(j)
  PROVE  /\ j.state = "read" /\ heads' = [heads EXCEPT ![j.g] = HeadsOf(j)] /\ auth' = RightOf(j)
         /\ agr' = [agr EXCEPT ![j.g] = Observed(agr[j.g], ThroughOf(j), j.seen.renews, j.seen.ver, ReturnedOf(j))]
         /\ first' = FirstAfter(j.g, j.trig, FactOf(j)) /\ refund' = RefundOf(j)
         /\ slot' = WithEligible(slot, slot.eligible \/ OverOf(j))
         /\ \/ \E l \in BlockingOf(j) :
                 j.attempts < MaxAttempts /\ jobs' = OutdateJobs(jobs \ {j}, MovedBy(j)) \cup {Job(j.g, l, j.attempts)}
            \/ jobs' = OutdateJobs(jobs \ {j}, MovedBy(j)) \cup {Parked(j) : l \in BlockingOf(j)}
         /\ due' = OutdateDue(due, MovedBy(j)) \cup {[g |-> j.g, at |-> ThroughOf(j), fresh |-> Revisions]}
         /\ release' = (release \/ (OverOf(j) /\ BlockingOf(j) = {}))
         /\ UNCHANGED <<now, truth, events, cancel, faults>>
BY Zenon DEF Apply, FactOf, HeadsOf, ThroughOf, StateOf, GrantsOf, OverOf, RightOf, MovedBy, BlockingOf,
             ReturnedOf, RefundOf, Observed, Parked, WithEligible

\* What a job that has read is entitled to rely on.
LEMMA ReadJob ==
  ASSUME CommercialInvariant, NEW j \in jobs, j.state = "read"
  PROVE  /\ j \in JobRow /\ j.g \in Agreements /\ j.g # Nobody /\ j.g = slot.holder /\ agr[j.g].kind # "none"
         /\ j.trig \in Triggers /\ j.seen \in TruthRow /\ j.attempts \in 0 .. MaxAttempts /\ Saw(j.g, j.seen)
<1>1. TypeOK /\ Placed /\ JobsFit
  BY Zenon DEF CommercialInvariant
<1>2. j \in JobRow
  BY Zenon, <1>1 DEF TypeOK
<1>3. j.g \in Agreements /\ j.trig \in Triggers /\ j.seen \in TruthRow /\ j.attempts \in 0 .. MaxAttempts
  BY Zenon, <1>2 DEF JobRow
<1>4. j.state # "dead_letter"
  OBVIOUS
<1>5. j.g = slot.holder /\ Saw(j.g, j.seen)
  BY Zenon, <1>1, <1>4 DEF JobsFit, Planned
<1>6. j.g # Nobody
  BY Zenon, <1>3, AuthorityAssumption
<1> QED
  BY Zenon, <1>1, <1>2, <1>3, <1>5, <1>6 DEF Placed

\* The jobs after an observation: the others are outdated, and a lineage that
\* blocks is read again or parked.
LEMMA ApplyJobs ==
  ASSUME CommercialInvariant, NEW j \in jobs, Apply(j), slot'.holder = slot.holder
  PROVE  jobs' \subseteq JobRow /\ JobsFit' /\ OutdateDue(due, MovedBy(j)) = {}
<1>1. /\ j \in JobRow /\ j.g \in Agreements /\ j.g = slot.holder /\ j.attempts \in 0 .. MaxAttempts
  <2>1. j.state = "read"
    BY Zenon, ApplyParts
  <2> QED
    BY Zenon, <2>1, ReadJob
<1>2. MovedBy(j) \cap Revisions # {}
  <2>1. "agreement" \in MovedBy(j)
    BY Zenon DEF MovedBy
  <2>2. "agreement" \in Revisions
    BY DEF Revisions
  <2> QED
    BY Zenon, <2>1, <2>2
<1>3. jobs \ {j} \in SUBSET JobRow /\ due \in SUBSET DueRow
  BY Zenon DEF CommercialInvariant, TypeOK
<1>4. ASSUME NEW l \in BlockingOf(j)
      PROVE  /\ Job(j.g, l, j.attempts) \in JobRow /\ Planned(Job(j.g, l, j.attempts))'
             /\ Job(j.g, l, j.attempts).state # "read"
  <2> DEFINE new == Job(j.g, l, j.attempts)
  <2>1. l \in Triggers
    BY Zenon DEF BlockingOf, Triggers
  <2>2. new \in JobRow /\ JobCurrent(new) /\ new.g = j.g /\ new.state = "waiting"
    BY Zenon, <1>1, <2>1, NewJob
  <2> HIDE DEF new
  <2>3. new.state # "read"
    BY <2>2
  <2>4. Planned(new)'
    BY Zenon, <1>1, <2>2 DEF Planned, JobCurrent
  <2> QED
    BY Zenon, <2>2, <2>3, <2>4 DEF new
<1>5. Parked(j) \in JobRow /\ Planned(Parked(j))' /\ Parked(j).state # "read"
  <2>1. Parked(j) \in JobRow /\ Parked(j).newest = FALSE /\ Parked(j).state = "dead_letter"
    BY Zenon, <1>1, ParkedEdit
  <2>2. Parked(j).state # "read"
    BY <2>1
  <2>3. Planned(Parked(j))'
    BY Zenon, <2>1 DEF Planned, JobCurrent
  <2> QED
    BY Zenon, <2>1, <2>2, <2>3
<1>6. \A x \in jobs' : \/ x \in OutdateJobs(jobs \ {j}, MovedBy(j))
                       \/ x \in JobRow /\ Planned(x)' /\ x.state # "read"
  <2>1. CASE \E l \in BlockingOf(j) : jobs' = OutdateJobs(jobs \ {j}, MovedBy(j)) \cup {Job(j.g, l, j.attempts)}
    BY Zenon, <1>4, <2>1
  <2>2. CASE jobs' = OutdateJobs(jobs \ {j}, MovedBy(j)) \cup {Parked(j) : l \in BlockingOf(j)}
    BY Zenon, <1>5, <2>2
  <2>3. \/ \E l \in BlockingOf(j) :
               j.attempts < MaxAttempts /\ jobs' = OutdateJobs(jobs \ {j}, MovedBy(j)) \cup {Job(j.g, l, j.attempts)}
        \/ jobs' = OutdateJobs(jobs \ {j}, MovedBy(j)) \cup {Parked(j) : l \in BlockingOf(j)}
    BY Zenon, ApplyParts
  <2> QED
    BY Zenon, <2>1, <2>2, <2>3
<1>7. jobs' \subseteq JobRow /\ JobsFit'
  BY Zenon, <1>2, <1>3, <1>6, AllOutdated
<1>8. OutdateDue(due, MovedBy(j)) = {}
  BY Zenon, <1>2, <1>3, NoDueLeft
<1> QED
  BY Zenon, <1>7, <1>8

\* apply_agreement_observation_and_authority
LEMMA ApplyStep ==
  ASSUME CommercialInvariant, NEW j \in jobs, Apply(j)
  PROVE  CommercialInvariant' /\ \A g \in Agreements : agr'[g].ver >= agr[g].ver
<1>i. TypeOK /\ Placed /\ Terms /\ EvidenceReal /\ OneRefund
  BY Zenon DEF CommercialInvariant
<1> DEFINE g == j.g
           row == Observed(agr[g], ThroughOf(j), j.seen.renews, j.seen.ver, ReturnedOf(j))
           deadline == [g |-> g, at |-> ThroughOf(j), fresh |-> Revisions]
<1>1. /\ j.state = "read" /\ heads' = [heads EXCEPT ![g] = HeadsOf(j)] /\ auth' = RightOf(j)
      /\ agr' = [agr EXCEPT ![g] = row]
      /\ first' = FirstAfter(g, j.trig, FactOf(j)) /\ refund' = RefundOf(j)
      /\ slot' = WithEligible(slot, slot.eligible \/ OverOf(j))
      /\ due' = OutdateDue(due, MovedBy(j)) \cup {deadline}
      /\ release' = (release \/ (OverOf(j) /\ BlockingOf(j) = {}))
      /\ UNCHANGED <<now, truth, events, cancel, faults>>
  BY Zenon, ApplyParts
<1>2. /\ g \in Agreements /\ g # Nobody /\ g = slot.holder /\ agr[g].kind # "none"
      /\ j.trig \in Triggers /\ j.seen \in TruthRow /\ Saw(g, j.seen)
  BY Zenon, <1>1, ReadJob
<1>3. /\ HeadsOf(j) \in [Lineages -> Evidence]
      /\ \A l \in Lineages : HeadsOf(j)[l] \in {"failed", "settled"} => truth[g].refund[l] = HeadsOf(j)[l]
  BY Zenon, <1>2, <1>i, HeadsOfFact DEF HeadsOf, FactOf
<1>4. /\ ThroughOf(j) \in Nat /\ ThroughOf(j) > 0
      /\ agr[g].kind = "fixed_term" \/ ~j.seen.renews => ~truth[g].renews /\ truth[g].through <= ThroughOf(j)
  BY Zenon, <1>2, <1>i, TermOfObservation DEF ThroughOf
<1>5. /\ StateOf(j) \in RightStates /\ (StateOf(j) = "expired" => ThroughOf(j) <= now) /\ GrantsOf(j) \in BOOLEAN
      /\ GrantsOf(j) => refund.by # g /\ \A l \in Lineages : HeadsOf(j)[l] \notin {"blocking", "settled"}
  BY Zenon, RightOfObservation DEF StateOf, GrantsOf
<1>6. /\ first' \in [by : Holders, state : {"none", "available", "claimed", "reversed"}]
      /\ first.state = "claimed" => first'.state = "claimed"
  BY Zenon, <1>1, <1>2, <1>i, FirstOfObservation
<1>7. /\ refund' \in [by : Holders, state : {"none", "termination_pending", "refund_pending", "refunded"}]
      /\ refund'.by = refund.by
  BY <1>1, <1>i DEF RefundOf, TypeOK
<1>8. /\ slot' \in SlotRow /\ slot'.holder = slot.holder /\ slot'.op = slot.op
  <2>1. slot \in SlotRow /\ (slot.eligible \/ OverOf(j)) \in BOOLEAN
    BY Zenon, <1>i DEF TypeOK
  <2> QED
    BY Zenon, <1>1, <2>1, EligibleEdit
<1>9. /\ auth' \in RightRow /\ auth'.by = g /\ auth'.state = StateOf(j) /\ auth'.grants = GrantsOf(j)
  <2>1. g \in Holders
    BY Zenon, <1>2 DEF Holders
  <2> QED
    BY Zenon, <1>1, <1>4, <1>5, <2>1 DEF RightOf, RightRow
<1>10. /\ row \in AgreementRow /\ row.kind = agr[g].kind /\ row.through = ThroughOf(j)
       /\ row.renews = j.seen.renews /\ row.ver = j.seen.ver
  <2>1. agr[g] \in AgreementRow /\ j.seen.renews \in BOOLEAN /\ j.seen.ver \in Nat /\ ReturnedOf(j) \in BOOLEAN
    BY Zenon, <1>2, <1>i DEF TypeOK, TruthRow, ReturnedOf
  <2> QED
    BY Zenon, <1>4, <2>1 DEF AgreementRow, Observed
<1> HIDE DEF row
<1>11. /\ agr' \in [Agreements -> AgreementRow] /\ agr'[g] = row
       /\ \A h \in Agreements : h # g => agr'[h] = agr[h]
  <2>1. agr \in [Agreements -> AgreementRow]
    BY Zenon, <1>i DEF TypeOK
  <2> QED
    BY Zenon, <1>1, <1>2, <1>10, <2>1
<1>12. /\ heads' \in [Agreements -> [Lineages -> Evidence]] /\ heads'[g] = HeadsOf(j)
       /\ \A h \in Agreements : h # g => heads'[h] = heads[h]
  <2>1. heads \in [Agreements -> [Lineages -> Evidence]]
    BY Zenon, <1>i DEF TypeOK
  <2> QED
    BY Zenon, <1>1, <1>2, <1>3, <2>1
<1>13. jobs' \subseteq JobRow /\ JobsFit' /\ due' = {deadline}
  BY Zenon, <1>1, <1>8, ApplyJobs
<1>14. deadline \in DueRow /\ deadline.g = g /\ deadline.at = ThroughOf(j)
  BY Zenon, <1>2, <1>4 DEF DueRow
<1> HIDE DEF deadline
<1>15. TypeOK'
  <2>1. due' \subseteq DueRow /\ release' \in BOOLEAN
    BY Zenon, <1>1, <1>13, <1>14
  <2> QED
    BY Zenon, <1>1, <1>6, <1>7, <1>8, <1>9, <1>11, <1>12, <1>13, <1>i, <2>1 DEF TypeOK
<1>16. DueFits'
  BY Zenon, <1>2, <1>4, <1>8, <1>9, <1>10, <1>11, <1>13, <1>14 DEF DueFits
<1>17. Placed'
  BY Zenon, <1>2, <1>4, <1>8, <1>9, <1>10, <1>11 DEF Placed
<1>18. agr'[g].ver >= agr[g].ver /\ agr'[g].ver <= truth[g].ver
  <2>1. agr[g].ver <= j.seen.ver /\ j.seen.ver <= truth[g].ver /\ agr'[g].ver = j.seen.ver
    BY Zenon, <1>2, <1>10, <1>11 DEF Saw
  <2>2. agr[g].ver \in Nat /\ j.seen.ver \in Nat
    BY Zenon, <1>2, <1>i DEF TypeOK, TruthRow, AgreementRow
  <2> QED
    BY <2>1, <2>2
<1>19. Terms'
  <2> SUFFICES ASSUME NEW h \in Agreements
               PROVE  /\ agr'[h].ver <= truth[h].ver
                      /\ agr'[h].kind # "none" => truth[h].through > 0
                      /\ agr'[h].kind = "fixed_term" => Ended(h)'
                      /\ agr'[h].kind = "subscription" /\ agr'[h].through > 0 /\ ~agr'[h].renews => Ended(h)'
    BY Zenon, <1>1 DEF Terms
  <2>1. CASE h # g
    BY Zenon, <1>1, <1>11, <1>i, <2>1 DEF Terms, Ended
  <2>2. CASE h = g
    BY Zenon, <1>1, <1>2, <1>4, <1>10, <1>11, <1>18, <1>i, <2>2 DEF Terms, Ended
  <2> QED
    BY Zenon, <2>1, <2>2
<1>20. EvidenceReal'
  BY Zenon, <1>1, <1>3, <1>12, <1>i DEF EvidenceReal
<1>21. OneRefund'
  BY Zenon, <1>1, <1>6, <1>8, <1>i DEF OneRefund, Unsent
<1>22. RefundedNeverGrants' /\ BlockedNeverGrants'
  BY Zenon, <1>5, <1>7, <1>9, <1>12 DEF RefundedNeverGrants, BlockedNeverGrants
<1>23. NotExpiredEarly'
  BY Zenon, <1>1, <1>5, <1>9, <1>10, <1>11 DEF NotExpiredEarly
<1>24. CommercialInvariant'
  BY Zenon, <1>13, <1>15, <1>16, <1>17, <1>19, <1>20, <1>21, <1>22, <1>23 DEF CommercialInvariant
<1>25. ASSUME NEW h \in Agreements PROVE agr'[h].ver >= agr[h].ver
  <2>1. agr[h].ver \in Nat
    BY Zenon, <1>i DEF TypeOK, AgreementRow
  <2>2. CASE h # g
    BY <1>11, <2>1, <2>2
  <2> QED
    BY Zenon, <1>18, <2>2
<1> QED
  BY Zenon, <1>24, <1>25

-----------------------------------------------------------------------------
(* The invariant, and what follows from it *)

\* Nothing has been bought.
LEMMA InitCommercial == Init => CommercialInvariant
<1> SUFFICES ASSUME Init PROVE CommercialInvariant
  OBVIOUS
<1>1. /\ now = 0 /\ faults = 0 /\ release = FALSE /\ events = {} /\ jobs = {} /\ due = {} /\ slot = Vacant
      /\ truth = [g \in Agreements |-> NoTruth] /\ agr = [g \in Agreements |-> NoAgreement]
      /\ heads = [g \in Agreements |-> [l \in Lineages |-> "none"]] /\ cancel = [g \in Agreements |-> "none"]
      /\ auth = [by |-> Nobody, state |-> "none", grants |-> FALSE, until |-> 0]
      /\ first = [by |-> Nobody, state |-> "none"] /\ refund = [by |-> Nobody, state |-> "none"]
  BY Zenon DEF Init
<1>2. /\ NoTruth.through = 0 /\ NoTruth.ver = 0 /\ NoTruth.refund = [l \in Lineages |-> "none"]
      /\ NoAgreement.kind = "none" /\ NoAgreement.ver = 0
  BY Zenon DEF NoTruth, NoAgreement
<1>3. NoAgreement \in AgreementRow
  BY DEF NoAgreement, AgreementRow
<1>4. slot \in SlotRow /\ slot.holder = Nobody /\ slot.op = "none" /\ slot.eligible = FALSE
  BY <1>1 DEF Vacant, SlotRow, Holders, Operations
<1>5. auth \in RightRow /\ auth.by = Nobody /\ auth.state = "none" /\ auth.grants = FALSE
  BY <1>1 DEF RightRow, Holders, RightStates
<1>6. /\ first \in [by : Holders, state : {"none", "available", "claimed", "reversed"}]
      /\ refund \in [by : Holders, state : {"none", "termination_pending", "refund_pending", "refunded"}]
      /\ cancel \in [Agreements -> {"none", "requested", "scheduled"}]
  BY <1>1 DEF Holders
<1>7. heads \in [Agreements -> [Lineages -> Evidence]] /\ \A g \in Agreements, l \in Lineages : heads[g][l] = "none"
  <2>1. "none" \in Evidence
    BY DEF Evidence
  <2> QED
    BY Zenon, <1>1, <2>1
<1>8. /\ truth \in [Agreements -> TruthRow] /\ \A g \in Agreements : truth[g] = NoTruth
      /\ agr \in [Agreements -> AgreementRow] /\ \A g \in Agreements : agr[g] = NoAgreement
  BY Zenon, <1>1, <1>3, NoTruthRow
<1>9. now \in 0 .. MaxTime /\ faults \in 0 .. MaxFaults
  BY <1>1, AuthorityAssumption
<1>10. TypeOK
  BY Zenon, <1>1, <1>4, <1>5, <1>6, <1>7, <1>8, <1>9 DEF TypeOK
<1>11. auth.state # "expired" /\ slot.op \in {"none", "cancel"} /\ slot.op \notin {"terminate", "refund"}
  BY <1>4, <1>5
<1>12. Placed /\ JobsFit /\ DueFits
  BY Zenon, <1>1, <1>4, <1>5, <1>11 DEF Placed, JobsFit, DueFits
<1>13. Terms
  <2> SUFFICES ASSUME NEW g \in Agreements
               PROVE  agr[g].ver <= truth[g].ver /\ agr[g].kind = "none"
    <3>1. "none" # "fixed_term" /\ "none" # "subscription"
      OBVIOUS
    <3> QED
      BY Zenon, <3>1 DEF Terms
  <2>1. agr[g].ver = 0 /\ truth[g].ver = 0 /\ agr[g].kind = "none"
    BY Zenon, <1>2, <1>8
  <2> QED
    BY <2>1
<1>14. EvidenceReal
  BY <1>7 DEF EvidenceReal
<1>15. OneRefund
  <2>1. ASSUME NEW g \in Agreements PROVE truth[g].refund[OwnRefund] = "none"
    <3>1. truth[g].refund = [l \in Lineages |-> "none"]
      BY Zenon, <1>2, <1>8
    <3> QED
      BY Zenon, <3>1, AuthorityAssumption
  <2> QED
    BY Zenon, <1>11, <2>1 DEF OneRefund, Unsent
<1>16. RefundedNeverGrants /\ BlockedNeverGrants /\ NotExpiredEarly
  BY Zenon, <1>5, <1>11 DEF RefundedNeverGrants, BlockedNeverGrants, NotExpiredEarly
<1> QED
  BY Zenon, <1>10, <1>12, <1>13, <1>14, <1>15, <1>16 DEF CommercialInvariant

\* Nothing that the invariant speaks of moves.
LEMMA StutterCommercial ==
  ASSUME CommercialInvariant, UNCHANGED vars
  PROVE  CommercialInvariant'
<1>1. /\ UNCHANGED <<now, truth, events, agr, jobs, auth, heads>>
      /\ UNCHANGED <<first, refund, cancel, slot, due, release, faults>>
  BY Zenon DEF vars
<1>2. TypeOK' /\ DueFits' /\ OneRefund'
  BY Zenon, <1>1 DEF CommercialInvariant, TypeOK, DueFits, OneRefund, Unsent
<1>3. JobsFit'
  BY Zenon, <1>1 DEF CommercialInvariant, JobsFit, Planned, Saw, JobCurrent
<1>4. Placed' /\ Terms' /\ EvidenceReal'
  BY Zenon, <1>1 DEF CommercialInvariant, Placed, Terms, Ended, EvidenceReal
<1>5. RefundedNeverGrants' /\ BlockedNeverGrants' /\ NotExpiredEarly'
  BY Zenon, <1>1 DEF CommercialInvariant, RefundedNeverGrants, BlockedNeverGrants, NotExpiredEarly
<1> QED
  BY Zenon, <1>2, <1>3, <1>4, <1>5 DEF CommercialInvariant

\* Every step keeps the invariant.
LEMMA NextKeepsCommercial ==
  ASSUME CommercialInvariant, [Next]_vars
  PROVE  CommercialInvariant'
<1>1. CASE \/ Tick
           \/ \E g \in Agreements :
                 \/ Renew(g) \/ Suspend(g)
                 \/ \E l \in Lineages : \/ OpenReversal(g, l)
                                        \/ \E o \in {"settled", "failed"} : ResolveReversal(g, l, o)
  BY Zenon, <1>1, WorldStep
<1>2. CASE \E g \in Agreements : \E k \in Kinds : HandOff(g, k)
  BY Zenon, <1>2, HandOffStep
<1>3. CASE \E g \in Agreements : RequestCancellation(g) \/ RequestRefund(g)
  BY Zenon, <1>3, CancellationStep, RefundStep
<1>4. CASE Receive
  BY Zenon, <1>4, ReceiptStep DEF Receive
<1>5. CASE \E j \in jobs : LeaseReconciliation(j) \/ ReadProvider(j) \/ LeaseExpires(j) \/ FailBoundWork(j)
  BY Zenon, <1>5, WorkerStep
<1>6. CASE \E j \in jobs : Apply(j)
  BY Zenon, <1>6, ApplyStep
<1>7. CASE \E j \in jobs : Redrive(j)
  BY Zenon, <1>7, RedriveStep
<1>8. CASE Confirm
  BY Zenon, <1>8, CancellationConfirmedStep, TerminationConfirmedStep, RefundConfirmedStep DEF Confirm
<1>9. CASE \E d \in due : ApplyDue(d)
  BY Zenon, <1>9, DueStep
<1>10. CASE ReleaseSlot
  BY Zenon, <1>10, ReleaseStep
<1>11. CASE UNCHANGED vars
  BY Zenon, <1>11, StutterCommercial
<1> QED
  BY Zenon, <1>1, <1>2, <1>3, <1>4, <1>5, <1>6, <1>7, <1>8, <1>9, <1>10, <1>11 DEF Next, Reconcile

(* What a worker has read is a lower bound of the provider's state until a   *)
(* newer observation is applied, and only a job about the agreement in the   *)
(* slot can be applied: the invariant behind the theorems below.             *)
THEOREM CommercialInvariantHolds == Spec => []CommercialInvariant
BY InitCommercial, NextKeepsCommercial, PTL DEF Spec

\* TypeOK holds in every state.
THEOREM TypeCorrect == Spec => []TypeOK
<1>1. CommercialInvariant => TypeOK
  BY Zenon DEF CommercialInvariant
<1> QED
  BY <1>1, CommercialInvariantHolds, PTL

(* An accepted refund is an irreversible fence: whichever worker applies     *)
(* whatever it read, the agreement does not grant access again.              *)
THEOREM RefundedNeverGrantsHolds == Spec => []RefundedNeverGrants
<1>1. CommercialInvariant => RefundedNeverGrants
  BY Zenon DEF CommercialInvariant
<1> QED
  BY <1>1, CommercialInvariantHolds, PTL

(* While one lineage of refund evidence blocks or is settled, no receipt     *)
(* about another one makes the agreement grant access.                       *)
THEOREM BlockedNeverGrantsHolds == Spec => []BlockedNeverGrants
<1>1. CommercialInvariant => BlockedNeverGrants
  BY Zenon DEF CommercialInvariant
<1> QED
  BY <1>1, CommercialInvariantHolds, PTL

(* A block is lifted only by a refund that did fail at the provider.         *)
THEOREM FailedIsRealHolds == Spec => []FailedIsReal
<1>1. CommercialInvariant => FailedIsReal
  BY Zenon DEF CommercialInvariant, EvidenceReal, FailedIsReal
<1> QED
  BY <1>1, CommercialInvariantHolds, PTL

(* An older deadline that runs late does not end a right whose agreement has *)
(* been paid for longer.                                                     *)
THEOREM NotExpiredEarlyHolds == Spec => []NotExpiredEarly
<1>1. CommercialInvariant => NotExpiredEarly
  BY Zenon DEF CommercialInvariant
<1> QED
  BY <1>1, CommercialInvariantHolds, PTL

\* Which steps write an agreement, and which ones give the slot to somebody else.
LEMMA StepEffects ==
  ASSUME CommercialInvariant, [Next]_vars
  PROVE  /\ UNCHANGED agr \/ (\E g \in Agreements, k \in Kinds : HandOff(g, k)) \/ (\E j \in jobs : Apply(j))
         /\ slot'.holder = slot.holder \/ slot.holder = Nobody \/ Releasable(slot.holder)
<1>i. slot \in SlotRow /\ JobsFit
  BY Zenon DEF CommercialInvariant, TypeOK
<1>1. CASE \/ Tick
           \/ \E g \in Agreements :
                 \/ Renew(g) \/ Suspend(g)
                 \/ \E l \in Lineages : \/ OpenReversal(g, l)
                                        \/ \E o \in {"settled", "failed"} : ResolveReversal(g, l, o)
  <2>1. UNCHANGED <<agr, slot>>
    BY Zenon, <1>1 DEF Tick, Renew, Suspend, OpenReversal, ResolveReversal, ProviderActs
  <2> QED
    BY Zenon, <2>1
<1>2. CASE \E g \in Agreements : \E k \in Kinds : HandOff(g, k)
  BY Zenon, <1>2 DEF HandOff
<1>3. CASE \E g \in Agreements : RequestCancellation(g) \/ RequestRefund(g)
  <2>1. UNCHANGED agr /\ \E o, moved : TakeSlot(o, moved)
    BY Zenon, <1>3 DEF RequestCancellation, RequestRefund
  <2>2. \E o : slot' = Taken(slot, o)
    BY Zenon, <2>1 DEF TakeSlot, Taken
  <2> QED
    BY Zenon, <1>i, <2>1, <2>2 DEF Taken, SlotRow
<1>4. CASE Receive \/ \E j \in jobs : LeaseReconciliation(j) \/ ReadProvider(j) \/ LeaseExpires(j)
                                      \/ FailBoundWork(j) \/ Redrive(j)
  <2>1. UNCHANGED <<agr, slot>>
    BY Zenon, <1>4 DEF Receive, BindReceipt, LeaseReconciliation, ReadProvider, LeaseExpires, FailBoundWork,
                       Faulty, Redrive
  <2> QED
    BY Zenon, <2>1
<1>5. CASE \E j \in jobs : Apply(j)
  <2>1. PICK j \in jobs : Apply(j)
    BY Zenon, <1>5
  <2>2. slot' = WithEligible(slot, slot.eligible \/ OverOf(j))
    BY Zenon, <2>1, ApplyParts
  <2>3. (slot.eligible \/ OverOf(j)) \in BOOLEAN
    BY Zenon
  <2>4. slot'.holder = slot.holder
    BY Zenon, <1>i, <2>2, <2>3, EligibleEdit
  <2> QED
    BY Zenon, <1>5, <2>4
<1>6. CASE Confirm
  <2>1. PICK g \in Agreements : CancellationConfirmed(g) \/ TerminationConfirmed(g) \/ RefundConfirmed(g)
    BY Zenon, <1>6 DEF Confirm
  <2>2. UNCHANGED agr
    BY Zenon, <2>1 DEF CancellationConfirmed, TerminationConfirmed, RefundConfirmed
  <2>3. CASE CancellationConfirmed(g) \/ RefundConfirmed(g)
    <3>1. slot' = WithOperation(slot, "none")
      BY Zenon, <2>3 DEF CancellationConfirmed, RefundConfirmed, WithOperation
    <3> QED
      BY Zenon, <1>i, <2>2, <3>1, SomethingMoved, SlotEdits
  <2>4. CASE TerminationConfirmed(g)
    <3>1. slot' = Taken(slot, "refund")
      BY Zenon, <2>4 DEF TerminationConfirmed, TakeSlot, Taken
    <3> QED
      BY Zenon, <1>i, <2>2, <3>1, SomethingMoved, SlotEdits
  <2> QED
    BY Zenon, <2>1, <2>3, <2>4
<1>7. CASE \E d \in due : ApplyDue(d)
  <2>1. PICK d \in due : ApplyDue(d)
    BY Zenon, <1>7
  <2> DEFINE b == slot.eligible \/ agr[d.g].kind = "fixed_term" \/ (~agr[d.g].renews /\ agr[d.g].through <= now)
  <2>2. UNCHANGED agr /\ slot' = WithEligible(slot, b)
    BY Zenon, <2>1 DEF ApplyDue, WithEligible
  <2>3. b \in BOOLEAN
    BY Zenon
  <2> HIDE DEF b
  <2> QED
    BY Zenon, <1>i, <2>2, <2>3, EligibleEdit
<1>8. CASE ReleaseSlot
  BY Zenon, <1>8 DEF ReleaseSlot
<1>9. CASE UNCHANGED vars
  <2>1. UNCHANGED <<agr, slot>>
    BY Zenon, <1>9 DEF vars
  <2> QED
    BY Zenon, <2>1
<1> QED
  BY Zenon, <1>1, <1>2, <1>3, <1>4, <1>5, <1>6, <1>7, <1>8, <1>9 DEF Next, Reconcile

(* Workers that complete in another order than they read do not take an      *)
(* agreement back to an older state of the provider.                         *)
THEOREM ObservationsInOrderHolds == Spec => ObservationsInOrder
<1>1. ASSUME CommercialInvariant, [Next]_vars
      PROVE  [\A g \in Agreements : agr'[g].ver >= agr[g].ver]_agr
  <2>1. ASSUME NEW h \in Agreements, NEW k \in Kinds, HandOff(h, k), NEW g \in Agreements
        PROVE  agr'[g].ver >= agr[g].ver
    <3>1. agr \in [Agreements -> AgreementRow]
      BY Zenon, <1>1 DEF CommercialInvariant, TypeOK
    <3>2. PICK t : agr' = [agr EXCEPT ![h] = Acquired(agr[h], k, t)]
      BY Zenon, <2>1 DEF HandOff, Acquired
    <3>3. Acquired(agr[h], k, t).ver = agr[h].ver
      BY Zenon, <3>1 DEF Acquired, AgreementRow
    <3>4. agr'[g].ver = agr[g].ver
      BY Zenon, <3>1, <3>2, <3>3
    <3>5. agr[g].ver \in Nat
      BY Zenon, <3>1 DEF AgreementRow
    <3> QED
      BY <3>4, <3>5
  <2> QED
    BY Zenon, <1>1, <2>1, StepEffects, ApplyStep
<1> QED
  BY <1>1, CommercialInvariantHolds, PTL DEF Spec, ObservationsInOrder

(* The slot is given up only when the provider itself no longer owes the     *)
(* account a running term, or has returned its price.                        *)
THEOREM PaidTermKeepsSlotHolds == Spec => PaidTermKeepsSlot
<1>1. ASSUME CommercialInvariant, NEW g \in Agreements, slot.holder = g, Releasable(g)
      PROVE  truth[g].through <= now \/ \E l \in Lineages : truth[g].refund[l] = "settled"
  <2>i. TypeOK /\ Placed /\ Terms /\ EvidenceReal
    BY Zenon, <1>1 DEF CommercialInvariant
  <2>1. /\ agr[g].kind # "none" /\ agr[g].through > 0
        /\ Over(g, agr[g].renews, heads[g], agr[g].through)
    BY Zenon, <1>1, <2>i, AuthorityAssumption DEF Placed, Releasable
  <2>2. agr[g].kind \in Kinds \cup {"none"} /\ agr[g].through \in Nat
    BY Zenon, <2>i DEF TypeOK, AgreementRow
  <2>3. truth[g].through \in Nat /\ now \in Nat
    <3>1. truth[g] \in TruthRow
      BY Zenon, <2>i DEF TypeOK
    <3>2. now \in Nat
      BY <2>i, AuthorityAssumption DEF TypeOK
    <3> QED
      BY Zenon, <3>1, <3>2 DEF TruthRow
  <2>4. ASSUME Ended(g), agr[g].through <= now PROVE truth[g].through <= now
    BY <2>2, <2>3, <2>4 DEF Ended
  <2>5. CASE agr[g].kind = "fixed_term"
    <3>1. CASE agr[g].through <= now
      BY Zenon, <2>4, <2>5, <2>i, <3>1 DEF Terms
    <3>2. CASE \E l \in Lineages : heads[g][l] = "settled"
      BY Zenon, <2>i, <3>2 DEF EvidenceReal
    <3> QED
      BY Zenon, <2>1, <2>5, <3>1, <3>2 DEF Over
  <2>6. CASE agr[g].kind # "fixed_term"
    <3>1. agr[g].kind = "subscription"
      BY Zenon, <2>1, <2>2, <2>6, AuthorityAssumption
    <3>2. ~agr[g].renews /\ agr[g].through <= now
      BY Zenon, <2>1, <2>6 DEF Over
    <3> QED
      BY Zenon, <2>1, <2>4, <2>i, <3>1, <3>2 DEF Terms
  <2> QED
    BY Zenon, <2>5, <2>6
<1>2. ASSUME CommercialInvariant, [Next]_vars
      PROVE  [\A g \in Agreements : slot.holder = g /\ slot'.holder # g =>
                 truth[g].through <= now \/ \E l \in Lineages : truth[g].refund[l] = "settled"]_slot
  BY Zenon, <1>1, <1>2, StepEffects, AuthorityAssumption
<1> QED
  BY <1>2, CommercialInvariantHolds, PTL DEF Spec, PaidTermKeepsSlot
=============================================================================
