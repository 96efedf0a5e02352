------------------------ MODULE RefreshRotationProofs ------------------------
(***************************************************************************)
(* Proofs about RefreshRotation for any number of sign-ins, requests,      *)
(* faults and concurrent calls, and any lifetimes.                         *)
(***************************************************************************)
EXTENDS RefreshRotation, SequenceTheorems, TLAPS

\* A token that Cloud issued.
Issued(t) == /\ t.family \in DOMAIN families
             /\ t.generation <= Generation(t.family)

ChainsBegun == \A f \in DOMAIN families : Len(families[f].chain) >= 1

\* A call in progress presents an issued token under a request; if that token
\* was rotated, this request did it, and the call knows the next generation.
CallsPresent ==
    \A s \in Slots : LET c == calls[s] IN c.pc # "free" =>
        /\ Issued(c.token)
        /\ c.request # NoRequest
        /\ Rotated(c.token) => RotatedBy(c.token) = c.request
        /\ c.pc \in {"prepared", "leased"} => c.generation = c.token.generation
        /\ (c.pc = "replay" \/ (c.pc = "answered" /\ c.result = "tokens")) =>
              Rotated(c.token) /\ c.generation = c.token.generation + 1

\* Nothing younger than the stored token was presented, and the stored token
\* only under the stored request; one token never comes with two requests.
CallsAgree ==
    \A s \in Slots : LET c == calls[s] IN c.pc # "free" =>
        /\ c.token.family = keychain.token.family =>
              c.token.generation <= keychain.token.generation
        /\ c.token = keychain.token => c.request = keychain.request
        /\ desktop.pc = "issued" => c.token.family # desktop.issued.family
        /\ \A r \in Slots : calls[r].pc # "free" /\ calls[r].token = c.token
              => calls[r].request = c.request

\* The stored token was issued and rotated at most once since, by the stored
\* request.
CustodyInStep ==
    LET t == keychain.token
    IN t # NoToken =>
          /\ t.family \in DOMAIN families
          /\ \/ Generation(t.family) = t.generation
             \/ /\ Generation(t.family) = t.generation + 1
                /\ keychain.request = RotatedBy(t)
                /\ keychain.request # NoRequest

\* What the Desktop is about to do fits what it has stored.
SessionInStep ==
    /\ desktop.pc \in {"stored", "waiting", "received"} =>
          keychain.token # NoToken /\ keychain.request # NoRequest
    /\ desktop.pc = "waiting" =>
          /\ desktop.slot \in Slots
          /\ calls[desktop.slot].pc # "free"
          /\ calls[desktop.slot].token = keychain.token
          /\ calls[desktop.slot].request = keychain.request
    /\ desktop.pc = "received" =>
          /\ desktop.issued = Token(keychain.token.family,
                                    keychain.token.generation + 1)
          /\ Generation(keychain.token.family) = keychain.token.generation + 1
    /\ desktop.pc = "issued" =>
          /\ desktop.issued.family \in DOMAIN families
          /\ desktop.issued.generation = 0
          /\ Generation(desktop.issued.family) = 0
          /\ keychain.token.family # desktop.issued.family

\* Access tokens in use belong to the stored refresh token.
AccessHeld ==
    /\ desktop.access # NoToken =>
          /\ keychain.token.family = desktop.access.family
          /\ keychain.token.generation >= desktop.access.generation
    /\ desktop.pc = "granting" =>
          /\ keychain.token.family = desktop.issued.family
          /\ keychain.token.generation >= desktop.issued.generation

InStep == /\ ChainsBegun /\ CallsPresent /\ CallsAgree
          /\ CustodyInStep /\ SessionInStep /\ AccessHeld
          /\ NoFalseReuse /\ ActiveFamilyIsCurrent

RotationInvariant == TypeOK /\ InStep

-----------------------------------------------------------------------------
\* A token is its family and its generation; there is no family 0.
LEMMA TokenFacts ==
  /\ NoToken \in Tokens /\ NoToken.family = 0
  /\ \A t \in Tokens : /\ t.family \in Nat /\ t.generation \in Nat
                        /\ t # NoToken => t.family # 0
  /\ \A t, u \in Tokens : t.family = u.family /\ t.generation = u.generation => t = u
  /\ \A f \in Nat \ {0}, g \in Nat : /\ Token(f, g) \in Tokens
                                     /\ Token(f, g).family = f
                                     /\ Token(f, g).generation = g
                                     /\ Token(f, g) # NoToken
BY DEF NoToken, Tokens, Token

\* Nothing but its family and its generation is in a token.
LEMMA TokenIs ==
  ASSUME NEW u \in Tokens, u.family \in Nat \ {0}
  PROVE  u = Token(u.family, u.generation)
<1>1. u.generation \in Nat
  BY DEF Tokens, NoToken
<1>2. /\ Token(u.family, u.generation) \in Tokens
      /\ Token(u.family, u.generation).family = u.family
      /\ Token(u.family, u.generation).generation = u.generation
  BY Zenon, <1>1, TokenFacts
<1> QED
  BY Zenon, <1>2, TokenFacts

\* The numbers of a token.
LEMMA TokenNumbers ==
  ASSUME NEW k \in Tokens
  PROVE  k.family \in Nat /\ k.generation \in Nat
BY DEF Tokens, NoToken

\* What every family and every token in the state looks like.
LEMMA Shapes ==
  ASSUME TypeOK, ChainsBegun
  PROVE  /\ DOMAIN families = 1 .. Len(families) /\ Len(families) \in Nat
         /\ \A f \in DOMAIN families :
              /\ f \in Nat \ {0} /\ families[f] \in FamilyRows
              /\ families[f].chain \in Seq(CredentialRows)
              /\ Generation(f) \in Nat
              /\ Len(families[f].chain) = Generation(f) + 1
         /\ \A s \in Slots : calls[s] \in CallRows /\ calls[s].token \in Tokens
                           /\ calls[s].generation \in Nat
         /\ keychain.token \in Tokens /\ keychain.request \in Nat
         /\ desktop.access \in Tokens /\ desktop.issued \in Tokens
         /\ NoToken.family \notin DOMAIN families
<1>1. DOMAIN families = 1 .. Len(families) /\ Len(families) \in Nat
  BY DEF TypeOK
<1>2. ASSUME NEW f \in DOMAIN families
      PROVE  /\ f \in Nat \ {0} /\ families[f] \in FamilyRows
             /\ families[f].chain \in Seq(CredentialRows)
             /\ Generation(f) \in Nat
             /\ Len(families[f].chain) = Generation(f) + 1
  <2>1. f \in Nat \ {0} /\ families[f] \in FamilyRows
    BY <1>1 DEF TypeOK
  <2>2. families[f].chain \in Seq(CredentialRows)
    BY <2>1 DEF FamilyRows
  <2>3. Len(families[f].chain) \in Nat /\ Len(families[f].chain) >= 1
    BY <2>2 DEF ChainsBegun
  <2> QED
    BY <2>1, <2>2, <2>3 DEF Generation
<1>3. \A s \in Slots : calls[s] \in CallRows /\ calls[s].token \in Tokens
                     /\ calls[s].generation \in Nat
  BY DEF TypeOK, CallRows
<1>4. keychain.token \in Tokens /\ keychain.request \in Nat
  BY DEF TypeOK, KeychainRows
<1>5. desktop.access \in Tokens /\ desktop.issued \in Tokens
  BY DEF TypeOK, SessionRows
<1>6. NoToken.family \notin DOMAIN families
  BY <1>1, TokenFacts
<1> QED
  BY <1>1, <1>2, <1>3, <1>4, <1>5, <1>6

\* A call that moves on or ends, while nothing else changes.
LEMMA CallStep ==
  ASSUME RotationInvariant, NEW s \in Slots, NEW row \in CallRows,
         calls[s].pc # "free",
         calls' = [calls EXCEPT ![s] = row],
         UNCHANGED <<epoch, families, keychain, desktop>>,
         row.pc = "free" => ~Awaited(s),
         row.pc # "free" =>
            /\ row.token = calls[s].token /\ row.request = calls[s].request
            /\ row.pc \in {"prepared", "leased"} => row.generation = row.token.generation
            /\ (row.pc = "replay" \/ (row.pc = "answered" /\ row.result = "tokens")) =>
                  Rotated(row.token) /\ row.generation = row.token.generation + 1
  PROVE  calls' \in [Slots -> CallRows] /\ InStep'
<1>1. /\ calls' \in [Slots -> CallRows] /\ calls'[s] = row
      /\ \A r \in Slots \ {s} : calls'[r] = calls[r]
  BY DEF RotationInvariant, TypeOK
<1>2. epoch' = epoch /\ families' = families /\ keychain' = keychain /\ desktop' = desktop
  OBVIOUS
<1>3. ChainsBegun' /\ NoFalseReuse' /\ ActiveFamilyIsCurrent'
  BY <1>2 DEF RotationInvariant, InStep, ChainsBegun, NoFalseReuse, ActiveFamilyIsCurrent
<1>4. CustodyInStep' /\ AccessHeld'
  BY <1>2 DEF RotationInvariant, InStep, CustodyInStep, AccessHeld, Generation, RotatedBy
<1>5. CallsPresent'
  <2> SUFFICES ASSUME NEW r \in Slots, calls'[r].pc # "free"
               PROVE  LET c == calls'[r] IN
                      /\ Issued(c.token)
                      /\ c.request # NoRequest
                      /\ Rotated(c.token) => RotatedBy(c.token) = c.request
                      /\ c.pc \in {"prepared", "leased"} => c.generation = c.token.generation
                      /\ (c.pc = "replay" \/ (c.pc = "answered" /\ c.result = "tokens")) =>
                            Rotated(c.token) /\ c.generation = c.token.generation + 1
    BY Zenon, <1>2 DEF CallsPresent, Issued, Rotated, RotatedBy, Generation
  <2>1. CASE r = s
    BY <1>1, <2>1 DEF RotationInvariant, InStep, CallsPresent
  <2>2. CASE r # s
    <3>1. calls'[r] = calls[r]
      BY <1>1, <2>2
    <3> QED
      BY <3>1 DEF RotationInvariant, InStep, CallsPresent
  <2> QED
    BY Zenon, <2>1, <2>2
<1>6. CallsAgree'
  <2>1. \A r \in Slots : calls'[r].pc # "free" =>
          /\ calls[r].pc # "free" /\ calls'[r].token = calls[r].token
          /\ calls'[r].request = calls[r].request
    BY <1>1
  <2> QED
    BY <1>2, <2>1 DEF RotationInvariant, InStep, CallsAgree
<1>7. SessionInStep'
  <2>1. desktop.pc = "waiting" =>
          /\ calls'[desktop.slot].pc # "free"
          /\ calls'[desktop.slot].token = calls[desktop.slot].token
          /\ calls'[desktop.slot].request = calls[desktop.slot].request
    BY <1>1 DEF RotationInvariant, InStep, SessionInStep, Awaited
  <2> QED
    BY <1>2, <2>1 DEF RotationInvariant, InStep, SessionInStep, Generation
<1> QED
  BY <1>1, <1>3, <1>4, <1>5, <1>6, <1>7 DEF InStep

\* A slot without a call.
LEMMA FreeCallRow == FreeCall \in CallRows /\ FreeCall.pc = "free"
BY TokenFacts DEF FreeCall, CallRows, NoRequest

\* An answer, to a Desktop that waits for it or to nobody.
LEMMA AnswerStep ==
  ASSUME RotationInvariant, NEW s \in Slots, calls[s].pc # "free",
         NEW result \in {"tokens", "invalid_grant", "unavailable"}, NEW g \in Nat,
         Answer(s, result, g), UNCHANGED <<epoch, families, keychain, desktop>>,
         result = "tokens" => Rotated(calls[s].token) /\ g = calls[s].token.generation + 1
  PROVE  calls' \in [Slots -> CallRows] /\ InStep'
<1> DEFINE told == [calls[s] EXCEPT !.pc = "answered", !.result = result, !.generation = g]
<1>1. calls[s] \in CallRows /\ calls \in [Slots -> CallRows]
  BY DEF RotationInvariant, TypeOK
<1>2. /\ told \in CallRows /\ told.pc = "answered" /\ told.token = calls[s].token
      /\ told.request = calls[s].request /\ told.result = result /\ told.generation = g
  BY Zenon, <1>1 DEF CallRows
<1>3. calls' = [calls EXCEPT ![s] = IF Awaited(s) THEN told ELSE FreeCall]
  BY <1>1 DEF Answer
<1> HIDE DEF told
<1>4. CASE Awaited(s)
  BY Zenon, <1>2, <1>3, <1>4, CallStep
<1>5. CASE ~Awaited(s)
  BY Zenon, <1>3, <1>5, FreeCallRow, CallStep
<1> QED
  BY <1>4, <1>5

\* A call goes on to its next transaction.
LEMMA AdvanceStep ==
  ASSUME RotationInvariant, NEW s \in Slots, calls[s].pc # "free",
         NEW pc \in {"prepared", "leased", "replay"}, NEW g \in Nat,
         Advance(s, pc, g), UNCHANGED <<epoch, families, keychain, desktop>>,
         pc \in {"prepared", "leased"} => g = calls[s].token.generation,
         pc = "replay" => Rotated(calls[s].token) /\ g = calls[s].token.generation + 1
  PROVE  calls' \in [Slots -> CallRows] /\ InStep'
<1> DEFINE next == [calls[s] EXCEPT !.pc = pc, !.generation = g]
<1>1. calls[s] \in CallRows /\ calls \in [Slots -> CallRows]
  BY DEF RotationInvariant, TypeOK
<1>2. /\ next \in CallRows /\ next.pc = pc /\ next.token = calls[s].token
      /\ next.request = calls[s].request /\ next.generation = g
  BY Zenon, <1>1 DEF CallRows
<1>3. calls' = [calls EXCEPT ![s] = next]
  BY Zenon, <1>1, <1>2 DEF Advance, CallRows
<1> HIDE DEF next
<1> QED
  BY Zenon, <1>2, <1>3, CallStep

\* One family's row is replaced.
LEMMA FamilyChanged ==
  ASSUME families \in Seq(FamilyRows), NEW f \in DOMAIN families, NEW row \in FamilyRows,
         families' = [families EXCEPT ![f] = row]
  PROVE  /\ families' \in Seq(FamilyRows) /\ DOMAIN families' = DOMAIN families
         /\ families'[f] = row
         /\ \A e \in DOMAIN families \ {f} : families'[e] = families[e]
<1>1. f \in 1 .. Len(families) /\ DOMAIN families = 1 .. Len(families)
  OBVIOUS
<1>2. [families EXCEPT ![f] = row] \in Seq(FamilyRows)
  BY <1>1, ExceptSeq
<1> QED
  BY <1>1, <1>2

\* One more generation.
LEMMA Grown ==
  ASSUME NEW chain \in Seq(CredentialRows), NEW new \in CredentialRows, NEW g \in Nat,
         Len(chain) = g + 1
  PROVE  /\ Append(chain, new) \in Seq(CredentialRows)
         /\ Len(Append(chain, new)) = g + 2
         /\ \A i \in 1 .. g + 1 : Append(chain, new)[i] = chain[i]
         /\ Append(chain, new)[g + 2] = new
<1> DEFINE grown == Append(chain, new)
<1>1. /\ grown \in Seq(CredentialRows)
      /\ Len(grown) = Len(chain) + 1
      /\ \A i \in 1 .. Len(chain) : grown[i] = chain[i]
      /\ grown[Len(chain) + 1] = new
  BY AppendProperties
<1> HIDE DEF grown
<1>2. Len(grown) = g + 2 /\ Len(chain) + 1 = g + 2
  BY <1>1
<1>3. /\ grown \in Seq(CredentialRows) /\ Len(grown) = g + 2
      /\ \A i \in 1 .. g + 1 : grown[i] = chain[i]
      /\ grown[g + 2] = new
  BY <1>1, <1>2
<1> QED
  BY <1>3 DEF grown

\* The rotation itself: the only token of the family that can still be
\* current is the presented one, and the Desktop holds it under this request.
LEMMA RotateStep ==
  ASSUME RotationInvariant, NEW s \in Slots, NEW c, c = calls[s], c.pc = "leased",
         Generation(c.token.family) = c.generation,
         Rotate(c), Answer(s, "tokens", c.generation + 1),
         UNCHANGED <<epoch, keychain, desktop>>
  PROVE  families' \in Seq(FamilyRows) /\ calls' \in [Slots -> CallRows] /\ InStep'
<1> DEFINE t == c.token
           f == t.family
           g == t.generation
           new == [request |-> c.request, at |-> c.at]
           chain == Append(families[f].chain, new)
           grown == [families[f] EXCEPT !.chain = chain]
<1>i. TypeOK /\ ChainsBegun /\ InStep
  BY DEF RotationInvariant, InStep
<1>1. /\ c \in CallRows /\ t \in Tokens /\ f \in DOMAIN families /\ c.request # NoRequest
      /\ g \in Nat /\ Generation(f) = g /\ c.generation = g /\ t = Token(f, g)
  <2>1. c \in CallRows /\ t \in Tokens
    BY Zenon, <1>i, Shapes
  <2>2. c.pc # "free" /\ c.pc \in {"prepared", "leased"}
    OBVIOUS
  <2>3. f \in DOMAIN families /\ c.request # NoRequest /\ c.generation = g
    BY Zenon, <1>i, <2>2 DEF InStep, CallsPresent, Issued
  <2>4. f \in Nat \ {0} /\ Generation(f) = g
    BY Zenon, <1>i, <2>3, Shapes
  <2>5. g \in Nat
    BY Zenon, <1>i, <2>3, Shapes
  <2>6. t = Token(f, g)
    BY Zenon, <2>1, <2>4, TokenIs
  <2> QED
    BY Zenon, <2>1, <2>3, <2>4, <2>5, <2>6
<1>2. /\ families \in Seq(FamilyRows) /\ families[f] \in FamilyRows
      /\ families[f].chain \in Seq(CredentialRows) /\ Len(families[f].chain) = g + 1
      /\ new \in CredentialRows /\ new.request = c.request
  BY Zenon, <1>1, <1>i, Shapes DEF TypeOK, CallRows, CredentialRows
<1> HIDE DEF new
<1>3. /\ chain \in Seq(CredentialRows) /\ Len(chain) = g + 2
      /\ \A i \in 1 .. g + 1 : chain[i] = families[f].chain[i]
      /\ chain[g + 2] = new
  BY Zenon, <1>1, <1>2, Grown
<1>d. Rotate(c) => families' = [families EXCEPT ![f] = grown]
  BY <1>2 DEF Rotate, new
<1> HIDE DEF chain
<1>4. /\ grown \in FamilyRows /\ grown.chain = chain
      /\ grown.epoch = families[f].epoch /\ grown.revoked = families[f].revoked
      /\ grown.reuse = families[f].reuse
  BY Zenon, <1>2, <1>3 DEF FamilyRows
<1> HIDE DEF grown
<1>6. /\ families' \in Seq(FamilyRows) /\ DOMAIN families' = DOMAIN families
      /\ families'[f] = grown
      /\ \A e \in DOMAIN families \ {f} : families'[e] = families[e]
  BY <1>1, <1>2, <1>4, <1>d, FamilyChanged
\* How generations and rotations look afterwards.
<1>7. /\ Generation(f)' = g + 1 /\ Generation(f) = g
      /\ families'[f].chain[g + 2].request = c.request
      /\ \A i \in 1 .. g + 1 : families'[f].chain[i] = families[f].chain[i]
      /\ \A e \in DOMAIN families \ {f} : Generation(e)' = Generation(e)
  <2>1. families'[f].chain = chain /\ g + 2 - 1 = g + 1
    BY <1>1, <1>4, <1>6
  <2>2. Generation(f)' = g + 1
    BY SMTT(30), <1>1, <1>3, <2>1 DEF Generation
  <2>3. families'[f].chain[g + 2].request = c.request
    BY <1>2, <1>3, <2>1
  <2>4. \A i \in 1 .. g + 1 : families'[f].chain[i] = families[f].chain[i]
    BY <1>3, <2>1
  <2>5. \A e \in DOMAIN families \ {f} : Generation(e)' = Generation(e)
    BY <1>6 DEF Generation
  <2> QED
    BY Zenon, <1>1, <2>2, <2>3, <2>4, <2>5
<1>t. /\ \A u \in Tokens : u.family \in DOMAIN families /\ u.family # f =>
            /\ (Issued(u)' <=> Issued(u)) /\ (Rotated(u)' <=> Rotated(u))
            /\ RotatedBy(u)' = RotatedBy(u)
      /\ \A u \in Tokens : u.family = f /\ Issued(u) /\ u # t =>
            /\ Issued(u)' /\ Rotated(u) /\ Rotated(u)' /\ RotatedBy(u)' = RotatedBy(u)
      /\ Issued(t)' /\ Rotated(t)' /\ RotatedBy(t)' = c.request
  <2>1. ASSUME NEW u \in Tokens, u.family \in DOMAIN families, u.family # f
        PROVE  /\ (Issued(u)' <=> Issued(u)) /\ (Rotated(u)' <=> Rotated(u))
               /\ RotatedBy(u)' = RotatedBy(u)
    BY <1>6, <1>7, <2>1 DEF Issued, Rotated, RotatedBy
  <2>2. ASSUME NEW u \in Tokens, u.family = f, Issued(u), u # t
        PROVE  Issued(u)' /\ Rotated(u) /\ Rotated(u)' /\ RotatedBy(u)' = RotatedBy(u)
    <3>n. u.generation \in Nat
      BY TokenNumbers
    <3>a. families[u.family] = families[f] /\ families'[u.family] = families'[f]
      BY Zenon, <2>2
    <3>b. Generation(u.family) = g /\ Generation(u.family)' = g + 1
      BY Zenon, <1>7, <3>a DEF Generation
    <3>0. u.generation \in Nat /\ u.generation <= g
      BY <2>2, <3>n, <3>b DEF Issued
    <3>1. u.generation \in Nat /\ u.generation < g
      <4>1. u.generation # g
        BY <1>1, <2>2, TokenFacts
      <4> QED
        BY <1>1, <3>0, <4>1
    <3>2. u.generation + 2 \in 1 .. g + 1
      BY SMTT(30), <1>1, <3>1
    <3> QED
      <4>1. Issued(u)' /\ Rotated(u) /\ Rotated(u)'
        BY SMTT(30), <1>1, <1>6, <2>2, <3>1, <3>b DEF Issued, Rotated
      <4>2. RotatedBy(u)' = RotatedBy(u)
        BY Zenon, <1>7, <3>a, <3>2 DEF RotatedBy
      <4> QED
        BY <4>1, <4>2
  <2>3. Issued(t)' /\ Rotated(t)' /\ RotatedBy(t)' = c.request
    BY <1>1, <1>6, <1>7 DEF Issued, Rotated, RotatedBy
  <2> QED
    BY <2>1, <2>2, <2>3
<1> DEFINE told == [c EXCEPT !.pc = "answered", !.result = "tokens", !.generation = c.generation + 1]
<1>8. /\ told \in CallRows /\ told.pc = "answered" /\ told.token = t
      /\ told.request = c.request /\ told.generation = g + 1
  <2>1. c.generation + 1 \in Nat /\ c.generation = g
    BY <1>1
  <2> QED
    BY Zenon, <1>1, <2>1 DEF CallRows
<1>9. calls' = [calls EXCEPT ![s] = IF Awaited(s) THEN told ELSE FreeCall]
  BY DEF Answer
<1> HIDE DEF told
<1>10. /\ calls' \in [Slots -> CallRows]
       /\ calls'[s] = IF Awaited(s) THEN told ELSE FreeCall
       /\ \A r \in Slots \ {s} : calls'[r] = calls[r]
  BY <1>8, <1>9, <1>i, FreeCallRow DEF TypeOK
<1>11. \A r \in Slots : calls'[r].pc # "free" =>
          /\ calls[r].pc # "free" /\ calls'[r].token = calls[r].token
          /\ calls'[r].request = calls[r].request
  BY <1>8, <1>10, FreeCallRow
<1>12. keychain' = keychain /\ desktop' = desktop /\ epoch' = epoch
  OBVIOUS
<1>13. ChainsBegun' /\ NoFalseReuse' /\ ActiveFamilyIsCurrent'
  <2>1. ASSUME NEW e \in DOMAIN families
        PROVE  /\ Len(families'[e].chain) >= 1 /\ families'[e].epoch = families[e].epoch
               /\ families'[e].revoked = families[e].revoked
               /\ families'[e].reuse = families[e].reuse
    <3>1. CASE e = f
      <4>1. families'[e] = grown
        BY Zenon, <1>1, <1>6, <3>1
      <4>2. Len(chain) >= 1
        BY <1>1, <1>3
      <4> QED
        BY Zenon, <1>4, <3>1, <4>1, <4>2
    <3>2. CASE e # f
      BY <1>6, <1>i, <3>2 DEF ChainsBegun
    <3> QED
      BY Zenon, <3>1, <3>2
  <2> QED
    BY Zenon, <1>6, <1>12, <1>i, <2>1 DEF InStep, ChainsBegun, NoFalseReuse, ActiveFamilyIsCurrent
<1>14. CallsPresent'
  <2>1. ASSUME NEW r \in Slots, calls'[r].pc # "free", NEW d, d = calls'[r],
               NEW u, u = d.token
        PROVE  /\ Issued(u)' /\ d.request # NoRequest
               /\ Rotated(u)' => RotatedBy(u)' = d.request
               /\ d.pc \in {"prepared", "leased"} => d.generation = u.generation
               /\ (d.pc = "replay" \/ (d.pc = "answered" /\ d.result = "tokens")) =>
                     Rotated(u)' /\ d.generation = u.generation + 1
    <3>1. CASE r = s
      <4>1. d = told
        BY <1>10, <2>1, <3>1, FreeCallRow
      <4> QED
        BY <1>1, <1>8, <1>t, <2>1, <4>1
    <3>2. CASE r # s
      <4>1. d = calls[r] /\ d.pc # "free" /\ u \in Tokens
        BY Zenon, <1>10, <1>i, <2>1, <3>2, Shapes
      <4>2. /\ Issued(u) /\ d.request # NoRequest
            /\ Rotated(u) => RotatedBy(u) = d.request
            /\ d.pc \in {"prepared", "leased"} => d.generation = u.generation
            /\ (d.pc = "replay" \/ (d.pc = "answered" /\ d.result = "tokens")) =>
                  Rotated(u) /\ d.generation = u.generation + 1
        BY <1>i, <2>1, <4>1 DEF InStep, CallsPresent
      <4>3. u = t => d.request = c.request
        BY Zenon, <1>i, <2>1, <4>1 DEF InStep, CallsAgree
      <4>4. CASE u = t
        BY Zenon, <1>t, <4>2, <4>3, <4>4
      <4>5. CASE u # t /\ u.family = f
        BY Zenon, <1>t, <4>1, <4>2, <4>5
      <4>6. CASE u.family # f
        <5>1. u.family \in DOMAIN families
          BY Zenon, <4>2 DEF Issued
        <5> QED
          BY <1>t, <4>1, <4>2, <4>6, <5>1
      <4> QED
        BY Zenon, <4>4, <4>5, <4>6
    <3> QED
      BY Zenon, <3>1, <3>2
  <2> SUFFICES ASSUME NEW r \in Slots, calls'[r].pc # "free"
               PROVE  (LET d == calls[r] IN
                  /\ Issued(d.token)
                  /\ d.request # NoRequest
                  /\ Rotated(d.token) => RotatedBy(d.token) = d.request
                  /\ d.pc \in {"prepared", "leased"} => d.generation = d.token.generation
                  /\ (d.pc = "replay" \/ (d.pc = "answered" /\ d.result = "tokens")) =>
                        Rotated(d.token) /\ d.generation = d.token.generation + 1)'
    BY DEF CallsPresent
  <2>2. PICK d : d = calls'[r]
    OBVIOUS
  <2>3. PICK u : u = d.token
    OBVIOUS
  <2>4. /\ Issued(u)' /\ d.request # NoRequest
        /\ Rotated(u)' => RotatedBy(u)' = d.request
        /\ d.pc \in {"prepared", "leased"} => d.generation = u.generation
        /\ (d.pc = "replay" \/ (d.pc = "answered" /\ d.result = "tokens")) =>
              Rotated(u)' /\ d.generation = u.generation + 1
    BY <2>1, <2>2, <2>3
  <2> QED
    BY <2>2, <2>3, <2>4 DEF Issued, Rotated, RotatedBy, Generation
<1>15. CallsAgree' /\ AccessHeld'
  BY <1>i, <1>11, <1>12 DEF InStep, CallsAgree, AccessHeld
\* If the stored token is of this family, it is the one being rotated.
<1>16. ASSUME keychain.token.family = f
       PROVE  keychain.token = t /\ keychain.request = c.request
  <2>1. keychain.token \in Tokens /\ keychain.token # NoToken
    BY <1>1, <1>16, <1>i, Shapes
  <2>2. keychain.token.generation \in Nat
    BY <2>1, TokenNumbers
  <2>3. g <= keychain.token.generation
    BY <1>16, <1>i DEF InStep, CallsAgree
  <2>4. g = keychain.token.generation \/ g = keychain.token.generation + 1
    BY <1>1, <1>16, <1>i, <2>1 DEF InStep, CustodyInStep, Generation
  <2>5. keychain.token = t
    BY <1>1, <1>16, <2>1, <2>2, <2>3, <2>4, TokenFacts
  <2> QED
    BY Zenon, <1>i, <2>5 DEF InStep, CallsAgree
<1>17. CustodyInStep'
  <2> SUFFICES ASSUME NEW k, k = keychain.token, k # NoToken
               PROVE  /\ k.family \in DOMAIN families
                      /\ \/ Generation(k.family)' = k.generation
                         \/ /\ Generation(k.family)' = k.generation + 1
                            /\ keychain.request = RotatedBy(k)'
                            /\ keychain.request # NoRequest
    BY Zenon, <1>6, <1>12 DEF CustodyInStep, Generation, RotatedBy
  <2>1. CASE k.family = f
    <3>1. k = t /\ keychain.request = c.request
      BY Zenon, <1>16, <2>1
    <3> QED
      BY Zenon, <1>1, <1>7, <1>t, <3>1
  <2>2. CASE k.family # f
    <3>1. /\ k.family \in DOMAIN families /\ k \in Tokens
          /\ \/ Generation(k.family) = k.generation
             \/ /\ Generation(k.family) = k.generation + 1
                /\ keychain.request = RotatedBy(k)
                /\ keychain.request # NoRequest
      BY Zenon, <1>i, Shapes DEF InStep, CustodyInStep
    <3> QED
      BY Zenon, <1>7, <1>t, <2>2, <3>1
  <2> QED
    BY Zenon, <2>1, <2>2
<1>18. SessionInStep'
  <2>1. desktop.pc = "waiting" =>
          /\ calls'[desktop.slot].pc # "free"
          /\ calls'[desktop.slot].token = calls[desktop.slot].token
          /\ calls'[desktop.slot].request = calls[desktop.slot].request
    BY Zenon, <1>8, <1>10, <1>i DEF InStep, SessionInStep, Awaited
  <2>2. ASSUME desktop.pc = "received", NEW k, k = keychain.token
        PROVE  Generation(k.family)' = k.generation + 1
    <3>1. /\ Generation(k.family) = k.generation + 1 /\ k.family \in DOMAIN families
          /\ k.generation \in Nat
      BY Zenon, <1>i, <2>2, Shapes, TokenNumbers DEF InStep, SessionInStep, CustodyInStep
    <3>2. k.family # f
      BY SMTT(30), <1>1, <1>16, <2>2, <3>1
    <3> QED
      BY Zenon, <1>7, <3>1, <3>2
  <2>3. ASSUME desktop.pc = "issued", NEW e, e = desktop.issued.family
        PROVE  Generation(e)' = 0
    <3>1. e \in DOMAIN families /\ Generation(e) = 0 /\ e # f
      BY <1>i, <2>3 DEF InStep, SessionInStep, CallsAgree
    <3> QED
      BY Zenon, <1>7, <3>1
  <2> QED
    BY Zenon, <1>6, <1>12, <1>i, <2>1, <2>2, <2>3 DEF InStep, SessionInStep, Generation
<1> QED
  BY <1>6, <1>10, <1>13, <1>14, <1>15, <1>17, <1>18 DEF InStep

\* What Cloud does for a call.  The two branches that revoke a family for
\* reuse are never taken.
LEMMA ServerStep ==
  ASSUME RotationInvariant, NEW s \in Slots, Server(s) \/ CallDies(s)
  PROVE  RotationInvariant'
<1>i. TypeOK /\ ChainsBegun /\ InStep
  BY Zenon DEF RotationInvariant, InStep
<1>c. calls[s].pc # "free"
  BY Zenon DEF Server, CallDies, identifyRefreshCredential, prepareRefresh,
         ensureCurrentLease, commitRefresh, recoverRefresh
<1>p. /\ Issued(calls[s].token)
      /\ Rotated(calls[s].token) => RotatedBy(calls[s].token) = calls[s].request
      /\ calls[s].pc \in {"prepared", "leased"} => calls[s].generation = calls[s].token.generation
      /\ calls[s].pc = "replay" =>
            Rotated(calls[s].token) /\ calls[s].generation = calls[s].token.generation + 1
  BY Zenon, <1>c, <1>i DEF InStep, CallsPresent
<1>g. /\ calls[s].token.generation \in Nat /\ calls[s].generation \in Nat
      /\ calls[s].token.generation + 1 \in Nat /\ 0 \in Nat
      /\ Generation(calls[s].token.family) \in Nat
      /\ ~Rotated(calls[s].token) =>
            Generation(calls[s].token.family) = calls[s].token.generation
  <2>1. calls[s].token \in Tokens /\ calls[s].generation \in Nat
        /\ Generation(calls[s].token.family) \in Nat
    BY <1>i, <1>p, Shapes DEF Issued
  <2>2. calls[s].token.generation \in Nat
    BY <2>1, TokenNumbers
  <2> QED
    BY <1>p, <2>1, <2>2 DEF Issued, Rotated
<1>k. /\ UNCHANGED <<now, epoch, keychain, desktop, code, requests, logins>>
      /\ faults' \in Nat
  BY <1>i DEF Server, CallDies, identifyRefreshCredential, prepareRefresh,
         ensureCurrentLease, commitRefresh, recoverRefresh, Fault, TypeOK
<1> SUFFICES families' \in Seq(FamilyRows) /\ calls' \in [Slots -> CallRows] /\ InStep'
  BY <1>i, <1>k DEF RotationInvariant, TypeOK
<1>f. families \in Seq(FamilyRows)
  BY Zenon, <1>i DEF TypeOK
<1>1. CASE identifyRefreshCredential(s)
  <2> DEFINE row == [calls[s] EXCEPT !.pc = "identified", !.epoch = epoch, !.at = now]
  <2>1. calls[s] \in CallRows /\ calls \in [Slots -> CallRows] /\ epoch \in Nat /\ now \in Nat
    BY <1>i DEF TypeOK
  <2>2. /\ row \in CallRows /\ row.pc = "identified" /\ row.token = calls[s].token
        /\ row.request = calls[s].request
    BY Zenon, <2>1 DEF CallRows
  <2>3. calls' = [calls EXCEPT ![s] = row] /\ families' = families
    BY Zenon, <1>1, <2>1 DEF identifyRefreshCredential, CallRows
  <2> HIDE DEF row
  <2> QED
    BY Zenon, <1>c, <1>f, <1>k, <2>2, <2>3, CallStep
<1>2. CASE prepareRefresh(s)
  <2>1. CASE Answer(s, "invalid_grant", 0) /\ UNCHANGED families
    BY <1>c, <1>f, <1>g, <1>k, <2>1, AnswerStep
  <2>2. CASE Rotated(calls[s].token) /\ UNCHANGED families
             /\ Advance(s, "replay", calls[s].token.generation + 1)
    BY Zenon, <1>c, <1>f, <1>g, <1>k, <2>2, AdvanceStep
  <2>3. CASE ~Rotated(calls[s].token) /\ UNCHANGED families
             /\ Advance(s, "prepared", Generation(calls[s].token.family))
    BY Zenon, <1>c, <1>f, <1>g, <1>k, <2>3, AdvanceStep
  <2> QED
    BY <1>2, <1>p, <2>1, <2>2, <2>3 DEF prepareRefresh
<1>3. CASE ensureCurrentLease(s)
  <2>0. families' = families /\ calls[s].generation = calls[s].token.generation
    BY Zenon, <1>3, <1>p DEF ensureCurrentLease
  <2>1. CASE Answer(s, "unavailable", 0)
    BY Zenon, <1>c, <1>f, <1>g, <1>k, <2>0, <2>1, AnswerStep
  <2>2. CASE Advance(s, "leased", calls[s].generation)
    BY Zenon, <1>c, <1>f, <1>g, <1>k, <2>0, <2>2, AdvanceStep
  <2> QED
    BY Zenon, <1>3, <2>1, <2>2 DEF ensureCurrentLease
<1>4. CASE commitRefresh(s)
  <2>0. calls[s].generation = calls[s].token.generation /\ calls[s].pc = "leased"
    BY Zenon, <1>4, <1>p DEF commitRefresh
  <2>1. CASE Answer(s, "invalid_grant", 0) /\ UNCHANGED families
    BY <1>c, <1>f, <1>g, <1>k, <2>1, AnswerStep
  <2>2. CASE /\ Generation(calls[s].token.family) = calls[s].generation
             /\ Rotate(calls[s]) /\ Answer(s, "tokens", calls[s].generation + 1)
    BY Zenon, <1>k, <2>0, <2>2, RotateStep
  <2>3. CASE /\ Generation(calls[s].token.family) # calls[s].generation
             /\ RotatedBy(calls[s].token) # calls[s].request
    BY Zenon, <1>g, <1>p, <2>0, <2>3
  <2>4. CASE /\ Generation(calls[s].token.family) # calls[s].generation
             /\ Advance(s, "replay", calls[s].generation + 1) /\ UNCHANGED families
    <3>1. Rotated(calls[s].token)
      BY <1>g, <2>0, <2>4
    <3> QED
      BY Zenon, <1>c, <1>f, <1>g, <1>k, <2>0, <2>4, <3>1, AdvanceStep
  <2> QED
    BY Zenon, <1>4, <2>1, <2>2, <2>3, <2>4 DEF commitRefresh
<1>5. CASE recoverRefresh(s)
  <2>0. families' = families /\ calls[s].pc = "replay"
    BY Zenon, <1>5 DEF recoverRefresh
  <2>1. CASE Answer(s, "unavailable", 0)
    BY Zenon, <1>c, <1>f, <1>g, <1>k, <2>0, <2>1, AnswerStep
  <2>2. CASE Answer(s, "tokens", calls[s].generation)
    BY Zenon, <1>c, <1>f, <1>g, <1>k, <1>p, <2>0, <2>2, AnswerStep
  <2> QED
    BY <1>5, <2>1, <2>2 DEF recoverRefresh
<1>6. CASE CallDies(s)
  BY Zenon, <1>6, <1>c, <1>f, <1>k, FreeCallRow, CallStep DEF CallDies
<1> QED
  BY <1>1, <1>2, <1>3, <1>4, <1>5, <1>6 DEF Server

-----------------------------------------------------------------------------
\* Every family keeps its chain; calls may end, new families may come.
ChainsKept ==
    /\ \A f \in DOMAIN families : /\ f \in DOMAIN families'
                                  /\ families'[f].chain = families[f].chain
    /\ calls' \in [Slots -> CallRows]
    /\ \A r \in Slots : calls'[r] = calls[r] \/ calls'[r].pc = "free"

\* Where the chains are kept, a call under way still presents what it did.
LEMMA KeptCalls ==
  ASSUME RotationInvariant, ChainsKept
  PROVE  /\ CallsPresent'
         /\ \A f \in DOMAIN families : Generation(f)' = Generation(f)
<1>1. \A f \in DOMAIN families : Generation(f)' = Generation(f)
  BY DEF ChainsKept, Generation
<1>2. CallsPresent'
  <2> SUFFICES ASSUME NEW r \in Slots, calls'[r].pc # "free"
               PROVE  (LET d == calls[r] IN
                  /\ Issued(d.token)
                  /\ d.request # NoRequest
                  /\ Rotated(d.token) => RotatedBy(d.token) = d.request
                  /\ d.pc \in {"prepared", "leased"} => d.generation = d.token.generation
                  /\ (d.pc = "replay" \/ (d.pc = "answered" /\ d.result = "tokens")) =>
                        Rotated(d.token) /\ d.generation = d.token.generation + 1)'
    BY DEF CallsPresent
  <2>2. PICK d : d = calls[r]
    OBVIOUS
  <2>3. PICK u : u = d.token
    OBVIOUS
  <2>4. calls'[r] = d /\ d.pc # "free"
    BY <2>2 DEF ChainsKept
  <2>5. /\ Issued(u) /\ d.request # NoRequest
        /\ Rotated(u) => RotatedBy(u) = d.request
        /\ d.pc \in {"prepared", "leased"} => d.generation = u.generation
        /\ (d.pc = "replay" \/ (d.pc = "answered" /\ d.result = "tokens")) =>
              Rotated(u) /\ d.generation = u.generation + 1
    BY Zenon, <2>2, <2>3, <2>4 DEF RotationInvariant, InStep, CallsPresent
  <2>6. u.family \in DOMAIN families'
        /\ families'[u.family].chain = families[u.family].chain
    BY Zenon, <2>5 DEF Issued, ChainsKept
  <2>7. /\ Issued(u)' /\ (Rotated(u)' <=> Rotated(u)) /\ RotatedBy(u)' = RotatedBy(u)
    BY <2>5, <2>6 DEF Issued, Rotated, RotatedBy, Generation
  <2> QED
    BY <2>3, <2>4, <2>5, <2>7 DEF Issued, Rotated, RotatedBy, Generation
<1> QED
  BY <1>1, <1>2

\* The stored token that stays is in step with its unchanged chain.
LEMMA KeptCustody ==
  ASSUME RotationInvariant, ChainsKept, NEW k, k = keychain.token, keychain'.token = k,
         keychain'.request = keychain.request
            \/ (keychain.request = NoRequest /\ keychain'.request # NoRequest)
  PROVE  CustodyInStep'
<1> SUFFICES ASSUME k # NoToken
             PROVE  /\ k.family \in DOMAIN families'
                    /\ \/ Generation(k.family)' = k.generation
                       \/ /\ Generation(k.family)' = k.generation + 1
                          /\ keychain'.request = RotatedBy(k)'
                          /\ keychain'.request # NoRequest
  BY DEF CustodyInStep, Generation, RotatedBy
<1>1. /\ k.family \in DOMAIN families
      /\ \/ Generation(k.family) = k.generation
         \/ /\ Generation(k.family) = k.generation + 1
            /\ keychain.request = RotatedBy(k)
            /\ keychain.request # NoRequest
  BY DEF RotationInvariant, InStep, CustodyInStep
<1>2. k.family \in DOMAIN families' /\ families'[k.family].chain = families[k.family].chain
  BY <1>1 DEF ChainsKept
<1>3. RotatedBy(k)' = RotatedBy(k) /\ Generation(k.family)' = Generation(k.family)
  BY <1>2 DEF RotatedBy, Generation
<1> QED
  BY Zenon, <1>1, <1>2, <1>3

\* The Desktop comes to rest, with its custody kept or cleared.
LEMMA RestStep ==
  ASSUME RotationInvariant, ChainsKept,
         keychain' = keychain \/ keychain' = EmptyKeychain,
         desktop'.pc \in {"idle", "exchanging"},
         desktop'.access # NoToken =>
            /\ keychain' = keychain
            /\ keychain.token.family = desktop'.access.family
            /\ keychain.token.generation >= desktop'.access.generation
  PROVE  CallsPresent' /\ CallsAgree' /\ CustodyInStep' /\ SessionInStep' /\ AccessHeld'
<1>i. TypeOK /\ ChainsBegun /\ InStep
  BY DEF RotationInvariant, InStep
<1>1. CallsPresent'
  BY KeptCalls
<1>2. CustodyInStep'
  <2>1. CASE keychain' = keychain
    BY <2>1, KeptCustody
  <2>2. CASE keychain' = EmptyKeychain
    BY <2>2 DEF CustodyInStep, EmptyKeychain
  <2> QED
    BY <2>1, <2>2
<1>3. SessionInStep' /\ AccessHeld'
  BY Zenon DEF SessionInStep, AccessHeld
<1>4. CallsAgree'
  <2>1. \A r \in Slots : calls'[r].pc # "free" =>
          /\ calls'[r] = calls[r] /\ calls[r].token \in Tokens
          /\ calls[r].token.family \in DOMAIN families
    BY Zenon, <1>i DEF ChainsKept, TypeOK, CallRows, InStep, CallsPresent, Issued
  <2>2. \A r \in Slots : calls'[r].pc # "free" =>
          /\ calls[r].token.family # NoToken.family /\ calls[r].token # NoToken
    BY Zenon, <1>i, <2>1, Shapes
  <2>3. CASE keychain' = keychain
    BY SMTT(30), <1>i, <2>1, <2>3 DEF InStep, CallsAgree
  <2>4. CASE keychain' = EmptyKeychain
    BY SMTT(30), <1>i, <2>1, <2>2, <2>4 DEF InStep, CallsAgree, EmptyKeychain
  <2> QED
    BY <2>3, <2>4
<1> QED
  BY <1>1, <1>2, <1>3, <1>4

\* Calls that end, and counters that stay counters.
CallsOnly ==
    /\ calls' \in [Slots -> CallRows]
    /\ \A r \in Slots : calls'[r] = calls[r] \/ calls'[r].pc = "free"

Counters == /\ now \in Nat /\ code \in Nat /\ requests \in Nat
            /\ logins \in Nat /\ faults \in Nat

\* A step of the desktop between two exchanges.
LEMMA RestingStep ==
  ASSUME RotationInvariant, UNCHANGED <<epoch, families>>, CallsOnly, Counters',
         desktop' \in SessionRows,
         keychain' = keychain \/ keychain' = EmptyKeychain,
         desktop'.pc \in {"idle", "exchanging"},
         desktop'.access # NoToken =>
            /\ keychain' = keychain
            /\ keychain.token.family = desktop'.access.family
            /\ keychain.token.generation >= desktop'.access.generation
  PROVE  RotationInvariant'
<1>i. TypeOK /\ ChainsBegun /\ InStep
  BY Zenon DEF RotationInvariant, InStep
<1>1. ChainsKept
  BY DEF ChainsKept, CallsOnly
<1>2. CallsPresent' /\ CallsAgree' /\ CustodyInStep' /\ SessionInStep' /\ AccessHeld'
  BY <1>1, RestStep
<1>3. ChainsBegun' /\ NoFalseReuse' /\ ActiveFamilyIsCurrent'
  BY <1>i DEF InStep, ChainsBegun, NoFalseReuse, ActiveFamilyIsCurrent
<1>4. keychain' \in KeychainRows
  <2>1. EmptyKeychain \in KeychainRows
    BY Zenon, TokenFacts DEF EmptyKeychain, KeychainRows, NoRequest
  <2> QED
    BY Zenon, <1>i, <2>1 DEF TypeOK
<1>5. TypeOK'
  BY Zenon, <1>i, <1>4 DEF TypeOK, Counters, CallsOnly
<1> QED
  BY <1>2, <1>3, <1>5 DEF RotationInvariant, InStep

\* The desktop session at rest.
LEMMA IdleRow == Idle \in SessionRows /\ Idle.pc = "idle" /\ Idle.access = NoToken
BY TokenFacts DEF Idle, SessionRows

\* mark_authorization_failed, from wherever it is called.
LEMMA MarkFailedStep ==
  ASSUME RotationInvariant, NEW failure \in {"retryable", "reauthenticate"},
         NEW access \in Tokens, MarkFailed(failure, access),
         UNCHANGED <<epoch, families>>, CallsOnly, Counters',
         access # NoToken =>
            /\ failure = "retryable"
            /\ keychain.token.family = access.family
            /\ keychain.token.generation >= access.generation
  PROVE  RotationInvariant'
<1> DEFINE login == desktop.login /\ desktop.pc # "issued"
           row == [Idle EXCEPT !.failure = failure, !.access = access, !.login = login]
<1>1. login \in BOOLEAN /\ desktop' = row
  BY DEF MarkFailed
<1> HIDE DEF login
<1>2. row \in SessionRows
  BY Zenon, <1>1, IdleRow DEF SessionRows
<1>3. row.pc = "idle" /\ row.access = access
  BY DEF Idle
<1>4. keychain' = IF failure = "reauthenticate" THEN EmptyKeychain ELSE keychain
  BY DEF MarkFailed
<1> HIDE DEF row
<1> QED
  BY <1>1, <1>2, <1>3, <1>4, RestingStep

-----------------------------------------------------------------------------
\* A reset revokes and leaves every chain as it is.
LEMMA ResetStep ==
  ASSUME RotationInvariant, resetPassword
  PROVE  RotationInvariant'
<1>i. TypeOK /\ ChainsBegun /\ InStep
  BY DEF RotationInvariant, InStep
<1>1. /\ epoch' = epoch + 1 /\ epoch \in Nat
      /\ families' = [f \in DOMAIN families |-> [families[f] EXCEPT !.revoked = TRUE]]
      /\ UNCHANGED <<now, calls, keychain, desktop, code, requests, logins, faults>>
  BY <1>i DEF resetPassword, TypeOK
<1>2. /\ DOMAIN families' = DOMAIN families
      /\ \A f \in DOMAIN families :
            /\ families'[f] \in FamilyRows /\ families'[f].revoked
            /\ families'[f].reuse = families[f].reuse
            /\ families'[f].chain = families[f].chain
  <2>1. ASSUME NEW f \in DOMAIN families
        PROVE  LET row == [families[f] EXCEPT !.revoked = TRUE]
               IN  /\ row \in FamilyRows /\ row.revoked
                   /\ row.reuse = families[f].reuse /\ row.chain = families[f].chain
    <3>1. families[f] \in FamilyRows
      BY <1>i, Shapes
    <3> QED
      BY Zenon, <3>1 DEF FamilyRows
  <2> QED
    BY Zenon, <1>1, <2>1
<1>3. families' \in Seq(FamilyRows)
  <2>1. Len(families) \in Nat /\ DOMAIN families = 1 .. Len(families)
    BY <1>i, Shapes
  <2>2. families' \in [1 .. Len(families) -> FamilyRows]
    BY <1>1, <1>2, <2>1
  <2> QED
    BY <2>1, <2>2
<1>4. ChainsKept /\ keychain' = keychain /\ desktop' = desktop
  BY <1>1, <1>2, <1>i DEF ChainsKept, TypeOK
<1>5. CallsPresent' /\ CustodyInStep' /\ \A f \in DOMAIN families : Generation(f)' = Generation(f)
  BY <1>4, KeptCalls, KeptCustody
<1>6. CallsAgree' /\ AccessHeld'
  BY <1>1, <1>i DEF InStep, CallsAgree, AccessHeld
<1>7. SessionInStep'
  <2>1. ASSUME desktop.pc = "received", NEW k, k = keychain.token
        PROVE  Generation(k.family)' = k.generation + 1
    BY Zenon, <1>5, <1>i, <2>1 DEF InStep, SessionInStep, CustodyInStep
  <2>2. ASSUME desktop.pc = "issued", NEW e, e = desktop.issued.family
        PROVE  Generation(e)' = 0
    BY Zenon, <1>5, <1>i, <2>2 DEF InStep, SessionInStep
  <2> QED
    BY Zenon, <1>1, <1>2, <1>i, <2>1, <2>2 DEF InStep, SessionInStep, Generation
<1>8. ChainsBegun' /\ NoFalseReuse' /\ ActiveFamilyIsCurrent'
  BY <1>2, <1>i DEF InStep, ChainsBegun, NoFalseReuse, ActiveFamilyIsCurrent
<1>9. TypeOK'
  BY <1>1, <1>3, <1>i DEF TypeOK
<1> QED
  BY <1>5, <1>6, <1>7, <1>8, <1>9 DEF RotationInvariant, InStep

\* A sign-in's family, begun under the current epoch.
LEMMA NewFamilyStep ==
  ASSUME RotationInvariant, code = epoch, families' = Append(families, NewFamily),
         UNCHANGED <<epoch, calls>>
  PROVE  /\ families' \in Seq(FamilyRows) /\ ChainsKept
         /\ ChainsBegun' /\ NoFalseReuse' /\ ActiveFamilyIsCurrent'
         /\ Len(families) + 1 \in DOMAIN families' \ DOMAIN families
         /\ \A f : f = Len(families) + 1 => Generation(f)' = 0
<1>i. TypeOK /\ ChainsBegun /\ InStep
  BY Zenon DEF RotationInvariant, InStep
<1>1. /\ families \in Seq(FamilyRows) /\ Len(families) \in Nat
      /\ DOMAIN families = 1 .. Len(families) /\ code \in Nat /\ now \in Nat
  BY <1>i, Shapes DEF TypeOK
<1> DEFINE first == <<[request |-> NoRequest, at |-> now]>>
<1>2. first \in Seq(CredentialRows) /\ Len(first) = 1
  BY <1>1 DEF CredentialRows, NoRequest
<1> HIDE DEF first
<1>3. /\ NewFamily \in FamilyRows /\ NewFamily.chain = first /\ NewFamily.epoch = epoch
      /\ ~NewFamily.reuse
  BY <1>1, <1>2 DEF NewFamily, FamilyRows, first
<1> DEFINE row == NewFamily
           n == Len(families) + 1
<1> HIDE DEF row
<1>4. families' = Append(families, row)
  BY DEF row
<1>5. /\ families' \in Seq(FamilyRows) /\ Len(families') = n
      /\ \A f \in 1 .. Len(families) : families'[f] = families[f]
      /\ families'[n] = row
  BY <1>1, <1>3, <1>4, AppendProperties DEF row
<1>6. DOMAIN families' = DOMAIN families \cup {n} /\ n \notin DOMAIN families
  BY <1>1, <1>5
<1>7. /\ families'[n].chain = first /\ families'[n].epoch = epoch /\ ~families'[n].reuse
      /\ \A f \in DOMAIN families : families'[f] = families[f]
  BY Zenon, <1>1, <1>3, <1>5 DEF row
<1>8. ChainsKept
  BY Zenon, <1>6, <1>7, <1>i DEF ChainsKept, TypeOK
<1>9. ChainsBegun' /\ NoFalseReuse' /\ ActiveFamilyIsCurrent'
  <2> SUFFICES ASSUME NEW f \in DOMAIN families'
               PROVE  /\ Len(families'[f].chain) >= 1 /\ ~families'[f].reuse
                      /\ ~families'[f].revoked => families'[f].epoch = epoch'
    BY Zenon DEF ChainsBegun, NoFalseReuse, ActiveFamilyIsCurrent
  <2>1. CASE f \in DOMAIN families
    <3>1. /\ Len(families[f].chain) >= 1 /\ ~families[f].reuse
          /\ ~families[f].revoked => families[f].epoch = epoch
      BY Zenon, <1>i, <2>1 DEF InStep, ChainsBegun, NoFalseReuse, ActiveFamilyIsCurrent
    <3> QED
      BY Zenon, <1>7, <2>1, <3>1
  <2>2. CASE f = n
    <3>1. Len(families'[n].chain) = 1
      BY Zenon, <1>2, <1>7
    <3>2. \A k : k = 1 => k >= 1
      OBVIOUS
    <3> QED
      BY Zenon, <1>7, <2>2, <3>1, <3>2
  <2> QED
    BY Zenon, <1>6, <2>1, <2>2
<1>10. \A f : f = n => Generation(f)' = 0
  BY <1>2, <1>7 DEF Generation
<1> QED
  BY <1>5, <1>6, <1>8, <1>9, <1>10

\* The sign-in, up to the tokens in the Desktop's hands.
LEMMA LoginStep ==
  ASSUME RotationInvariant,
         begin \/ authorize \/ EndLogin \/ exchange \/ issueInitial
  PROVE  RotationInvariant'
<1>i. TypeOK /\ ChainsBegun /\ InStep /\ desktop \in SessionRows
  BY DEF RotationInvariant, InStep, TypeOK
<1>a. desktop.access # NoToken =>
        /\ keychain.token.family = desktop.access.family
        /\ keychain.token.generation >= desktop.access.generation
  BY <1>i DEF InStep, AccessHeld
<1>c. UNCHANGED calls => CallsOnly
  BY <1>i DEF CallsOnly, TypeOK
<1>1. CASE begin
  <2>1. UNCHANGED <<epoch, families, calls>> /\ Counters'
    BY <1>1, <1>i DEF begin, Counters, TypeOK
  <2>2. /\ desktop' \in SessionRows /\ desktop'.pc = "idle"
        /\ \/ desktop'.access = desktop.access /\ keychain' = keychain
           \/ desktop'.access = NoToken /\ keychain' = EmptyKeychain
    <3>1. CASE desktop.failure = "none"
      BY Zenon, <1>1, <1>i, <3>1 DEF begin, SessionRows
    <3>2. CASE desktop.failure # "none"
      <4>1. desktop' = [desktop EXCEPT !.login = TRUE, !.access = NoToken]
            /\ keychain' = EmptyKeychain /\ desktop.pc = "idle"
        BY <1>1, <3>2 DEF begin
      <4>2. NoToken \in Tokens
        BY TokenFacts
      <4> QED
        BY Zenon, <1>i, <4>1, <4>2 DEF SessionRows
    <3> QED
      BY <3>1, <3>2
  <2> QED
    BY <1>a, <1>c, <2>1, <2>2, RestingStep
<1>2. CASE authorize
  <2>1. UNCHANGED <<epoch, families, calls, keychain, desktop>> /\ TypeOK'
    BY Zenon, <1>2, <1>i DEF authorize, TypeOK
  <2>2. InStep'
    BY ZenonT(40), <1>i, <2>1 DEF InStep, ChainsBegun, CallsPresent, CallsAgree, CustodyInStep,
       SessionInStep, AccessHeld, NoFalseReuse, ActiveFamilyIsCurrent, Issued, Rotated,
       RotatedBy, Generation
  <2> QED
    BY <2>1, <2>2 DEF RotationInvariant
<1>3. CASE EndLogin
  <2>1. UNCHANGED <<epoch, families, calls, keychain>> /\ Counters'
    BY <1>3, <1>i DEF EndLogin, Counters, TypeOK
  <2>2. desktop' \in SessionRows /\ desktop'.pc = "idle" /\ desktop'.access = desktop.access
    BY Zenon, <1>3, <1>i DEF EndLogin, SessionRows
  <2> QED
    BY <1>a, <1>c, <2>1, <2>2, RestingStep
<1>4. CASE exchange
  <2>1. UNCHANGED <<epoch, families, calls, keychain>> /\ Counters'
    BY <1>4, <1>i DEF exchange, Counters, TypeOK
  <2>2. desktop' \in SessionRows /\ desktop'.pc = "exchanging" /\ desktop'.access = desktop.access
    BY <1>4, <1>i DEF exchange, SessionRows
  <2> QED
    BY <1>a, <1>c, <2>1, <2>2, RestingStep
<1>5. CASE issueInitial
  <2>0. UNCHANGED <<epoch, calls, keychain>> /\ Counters'
    BY <1>5, <1>i DEF issueInitial, Counters, TypeOK, Fault
  <2>1. CASE code = epoch /\ families' = Append(families, NewFamily)
             /\ desktop' = [desktop EXCEPT !.pc = "idle", !.login = FALSE]
    <3>1. desktop' \in SessionRows /\ desktop'.pc = "idle" /\ desktop'.access = desktop.access
      BY Zenon, <1>i, <2>1 DEF SessionRows
    <3>2. /\ families' \in Seq(FamilyRows) /\ ChainsKept
          /\ ChainsBegun' /\ NoFalseReuse' /\ ActiveFamilyIsCurrent'
      BY <2>0, <2>1, NewFamilyStep
    <3>3. CallsPresent' /\ CallsAgree' /\ CustodyInStep' /\ SessionInStep' /\ AccessHeld'
      BY <1>a, <2>0, <3>1, <3>2, RestStep
    <3>4. TypeOK'
      BY <1>i, <2>0, <3>1, <3>2 DEF TypeOK, Counters
    <3> QED
      BY <3>2, <3>3, <3>4 DEF RotationInvariant, InStep
  <2>2. CASE code # epoch /\ UNCHANGED families
             /\ desktop' = [desktop EXCEPT !.pc = "idle", !.login = FALSE]
    <3>1. desktop' \in SessionRows /\ desktop'.pc = "idle" /\ desktop'.access = desktop.access
      BY Zenon, <1>i, <2>2 DEF SessionRows
    <3> QED
      BY <1>a, <1>c, <2>0, <2>2, <3>1, RestingStep
  <2>3. CASE code = epoch /\ families' = Append(families, NewFamily)
             /\ desktop' = [desktop EXCEPT !.pc = "issued",
                               !.issued = Token(Len(families) + 1, 0)]
    <3>1. /\ families' \in Seq(FamilyRows) /\ ChainsKept
          /\ ChainsBegun' /\ NoFalseReuse' /\ ActiveFamilyIsCurrent'
          /\ Len(families) + 1 \in DOMAIN families' \ DOMAIN families
          /\ \A f : f = Len(families) + 1 => Generation(f)' = 0
      BY <2>0, <2>3, NewFamilyStep
    <3>2. PICK n : n = Len(families) + 1
      OBVIOUS
    <3>3. /\ n \in Nat \ {0} /\ n \in DOMAIN families' /\ n \notin DOMAIN families
          /\ Generation(n)' = 0 /\ Token(n, 0) \in Tokens /\ Token(n, 0).family = n
          /\ Token(n, 0).generation = 0
      BY <1>i, <3>1, <3>2, Shapes, TokenFacts
    <3>4. /\ desktop' \in SessionRows /\ desktop'.pc = "issued" /\ desktop'.issued = Token(n, 0)
          /\ desktop'.access = desktop.access
      BY Zenon, <1>i, <2>3, <3>2, <3>3 DEF SessionRows
    <3>5. CallsPresent' /\ CustodyInStep'
      BY <2>0, <3>1, KeptCalls, KeptCustody
    <3>6. AccessHeld'
      BY <1>a, <2>0, <3>4 DEF AccessHeld
    <3>7. keychain.token.family # n
      BY <1>i, <3>3, Shapes, TokenFacts DEF InStep, CustodyInStep
    <3>8. SessionInStep'
      BY Zenon, <2>0, <3>3, <3>4, <3>7 DEF SessionInStep, Generation
    <3>9. CallsAgree'
      <4>1. \A r \in Slots : calls[r].pc # "free" => calls[r].token.family # n
        BY Zenon, <1>i, <3>3 DEF InStep, CallsPresent, Issued
      <4> QED
        BY Zenon, <1>i, <2>0, <3>3, <3>4, <4>1 DEF InStep, CallsAgree
    <3>10. TypeOK'
      BY <1>i, <2>0, <3>1, <3>4 DEF TypeOK, Counters
    <3> QED
      BY <3>1, <3>5, <3>6, <3>8, <3>9, <3>10 DEF RotationInvariant, InStep
  <2> QED
    BY <1>5, <2>1, <2>2, <2>3 DEF issueInitial
<1> QED
  BY <1>1, <1>2, <1>3, <1>4, <1>5

-----------------------------------------------------------------------------
\* What the Desktop's steps have in common: no family and no epoch changes.
LEMMA DesktopFrame ==
  ASSUME RotationInvariant, UNCHANGED <<epoch, families>>, Counters',
         calls' \in [Slots -> CallRows], keychain' \in KeychainRows, desktop' \in SessionRows,
         CallsPresent', CallsAgree', CustodyInStep', SessionInStep', AccessHeld'
  PROVE  RotationInvariant'
<1>1. ChainsBegun' /\ NoFalseReuse' /\ ActiveFamilyIsCurrent'
  BY DEF RotationInvariant, InStep, ChainsBegun, NoFalseReuse, ActiveFamilyIsCurrent
<1>2. TypeOK'
  BY DEF RotationInvariant, TypeOK, Counters
<1> QED
  BY <1>1, <1>2 DEF RotationInvariant, InStep

\* A refresh begins: the Grant is tried again, or a request is stored.
LEMMA PerformStep ==
  ASSUME RotationInvariant, perform_refresh
  PROVE  RotationInvariant'
<1>i. /\ TypeOK /\ InStep /\ desktop \in SessionRows /\ keychain \in KeychainRows
      /\ desktop.pc = "idle" /\ desktop.access \in Tokens /\ NoToken \in Tokens
  BY TokenFacts DEF RotationInvariant, TypeOK, perform_refresh, SessionRows
<1>k. UNCHANGED <<epoch, families, calls>> /\ ChainsKept /\ calls' \in [Slots -> CallRows]
  BY <1>i DEF perform_refresh, ChainsKept, TypeOK
<1>c. CallsPresent'
  BY <1>k, KeptCalls
<1>a. desktop.access # NoToken =>
        /\ keychain.token.family = desktop.access.family
        /\ keychain.token.generation >= desktop.access.generation
  BY <1>i DEF InStep, AccessHeld
<1>1. CASE /\ desktop.access # NoToken
           /\ desktop' = [desktop EXCEPT !.pc = "granting", !.issued = desktop.access,
                                         !.access = NoToken]
           /\ UNCHANGED <<keychain, requests>>
  <2>1. /\ desktop' \in SessionRows /\ desktop'.pc = "granting"
        /\ desktop'.issued = desktop.access /\ desktop'.access = NoToken
    BY Zenon, <1>1, <1>i DEF SessionRows
  <2>2. CustodyInStep' /\ SessionInStep' /\ AccessHeld'
    BY <1>1, <1>a, <1>k, <2>1, KeptCustody DEF SessionInStep, AccessHeld
  <2>3. CallsAgree'
    BY <1>1, <1>i, <1>k, <2>1 DEF InStep, CallsAgree
  <2>4. Counters'
    BY <1>1, <1>i DEF perform_refresh, Counters, TypeOK
  <2> QED
    BY <1>1, <1>c, <1>i, <1>k, <2>1, <2>2, <2>3, <2>4, DesktopFrame
<1>2. CASE /\ keychain.token # NoToken
           /\ desktop' = [desktop EXCEPT !.pc = "stored", !.access = AccessDuringRefresh]
           /\ StoreRequest
  <2>0. AccessDuringRefresh \in Tokens
    BY <1>i DEF AccessDuringRefresh
  <2>1. /\ desktop' \in SessionRows /\ desktop'.pc = "stored"
        /\ desktop'.access = AccessDuringRefresh
    BY Zenon, <1>2, <1>i, <2>0 DEF SessionRows
  <2>2. /\ keychain' \in KeychainRows /\ requests' \in Nat
        /\ keychain'.token = keychain.token /\ keychain'.request # NoRequest
        /\ \/ keychain'.request = keychain.request
           \/ keychain.request = NoRequest
    <3>1. requests \in Nat
      BY <1>i DEF TypeOK
    <3> QED
      BY <1>2, <1>i, <3>1 DEF StoreRequest, KeychainRows, NoRequest
  <2>3. CustodyInStep'
    BY <1>k, <2>2, KeptCustody
  <2>4. SessionInStep' /\ AccessHeld'
    BY <1>2, <1>a, <2>1, <2>2 DEF SessionInStep, AccessHeld, AccessDuringRefresh
  <2>5. CallsAgree'
    <3>1. \A r \in Slots : calls[r].pc # "free" =>
            (calls[r].token = keychain.token => calls[r].request = keychain'.request)
      BY <1>i, <2>2 DEF InStep, CallsAgree, CallsPresent
    <3> QED
      BY <1>i, <1>k, <2>1, <2>2, <3>1 DEF InStep, CallsAgree
  <2>6. Counters'
    BY <1>i, <2>2 DEF perform_refresh, Counters, TypeOK
  <2> QED
    BY <1>c, <1>k, <2>1, <2>2, <2>3, <2>4, <2>5, <2>6, DesktopFrame
<1> QED
  BY <1>1, <1>2 DEF perform_refresh

\* The stored token goes out with the stored request.
LEMMA SendStep ==
  ASSUME RotationInvariant, NEW s \in Slots, send(s)
  PROVE  RotationInvariant'
<1>i. /\ TypeOK /\ InStep /\ ChainsBegun /\ desktop \in SessionRows
      /\ keychain \in KeychainRows /\ desktop.pc = "stored"
  BY DEF RotationInvariant, InStep, TypeOK, send
<1> DEFINE row == [FreeCall EXCEPT !.pc = "sent", !.token = keychain.token,
                                   !.request = keychain.request]
<1>1. /\ row \in CallRows /\ row.pc = "sent" /\ row.token = keychain.token
      /\ row.request = keychain.request
  BY Zenon, <1>i, FreeCallRow DEF FreeCall, CallRows, KeychainRows
<1>2. /\ calls' = [calls EXCEPT ![s] = row] /\ UNCHANGED <<epoch, families, keychain>>
      /\ desktop' = [desktop EXCEPT !.pc = "waiting", !.slot = s]
  BY DEF send
<1> HIDE DEF row
<1>3. /\ calls' \in [Slots -> CallRows] /\ calls'[s] = row
      /\ \A r \in Slots \ {s} : calls'[r] = calls[r]
  BY <1>1, <1>2, <1>i DEF TypeOK
<1>4. /\ desktop' \in SessionRows /\ desktop'.pc = "waiting" /\ desktop'.slot = s
      /\ desktop'.access = desktop.access
  BY Zenon, <1>2, <1>i DEF SessionRows
<1>5. /\ keychain.token # NoToken /\ keychain.request # NoRequest /\ keychain.token \in Tokens
      /\ keychain.token.family \in DOMAIN families /\ keychain.token.generation \in Nat
  BY Zenon, <1>i, Shapes, TokenNumbers DEF InStep, SessionInStep, CustodyInStep
<1>6. /\ Issued(keychain.token)
      /\ Rotated(keychain.token) => RotatedBy(keychain.token) = keychain.request
  BY SMTT(30), <1>5, <1>i DEF InStep, CustodyInStep, Issued, Rotated
<1>7. CallsPresent'
  <2> SUFFICES ASSUME NEW r \in Slots, calls'[r].pc # "free"
               PROVE  LET d == calls'[r] IN
                  /\ Issued(d.token)
                  /\ d.request # NoRequest
                  /\ Rotated(d.token) => RotatedBy(d.token) = d.request
                  /\ d.pc \in {"prepared", "leased"} => d.generation = d.token.generation
                  /\ (d.pc = "replay" \/ (d.pc = "answered" /\ d.result = "tokens")) =>
                        Rotated(d.token) /\ d.generation = d.token.generation + 1
    BY Zenon, <1>2 DEF CallsPresent, Issued, Rotated, RotatedBy, Generation
  <2>1. CASE r = s
    BY Zenon, <1>1, <1>3, <1>5, <1>6, <2>1
  <2>2. CASE r # s
    <3>1. calls'[r] = calls[r]
      BY <1>3, <2>2
    <3> QED
      BY Zenon, <1>i, <3>1 DEF InStep, CallsPresent
  <2> QED
    BY Zenon, <2>1, <2>2
<1>8. CallsAgree'
  <2>1. ASSUME NEW r \in Slots, calls'[r].pc # "free"
        PROVE  /\ calls'[r].token.family = keychain.token.family =>
                    calls'[r].token.generation <= keychain.token.generation
               /\ calls'[r].token = keychain.token => calls'[r].request = keychain.request
    <3>1. CASE r = s
      BY <1>1, <1>3, <1>5, <3>1
    <3>2. CASE r # s
      BY <1>3, <1>i, <2>1, <3>2 DEF InStep, CallsAgree
    <3> QED
      BY Zenon, <3>1, <3>2
  <2>2. ASSUME NEW r \in Slots, calls'[r].pc # "free", NEW q \in Slots, calls'[q].pc # "free",
               calls'[q].token = calls'[r].token
        PROVE  calls'[q].request = calls'[r].request
    <3>1. CASE r = s \/ q = s
      BY Zenon, <1>1, <1>3, <2>1, <2>2, <3>1
    <3>2. CASE r # s /\ q # s
      BY <1>3, <1>i, <2>2, <3>2 DEF InStep, CallsAgree
    <3> QED
      BY Zenon, <3>1, <3>2
  <2> QED
    BY <1>2, <1>4, <2>1, <2>2 DEF CallsAgree
<1>9. CustodyInStep' /\ SessionInStep' /\ AccessHeld'
  BY <1>1, <1>2, <1>3, <1>4, <1>5, <1>i
     DEF InStep, CustodyInStep, SessionInStep, AccessHeld, Generation, RotatedBy
<1>10. Counters'
  BY <1>i DEF send, Counters, TypeOK
<1> QED
  BY <1>2, <1>3, <1>4, <1>7, <1>8, <1>9, <1>10, <1>i, DesktopFrame

\* An answer arrives at the Desktop that waits for it.
LEMMA ReceiveStep ==
  ASSUME RotationInvariant, receive
  PROVE  RotationInvariant'
<1>i. /\ TypeOK /\ InStep /\ ChainsBegun /\ desktop \in SessionRows
      /\ keychain \in KeychainRows /\ desktop.pc = "waiting" /\ NoToken \in Tokens
  BY TokenFacts DEF RotationInvariant, InStep, TypeOK, receive
<1>s. PICK s : s = desktop.slot
  OBVIOUS
<1>c. PICK c : c = calls[s]
  OBVIOUS
<1>1. /\ s \in Slots /\ c.pc = "answered" /\ c.token = keychain.token
      /\ keychain.token # NoToken /\ keychain.request # NoRequest
  BY <1>i, <1>s, <1>c DEF receive, InStep, SessionInStep
<1>2. UNCHANGED <<epoch, families>> /\ calls' = [calls EXCEPT ![s] = FreeCall] /\ Counters'
  BY <1>i, <1>s DEF receive, Counters, TypeOK
<1>3. CallsOnly /\ ChainsKept
  BY Zenon, <1>2, <1>i, FreeCallRow DEF CallsOnly, ChainsKept, TypeOK
<1>4. CASE MarkFailed("reauthenticate", NoToken)
  BY <1>2, <1>3, <1>4, <1>i, MarkFailedStep
<1>5. CASE desktop' = [desktop EXCEPT !.pc = "idle", !.slot = 0] /\ UNCHANGED keychain
  <2>1. desktop' \in SessionRows /\ desktop'.pc = "idle" /\ desktop'.access = desktop.access
    BY Zenon, <1>5, <1>i DEF SessionRows
  <2> QED
    BY <1>2, <1>3, <1>5, <1>i, <2>1, RestingStep DEF InStep, AccessHeld
<1>6. CASE /\ c.result = "tokens" /\ UNCHANGED keychain
           /\ desktop' = [desktop EXCEPT !.pc = "received", !.slot = 0,
                             !.issued = Token(c.token.family, c.generation)]
  <2> DEFINE k == keychain.token
  <2>1. /\ k \in Tokens /\ k.family \in DOMAIN families /\ k.generation \in Nat
        /\ k.family \in Nat \ {0} /\ Generation(k.family) \in Nat
    BY <1>1, <1>i, Shapes, TokenNumbers DEF InStep, CustodyInStep
  <2>2. Rotated(k) /\ c.generation = k.generation + 1 /\ c.generation \in Nat
    BY <1>1, <1>6, <1>c, <1>i, <2>1 DEF InStep, CallsPresent
  <2>3. Generation(k.family) = k.generation + 1
    BY <1>1, <1>i, <2>1, <2>2 DEF InStep, CustodyInStep, Rotated
  <2>4. /\ desktop' \in SessionRows /\ desktop'.pc = "received"
        /\ desktop'.issued = Token(k.family, k.generation + 1)
        /\ desktop'.access = desktop.access
    <3>1. Token(k.family, c.generation) \in Tokens
      BY <2>1, <2>2, TokenFacts
    <3> QED
      BY Zenon, <1>1, <1>6, <1>i, <2>2, <3>1 DEF SessionRows
  <2>5. CallsPresent' /\ CustodyInStep'
    BY <1>3, <1>6, KeptCalls, KeptCustody
  <2>6. SessionInStep' /\ AccessHeld'
    BY <1>1, <1>2, <1>6, <1>i, <2>3, <2>4 DEF InStep, SessionInStep, AccessHeld, Generation
  <2>7. CallsAgree'
    BY <1>3, <1>6, <1>i, <2>4 DEF InStep, CallsAgree, CallsOnly
  <2> QED
    BY <1>2, <1>3, <1>6, <1>i, <2>4, <2>5, <2>6, <2>7, DesktopFrame DEF CallsOnly
<1> QED
  BY <1>4, <1>5, <1>6, <1>s, <1>c DEF receive

\* One write replaces the stored token by its successor.
LEMMA PublishStep ==
  ASSUME RotationInvariant, publish_rotation
  PROVE  RotationInvariant'
<1>i. /\ TypeOK /\ InStep /\ ChainsBegun /\ desktop \in SessionRows
      /\ keychain \in KeychainRows /\ desktop.pc = "received" /\ NoToken \in Tokens
  BY TokenFacts DEF RotationInvariant, InStep, TypeOK, publish_rotation
<1>1. UNCHANGED <<epoch, families, calls>> /\ Counters' /\ CallsOnly /\ ChainsKept
  BY SMTT(30), <1>i DEF publish_rotation, Counters, TypeOK, CallsOnly, ChainsKept, Fault
<1>2. CASE MarkFailed("reauthenticate", NoToken)
  BY Zenon, <1>1, <1>2, <1>i, MarkFailedStep
<1>3. CASE /\ keychain' = [token |-> desktop.issued, request |-> NoRequest]
           /\ desktop' = [desktop EXCEPT !.pc = "granting"]
  <2>k. PICK k : k = keychain.token
    OBVIOUS
  <2>t. PICK t : t = desktop.issued
    OBVIOUS
  <2>1. /\ k \in Tokens /\ k.family \in DOMAIN families /\ k.generation \in Nat
        /\ k.family \in Nat \ {0} /\ Generation(k.family) = k.generation + 1
        /\ t = Token(k.family, k.generation + 1)
    BY Zenon, <1>i, <2>k, <2>t, Shapes, TokenNumbers DEF InStep, SessionInStep, CustodyInStep
  <2>2. t \in Tokens /\ t.family = k.family /\ t.generation = k.generation + 1
    BY <2>1, TokenFacts
  <2>3. /\ keychain' \in KeychainRows /\ keychain'.token = t /\ keychain'.request = NoRequest
    BY <1>3, <2>2, <2>t DEF KeychainRows, NoRequest
  <2>4. /\ desktop' \in SessionRows /\ desktop'.pc = "granting" /\ desktop'.issued = t
        /\ desktop'.access = desktop.access
    BY <1>3, <1>i, <2>t DEF SessionRows
  <2>5. CallsPresent'
    BY Zenon, <1>1, KeptCalls
  <2>6. CustodyInStep'
    BY Zenon, <1>1, <2>1, <2>2, <2>3 DEF CustodyInStep, Generation
  <2>7. SessionInStep'
    BY Zenon, <2>4 DEF SessionInStep
  <2>8. AccessHeld'
    <3>1. desktop.access # NoToken =>
            /\ k.family = desktop.access.family /\ k.generation >= desktop.access.generation
            /\ desktop.access.generation \in Nat
      BY Zenon, <1>i, <2>k, Shapes, TokenNumbers DEF InStep, AccessHeld
    <3> QED
      BY SMTT(30), <2>1, <2>2, <2>3, <2>4, <3>1 DEF AccessHeld
  <2>9. CallsAgree'
    <3>1. ASSUME NEW r \in Slots, calls[r].pc # "free", calls[r].token.family = t.family
          PROVE  calls[r].token.generation <= t.generation /\ calls[r].token # t
      <4>1. calls[r].token.generation <= k.generation /\ calls[r].token.generation \in Nat
        BY Zenon, <1>i, <2>2, <2>k, <3>1, Shapes, TokenNumbers DEF InStep, CallsAgree
      <4> QED
        BY SMTT(30), <2>1, <2>2, <4>1
    <3>2. \A r \in Slots : calls[r].pc # "free" => calls[r].token # t
      BY <3>1
    <3> QED
      BY Zenon, <1>1, <1>i, <2>3, <2>4, <3>1, <3>2 DEF InStep, CallsAgree
  <2> QED
    BY <1>1, <2>3, <2>4, <2>5, <2>6, <2>7, <2>8, <2>9, DesktopFrame DEF CallsOnly
<1> QED
  BY <1>2, <1>3 DEF publish_rotation

\* The Grant: the session is established, retried or given up.
LEMMA GrantStep ==
  ASSUME RotationInvariant, fetch_and_activate_authorization
  PROVE  RotationInvariant'
<1>i. /\ TypeOK /\ InStep /\ ChainsBegun /\ desktop \in SessionRows
      /\ keychain \in KeychainRows /\ desktop.pc \in {"granting", "issued"} /\ NoToken \in Tokens
      /\ desktop.issued \in Tokens
  BY TokenFacts, Shapes DEF RotationInvariant, InStep, TypeOK, fetch_and_activate_authorization
<1>1. UNCHANGED <<epoch, families, calls>> /\ Counters' /\ CallsOnly /\ ChainsKept
  BY <1>i DEF fetch_and_activate_authorization, Counters, TypeOK, CallsOnly, ChainsKept, Fault
<1>h. desktop.pc = "granting" =>
        /\ keychain.token.family = desktop.issued.family
        /\ keychain.token.generation >= desktop.issued.generation
  BY Zenon, <1>i DEF InStep, AccessHeld
<1>2. CASE MarkFailed("reauthenticate", NoToken)
  BY Zenon, <1>1, <1>2, <1>i, MarkFailedStep
<1>3. CASE MarkFailed("retryable", IF desktop.pc = "issued" THEN NoToken ELSE desktop.issued)
  <2>1. PICK a : a = IF desktop.pc = "issued" THEN NoToken ELSE desktop.issued
    OBVIOUS
  <2>2. /\ a \in Tokens /\ MarkFailed("retryable", a)
        /\ a # NoToken => /\ keychain.token.family = a.family
                          /\ keychain.token.generation >= a.generation
    BY <1>3, <1>h, <1>i, <2>1
  <2> QED
    BY <1>1, <2>2, MarkFailedStep
<1>4. CASE desktop' = [desktop EXCEPT !.pc = "idle", !.access = NoToken, !.issued = NoToken]
           /\ UNCHANGED keychain
  <2>1. desktop' \in SessionRows /\ desktop'.pc = "idle" /\ desktop'.access = NoToken
    BY Zenon, <1>4, <1>i DEF SessionRows
  <2> QED
    BY <1>1, <1>4, <2>1, RestingStep
<1>5. CASE /\ keychain' = IF desktop.pc = "issued"
                            THEN [token |-> desktop.issued, request |-> NoRequest]
                            ELSE keychain
           /\ desktop' = [Idle EXCEPT !.access = desktop.issued,
                             !.login = desktop.login /\ desktop.pc # "issued"]
  <2> DEFINE login == desktop.login /\ desktop.pc # "issued"
             row == [Idle EXCEPT !.access = desktop.issued, !.login = login]
  <2>1. login \in BOOLEAN /\ desktop' = row
    BY <1>5
  <2> HIDE DEF login
  <2>2. row \in SessionRows
    BY Zenon, <1>i, <2>1, IdleRow DEF SessionRows
  <2>3. row.pc = "idle" /\ row.access = desktop.issued
    BY DEF Idle
  <2> HIDE DEF row
  <2>4. CASE desktop.pc = "granting"
    BY Zenon, <1>1, <1>5, <1>h, <2>1, <2>2, <2>3, <2>4, RestingStep
  <2>5. CASE desktop.pc = "issued"
    <3>t. PICK t : t = desktop.issued
      OBVIOUS
    <3>1. /\ t \in Tokens /\ t.family \in DOMAIN families /\ t.generation = 0
          /\ Generation(t.family) = 0
          /\ \A r \in Slots : calls[r].pc # "free" => calls[r].token.family # t.family
      BY <1>i, <2>5, <3>t DEF InStep, SessionInStep, CallsAgree
    <3>2. /\ keychain' \in KeychainRows /\ keychain'.token = t /\ keychain'.request = NoRequest
      BY Zenon, <1>5, <2>5, <3>1, <3>t DEF KeychainRows, NoRequest
    <3>3. CallsPresent'
      BY <1>1, KeptCalls
    <3>4. CustodyInStep'
      BY ZenonT(40), <1>1, <3>1, <3>2 DEF CustodyInStep, Generation
    <3>5. SessionInStep' /\ AccessHeld'
      BY <2>1, <2>3, <3>1, <3>2, <3>t DEF SessionInStep, AccessHeld
    <3>6. CallsAgree'
      BY <1>1, <1>i, <2>1, <2>3, <3>1, <3>2 DEF InStep, CallsAgree
    <3> QED
      BY <1>1, <2>1, <2>2, <3>2, <3>3, <3>4, <3>5, <3>6, DesktopFrame DEF CallsOnly
  <2> QED
    BY <1>i, <2>4, <2>5
<1> QED
  BY <1>2, <1>3, <1>4, <1>5 DEF fetch_and_activate_authorization

\* Lost answers, rejected credentials, restarts and time.
LEMMA FaultStep ==
  ASSUME RotationInvariant,
         TransportRejected \/ AuthorizationRejected \/ Restart \/ Tick
  PROVE  RotationInvariant'
<1>i. /\ TypeOK /\ InStep /\ desktop \in SessionRows /\ calls \in [Slots -> CallRows]
  BY Zenon DEF RotationInvariant, TypeOK
<1>a. desktop.access # NoToken =>
        /\ keychain.token.family = desktop.access.family
        /\ keychain.token.generation >= desktop.access.generation
  BY Zenon, <1>i DEF InStep, AccessHeld
<1>1. CASE TransportRejected
  <2>1. UNCHANGED <<epoch, families, keychain>> /\ Counters'
    BY <1>1, <1>i DEF TransportRejected, Counters, TypeOK, Fault
  <2>2. desktop' \in SessionRows /\ desktop'.pc = "idle" /\ desktop'.access = desktop.access
    BY Zenon, <1>1, <1>i DEF TransportRejected, SessionRows
  <2>3. CallsOnly
    BY Zenon, <1>1, <1>i, FreeCallRow DEF TransportRejected, CallsOnly
  <2> QED
    BY <1>a, <2>1, <2>2, <2>3, RestingStep
<1>2. CASE AuthorizationRejected
  <2>1. UNCHANGED <<epoch, families, keychain>> /\ Counters' /\ CallsOnly
    BY Zenon, <1>2, <1>i DEF AuthorizationRejected, Counters, TypeOK, CallsOnly
  <2>2. NoToken \in Tokens
    BY TokenFacts
  <2>3. desktop' \in SessionRows /\ desktop'.pc = "idle" /\ desktop'.access = NoToken
    BY Zenon, <1>2, <1>i, <2>2 DEF AuthorizationRejected, SessionRows
  <2> QED
    BY <2>1, <2>3, RestingStep
<1>3. CASE Restart
  <2>1. UNCHANGED <<epoch, families, keychain>> /\ Counters'
    BY <1>3, <1>i DEF Restart, Counters, TypeOK, Fault
  <2>2. PICK failure \in {"none", desktop.failure} \ {"retryable"} :
          desktop' = [Idle EXCEPT !.failure = failure]
    BY <1>3 DEF Restart
  <2>3. failure \in {"none", "retryable", "reauthenticate"}
    BY <1>i, <2>2 DEF SessionRows
  <2>4. desktop' \in SessionRows
    BY <2>2, <2>3, IdleRow DEF SessionRows
  <2>5. desktop'.pc = "idle" /\ desktop'.access = NoToken
    BY <2>2 DEF Idle
  <2>6. CallsOnly
    BY Zenon, <1>3, <1>i, FreeCallRow DEF Restart, CallsOnly
  <2> QED
    BY <2>1, <2>4, <2>5, <2>6, RestingStep
<1>4. CASE Tick
  <2>1. /\ UNCHANGED <<epoch, families, calls, keychain, desktop, code, requests, logins, faults>>
        /\ now' \in Nat
    BY SMTT(30), <1>4, <1>i, TTLAssumption DEF Tick, TypeOK
  <2>2. InStep'
    BY Zenon, <1>i, <2>1 DEF InStep, ChainsBegun, CallsPresent, CallsAgree, CustodyInStep,
       SessionInStep, AccessHeld, NoFalseReuse, ActiveFamilyIsCurrent, Issued, Rotated,
       RotatedBy, Generation
  <2> QED
    BY Zenon, <1>i, <2>1, <2>2 DEF RotationInvariant, TypeOK
<1> QED
  BY <1>1, <1>2, <1>3, <1>4

-----------------------------------------------------------------------------
(* Whatever is lost, repeated or interrupted, Cloud's families, the calls  *)
(* it works on and the Desktop's custody stay in step.                     *)
THEOREM RotationCorrect == Spec => []RotationInvariant
<1>1. Init => RotationInvariant
  <2> SUFFICES ASSUME Init PROVE RotationInvariant
    OBVIOUS
  <2>1. families = <<>> /\ families \in Seq(FamilyRows) /\ DOMAIN families = {}
    BY DEF Init
  <2>2. EmptyKeychain \in KeychainRows /\ EmptyKeychain.token = NoToken
    BY TokenFacts DEF EmptyKeychain, KeychainRows, NoRequest
  <2>3. calls \in [Slots -> CallRows] /\ \A s \in Slots : calls[s].pc = "free"
    BY Zenon, FreeCallRow DEF Init
  <2>4. TypeOK
    BY SMTT(30), <2>1, <2>2, <2>3, IdleRow DEF Init, TypeOK
  <2>5. CallsPresent /\ CallsAgree
    BY ZenonT(40), <2>3 DEF CallsPresent, CallsAgree
  <2>6. CustodyInStep /\ SessionInStep /\ AccessHeld
    BY <2>2, IdleRow DEF Init, CustodyInStep, SessionInStep, AccessHeld
  <2>7. ChainsBegun /\ NoFalseReuse /\ ActiveFamilyIsCurrent
    BY <2>1 DEF ChainsBegun, NoFalseReuse, ActiveFamilyIsCurrent
  <2> QED
    BY <2>4, <2>5, <2>6, <2>7 DEF RotationInvariant, InStep
<1>2. RotationInvariant /\ [Next]_vars => RotationInvariant'
  <2> SUFFICES ASSUME RotationInvariant, [Next]_vars PROVE RotationInvariant'
    OBVIOUS
  <2>1. CASE \E s \in Slots : Server(s) \/ CallDies(s)
    BY <2>1, ServerStep
  <2>2. CASE resetPassword
    BY <2>2, ResetStep
  <2>3. CASE begin \/ authorize \/ EndLogin \/ exchange \/ issueInitial
    BY <2>3, LoginStep
  <2>4. CASE Refresh
    BY <2>4, PerformStep, SendStep, ReceiveStep, PublishStep, GrantStep DEF Refresh
  <2>5. CASE TransportRejected \/ AuthorizationRejected \/ Restart \/ Tick
    BY Zenon, <2>5, FaultStep
  <2>6. CASE UNCHANGED vars
    BY Zenon, <2>6 DEF vars, RotationInvariant, TypeOK, InStep, ChainsBegun, CallsPresent,
       CallsAgree, CustodyInStep, SessionInStep, AccessHeld, NoFalseReuse,
       ActiveFamilyIsCurrent, Issued, Rotated, RotatedBy, Generation
  <2> QED
    BY <2>1, <2>2, <2>3, <2>4, <2>5, <2>6 DEF Next
<1> QED
  BY <1>1, <1>2, PTL DEF Spec

(* No retry of the Desktop's own is ever taken for theft: the branches of  *)
(* prepareRefresh and commitRefresh that revoke a family are dead code for *)
(* a Desktop that follows this protocol.                                   *)
THEOREM NoFalseReuseHolds == Spec => []NoFalseReuse
BY RotationCorrect, PTL DEF RotationInvariant, InStep

(* What the credential store holds is always a token Cloud can still       *)
(* rotate, or the one before it with the request that replaced it.         *)
THEOREM CustodyIsRecoverableHolds == Spec => []CustodyIsRecoverable
<1>1. RotationInvariant => CustodyIsRecoverable
  <2> SUFFICES ASSUME RotationInvariant, keychain.token # NoToken
               PROVE  \/ keychain.token.generation = Generation(keychain.token.family)
                      \/ /\ keychain.token.generation + 1 = Generation(keychain.token.family)
                         /\ keychain.request = RotatedBy(keychain.token)
    BY DEF CustodyIsRecoverable
  <2> QED
    BY DEF RotationInvariant, InStep, CustodyInStep
<1> QED
  BY <1>1, RotationCorrect, PTL

(* A password reset ends every session: no family survives with an older   *)
(* Security Epoch, not even one whose code was being exchanged.            *)
THEOREM ActiveFamilyIsCurrentHolds == Spec => []ActiveFamilyIsCurrent
BY RotationCorrect, PTL DEF RotationInvariant, InStep

(* The Desktop reports "authenticated" only with the refresh token of the  *)
(* same sign-in, and none older than its access token, in its store.       *)
THEOREM AuthenticatedHasCustodyHolds == Spec => []AuthenticatedHasCustody
<1>1. RotationInvariant => AuthenticatedHasCustody
  BY DEF RotationInvariant, InStep, AccessHeld, AuthenticatedHasCustody
<1> QED
  BY <1>1, RotationCorrect, PTL
=============================================================================
