--------------------------- MODULE RefreshRotation ---------------------------
(***************************************************************************)
(* The Desktop's sign-in and the rotation of its refresh token: the token  *)
(* service of the identity module, its PostgreSQL repository, and the      *)
(* Native session that keeps the token in the system credential store.     *)
(*                                                                         *)
(* Cloud keeps one family of refresh tokens for a sign-in.  A refresh       *)
(* presents the token with a request identity that the Desktop stored      *)
(* beforehand; the new pair is derived from the presented token, the       *)
(* request and the generation, so that a request whose answer was lost can *)
(* be repeated and gets the same pair.  A rotated token presented with any *)
(* other request identity is taken for theft and ends the family.          *)
(*                                                                         *)
(* A call to Cloud outlives the Desktop's interest in it: after a time-out *)
(* or a crash it may still be running, so several calls run at once, each  *)
(* in transactions of its own (identify, prepare, lease, commit, recover). *)
(*                                                                         *)
(* A token is named by its family and generation.  Which device is         *)
(* entitled to a Lease is LeaseAuthority's and DeviceAuthority's subject:  *)
(* here a Lease or a Grant may be refused at any time.                     *)
(***************************************************************************)
EXTENDS Naturals, Sequences

CONSTANTS Slots,        \* numbers for the calls Cloud may be working on
          MaxTime,      \* bound: the clock stops once it is reached
          AccessTTL,    \* lifetime of an access token (15 minutes)
          RefreshTTL,   \* lifetime of a refresh token (30 days)
          MaxEpoch,     \* bound: password resets
          MaxLogins,    \* bound: sign-ins begun
          MaxRequests,  \* bound: identities used while signed in
          MaxFaults     \* bound: crashes, lost answers, refusals

ASSUME TTLAssumption == /\ AccessTTL \in Nat \ {0}
                        /\ RefreshTTL \in Nat
                        /\ AccessTTL < RefreshTTL

VARIABLES now,        \* Cloud's clock
          epoch,      \* account_security_epoch
          families,   \* identity_refresh_families, a sequence
          calls,      \* the refresh calls Cloud is working on
          keychain,   \* the stored refresh token and its pending request
          desktop,    \* the Native session's memory
          code,       \* Security Epoch of the authorization code, 0 for none
          requests,   \* request identities generated so far
          logins,     \* sign-ins begun so far
          faults

vars == <<now, epoch, families, calls, keychain, desktop, code, requests,
          logins, faults>>

NoToken == [family |-> 0, generation |-> 0]

NoRequest == 0

Token(f, g) == [family |-> f, generation |-> g]

Tokens == {NoToken} \cup [family : Nat \ {0}, generation : Nat]

EmptyKeychain == [token |-> NoToken, request |-> NoRequest]

FreeCall == [pc |-> "free", token |-> NoToken, request |-> NoRequest,
             epoch |-> 0, at |-> 0, generation |-> 0, result |-> "none"]

Idle == [pc |-> "idle", slot |-> 0, failure |-> "none", access |-> NoToken,
         issued |-> NoToken, login |-> FALSE]

-----------------------------------------------------------------------------
(* A family's chain holds one credential per generation: the request that  *)
(* made it and when it was issued.  Every generation but the last is       *)
(* rotated, by the request that made the next one.                          *)

Generation(f) == Len(families[f].chain) - 1

Credential(t) == families[t.family].chain[t.generation + 1]

Rotated(t) == t.generation < Generation(t.family)

RotatedBy(t) == families[t.family].chain[t.generation + 2].request

RefreshLive(t) == now < Credential(t).at + RefreshTTL

AccessLive(t, when) == when < Credential(t).at + AccessTTL

SessionActive(f) == ~families[f].revoked /\ families[f].epoch = epoch

Init == /\ now = 0
        /\ epoch = 1
        /\ families = <<>>
        /\ calls = [s \in Slots |-> FreeCall]
        /\ keychain = EmptyKeychain
        /\ desktop = Idle
        /\ code = 0
        /\ requests = 0
        /\ logins = 0
        /\ faults = 0

Fault == /\ faults < MaxFaults
         /\ faults' = faults + 1

-----------------------------------------------------------------------------
(* Cloud: one refresh call.                                                *)

\* The answer is for the Desktop that waits; one that gave up gets nothing.
Awaited(s) == desktop.pc = "waiting" /\ desktop.slot = s

Answer(s, result, generation) ==
    calls' = [calls EXCEPT ![s] =
                 IF Awaited(s)
                   THEN [@ EXCEPT !.pc = "answered", !.result = result,
                                  !.generation = generation]
                   ELSE FreeCall]

Advance(s, pc, generation) ==
    calls' = [calls EXCEPT ![s].pc = pc, ![s].generation = generation]

\* revokeFamily, for the reuse of a rotated token.
RevokeForReuse(f) ==
    families' = [families EXCEPT ![f].revoked = TRUE, ![f].reuse = TRUE]

\* The token service reads the clock, and with the credential the account's
\* Security Epoch, which the later transactions expect to find unchanged.
identifyRefreshCredential(s) ==
    /\ calls[s].pc = "sent"
    /\ calls' = [calls EXCEPT ![s].pc = "identified",
                              ![s].epoch = epoch,
                              ![s].at = now]
    /\ UNCHANGED <<now, epoch, families, keychain, desktop, code, requests,
                   logins, faults>>

Presentable(c) == /\ SessionActive(c.token.family)
                  /\ RefreshLive(c.token)
                  /\ epoch = c.epoch

prepareRefresh(s) ==
    LET c == calls[s]
        t == c.token
    IN /\ c.pc = "identified"
       /\ \/ /\ ~Presentable(c)
             /\ Answer(s, "invalid_grant", 0)
             /\ UNCHANGED families
          \/ /\ Presentable(c) /\ Rotated(t) /\ RotatedBy(t) = c.request
             /\ Advance(s, "replay", t.generation + 1)
             /\ UNCHANGED families
          \/ /\ Presentable(c) /\ Rotated(t) /\ RotatedBy(t) # c.request
             /\ Answer(s, "invalid_grant", 0)
             /\ RevokeForReuse(t.family)
          \/ /\ Presentable(c) /\ ~Rotated(t)
             /\ Advance(s, "prepared", Generation(t.family))
             /\ UNCHANGED families
       /\ UNCHANGED <<now, epoch, keychain, desktop, code, requests, logins, faults>>

\* The Lease is refused when the Security Epoch moved, and at any time for
\* the reasons DeviceAuthority models; the Desktop is told to come back.
ensureCurrentLease(s) ==
    /\ calls[s].pc = "prepared"
    /\ \/ /\ epoch = calls[s].epoch
          /\ Advance(s, "leased", calls[s].generation)
          /\ UNCHANGED faults
       \/ /\ epoch = calls[s].epoch
          /\ Fault
          /\ Answer(s, "unavailable", 0)
       \/ /\ epoch # calls[s].epoch
          /\ Answer(s, "unavailable", 0)
          /\ UNCHANGED faults
    /\ UNCHANGED <<now, epoch, families, keychain, desktop, code, requests, logins>>

Rotate(c) ==
    families' = [families EXCEPT ![c.token.family].chain =
                    Append(@, [request |-> c.request, at |-> c.at])]

\* The family's row changes only while it is active and at the generation
\* that was prepared; otherwise the presented token says who came first.
commitRefresh(s) ==
    LET c == calls[s]
        t == c.token
        f == t.family
        newest == ~families[f].revoked /\ Generation(f) = c.generation
    IN /\ c.pc = "leased"
       /\ \/ /\ epoch # c.epoch
             /\ Answer(s, "invalid_grant", 0)
             /\ UNCHANGED families
          \/ /\ epoch = c.epoch /\ newest
             /\ Rotate(c)
             /\ Answer(s, "tokens", c.generation + 1)
          \/ /\ epoch = c.epoch /\ families[f].revoked
             /\ Answer(s, "invalid_grant", 0)
             /\ UNCHANGED families
          \/ /\ epoch = c.epoch /\ ~families[f].revoked /\ ~newest
             /\ RotatedBy(t) # c.request
             /\ Answer(s, "invalid_grant", 0)
             /\ RevokeForReuse(f)
          \/ /\ epoch = c.epoch /\ ~families[f].revoked /\ ~newest
             /\ RotatedBy(t) = c.request
             /\ Advance(s, "replay", c.generation + 1)
             /\ UNCHANGED families
       /\ UNCHANGED <<now, epoch, keychain, desktop, code, requests, logins, faults>>

\* mutant: the pair is given again only while its access token lives
RecoverableWhileLive(c) ==
    LET t == c.token
    IN /\ SessionActive(t.family)
       /\ Rotated(t)
       /\ RotatedBy(t) = c.request
       /\ Generation(t.family) = c.generation
       /\ RefreshLive(t)
       /\ AccessLive(Token(t.family, c.generation), now)

\* The derived pair is given again only while it is the family's newest.
Recoverable(c) ==
    LET t == c.token
    IN /\ SessionActive(t.family)
       /\ Rotated(t)
       /\ RotatedBy(t) = c.request
       /\ Generation(t.family) = c.generation
       /\ RefreshLive(t)
       /\ RefreshLive(Token(t.family, c.generation))

recoverRefresh(s) ==
    /\ calls[s].pc = "replay"
    /\ IF Recoverable(calls[s]) THEN Answer(s, "tokens", calls[s].generation)
                                ELSE Answer(s, "unavailable", 0)
    /\ UNCHANGED <<now, epoch, families, keychain, desktop, code, requests,
                   logins, faults>>

\* A call's process may die at any point; the Desktop sees its time-out.
CallDies(s) ==
    /\ calls[s].pc \notin {"free", "answered"}
    /\ ~Awaited(s)
    /\ calls' = [calls EXCEPT ![s] = FreeCall]
    /\ UNCHANGED <<now, epoch, families, keychain, desktop, code, requests,
                   logins, faults>>

(* A password reset advances the Security Epoch and revokes every session. *)
resetPassword ==
    /\ epoch < MaxEpoch
    /\ epoch' = epoch + 1
    /\ families' = [f \in DOMAIN families |->
                       [families[f] EXCEPT !.revoked = TRUE]]
    /\ UNCHANGED <<now, calls, keychain, desktop, code, requests, logins, faults>>

-----------------------------------------------------------------------------
(* The Desktop.  A refresh, the start of a sign-in and its completion each *)
(* hold the session's one mutation attempt: desktop.pc is "idle" while it  *)
(* is free.                                                                *)

\* mark_authorization_failed.  Only a definite failure clears the custody.
MarkFailed(failure, retryAccess) ==
    /\ desktop' = [Idle EXCEPT !.failure = failure, !.access = retryAccess,
                               !.login = desktop.login /\ desktop.pc # "issued"]
    /\ keychain' = IF failure = "reauthenticate" THEN EmptyKeychain
                                                 ELSE keychain

\* begin: a sign-in that recovers from a failure drops the old credentials.
begin ==
    /\ desktop.pc = "idle"
    /\ ~desktop.login
    /\ logins < MaxLogins
    /\ logins' = logins + 1
    /\ IF desktop.failure = "none"
         THEN /\ desktop' = [desktop EXCEPT !.login = TRUE]
              /\ UNCHANGED keychain
         ELSE /\ desktop' = [desktop EXCEPT !.login = TRUE,
                                            !.access = NoToken]
              /\ keychain' = EmptyKeychain
    /\ UNCHANGED <<now, epoch, families, calls, code, requests, faults>>

\* authorize: the browser's session obtains a code for the current epoch.
authorize ==
    /\ desktop.login
    /\ code = 0
    /\ code' = epoch
    /\ UNCHANGED <<now, epoch, families, calls, keychain, desktop, requests,
                   logins, faults>>

\* cancel, finish or the login's time-out.
EndLogin ==
    /\ desktop.pc = "idle"
    /\ desktop.login
    /\ desktop' = [desktop EXCEPT !.login = FALSE]
    /\ code' = 0
    /\ UNCHANGED <<now, epoch, families, calls, keychain, requests, logins, faults>>

\* handle_callback and the first transaction of exchange: the code is
\* consumed, what it was issued for is kept.
exchange ==
    /\ desktop.pc = "idle"
    /\ desktop.login
    /\ code # 0
    /\ desktop' = [desktop EXCEPT !.pc = "exchanging"]
    /\ UNCHANGED <<now, epoch, families, calls, keychain, code, requests,
                   logins, faults>>

NewFamily == [epoch |-> code, revoked |-> FALSE, reuse |-> FALSE,
              chain |-> <<[request |-> NoRequest, at |-> now]>>]

\* issueInitial refuses a code of an older Security Epoch.  An exchange that
\* fails, or whose answer is lost, ends the login and changes nothing else.
issueInitial ==
    /\ desktop.pc = "exchanging"
    /\ code' = 0
    /\ \/ /\ code = epoch
          /\ families' = Append(families, NewFamily)
          /\ desktop' = [desktop EXCEPT !.pc = "issued",
                            !.issued = Token(Len(families) + 1, 0)]
          /\ UNCHANGED faults
       \/ /\ code = epoch
          /\ Fault
          /\ families' = Append(families, NewFamily)
          /\ desktop' = [desktop EXCEPT !.pc = "idle", !.login = FALSE]
       \/ /\ code # epoch
          /\ desktop' = [desktop EXCEPT !.pc = "idle", !.login = FALSE]
          /\ UNCHANGED <<families, faults>>
    /\ UNCHANGED <<now, epoch, calls, keychain, requests, logins>>

-----------------------------------------------------------------------------
(* A refresh.                                                              *)

SignedIn == /\ desktop.failure = "none"
            /\ desktop.access # NoToken

\* While a scheduled refresh runs the old access token serves on; one that
\* Cloud rejected, or that waited for its Grant, is dropped.
AccessDuringRefresh ==
    IF desktop.failure = "retryable" THEN NoToken ELSE desktop.access

\* mutant: every attempt is a request of its own
StoreNewRequest ==
    /\ requests' = requests + 1
    /\ keychain' = [keychain EXCEPT !.request = requests + 1]

\* The request identity stored with the token is used again; without one a
\* new one is stored before anything is sent.
StoreRequest ==
    \/ /\ keychain.request # NoRequest
       /\ UNCHANGED <<keychain, requests>>
    \/ /\ keychain.request = NoRequest
       /\ requests' = requests + 1
       /\ keychain' = [keychain EXCEPT !.request = requests + 1]

\* perform_refresh, to the point where the request is stored: a Grant that
\* failed for the moment is retried with the access token that was kept;
\* otherwise the stored token is rotated.
perform_refresh ==
    /\ desktop.pc = "idle"
    /\ desktop.failure # "reauthenticate"
    /\ ~desktop.login \/ desktop.access # NoToken
    /\ LET retryGrant == /\ desktop.failure = "retryable"
                         /\ desktop.access # NoToken
                         /\ AccessLive(desktop.access, now)
       IN \/ /\ retryGrant
             /\ desktop' = [desktop EXCEPT !.pc = "granting",
                               !.issued = desktop.access,
                               !.access = NoToken]
             /\ UNCHANGED <<keychain, requests>>
          \/ /\ ~retryGrant
             /\ keychain.token # NoToken
             /\ SignedIn => requests < MaxRequests
             /\ desktop' = [desktop EXCEPT !.pc = "stored",
                               !.access = AccessDuringRefresh]
             /\ StoreRequest
    /\ UNCHANGED <<now, epoch, families, calls, code, logins, faults>>

\* send_token_request; the call takes the first slot that is free.
send(s) ==
    /\ desktop.pc = "stored"
    /\ calls[s].pc = "free"
    /\ \A r \in Slots : r < s => calls[r].pc # "free"
    /\ calls' = [calls EXCEPT ![s] =
                    [FreeCall EXCEPT !.pc = "sent",
                                     !.token = keychain.token,
                                     !.request = keychain.request]]
    /\ desktop' = [desktop EXCEPT !.pc = "waiting", !.slot = s]
    /\ UNCHANGED <<now, epoch, families, keychain, code, requests, logins, faults>>

\* mutant: a call that failed has used up its request
TransportForgetsRequest ==
    /\ desktop.pc = "waiting"
    /\ Fault
    /\ desktop' = [desktop EXCEPT !.pc = "idle", !.slot = 0]
    /\ keychain' = [keychain EXCEPT !.request = NoRequest]
    /\ calls' = [calls EXCEPT ![desktop.slot] =
                    IF @.pc = "answered" THEN FreeCall ELSE @]
    /\ UNCHANGED <<now, epoch, families, code, requests, logins>>

\* The Desktop stops waiting: a lost answer or its ten-second time-out.
TransportRejected ==
    /\ desktop.pc = "waiting"
    /\ Fault
    /\ desktop' = [desktop EXCEPT !.pc = "idle", !.slot = 0]
    /\ calls' = [calls EXCEPT ![desktop.slot] =
                    IF @.pc = "answered" THEN FreeCall ELSE @]
    /\ UNCHANGED <<now, epoch, families, keychain, code, requests, logins>>

\* prepare accepts an answer only when the access token has a second or more
\* left of its lifetime, counted from the call's arrival at Cloud.
Usable(c) == AccessLive(Token(c.token.family, c.generation), c.at)

receive ==
    LET s == desktop.slot
        c == calls[s]
    IN /\ desktop.pc = "waiting"
       /\ c.pc = "answered"
       /\ calls' = [calls EXCEPT ![s] = FreeCall]
       /\ \/ /\ c.result = "tokens" /\ Usable(c)
             /\ desktop' = [desktop EXCEPT !.pc = "received", !.slot = 0,
                               !.issued = Token(c.token.family, c.generation)]
             /\ UNCHANGED keychain
          \/ /\ c.result = "tokens" /\ ~Usable(c)
             /\ MarkFailed("reauthenticate", NoToken)
          \/ /\ c.result = "invalid_grant"
             /\ MarkFailed("reauthenticate", NoToken)
          \/ /\ c.result = "unavailable"
             /\ desktop' = [desktop EXCEPT !.pc = "idle", !.slot = 0]
             /\ UNCHANGED keychain
       /\ UNCHANGED <<now, epoch, families, code, requests, logins, faults>>

\* publish_rotation: one write replaces the token and removes the request.
publish_rotation ==
    /\ desktop.pc = "received"
    /\ \/ /\ keychain' = [token |-> desktop.issued, request |-> NoRequest]
          /\ desktop' = [desktop EXCEPT !.pc = "granting"]
          /\ UNCHANGED faults
       \/ /\ Fault
          /\ MarkFailed("reauthenticate", NoToken)
    /\ UNCHANGED <<now, epoch, families, calls, code, requests, logins>>

Authorized(t) == SessionActive(t.family) /\ AccessLive(t, now)

\* fetch_and_activate_authorization and what follows.  The Grant may be
\* refused for good at any time (no Lease, no entitlement, a bad signature).
\* A sign-in stores its refresh token only now.
fetch_and_activate_authorization ==
    /\ desktop.pc \in {"granting", "issued"}
    /\ \/ /\ Authorized(desktop.issued)
          /\ keychain' = IF desktop.pc = "issued"
                           THEN [token |-> desktop.issued,
                                 request |-> NoRequest]
                           ELSE keychain
          /\ desktop' = [Idle EXCEPT !.access = desktop.issued,
                            !.login = desktop.login /\ desktop.pc # "issued"]
          /\ UNCHANGED faults
       \/ /\ Fault
          /\ MarkFailed("retryable", IF desktop.pc = "issued"
                                       THEN NoToken ELSE desktop.issued)
       \/ /\ MarkFailed("reauthenticate", NoToken)
          /\ UNCHANGED faults
       \/ /\ desktop.pc = "granting" \* commit_refreshed_access: Busy
          /\ Fault
          /\ desktop' = [desktop EXCEPT !.pc = "idle", !.access = NoToken,
                                        !.issued = NoToken]
          /\ UNCHANGED keychain
    /\ UNCHANGED <<now, epoch, families, calls, code, requests, logins>>

\* A request of the data plane is answered with 401 or 403: its credential
\* is dropped, and a refresh follows.
AuthorizationRejected ==
    /\ desktop.pc = "idle"
    /\ desktop.failure = "none"
    /\ desktop.access # NoToken
    /\ ~Authorized(desktop.access)
    /\ desktop' = [desktop EXCEPT !.access = NoToken]
    /\ UNCHANGED <<now, epoch, families, calls, keychain, code, requests,
                   logins, faults>>

\* The Desktop ends or crashes and starts again; only the credential store,
\* and in some compositions a security lock, outlive it.
Restart ==
    /\ Fault
    /\ \E failure \in {"none", desktop.failure} \ {"retryable"} :
           desktop' = [Idle EXCEPT !.failure = failure]
    /\ code' = 0
    /\ calls' = [s \in Slots |-> IF calls[s].pc = "answered" THEN FreeCall
                                                           ELSE calls[s]]
    /\ UNCHANGED <<now, epoch, families, keychain, requests, logins>>

\* The time that ends every access token issued so far, or every refresh
\* token; before the first sign-in nothing has an age.
Tick ==
    /\ now < MaxTime
    /\ families # <<>>
    /\ \E lifetime \in {AccessTTL, RefreshTTL} : now' = now + lifetime
    /\ UNCHANGED <<epoch, families, calls, keychain, desktop, code, requests,
                   logins, faults>>

Server(s) == \/ identifyRefreshCredential(s)
             \/ prepareRefresh(s)
             \/ ensureCurrentLease(s)
             \/ commitRefresh(s)
             \/ recoverRefresh(s)

Refresh == \/ perform_refresh
           \/ \E s \in Slots : send(s)
           \/ receive
           \/ publish_rotation
           \/ fetch_and_activate_authorization

Next == \/ \E s \in Slots : Server(s) \/ CallDies(s)
        \/ resetPassword
        \/ begin \/ authorize \/ EndLogin \/ exchange \/ issueInitial
        \/ Refresh
        \/ TransportRejected
        \/ AuthorizationRejected
        \/ Restart
        \/ Tick

Spec == Init /\ [][Next]_vars

\* maintain_authentication repeats the refresh for as long as the Desktop
\* runs, Cloud works on a call it received, and a login ends by its time-out.
Fairness == /\ WF_vars(Refresh)
            /\ WF_vars(EndLogin)
            /\ WF_vars(issueInitial)
            /\ \A s \in Slots : WF_vars(Server(s))

FairSpec == Spec /\ Fairness

-----------------------------------------------------------------------------
CredentialRows == [request : Nat, at : Nat]

FamilyRows == [epoch : Nat, revoked : BOOLEAN, reuse : BOOLEAN,
               chain : Seq(CredentialRows)]

CallRows == [pc : {"free", "sent", "identified", "prepared", "leased",
                   "replay", "answered"},
             token : Tokens, request : Nat, epoch : Nat, at : Nat,
             generation : Nat,
             result : {"none", "tokens", "invalid_grant", "unavailable"}]

KeychainRows == [token : Tokens, request : Nat]

SessionRows == [pc : {"idle", "stored", "waiting", "received", "granting",
                      "exchanging", "issued"},
                slot : Slots \cup {0},
                failure : {"none", "retryable", "reauthenticate"},
                access : Tokens, issued : Tokens, login : BOOLEAN]

TypeOK == /\ now \in Nat /\ epoch \in Nat \ {0}
          /\ families \in Seq(FamilyRows)
          /\ calls \in [Slots -> CallRows]
          /\ keychain \in KeychainRows
          /\ desktop \in SessionRows
          /\ code \in Nat /\ requests \in Nat
          /\ logins \in Nat /\ faults \in Nat

(* No retry of the Desktop's own looks like theft: with lost answers,      *)
(* crashes at any point and calls that run late, a family is never revoked *)
(* because its rotated token was presented under another request.          *)
NoFalseReuse == \A f \in DOMAIN families : ~families[f].reuse

(* While Cloud still honours the family of the stored token, that token is *)
(* the newest, or the one before it together with the very request that    *)
(* replaced it - the only other presentation that Cloud answers.           *)
CustodyIsRecoverable ==
    LET t == keychain.token
    IN (t # NoToken /\ SessionActive(t.family)) =>
          \/ t.generation = Generation(t.family)
          \/ /\ t.generation + 1 = Generation(t.family)
             /\ keychain.request = RotatedBy(t)

(* A password reset ends every session, also one whose code or rotation    *)
(* was under way: a family that is not revoked is of the current epoch.    *)
ActiveFamilyIsCurrent ==
    \A f \in DOMAIN families : ~families[f].revoked => families[f].epoch = epoch

(* The Desktop reports "authenticated" only with custody: the stored token *)
(* belongs to the same family and is not older than the access token.      *)
AuthenticatedHasCustody ==
    (desktop.failure = "none" /\ desktop.access # NoToken) =>
       /\ keychain.token.family = desktop.access.family
       /\ keychain.token.generation >= desktop.access.generation

(* A Desktop with a stored token gets through: it is signed in in the end, *)
(* or the token is gone and a new sign-in is due.  Every refusal that      *)
(* leaves the token in place is one that a repetition overcomes.           *)
SessionSettles == (keychain.token # NoToken) ~> (SignedIn \/ keychain.token = NoToken)

=============================================================================
