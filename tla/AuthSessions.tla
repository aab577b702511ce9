---------------------------- MODULE AuthSessions ----------------------------
(***************************************************************************)
(* The request path of OIDCAuth (application_auth.go) over either token    *)
(* store: one browser, several requests in flight against several          *)
(* replicas, responses that arrive in any order or not at all, an identity *)
(* provider, and a cookie key being rolled over.                           *)
(*                                                                         *)
(* Keepalive, RequireAuth and OptionalAuth share one handler here: they    *)
(* read the session, refresh it, and set or clear the session cookie on    *)
(* the same conditions, and differ only in the status they answer with.    *)
(* A request without a session cookie changes nothing and is left out.     *)
(*                                                                         *)
(* A deployment that is Stored uses pgstore, whose rows outlive the        *)
(* browser's cookie; its Refresh is taken at the places where a call reads *)
(* the row, writes it back, or is answered, and PgRefresh has the lease    *)
(* between them.  Otherwise it uses CookieTokenStore, whose handle is the  *)
(* sealed session and whose Refresh collapses the calls of one replica     *)
(* that carry the same cookie value.                                       *)
(***************************************************************************)
EXTENDS Integers, FiniteSets

CONSTANTS
  Requests,     \* requests that may be in flight at once
  Replicas,
  Deployments,  \* the kinds of store and provider to consider
  MaxAge,       \* the maximum session age
  MaxNow,       \* bound: instants
  MaxLogins,    \* bound: sessions created
  MaxIssued,    \* bound: token sets the provider issues
  MaxSends      \* bound: requests sent

ASSUME AuthAssumption ==
  /\ Deployments \subseteq [stored: BOOLEAN, rotates: BOOLEAN]
  /\ MaxAge \in Nat \ {0}
  /\ MaxNow \in Nat /\ MaxLogins \in Nat /\ MaxIssued \in Nat
  /\ MaxSends \in Nat /\ Replicas # {}

VARIABLES
  deployed,     \* the deployment at hand, which never changes
  now,
  birth,        \* per session: the instant of the login that created it
  rows,         \* per session: its howdah_session row
  cookie,       \* the browser's session cookie
  req,          \* per request: where it is and what its handler knows
  sealing,      \* per replica: the key it seals with
  flipped,      \* the instant the last replica moved to the new key
  retired,      \* the old key has been dropped from the keyring
  live,         \* refresh tokens the provider still honours
  issued,       \* token sets issued so far
  expiring,     \* token sets inside the refresh margin of their expiry
  seals,        \* sessions sealed into a cookie value so far
  logins, sends,
  loggedOut     \* history: sessions whose logout reached the browser

idp  == <<live, issued, expiring>>
keys == <<deployed, sealing, flipped, retired>>
vars == <<now, birth, rows, cookie, req, keys, idp, seals, logins, sends,
          loggedOut>>

-----------------------------------------------------------------------------
(* Keys and handles *)

Stored  == deployed.stored    \* pgstore rather than CookieTokenStore
Rotates == deployed.rotates   \* the provider rotates refresh tokens

OldKey == 1
NewKey == 2
Sessions == 1 .. MaxLogins

NoHandle == [sess |-> 0, key |-> 0, tok |-> 0, born |-> 0, seal |-> 0]
Keep == "keep"
Clear == "clear"
Set == "set"

\* Mutant of SealingKey: a replica with an old clock has no eligible key.
SealingKeyNone(p) == IF sealing[p] = OldKey THEN 0 ELSE sealing[p]

\* sealingKey: the latest key whose use-after has passed on this replica.
SealingKey(p) == sealing[p]

\* openKindRaw: every configured key opens, future-dated ones included.
Opens(p, k) == ~(retired /\ k = OldKey)

\* A cookie value sealed by replica p.  pgstore seals only a handle to the
\* row; CookieTokenStore seals the session itself, freshly every time.
SealHandle(p, s, tok, born) ==
  IF Stored
    THEN [sess |-> s, key |-> SealingKey(p), tok |-> 0, born |-> 0,
          seal |-> 0]
    ELSE [sess |-> s, key |-> SealingKey(p), tok |-> tok, born |-> born,
          seal |-> seals + 1]

Sealed(fresh) == seals' = IF fresh /\ ~Stored THEN seals + 1 ELSE seals

Expired(born) == now - born >= MaxAge

\* Store.Get: the row exists, is not past its absolute expiry and opens;
\* CookieTokenStore.Get: the value opens and is not past it.
Resolves(p, h) ==
  /\ Opens(p, h.key)
  /\ IF Stored
       THEN /\ rows[h.sess].exists /\ ~Expired(birth[h.sess])
            /\ Opens(p, rows[h.sess].key)
       ELSE ~Expired(h.born)

TokenOf(h) == IF Stored THEN rows[h.sess].tok ELSE h.tok

-----------------------------------------------------------------------------
(* The provider *)

Issue ==
  /\ issued < MaxIssued
  /\ issued' = issued + 1
  /\ \/ expiring' = expiring
     \/ expiring' = expiring \cup {issued + 1}

\* A refresh token is honoured, and spent when the provider rotates.
Honour(t) ==
  /\ t \in live
  /\ Issue
  /\ live' = (live \ (IF Rotates THEN {t} ELSE {})) \cup {issued + 1}

\* The exchange of t fails: the provider does not honour it any more, or it
\* could not be reached, or its answer never arrived.
ExchangeFails(t, cause) ==
  \/ cause = "refused" /\ t \notin live /\ UNCHANGED idp
  \/ cause = "unreachable" /\ (UNCHANGED idp \/ Honour(t))

\* The provider ends its own session with the user, and honours none of
\* the refresh tokens it gave out.
Revoke ==
  /\ live # {} /\ live' = {}
  /\ UNCHANGED <<now, birth, rows, cookie, req, keys, issued, expiring, seals,
                 logins, sends, loggedOut>>

-----------------------------------------------------------------------------
(* The handlers *)

Idle == [pc |-> "idle", at |-> CHOOSE p \in Replicas : TRUE,
         handle |-> NoHandle, tok |-> 0, stale |-> FALSE, fits |-> TRUE,
         failed |-> "none", outcome |-> "none", act |-> Keep,
         next |-> NoHandle]

\* A request x was answered: with a cookie action and, for Set, a value.
Answer(x, outcome, act, h) ==
  [Idle EXCEPT !.pc = "done", !.handle = x.handle, !.outcome = outcome,
               !.act = act, !.next = h]
Respond(r, outcome, act, h) ==
  req' = [req EXCEPT ![r] = Answer(@, outcome, act, h)]

\* ErrRefreshRejected, for the reasons a call may wrap it: the provider
\* refused the token; the provider could not be asked, which exchangeToken
\* does not tell from a refusal; or either, and the store would not say
\* whether the failure was this call's to report.
Rejections == {"refused", "unreachable", "unrecorded"}

\* sessionGone
SessionGone(err) == err \in {"nosession", "toobig"} \cup Rejections

\* The session could not be resolved: its cookie goes only when the session
\* has.
ErrorAnswer(x, err) ==
  Answer(x, err, IF SessionGone(err) THEN Clear ELSE Keep, NoHandle)
RespondError(r, err) == req' = [req EXCEPT ![r] = ErrorAnswer(@, err)]

\* The browser sends a request with its cookie, or logs out with it.
Send(r, p) ==
  /\ req[r].pc = "idle" /\ sends < MaxSends
  /\ cookie # NoHandle
  /\ sends' = sends + 1
  /\ \E pc \in {"sent", "logout"} :
       req' = [req EXCEPT ![r] = [@ EXCEPT !.pc = pc, !.at = p,
                                           !.handle = cookie]]
  /\ UNCHANGED <<now, birth, rows, cookie, keys, idp, seals, logins, loggedOut>>

\* readTokenCookie: resolve the cookie through the store, which may not
\* answer.
ReadTokenCookie(r) ==
  /\ req[r].pc = "sent"
  /\ LET p == req[r].at
         h == req[r].handle
     IN  \/ /\ Resolves(p, h)
            /\ req' = [req EXCEPT ![r].pc = "read", ![r].tok = TokenOf(h),
                                  ![r].stale = h.key # SealingKey(p)]
         \/ ~Resolves(p, h) /\ RespondError(r, "nosession")
         \/ Stored /\ RespondError(r, "unavailable")
  /\ UNCHANGED <<now, birth, rows, cookie, keys, idp, seals, logins, sends,
                 loggedOut>>

\* Mutant of CarriedBirth: the refreshed session starts its life anew.
CarriedBirthNow(h) == now

\* The issued_at a refresh or a re-seal carries forward.
CarriedBirth(h) == h.born

\* The cookie is written only when the handle moved.
WriteHandle(r, outcome, v) ==
  IF v # req[r].handle THEN Respond(r, outcome, Set, v)
                       ELSE Respond(r, outcome, Keep, NoHandle)

\* The tail of checkTokenExpiry for a session whose handle the store gave as
\* v: a value read under another key is re-sealed, which always makes a new
\* value, before the one write; or left as it is when sealing fails.
Serve(r, v) ==
  LET h == req[r].handle
  IN  \/ /\ req[r].stale
         /\ Respond(r, "served", Set, SealHandle(req[r].at, h.sess,
                                        req[r].tok, CarriedBirth(h)))
         /\ Sealed(TRUE)
      \/ /\ WriteHandle(r, IF req[r].stale THEN "unmigrated" ELSE "served", v)
         /\ Sealed(FALSE)

\* checkTokenExpiry with time to spare: only a stale value is rewritten.
ServeFresh(r) ==
  /\ req[r].pc = "read"
  /\ req[r].tok \notin expiring
  /\ Serve(r, req[r].handle)
  /\ UNCHANGED <<now, birth, rows, cookie, keys, idp, logins, sends, loggedOut>>

\* The request goes on with token set t and value v.
GoOn(r, t, v) ==
  req' = [req EXCEPT ![r].pc = "refreshed", ![r].tok = t, ![r].next = v,
                     ![r].failed = "none"]

\* pgstore's Refresh, its first pass: the row's token set if somebody
\* refreshed it meanwhile, or the call remembers the one it saw.
RefreshBegins(r) ==
  /\ Stored
  /\ req[r].pc = "read" /\ req[r].tok \in expiring
  /\ LET h == req[r].handle
         t == TokenOf(h)
     IN  \/ ~Resolves(req[r].at, h) /\ RespondError(r, "nosession")
         \/ RespondError(r, "unavailable")
         \/ /\ Resolves(req[r].at, h)
            /\ IF t \notin expiring
                 THEN GoOn(r, t, h)
                 ELSE req' = [req EXCEPT ![r].pc = "refreshing", ![r].tok = t]
  /\ UNCHANGED <<now, birth, rows, cookie, keys, idp, seals, logins, sends,
                 loggedOut>>

\* Its later passes: the row is gone; it has moved, and whatever life its
\* token set has left is the answer; somebody's failure was recorded since
\* the first pass; or the wait ran out or the store did not answer.
RefreshReads(r) ==
  /\ req[r].pc = "refreshing"
  /\ LET h == req[r].handle
         t == TokenOf(h)
     IN  \/ ~Resolves(req[r].at, h) /\ RespondError(r, "nosession")
         \/ RespondError(r, "unavailable")
         \/ /\ Resolves(req[r].at, h) /\ t # req[r].tok
            /\ GoOn(r, t, h)
         \/ /\ Resolves(req[r].at, h) /\ t = req[r].tok
            /\ req[r].failed # "none"
            /\ RespondError(r, req[r].failed)
  /\ UNCHANGED <<now, birth, rows, cookie, keys, idp, seals, logins, sends,
                 loggedOut>>

\* Mutant of Owns: the fence is not read.
OwnsAlways(r) == rows[req[r].handle.sess].exists

\* The nonce of r's lease may still be in the row: it exists, and nothing
\* was written to it since r saw it.
Owns(r) ==
  /\ rows[req[r].handle.sess].exists
  /\ TokenOf(req[r].handle) = req[r].tok
  /\ req[r].failed = "none"

\* runExchange succeeds and CommitRefresh passes its fence; the call is told
\* so, or the answer is lost.
RefreshCommits(r) ==
  /\ req[r].pc = "refreshing"
  /\ Owns(r) /\ Honour(req[r].tok)
  /\ rows' = [rows EXCEPT ![req[r].handle.sess].tok = issued + 1,
                          ![req[r].handle.sess].key = SealingKey(req[r].at)]
  /\ GoOn(r, issued + 1, req[r].handle) \/ RespondError(r, "unavailable")
  /\ UNCHANGED <<now, birth, cookie, keys, seals, logins, sends, loggedOut>>

\* runExchange succeeds and its result does not reach the row: it could not
\* be sealed or written, or the lease was lost and the row is read again.
RefreshLost(r) ==
  /\ req[r].pc = "refreshing"
  /\ Honour(req[r].tok)
  /\ RespondError(r, "unavailable") \/ UNCHANGED req
  /\ UNCHANGED <<now, birth, rows, cookie, keys, seals, logins, sends,
                 loggedOut>>

\* The failure of r's exchange is in the row, where the other calls on it
\* will find it; r is answered with err.
Record(r, cause, err) ==
  req' = [q \in Requests |->
            CASE q = r -> ErrorAnswer(req[r], err)
              [] q # r /\ req[q].pc = "refreshing"
                       /\ req[q].handle.sess = req[r].handle.sess ->
                   [req[q] EXCEPT !.failed = cause]
              [] OTHER -> req[q]]

\* runExchange fails.  FailRefresh passes its fence and the failure is r's to
\* report; or FailRefresh is not answered, whether or not it was done, and
\* the failure is reported all the same.  (Fenced out, r reads again.)
RefreshFails(r) ==
  /\ req[r].pc = "refreshing"
  /\ \E cause \in {"refused", "unreachable"} :
       /\ ExchangeFails(req[r].tok, cause)
       /\ \/ Owns(r) /\ Record(r, cause, cause)
          \/ Owns(r) /\ Record(r, cause, "unrecorded")
          \/ RespondError(r, "unrecorded")
  /\ UNCHANGED <<now, birth, rows, cookie, keys, seals, logins, sends,
                 loggedOut>>

\* CookieTokenStore's Refresh: singleflight keyed on the cookie value.  A
\* call starts a flight or joins the one its replica has under way.
JoinFlight(r) ==
  /\ ~Stored
  /\ req[r].pc = "read" /\ req[r].tok \in expiring
  /\ req' = [req EXCEPT ![r].pc = "flight"]
  /\ UNCHANGED <<now, birth, rows, cookie, keys, idp, seals, logins, sends,
                 loggedOut>>

\* The requests whose call shares r's flight.
Aboard(r) == {q \in Requests : /\ req[q].pc = "flight"
                               /\ req[q].at = req[r].at
                               /\ req[q].handle = req[r].handle}

\* The exchange of r's flight ends, and everybody aboard gets its result:
\* one new sealed session, which may not fit a cookie; a failure to seal
\* it; or the failure of the exchange.
FlightEnds(r) ==
  /\ req[r].pc = "flight"
  /\ LET h == req[r].handle
         v == SealHandle(req[r].at, h.sess, issued + 1, CarriedBirth(h))
         Land(Result(_)) == req' = [q \in Requests |->
                              IF q \in Aboard(r) THEN Result(req[q])
                                                 ELSE req[q]]
     IN  \/ /\ Honour(h.tok)
            /\ \E fits \in BOOLEAN :
                 Land(LAMBDA q : [q EXCEPT !.pc = "refreshed",
                        !.tok = issued + 1, !.next = v, !.fits = fits])
            /\ Sealed(TRUE)
         \/ /\ Honour(h.tok)
            /\ Land(LAMBDA q : [q EXCEPT !.pc = "failed",
                                         !.failed = "unsealed"])
            /\ Sealed(FALSE)
         \/ /\ \E cause \in {"refused", "unreachable"} :
                 /\ ExchangeFails(h.tok, cause)
                 /\ Land(LAMBDA q : [q EXCEPT !.pc = "failed",
                                              !.failed = cause])
            /\ Sealed(FALSE)
  /\ UNCHANGED <<now, birth, rows, cookie, keys, logins, sends, loggedOut>>

\* The flight failed: the token was posted and refused, or what came back
\* could not be sealed, which says nothing of the session.
FlightFailed(r) ==
  /\ req[r].pc = "failed"
  /\ RespondError(r, req[r].failed)
  /\ UNCHANGED <<now, birth, rows, cookie, keys, idp, seals, logins, sends,
                 loggedOut>>

\* Mutant of ServeRefreshed: the refreshed handle is written as it came.
ServeRefreshedAsIs(r) ==
  /\ req[r].pc = "refreshed" /\ req[r].fits
  /\ WriteHandle(r, "served", req[r].next)
  /\ UNCHANGED <<now, birth, rows, cookie, keys, idp, seals, logins, sends,
                 loggedOut>>

\* checkTokenExpiry after a refresh; a cookie that cannot be written is a
\* session that is over.
ServeRefreshed(r) ==
  /\ req[r].pc = "refreshed"
  /\ IF req[r].fits
       THEN Serve(r, req[r].next)
       ELSE RespondError(r, "toobig") /\ Sealed(FALSE)
  /\ UNCHANGED <<now, birth, rows, cookie, keys, idp, logins, sends,
                 loggedOut>>

\* Mutant of Logout: the cookie is cleared and the session left alone.
LogoutClearsOnly(r) ==
  /\ req[r].pc = "logout"
  /\ Respond(r, "loggedout", Clear, NoHandle)
  /\ UNCHANGED <<now, birth, rows, cookie, keys, idp, seals, logins, sends,
                 loggedOut>>

\* authLogout: forget the session, and clear the cookie even when the store
\* would not answer.
Logout(r) ==
  /\ req[r].pc = "logout"
  /\ LET h == req[r].handle
     IN  \/ /\ rows' = IF Stored /\ Opens(req[r].at, h.key)
                        THEN [rows EXCEPT ![h.sess].exists = FALSE]
                        ELSE rows
            /\ Respond(r, "loggedout", Clear, NoHandle)
         \/ /\ Stored /\ Opens(req[r].at, h.key)
            /\ rows' \in {rows, [rows EXCEPT ![h.sess].exists = FALSE]}
            /\ Respond(r, "undeleted", Clear, NoHandle)
  /\ UNCHANGED <<now, birth, cookie, keys, idp, seals, logins, sends,
                 loggedOut>>

-----------------------------------------------------------------------------
(* The browser, the clock, the provider and the operator *)

\* A response reaches the browser, which acts on its Set-Cookie.
Deliver(r) ==
  /\ req[r].pc = "done"
  /\ cookie' = CASE req[r].act = Keep  -> cookie
                 [] req[r].act = Clear -> NoHandle
                 [] req[r].act = Set   -> req[r].next
  /\ loggedOut' = IF req[r].outcome = "loggedout"
                    THEN loggedOut \cup {req[r].handle.sess} ELSE loggedOut
  /\ req' = [req EXCEPT ![r] = Idle]
  /\ UNCHANGED <<now, birth, rows, keys, idp, seals, logins, sends>>

\* The client is gone before the response reaches it.
Disconnect(r) ==
  /\ req[r].pc = "done"
  /\ req' = [req EXCEPT ![r] = Idle]
  /\ UNCHANGED <<now, birth, rows, cookie, keys, idp, seals, logins, sends,
                 loggedOut>>

\* A login completes on replica p: the store creates the session and the
\* callback sets its cookie; or the cookie does not fit, or the client is
\* gone, and a session exists that no browser holds.
Login(p) ==
  /\ logins < MaxLogins
  /\ Issue
  /\ live' = live \cup {issued + 1}
  /\ logins' = logins + 1
  /\ birth' = [birth EXCEPT ![logins + 1] = now]
  /\ rows' = [rows EXCEPT ![logins + 1] =
                [exists |-> Stored, tok |-> issued + 1,
                 key |-> SealingKey(p)]]
  /\ cookie' \in {SealHandle(p, logins + 1, issued + 1, now), cookie}
  /\ Sealed(TRUE)
  /\ UNCHANGED <<now, req, keys, sends, loggedOut>>

\* The browser drops a cookie past the Expires it was set with.
BrowserExpires ==
  /\ cookie # NoHandle /\ Expired(birth[cookie.sess])
  /\ cookie' = NoHandle
  /\ UNCHANGED <<now, birth, rows, req, keys, idp, seals, logins, sends,
                 loggedOut>>

Tick ==
  /\ now < MaxNow
  /\ now' = now + 1
  /\ UNCHANGED <<birth, rows, cookie, req, keys, idp, seals, logins, sends,
                 loggedOut>>

\* A token set enters the refresh margin.
TokenAges ==
  /\ \E t \in 1 .. issued :
       t \notin expiring /\ expiring' = expiring \cup {t}
  /\ UNCHANGED <<now, birth, rows, cookie, req, keys, live, issued, seals,
                 logins, sends, loggedOut>>

\* The new key's use-after passes on replica p's own clock.
KeyTurns(p) ==
  /\ sealing[p] = OldKey
  /\ sealing' = [sealing EXCEPT ![p] = NewKey]
  /\ flipped' = now
  /\ UNCHANGED <<deployed, now, birth, rows, cookie, req, idp, retired, seals,
                 logins, sends, loggedOut>>

\* The operator drops the old key, having waited out the maximum session
\* age since every replica stopped sealing with it.
RetireKey ==
  /\ ~retired
  /\ \A p \in Replicas : sealing[p] = NewKey
  /\ now >= flipped + MaxAge
  /\ retired' = TRUE
  /\ UNCHANGED <<deployed, now, birth, rows, cookie, req, idp, sealing,
                 flipped, seals, logins, sends, loggedOut>>

-----------------------------------------------------------------------------
(* Specification *)

Init ==
  /\ deployed \in Deployments
  /\ now = 0
  /\ birth = [s \in Sessions |-> 0]
  /\ rows = [s \in Sessions |-> [exists |-> FALSE, tok |-> 0, key |-> 0]]
  /\ cookie = NoHandle
  /\ req = [r \in Requests |-> Idle]
  /\ sealing = [p \in Replicas |-> OldKey] /\ flipped = 0 /\ retired = FALSE
  /\ live = {} /\ issued = 0 /\ expiring = {}
  /\ seals = 0 /\ logins = 0 /\ sends = 0
  /\ loggedOut = {}

Handle(r) ==
  \/ ReadTokenCookie(r) \/ ServeFresh(r) \/ RefreshBegins(r)
  \/ RefreshReads(r) \/ RefreshCommits(r) \/ RefreshLost(r) \/ RefreshFails(r)
  \/ JoinFlight(r) \/ FlightEnds(r) \/ FlightFailed(r) \/ ServeRefreshed(r)
  \/ Logout(r)

Next ==
  \/ \E r \in Requests : \/ \E p \in Replicas : Send(r, p)
                         \/ Handle(r) \/ Deliver(r) \/ Disconnect(r)
  \/ \E p \in Replicas : Login(p) \/ KeyTurns(p)
  \/ BrowserExpires \/ Tick \/ TokenAges \/ Revoke \/ RetireKey

Spec == Init /\ [][Next]_vars

-----------------------------------------------------------------------------
(* Properties *)

Handles ==
  [sess: Sessions, key: {OldKey, NewKey}, tok: 0 .. MaxIssued,
   born: 0 .. MaxNow, seal: Nat] \cup {NoHandle}

\* Type correctness; in particular every value in a browser or in a response
\* is sealed under a key of the ring.
AuthTypeOK ==
  /\ now \in 0 .. MaxNow /\ birth \in [Sessions -> 0 .. MaxNow]
  /\ cookie \in Handles
  /\ \A r \in Requests :
       /\ req[r].handle \in Handles /\ req[r].next \in Handles
       /\ req[r].pc # "idle" => req[r].handle # NoHandle
       /\ req[r].act = Set => req[r].next # NoHandle
  /\ \A s \in Sessions : rows[s].exists => rows[s].key \in {OldKey, NewKey}
  /\ live \subseteq 1 .. issued /\ expiring \subseteq 1 .. issued
  /\ loggedOut \subseteq 1 .. logins

\* A session that a handle can go on with no longer: past its absolute
\* expiry, its row gone, or its refresh token not honoured any more.
Over(h) ==
  \/ Expired(birth[h.sess])
  \/ Stored /\ ~rows[h.sess].exists
  \/ TokenOf(h) \notin live

\* The answers that clear a cookie and are no claim that its session is over:
\* a logout; a provider that could not be reached, which the code treats as
\* a refusal; a failure that could not be recorded, which may be somebody
\* else's; and a token set too big for a cookie, unless the one it replaces
\* has been rotated away.
NoClaim(x) ==
  \/ x.outcome \in {"loggedout", "undeleted", "unreachable", "unrecorded"}
  \/ x.outcome = "toobig" /\ ~Rotates

\* sessionGone, openKindRaw and the fences of refresh.go: whenever else a
\* response tells the browser to drop its session cookie, that session is
\* over; a store that would not answer, somebody else's refresh or flight, a
\* key rollover with skewed clocks, and the retirement of the old key on
\* schedule log nobody out.
ClearOnlyWhenOver ==
  \A r \in Requests :
    req[r].pc = "done" /\ req[r].act = Clear /\ ~NoClaim(req[r])
      => Over(req[r].handle)

\* CookieTokenStore.seal and Store.Get: no refresh and no re-seal, however
\* many of them, lets a session be resolved past the maximum age counted
\* from its login.
AbsoluteExpiry ==
  [][\A r \in Requests :
       req[r].pc = "sent" /\ req'[r].pc = "read"
         => ~Expired(birth[req[r].handle.sess])]_vars

\* checkTokenExpiry: a request that came in under another key than its
\* replica seals with is answered with a cookie under that key, on the
\* refresh path too, unless sealing itself failed.
StaleIsMigrated ==
  [][\A r \in Requests :
       req[r].stale /\ req[r].pc # "done" /\ req'[r].pc = "done"
                    /\ req'[r].outcome = "served"
         => /\ req'[r].act = Set
            /\ req'[r].next.key = SealingKey(req[r].at)]_vars

\* deleteSession over pgstore: a browser whose logout completed holds no
\* cookie that opens the session, whatever responses were still on their
\* way to it ("ends the session in that one browser").
LogoutSticks ==
  Stored /\ cookie.sess \in loggedOut =>
    \A p \in Replicas : ~Resolves(p, cookie)

\* The comment on TokenStore.Reseal: it "writes no tokens, so there is
\* nothing to clobber".  No Set-Cookie on its way to the browser re-seals
\* the token set its request came in with over a newer one.
ResealClobbersNothing ==
  \A r \in Requests :
    /\ req[r].pc = "done" /\ req[r].act = Set
    /\ req[r].next.sess = cookie.sess
    /\ req[r].next.tok = req[r].handle.tok
    => req[r].next.tok >= cookie.tok

=============================================================================
