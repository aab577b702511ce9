--------------------------- MODULE TokenExchange ---------------------------
(***************************************************************************)
(* The token endpoint round trip of one session (application_auth.go,      *)
(* token.go): the context it runs on, what a response is turned into, and  *)
(* a chain of refreshes, each made of what the last one left.              *)
(*                                                                         *)
(* The store hands down a context: pgstore's carries a deadline of its own *)
(* choosing, CookieTokenStore's is the request's and carries none.  The    *)
(* request may be cancelled while the round trip is under way.             *)
(*                                                                         *)
(* Machine integers keep their width: MaxInt32 and MaxInt64 stand for the  *)
(* largest values, and Second for the nanoseconds in one second, scaled    *)
(* down together so that an int32 of seconds fits an int64 of nanoseconds  *)
(* and an int64 of seconds does not.  Instants are in nanoseconds.         *)
(***************************************************************************)
EXTENDS Integers

CONSTANTS
  RefreshTimeout,   \* tokenRefreshTimeout
  RefreshMargin,    \* tokenRefreshMargin
  AssumedLifetime,  \* assumedAccessTokenLifetime
  StoreTimeouts,    \* the deadlines stores hand down, from now; NoDeadline
  MaxInt32, MaxInt64, Second,
  Lifetimes,        \* the expires_in values the provider may send; 0: none
  MaxNow,           \* bound: instants
  MaxIssued         \* bound: token sets the provider issues

NoDeadline == -1

ASSUME TokenAssumption ==
  /\ RefreshTimeout \in Nat \ {0} /\ RefreshMargin \in Nat
  /\ AssumedLifetime \in Nat \ {0}
  /\ StoreTimeouts \subseteq (Nat \ {0}) \cup {NoDeadline}
  /\ MaxInt32 \in Nat \ {0} /\ MaxInt64 \in Nat /\ Second \in Nat \ {0}
  /\ (MaxInt32 + 1) * Second <= MaxInt64 + 1
  /\ Lifetimes \subseteq Int
  /\ MaxNow \in Nat /\ MaxIssued \in Nat

VARIABLES
  now,
  sess,     \* the session: its refresh token and the access token's expiry
  trip,     \* the round trip under way
  reply,    \* the provider's response on its way back
  live,     \* refresh tokens the provider honours
  issued,
  excused   \* history: an issued token set was late or could not be read

vars == <<now, sess, trip, reply, live, issued, excused>>

Zero == -(2 * (MaxInt64 + 1))   \* the zero time, long before any other
NoToken == 0                    \* the empty refresh token
Home == [pc |-> "home", at |-> 0, budget |-> NoDeadline,
         deadline |-> NoDeadline, cancels |-> FALSE, gone |-> FALSE]

-----------------------------------------------------------------------------
(* The context of the exchange *)

\* Mutant of DetachedDeadline: the request's cancellation comes along.
DetachedDeadlineAttached(parent) ==
  [deadline |-> IF parent # NoDeadline /\ parent < now + RefreshTimeout
                  THEN parent ELSE now + RefreshTimeout,
   cancels |-> TRUE]

\* Mutant of DetachedDeadline: the store's deadline goes with the
\* cancellation.
DetachedDeadlineOwn(parent) ==
  [deadline |-> now + RefreshTimeout, cancels |-> FALSE]

\* Mutant of DetachedDeadline: the parent's deadline is all there is.
DetachedDeadlineParent(parent) == [deadline |-> parent, cancels |-> FALSE]

\* detachedDeadline: the sooner of the parent's deadline and the timeout,
\* without the parent's cancellation.
DetachedDeadline(parent) ==
  [deadline |-> IF parent # NoDeadline /\ parent < now + RefreshTimeout
                  THEN parent ELSE now + RefreshTimeout,
   cancels |-> FALSE]

-----------------------------------------------------------------------------
(* Reading a response *)

\* Conversion of n to a signed integer whose largest value is max.
Wrapped(n, max) == ((n + max + 1) % (2 * (max + 1))) - (max + 1)

\* Mutant of ExpirationTime: the int32 is not guarded.
ExpirationTimeWraps(n) == Wrapped(n, MaxInt32)

\* expirationTime.UnmarshalJSON: an int64 cut down to an int32, guarded on
\* its upper side only.
ExpirationTime(n) == Wrapped(IF n > MaxInt32 THEN MaxInt32 ELSE n, MaxInt32)

\* The form-encoded expires_in: Atoi saturates on what does not fit.
FormExpiry(n) == IF n > MaxInt64 THEN MaxInt64
                 ELSE IF n < -(MaxInt64 + 1) THEN -(MaxInt64 + 1) ELSE n

\* The expiry of a token whose lifetime was read as n seconds.
ExpiryIn(n) == IF n = 0 THEN Zero ELSE now + Wrapped(n * Second, MaxInt64)

\* A response: its status, whether its body parses, the error and access
\* token in it, and the optional fields.
NoReply == [none |-> TRUE]
Reply(ok, parses, error, access, refresh, expires, json) ==
  [none |-> FALSE, ok |-> ok, parses |-> parses, error |-> error,
   access |-> access, refresh |-> refresh, expires |-> expires,
   json |-> json]
TokenReply(refresh, expires, json) ==
  Reply(TRUE, TRUE, FALSE, TRUE, refresh, expires, json)

\* json.Number.Int64: a JSON lifetime beyond an int64 does not parse.
Readable(expires, json) == json => expires \in -(MaxInt64 + 1) .. MaxInt64

\* doTokenRoundTrip: whether a response is a token set at all.  A failure
\* status, an error code on a 200, a body that does not parse and a missing
\* access token are errors.
Usable(r) ==
  /\ ~r.none /\ r.parses /\ Readable(r.expires, r.json)
  /\ r.ok /\ ~r.error /\ r.access

\* doTokenRoundTrip: the token set of a usable response.
TokenOf(r) ==
  [refresh |-> r.refresh,
   expiry |-> ExpiryIn(IF r.json THEN ExpirationTime(r.expires)
                                 ELSE FormExpiry(r.expires))]

\* exchangeRefreshToken: a response without a refresh token leaves the
\* session the one it has.
Carried(tok, refreshToken) ==
  IF tok.refresh = NoToken THEN [tok EXCEPT !.refresh = refreshToken] ELSE tok

\* assumeTokenExpiry
Assumed(tok) ==
  IF tok.expiry = Zero THEN [tok EXCEPT !.expiry = now + AssumedLifetime]
                       ELSE tok

-----------------------------------------------------------------------------
(* The session *)

Granted(tok, r) == [on |-> TRUE, refresh |-> tok.refresh,
                    expiry |-> tok.expiry, got |-> now,
                    expires |-> r.expires, json |-> r.json]
NoSession == [on |-> FALSE, refresh |-> NoToken, expiry |-> 0, got |-> 0,
              expires |-> 0, json |-> TRUE]

\* A token set the provider issues: a new refresh token, which replaces the
\* one presented, or none in the response, which leaves it valid.
Grants(t) ==
  /\ issued < MaxIssued
  /\ issued' = issued + 1
  /\ \E e \in Lifetimes, json \in BOOLEAN :
     /\ excused' = (excused \/ ~Readable(e, json))
     /\ \/ /\ live' = (live \ {t}) \cup {issued + 1}
           /\ reply' = TokenReply(issued + 1, e, json)
        \/ /\ live' = live
           /\ reply' = TokenReply(NoToken, e, json)

\* authCallback: a login, whose exchange the oauth2 library does and whose
\* response carries a refresh token.
Login ==
  /\ ~sess.on /\ trip = Home /\ issued < MaxIssued
  /\ issued' = issued + 1 /\ live' = live \cup {issued + 1}
  /\ \E e \in {e \in Lifetimes : Readable(e, TRUE)} :
       LET r == TokenReply(issued + 1, e, TRUE)
       IN  sess' = Granted(Assumed(TokenOf(r)), r)
  /\ excused' = FALSE
  /\ UNCHANGED <<now, trip, reply>>

\* checkTokenExpiry finds the token within the margin, and the store runs
\* the exchange on a context with the deadline it sets, if any.
Start ==
  /\ sess.on /\ trip = Home
  /\ sess.expiry - now <= RefreshMargin
  /\ now + RefreshTimeout <= MaxNow
  /\ \E d \in StoreTimeouts :
       LET parent == IF d = NoDeadline THEN NoDeadline ELSE now + d
           ctx == DetachedDeadline(parent)
       IN  trip' = [pc |-> "posted", at |-> now, budget |-> parent,
                    deadline |-> ctx.deadline, cancels |-> ctx.cancels,
                    gone |-> FALSE]
  /\ UNCHANGED <<now, sess, reply, live, issued, excused>>

\* The provider acts on the refresh token it was posted.
ProviderGrants ==
  /\ trip.pc = "posted" /\ reply = NoReply
  /\ sess.refresh \in live
  /\ Grants(sess.refresh)
  /\ UNCHANGED <<now, sess, trip>>

\* The provider refuses, or answers with something that is not a token set
\* after it has acted.
ProviderFails ==
  /\ trip.pc = "posted" /\ reply = NoReply
  /\ \E ok, parses, error, access \in BOOLEAN :
       reply' = Reply(ok, parses, error, access, NoToken, 0, TRUE)
  /\ ~Usable(reply')
  /\ live' = live \ {sess.refresh}
  /\ excused' = TRUE
  /\ UNCHANGED <<now, sess, trip, issued>>

\* exchangeRefreshToken returns the token set, and the store keeps it.
Complete ==
  /\ trip.pc = "posted" /\ Usable(reply)
  /\ sess' = Granted(Assumed(Carried(TokenOf(reply), sess.refresh)), reply)
  /\ trip' = Home /\ reply' = NoReply
  /\ UNCHANGED <<now, live, issued, excused>>

\* The round trip ends in an error, and exchangeToken ends the session.
Fail ==
  /\ trip.pc = "posted"
  /\ sess' = [sess EXCEPT !.on = FALSE]
  /\ trip' = Home /\ reply' = NoReply
  /\ UNCHANGED <<now, live, issued>>

BadReply ==
  /\ ~reply.none /\ ~Usable(reply)
  /\ Fail
  /\ UNCHANGED excused

\* The client that asked for this goes away.
Disconnect ==
  /\ trip.pc = "posted" /\ ~trip.gone
  /\ trip' = [trip EXCEPT !.gone = TRUE]
  /\ UNCHANGED <<now, sess, reply, live, issued, excused>>

DeadlineDue == trip.deadline # NoDeadline /\ now >= trip.deadline

\* The context of the round trip is done, whether or not the provider has
\* acted.  That is excused when the store's budget or the timeout is spent.
ContextEnds ==
  /\ DeadlineDue \/ (trip.cancels /\ trip.gone)
  /\ Fail
  /\ excused' = \/ excused
                \/ now >= trip.at + RefreshTimeout
                \/ trip.budget # NoDeadline /\ now >= trip.budget

\* Time passes, but not past a deadline that is due.
Tick ==
  /\ now < MaxNow
  /\ ~DeadlineDue
  /\ now' = now + 1
  /\ UNCHANGED <<sess, trip, reply, live, issued, excused>>

-----------------------------------------------------------------------------
(* Specification *)

Init ==
  /\ now = 0 /\ sess = NoSession /\ trip = Home /\ reply = NoReply
  /\ live = {} /\ issued = 0 /\ excused = FALSE

Next ==
  \/ Login \/ Start \/ ProviderGrants \/ ProviderFails
  \/ Complete \/ BadReply \/ ContextEnds \/ Disconnect \/ Tick

Spec == Init /\ [][Next]_vars

\* Clocks advance and the runtime fires deadlines and delivers what has
\* arrived.  Nothing is assumed of the provider.
FairSpec ==
  Spec /\ WF_vars(Tick) /\ WF_vars(ContextEnds)
       /\ WF_vars(Complete) /\ WF_vars(BadReply)

-----------------------------------------------------------------------------
(* Properties *)

\* exchangeRefreshToken and detachedDeadline: over any chain of refreshes, a
\* session that the provider keeps honouring in time and readably stays
\* alive and holds a refresh token the provider still honours, whichever of
\* the optional fields the responses leave out and whichever clients go
\* away.
SessionSurvives ==
  issued > 0 /\ ~excused =>
    sess.on /\ (trip.pc = "home" => sess.refresh \in live)

\* detachedDeadline: detaching the round trip from its request never lets it
\* run past the budget the store sized its lease for, nor past the timeout.
WithinBudget ==
  trip.pc = "posted" =>
    /\ now <= trip.at + RefreshTimeout
    /\ trip.budget # NoDeadline => now <= trip.budget

\* A lifetime the code converts without leaving the width it is in: the
\* int32 is not guarded below, and the form's seconds are multiplied
\* unguarded.
Fits(expires, json) ==
  IF json THEN expires >= -(MaxInt32 + 1)
          ELSE expires * Second \in -(MaxInt64 + 1) .. MaxInt64

\* expirationTime, expiry and assumeTokenExpiry: the expiry a session is
\* given is not beyond what the provider promised, at the widths' edges too,
\* and lies after the instant its token arrived unless the provider sent a
\* lifetime below zero; a response that promises nothing gets a lifetime all
\* the same.
ExpirySound ==
  sess.on /\ Fits(sess.expires, sess.json) =>
    /\ sess.expires >= 0 => sess.expiry > sess.got
    /\ sess.expires # 0 => sess.expiry <= sess.got + sess.expires * Second

\* detachedDeadline: every round trip ends, even when the provider never
\* answers and the store set no deadline.
TripEnds == trip.pc = "posted" ~> trip.pc = "home"

=============================================================================
