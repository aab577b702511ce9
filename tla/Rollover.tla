------------------------------ MODULE Rollover ------------------------------
(***************************************************************************)
(* A fleet of replicas through cookie key rollovers (Keyring): each has a  *)
(* keyring read from the environment when it last started, and a clock of  *)
(* its own.  An operator follows docs/cookies.md section 11, may revoke a  *)
(* key at once, may move the application between the two stores, and may   *)
(* get an environment wrong and correct it; a deploy restarts one replica  *)
(* at a time, and a replica may restart at any moment.                     *)
(*                                                                         *)
(* One browser holds a session: its cookie and, with pgstore, a row, both  *)
(* sealed.  A response reaches the browser at once; AuthSessions has the   *)
(* ones that do not.                                                       *)
(*                                                                         *)
(* now is the slowest clock.  Another clock is ahead of it by at most      *)
(* MaxSkew and is never set back: sealingKey is nil on a replica whose     *)
(* clock goes back past its only eligible key.                             *)
(***************************************************************************)
EXTENDS Keyring, FiniteSets

CONSTANTS
  Replicas,
  Names,        \* cookie names an application may ask for
  RowIDs,       \* the ids rows are given, in the order of their creation
  MaxSkew,      \* how far a clock may be ahead of the slowest one
  Lead,         \* how far ahead a new key is dated
  MaxAge,       \* the maximum session age
  MaxKeys,      \* bound: keys ever generated
  MaxNow,       \* bound: instants
  MaxLogins,    \* bound: sessions created
  MaxIncidents  \* bound: revocations, mistakes and moves between stores

ASSUME RolloverAssumption ==
  /\ MaxSkew \in Nat /\ MaxAge \in Nat \ {0}
  /\ Lead \in Nat /\ Lead > MaxSkew
  /\ MaxKeys \in Nat \ {0} /\ MaxNow \in Nat /\ MaxLogins \in Nat
  /\ MaxIncidents \in Nat
  /\ Replicas # {} /\ Names \subseteq Seq(STRING)
  /\ RowIDs \in Seq(STRING \ {"none"}) /\ MaxLogins <= Len(RowIDs)

VARIABLES
  now, skew,
  app,          \* the application's cookie name
  env,          \* the deployed environment: its entries, the entries of
                \* the one before it, and its store
  ring,         \* per replica: its keyring, empty when it is not running
  kind,         \* per replica: what its store seals into the cookie
  cookie, row,  \* the browser's session
  made,         \* keys generated so far
  revoked,      \* keys revoked at once
  logins, incidents

vars == <<now, skew, app, env, ring, kind, cookie, row, made, revoked,
          logins, incidents>>

clocks  == <<now, skew>>
fleet   == <<app, ring, kind>>
session == <<cookie, row>>
bounds  == <<made, logins, incidents>>

NoValue == [version |-> 0, kind |-> Payload, kid |-> 0, aad |-> <<>>]
NoCookie == [value |-> NoValue, born |-> 0, held |-> FALSE]
NoRow == [id |-> "none", payload |-> NoValue, born |-> 0]

Clock(p) == now + skew[p]
Running(p) == ring[p] # {}
CanSeal(p) == SealingKey(ring[p], Clock(p)) # NoKey

-----------------------------------------------------------------------------
(* Requests on replica p *)

CookieOf(p) == SealKind(ring[p], Clock(p), kind[p], CookieDomain(Session, app))
PayloadOf(p, id) == SealKind(ring[p], Clock(p), Payload,
                             PayloadDomain(app, id))

OpenCookie(p) ==
  OpenKind(ring[p], Clock(p), kind[p], CookieDomain(Session, app),
           cookie.value)

OpenRow(p) ==
  OpenKind(ring[p], Clock(p), Payload, PayloadDomain(app, row.id),
           row.payload)

\* What Get says of the browser's cookie: the cookie opens and, over
\* pgstore, so does the row.
Resolve(p) ==
  IF OpenCookie(p) # "ok" \/ kind[p] = Payload THEN OpenCookie(p)
                                               ELSE OpenRow(p)

\* The age, on the replica's clock over the cookie and on the database's
\* over the row.
Aged(p) == IF kind[p] = Payload THEN Clock(p) - cookie.born >= MaxAge
                                ELSE now - row.born >= MaxAge

\* A login through the store of replica p.
Login(p) ==
  /\ Running(p) /\ CanSeal(p)
  /\ logins < MaxLogins
  /\ logins' = logins + 1
  /\ cookie' = [value |-> CookieOf(p), born |-> Clock(p), held |-> TRUE]
  /\ row' = IF kind[p] = Handle
              THEN [id |-> RowIDs[logins + 1],
                    payload |-> PayloadOf(p, RowIDs[logins + 1]),
                    born |-> now]
              ELSE row
  /\ UNCHANGED <<clocks, env, fleet, revoked, made, incidents>>

\* A request that renews nothing: a cookie under another key is re-sealed,
\* one that cannot be resolved is cleared.
Request(p) ==
  /\ Running(p) /\ cookie.held
  /\ cookie' = IF Resolve(p) = "ok" /\ ~Aged(p)
                 THEN IF cookie.value.kid = SealingKey(ring[p], Clock(p)).kid
                        THEN cookie
                        ELSE [cookie EXCEPT !.value = CookieOf(p)]
                 ELSE NoCookie
  /\ UNCHANGED <<clocks, env, fleet, row, revoked, bounds>>

\* A request that refreshes the session: over pgstore the row is sealed
\* again, and otherwise the whole session.
Refresh(p) ==
  /\ Running(p) /\ cookie.held
  /\ Resolve(p) = "ok" /\ ~Aged(p)
  /\ cookie' = [cookie EXCEPT !.value = CookieOf(p)]
  /\ row' = IF kind[p] = Handle
              THEN [row EXCEPT !.payload = PayloadOf(p, row.id)] ELSE row
  /\ UNCHANGED <<clocks, env, fleet, revoked, bounds>>

-----------------------------------------------------------------------------
(* The fleet and its clocks *)

\* Replica p restarts and reads the environment; one that it does not accept
\* keeps it down.
Restart(p) ==
  /\ LET up == NewCookieKeyring(env.entries, Clock(p))
     IN  /\ ring' = [ring EXCEPT ![p] = IF up THEN env.entries ELSE {}]
         /\ kind' = [kind EXCEPT ![p] = IF up THEN env.kind ELSE @]
  /\ UNCHANGED <<clocks, app, env, session, revoked, bounds>>

\* The last change has been deployed: "every replica now accepts both keys".
RolledOut == \A p \in Replicas : Running(p) /\ ring[p] = env.entries

\* No replica would start with the environment.
Refused == \A p \in Replicas : ~NewCookieKeyring(env.entries, Clock(p))

\* The rollout of a key finishes before it may seal anywhere: "no replica
\* may seal with a key another replica has not got".
InTime(t) == \A p \in Replicas : \A k \in env.entries \ ring[p] :
               Running(p) => t + MaxSkew < k.useAfter

Tick ==
  /\ now < MaxNow
  /\ Refused \/ InTime(now + 1)
  /\ now' = now + 1
  /\ \E s \in [Replicas -> 0 .. MaxSkew] :
       /\ \A p \in Replicas : now + 1 + s[p] >= Clock(p)
       /\ skew' = s
  /\ UNCHANGED <<env, fleet, session, revoked, bounds>>

-----------------------------------------------------------------------------
(* The operator, one change at a time *)

Change(entries) ==
  env' = [env EXCEPT !.entries = entries, !.last = env.entries]
Incident == incidents < MaxIncidents /\ incidents' = incidents + 1

\* Step 1: add a key, dated ahead of everything there is.
AddKey ==
  /\ RolledOut /\ made < MaxKeys
  /\ made' = made + 1
  /\ LET k == [kid |-> made + 1, useAfter |-> now + Lead]
     IN  /\ \A e \in env.entries : e.useAfter < k.useAfter
         /\ Change(env.entries \cup {k})
  /\ UNCHANGED <<clocks, fleet, session, revoked, logins, incidents>>

\* Steps 3 and 4: drop a key that another has superseded on every replica
\* for the maximum session age.
DropKey ==
  /\ RolledOut
  /\ \E k, later \in env.entries :
       /\ k.useAfter < later.useAfter
       /\ now >= later.useAfter + MaxSkew + MaxAge
       /\ Change(env.entries \ {k})
  /\ UNCHANGED <<clocks, fleet, session, revoked, bounds>>

\* "Emergency revocation is step 4 done immediately."
Revoke ==
  /\ RolledOut /\ Incident
  /\ \E k \in env.entries :
       /\ Change(env.entries \ {k})
       /\ revoked' = revoked \cup {k.kid}
  /\ UNCHANGED <<clocks, fleet, session, made, logins>>

\* An entry that does not parse, that repeats a secret, or that shares
\* another's use-after.
BadEntries ==
  {[kid |-> 0, useAfter |-> now + Lead]}
    \cup {[k EXCEPT !.useAfter = now + Lead] : k \in env.entries}
    \cup {[k EXCEPT !.kid = made + 1] : k \in env.entries}

Misconfigure ==
  /\ RolledOut /\ Incident
  /\ \E e \in BadEntries \ env.entries : Change(env.entries \cup {e})
  /\ UNCHANGED <<clocks, fleet, session, revoked, made, logins>>

\* The operator takes back a change that no replica starts with; keys that
\* it had revoked are back in use.
Correct ==
  /\ Refused
  /\ Change(env.last)
  /\ revoked' = revoked \ {k.kid : k \in env.last}
  /\ UNCHANGED <<clocks, fleet, session, bounds>>

SwitchStore ==
  /\ RolledOut /\ Incident
  /\ env' = [env EXCEPT !.kind = IF @ = Payload THEN Handle ELSE Payload]
  /\ UNCHANGED <<clocks, fleet, session, revoked, made, logins>>

-----------------------------------------------------------------------------
(* Specification *)

FirstKey == [kid |-> 1, useAfter |-> 0]

\* A cookie that a release from before sealing left, or a newer one.
Leftover(version) == [value |-> [NoValue EXCEPT !.version = version],
                      born |-> 0, held |-> TRUE]

Init ==
  /\ now = 0 /\ skew = [p \in Replicas |-> 0]
  /\ app \in {n \in Names : ValidCookieName(n)}
  /\ \E k \in {Payload, Handle} :
       /\ env = [entries |-> {FirstKey}, last |-> {FirstKey}, kind |-> k]
       /\ kind = [p \in Replicas |-> k]
  /\ ring = [p \in Replicas |-> {FirstKey}]
  /\ cookie \in {NoCookie, Leftover(0), Leftover(2)}
  /\ row = NoRow
  /\ made = 1 /\ revoked = {}
  /\ logins = 0 /\ incidents = 0

Next ==
  \/ \E p \in Replicas : Login(p) \/ Request(p) \/ Refresh(p) \/ Restart(p)
  \/ Tick
  \/ AddKey \/ DropKey \/ Revoke \/ Misconfigure \/ Correct \/ SwitchStore

Spec == Init /\ [][Next]_vars

-----------------------------------------------------------------------------
(* Properties *)

Keys == [kid: 1 .. MaxKeys + 1, useAfter: 0 .. MaxNow + Lead]

\* Type correctness.  A keyring that a process has started with always has a
\* key to seal with: a rollover-dated key alone is refused at startup, not
\* at the first login.
RolloverTypeOK ==
  /\ now \in 0 .. MaxNow /\ skew \in [Replicas -> 0 .. MaxSkew]
  /\ ring \in [Replicas -> SUBSET Keys]
  /\ kind \in [Replicas -> {Payload, Handle}]
  /\ \A p \in Replicas : Running(p) => CanSeal(p)

\* The session is in the browser, its replica has the store it came from,
\* and nobody revoked what it is sealed under.
Live(p) ==
  /\ cookie.held /\ cookie.value.version = 1
  /\ cookie.value.kind = kind[p] /\ ~Aged(p)
  /\ cookie.value.kid \notin revoked
  /\ kind[p] = Handle => row.payload.kid \notin revoked

\* openKindRaw and sealingKey: at every moment of a rollover that follows
\* the runbook, with clocks apart and replicas deployed one by one, every
\* running replica opens every session that has not ended: "Nobody is logged
\* out".
NoneStranded ==
  \A p \in Replicas : Running(p) /\ Live(p) => Resolve(p) = "ok"

\* newCookieKeyring: whatever environment was deployed, which key a running
\* replica seals with is never a coin flip, now or when a later key's time
\* comes.
NoCoinFlip ==
  \A p \in Replicas : Cardinality(Latest(ring[p], Clock(p))) <= 1

\* openKindRaw: only tampering and crossed environments are reported as
\* ErrAuthentication.  A value this application sealed, or a leftover of
\* another release, never is: not across rollovers, revocations or a move
\* between the stores.
NoFalseAlarm ==
  \A p \in Replicas :
    Running(p) /\ cookie.held => Resolve(p) # "authentication"

\* Where a sealed value may turn up: the session and redirect cookies and
\* the rows of every application.
Applications == {n \in Names : ValidCookieName(n)}

Places ==
  [kind: {Payload, Handle}, purpose: {Session, AuthRedirect},
   name: Applications, row: {"none"}]
  \cup [kind: {Payload}, purpose: {Store}, name: Applications,
        row: {RowIDs[i] : i \in DOMAIN RowIDs}]

DomainOf(q) == IF q.row = "none" THEN CookieDomain(q.purpose, q.name)
                                 ELSE PayloadDomain(q.name, q.row)

OpensOnlyAt(p, v, own) ==
  \A q \in Places \ {own} :
    OpenKind(ring[p], Clock(p), q.kind, DomainOf(q), v) # "ok"

\* cookieEnvelopeAAD, cookieDomain and payloadDomain: a sealed value opens
\* in the one place it was sealed for, and nowhere else in any application
\* that shares the keyring.
BoundToPlace ==
  \A p \in Replicas :
    /\ OpensOnlyAt(p, cookie.value,
         [kind |-> cookie.value.kind, purpose |-> Session, name |-> app,
          row |-> "none"])
    /\ OpensOnlyAt(p, row.payload,
         [kind |-> Payload, purpose |-> Store, name |-> app,
          row |-> row.id])

=============================================================================
