--------------------------- MODULE RolloverProofs ---------------------------
(***************************************************************************)
(* Theorems about Rollover, for any number of replicas, keys, rows and     *)
(* sessions, any names, any skew and any lead longer than it: types, one   *)
(* sealing key, nobody stranded, no false alarm, and each sealed value     *)
(* bound to its place.                                                     *)
(***************************************************************************)
EXTENDS Rollover, FiniteSetTheorems, SequenceTheorems, WellFoundedInduction,
        TLAPS

-----------------------------------------------------------------------------
(* The inductive invariant *)

Kids(S) == {k.kid : k \in S}

Entries == [kid: 0 .. MaxKeys + 1, useAfter: 0 .. MaxNow + Lead]

\* Every entry parses, and no two share a secret or a date.
Clean(S) ==
  /\ \A e \in S : e.kid # 0
  /\ \A e, f \in S : e # f => e.kid # f.kid /\ e.useAfter # f.useAfter

Accepts(S, p) == NewCookieKeyring(S, Clock(p))

\* The variables' types.  Of the entries only the shape is claimed here; a
\* running replica has accepted its own.
Typed ==
  /\ now \in 0 .. MaxNow /\ skew \in [Replicas -> 0 .. MaxSkew]
  /\ env \in [entries: SUBSET Entries, last: SUBSET Entries,
              kind: {Payload, Handle}]
  /\ ring \in [Replicas -> SUBSET Entries]
  /\ kind \in [Replicas -> {Payload, Handle}]
  /\ app \in Names /\ ValidCookieName(app)
  /\ made \in 1 .. MaxKeys
  /\ logins \in 0 .. MaxLogins

\* A running replica would accept its keyring again, and knows only keys
\* that were generated.
RingInv ==
  \A p \in Replicas : Running(p) =>
    Accepts(ring[p], p) /\ Kids(ring[p]) \subseteq 1 .. made

\* Nothing that is not over depends on k: it was revoked, or another key has
\* superseded it for as long as a session may last.
Gone(k) ==
  \/ k.kid \in revoked
  \/ \E l \in env.entries : /\ k.useAfter < l.useAfter
                            /\ now >= l.useAfter + MaxSkew + MaxAge

\* The entries that count: the environment's, or those of the one before
\* while no replica accepts it.
Known == IF Refused THEN env.last ELSE env.entries

\* An environment that some replica accepts is being rolled out: replicas
\* lack only keys whose time is yet to come, or have more only of those that
\* are gone.
RolloutInv ==
  ~Refused =>
    /\ Kids(env.entries) \subseteq 1 .. made
    /\ InTime(now)
    /\ \A p \in Replicas : Running(p) =>
         \/ ring[p] \subseteq env.entries
         \/ /\ env.entries \subseteq ring[p]
            /\ \A k \in ring[p] \ env.entries : Gone(k)

\* One that none accepts has reached none; it is a mistake, or it dropped
\* the last key that may seal.
RefusedInv ==
  Refused =>
    /\ Kids(env.last) \subseteq 1 .. made
    /\ \A p \in Replicas : Accepts(env.last, p)
    /\ \A p \in Replicas : Running(p) => ring[p] = env.last
    /\ \/ ~Clean(env.entries)
       \/ /\ env.entries \subseteq env.last
          /\ \A k \in env.last \ env.entries : Gone(k)

\* The instant that the session's age is counted from, at the earliest.
Base == IF cookie.value.kind = Payload THEN cookie.born - MaxSkew
                                       ELSE row.born

Over == now >= Base + MaxSkew + MaxAge

\* Every running replica, and every one that starts, has the key.
Have(kid) ==
  /\ kid \in Kids(Known)
  /\ \A p \in Replicas : Running(p) => kid \in Kids(ring[p])

\* A value sealed under kid: the key that superseded its own did so after
\* the session began, and the key is there for as long as it may be needed.
SealedWell(kid) ==
  /\ kid \in 1 .. made
  /\ \A k, l \in Known : k.kid = kid /\ k.useAfter < l.useAfter =>
                           Base < l.useAfter
  /\ kid \in revoked \/ Over \/ Have(kid)

RowSet == {RowIDs[i] : i \in DOMAIN RowIDs}

\* The shape of what has been sealed, and of leftovers.
Shapes ==
  /\ cookie.value.version \in {0, 1, 2}
  /\ cookie.value.kind \in {Payload, Handle}
  /\ cookie.value.version = 1 =>
       cookie.value.aad = EnvelopeAAD(cookie.value.kind, cookie.value.kid,
                                      CookieDomain(Session, app))
  /\ row.payload.version \in {0, 1} /\ row.payload.kind = Payload
  /\ row.payload.version = 1 =>
       row.payload.aad = EnvelopeAAD(Payload, row.payload.kid,
                                     PayloadDomain(app, row.id))
  /\ cookie.held /\ cookie.value.version = 1 /\ cookie.value.kind = Handle =>
       row.payload.version = 1
  /\ cookie.born \in Int /\ row.born \in Int
  /\ row.payload.version = 1 => row.id \in RowSet

\* The keys that the session in the browser depends on.
Used ==
  IF cookie.held /\ cookie.value.version = 1
    THEN {cookie.value.kid} \cup
           (IF cookie.value.kind = Handle THEN {row.payload.kid} ELSE {})
    ELSE {}

SessionInv ==
  /\ Used # {} => Base <= now
  /\ \A kid \in Used : SealedWell(kid)

KeyInv == Typed /\ RingInv /\ RolloutInv /\ RefusedInv

RolloverInv == KeyInv /\ Shapes /\ SessionInv

-----------------------------------------------------------------------------
(* Facts about the operators of Keyring *)

\* newCookieKeyring: a keyring is accepted when its entries are clean and one
\* of them is eligible.
LEMMA AcceptedIsClean ==
  ASSUME NEW S, NEW t
  PROVE  NewCookieKeyring(S, t) <=> Clean(S) /\ \E e \in S : e.useAfter <= t
BY DEF NewCookieKeyring, Clean

\* sealingKey: among keys of which one is eligible there is a latest.
LEMMA LatestExists ==
  ASSUME NEW S \in SUBSET Entries, NEW t \in Nat,
         NEW e \in S, e.useAfter <= t
  PROVE  Latest(S, t) # {}
<1> USE RolloverAssumption
<1> DEFINE T == {n \in Nat : \E k \in S : /\ k.useAfter <= t
                                          /\ n = t - k.useAfter}
<1>1. \A k \in S : k.useAfter \in Nat
  BY DEF Entries
<1>2. t - e.useAfter \in T
  BY <1>1
<1>3. PICK x \in T : \A y \in T : ~(<<y, x>> \in OpToRel(<, Nat))
  <2>1. T \subseteq Nat /\ T # {}
    BY <1>2
  <2> QED
    BY <2>1, NatLessThanWellFounded, WFMin
<1>4. PICK k \in S : k.useAfter <= t /\ x = t - k.useAfter
  OBVIOUS
<1>5. ASSUME NEW o \in S, o.useAfter <= t
      PROVE  o.useAfter <= k.useAfter
  <2>1. t - o.useAfter \in T
    BY <1>1, <1>5
  <2>2. ~(t - o.useAfter < x)
    BY <1>3, <2>1 DEF OpToRel
  <2> QED
    BY <1>1, <1>4, <2>2
<1> QED
  BY <1>4, <1>5 DEF Latest

\* sealingKey: an accepted keyring seals with a key of its own, the latest.
LEMMA SealsWithLatest ==
  ASSUME NEW S \in SUBSET Entries, NEW t \in Nat, NewCookieKeyring(S, t)
  PROVE  /\ SealingKey(S, t) # NoKey
         /\ SealingKey(S, t) \in S
         /\ SealingKey(S, t).useAfter <= t
         /\ \A o \in S : o.useAfter <= t =>
              o.useAfter <= SealingKey(S, t).useAfter
<1>1. PICK e \in S : e.useAfter <= t
  BY DEF NewCookieKeyring
<1>2. Latest(S, t) # {}
  BY <1>1, LatestExists
<1>3. SealingKey(S, t) \in Latest(S, t)
  BY <1>2 DEF SealingKey
<1>4. SealingKey(S, t) \in S /\ SealingKey(S, t).kid # 0
  BY <1>3 DEF Latest, NewCookieKeyring
<1> QED
  BY <1>3, <1>4 DEF Latest, NoKey

\* newCookieKeyring: time only makes more keys eligible.
LEMMA AcceptedForGood ==
  ASSUME NEW S \in SUBSET Entries, NEW t \in Nat, NEW u \in Nat, t <= u,
         NewCookieKeyring(S, t)
  PROVE  NewCookieKeyring(S, u)
<1> USE RolloverAssumption
<1>1. \A k \in S : k.useAfter \in Nat
  BY DEF Entries
<1> QED
  BY <1>1 DEF NewCookieKeyring

-----------------------------------------------------------------------------
(* The keys of the fleet *)

\* Clocks are numbers, and within the skew.
LEMMA ClockBounds ==
  ASSUME Typed, NEW p \in Replicas
  PROVE  /\ Clock(p) \in Nat /\ now \in Nat
         /\ now <= Clock(p) /\ Clock(p) <= now + MaxSkew
BY RolloverAssumption DEF Typed, Clock

\* sealingKey: what a running replica seals with now is a key that every
\* running replica has and every starting one gets, unless it was revoked;
\* and no key that counts has superseded it by now.
LEMMA SealsWithCommonKey ==
  ASSUME KeyInv, NEW p \in Replicas, Running(p)
  PROVE  LET k == SealingKey(ring[p], Clock(p))
         IN  /\ k # NoKey /\ k.kid \in 1 .. made
             /\ \A j, l \in Known : j.kid = k.kid /\ j.useAfter < l.useAfter
                                      => now < l.useAfter
             /\ k.kid \in revoked \/ Have(k.kid)
<1> USE RolloverAssumption
<1> DEFINE k == SealingKey(ring[p], Clock(p))
<1>1. /\ Clock(p) \in Nat /\ now \in Nat
      /\ now <= Clock(p) /\ Clock(p) <= now + MaxSkew
  BY ClockBounds DEF KeyInv
<1>2. /\ ring[p] \in SUBSET Entries
      /\ env.entries \in SUBSET Entries /\ env.last \in SUBSET Entries
  BY DEF KeyInv, Typed
<1>3. NewCookieKeyring(ring[p], Clock(p)) /\ Kids(ring[p]) \subseteq 1 .. made
  BY DEF KeyInv, RingInv, Accepts
<1>4. /\ k # NoKey /\ k \in ring[p] /\ k.useAfter <= Clock(p)
      /\ \A o \in ring[p] : o.useAfter <= Clock(p) => o.useAfter <= k.useAfter
  BY <1>1, <1>2, <1>3, SealsWithLatest
<1>5. k.kid \in 1 .. made
  BY <1>3, <1>4 DEF Kids
<1>6. \A e \in Entries : e.useAfter \in Nat
  BY DEF Entries
<1>7. Clean(ring[p])
  BY <1>3, AcceptedIsClean
<1> HIDE DEF k
<1>8. CASE Refused
  <2>1. Known = env.last /\ ring[p] = env.last
    BY <1>8 DEF Known, KeyInv, RefusedInv
  <2>2. ASSUME NEW j \in Known, NEW l \in Known, j.kid = k.kid,
               j.useAfter < l.useAfter
        PROVE  now < l.useAfter
    <3>1. j = k
      BY <2>1, <2>2, <1>4, <1>7 DEF Clean
    <3> QED
      BY <3>1, <2>1, <2>2, <1>1, <1>2, <1>4, <1>6
  <2>3. Have(k.kid)
    BY <2>1, <1>4, <1>8 DEF Have, Kids, KeyInv, RefusedInv
  <2> QED
    BY <1>4, <1>5, <2>2, <2>3 DEF k
<1>9. CASE ~Refused
  <2>1. /\ Known = env.entries /\ InTime(now)
        /\ \/ ring[p] \subseteq env.entries
           \/ /\ env.entries \subseteq ring[p]
              /\ \A e \in ring[p] \ env.entries : Gone(e)
    BY <1>9 DEF Known, KeyInv, RolloutInv
  <2>3. Clean(env.entries)
    <3>1. PICK s \in Replicas : NewCookieKeyring(env.entries, Clock(s))
      BY <1>9 DEF Refused
    <3> QED
      BY <3>1, AcceptedIsClean
  <2>4. ASSUME NEW j \in Known, NEW l \in Known, j.kid = k.kid,
               j.useAfter < l.useAfter
        PROVE  now < l.useAfter
    <3>1. j = k
      BY <2>1, <2>3, <2>4, <1>4, <1>7 DEF Clean
    <3>2. CASE l \in ring[p]
      BY <3>1, <3>2, <2>1, <2>4, <1>1, <1>2, <1>4, <1>6
    <3>3. CASE l \notin ring[p]
      <4>1. now + MaxSkew < l.useAfter
        BY <3>3, <2>1, <2>4 DEF InTime
      <4> QED
        BY <4>1, <1>1, <1>2, <1>6, <2>1, <2>4
    <3> QED
      BY <3>2, <3>3
  <2>5. ASSUME k.kid \notin revoked
        PROVE  Have(k.kid)
    <3>1. k \in env.entries
      <4>1. SUFFICES ASSUME k \notin env.entries
                     PROVE  FALSE
        OBVIOUS
      <4>2. env.entries \subseteq ring[p] /\ Gone(k)
        BY <4>1, <2>1, <1>4
      <4>3. PICK l \in env.entries : /\ k.useAfter < l.useAfter
                                     /\ now >= l.useAfter + MaxSkew + MaxAge
        BY <4>2, <2>5 DEF Gone
      <4> QED
        BY <4>2, <4>3, <1>1, <1>2, <1>4, <1>6
    <3>2. ASSUME NEW q \in Replicas, Running(q)
          PROVE  k \in ring[q]
      <4>1. SUFFICES ASSUME k \notin ring[q]
                     PROVE  FALSE
        OBVIOUS
      <4>2. now + MaxSkew < k.useAfter
        BY <4>1, <3>1, <3>2, <2>1 DEF InTime
      <4> QED
        BY <4>2, <3>1, <1>1, <1>2, <1>4, <1>6
    <3> QED
      BY <3>1, <3>2, <2>1 DEF Have, Kids
  <2> QED
    BY <1>4, <1>5, <2>4, <2>5 DEF k
<1> QED
  BY <1>8, <1>9


\* Initially every replica has the first key.
LEMMA KeyInit ==
  ASSUME Init
  PROVE  KeyInv
<1> USE RolloverAssumption
<1>1. /\ now = 0 /\ made = 1
      /\ env.entries = {FirstKey} /\ env.last = {FirstKey}
      /\ \A p \in Replicas : Clock(p) = 0 /\ ring[p] = {FirstKey}
  BY DEF Init, Clock
<1>2. FirstKey \in Entries /\ FirstKey.kid = 1 /\ FirstKey.useAfter = 0
  BY DEF FirstKey, Entries
<1>3. \A p \in Replicas : Accepts({FirstKey}, p)
  BY <1>1, <1>2 DEF Accepts, NewCookieKeyring
<1>4. Kids({FirstKey}) \subseteq 1 .. made
  BY <1>1, <1>2 DEF Kids
<1>5. Typed
  BY <1>2 DEF Init, Typed
<1>6. RingInv
  BY <1>1, <1>3, <1>4 DEF RingInv
<1>7. ~Refused
  BY <1>1, <1>3 DEF Refused, Accepts
<1>8. RolloutInv
  BY <1>1, <1>4 DEF RolloutInv, InTime
<1> QED
  BY <1>5, <1>6, <1>7, <1>8 DEF KeyInv, RefusedInv

\* Steps that leave the keys, the environment and the clocks alone.
LEMMA KeySame ==
  ASSUME KeyInv, logins' \in 0 .. MaxLogins,
         UNCHANGED <<clocks, env, fleet, revoked, made>>
  PROVE  KeyInv' /\ (\A kid : Have(kid)' <=> Have(kid)) /\ Known' = Known
<1> USE DEF clocks, fleet
<1>1. \A p \in Replicas : Clock(p)' = Clock(p)
  BY DEF Clock
<1>2. Refused' = Refused
  BY <1>1 DEF Refused
<1>3. Known' = Known
  BY <1>2 DEF Known
<1>4. Typed'
  BY DEF KeyInv, Typed
<1>5. RingInv'
  BY <1>1 DEF KeyInv, RingInv, Running, Accepts, Kids
<1>6. RolloutInv'
  BY <1>2 DEF KeyInv, RolloutInv, Running, InTime, Kids, Gone
<1>7. RefusedInv'
  BY <1>1, <1>2 DEF KeyInv, RefusedInv, Running, Accepts, Kids, Gone
<1>8. \A kid : Have(kid)' <=> Have(kid)
  BY <1>3 DEF Have, Kids, Running
<1> QED
  BY <1>3, <1>4, <1>5, <1>6, <1>7, <1>8 DEF KeyInv

\* CookieKeyringFromEnv: a restart keeps the keys common.
LEMMA KeyRestart ==
  ASSUME KeyInv, NEW p \in Replicas, Restart(p)
  PROVE  KeyInv'
<1> USE RolloverAssumption
<1> DEFINE up == NewCookieKeyring(env.entries, Clock(p))
<1>1. /\ ring' = [ring EXCEPT ![p] = IF up THEN env.entries ELSE {}]
      /\ kind' = [kind EXCEPT ![p] = IF up THEN env.kind ELSE @]
      /\ UNCHANGED <<now, skew, app, env, revoked, made, logins>>
  BY DEF Restart, clocks, bounds
<1>2. \A q \in Replicas : Clock(q)' = Clock(q)
  BY <1>1 DEF Clock
<1>3. Refused' = Refused /\ (up => ~Refused)
  BY <1>1, <1>2 DEF Refused
<1>4. Typed'
  BY <1>1 DEF KeyInv, Typed
<1>5. /\ up => ring'[p] = env.entries
      /\ ~up => ring'[p] = {}
      /\ \A q \in Replicas \ {p} : ring'[q] = ring[q]
  BY <1>1 DEF KeyInv, Typed
<1> HIDE DEF up
<1>6. RingInv'
  <2>1. SUFFICES ASSUME NEW q \in Replicas, Running(q)'
                 PROVE  (/\ Accepts(ring[q], q)
                         /\ Kids(ring[q]) \subseteq 1 .. made)'
    BY DEF RingInv
  <2>2. CASE q = p
    <3>1. up
      BY <2>1, <2>2, <1>5 DEF Running
    <3>2. Kids(env.entries) \subseteq 1 .. made
      BY <3>1, <1>3 DEF KeyInv, RolloutInv
    <3> QED
      BY <3>1, <3>2, <2>2, <1>1, <1>2, <1>5 DEF Accepts, up, Kids
  <2>3. CASE q # p
    BY <2>1, <2>3, <1>1, <1>2, <1>5
       DEF KeyInv, RingInv, Running, Accepts, Kids
  <2> QED
    BY <2>2, <2>3
<1>7. RolloutInv'
  <2>1. SUFFICES ASSUME ~Refused
                 PROVE  (/\ Kids(env.entries) \subseteq 1 .. made
                         /\ InTime(now)
                         /\ \A q \in Replicas : Running(q) =>
                              \/ ring[q] \subseteq env.entries
                              \/ /\ env.entries \subseteq ring[q]
                                 /\ \A k \in ring[q] \ env.entries : Gone(k))'
    BY <1>3 DEF RolloutInv
  <2>2. \A k : Gone(k)' <=> Gone(k)
    BY <1>1 DEF Gone
  <2>3. InTime(now)'
    BY <2>1, <1>1, <1>5 DEF KeyInv, RolloutInv, InTime, Running
  <2> QED
    BY <2>1, <2>2, <2>3, <1>1, <1>5 DEF KeyInv, RolloutInv, Running, Kids
<1>8. RefusedInv'
  <2>1. SUFFICES ASSUME Refused
                 PROVE  RefusedInv'
    BY <1>3 DEF RefusedInv
  <2>2. \A k : Gone(k)' <=> Gone(k)
    BY <1>1 DEF Gone
  <2> QED
    BY <2>1, <2>2, <1>1, <1>2, <1>3, <1>5
       DEF KeyInv, RefusedInv, Running, Accepts, Kids
<1> QED
  BY <1>4, <1>6, <1>7, <1>8 DEF KeyInv


\* Time passes: no replica loses its key, and a change that is refused for
\* want of an eligible key may come to be accepted.
LEMMA KeyTick ==
  ASSUME KeyInv, Tick
  PROVE  KeyInv' /\ (Refused' => Refused)
<1> USE RolloverAssumption
<1>1. /\ now < MaxNow /\ now' = now + 1 /\ (Refused \/ InTime(now + 1))
      /\ skew' \in [Replicas -> 0 .. MaxSkew]
      /\ UNCHANGED <<env, app, ring, kind, revoked, made, logins>>
  BY DEF Tick, fleet, bounds
<1>2. Typed'
  BY <1>1 DEF KeyInv, Typed
<1>3. ASSUME NEW p \in Replicas
      PROVE  Clock(p) \in Nat /\ Clock(p)' \in Nat /\ Clock(p) <= Clock(p)'
  <2>1. Clock(p)' = now + 1 + skew'[p]
    BY <1>1 DEF Clock
  <2>2. now + 1 + skew'[p] >= Clock(p)
    BY DEF Tick
  <2>3. Clock(p) \in Nat
    BY ClockBounds DEF KeyInv
  <2> QED
    BY <1>1, <2>1, <2>2, <2>3 DEF KeyInv, Typed
<1>4. ASSUME NEW S \in SUBSET Entries, NEW p \in Replicas, Accepts(S, p)
      PROVE  NewCookieKeyring(S, Clock(p)')
  BY <1>3, <1>4, AcceptedForGood DEF Accepts
<1>5. Refused' => Refused
  BY <1>1, <1>4 DEF Refused, KeyInv, Typed, Accepts
<1>6. RingInv'
  BY <1>1, <1>4 DEF KeyInv, Typed, RingInv, Running, Accepts, Kids
<1>7. ASSUME NEW k, Gone(k)
      PROVE  Gone(k)'
  <2>1. \A l \in env.entries : l.useAfter \in Nat
    BY DEF KeyInv, Typed, Entries
  <2> QED
    BY <1>1, <1>7, <2>1 DEF Gone, KeyInv, Typed
<1>8. RolloutInv'
  <2>1. SUFFICES ASSUME ~Refused'
                 PROVE  RolloutInv'
    BY DEF RolloutInv
  <2>2. CASE ~Refused
    <3>1. InTime(now)'
      BY <2>2, <1>1 DEF InTime, Running
    <3> QED
      BY <2>2, <3>1, <1>1, <1>7 DEF KeyInv, RolloutInv, Running, Kids
  <2>3. CASE Refused
    <3>1. Clean(env.entries)
      BY <2>1, <1>1, AcceptedIsClean DEF Refused
    <3>2. /\ env.entries \subseteq env.last
          /\ \A k \in env.last \ env.entries : Gone(k)
          /\ Kids(env.last) \subseteq 1 .. made
          /\ \A p \in Replicas : Running(p) => ring[p] = env.last
      BY <3>1, <2>3 DEF KeyInv, RefusedInv
    <3>3. InTime(now)'
      BY <3>2, <1>1 DEF InTime, Running
    <3>4. Kids(env.entries) \subseteq 1 .. made
      BY <3>2 DEF Kids
    <3> QED
      BY <3>2, <3>3, <3>4, <1>1, <1>7 DEF RolloutInv, Running, Kids
  <2> QED
    BY <2>2, <2>3
<1>9. RefusedInv'
  <2>1. SUFFICES ASSUME Refused'
                 PROVE  RefusedInv'
    BY DEF RefusedInv
  <2> QED
    BY <2>1, <1>1, <1>4, <1>5, <1>7
       DEF KeyInv, Typed, RefusedInv, Running, Accepts, Kids
<1> QED
  BY <1>2, <1>5, <1>6, <1>8, <1>9 DEF KeyInv

\* The operator acts on a rollout that is complete.
LEMMA RolledOutFacts ==
  ASSUME KeyInv, RolledOut
  PROVE  /\ ~Refused /\ Clean(env.entries)
         /\ Kids(env.entries) \subseteq 1 .. made
         /\ \A p \in Replicas : /\ Running(p) /\ ring[p] = env.entries
                                /\ Accepts(env.entries, p)
<1>1. \A p \in Replicas : /\ Running(p) /\ ring[p] = env.entries
                          /\ Accepts(env.entries, p)
  BY DEF RolledOut, KeyInv, RingInv
<1>2. PICK p \in Replicas : TRUE
  BY RolloverAssumption
<1>3. ~Refused /\ Clean(env.entries)
  BY <1>1, <1>2, AcceptedIsClean DEF Refused, Accepts
<1> QED
  BY <1>1, <1>3 DEF KeyInv, RolloutInv

\* An environment that changes under a complete rollout.
LEMMA ChangeFacts ==
  ASSUME KeyInv, RolledOut, NEW S \in SUBSET Entries, Change(S),
         UNCHANGED <<clocks, fleet, logins>>,
         made' \in 1 .. MaxKeys, made <= made'
  PROVE  /\ Typed' /\ RingInv'
         /\ env'.entries = S /\ env'.last = env.entries
         /\ \A p \in Replicas : Clock(p)' = Clock(p)
         /\ \A p \in Replicas : ring'[p] = env.entries
         /\ Kids(env'.last) \subseteq 1 .. made'
         /\ \A p \in Replicas : Accepts(env.last, p)'
         /\ \A p \in Replicas : Running(p)' /\ ring'[p] = env'.last
<1> USE RolloverAssumption DEF clocks, fleet
<1>1. env'.entries = S /\ env'.last = env.entries /\ env'.kind = env.kind
  BY DEF Change, KeyInv, Typed
<1>2. env' \in [entries: SUBSET Entries, last: SUBSET Entries,
                kind: {Payload, Handle}]
  BY DEF Change, KeyInv, Typed
<1>3. Typed'
  BY <1>2 DEF KeyInv, Typed
<1>4. \A p \in Replicas : Clock(p)' = Clock(p)
  BY DEF Clock
<1>5. /\ Kids(env.entries) \subseteq 1 .. made
      /\ \A p \in Replicas : /\ Running(p) /\ ring[p] = env.entries
                             /\ Accepts(env.entries, p)
  BY RolledOutFacts
<1>6. 1 .. made \subseteq 1 .. made'
  BY DEF KeyInv, Typed
<1>7. RingInv'
  BY <1>4, <1>5, <1>6 DEF RingInv, Running, Accepts, Kids
<1> QED
  BY <1>1, <1>3, <1>4, <1>5, <1>6, <1>7 DEF Running, Accepts, Kids


\* Step 1: the new key is nobody's yet, and dated past every clock.
LEMMA KeyAdd ==
  ASSUME KeyInv, AddKey
  PROVE  /\ KeyInv' /\ ~Refused' /\ ~Refused
         /\ \E k \in Entries : /\ env'.entries = env.entries \cup {k}
                               /\ k.kid = made + 1 /\ k.useAfter > now
<1> USE RolloverAssumption
<1> DEFINE k == [kid |-> made + 1, useAfter |-> now + Lead]
<1>1. /\ RolledOut /\ made < MaxKeys /\ made' = made + 1
      /\ \A e \in env.entries : e.useAfter < k.useAfter
      /\ Change(env.entries \cup {k})
      /\ UNCHANGED <<clocks, fleet, logins, revoked>>
  BY DEF AddKey
<1>2. /\ now \in 0 .. MaxNow /\ made \in 1 .. MaxKeys
      /\ env.entries \in SUBSET Entries
  BY DEF KeyInv, Typed
<1>3. k \in Entries /\ k.kid = made + 1 /\ k.useAfter = now + Lead
  BY <1>1, <1>2 DEF Entries
<1>4. made' \in 1 .. MaxKeys /\ made <= made'
  BY <1>1, <1>2
<1> HIDE DEF k
<1>5. /\ Typed' /\ RingInv'
      /\ env'.entries = env.entries \cup {k}
      /\ \A p \in Replicas : Clock(p)' = Clock(p) /\ ring'[p] = env.entries
  BY <1>1, <1>2, <1>3, <1>4, ChangeFacts
<1>6. /\ Clean(env.entries) /\ ~Refused
      /\ Kids(env.entries) \subseteq 1 .. made
      /\ \A p \in Replicas : Accepts(env.entries, p)
  BY <1>1, RolledOutFacts
<1>7. \A e \in env.entries : e.kid \in 1 .. made /\ e.useAfter \in Nat
  BY <1>2, <1>6 DEF Kids, Entries
<1>8. Clean(env.entries \cup {k})
  BY <1>1, <1>2, <1>3, <1>6, <1>7 DEF Clean
<1>9. \A p \in Replicas : NewCookieKeyring(env'.entries, Clock(p)')
  BY <1>5, <1>6, <1>8, AcceptedIsClean DEF Accepts
<1>10. ~Refused'
  BY <1>9 DEF Refused
<1>11. Kids(env'.entries) \subseteq 1 .. made'
  BY <1>1, <1>2, <1>3, <1>5, <1>7 DEF Kids
<1>12. InTime(now)'
  BY <1>1, <1>2, <1>3, <1>5 DEF InTime, clocks
<1>13. RolloutInv'
  BY <1>5, <1>11, <1>12 DEF RolloutInv
<1> QED
  BY <1>2, <1>3, <1>5, <1>6, <1>10, <1>13 DEF KeyInv, RefusedInv

\* Steps 3 and 4, and a revocation: a key is taken out that is gone.
LEMMA KeyShrinks ==
  ASSUME KeyInv, RolledOut, NEW k \in env.entries,
         Change(env.entries \ {k}), Gone(k)',
         UNCHANGED <<clocks, fleet, made, logins>>
  PROVE  KeyInv' /\ env'.entries = env.entries \ {k} /\ env'.last = env.entries
<1> USE RolloverAssumption
<1>1. env.entries \in SUBSET Entries /\ made \in 1 .. MaxKeys
  BY DEF KeyInv, Typed
<1>2. /\ Typed' /\ RingInv'
      /\ env'.entries = env.entries \ {k} /\ env'.last = env.entries
      /\ \A p \in Replicas : ring'[p] = env.entries
      /\ Kids(env'.last) \subseteq 1 .. made'
      /\ \A p \in Replicas : Accepts(env.last, p)'
      /\ \A p \in Replicas : Running(p)' /\ ring'[p] = env'.last
  BY <1>1, ChangeFacts
<1>3. Kids(env'.entries) \subseteq 1 .. made'
  BY <1>2 DEF Kids
<1>4. InTime(now)'
  BY <1>2 DEF InTime
<1>5. \A e \in env.entries \ env'.entries : Gone(e)'
  BY <1>2
<1>6. RolloutInv'
  BY <1>2, <1>3, <1>4, <1>5 DEF RolloutInv
<1>7. RefusedInv'
  BY <1>2, <1>5 DEF RefusedInv
<1> QED
  BY <1>2, <1>6, <1>7 DEF KeyInv

\* A mistake reaches no replica.
LEMMA KeyMisconfigure ==
  ASSUME KeyInv, Misconfigure
  PROVE  KeyInv' /\ ~Refused /\ Refused' /\ env'.last = env.entries
<1> USE RolloverAssumption
<1>1. PICK e \in BadEntries \ env.entries : Change(env.entries \cup {e})
  BY DEF Misconfigure
<1>2. RolledOut /\ UNCHANGED <<clocks, fleet, revoked, made, logins>>
  BY DEF Misconfigure
<1>3. /\ now \in 0 .. MaxNow /\ made \in 1 .. MaxKeys
      /\ env.entries \in SUBSET Entries
  BY DEF KeyInv, Typed
<1>4. /\ e \in Entries
      /\ \/ e.kid = 0
         \/ \E f \in env.entries : f.kid = e.kid
         \/ \E f \in env.entries : f.useAfter = e.useAfter
  <2>1. \/ e = [kid |-> 0, useAfter |-> now + Lead]
        \/ \E f \in env.entries : e = [f EXCEPT !.useAfter = now + Lead]
        \/ \E f \in env.entries : e = [f EXCEPT !.kid = made + 1]
    BY <1>1 DEF BadEntries
  <2>2. CASE e = [kid |-> 0, useAfter |-> now + Lead]
    BY <2>2, <1>3 DEF Entries
  <2>3. ASSUME NEW f \in env.entries, e = [f EXCEPT !.useAfter = now + Lead]
        PROVE  e \in Entries /\ f.kid = e.kid
    <3>1. f \in [kid: 0 .. MaxKeys + 1, useAfter: 0 .. MaxNow + Lead]
      BY <1>3 DEF Entries
    <3>2. now + Lead \in 0 .. MaxNow + Lead
      BY <1>3
    <3> QED
      BY <2>3, <3>1, <3>2 DEF Entries
  <2>4. ASSUME NEW f \in env.entries, e = [f EXCEPT !.kid = made + 1]
        PROVE  e \in Entries /\ f.useAfter = e.useAfter
    <3>1. f \in [kid: 0 .. MaxKeys + 1, useAfter: 0 .. MaxNow + Lead]
      BY <1>3 DEF Entries
    <3>2. made + 1 \in 0 .. MaxKeys + 1
      BY <1>3
    <3> QED
      BY <2>4, <3>1, <3>2 DEF Entries
  <2> QED
    BY <2>1, <2>2, <2>3, <2>4
<1>5. ~Clean(env.entries \cup {e})
  BY <1>1, <1>4 DEF Clean
<1>6. /\ Typed' /\ RingInv'
      /\ env'.entries = env.entries \cup {e} /\ env'.last = env.entries
      /\ Kids(env'.last) \subseteq 1 .. made'
      /\ \A p \in Replicas : Accepts(env.last, p)'
      /\ \A p \in Replicas : Running(p)' /\ ring'[p] = env'.last
  BY <1>1, <1>2, <1>3, <1>4, ChangeFacts
<1>7. ~Refused
  BY <1>2, RolledOutFacts
<1>8. Refused'
  BY <1>5, <1>6, AcceptedIsClean DEF Refused
<1>9. RefusedInv'
  BY <1>5, <1>6 DEF RefusedInv
<1> QED
  BY <1>6, <1>7, <1>8, <1>9 DEF KeyInv, RolloutInv

\* And is taken back.
LEMMA KeyCorrect ==
  ASSUME KeyInv, Correct
  PROVE  /\ KeyInv' /\ ~Refused' /\ env'.entries = env.last
         /\ \A p \in Replicas : Running(p)' => ring'[p] = env'.entries
<1> USE RolloverAssumption
<1>1. /\ Refused /\ Change(env.last)
      /\ UNCHANGED <<now, skew, app, ring, kind, made, logins>>
  BY DEF Correct, clocks, fleet, bounds
<1>2. /\ Kids(env.last) \subseteq 1 .. made
      /\ \A p \in Replicas : Accepts(env.last, p)
      /\ \A p \in Replicas : Running(p) => ring[p] = env.last
  BY <1>1 DEF KeyInv, RefusedInv
<1>3. /\ env'.entries = env.last
      /\ env' \in [entries: SUBSET Entries, last: SUBSET Entries,
                   kind: {Payload, Handle}]
  BY <1>1 DEF Change, KeyInv, Typed
<1>4. Typed'
  BY <1>1, <1>3 DEF KeyInv, Typed
<1>5. \A p \in Replicas : Clock(p)' = Clock(p) /\ Running(p)' = Running(p)
  BY <1>1 DEF Clock, Running
<1>6. RingInv'
  BY <1>1, <1>5 DEF KeyInv, RingInv, Accepts, Kids
<1>7. ~Refused'
  <2>1. PICK p \in Replicas : TRUE
    OBVIOUS
  <2> QED
    BY <2>1, <1>2, <1>3, <1>5 DEF Refused, Accepts
<1>8. InTime(now)'
  BY <1>1, <1>2, <1>3, <1>5 DEF InTime
<1>9. RolloutInv'
  BY <1>1, <1>2, <1>3, <1>5, <1>8 DEF RolloutInv, Kids
<1> QED
  BY <1>1, <1>2, <1>3, <1>4, <1>5, <1>6, <1>7, <1>9 DEF KeyInv, RefusedInv

\* A move between the stores leaves the keys alone.
LEMMA KeySwitch ==
  ASSUME KeyInv, SwitchStore
  PROVE  /\ KeyInv' /\ (\A kid : Have(kid)' <=> Have(kid)) /\ Known' = Known
<1>1. /\ env' = [env EXCEPT !.kind = IF @ = Payload THEN Handle ELSE Payload]
      /\ UNCHANGED <<now, skew, app, ring, kind, revoked, made, logins>>
  BY DEF SwitchStore, clocks, fleet
<1>2. /\ env'.entries = env.entries /\ env'.last = env.last
      /\ env' \in [entries: SUBSET Entries, last: SUBSET Entries,
                   kind: {Payload, Handle}]
  BY <1>1 DEF KeyInv, Typed
<1>3. \A p \in Replicas : Clock(p)' = Clock(p)
  BY <1>1 DEF Clock
<1>4. Refused' = Refused
  BY <1>2, <1>3 DEF Refused
<1>5. Known' = Known
  BY <1>2, <1>4 DEF Known
<1>6. Typed'
  BY <1>1, <1>2 DEF KeyInv, Typed
<1>7. RingInv'
  BY <1>1, <1>3 DEF KeyInv, RingInv, Running, Accepts, Kids
<1>8. RolloutInv'
  BY <1>1, <1>2, <1>4 DEF KeyInv, RolloutInv, Running, InTime, Kids, Gone
<1>9. RefusedInv'
  BY <1>1, <1>2, <1>3, <1>4
     DEF KeyInv, RefusedInv, Running, Accepts, Kids, Gone
<1>10. \A kid : Have(kid)' <=> Have(kid)
  BY <1>1, <1>5 DEF Have, Kids, Running
<1> QED
  BY <1>5, <1>6, <1>7, <1>8, <1>9, <1>10 DEF KeyInv


-----------------------------------------------------------------------------
(* A session while the keys change *)

\* The session's birth is a number, and changes only with the session.
LEMMA BaseFacts ==
  ASSUME Shapes
  PROVE  Base \in Int /\ (UNCHANGED session => Base' = Base /\ Used' = Used)
<1>1. Base \in Int
  BY RolloverAssumption DEF Shapes, Base
<1>2. UNCHANGED session => Base' = Base
  BY DEF Base, session
<1>3. UNCHANGED session => Used' = Used
  BY DEF Used, session
<1> QED
  BY <1>1, <1>2, <1>3

\* A step keeps sealed well whatever was.
KeptSealed == \A kid : SealedWell(kid) => SealedWell(kid)'

\* A restart gives a replica every key that counts.
LEMMA SealedRestart ==
  ASSUME KeyInv, Shapes, NEW p \in Replicas, Restart(p)
  PROVE  KeptSealed
<1> USE RolloverAssumption
<1> DEFINE up == NewCookieKeyring(env.entries, Clock(p))
<1>1. /\ ring' = [ring EXCEPT ![p] = IF up THEN env.entries ELSE {}]
      /\ UNCHANGED <<now, skew, env, revoked, made, session>>
  BY DEF Restart, clocks, bounds
<1>2. Refused' = Refused /\ Known' = Known /\ (up => Known = env.entries)
  BY <1>1 DEF Refused, Clock, Known
<1>3. Base' = Base
  BY <1>1, BaseFacts
<1>4. /\ up => ring'[p] = env.entries
      /\ ~up => ring'[p] = {}
      /\ \A q \in Replicas \ {p} : ring'[q] = ring[q]
  BY <1>1 DEF KeyInv, Typed
<1> HIDE DEF up
<1>5. ASSUME NEW kid, Have(kid)
      PROVE  Have(kid)'
  <2>1. kid \in Kids(Known)'
    BY <1>2, <1>5 DEF Have, Kids
  <2>2. ASSUME NEW q \in Replicas, Running(q)'
        PROVE  kid \in Kids(ring[q])'
    BY <1>2, <1>4, <1>5, <2>2 DEF Have, Kids, Running
  <2> QED
    BY <2>1, <2>2 DEF Have
<1> QED
  BY <1>1, <1>2, <1>3, <1>5 DEF KeptSealed, SealedWell, Over

\* Nothing that is gone is needed: a session that depends on a key which
\* another has superseded for good is over.
LEMMA GoneIsOver ==
  ASSUME KeyInv, Shapes, NEW kid, SealedWell(kid), kid \notin revoked,
         NEW k \in Known, k.kid = kid,
         NEW l \in Known, k.useAfter < l.useAfter,
         now >= l.useAfter + MaxSkew + MaxAge
  PROVE  Over
<1> USE RolloverAssumption
<1>1. Base < l.useAfter
  BY DEF SealedWell
<1>2. Base \in Int /\ l.useAfter \in Int /\ now \in Int
  BY BaseFacts DEF KeyInv, Typed, Known, Entries
<1> QED
  BY <1>1, <1>2 DEF Over

\* Time passes.
LEMMA SealedTick ==
  ASSUME KeyInv, Shapes, Tick
  PROVE  KeptSealed
<1> USE RolloverAssumption
<1>1. /\ now \in Nat /\ now' = now + 1
      /\ UNCHANGED <<env, ring, revoked, made, session>>
  BY DEF Tick, fleet, bounds, KeyInv, Typed
<1>2. Base \in Int /\ Base' = Base
  BY <1>1, BaseFacts
<1>3. Over => Over'
  BY <1>1, <1>2 DEF Over
<1>4. Refused' => Refused
  BY KeyTick
<1>5. CASE Refused' \/ ~Refused
  <2>1. Known' = Known
    BY <1>1, <1>4, <1>5 DEF Known
  <2>2. \A kid : Have(kid) => Have(kid)'
    BY <1>1, <2>1 DEF Have, Kids, Running
  <2> QED
    BY <1>1, <1>2, <1>3, <2>1, <2>2 DEF KeptSealed, SealedWell
<1>6. CASE Refused /\ ~Refused'
  <2>1. Known = env.last /\ Known' = env.entries
    BY <1>1, <1>6 DEF Known
  <2>2. Clean(env.entries)
    BY <1>1, <1>6, AcceptedIsClean DEF Refused
  <2>3. /\ env.entries \subseteq env.last
        /\ \A k \in env.last \ env.entries : Gone(k)
    BY <2>2, <1>6 DEF KeyInv, RefusedInv
  <2>4. ASSUME NEW kid, SealedWell(kid), kid \notin revoked, ~Over
        PROVE  Have(kid)'
    <3>1. PICK k \in Known : k.kid = kid
      BY <2>4 DEF SealedWell, Have, Kids
    <3>2. k \in env.entries
      <4>1. SUFFICES ASSUME k \notin env.entries
                     PROVE  FALSE
        OBVIOUS
      <4>2. PICK l \in env.entries : /\ k.useAfter < l.useAfter
                                     /\ now >= l.useAfter + MaxSkew + MaxAge
        BY <4>1, <3>1, <2>1, <2>3, <2>4 DEF Gone
      <4>3. l \in Known
        BY <4>2, <2>1, <2>3
      <4> QED
        BY <4>2, <4>3, <3>1, <2>4, GoneIsOver
    <3> QED
      BY <3>1, <3>2, <2>1, <2>4, <1>1 DEF SealedWell, Have, Kids, Running
  <2> QED
    BY <2>1, <2>3, <2>4, <1>1, <1>2, <1>3 DEF KeptSealed, SealedWell
<1> QED
  BY <1>5, <1>6

\* A new key is dated after the birth of every session there is.
LEMMA SealedAdd ==
  ASSUME KeyInv, Shapes, Base <= now, AddKey
  PROVE  KeptSealed
<1> USE RolloverAssumption
<1>1. /\ made' = made + 1 /\ made \in Nat /\ now \in Nat
      /\ UNCHANGED <<now, ring, revoked, session>>
  BY DEF AddKey, clocks, fleet, KeyInv, Typed
<1>2. Base \in Int /\ Base' = Base
  BY <1>1, BaseFacts
<1>3. PICK k \in Entries : /\ ~Refused /\ ~Refused'
                           /\ env'.entries = env.entries \cup {k}
                           /\ k.kid = made + 1 /\ k.useAfter > now
  BY KeyAdd
<1>4. Known' = Known \cup {k}
  BY <1>3 DEF Known
<1>5. k.useAfter \in Nat
  BY DEF Entries
<1>6. \A kid : Have(kid) => Have(kid)'
  BY <1>1, <1>4 DEF Have, Kids, Running
<1>7. ASSUME NEW kid, SealedWell(kid),
             NEW j \in Known', NEW l \in Known', j.kid = kid,
             j.useAfter < l.useAfter
      PROVE  Base < l.useAfter
  <2>1. j \in Known
    BY <1>1, <1>3, <1>4, <1>7 DEF SealedWell
  <2>2. CASE l \in Known
    BY <1>7, <2>1, <2>2 DEF SealedWell
  <2>3. CASE l = k
    BY <1>1, <1>2, <1>3, <1>5, <2>3
  <2> QED
    BY <1>4, <2>2, <2>3
<1>8. Over' = Over
  BY <1>1, <1>2 DEF Over
<1>9. \A kid \in 1 .. made : kid \in 1 .. made'
  BY <1>1
<1> QED
  BY <1>1, <1>2, <1>6, <1>7, <1>8, <1>9 DEF KeptSealed, SealedWell

\* A key that is taken out is not needed.
LEMMA SealedShrinks ==
  ASSUME KeyInv, Shapes, RolledOut, NEW k \in env.entries,
         Change(env.entries \ {k}), Gone(k)', revoked \subseteq revoked',
         UNCHANGED <<clocks, fleet, made, logins, session>>
  PROVE  KeptSealed
<1> USE RolloverAssumption
<1>1. env'.entries = env.entries \ {k} /\ env'.last = env.entries
  BY KeyShrinks
<1>2. UNCHANGED <<now, ring, made>> /\ Base' = Base /\ Base \in Int
  BY BaseFacts DEF clocks, fleet
<1>3. Over' = Over
  BY <1>2 DEF Over
<1>4. Known = env.entries /\ Known' \in {env.entries, env.entries \ {k}}
  BY <1>1, RolledOutFacts DEF Known
<1>5. ASSUME NEW kid, SealedWell(kid), kid \notin revoked', ~Over
      PROVE  Have(kid)'
  <2>1. PICK e \in env.entries : e.kid = kid
    BY <1>4, <1>5 DEF SealedWell, Have, Kids
  <2>2. e # k
    <3>1. SUFFICES ASSUME e = k
                   PROVE  FALSE
      OBVIOUS
    <3>2. PICK l \in env'.entries : /\ k.useAfter < l.useAfter
                                    /\ now' >= l.useAfter + MaxSkew + MaxAge
      BY <3>1, <2>1, <1>5 DEF Gone
    <3> QED
      BY <3>1, <3>2, <2>1, <1>1, <1>2, <1>4, <1>5, GoneIsOver
  <2> QED
    BY <2>1, <2>2, <1>2, <1>4, <1>5 DEF SealedWell, Have, Kids, Running
<1> QED
  BY <1>2, <1>3, <1>4, <1>5 DEF KeptSealed, SealedWell

\* A mistake changes no replica's keyring.
LEMMA SealedMisconfigure ==
  ASSUME KeyInv, Shapes, Misconfigure
  PROVE  KeptSealed
<1>1. ~Refused /\ Refused' /\ env'.last = env.entries
  BY KeyMisconfigure
<1>2. UNCHANGED <<now, ring, revoked, made>> /\ Base' = Base
  BY BaseFacts DEF Misconfigure, clocks, fleet
<1>3. Known' = Known
  BY <1>1 DEF Known
<1>4. \A kid : Have(kid) => Have(kid)'
  BY <1>2, <1>3 DEF Have, Kids, Running
<1> QED
  BY <1>2, <1>3, <1>4 DEF KeptSealed, SealedWell, Over

\* And so does taking a change back: the keys it had revoked are there.
LEMMA SealedCorrect ==
  ASSUME KeyInv, Shapes, Correct
  PROVE  KeptSealed
<1>1. /\ Refused /\ ~Refused' /\ env'.entries = env.last
      /\ \A p \in Replicas : Running(p)' => ring'[p] = env'.entries
  BY KeyCorrect DEF Correct
<1>2. /\ UNCHANGED <<now, ring, made>> /\ Base' = Base
      /\ revoked' = revoked \ {k.kid : k \in env.last}
  BY BaseFacts DEF Correct, clocks, fleet, bounds
<1>3. Known' = Known /\ Known = env.last
  BY <1>1 DEF Known
<1>4. ASSUME NEW kid, SealedWell(kid), kid \notin revoked', ~Over
      PROVE  Have(kid)'
  <2>1. kid \in Kids(env.last)
    BY <1>2, <1>3, <1>4 DEF SealedWell, Have, Kids
  <2> QED
    BY <2>1, <1>1, <1>3 DEF Have, Kids
<1> QED
  BY <1>2, <1>3, <1>4 DEF KeptSealed, SealedWell, Over


-----------------------------------------------------------------------------
(* Sealing *)

\* What a running replica seals: a cookie and a payload of this application,
\* under a key that is good for any session born by now.
LEMMA SealsWell ==
  ASSUME KeyInv, NEW p \in Replicas, Running(p)
  PROVE  /\ CookieOf(p).version = 1 /\ CookieOf(p).kind = kind[p]
         /\ CookieOf(p).aad = EnvelopeAAD(kind[p], CookieOf(p).kid,
                                          CookieDomain(Session, app))
         /\ \A id : /\ PayloadOf(p, id).version = 1
                    /\ PayloadOf(p, id).kind = Payload
                    /\ PayloadOf(p, id).kid = CookieOf(p).kid
                    /\ PayloadOf(p, id).aad =
                         EnvelopeAAD(Payload, CookieOf(p).kid,
                                     PayloadDomain(app, id))
         /\ CookieOf(p).kid \in 1 .. made
         /\ \A j, l \in Known :
              j.kid = CookieOf(p).kid /\ j.useAfter < l.useAfter
                => now < l.useAfter
         /\ CookieOf(p).kid \in revoked \/ Have(CookieOf(p).kid)
         /\ kind[p] \in {Payload, Handle}
<1> DEFINE k == SealingKey(ring[p], Clock(p))
<1>1. /\ CookieOf(p) = [version |-> 1, kind |-> kind[p], kid |-> k.kid,
                        aad |-> EnvelopeAAD(kind[p], k.kid,
                                            CookieDomain(Session, app))]
      /\ \A id : PayloadOf(p, id) =
           [version |-> 1, kind |-> Payload, kid |-> k.kid,
            aad |-> EnvelopeAAD(Payload, k.kid, PayloadDomain(app, id))]
  BY DEF CookieOf, PayloadOf, SealKind
<1>2. /\ k.kid \in 1 .. made
      /\ \A j, l \in Known : j.kid = k.kid /\ j.useAfter < l.useAfter
                               => now < l.useAfter
      /\ k.kid \in revoked \/ Have(k.kid)
  BY SealsWithCommonKey
<1>3. kind[p] \in {Payload, Handle}
  BY DEF KeyInv, Typed
<1> HIDE DEF k
<1> QED
  BY <1>1, <1>2, <1>3

\* A session that was born by now and is sealed now is sealed well; what was
\* sealed before stays so.
LEMMA SealedNow ==
  ASSUME KeyInv, NEW p \in Replicas, Running(p), Base' \in Int, Base' <= now,
         UNCHANGED <<clocks, env, fleet, revoked, made>>,
         logins' \in 0 .. MaxLogins
  PROVE  /\ \A kid : kid = CookieOf(p).kid => SealedWell(kid)'
         /\ Base' = Base => \A kid : SealedWell(kid) => SealedWell(kid)'
<1> USE RolloverAssumption
<1> DEFINE new == CookieOf(p).kid
<1>1. /\ new \in 1 .. made
      /\ \A j, l \in Known : j.kid = new /\ j.useAfter < l.useAfter
                               => now < l.useAfter
      /\ new \in revoked \/ Have(new)
  BY SealsWell
<1>2. (\A n : Have(n)' <=> Have(n)) /\ Known' = Known
  BY KeySame
<1>3. \A l \in Known : l.useAfter \in Int
  BY DEF Known, KeyInv, Typed, Entries
<1>4. now \in Int /\ now' = now /\ revoked' = revoked /\ made' = made
  BY DEF KeyInv, Typed, clocks
<1> HIDE DEF new
<1>5. \A j, l \in Known' : j.kid = new /\ j.useAfter < l.useAfter
                             => Base' < l.useAfter
  BY <1>1, <1>2, <1>3, <1>4
<1>6. ASSUME NEW kid, kid = new
      PROVE  SealedWell(kid)'
  BY <1>1, <1>2, <1>4, <1>5, <1>6 DEF SealedWell
<1>7. ASSUME Base' = Base, NEW kid, SealedWell(kid)
      PROVE  SealedWell(kid)'
  BY <1>2, <1>4, <1>7 DEF SealedWell, Over
<1> QED
  BY <1>6, <1>7 DEF new

\* openKindRaw: what opens is an envelope of this version and kind.
LEMMA OpensIsSealed ==
  ASSUME NEW r, NEW t, NEW k, NEW d, NEW v, OpenKind(r, t, k, d, v) = "ok"
  PROVE  v.version = 1 /\ v.kind = k
BY DEF OpenKind

\* A login seals a new session.
LEMMA LoginSteps ==
  ASSUME RolloverInv, NEW p \in Replicas, Login(p)
  PROVE  RolloverInv'
<1> USE RolloverAssumption
<1>1. /\ Running(p) /\ logins < MaxLogins /\ logins' = logins + 1
      /\ cookie' = [value |-> CookieOf(p), born |-> Clock(p), held |-> TRUE]
      /\ row' = IF kind[p] = Handle
                  THEN [id |-> RowIDs[logins + 1],
                        payload |-> PayloadOf(p, RowIDs[logins + 1]),
                        born |-> now]
                  ELSE row
      /\ UNCHANGED <<clocks, env, fleet, revoked, made>>
  BY DEF Login
<1>2. KeyInv /\ Shapes /\ logins' \in 0 .. MaxLogins
  BY <1>1 DEF RolloverInv, KeyInv, Typed
<1>3. KeyInv'
  BY <1>1, <1>2, KeySame
<1>4. app' = app /\ now' = now
  BY <1>1 DEF fleet, clocks
<1>5. /\ Clock(p) \in Nat /\ now \in Nat
      /\ now <= Clock(p) /\ Clock(p) <= now + MaxSkew
  BY <1>2, ClockBounds DEF KeyInv
<1>6. RowIDs[logins + 1] \in RowSet
  <2>1. logins + 1 \in 1 .. Len(RowIDs)
    BY <1>1, <1>2 DEF KeyInv, Typed
  <2> QED
    BY <2>1 DEF RowSet
<1>7. /\ CookieOf(p).version = 1 /\ CookieOf(p).kind = kind[p]
      /\ CookieOf(p).aad = EnvelopeAAD(kind[p], CookieOf(p).kid,
                                       CookieDomain(Session, app))
      /\ \A id : /\ PayloadOf(p, id).version = 1
                 /\ PayloadOf(p, id).kind = Payload
                 /\ PayloadOf(p, id).kid = CookieOf(p).kid
                 /\ PayloadOf(p, id).aad =
                      EnvelopeAAD(Payload, CookieOf(p).kid,
                                  PayloadDomain(app, id))
      /\ kind[p] \in {Payload, Handle}
  BY <1>1, <1>2, SealsWell
<1>8. CASE kind[p] = Handle
  <2>1. /\ row'.id = RowIDs[logins + 1] /\ row'.born = now
        /\ row'.payload = PayloadOf(p, RowIDs[logins + 1])
        /\ cookie'.value = CookieOf(p) /\ cookie'.born = Clock(p)
        /\ cookie'.held
    BY <1>1, <1>8
  <2>2. Shapes'
    BY <2>1, <1>4, <1>5, <1>6, <1>7, <1>8 DEF Shapes
  <2>3. Base' = now
    BY <2>1, <1>7, <1>8 DEF Base, Payload, Handle
  <2>4. Used' = {CookieOf(p).kid}
    BY <2>1, <1>7, <1>8 DEF Used
  <2>5. SessionInv'
    BY <2>3, <2>4, <1>1, <1>2, <1>4, <1>5, SealedNow DEF SessionInv
  <2> QED
    BY <2>2, <2>5, <1>3 DEF RolloverInv
<1>9. CASE kind[p] = Payload
  <2>1. /\ row' = row
        /\ cookie'.value = CookieOf(p) /\ cookie'.born = Clock(p)
        /\ cookie'.held
    BY <1>1, <1>9 DEF Payload, Handle
  <2>2. Shapes'
    BY <2>1, <1>2, <1>4, <1>5, <1>7, <1>9 DEF Shapes, Payload, Handle
  <2>3. Base' = Clock(p) - MaxSkew
    BY <2>1, <1>7, <1>9 DEF Base
  <2>4. Used' = {CookieOf(p).kid}
    BY <2>1, <1>7, <1>9 DEF Used, Payload, Handle
  <2>5. Base' \in Int /\ Base' <= now
    BY <2>3, <1>5
  <2>6. SessionInv'
    BY <2>4, <2>5, <1>1, <1>2, <1>4, <1>5, SealedNow DEF SessionInv
  <2> QED
    BY <2>2, <2>6, <1>3 DEF RolloverInv
<1> QED
  BY <1>7, <1>8, <1>9

\* A session that resolves is sealed again: its cookie and, when a refresh
\* writes it, its row.
LEMMA ResealSteps ==
  ASSUME RolloverInv, NEW p \in Replicas, Running(p), cookie.held,
         Resolve(p) = "ok",
         cookie' = [cookie EXCEPT !.value = CookieOf(p)],
         \/ row' = row
         \/ /\ kind[p] = Handle
            /\ row' = [row EXCEPT !.payload = PayloadOf(p, row.id)],
         UNCHANGED <<clocks, env, fleet, revoked, bounds>>
  PROVE  RolloverInv'
<1> USE RolloverAssumption
<1>1. /\ KeyInv /\ Shapes /\ SessionInv /\ logins' \in 0 .. MaxLogins
      /\ UNCHANGED <<clocks, env, fleet, revoked, made>>
  BY DEF RolloverInv, KeyInv, Typed, bounds
<1>2. KeyInv'
  BY <1>1, KeySame
<1>3. app' = app /\ now' = now
  BY <1>1 DEF fleet, clocks
<1>4. cookie.value.version = 1 /\ cookie.value.kind = kind[p]
  BY OpensIsSealed DEF Resolve, OpenCookie
<1>5. /\ CookieOf(p).version = 1 /\ CookieOf(p).kind = kind[p]
      /\ CookieOf(p).aad = EnvelopeAAD(kind[p], CookieOf(p).kid,
                                       CookieDomain(Session, app))
      /\ \A id : /\ PayloadOf(p, id).version = 1
                 /\ PayloadOf(p, id).kind = Payload
                 /\ PayloadOf(p, id).kid = CookieOf(p).kid
                 /\ PayloadOf(p, id).aad =
                      EnvelopeAAD(Payload, CookieOf(p).kid,
                                  PayloadDomain(app, id))
      /\ kind[p] \in {Payload, Handle}
  BY <1>1, SealsWell
<1>6. /\ cookie'.value = CookieOf(p) /\ cookie'.born = cookie.born
      /\ cookie'.held
  OBVIOUS
<1>7. /\ row'.id = row.id /\ row'.born = row.born
      /\ \/ row'.payload = row.payload
         \/ kind[p] = Handle /\ row'.payload = PayloadOf(p, row.id)
  <2>1. CASE row' = row
    BY <2>1
  <2>2. CASE kind[p] = Handle
             /\ row' = [row EXCEPT !.payload = PayloadOf(p, row.id)]
    BY <2>2
  <2> QED
    BY <2>1, <2>2
<1>8. Shapes'
  BY <1>1, <1>3, <1>4, <1>5, <1>6, <1>7 DEF Shapes
<1>9. Base' = Base /\ Base \in Int /\ Base <= now
  <2>1. Base' = Base
    BY <1>4, <1>5, <1>6, <1>7 DEF Base
  <2>2. Used # {}
    BY <1>4 DEF Used
  <2> QED
    BY <2>1, <2>2, <1>1, BaseFacts DEF SessionInv
<1>10. \A kid \in Used' : kid \in Used \/ kid = CookieOf(p).kid
  BY <1>4, <1>5, <1>6, <1>7 DEF Used
<1>11. SessionInv'
  BY <1>1, <1>3, <1>9, <1>10, SealedNow DEF SessionInv
<1> QED
  BY <1>2, <1>8, <1>11 DEF RolloverInv


\* A request keeps the session as it is, seals it again, or clears it.
LEMMA RequestSteps ==
  ASSUME RolloverInv, NEW p \in Replicas, Request(p)
  PROVE  RolloverInv'
<1> USE RolloverAssumption
<1>1. /\ Running(p) /\ cookie.held /\ row' = row
      /\ UNCHANGED <<clocks, env, fleet, revoked, bounds>>
  BY DEF Request
<1>2. /\ KeyInv /\ Shapes /\ SessionInv /\ logins' \in 0 .. MaxLogins
      /\ UNCHANGED <<clocks, env, fleet, revoked, made>>
  BY <1>1 DEF RolloverInv, KeyInv, Typed, bounds
<1>3. KeyInv'
  BY <1>2, KeySame
<1>4. app' = app /\ now' = now
  BY <1>2 DEF fleet, clocks
<1>5. CASE Resolve(p) = "ok" /\ cookie' = [cookie EXCEPT !.value = CookieOf(p)]
  BY <1>1, <1>5, ResealSteps
<1>6. CASE cookie' = cookie
  <2>1. Shapes'
    BY <1>1, <1>2, <1>4, <1>6 DEF Shapes
  <2>2. Base' = Base /\ Used' = Used /\ Base \in Int
    BY <1>1, <1>2, <1>6, BaseFacts DEF session
  <2>3. ASSUME Used # {}
        PROVE  \A kid : SealedWell(kid) => SealedWell(kid)'
    BY <2>2, <2>3, <1>1, <1>2, SealedNow DEF SessionInv
  <2>4. SessionInv'
    BY <2>2, <2>3, <1>2, <1>4 DEF SessionInv
  <2> QED
    BY <2>1, <2>4, <1>3 DEF RolloverInv
<1>7. CASE cookie' = NoCookie
  <2>1. Shapes'
    BY <1>1, <1>2, <1>4, <1>7 DEF Shapes, NoCookie, NoValue
  <2>2. Used' = {}
    BY <1>7 DEF Used, NoCookie
  <2>3. SessionInv'
    BY <2>2 DEF SessionInv
  <2> QED
    BY <2>1, <2>3, <1>3 DEF RolloverInv
<1> QED
  BY <1>5, <1>6, <1>7 DEF Request

\* A refresh seals the session again.
LEMMA RefreshSteps ==
  ASSUME RolloverInv, NEW p \in Replicas, Refresh(p)
  PROVE  RolloverInv'
<1>1. /\ Running(p) /\ cookie.held /\ Resolve(p) = "ok"
      /\ cookie' = [cookie EXCEPT !.value = CookieOf(p)]
      /\ row' = IF kind[p] = Handle
                  THEN [row EXCEPT !.payload = PayloadOf(p, row.id)] ELSE row
      /\ UNCHANGED <<clocks, env, fleet, revoked, bounds>>
  BY DEF Refresh
<1> QED
  BY <1>1, ResealSteps

\* Steps that change keys and not the session.
LEMMA SessionKept ==
  ASSUME RolloverInv, KeyInv', UNCHANGED <<session, app>>,
         now <= now', Base <= now => KeptSealed
  PROVE  RolloverInv'
<1>1. Shapes'
  BY DEF RolloverInv, Shapes, session
<1>2. /\ Base' = Base /\ Used' = Used /\ Base \in Int
      /\ now \in Int /\ now' \in Int
  BY BaseFacts DEF RolloverInv, KeyInv, Typed
<1>3. SessionInv'
  BY <1>2 DEF RolloverInv, SessionInv, KeptSealed
<1> QED
  BY <1>1, <1>3 DEF RolloverInv

\* The invariant holds initially.
LEMMA InvInit ==
  ASSUME Init
  PROVE  RolloverInv
<1>1. KeyInv
  BY KeyInit
<1>2. cookie \in {NoCookie, Leftover(0), Leftover(2)} /\ row = NoRow
  BY DEF Init
<1>3. /\ cookie.value.version \in {0, 2} /\ cookie.value.kind = Payload
      /\ cookie.born = 0
  BY <1>2 DEF NoCookie, Leftover, NoValue
<1>4. /\ row.payload.version = 0 /\ row.payload.kind = Payload
      /\ row.born = 0 /\ row.id = "none"
  BY <1>2 DEF NoRow, NoValue
<1>5. Shapes
  <2>1. cookie.value.version # 1 /\ row.payload.version # 1
    BY <1>3, <1>4
  <2> QED
    BY <1>3, <1>4, <2>1 DEF Shapes
<1>6. Used = {}
  BY <1>3 DEF Used
<1> QED
  BY <1>1, <1>5, <1>6 DEF RolloverInv, SessionInv

\* Every step keeps it.
LEMMA InvNext ==
  ASSUME RolloverInv, [Next]_vars
  PROVE  RolloverInv'
<1> USE RolloverAssumption
<1>1. KeyInv /\ Shapes /\ now \in Nat
  BY DEF RolloverInv, KeyInv, Typed
<1>2. ASSUME NEW p \in Replicas, Login(p)
      PROVE  RolloverInv'
  BY <1>2, LoginSteps
<1>3. ASSUME NEW p \in Replicas, Request(p)
      PROVE  RolloverInv'
  BY <1>3, RequestSteps
<1>4. ASSUME NEW p \in Replicas, Refresh(p)
      PROVE  RolloverInv'
  BY <1>4, RefreshSteps
<1>5. ASSUME NEW p \in Replicas, Restart(p)
      PROVE  RolloverInv'
  <2>1. KeyInv' /\ KeptSealed
    BY <1>1, <1>5, KeyRestart, SealedRestart
  <2>2. UNCHANGED <<session, app, now>>
    BY <1>5 DEF Restart, clocks
  <2> QED
    BY <2>1, <2>2, <1>1, SessionKept
<1>6. CASE Tick
  <2>1. KeyInv' /\ KeptSealed
    BY <1>1, <1>6, KeyTick, SealedTick
  <2>2. UNCHANGED <<session, app>> /\ now <= now'
    BY <1>1, <1>6 DEF Tick, fleet
  <2> QED
    BY <2>1, <2>2, SessionKept
<1>7. CASE AddKey
  <2>1. KeyInv' /\ (Base <= now => KeptSealed)
    BY <1>1, <1>7, KeyAdd, SealedAdd
  <2>2. UNCHANGED <<session, app, now>>
    BY <1>7 DEF AddKey, clocks, fleet
  <2> QED
    BY <2>1, <2>2, <1>1, SessionKept
<1>8. CASE DropKey
  <2>1. PICK k \in env.entries, later \in env.entries :
          /\ k.useAfter < later.useAfter
          /\ now >= later.useAfter + MaxSkew + MaxAge
          /\ Change(env.entries \ {k})
    BY <1>8 DEF DropKey
  <2>2. RolledOut /\ UNCHANGED <<clocks, fleet, session, revoked, bounds>>
    BY <1>8 DEF DropKey
  <2>3. later \in env'.entries
    <3>1. env'.entries = env.entries \ {k}
      BY <2>1, <1>1 DEF Change, KeyInv, Typed
    <3>2. k # later
      <4>1. k.useAfter \in Int
        BY <1>1 DEF KeyInv, Typed, Entries
      <4> QED
        BY <2>1, <4>1
    <3> QED
      BY <3>1, <3>2
  <2>4. Gone(k)'
    BY <2>1, <2>2, <2>3 DEF Gone, clocks
  <2>5. KeyInv' /\ KeptSealed
    BY <2>1, <2>2, <2>4, <1>1, KeyShrinks, SealedShrinks DEF bounds
  <2> QED
    BY <2>2, <2>5, <1>1, SessionKept DEF clocks, fleet
<1>9. CASE Revoke
  <2>1. PICK k \in env.entries : /\ Change(env.entries \ {k})
                                 /\ revoked' = revoked \cup {k.kid}
    BY <1>9 DEF Revoke
  <2>2. RolledOut /\ UNCHANGED <<clocks, fleet, session, made, logins>>
    BY <1>9 DEF Revoke
  <2>3. Gone(k)'
    BY <2>1 DEF Gone
  <2>4. KeyInv' /\ KeptSealed
    BY <2>1, <2>2, <2>3, <1>1, KeyShrinks, SealedShrinks
  <2> QED
    BY <2>2, <2>4, <1>1, SessionKept DEF clocks, fleet
<1>10. CASE Misconfigure
  <2>1. KeyInv' /\ KeptSealed
    BY <1>1, <1>10, KeyMisconfigure, SealedMisconfigure
  <2>2. UNCHANGED <<session, app, now>>
    BY <1>10 DEF Misconfigure, clocks, fleet
  <2> QED
    BY <2>1, <2>2, <1>1, SessionKept
<1>11. CASE Correct
  <2>1. KeyInv' /\ KeptSealed
    BY <1>1, <1>11, KeyCorrect, SealedCorrect
  <2>2. UNCHANGED <<session, app, now>>
    BY <1>11 DEF Correct, clocks, fleet
  <2> QED
    BY <2>1, <2>2, <1>1, SessionKept
<1>12. CASE SwitchStore
  <2>1. /\ KeyInv' /\ Known' = Known
        /\ (\A kid : Have(kid)' <=> Have(kid))
    BY <1>1, <1>12, KeySwitch
  <2>2. UNCHANGED <<session, app, now, revoked, made>>
    BY <1>12 DEF SwitchStore, clocks, fleet
  <2>3. KeptSealed
    BY <2>1, <2>2, <1>1, BaseFacts DEF KeptSealed, SealedWell, Over
  <2> QED
    BY <2>1, <2>2, <2>3, <1>1, SessionKept
<1>13. CASE UNCHANGED vars
  <2>1. UNCHANGED <<clocks, env, fleet, revoked, made, logins, session>>
    BY <1>13 DEF vars, clocks, fleet, session
  <2>2. logins' \in 0 .. MaxLogins
    BY <2>1, <1>1 DEF KeyInv, Typed
  <2>3. /\ KeyInv' /\ Known' = Known
        /\ (\A kid : Have(kid)' <=> Have(kid))
    BY <2>1, <2>2, <1>1, KeySame
  <2>4. KeptSealed
    BY <2>1, <2>3, <1>1, BaseFacts DEF KeptSealed, SealedWell, Over, clocks
  <2> QED
    BY <2>1, <2>3, <2>4, <1>1, SessionKept DEF clocks, fleet
<1> QED
  BY <1>2, <1>3, <1>4, <1>5, <1>6, <1>7, <1>8, <1>9, <1>10, <1>11, <1>12,
     <1>13 DEF Next

\* The invariant holds in every reachable state.
LEMMA InvAlways == Spec => []RolloverInv
<1>1. Init => RolloverInv
  BY InvInit
<1>2. RolloverInv /\ [Next]_vars => RolloverInv'
  BY InvNext
<1> QED
  BY <1>1, <1>2, PTL DEF Spec


-----------------------------------------------------------------------------
(* What follows from it *)

\* Type correctness, and a sealing key on every running replica: an
\* environment whose keys are all dated ahead is refused at startup and not
\* at the first login, and later changes leave a running replica able to
\* seal.
THEOREM RolloverTypes == Spec => []RolloverTypeOK
<1> USE RolloverAssumption
<1>1. RolloverInv => RolloverTypeOK
  <2>1. SUFFICES ASSUME RolloverInv
                 PROVE  RolloverTypeOK
    OBVIOUS
  <2>2. Typed /\ RingInv
    BY <2>1 DEF RolloverInv, KeyInv
  <2>3. ASSUME NEW p \in Replicas, Running(p)
        PROVE  CanSeal(p) /\ \A k \in ring[p] : k.kid # 0
    <3>1. NewCookieKeyring(ring[p], Clock(p))
      BY <2>2, <2>3 DEF RingInv, Accepts
    <3>2. ring[p] \in SUBSET Entries /\ Clock(p) \in Nat
      BY <2>2, ClockBounds DEF Typed
    <3> QED
      BY <3>1, <3>2, SealsWithLatest DEF CanSeal, NewCookieKeyring
  <2>4. ASSUME NEW p \in Replicas
        PROVE  ring[p] \in SUBSET Keys
    <3>1. SUFFICES ASSUME NEW k \in ring[p]
                   PROVE  k \in Keys
      OBVIOUS
    <3>2. Running(p)
      BY DEF Running
    <3>3. k \in Entries /\ k.kid # 0
      BY <3>2, <2>2, <2>3 DEF Typed
    <3> QED
      BY <3>3 DEF Entries, Keys
  <2>5. ring \in [Replicas -> SUBSET Keys]
    BY <2>2, <2>4 DEF Typed
  <2> QED
    BY <2>2, <2>3, <2>5 DEF RolloverTypeOK, Typed
<1> QED
  BY <1>1, InvAlways, PTL

\* newCookieKeyring: the key a replica seals with is never a coin flip,
\* whatever environments were deployed.
THEOREM SealingKeyIsUnique == Spec => []NoCoinFlip
<1> USE RolloverAssumption
<1>1. RolloverInv => NoCoinFlip
  <2>1. SUFFICES ASSUME RolloverInv, NEW p \in Replicas
                 PROVE  Cardinality(Latest(ring[p], Clock(p))) <= 1
    BY DEF NoCoinFlip
  <2> DEFINE L == Latest(ring[p], Clock(p))
  <2>2. CASE L = {}
    BY <2>2, FS_EmptySet
  <2>3. CASE L # {}
    <3>1. PICK k \in L : TRUE
      BY <2>3
    <3>2. k \in ring[p] /\ Running(p)
      BY <3>1 DEF Latest, Running
    <3>3. Clean(ring[p])
      BY <2>1, <3>2, AcceptedIsClean
         DEF RolloverInv, KeyInv, RingInv, Accepts
    <3>4. \A e \in ring[p] : e.useAfter \in Int
      BY <2>1 DEF RolloverInv, KeyInv, Typed, Entries
    <3>5. \A e \in L : e = k
      BY <3>1, <3>3, <3>4 DEF Latest, Clean
    <3> HIDE DEF L
    <3>6. L = {k}
      BY <3>1, <3>5
    <3>7. Cardinality(L) = 1
      BY <3>6, FS_Singleton
    <3> QED
      BY <3>7 DEF L
  <2> QED
    BY <2>2, <2>3
<1> QED
  BY <1>1, InvAlways, PTL

\* A running replica has a key to seal with, so it looks at the values it is
\* given.
LEMMA OpensWithKey ==
  ASSUME RolloverInv, NEW p \in Replicas, Running(p)
  PROVE  SealingKey(ring[p], Clock(p)) # NoKey
BY SealsWithCommonKey DEF RolloverInv

\* "Nobody is logged out": through rollovers, revocations of other keys,
\* mistakes and moves between stores, with clocks apart and replicas deployed
\* one by one, every running replica opens every session that has not ended.
THEOREM NobodyIsStranded == Spec => []NoneStranded
<1> USE RolloverAssumption
<1>1. RolloverInv => NoneStranded
  <2>1. SUFFICES ASSUME RolloverInv, NEW p \in Replicas, Running(p), Live(p)
                 PROVE  Resolve(p) = "ok"
    BY DEF NoneStranded
  <2>2. SealingKey(ring[p], Clock(p)) # NoKey
    BY <2>1, OpensWithKey
  <2>3. /\ cookie.held /\ cookie.value.version = 1
        /\ cookie.value.kind = kind[p] /\ ~Aged(p)
        /\ cookie.value.kid \notin revoked
        /\ kind[p] = Handle => row.payload.kid \notin revoked
    BY <2>1 DEF Live
  <2>4. KeyInv /\ Shapes /\ SessionInv /\ kind[p] \in {Payload, Handle}
    BY <2>1 DEF RolloverInv, KeyInv, Typed
  <2>5. ~Over
    <3>1. /\ Clock(p) \in Nat /\ now \in Nat
          /\ now <= Clock(p) /\ Clock(p) <= now + MaxSkew
      BY <2>4, ClockBounds DEF KeyInv
    <3>2. cookie.born \in Int /\ row.born \in Int
      BY <2>4 DEF Shapes
    <3>3. CASE kind[p] = Payload
      BY <3>1, <3>2, <3>3, <2>3 DEF Over, Base, Aged
    <3>4. CASE kind[p] = Handle
      BY <3>1, <3>2, <3>4, <2>3 DEF Over, Base, Aged, Payload, Handle
    <3> QED
      BY <2>4, <3>3, <3>4
  <2>6. cookie.value.kid \in Kids(ring[p])
    <3>1. cookie.value.kid \in Used
      BY <2>3 DEF Used
    <3> QED
      BY <3>1, <2>1, <2>3, <2>4, <2>5 DEF SessionInv, SealedWell, Have
  <2>7. OpenCookie(p) = "ok"
    BY <2>2, <2>3, <2>4, <2>6 DEF OpenCookie, OpenKind, Shapes, Kids
  <2>8. CASE kind[p] = Payload
    BY <2>7, <2>8 DEF Resolve
  <2>9. CASE kind[p] = Handle
    <3>1. row.payload.kid \in Kids(ring[p])
      <4>1. row.payload.kid \in Used
        BY <2>3, <2>9 DEF Used
      <4> QED
        BY <4>1, <2>1, <2>3, <2>4, <2>5, <2>9 DEF SessionInv, SealedWell, Have
    <3>2. row.payload.version = 1
      BY <2>3, <2>4, <2>9 DEF Shapes
    <3>3. OpenRow(p) = "ok"
      BY <2>2, <2>4, <3>1, <3>2 DEF OpenRow, OpenKind, Shapes, Kids
    <3> QED
      BY <2>7, <3>3 DEF Resolve
  <2> QED
    BY <2>4, <2>8, <2>9
<1> QED
  BY <1>1, InvAlways, PTL

\* openKindRaw: a value this application sealed, or a leftover of another
\* release, is never reported as tampered with.
THEOREM NoAlarmIsFalse == Spec => []NoFalseAlarm
<1>1. RolloverInv => NoFalseAlarm
  <2>1. SUFFICES ASSUME RolloverInv, NEW p \in Replicas, Running(p),
                        cookie.held
                 PROVE  Resolve(p) # "authentication"
    BY DEF NoFalseAlarm
  <2>2. Shapes
    BY <2>1 DEF RolloverInv
  <2>3. OpenCookie(p) # "authentication"
    BY <2>2 DEF OpenCookie, OpenKind, Shapes
  <2>4. CASE OpenCookie(p) # "ok" \/ kind[p] = Payload
    BY <2>3, <2>4 DEF Resolve
  <2>5. CASE ~(OpenCookie(p) # "ok" \/ kind[p] = Payload)
    <3>1. Resolve(p) = OpenRow(p)
      BY <2>5 DEF Resolve
    <3>2. OpenRow(p) # "authentication"
      BY <2>2 DEF OpenRow, OpenKind, Shapes
    <3> QED
      BY <3>1, <3>2
  <2> QED
    BY <2>4, <2>5
<1> QED
  BY <1>1, InvAlways, PTL


-----------------------------------------------------------------------------
(* Domains *)

\* What the tokens of a domain are.
Text == STRING \cup {"cookie", ":", "auth_redir", "store"}

\* validCookieName: an accepted name is a sequence without separators.
LEMMA NameFacts ==
  ASSUME NEW n \in Applications
  PROVE  /\ n \in Seq(Text) /\ Len(n) \in Nat
         /\ \A i \in 1 .. Len(n) : n[i] # ":"
<1>1. n \in Seq(STRING) /\ ValidCookieName(n)
  BY RolloverAssumption DEF Applications
<1>2. Len(n) \in Nat /\ n \in [1 .. Len(n) -> STRING] /\ DOMAIN n = 1 .. Len(n)
  BY <1>1
<1>3. n \in [1 .. Len(n) -> Text]
  BY <1>2 DEF Text
<1> QED
  BY <1>1, <1>2, <1>3, SeqDef DEF ValidCookieName

\* Two tokens before a sequence.
LEMMA Prefixed ==
  ASSUME NEW S, NEW n \in Seq(S), NEW a \in S, NEW b \in S
  PROVE  /\ <<a, b>> \o n \in Seq(S) /\ Len(<<a, b>> \o n) = Len(n) + 2
         /\ (<<a, b>> \o n)[1] = a
         /\ \A i \in 1 .. Len(n) : (<<a, b>> \o n)[i + 2] = n[i]
OBVIOUS

\* Four of them.
LEMMA FourPrefixed ==
  ASSUME NEW S, NEW n \in Seq(S),
         NEW a \in S, NEW b \in S, NEW c \in S, NEW d \in S
  PROVE  LET D == <<a, b, c, d>> \o n
         IN  /\ Len(D) = Len(n) + 4 /\ D[1] = a /\ D[4] = d
             /\ \A i \in 1 .. Len(n) : D[i + 4] = n[i]
OBVIOUS

\* Two before it and two after it.
LEMMA Enclosed ==
  ASSUME NEW S, NEW n \in Seq(S),
         NEW a \in S, NEW b \in S, NEW c \in S, NEW d \in S
  PROVE  LET D == (<<a, b>> \o n) \o <<c, d>>
         IN  /\ Len(D) = Len(n) + 4 /\ D[1] = a /\ D[Len(n) + 4] = d
             /\ \A i \in 1 .. Len(n) : D[i + 2] = n[i]
<1> DEFINE P == <<a, b>> \o n
<1>1. /\ P \in Seq(S) /\ Len(P) = Len(n) + 2 /\ P[1] = a
      /\ \A i \in 1 .. Len(n) : P[i + 2] = n[i]
  BY Prefixed
<1> HIDE DEF P
<1>2. /\ Len(P \o <<c, d>>) = Len(P) + 2
      /\ \A i \in 1 .. Len(P) : (P \o <<c, d>>)[i] = P[i]
      /\ (P \o <<c, d>>)[Len(P) + 2] = d
  BY <1>1
<1> QED
  BY <1>1, <1>2 DEF P

\* Sequences of one length that agree everywhere are one.
LEMMA SameSequence ==
  ASSUME NEW S, NEW n \in Seq(S), NEW m \in Seq(S), Len(n) = Len(m),
         \A i \in 1 .. Len(n) : n[i] = m[i]
  PROVE  n = m
OBVIOUS

\* The three shapes of a domain.
LEMMA DomainShapes ==
  ASSUME NEW n \in Applications
  PROVE  /\ LET D == CookieDomain(Session, n)
            IN  /\ Len(D) = Len(n) + 2 /\ D[1] = "cookie"
                /\ \A i \in 1 .. Len(n) : D[i + 2] = n[i]
         /\ LET D == CookieDomain(AuthRedirect, n)
            IN  /\ Len(D) = Len(n) + 4 /\ D[1] = "cookie" /\ D[4] = ":"
                /\ \A i \in 1 .. Len(n) : D[i + 4] = n[i]
         /\ \A id \in RowSet :
              LET D == PayloadDomain(n, id)
              IN  /\ Len(D) = Len(n) + 4 /\ D[1] = "store"
                  /\ D[Len(n) + 4] = id
                  /\ \A i \in 1 .. Len(n) : D[i + 2] = n[i]
<1>1. n \in Seq(Text)
  BY NameFacts
<1>2. /\ "cookie" \in Text /\ ":" \in Text /\ "auth_redir" \in Text
      /\ "store" \in Text
  BY DEF Text
<1>3. RowSet \subseteq Text
  BY RolloverAssumption DEF RowSet, Text
<1>4. LET D == CookieDomain(Session, n)
      IN  /\ Len(D) = Len(n) + 2 /\ D[1] = "cookie"
          /\ \A i \in 1 .. Len(n) : D[i + 2] = n[i]
  BY <1>1, <1>2, Prefixed DEF CookieDomain, Session
<1>5. LET D == CookieDomain(AuthRedirect, n)
      IN  /\ Len(D) = Len(n) + 4 /\ D[1] = "cookie" /\ D[4] = ":"
          /\ \A i \in 1 .. Len(n) : D[i + 4] = n[i]
  BY <1>1, <1>2, FourPrefixed DEF CookieDomain, AuthRedirect
<1>6. ASSUME NEW id \in RowSet
      PROVE  LET D == PayloadDomain(n, id)
             IN  /\ Len(D) = Len(n) + 4 /\ D[1] = "store"
                 /\ D[Len(n) + 4] = id
                 /\ \A i \in 1 .. Len(n) : D[i + 2] = n[i]
  BY <1>1, <1>2, <1>3, Enclosed DEF PayloadDomain, CookieDomain, Store
<1> QED
  BY <1>4, <1>5, <1>6

\* cookieDomain and payloadDomain: no two places have one domain.
LEMMA DomainsDiffer ==
  ASSUME NEW q \in Places, NEW o \in Places, DomainOf(q) = DomainOf(o)
  PROVE  q.purpose = o.purpose /\ q.name = o.name /\ q.row = o.row
<1>1. ASSUME NEW r \in Places
      PROVE  /\ r.name \in Applications
             /\ \/ /\ r.row = "none" /\ r.purpose = Session
                   /\ DomainOf(r) = CookieDomain(Session, r.name)
                \/ /\ r.row = "none" /\ r.purpose = AuthRedirect
                   /\ DomainOf(r) = CookieDomain(AuthRedirect, r.name)
                \/ /\ r.row \in RowSet /\ r.purpose = Store
                   /\ DomainOf(r) = PayloadDomain(r.name, r.row)
  <2>1. "none" \notin RowSet
    BY RolloverAssumption DEF RowSet
  <2> QED
    BY <2>1 DEF Places, DomainOf, RowSet
<1>2. ASSUME NEW n \in Applications, NEW m \in Applications,
             CookieDomain(Session, n) = CookieDomain(AuthRedirect, m)
      PROVE  FALSE
  <2>1. Len(n) \in Nat /\ Len(m) \in Nat /\ \A i \in 1 .. Len(n) : n[i] # ":"
    BY NameFacts
  <2>2. Len(n) = Len(m) + 2
    BY <1>2, <2>1, DomainShapes
  <2>3. n[2] = CookieDomain(Session, n)[2 + 2]
    BY <2>1, <2>2, DomainShapes
  <2> QED
    BY <1>2, <2>1, <2>2, <2>3, DomainShapes
<1>3. ASSUME NEW n \in Applications, NEW m \in Applications,
             \/ CookieDomain(Session, n) = CookieDomain(Session, m)
             \/ CookieDomain(AuthRedirect, n) = CookieDomain(AuthRedirect, m)
             \/ \E a, b \in RowSet : PayloadDomain(n, a) = PayloadDomain(m, b)
      PROVE  n = m
  <2>1. n \in Seq(Text) /\ m \in Seq(Text) /\ Len(n) \in Nat /\ Len(m) \in Nat
    BY NameFacts
  <2>2. Len(n) = Len(m) /\ \A i \in 1 .. Len(n) : n[i] = m[i]
    <3>1. CASE CookieDomain(Session, n) = CookieDomain(Session, m)
      <4> DEFINE D == CookieDomain(Session, n)
                 E == CookieDomain(Session, m)
      <4>1. /\ Len(D) = Len(n) + 2 /\ \A i \in 1 .. Len(n) : D[i + 2] = n[i]
            /\ Len(E) = Len(m) + 2 /\ \A i \in 1 .. Len(m) : E[i + 2] = m[i]
        BY DomainShapes
      <4> HIDE DEF D, E
      <4>2. Len(n) = Len(m)
        BY <2>1, <3>1, <4>1 DEF D, E
      <4> QED
        BY <3>1, <4>1, <4>2 DEF D, E
    <3>2. CASE CookieDomain(AuthRedirect, n) = CookieDomain(AuthRedirect, m)
      <4> DEFINE D == CookieDomain(AuthRedirect, n)
                 E == CookieDomain(AuthRedirect, m)
      <4>1. /\ Len(D) = Len(n) + 4 /\ \A i \in 1 .. Len(n) : D[i + 4] = n[i]
            /\ Len(E) = Len(m) + 4 /\ \A i \in 1 .. Len(m) : E[i + 4] = m[i]
        BY DomainShapes
      <4> HIDE DEF D, E
      <4>2. Len(n) = Len(m)
        BY <2>1, <3>2, <4>1 DEF D, E
      <4> QED
        BY <3>2, <4>1, <4>2 DEF D, E
    <3>3. ASSUME NEW a \in RowSet, NEW b \in RowSet,
                 PayloadDomain(n, a) = PayloadDomain(m, b)
          PROVE  Len(n) = Len(m) /\ \A i \in 1 .. Len(n) : n[i] = m[i]
      <4> DEFINE D == PayloadDomain(n, a)
                 E == PayloadDomain(m, b)
      <4>1. /\ Len(D) = Len(n) + 4 /\ \A i \in 1 .. Len(n) : D[i + 2] = n[i]
            /\ Len(E) = Len(m) + 4 /\ \A i \in 1 .. Len(m) : E[i + 2] = m[i]
        BY DomainShapes
      <4> HIDE DEF D, E
      <4>2. Len(n) = Len(m)
        BY <2>1, <3>3, <4>1 DEF D, E
      <4> QED
        BY <3>3, <4>1, <4>2 DEF D, E
    <3> QED
      BY <1>3, <3>1, <3>2, <3>3
  <2> QED
    BY <2>1, <2>2, SameSequence
<1>4. ASSUME NEW n \in Applications, NEW a \in RowSet, NEW b \in RowSet,
             PayloadDomain(n, a) = PayloadDomain(n, b)
      PROVE  a = b
  BY <1>4, DomainShapes
<1>5. ASSUME NEW n \in Applications, NEW m \in Applications, NEW a \in RowSet
      PROVE  /\ PayloadDomain(n, a) # CookieDomain(Session, m)
             /\ PayloadDomain(n, a) # CookieDomain(AuthRedirect, m)
  <2>1. "store" # "cookie"
    OBVIOUS
  <2> QED
    BY <2>1, DomainShapes
<1> QED
  BY <1>1, <1>2, <1>3, <1>4, <1>5

\* cookieEnvelopeAAD, cookieDomain and payloadDomain: a sealed value opens in
\* the one place it was sealed for.
THEOREM SealedIsBound == Spec => []BoundToPlace
<1>1. RolloverInv => BoundToPlace
  <2>1. SUFFICES ASSUME RolloverInv, NEW p \in Replicas
                 PROVE  /\ OpensOnlyAt(p, cookie.value,
                             [kind |-> cookie.value.kind, purpose |-> Session,
                              name |-> app, row |-> "none"])
                        /\ OpensOnlyAt(p, row.payload,
                             [kind |-> Payload, purpose |-> Store,
                              name |-> app, row |-> row.id])
    BY DEF BoundToPlace
  <2>2. Shapes /\ app \in Applications
    BY <2>1 DEF RolloverInv, KeyInv, Typed, Applications
  <2>3. ASSUME NEW q \in Places, NEW o \in Places, NEW v,
               v.aad = EnvelopeAAD(v.kind, v.kid, DomainOf(o)),
               OpenKind(ring[p], Clock(p), q.kind, DomainOf(q), v) = "ok"
        PROVE  /\ q.kind = v.kind /\ q.purpose = o.purpose
               /\ q.name = o.name /\ q.row = o.row
    <3>1. q.kind = v.kind
      BY <2>3, OpensIsSealed
    <3>2. v.aad = EnvelopeAAD(q.kind, v.kid, DomainOf(q))
      BY <2>3 DEF OpenKind
    <3>3. DomainOf(q) = DomainOf(o)
      BY <2>3, <3>2 DEF EnvelopeAAD
    <3> QED
      BY <3>1, <3>3, DomainsDiffer
  <2>4. ASSUME NEW q \in Places
        PROVE  q = [kind |-> q.kind, purpose |-> q.purpose, name |-> q.name,
                    row |-> q.row]
    BY DEF Places
  <2>5. OpensOnlyAt(p, cookie.value,
          [kind |-> cookie.value.kind, purpose |-> Session, name |-> app,
           row |-> "none"])
    <3> DEFINE own == [kind |-> cookie.value.kind, purpose |-> Session,
                       name |-> app, row |-> "none"]
    <3>1. SUFFICES ASSUME NEW q \in Places,
                          OpenKind(ring[p], Clock(p), q.kind, DomainOf(q),
                                   cookie.value) = "ok"
                   PROVE  q = own
      BY DEF OpensOnlyAt
    <3>2. cookie.value.version = 1
      BY <3>1, OpensIsSealed
    <3>3. own \in Places /\ DomainOf(own) = CookieDomain(Session, app)
      BY <2>2 DEF Places, DomainOf, Shapes
    <3>4. /\ q.kind = cookie.value.kind /\ q.purpose = own.purpose
          /\ q.name = own.name /\ q.row = own.row
      BY <3>1, <3>2, <3>3, <2>2, <2>3 DEF Shapes
    <3> QED
      BY <3>4, <2>4
  <2>6. OpensOnlyAt(p, row.payload,
          [kind |-> Payload, purpose |-> Store, name |-> app, row |-> row.id])
    <3> DEFINE own == [kind |-> Payload, purpose |-> Store, name |-> app,
                       row |-> row.id]
    <3>1. SUFFICES ASSUME NEW q \in Places,
                          OpenKind(ring[p], Clock(p), q.kind, DomainOf(q),
                                   row.payload) = "ok"
                   PROVE  q = own
      BY DEF OpensOnlyAt
    <3>2. row.payload.version = 1
      BY <3>1, OpensIsSealed
    <3>3. own \in Places
      BY <3>2, <2>2 DEF Places, Shapes, RowSet
    <3>4. DomainOf(own) = PayloadDomain(app, row.id)
      <4>1. row.id # "none"
        BY <3>2, <2>2, RolloverAssumption DEF Shapes, RowSet
      <4> QED
        BY <4>1 DEF DomainOf
    <3>5. /\ q.kind = row.payload.kind /\ q.purpose = own.purpose
          /\ q.name = own.name /\ q.row = own.row
      BY <3>1, <3>2, <3>3, <3>4, <2>2, <2>3 DEF Shapes
    <3> QED
      BY <3>5, <2>2, <2>4 DEF Shapes
  <2> QED
    BY <2>5, <2>6
<1> QED
  BY <1>1, InvAlways, PTL

=============================================================================
