------------------------ MODULE TokenExchangeProofs ------------------------
(***************************************************************************)
(* Proofs about TokenExchange, for every timeout, margin, lifetime and     *)
(* integer width the assumptions allow: a round trip keeps to its budgets, *)
(* the expiry a session is given is sound, and a session survives any      *)
(* chain of refreshes the provider honours in time and readably.           *)
(***************************************************************************)
EXTENDS TokenExchange, TLAPS

-----------------------------------------------------------------------------
(* Arithmetic at the widths' edges *)

\* A number that fits is not wrapped.
LEMMA WrappedFits ==
  ASSUME NEW max \in Nat, NEW n \in -(max + 1) .. max
  PROVE  Wrapped(n, max) = n
  <1>1. \A a, b \in Nat : a < b => a % b = a
    OBVIOUS
  <1>2. /\ n + max + 1 \in Nat /\ 2 * (max + 1) \in Nat
        /\ n + max + 1 < 2 * (max + 1)
    OBVIOUS
  <1>3. (n + max + 1) % (2 * (max + 1)) = n + max + 1
    BY <1>1, <1>2
  <1> QED BY <1>3 DEF Wrapped

\* Wrapping gives a number.
LEMMA WrappedType ==
  ASSUME NEW max \in Nat, NEW n \in Int
  PROVE  Wrapped(n, max) \in Int
  <1>1. \A a \in Int, b \in Nat \ {0} : a % b \in Int
    OBVIOUS
  <1>2. n + max + 1 \in Int /\ 2 * (max + 1) \in Nat \ {0}
    OBVIOUS
  <1>3. (n + max + 1) % (2 * (max + 1)) \in Int
    BY <1>1, <1>2
  <1> QED BY <1>3 DEF Wrapped

\* The int64 of nanoseconds.
Nanoseconds == -(MaxInt64 + 1) .. MaxInt64

\* A lifetime that fits in an int64 of nanoseconds ends when it says.
LEMMA ExpiryInFits ==
  ASSUME NEW n \in Int \ {0}, n * Second \in Nanoseconds
  PROVE  ExpiryIn(n) = now + n * Second
  <1>1. Wrapped(n * Second, MaxInt64) = n * Second
    BY TokenAssumption, WrappedFits DEF Nanoseconds
  <1> QED BY <1>1 DEF ExpiryIn

\* Seconds are multiplied in order.
LEMMA SecondsInOrder ==
  ASSUME NEW a \in Int, NEW b \in Int, a <= b
  PROVE  a * Second <= b * Second
  BY TokenAssumption

\* expirationTime: a JSON lifetime, cut down to an int32, fits.
LEMMA JSONFits ==
  ASSUME NEW n \in Int, n >= -(MaxInt32 + 1)
  PROVE  /\ ExpirationTime(n) \in Int /\ ExpirationTime(n) <= n
         /\ n > 0 => ExpirationTime(n) > 0
         /\ n <= 0 => ExpirationTime(n) = n
         /\ ExpirationTime(n) * Second \in Nanoseconds
         /\ ExpirationTime(n) * Second <= n * Second
  <1> DEFINE m == IF n > MaxInt32 THEN MaxInt32 ELSE n
             least == -(MaxInt32 + 1)
  <1>1. /\ m \in Int /\ least \in Int /\ MaxInt32 \in Int
        /\ m \in least .. MaxInt32 /\ m <= n
        /\ (n > 0 => m > 0) /\ (n <= 0 => m = n)
    BY TokenAssumption
  <1>2. ExpirationTime(n) = m
    BY <1>1, WrappedFits, TokenAssumption DEF ExpirationTime
  <1>3. m * Second <= n * Second
    BY <1>1, SecondsInOrder
  <1>4. least * Second <= m * Second /\ m * Second <= MaxInt32 * Second
    BY <1>1, SecondsInOrder
  <1>5. /\ MaxInt32 * Second <= MaxInt64 /\ -(MaxInt64 + 1) <= least * Second
        /\ MaxInt32 * Second \in Int /\ least * Second \in Int
        /\ m * Second \in Int /\ n * Second \in Int
    <2>1. /\ (MaxInt32 + 1) * Second = MaxInt32 * Second + Second
          /\ least * Second = -((MaxInt32 + 1) * Second)
          /\ MaxInt32 * Second \in Int
      BY TokenAssumption
    <2>2. m * Second \in Int /\ n * Second \in Int
      BY <1>1, TokenAssumption
    <2>3. (MaxInt32 + 1) * Second <= MaxInt64 + 1 /\ Second >= 1
      BY TokenAssumption
    <2> HIDE DEF m, least
    <2> QED BY <2>1, <2>2, <2>3, TokenAssumption
  <1> HIDE DEF m, least
  <1>6. m * Second \in Nanoseconds
    BY <1>4, <1>5, TokenAssumption DEF Nanoseconds
  <1> QED BY <1>1, <1>2, <1>3, <1>6

-----------------------------------------------------------------------------
(* The inductive invariant *)

\* The records, and what is between a request and its answer.
SessType == [on: BOOLEAN, refresh: Nat, expiry: Int, got: Int, expires: Int,
             json: BOOLEAN]
TripType == [pc: {"home", "posted"}, at: Int, budget: Int, deadline: Int,
             cancels: {FALSE}, gone: BOOLEAN]
ReplyType == [none: {FALSE}, ok: BOOLEAN, parses: BOOLEAN, error: BOOLEAN,
              access: BOOLEAN, refresh: Nat, expires: Int, json: BOOLEAN]

\* Types, and the numbers the provider has given out so far.
Typed ==
  /\ now \in 0 .. MaxNow /\ issued \in 0 .. MaxIssued
  /\ sess \in SessType /\ sess.refresh <= issued
  /\ trip \in TripType
  /\ reply = NoReply \/ (reply \in ReplyType /\ reply.refresh <= issued)
  /\ live \subseteq 1 .. issued
  /\ excused \in BOOLEAN

\* A round trip has a session, a session has been issued a token set, and
\* without a round trip nothing is on its way.
TripInv ==
  /\ trip.pc = "home" => trip = Home /\ reply = NoReply
  /\ trip.pc = "posted" => sess.on
  /\ sess.on => issued > 0

\* The deadline of a round trip is the sooner of its two budgets, and time
\* has not passed it.
DeadlineInv ==
  trip.pc = "posted" =>
    /\ trip.at \in 0 .. MaxNow
    /\ trip.budget # NoDeadline => trip.budget \in Nat
    /\ trip.deadline \in Nat /\ now <= trip.deadline
    /\ trip.deadline <= trip.at + RefreshTimeout
    /\ trip.budget # NoDeadline => trip.deadline <= trip.budget
    /\ trip.deadline \in {trip.at + RefreshTimeout, trip.budget}

\* Whatever stage a round trip is at, one refresh token that the session has,
\* or is about to be given, is still honoured.
HonouredInv ==
  issued > 0 /\ ~excused =>
    /\ sess.on
    /\ reply = NoReply => sess.refresh \in live
    /\ reply # NoReply =>
         /\ Usable(reply)
         /\ reply.refresh = NoToken => sess.refresh \in live
         /\ reply.refresh # NoToken => reply.refresh \in live

TokenInv == Typed /\ TripInv /\ DeadlineInv /\ HonouredInv /\ ExpirySound

-----------------------------------------------------------------------------
(* What a response is turned into *)

\* The session that a usable response gives, whatever it carried.
Given(r, had) == Granted(Assumed(Carried(TokenOf(r), had)), r)

\* The refresh token of that session.
LEMMA GivenShape ==
  ASSUME NEW r \in ReplyType, NEW had \in Nat, now \in Nat
  PROVE  /\ Given(r, had) \in SessType /\ Given(r, had).on
         /\ Given(r, had).refresh = IF r.refresh = NoToken THEN had
                                                           ELSE r.refresh
         /\ Given(r, had).expires = r.expires /\ Given(r, had).json = r.json
         /\ Given(r, had).got = now
         /\ Given(r, had).expiry =
              IF TokenOf(r).expiry = Zero THEN now + AssumedLifetime
                                          ELSE TokenOf(r).expiry
         /\ TokenOf(r).expiry \in Int
  <1>1. r.expires \in Int /\ r.refresh \in Nat /\ r.json \in BOOLEAN
    BY DEF ReplyType
  <1>2. ExpirationTime(r.expires) \in Int
    BY <1>1, WrappedType, TokenAssumption DEF ExpirationTime
  <1>3. FormExpiry(r.expires) \in Int
    BY <1>1, TokenAssumption DEF FormExpiry
  <1>4. \A n \in Int : ExpiryIn(n) \in Int
    <2> TAKE n \in Int
    <2>1. n * Second \in Int
      BY TokenAssumption
    <2>2. Wrapped(n * Second, MaxInt64) \in Int
      BY <2>1, TokenAssumption, WrappedType
    <2> QED BY <2>2, TokenAssumption DEF ExpiryIn, Zero
  <1>5. /\ TokenOf(r).expiry \in Int /\ TokenOf(r).refresh = r.refresh
        /\ TokenOf(r) = [refresh |-> TokenOf(r).refresh,
                         expiry |-> TokenOf(r).expiry]
    BY <1>1, <1>2, <1>3, <1>4 DEF TokenOf
  <1> DEFINE x == TokenOf(r).expiry
  <1>6. Carried(TokenOf(r), had) =
          [refresh |-> IF r.refresh = NoToken THEN had ELSE r.refresh,
           expiry |-> x]
    BY <1>5 DEF Carried
  <1>7. Assumed(Carried(TokenOf(r), had)) =
          [refresh |-> IF r.refresh = NoToken THEN had ELSE r.refresh,
           expiry |-> IF x = Zero THEN now + AssumedLifetime ELSE x]
    BY <1>6 DEF Assumed
  <1>8. now + AssumedLifetime \in Int /\ x \in Int
    BY <1>5, TokenAssumption
  <1> HIDE DEF x
  <1> DEFINE rt == IF r.refresh = NoToken THEN had ELSE r.refresh
             ex == IF x = Zero THEN now + AssumedLifetime ELSE x
  <1>9. Assumed(Carried(TokenOf(r), had)).refresh = rt
        /\ Assumed(Carried(TokenOf(r), had)).expiry = ex
    BY <1>7
  <1>10. rt \in Nat /\ ex \in Int
    BY <1>1, <1>8
  <1> HIDE DEF rt, ex
  <1>11. Given(r, had) = [on |-> TRUE, refresh |-> rt, expiry |-> ex,
                          got |-> now, expires |-> r.expires, json |-> r.json]
    BY <1>9 DEF Given, Granted
  <1>12. Given(r, had) \in SessType
    BY <1>1, <1>10, <1>11 DEF SessType
  <1> QED BY <1>5, <1>11, <1>12 DEF x, rt, ex

\* Its expiry is sound.
LEMMA GivenSound ==
  ASSUME NEW r \in ReplyType, NEW had \in Nat, now \in Nat,
         Fits(r.expires, r.json)
  PROVE  /\ r.expires >= 0 => Given(r, had).expiry > now
         /\ r.expires # 0 =>
              Given(r, had).expiry <= now + r.expires * Second
  <1> DEFINE n == IF r.json THEN ExpirationTime(r.expires)
                            ELSE FormExpiry(r.expires)
  <1>1. /\ r.expires \in Int /\ r.json \in BOOLEAN
        /\ r.expires * Second \in Int
    BY TokenAssumption DEF ReplyType
  <1>2. TokenOf(r).expiry = ExpiryIn(n)
    BY DEF TokenOf
  <1>3. /\ n \in Int /\ (r.expires > 0 => n > 0)
        /\ r.expires = 0 => n = 0
        /\ r.expires < 0 => n < 0
        /\ n * Second \in Nanoseconds /\ n * Second <= r.expires * Second
    <2>1. CASE r.json
      <3>1. r.expires >= -(MaxInt32 + 1)
        BY <2>1 DEF Fits
      <3> QED BY <1>1, <2>1, <3>1, JSONFits
    <2>2. CASE ~r.json
      <3>1. r.expires * Second \in Nanoseconds
        BY <2>2 DEF Fits, Nanoseconds
      <3>2. r.expires \in -(MaxInt64 + 1) .. MaxInt64
        <4>1. CASE r.expires >= 0
          <5>1. r.expires <= r.expires * Second
            BY <1>1, <4>1, TokenAssumption
          <5> QED BY <1>1, <3>1, <4>1, <5>1, TokenAssumption DEF Nanoseconds
        <4>2. CASE r.expires < 0
          <5>1. r.expires * Second <= r.expires
            BY <1>1, <4>2, TokenAssumption
          <5> QED BY <1>1, <3>1, <4>2, <5>1, TokenAssumption DEF Nanoseconds
        <4> QED BY <1>1, <4>1, <4>2
      <3>3. n = r.expires
        BY <1>1, <2>2, <3>2, TokenAssumption DEF FormExpiry
      <3> QED BY <1>1, <2>2, <3>1, <3>3
    <2> QED BY <2>1, <2>2
  <1>4. Given(r, had).expiry = IF ExpiryIn(n) = Zero THEN now + AssumedLifetime
                                                     ELSE ExpiryIn(n)
    BY <1>2, GivenShape
  <1> HIDE DEF n
  <1>5. CASE n = 0
    <2>1. ExpiryIn(n) = Zero
      BY <1>5 DEF ExpiryIn
    <2> QED BY <1>1, <1>3, <1>4, <1>5, <2>1, TokenAssumption
  <1>6. CASE n # 0
    <2>1. ExpiryIn(n) = now + n * Second
      BY <1>3, <1>6, ExpiryInFits
    <2>2. n * Second \in Int /\ n * Second >= -(MaxInt64 + 1)
      BY <1>3, TokenAssumption DEF Nanoseconds
    <2>3. ExpiryIn(n) # Zero
      <3> DEFINE ns == n * Second
      <3> HIDE DEF ns
      <3>1. ns \in Int /\ ns >= -(MaxInt64 + 1) /\ ExpiryIn(n) = now + ns
        BY <2>1, <2>2 DEF ns
      <3> QED BY <3>1, TokenAssumption DEF Zero
    <2>4. n > 0 => n * Second > 0
      BY <1>3, TokenAssumption
    <2> QED BY <1>1, <1>3, <1>4, <1>6, <2>1, <2>2, <2>3, <2>4
  <1> QED BY <1>5, <1>6

-----------------------------------------------------------------------------
(* The steps *)

\* An answer is not the absence of one.
LEMMA AnswerIsOne ==
  /\ NoReply.none /\ ~Usable(NoReply)
  /\ \A r \in ReplyType : ~r.none /\ r # NoReply
  <1>1. NoReply.none = TRUE
    BY DEF NoReply
  <1>2. \A r \in ReplyType : r.none = FALSE
    BY DEF ReplyType
  <1>3. ~Usable(NoReply)
    BY <1>1 DEF Usable
  <1> QED BY <1>1, <1>2, <1>3

\* A token set that carries its own refresh token keeps it.
LEMMA OwnToken ==
  ASSUME NEW r \in ReplyType, r.refresh # NoToken
  PROVE  Granted(Assumed(TokenOf(r)), r) = Given(r, 0)
  <1>1. TokenOf(r).refresh = r.refresh
    BY DEF TokenOf
  <1>2. Carried(TokenOf(r), 0) = TokenOf(r)
    BY <1>1 DEF Carried
  <1> QED BY <1>2 DEF Given

\* Replies of a token endpoint that issued one.
LEMMA TokenReplyType ==
  ASSUME NEW t \in Nat, NEW e \in Lifetimes, NEW j \in BOOLEAN
  PROVE  /\ TokenReply(t, e, j) \in ReplyType
         /\ TokenReply(t, e, j).refresh = t
         /\ TokenReply(t, e, j).expires = e /\ TokenReply(t, e, j).json = j
         /\ Readable(e, j) => Usable(TokenReply(t, e, j))
  <1>1. e \in Int
    BY TokenAssumption
  <1> QED BY <1>1 DEF TokenReply, Reply, ReplyType, Usable, Readable

\* Login.
LEMMA LoginStep ==
  ASSUME TokenInv, Login
  PROVE  TokenInv'
  <1> USE DEF TokenInv
  <1>1. /\ now \in 0 .. MaxNow /\ now \in Nat /\ issued \in 0 .. MaxIssued
        /\ issued \in Nat /\ live \subseteq 1 .. issued /\ trip \in TripType
    BY TokenAssumption DEF Typed
  <1>2. PICK e \in Lifetimes :
          /\ Readable(e, TRUE)
          /\ sess' = Granted(Assumed(TokenOf(TokenReply(issued + 1, e, TRUE))),
                             TokenReply(issued + 1, e, TRUE))
    BY DEF Login
  <1> DEFINE r == TokenReply(issued + 1, e, TRUE)
  <1>3. /\ r \in ReplyType /\ r.refresh = issued + 1 /\ r.expires = e
        /\ r.json = TRUE
    <2>1. issued + 1 \in Nat /\ TRUE \in BOOLEAN
      BY <1>1
    <2> QED BY <2>1, TokenReplyType
  <1> HIDE DEF r
  <1>5. r.refresh # NoToken
    BY <1>1, <1>3 DEF NoToken
  <1>6. sess' = Given(r, 0)
    BY <1>2, <1>3, <1>5, OwnToken DEF r
  <1>7. /\ Given(r, 0) \in SessType /\ Given(r, 0).on
        /\ Given(r, 0).refresh = IF r.refresh = NoToken THEN 0 ELSE r.refresh
        /\ Given(r, 0).expires = r.expires /\ Given(r, 0).json = r.json
        /\ Given(r, 0).got = now
    BY <1>1, <1>3, GivenShape
  <1>8. /\ sess' \in SessType /\ sess'.on /\ sess'.refresh = issued + 1
        /\ sess'.expires = e /\ sess'.got = now /\ sess'.json = TRUE
    BY <1>3, <1>5, <1>6, <1>7
  <1>9. ASSUME Fits(e, TRUE)
        PROVE  /\ e >= 0 => sess'.expiry > now
               /\ e # 0 => sess'.expiry <= now + e * Second
    <2>1. Fits(r.expires, r.json)
      BY <1>3, <1>9
    <2>2. /\ r.expires >= 0 => Given(r, 0).expiry > now
          /\ r.expires # 0 => Given(r, 0).expiry <= now + r.expires * Second
      BY <1>1, <1>3, <2>1, GivenSound
    <2> QED BY <1>3, <1>6, <2>2
  <1>10. /\ now' = now /\ trip' = trip /\ reply' = reply /\ trip = Home
         /\ issued' = issued + 1 /\ live' = live \cup {issued + 1}
         /\ issued + 1 <= MaxIssued /\ excused' = FALSE
    BY <1>1, TokenAssumption DEF Login
  <1>11. trip.pc = "home" /\ reply = NoReply
    BY <1>10 DEF Home, TripInv
  <1>12. live' \subseteq 1 .. issued'
    <2>1. \A t \in live' : t \in 1 .. issued \/ t = issued + 1
      BY <1>1, <1>10
    <2> QED BY <1>1, <1>10, <2>1
  <1>13. Typed'
    <2>1. issued' \in 0 .. MaxIssued /\ sess'.refresh <= issued'
      BY <1>1, <1>8, <1>10, TokenAssumption
    <2> QED BY <1>1, <1>8, <1>10, <1>11, <1>12, <2>1 DEF Typed
  <1>14. TripInv' /\ DeadlineInv' /\ HonouredInv'
    BY <1>1, <1>8, <1>10, <1>11 DEF TripInv, DeadlineInv, HonouredInv
  <1>15. ExpirySound'
    BY <1>8, <1>9 DEF ExpirySound
  <1> QED BY <1>13, <1>14, <1>15

\* Start: the detached context keeps to both budgets.
LEMMA StartStep ==
  ASSUME TokenInv, Start
  PROVE  TokenInv'
  <1> USE DEF TokenInv
  <1>1. now \in 0 .. MaxNow /\ now \in Nat /\ RefreshTimeout \in Nat \ {0}
    BY TokenAssumption DEF Typed
  <1>2. PICK d \in StoreTimeouts :
          trip' = [pc |-> "posted", at |-> now,
                   budget |-> IF d = NoDeadline THEN NoDeadline ELSE now + d,
                   deadline |-> DetachedDeadline(IF d = NoDeadline
                                  THEN NoDeadline ELSE now + d).deadline,
                   cancels |-> DetachedDeadline(IF d = NoDeadline
                                  THEN NoDeadline ELSE now + d).cancels,
                   gone |-> FALSE]
    BY DEF Start
  <1> DEFINE parent == IF d = NoDeadline THEN NoDeadline ELSE now + d
  <1>3. parent \in Int /\ (parent # NoDeadline => parent \in Nat /\ parent > now)
    BY <1>1, TokenAssumption DEF NoDeadline
  <1> HIDE DEF parent
  <1>4. /\ trip'.pc = "posted" /\ trip'.at = now /\ trip'.budget = parent
        /\ trip'.deadline =
             IF parent # NoDeadline /\ parent < now + RefreshTimeout
               THEN parent ELSE now + RefreshTimeout
        /\ trip'.cancels = FALSE /\ trip'.gone = FALSE
        /\ trip' = [pc |-> "posted", at |-> now, budget |-> parent,
                    deadline |-> trip'.deadline, cancels |-> FALSE,
                    gone |-> FALSE]
    BY <1>2 DEF DetachedDeadline, parent
  <1>5. /\ trip'.deadline \in Nat /\ now <= trip'.deadline
        /\ trip'.deadline <= now + RefreshTimeout
        /\ parent # NoDeadline => trip'.deadline <= parent
        /\ trip'.deadline \in {now + RefreshTimeout, parent}
    BY <1>1, <1>3, <1>4
  <1>6. /\ sess.on /\ trip = Home /\ now' = now /\ sess' = sess
        /\ reply' = reply /\ live' = live /\ issued' = issued
        /\ excused' = excused
    BY DEF Start
  <1>7. trip' \in TripType
    <2>1. PICK dl \in Int : dl = trip'.deadline
      BY <1>5
    <2>2. [pc |-> "posted", at |-> now, budget |-> parent, deadline |-> dl,
           cancels |-> FALSE, gone |-> FALSE] \in TripType
      BY <1>1, <1>3 DEF TripType
    <2> QED BY <1>4, <2>1, <2>2
  <1>8. Typed'
    BY <1>6, <1>7 DEF Typed
  <1>9. TripInv'
    BY <1>4, <1>6 DEF TripInv
  <1>10. DeadlineInv'
    BY <1>1, <1>3, <1>4, <1>5, <1>6 DEF DeadlineInv
  <1>11. HonouredInv' /\ ExpirySound'
    BY <1>6 DEF HonouredInv, ExpirySound
  <1> QED BY <1>8, <1>9, <1>10, <1>11

\* The provider issues a token set to the one that asked.
LEMMA GrantsStep ==
  ASSUME TokenInv, ProviderGrants
  PROVE  TokenInv'
  <1> USE DEF TokenInv
  <1>1. /\ issued \in 0 .. MaxIssued /\ issued \in Nat /\ issued < MaxIssued
        /\ live \subseteq 1 .. issued /\ sess \in SessType
        /\ sess.refresh <= issued /\ excused \in BOOLEAN
    BY TokenAssumption DEF Typed, ProviderGrants, Grants
  <1>2. /\ trip.pc = "posted" /\ reply = NoReply /\ sess.refresh \in live
        /\ now' = now /\ sess' = sess /\ trip' = trip
        /\ issued' = issued + 1
    BY DEF ProviderGrants, Grants
  <1>3. PICK e \in Lifetimes, json \in BOOLEAN :
          /\ excused' = (excused \/ ~Readable(e, json))
          /\ \/ /\ live' = (live \ {sess.refresh}) \cup {issued + 1}
                /\ reply' = TokenReply(issued + 1, e, json)
             \/ /\ live' = live
                /\ reply' = TokenReply(NoToken, e, json)
    BY DEF ProviderGrants, Grants
  <1>4. PICK t \in {issued + 1, NoToken} :
          /\ reply' = TokenReply(t, e, json)
          /\ t = issued + 1 => issued + 1 \in live'
          /\ t = NoToken => live' = live
          /\ live' \subseteq live \cup {issued + 1}
    BY <1>1, <1>3 DEF NoToken
  <1>5. t \in Nat /\ t <= issued + 1
    BY <1>1 DEF NoToken
  <1>6. /\ reply' \in ReplyType /\ reply'.refresh = t
        /\ Readable(e, json) => Usable(reply')
    BY <1>4, <1>5, TokenReplyType
  <1>7. live' \subseteq 1 .. issued'
    <2>1. \A u \in live' : u \in 1 .. issued \/ u = issued + 1
      BY <1>1, <1>4
    <2> QED BY <1>1, <1>2, <2>1
  <1>8. issued' \in 0 .. MaxIssued /\ excused' \in BOOLEAN
        /\ sess'.refresh <= issued'
    <2>1. sess.refresh \in Nat
      BY <1>1 DEF SessType
    <2> QED BY <1>1, <1>2, <1>3, <2>1, TokenAssumption
  <1>9. Typed'
    BY <1>2, <1>5, <1>6, <1>7, <1>8 DEF Typed
  <1>10. TripInv' /\ DeadlineInv' /\ ExpirySound'
    BY <1>1, <1>2 DEF TripInv, DeadlineInv, ExpirySound
  <1>11. HonouredInv'
    <2> SUFFICES ASSUME ~excused'
                 PROVE  /\ sess'.on /\ reply' # NoReply /\ Usable(reply')
                        /\ reply'.refresh = NoToken => sess'.refresh \in live'
                        /\ reply'.refresh # NoToken => reply'.refresh \in live'
      BY DEF HonouredInv
    <2>1. Usable(reply')
      BY <1>3, <1>6
    <2> QED BY <1>2, <1>4, <1>6, <2>1, AnswerIsOne DEF TripInv
  <1> QED BY <1>9, <1>10, <1>11

\* The provider refuses, or answers with nothing of use.
LEMMA FailsStep ==
  ASSUME TokenInv, ProviderFails
  PROVE  TokenInv'
  <1> USE DEF TokenInv
  <1>1. /\ trip.pc = "posted" /\ now' = now /\ sess' = sess /\ trip' = trip
        /\ issued' = issued /\ live' \subseteq live /\ excused' = TRUE
    BY DEF ProviderFails
  <1>2. reply' \in ReplyType /\ reply'.refresh = 0
    BY DEF ProviderFails, Reply, ReplyType, NoToken
  <1>3. issued \in Nat
    BY TokenAssumption DEF Typed
  <1>4. Typed'
    BY <1>1, <1>2, <1>3 DEF Typed
  <1> QED BY <1>1, <1>4 DEF TripInv, DeadlineInv, HonouredInv, ExpirySound

\* Complete: the session is given what the response held.
LEMMA CompleteStep ==
  ASSUME TokenInv, Complete
  PROVE  TokenInv'
  <1> USE DEF TokenInv
  <1>1. /\ now \in 0 .. MaxNow /\ now \in Nat /\ sess \in SessType
        /\ sess.refresh \in Nat /\ sess.refresh <= issued /\ issued \in Nat
    BY TokenAssumption DEF Typed, SessType
  <1>2. reply # NoReply /\ reply \in ReplyType /\ reply.refresh <= issued
    BY AnswerIsOne DEF Complete, Typed
  <1>3. /\ sess' = Given(reply, sess.refresh) /\ trip' = Home
        /\ reply' = NoReply /\ now' = now /\ live' = live
        /\ issued' = issued /\ excused' = excused
    BY DEF Complete, Given
  <1>4. /\ sess' \in SessType /\ sess'.on
        /\ sess'.refresh = IF reply.refresh = NoToken THEN sess.refresh
                                                      ELSE reply.refresh
        /\ sess'.expires = reply.expires /\ sess'.json = reply.json
        /\ sess'.got = now
    BY <1>1, <1>2, <1>3, GivenShape
  <1>5. Home \in TripType /\ Home.pc = "home"
    BY DEF Home, TripType, NoDeadline
  <1>6. Typed'
    BY <1>1, <1>2, <1>3, <1>4, <1>5 DEF Typed
  <1>7. TripInv' /\ DeadlineInv'
    <2>1. issued > 0
      BY DEF Complete, TripInv
    <2> QED BY <1>3, <1>5, <2>1 DEF TripInv, DeadlineInv
  <1>8. HonouredInv'
    BY <1>2, <1>3, <1>4 DEF HonouredInv
  <1>9. ExpirySound'
    <2> SUFFICES ASSUME Fits(sess'.expires, sess'.json)
                 PROVE  /\ sess'.expires >= 0 => sess'.expiry > sess'.got
                        /\ sess'.expires # 0 =>
                             sess'.expiry <= sess'.got + sess'.expires * Second
      BY DEF ExpirySound, Fits
    <2>1. Fits(reply.expires, reply.json)
      BY <1>4
    <2>2. /\ reply.expires >= 0 => Given(reply, sess.refresh).expiry > now
          /\ reply.expires # 0 =>
               Given(reply, sess.refresh).expiry <= now + reply.expires * Second
      BY <1>1, <1>2, <2>1, GivenSound
    <2> QED BY <1>3, <1>4, <2>2
  <1> QED BY <1>6, <1>7, <1>8, <1>9

\* Ending the session, which is excused.
LEMMA EndStep ==
  ASSUME TokenInv, Fail, excused'
  PROVE  TokenInv'
  <1> USE DEF TokenInv
  <1>1. /\ sess' = [sess EXCEPT !.on = FALSE] /\ trip' = Home
        /\ reply' = NoReply /\ now' = now /\ live' = live /\ issued' = issued
    BY DEF Fail
  <1>2. /\ sess' \in SessType /\ ~sess'.on /\ sess'.refresh = sess.refresh
    BY <1>1 DEF Typed, SessType
  <1>3. Home \in TripType /\ Home.pc = "home"
    BY DEF Home, TripType, NoDeadline
  <1> QED
    BY <1>1, <1>2, <1>3
    DEF Typed, TripInv, DeadlineInv, HonouredInv, ExpirySound

\* Every step keeps the invariant.
LEMMA TokenStep == TokenInv /\ [Next]_vars => TokenInv'
  <1> SUFFICES ASSUME TokenInv, [Next]_vars
               PROVE  TokenInv'
    OBVIOUS
  <1> USE DEF TokenInv
  <1>1. ASSUME BadReply PROVE TokenInv'
    <2>1. excused
      <3>1. reply # NoReply /\ ~Usable(reply)
        BY <1>1, AnswerIsOne DEF BadReply
      <3>2. issued > 0 \/ excused
        <4>1. trip.pc = "posted" /\ sess.on
          BY <1>1 DEF BadReply, Fail, TripInv
        <4> QED BY <4>1 DEF TripInv
      <3> QED BY <3>1, <3>2 DEF HonouredInv, Typed
    <2> QED BY <1>1, <2>1, EndStep DEF BadReply
  <1>2. ASSUME ContextEnds PROVE TokenInv'
    <2>1. excused'
      <3>1. /\ trip.pc = "posted" /\ trip.cancels = FALSE
            /\ now >= trip.deadline
            /\ trip.deadline \in {trip.at + RefreshTimeout, trip.budget}
            /\ trip.deadline \in Nat
        BY <1>2
        DEF ContextEnds, Fail, Typed, TripType, DeadlineDue, DeadlineInv
      <3> QED BY <1>2, <3>1 DEF ContextEnds, NoDeadline
    <2> QED BY <1>2, <2>1, EndStep DEF ContextEnds
  <1>3. ASSUME Disconnect PROVE TokenInv'
    <2>1. /\ trip' \in TripType /\ trip'.pc = trip.pc /\ trip'.at = trip.at
          /\ trip'.budget = trip.budget /\ trip'.deadline = trip.deadline
          /\ trip.pc = "posted"
      BY <1>3 DEF Disconnect, Typed, TripType
    <2> QED BY <1>3, <2>1 DEF Disconnect, Typed, TripInv, DeadlineInv,
                              HonouredInv, ExpirySound
  <1>4. ASSUME Tick PROVE TokenInv'
    <2>1. now' \in 0 .. MaxNow
      BY <1>4, TokenAssumption DEF Tick, Typed
    <2>2. DeadlineInv'
      <3> SUFFICES ASSUME trip.pc = "posted"
                   PROVE  now' <= trip.deadline
        BY <1>4 DEF DeadlineInv, Tick
      <3>1. trip.deadline \in Nat /\ trip.deadline # NoDeadline /\ now \in Nat
        BY TokenAssumption DEF DeadlineInv, NoDeadline, Typed
      <3> QED BY <1>4, <3>1 DEF Tick, DeadlineDue
    <2> QED BY <1>4, <2>1, <2>2
            DEF Tick, Typed, TripInv, HonouredInv, ExpirySound
  <1>5. CASE UNCHANGED vars
    BY <1>5 DEF vars, Typed, TripInv, DeadlineInv, HonouredInv, ExpirySound,
                Usable, Readable
  <1> QED
    BY <1>1, <1>2, <1>3, <1>4, <1>5, LoginStep, StartStep, GrantsStep,
       FailsStep, CompleteStep
    DEF Next

\* Nothing has been issued yet.
LEMMA TokenInit == Init => TokenInv
  <1> SUFFICES ASSUME Init PROVE TokenInv
    OBVIOUS
  <1>1. sess \in SessType /\ ~sess.on /\ sess.refresh = 0
    BY DEF Init, NoSession, SessType, NoToken
  <1>2. trip \in TripType /\ trip.pc = "home" /\ trip = Home
    BY DEF Init, Home, TripType, NoDeadline
  <1>3. Typed
    <2>1. now \in 0 .. MaxNow /\ issued \in 0 .. MaxIssued /\ sess.refresh <= issued
      BY <1>1, TokenAssumption DEF Init
    <2> QED BY <1>1, <1>2, <2>1 DEF Init, Typed
  <1> QED
    BY <1>1, <1>2, <1>3
    DEF Init, TokenInv, TripInv, DeadlineInv, HonouredInv, ExpirySound

\* The invariant holds in every reachable state.
LEMMA TokenHolds == Spec => []TokenInv
  BY TokenInit, TokenStep, PTL DEF Spec

\* detachedDeadline: whatever deadline the store hands down, a round trip is
\* never under way past it, nor past tokenRefreshTimeout.
THEOREM TripKeepsBudget == Spec => []WithinBudget
  <1>1. TokenInv => WithinBudget
    <2> SUFFICES ASSUME TokenInv, trip.pc = "posted"
                 PROVE  /\ now <= trip.at + RefreshTimeout
                        /\ trip.budget # NoDeadline => now <= trip.budget
      BY DEF WithinBudget
    <2>1. /\ now \in Nat /\ trip.at \in Nat /\ RefreshTimeout \in Nat
          /\ trip.budget # NoDeadline => trip.budget \in Nat
          /\ trip.deadline \in Nat /\ now <= trip.deadline
          /\ trip.deadline <= trip.at + RefreshTimeout
          /\ trip.budget # NoDeadline => trip.deadline <= trip.budget
      BY TokenAssumption DEF TokenInv, Typed, DeadlineInv
    <2> QED BY <2>1
  <1> QED BY <1>1, TokenHolds, PTL

\* exchangeRefreshToken: no response that the provider gives in time and
\* readably costs the session, whatever it leaves out.
THEOREM SessionOutlivesRefreshes == Spec => []SessionSurvives
  <1>1. TokenInv => SessionSurvives
    BY DEF TokenInv, HonouredInv, TripInv, SessionSurvives
  <1> QED BY <1>1, TokenHolds, PTL

\* expirationTime, expiry and assumeTokenExpiry, for every width and every
\* lifetime they hold: the expiry is within what the provider promised, and
\* lies after the token's arrival unless that was below zero.
THEOREM ExpiryIsSound == Spec => []ExpirySound
  <1>1. TokenInv => ExpirySound
    BY DEF TokenInv
  <1> QED BY <1>1, TokenHolds, PTL

=============================================================================
