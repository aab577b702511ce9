------------------------- MODULE AuthSessionsProofs -------------------------
(***************************************************************************)
(* Theorems about AuthSessions, over either store and for any number of    *)
(* requests, replicas, sessions and token sets: types, no cookie cleared   *)
(* before its session is over, a logout that sticks, the absolute expiry   *)
(* and the migration of stale cookies.                                     *)
(***************************************************************************)
EXTENDS AuthSessions, TLAPS

-----------------------------------------------------------------------------
(* The inductive invariant *)

Outcomes == {"none", "served", "unmigrated", "loggedout", "undeleted",
             "nosession", "unavailable", "refused", "unreachable",
             "unrecorded", "unsealed", "toobig"}
Causes == {"none", "refused", "unreachable", "unsealed"}

ReqType ==
  [pc: {"idle", "sent", "logout", "read", "refreshing", "flight",
        "refreshed", "failed", "done"},
   at: Replicas, handle: Handles, tok: 0 .. MaxIssued, stale: BOOLEAN,
   fits: BOOLEAN, failed: Causes, act: {Keep, Clear, Set}, next: Handles,
   outcome: Outcomes]

RowType == [exists: BOOLEAN, tok: 0 .. MaxIssued, key: {0, OldKey, NewKey}]

Typed ==
  /\ deployed \in Deployments
  /\ now \in 0 .. MaxNow /\ flipped \in 0 .. MaxNow /\ retired \in BOOLEAN
  /\ birth \in [Sessions -> 0 .. MaxNow] /\ rows \in [Sessions -> RowType]
  /\ cookie \in Handles /\ req \in [Requests -> ReqType]
  /\ sealing \in [Replicas -> {OldKey, NewKey}]
  /\ issued \in 0 .. MaxIssued
  /\ live \subseteq 1 .. issued /\ expiring \subseteq 1 .. issued
  /\ seals \in Nat /\ logins \in 0 .. MaxLogins

Begun == 1 .. logins    \* the sessions there have been
Known == 1 .. issued    \* the token sets there have been

\* A value of session s was sealed under key k: under the old key only while
\* some replica still sealed with it.
SealedInTime(k, s) ==
  k = OldKey => birth[s] <= flipped \/ \E p \in Replicas : sealing[p] = OldKey

\* The old key is dropped when nothing that it opens can be alive.
RetireInv ==
  /\ flipped <= now
  /\ retired => /\ \A p \in Replicas : sealing[p] = NewKey
                /\ now >= flipped + MaxAge

\* A row holds a token set that was issued, under a key in use.
RowInv ==
  /\ \A s \in Begun :
       /\ birth[s] <= now
       /\ rows[s].key # 0 /\ rows[s].tok \in Known
       /\ \A k : k = rows[s].key => SealedInTime(k, s)
  /\ \A s \in Sessions \ Begun : ~rows[s].exists

\* A sealed value carries the birth of its session, and a token set of it.
Genuine(h) ==
  /\ h.sess \in Begun /\ SealedInTime(h.key, h.sess)
  /\ ~Stored => h.born = birth[h.sess] /\ h.tok \in Known

\* Nothing resolves the session any more.
Dead(s) == ~rows[s].exists \/ Expired(birth[s])

\* Its refresh token is not honoured any more.
Spent(h) == TokenOf(h) \notin live

CookieInv == \A h : h = cookie /\ h # NoHandle => Genuine(h)

\* What a request record says is so.  In particular a failure that is kept
\* as a refusal, and a flight's result that is too big, tell of a token that
\* the provider does not honour.
Sound(x) ==
  /\ x.pc # "idle" => x.handle # NoHandle /\ Genuine(x.handle)
  /\ x.next # NoHandle => Genuine(x.next)
  /\ x.pc = "refreshed" => x.next # NoHandle
  /\ x.act = Set => x.next # NoHandle
  /\ x.pc \in {"read", "refreshing", "flight", "refreshed"} => x.tok \in Known
  /\ x.pc = "refreshing" => Stored
  /\ x.pc = "flight" => ~Stored
  /\ x.failed = "refused" => x.pc # "idle" /\ Spent(x.handle)
  /\ ~x.fits => x.pc = "refreshed" /\ (Rotates => Spent(x.handle))
  /\ x.pc = "done" /\ x.act = Clear /\ ~NoClaim(x) => Over(x.handle)
  /\ x.pc = "done" /\ x.outcome = "loggedout" /\ Stored
       => Dead(x.handle.sess)

Records == {req[r] : r \in Requests}
RequestInv == \A x \in Records : Sound(x)

LogoutInv == \A s \in loggedOut : s \in Begun /\ (Stored => Dead(s))

AuthInv ==
  Typed /\ RetireInv /\ RowInv /\ CookieInv /\ RequestInv /\ LogoutInv

-----------------------------------------------------------------------------
(* What every step keeps *)

\* The provider honours no token again that it ceased to honour.
NeverRevived ==
  /\ Known \subseteq Known'
  /\ \A t \in Known : t \notin live => t \notin live'

\* Sessions begin and end and never come back, time does not turn, a value
\* sealed in time stays so, and a row whose token is spent is not renewed.
Evolves ==
  /\ deployed' = deployed /\ NeverRevived
  /\ now <= now' /\ logins <= logins'
  /\ \A s \in Begun : /\ birth'[s] = birth[s]
                      /\ ~rows[s].exists => ~rows'[s].exists
                      /\ rows[s].tok \notin live => rows'[s].tok = rows[s].tok
                      /\ \A k : SealedInTime(k, s) => SealedInTime(k, s)'

\* Facts about the values at hand.
LEMMA Numbers ==
  ASSUME Typed
  PROVE  /\ now \in Nat /\ logins \in Nat /\ Begun \subseteq Sessions
         /\ flipped \in Nat /\ MaxAge \in Nat
         /\ \A s \in Sessions : birth[s] \in Nat
         /\ Stored \in BOOLEAN /\ Known \subseteq 0 .. MaxIssued
<1>1. /\ logins \in Nat /\ MaxLogins \in Nat /\ logins <= MaxLogins
      /\ issued \in Nat /\ MaxIssued \in Nat /\ issued <= MaxIssued
  BY AuthAssumption DEF Typed
<1>2. Begun \subseteq Sessions /\ Known \subseteq 0 .. MaxIssued
  BY <1>1 DEF Begun, Sessions, Known
<1> QED
  BY <1>1, <1>2, AuthAssumption DEF Typed, Stored

\* What holds of a session holds from then on.
LEMMA SessionStays ==
  ASSUME Typed, Typed', Evolves, NEW s \in Begun
  PROVE  /\ s \in Begun' /\ birth'[s] = birth[s]
         /\ Expired(birth[s]) => Expired(birth[s])'
         /\ Dead(s) => Dead(s)'
<1>1. /\ now \in Nat /\ now' \in Nat /\ now <= now' /\ birth[s] \in Nat
      /\ logins \in Nat /\ logins' \in Nat /\ logins <= logins'
      /\ birth'[s] = birth[s] /\ (~rows[s].exists => ~rows'[s].exists)
  BY Numbers, AuthAssumption DEF Evolves, Typed
<1>2. s \in Begun'
  BY <1>1 DEF Begun
<1>3. Expired(birth[s]) => Expired(birth[s])'
  BY <1>1, AuthAssumption DEF Expired
<1> QED
  BY <1>1, <1>2, <1>3 DEF Dead

\* A genuine value stays genuine.
LEMMA GenuineStays ==
  ASSUME Typed, Typed', Evolves, NEW h, Genuine(h)
  PROVE  Genuine(h)'
<1>1. h.sess \in Begun /\ SealedInTime(h.key, h.sess)
      /\ (~Stored => h.born = birth[h.sess] /\ h.tok \in Known)
  BY DEF Genuine
<1>2. h.sess \in Begun' /\ birth'[h.sess] = birth[h.sess]
  BY <1>1, SessionStays
<1>3. SealedInTime(h.key, h.sess)' /\ Known \subseteq Known'
  BY <1>1 DEF Evolves, NeverRevived
<1>4. Stored' = Stored
  BY DEF Evolves, Stored
<1> QED
  BY <1>1, <1>2, <1>3, <1>4 DEF Genuine

\* A session that is over for a value stays so.
LEMMA OverStays ==
  ASSUME Typed, Typed', RowInv, Evolves, NEW h, Genuine(h)
  PROVE  (Spent(h) => Spent(h)') /\ (Over(h) => Over(h)')
<1>1. /\ h.sess \in Begun /\ rows[h.sess].tok \in Known
      /\ (~Stored => h.tok \in Known)
  BY DEF Genuine, RowInv
<1>2. /\ \A t \in Known : t \notin live => t \notin live'
      /\ rows[h.sess].tok \notin live =>
           rows'[h.sess].tok = rows[h.sess].tok
      /\ ~rows[h.sess].exists => ~rows'[h.sess].exists
      /\ Stored' = Stored
  BY <1>1 DEF Evolves, NeverRevived, Stored
<1>3. Spent(h) => Spent(h)'
  BY <1>1, <1>2 DEF Spent, TokenOf
<1>4. Expired(birth[h.sess]) => Expired(birth[h.sess])'
  BY <1>1, SessionStays
<1> QED
  BY <1>2, <1>3, <1>4 DEF Over, Spent

\* A sound record stays sound.
LEMMA SoundStays ==
  ASSUME Typed, Typed', RowInv, Evolves, NEW x, Sound(x)
  PROVE  Sound(x)'
<1>1. x.pc # "idle" => Genuine(x.handle) /\ Genuine(x.handle)'
                       /\ x.handle.sess \in Begun
  BY GenuineStays DEF Sound, Genuine
<1>2. x.next # NoHandle => Genuine(x.next)'
  BY GenuineStays DEF Sound
<1>3. Known \subseteq Known' /\ Stored' = Stored /\ Rotates' = Rotates
  BY DEF Evolves, NeverRevived, Stored, Rotates
<1>4. x.pc # "idle" => /\ Spent(x.handle) => Spent(x.handle)'
                       /\ Over(x.handle) => Over(x.handle)'
                       /\ Dead(x.handle.sess) => Dead(x.handle.sess)'
  BY <1>1, SessionStays, OverStays
<1>5. NoClaim(x)' <=> NoClaim(x)
  BY <1>3 DEF NoClaim
<1> QED
  BY <1>1, <1>2, <1>3, <1>4, <1>5 DEF Sound

\* A step that brings no unsound record, handle or row keeps the invariant.
LEMMA InvStays ==
  ASSUME AuthInv, Typed', RetireInv', RowInv', Evolves,
         \A x \in Records' : x \in Records \/ Sound(x)',
         \A h : h = cookie' /\ h # NoHandle => h = cookie \/ Genuine(h)',
         \A s \in loggedOut' : \/ s \in loggedOut
                               \/ s \in Begun /\ (Stored => Dead(s))
  PROVE  AuthInv'
<1>1. Typed /\ RowInv /\ CookieInv /\ RequestInv /\ LogoutInv
  BY DEF AuthInv
<1>2. RequestInv'
  BY <1>1, SoundStays DEF RequestInv
<1>3. CookieInv'
  BY <1>1, GenuineStays DEF CookieInv
<1>4. LogoutInv'
  <2>1. SUFFICES ASSUME NEW s \in loggedOut'
                 PROVE  (s \in Begun /\ (Stored => Dead(s)))'
    BY DEF LogoutInv
  <2>2. s \in Begun /\ (Stored => Dead(s))
    BY <1>1, <2>1 DEF LogoutInv
  <2>3. Stored' = Stored
    BY DEF Evolves, Stored
  <2> QED
    BY <2>2, <2>3, <1>1, SessionStays
<1> QED
  BY <1>2, <1>3, <1>4 DEF AuthInv

\* Steps of requests that leave keys, clock and rows alone.
LEMMA QuietStep ==
  ASSUME AuthInv, Typed', UNCHANGED <<now, birth, rows, keys, logins>>,
         NeverRevived
  PROVE  RetireInv' /\ RowInv' /\ Evolves
<1> USE DEF keys
<1>1. Typed /\ RetireInv /\ RowInv
  BY DEF AuthInv
<1>2. RetireInv'
  BY <1>1 DEF RetireInv
<1>3. \A k, s : SealedInTime(k, s)' <=> SealedInTime(k, s)
  BY DEF SealedInTime
<1>4. RowInv'
  BY <1>1, <1>3 DEF RowInv, Begun, NeverRevived
<1>5. Evolves
  BY <1>1, <1>3, Numbers DEF Evolves
<1> QED
  BY <1>2, <1>4, <1>5

\* openKindRaw: a key in use is dropped only when what it sealed has expired.
LEMMA ShutIsExpired ==
  ASSUME AuthInv, NEW s \in Begun, NEW k, SealedInTime(k, s), NEW p,
         ~Opens(p, k)
  PROVE  Expired(birth[s])
<1>1. Typed /\ RetireInv
  BY DEF AuthInv
<1>2. now \in Nat /\ flipped \in Nat /\ MaxAge \in Nat /\ birth[s] \in Nat
  BY <1>1, Numbers
<1>3. retired /\ k = OldKey
  BY DEF Opens
<1>4. birth[s] <= flipped /\ now >= flipped + MaxAge
  BY <1>1, <1>3 DEF RetireInv, SealedInTime, OldKey, NewKey
<1> QED
  BY <1>2, <1>4 DEF Expired

\* Store.Get and CookieTokenStore.Get: a genuine value that does not resolve
\* is of a session that is over; the retired key opens nothing that lives.
LEMMA UnresolvedIsOver ==
  ASSUME AuthInv, NEW h, Genuine(h), NEW p, ~Resolves(p, h)
  PROVE  Over(h)
<1>1. /\ h.sess \in Begun /\ SealedInTime(h.key, h.sess)
      /\ (~Stored => h.born = birth[h.sess])
  BY DEF Genuine
<1>2. RowInv
  BY DEF AuthInv
<1>4. ASSUME NEW k, SealedInTime(k, h.sess), ~Opens(p, k)
      PROVE  Expired(birth[h.sess])
  BY <1>1, <1>4, ShutIsExpired
<1>5. CASE ~Opens(p, h.key)
  BY <1>1, <1>4, <1>5 DEF Over
<1>6. CASE Stored /\ Opens(p, h.key)
  <2>1. ~Opens(p, rows[h.sess].key) => Expired(birth[h.sess])
    BY <1>1, <1>2, <1>4 DEF RowInv
  <2> QED
    BY <2>1, <1>6 DEF Resolves, Over
<1>7. CASE ~Stored /\ Opens(p, h.key)
  BY <1>1, <1>7 DEF Resolves, Over
<1> QED
  BY <1>5, <1>6, <1>7

-----------------------------------------------------------------------------
(* Sealing and responding *)

\* A value that a replica seals for a session that has begun is genuine.
LEMMA SealGenuine ==
  ASSUME AuthInv, NEW p \in Replicas, NEW s \in Begun,
         NEW tok \in 0 .. MaxIssued, NEW born \in 0 .. MaxNow,
         ~Stored => born = birth[s]
  PROVE  LET v == SealHandle(p, s, tok, born)
         IN  /\ v \in Handles /\ v # NoHandle /\ v.key = sealing[p]
             /\ v.sess = s /\ SealedInTime(v.key, s)
             /\ ~Stored => v.born = born /\ v.tok = tok
             /\ tok \in Known => Genuine(v)
<1> DEFINE v == SealHandle(p, s, tok, born)
<1>1. Typed /\ s \in Sessions
  BY Numbers DEF AuthInv
<1>2. sealing[p] \in {OldKey, NewKey} /\ seals + 1 \in Nat
  BY <1>1 DEF Typed
<1>3. /\ v.sess = s /\ v.key = sealing[p]
      /\ ~Stored => v.born = born /\ v.tok = tok
  BY DEF SealHandle, SealingKey
<1>4. v \in Handles
  BY <1>1, <1>2, AuthAssumption DEF SealHandle, SealingKey, Handles
<1>5. v # NoHandle
  BY <1>1, <1>3 DEF NoHandle, Sessions
<1>6. SealedInTime(sealing[p], s)
  BY DEF SealedInTime
<1>7. tok \in Known => Genuine(v)
  BY <1>3, <1>6 DEF Genuine
<1> HIDE DEF v
<1> QED
  BY <1>3, <1>4, <1>5, <1>6, <1>7 DEF v

\* One record changes.
LEMMA OneRecord ==
  ASSUME Typed, NEW r \in Requests, NEW x \in ReqType,
         req' = [req EXCEPT ![r] = x]
  PROVE  /\ req' \in [Requests -> ReqType] /\ req'[r] = x
         /\ \A q \in Requests \ {r} : req'[q] = req[q]
         /\ \A y \in Records' : y \in Records \/ y = x
BY DEF Typed, Records

\* What the record of an answered request says.
Says(a, handle, outcome, act, h) ==
  /\ a \in ReqType /\ a.pc = "done" /\ a.outcome = outcome /\ a.act = act
  /\ a.next = h /\ a.handle = handle
  /\ a.failed = "none" /\ a.fits = TRUE

\* Answer says what it is told to.
LEMMA AnswerFields ==
  ASSUME NEW x \in ReqType, NEW outcome \in Outcomes,
         NEW act \in {Keep, Clear, Set}, NEW h \in Handles
  PROVE  Says(Answer(x, outcome, act, h), x.handle, outcome, act, h)
<1>1. Idle \in [pc: {"idle"}, at: Replicas, handle: {NoHandle}, tok: {0},
                stale: {FALSE}, fits: {TRUE}, failed: {"none"},
                outcome: {"none"}, act: {Keep}, next: {NoHandle}]
  BY AuthAssumption DEF Idle
<1>2. x.handle \in Handles /\ 0 \in 0 .. MaxIssued
  BY AuthAssumption DEF ReqType
<1> HIDE DEF Idle
<1> QED
  BY <1>1, <1>2 DEF Says, Answer, ReqType, Outcomes, Causes

\* The record of a request that has been answered.
LEMMA Answered ==
  ASSUME Typed, NEW r \in Requests, NEW outcome \in Outcomes,
         NEW act \in {Keep, Clear, Set}, NEW h \in Handles,
         Respond(r, outcome, act, h)
  PROVE  /\ req' \in [Requests -> ReqType]
         /\ Says(req'[r], req[r].handle, outcome, act, h)
         /\ \A q \in Requests \ {r} : req'[q] = req[q]
         /\ \A y \in Records' : y \in Records \/ y = req'[r]
<1> DEFINE x == Answer(req[r], outcome, act, h)
<1>1. req[r] \in ReqType
  BY DEF Typed
<1>2. req' = [req EXCEPT ![r] = x]
  BY DEF Respond
<1>3. Says(x, req[r].handle, outcome, act, h)
  BY <1>1, AnswerFields
<1> HIDE DEF x
<1> QED
  BY <1>2, <1>3, OneRecord DEF Says

Errors == {"nosession", "unavailable", "refused", "unreachable",
           "unrecorded", "unsealed", "toobig"}

\* The errors that claim that the session is over.
Claim(err) == err \in {"nosession", "refused"} \/ (err = "toobig" /\ Rotates)

\* sessionGone: an answer over an error that claims so clears the cookie
\* only of a session that is over.
LEMMA ErrorSound ==
  ASSUME AuthInv, Typed', Evolves, NEW r \in Requests, NEW err \in Errors,
         req[r].pc # "idle",
         Claim(err) => \A h : h = req[r].handle => Over(h)'
  PROVE  /\ ErrorAnswer(req[r], err) \in ReqType
         /\ \A x : x = ErrorAnswer(req[r], err) => Sound(x)'
<1> DEFINE a == ErrorAnswer(req[r], err)
<1>1. Typed /\ NoHandle \in Handles /\ req[r] \in ReqType
  BY DEF AuthInv, Handles, Typed
<1>2. Sound(req[r])
  BY DEF AuthInv, RequestInv, Records
<1>3. /\ req[r].handle # NoHandle /\ Genuine(req[r].handle)
  BY <1>2 DEF Sound
<1>4. \A h : h = req[r].handle => Genuine(h)'
  BY <1>1, <1>3, GenuineStays
<1>5. /\ a \in ReqType /\ a.pc = "done" /\ a.outcome = err /\ a.act # Set
      /\ a.next = NoHandle /\ a.handle = req[r].handle
      /\ a.failed = "none" /\ a.fits = TRUE
      /\ a.act = Clear => SessionGone(err)
  <2>1. \A act \in {Keep, Clear, Set} :
          Says(Answer(req[r], err, act, NoHandle), req[r].handle, err, act,
               NoHandle)
    BY <1>1, AnswerFields DEF Errors, Outcomes
  <2> QED
    BY <2>1 DEF ErrorAnswer, Says, Keep, Clear, Set
<1> HIDE DEF a
<1>6. \A x : x = a => Sound(x)'
  <2>1. SUFFICES ASSUME NEW x, x = a PROVE Sound(x)'
    OBVIOUS
  <2>2. Rotates' = Rotates
    BY DEF Evolves, Rotates
  <2>3. x.act = Clear /\ ~NoClaim(x)' => Claim(err)
    <3>1. NoClaim(x)' <=> NoClaim(x)
      BY <2>2 DEF NoClaim
    <3>2. x.outcome = err /\ (x.act = Clear => SessionGone(err))
      BY <1>5, <2>1
    <3>3. ASSUME x.act = Clear, ~NoClaim(x) PROVE Claim(err)
      <4>1. /\ err \notin {"unreachable", "unrecorded"}
            /\ ~(err = "toobig" /\ ~Rotates)
        BY <3>2, <3>3 DEF NoClaim
      <4>2. err \in {"nosession", "refused", "toobig"}
        BY <3>2, <3>3, <4>1 DEF SessionGone, Rejections
      <4> QED
        BY <4>1, <4>2 DEF Claim
    <3> QED
      BY <3>1, <3>3
  <2>4. x.act = Clear /\ ~NoClaim(x)' => Over(x.handle)'
    BY <1>5, <2>1, <2>3
  <2> QED
    BY <1>3, <1>4, <1>5, <2>1, <2>4 DEF Sound, Errors
<1> QED
  BY <1>5, <1>6 DEF a

\* And the request it answers is the only one it touches.
LEMMA ErrorAnswered ==
  ASSUME AuthInv, Typed', Evolves, NEW r \in Requests, NEW err \in Errors,
         RespondError(r, err), req[r].pc # "idle",
         Claim(err) => \A h : h = req[r].handle => Over(h)'
  PROVE  \A x \in Records' : x \in Records \/ Sound(x)'
<1> DEFINE a == ErrorAnswer(req[r], err)
<1>1. a \in ReqType /\ \A x : x = a => Sound(x)'
  BY ErrorSound
<1>2. Typed /\ req' = [req EXCEPT ![r] = a]
  BY DEF AuthInv, RespondError
<1> HIDE DEF a
<1> QED
  BY <1>1, <1>2, OneRecord

\* And its record is well formed.
LEMMA ErrorTyped ==
  ASSUME Typed, NEW r \in Requests, NEW err \in Errors
  PROVE  /\ ErrorAnswer(req[r], err) \in ReqType
         /\ RespondError(r, err) => req' \in [Requests -> ReqType]
<1> DEFINE a == ErrorAnswer(req[r], err)
<1>1. NoHandle \in Handles /\ req[r] \in ReqType
  BY DEF Handles, Typed
<1>2. a \in ReqType
  <2>1. \A act \in {Keep, Clear, Set} :
          Says(Answer(req[r], err, act, NoHandle), req[r].handle, err, act,
               NoHandle)
    BY <1>1, AnswerFields DEF Errors, Outcomes
  <2> QED
    BY <2>1 DEF ErrorAnswer, Says
<1>3. RespondError(r, err) => req' = [req EXCEPT ![r] = a]
  BY DEF RespondError
<1> HIDE DEF a
<1>4. RespondError(r, err) => req' \in [Requests -> ReqType]
  BY <1>2, <1>3, OneRecord
<1> QED
  BY <1>2, <1>4 DEF a

-----------------------------------------------------------------------------
(* What the handlers share *)

\* Steps that renew or delete rows, and leave keys and clock alone.
LEMMA RowsStep ==
  ASSUME AuthInv, Typed', UNCHANGED <<now, birth, keys, logins>>,
         NeverRevived,
         \A s \in Sessions : ~rows[s].exists => ~rows'[s].exists,
         \A s \in Begun :
           /\ \/ rows'[s].tok = rows[s].tok
              \/ rows[s].tok \in live /\ rows'[s].tok \in Known'
           /\ \/ rows'[s].key = rows[s].key
              \/ \E p \in Replicas : rows'[s].key = sealing[p]
  PROVE  RetireInv' /\ RowInv' /\ Evolves
<1> USE DEF keys
<1>1. Typed /\ RetireInv /\ RowInv
  BY DEF AuthInv
<1>2. RetireInv'
  BY <1>1 DEF RetireInv
<1>3. \A k, s : SealedInTime(k, s)' <=> SealedInTime(k, s)
  BY DEF SealedInTime
<1>4. RowInv'
  <2>1. SUFFICES ASSUME NEW s \in Begun
                 PROVE  /\ birth[s] <= now /\ rows'[s].key # 0
                        /\ rows'[s].tok \in Known'
                        /\ \A k : k = rows'[s].key => SealedInTime(k, s)
    BY <1>1, <1>3 DEF RowInv, Begun
  <2>2. birth[s] <= now /\ rows'[s].tok \in Known'
    BY <1>1 DEF RowInv, NeverRevived
  <2>3. \A p \in Replicas : /\ sealing[p] # 0
                            /\ \A k : k = sealing[p] => SealedInTime(k, s)
    BY <1>1 DEF Typed, SealedInTime, OldKey, NewKey
  <2>4. rows'[s].key # 0 /\ \A k : k = rows'[s].key => SealedInTime(k, s)
    BY <1>1, <2>3 DEF RowInv
  <2> QED
    BY <2>2, <2>4
<1>5. Evolves
  BY <1>1, <1>3, Numbers DEF Evolves
<1> QED
  BY <1>2, <1>4, <1>5

\* A request that is under way carries a genuine value.
LEMMA InHand ==
  ASSUME AuthInv, NEW r \in Requests, req[r].pc # "idle"
  PROVE  /\ Sound(req[r]) /\ req[r] \in ReqType /\ req[r].at \in Replicas
         /\ req[r].tok \in 0 .. MaxIssued /\ req[r].stale \in BOOLEAN
         /\ req[r].handle \in Handles /\ req[r].next \in Handles
         /\ req[r].handle # NoHandle /\ Genuine(req[r].handle)
         /\ req[r].handle.sess \in Begun /\ req[r].handle.sess \in Sessions
         /\ req[r].handle.tok \in 0 .. MaxIssued
         /\ req[r].handle.born \in 0 .. MaxNow
<1>1. Typed /\ Sound(req[r])
  BY DEF AuthInv, RequestInv, Records
<1>2. req[r] \in ReqType
  BY <1>1 DEF Typed
<1>3. /\ req[r].at \in Replicas /\ req[r].tok \in 0 .. MaxIssued
      /\ req[r].stale \in BOOLEAN /\ req[r].handle \in Handles
      /\ req[r].next \in Handles
  BY <1>2 DEF ReqType
<1>4. req[r].handle # NoHandle /\ Genuine(req[r].handle)
  BY <1>1 DEF Sound
<1>5. req[r].handle.sess \in Begun /\ req[r].handle.sess \in Sessions
  BY <1>1, <1>4, Numbers DEF Genuine
<1>6. /\ req[r].handle.tok \in 0 .. MaxIssued
      /\ req[r].handle.born \in 0 .. MaxNow
  BY <1>3, <1>4 DEF Handles
<1> QED
  BY <1>1, <1>2, <1>3, <1>4, <1>5, <1>6

\* The token set of a genuine value was issued.
LEMMA TokenIssued ==
  ASSUME AuthInv, NEW h, Genuine(h)
  PROVE  TokenOf(h) \in Known /\ TokenOf(h) \in 0 .. MaxIssued
<1>1. TokenOf(h) \in Known
  BY DEF AuthInv, RowInv, Genuine, TokenOf
<1> QED
  BY <1>1, Numbers DEF AuthInv

\* A handler that leaves the rows alone and sound records behind.
LEMMA HandlerStep ==
  ASSUME AuthInv, Typed',
         UNCHANGED <<now, birth, rows, cookie, keys, logins, loggedOut>>,
         NeverRevived,
         \A x \in Records' : x \in Records \/ Sound(x)'
  PROVE  AuthInv'
<1>1. RetireInv' /\ RowInv' /\ Evolves
  BY QuietStep
<1> QED
  BY <1>1, InvStays

\* What the handlers change keeps its types.
LEMMA HandlerTyped ==
  ASSUME Typed, UNCHANGED <<now, birth, cookie, keys, logins>>,
         rows' \in [Sessions -> RowType], req' \in [Requests -> ReqType],
         issued' \in 0 .. MaxIssued, live' \subseteq 1 .. issued',
         expiring' \subseteq 1 .. issued', seals' \in Nat
  PROVE  Typed'
BY DEF Typed, keys

\* What the provider does keeps the types of its state, and revives nothing.
ProviderOK ==
  /\ issued' \in 0 .. MaxIssued /\ live' \subseteq 1 .. issued'
  /\ expiring' \subseteq 1 .. issued' /\ NeverRevived

LEMMA ProviderTyped ==
  ASSUME Typed, NEW t, Honour(t) \/ UNCHANGED idp
  PROVE  /\ ProviderOK
         /\ Honour(t) => /\ t \in live /\ t \in Known
                         /\ issued + 1 \in 0 .. MaxIssued
                         /\ issued + 1 \in Known'
                         /\ Rotates => t \notin live'
<1>1. /\ issued \in Nat /\ MaxIssued \in Nat /\ issued <= MaxIssued
      /\ live \subseteq 1 .. issued /\ expiring \subseteq 1 .. issued
  BY AuthAssumption DEF Typed
<1>2. CASE Honour(t)
  <2>1. /\ issued < MaxIssued /\ issued' = issued + 1 /\ t \in live
        /\ live' \subseteq live \cup {issued + 1}
        /\ Rotates => live' = (live \ {t}) \cup {issued + 1}
        /\ expiring' \subseteq expiring \cup {issued + 1}
    BY <1>2 DEF Honour, Issue
  <2>2. /\ issued' \in 0 .. MaxIssued /\ live' \subseteq 1 .. issued'
        /\ expiring' \subseteq 1 .. issued'
        /\ issued + 1 \in 0 .. MaxIssued /\ issued + 1 \in Known'
    BY <1>1, <2>1 DEF Known
  <2>3. /\ Known \subseteq Known' /\ issued + 1 \notin Known /\ t \in Known
    BY <1>1, <2>1 DEF Known
  <2>4. NeverRevived /\ (Rotates => t \notin live')
    BY <2>1, <2>3 DEF NeverRevived
  <2> QED
    BY <2>1, <2>2, <2>3, <2>4 DEF ProviderOK
<1>3. CASE UNCHANGED idp /\ ~Honour(t)
  BY <1>1, <1>3 DEF idp, ProviderOK, NeverRevived, Known
<1> QED
  BY <1>2, <1>3

\* A provider that is not asked.
LEMMA ProviderQuiet ==
  ASSUME Typed, UNCHANGED idp
  PROVE  ProviderOK
BY DEF Typed, idp, ProviderOK, NeverRevived, Known

\* Sealing counts.
LEMMA SealedTyped ==
  ASSUME Typed, NEW fresh, Sealed(fresh)
  PROVE  seals' \in Nat
BY DEF Typed, Sealed

\* A request goes on with the value it came with.
LEMMA Moved ==
  ASSUME AuthInv, Typed', Evolves, NEW y, Sound(y), y.pc # "idle", NEW x,
         x.handle = y.handle, x.pc \notin {"idle", "done"},
         x.next # NoHandle => x.next = y.next \/ Genuine(x.next)',
         x.pc = "refreshed" => x.next # NoHandle,
         x.act = Set => x.next # NoHandle,
         x.pc \in {"read", "refreshing", "flight", "refreshed"}
           => x.tok \in Known',
         x.pc = "refreshing" => Stored, x.pc = "flight" => ~Stored,
         x.failed = "refused" => y.failed = "refused" \/ Spent(x.handle)',
         x.fits \/ (x.pc = "refreshed" /\ (Rotates => Spent(x.handle)'))
  PROVE  Sound(x)'
<1>1. Typed /\ RowInv
  BY DEF AuthInv
<1>2. Sound(y)'
  BY <1>1, SoundStays
<1>3. Stored' = Stored /\ Rotates' = Rotates
  BY DEF Evolves, Stored, Rotates
<1> QED
  BY <1>2, <1>3 DEF Sound

\* An answer that sets no cookie, or one sealed for the session.
LEMMA Written ==
  ASSUME AuthInv, Typed', Evolves, NEW r \in Requests, req[r].pc # "idle",
         NEW outcome \in {"served", "unmigrated"}, NEW h \in Handles,
         \/ Respond(r, outcome, Keep, NoHandle)
         \/ Respond(r, outcome, Set, h) /\ h # NoHandle /\ Genuine(h)
  PROVE  \A x \in Records' : x \in Records \/ Sound(x)'
<1>1. Typed /\ NoHandle \in Handles
  BY DEF AuthInv, Handles
<1>2. req[r].handle # NoHandle /\ \A g : g = req[r].handle => Genuine(g)'
  BY <1>1, InHand, GenuineStays
<1>3. PICK act \in {Keep, Set}, g \in Handles :
        /\ Respond(r, outcome, act, g)
        /\ act = Set => g # NoHandle
        /\ g # NoHandle => Genuine(g)
  BY <1>1 DEF Keep, Set
<1>4. /\ Says(req'[r], req[r].handle, outcome, act, g)
      /\ \A y \in Records' : y \in Records \/ y = req'[r]
  BY <1>1, <1>3, Answered DEF Outcomes
<1>5. g # NoHandle => Genuine(g)'
  BY <1>1, <1>3, GenuineStays
<1>6. \A x : x = req'[r] => Sound(x)'
  BY <1>2, <1>3, <1>4, <1>5 DEF Says, Sound, Keep, Set, Clear
<1> QED
  BY <1>4, <1>6

\* The records a step leaves behind are well formed, and the new ones sound
\* if the step is one that AuthInv allows.
Sounds ==
  /\ req' \in [Requests -> ReqType]
  /\ (Typed' /\ Evolves) => \A x \in Records' : x \in Records \/ Sound(x)'

\* A handler that leaves the rows alone keeps the invariant.
LEMMA QuietHandler ==
  ASSUME AuthInv, Sounds, ProviderOK, seals' \in Nat,
         UNCHANGED <<now, birth, rows, cookie, keys, logins, loggedOut>>
  PROVE  AuthInv'
<1>1. Typed /\ rows' \in [Sessions -> RowType]
  BY DEF AuthInv, Typed
<1>2. Typed'
  BY <1>1, HandlerTyped DEF Sounds, ProviderOK
<1>3. Evolves
  BY <1>2, QuietStep DEF ProviderOK
<1> QED
  BY <1>2, <1>3, HandlerStep DEF Sounds, ProviderOK

\* An error answer.
LEMMA ErrorKeeps ==
  ASSUME AuthInv, NEW r \in Requests, NEW err \in Errors,
         RespondError(r, err), req[r].pc # "idle",
         Claim(err) => Over(req[r].handle)
  PROVE  Sounds
<1>1. Typed /\ RowInv
  BY DEF AuthInv
<1>2. ASSUME Typed', Evolves
      PROVE  \A x \in Records' : x \in Records \/ Sound(x)'
  <2>1. Claim(err) => \A h : h = req[r].handle => Over(h)'
    BY <1>1, <1>2, InHand, OverStays
  <2> QED
    BY <1>2, <2>1, ErrorAnswered
<1> QED
  BY <1>1, <1>2, ErrorTyped DEF Sounds

\* A request that goes on with the value it came with.
LEMMA GoesOn ==
  ASSUME AuthInv, NEW r \in Requests, NEW t \in 0 .. MaxIssued, t \in Known',
         req[r].pc \in {"read", "refreshing"}, GoOn(r, t, req[r].handle)
  PROVE  Sounds
<1> DEFINE y == [req[r] EXCEPT !.pc = "refreshed", !.tok = t,
                               !.next = req[r].handle, !.failed = "none"]
<1>1. Typed /\ req' = [req EXCEPT ![r] = y]
  BY DEF AuthInv, GoOn
<1>2. /\ Sound(req[r]) /\ req[r] \in ReqType /\ Genuine(req[r].handle)
      /\ req[r].handle # NoHandle /\ req[r].handle \in Handles
  BY InHand
<1>3. req[r].fits
  BY <1>2 DEF Sound
<1>4. /\ y \in ReqType /\ y.handle = req[r].handle /\ y.next = req[r].handle
      /\ y.pc = "refreshed" /\ y.tok = t /\ y.failed = "none"
      /\ y.fits = req[r].fits
  BY <1>2 DEF ReqType, Causes
<1> HIDE DEF y
<1>5. /\ req' \in [Requests -> ReqType]
      /\ \A z \in Records' : z \in Records \/ z = y
  BY <1>1, <1>4, OneRecord
<1>6. ASSUME Typed', Evolves, NEW z, z = y PROVE Sound(z)'
  <2>1. \A g : g = req[r].handle => Genuine(g)'
    BY <1>1, <1>2, <1>6, GenuineStays
  <2> QED
    BY <1>2, <1>3, <1>4, <1>6, <2>1, Moved
<1> QED
  BY <1>5, <1>6 DEF Sounds

-----------------------------------------------------------------------------
(* The handlers, one by one *)

\* The browser sends its cookie along.
LEMMA SendKeeps ==
  ASSUME AuthInv, NEW r \in Requests, NEW p \in Replicas, Send(r, p)
  PROVE  AuthInv'
<1> DEFINE x(pc) == [req[r] EXCEPT !.pc = pc, !.at = p, !.handle = cookie]
<1>1. /\ Typed /\ CookieInv /\ Sound(req[r]) /\ req[r] \in ReqType
      /\ req[r].pc = "idle" /\ UNCHANGED <<idp, seals>>
  BY DEF AuthInv, RequestInv, Records, Typed, Send
<1>2. PICK pc \in {"sent", "logout"} : req' = [req EXCEPT ![r] = x(pc)]
  BY DEF Send
<1> DEFINE y == x(pc)
<1>3. /\ y \in ReqType /\ y.handle = cookie /\ y.next = req[r].next
      /\ y.act = req[r].act /\ y.pc = pc /\ y.failed = req[r].failed
      /\ y.fits = req[r].fits
  BY <1>1, <1>2 DEF ReqType, Typed
<1>4. cookie # NoHandle /\ Genuine(cookie)
  BY <1>1 DEF Send, CookieInv
<1>5. /\ req' \in [Requests -> ReqType] /\ req'[r] = y
      /\ \A z \in Records' : z \in Records \/ z = y
  <2> HIDE DEF y
  <2> QED
    BY <1>1, <1>2, <1>3, OneRecord DEF y
<1> HIDE DEF y, x
<1>6. ASSUME Typed', Evolves, NEW z, z = y PROVE Sound(z)'
  <2>1. /\ \A h : h = cookie => Genuine(h)'
        /\ \A h : h = req[r].next /\ h # NoHandle => Genuine(h)'
    BY <1>1, <1>4, <1>6, GenuineStays DEF Sound
  <2>2. /\ z.act = Set => z.next # NoHandle
        /\ z.failed # "refused" /\ z.fits
    BY <1>1, <1>3, <1>6 DEF Sound
  <2> QED
    BY <1>2, <1>3, <1>4, <1>6, <2>1, <2>2 DEF Sound
<1>7. Sounds
  BY <1>5, <1>6 DEF Sounds
<1>8. ProviderOK /\ seals' \in Nat
  BY <1>1, ProviderQuiet DEF Typed
<1> QED
  BY <1>7, <1>8, QuietHandler DEF Send

\* readTokenCookie: a value that does not resolve is of a session that is
\* over, and a store that does not answer clears nothing.
LEMMA ReadTokenCookieKeeps ==
  ASSUME AuthInv, NEW r \in Requests, ReadTokenCookie(r)
  PROVE  AuthInv'
<1> DEFINE h == req[r].handle
           p == req[r].at
           y == [req[r] EXCEPT !.pc = "read", !.tok = TokenOf(h),
                               !.stale = h.key # SealingKey(p)]
<1>1. Typed /\ req[r].pc = "sent" /\ UNCHANGED <<idp, seals>>
  BY DEF AuthInv, ReadTokenCookie
<1>2. Sound(req[r]) /\ req[r] \in ReqType /\ Genuine(h)
  BY <1>1, InHand
<1>3. TokenOf(h) \in Known /\ TokenOf(h) \in 0 .. MaxIssued
  BY <1>2, TokenIssued
<1>4. /\ y \in ReqType /\ y.handle = req[r].handle /\ y.next = req[r].next
      /\ y.act = req[r].act /\ y.pc = "read" /\ y.tok = TokenOf(h)
      /\ y.failed = req[r].failed /\ y.fits = req[r].fits
  BY <1>2, <1>3 DEF ReqType
<1>5. ASSUME req' = [req EXCEPT ![r] = y] PROVE Sounds
  <2> HIDE DEF y
  <2>1. /\ req' \in [Requests -> ReqType]
        /\ \A z \in Records' : z \in Records \/ z = y
    BY <1>1, <1>4, <1>5, OneRecord
  <2>2. ASSUME Typed', Evolves, NEW z, z = y PROVE Sound(z)'
    <3>1. /\ req[r].act = Set => req[r].next # NoHandle
          /\ req[r].fits
      BY <1>1, <1>2 DEF Sound
    <3>2. z.tok \in Known'
      BY <1>3, <1>4, <2>2 DEF Evolves, NeverRevived
    <3> QED
      BY <1>1, <1>2, <1>4, <2>2, <3>1, <3>2, Moved
  <2> QED
    BY <2>1, <2>2 DEF Sounds
<1>6. ASSUME ~Resolves(p, h), RespondError(r, "nosession") PROVE Sounds
  <2>1. Over(h)
    BY <1>2, <1>6, UnresolvedIsOver
  <2> QED
    BY <1>1, <1>6, <2>1, ErrorKeeps DEF Errors
<1>7. ASSUME RespondError(r, "unavailable") PROVE Sounds
  BY <1>1, <1>7, ErrorKeeps DEF Errors, Claim
<1>8. Sounds
  <2> HIDE DEF y
  <2>1. req' = [req EXCEPT ![r] = y] \/ RespondError(r, "unavailable")
        \/ (~Resolves(p, h) /\ RespondError(r, "nosession"))
    BY DEF ReadTokenCookie, y
  <2> QED
    BY <2>1, <1>5, <1>6, <1>7
<1>9. ProviderOK /\ seals' \in Nat
  BY <1>1, ProviderQuiet DEF Typed
<1> QED
  BY <1>8, <1>9, QuietHandler DEF ReadTokenCookie

\* The tail of checkTokenExpiry, for a value of the session's own.
LEMMA ServeSound ==
  ASSUME AuthInv, NEW r \in Requests, req[r].pc \in {"read", "refreshed"},
         NEW v \in Handles, v # NoHandle, Genuine(v), Serve(r, v)
  PROVE  Sounds /\ seals' \in Nat
<1> DEFINE g == SealHandle(req[r].at, req[r].handle.sess, req[r].tok,
                           CarriedBirth(req[r].handle))
<1>1. Typed /\ NoHandle \in Handles
  BY DEF AuthInv, Handles
<1>2. g \in Handles /\ g # NoHandle /\ Genuine(g)
  <2>1. /\ ~Stored => req[r].handle.born = birth[req[r].handle.sess]
        /\ req[r].tok \in Known
    BY InHand DEF Genuine, Sound
  <2> QED
    BY <2>1, InHand, SealGenuine DEF CarriedBirth
<1> HIDE DEF g
<1>3. PICK outcome \in {"served", "unmigrated"}, h \in {v, g} :
        /\ \/ Respond(r, outcome, Keep, NoHandle)
           \/ Respond(r, outcome, Set, h)
        /\ \E fresh \in BOOLEAN : Sealed(fresh)
  BY DEF Serve, WriteHandle, g
<1>4. h \in Handles /\ h # NoHandle /\ Genuine(h)
  BY <1>2, <1>3
<1>5. seals' \in Nat
  BY <1>1, <1>3, SealedTyped
<1>6. req' \in [Requests -> ReqType]
  BY <1>1, <1>3, <1>4, Answered DEF Outcomes
<1>7. (Typed' /\ Evolves) => \A x \in Records' : x \in Records \/ Sound(x)'
  BY <1>3, <1>4, Written
<1> QED
  BY <1>5, <1>6, <1>7 DEF Sounds

\* checkTokenExpiry with time to spare.
LEMMA ServeFreshKeeps ==
  ASSUME AuthInv, NEW r \in Requests, ServeFresh(r)
  PROVE  AuthInv'
<1>1. /\ Typed /\ req[r].pc = "read" /\ Serve(r, req[r].handle)
      /\ UNCHANGED idp
  BY DEF AuthInv, ServeFresh
<1>2. Sounds /\ seals' \in Nat
  BY <1>1, InHand, ServeSound
<1>3. ProviderOK
  BY <1>1, ProviderQuiet
<1> QED
  BY <1>2, <1>3, QuietHandler DEF ServeFresh

\* checkTokenExpiry after a refresh; a session whose cookie does not fit
\* has lost its refresh token to a provider that rotates.
LEMMA ServeRefreshedKeeps ==
  ASSUME AuthInv, NEW r \in Requests, ServeRefreshed(r)
  PROVE  AuthInv'
<1>1. Typed /\ req[r].pc = "refreshed" /\ UNCHANGED idp
  BY DEF AuthInv, ServeRefreshed
<1>2. Sound(req[r]) /\ req[r].next \in Handles
  BY <1>1, InHand
<1>3. CASE req[r].fits
  <2>1. Serve(r, req[r].next)
    BY <1>3 DEF ServeRefreshed
  <2>2. req[r].next # NoHandle /\ Genuine(req[r].next)
    BY <1>1, <1>2 DEF Sound
  <2> QED
    BY <1>1, <1>2, <2>1, <2>2, ServeSound, ProviderQuiet, QuietHandler
       DEF ServeRefreshed
<1>4. CASE ~req[r].fits
  <2>1. RespondError(r, "toobig") /\ Sealed(FALSE)
    BY <1>4 DEF ServeRefreshed
  <2>2. Claim("toobig") => Over(req[r].handle)
    BY <1>2, <1>4 DEF Claim, Sound, Over, Spent
  <2>3. Sounds /\ seals' \in Nat
    BY <1>1, <2>1, <2>2, ErrorKeeps, SealedTyped DEF Errors
  <2> QED
    BY <1>1, <2>3, ProviderQuiet, QuietHandler DEF ServeRefreshed
<1> QED
  BY <1>3, <1>4

\* pgstore's Refresh, its first pass: the session is gone, the store does not
\* answer, or the call knows the token set in the row.
LEMMA RefreshBeginsKeeps ==
  ASSUME AuthInv, NEW r \in Requests, RefreshBegins(r)
  PROVE  AuthInv'
<1> DEFINE h == req[r].handle
           p == req[r].at
           y == [req[r] EXCEPT !.pc = "refreshing", !.tok = TokenOf(h)]
<1>1. Typed /\ req[r].pc = "read" /\ Stored /\ UNCHANGED <<idp, seals>>
  BY DEF AuthInv, RefreshBegins
<1>2. Sound(req[r]) /\ req[r] \in ReqType /\ Genuine(h)
  BY <1>1, InHand
<1>3. /\ TokenOf(h) \in Known /\ TokenOf(h) \in 0 .. MaxIssued
      /\ ProviderOK /\ TokenOf(h) \in Known'
  BY <1>1, <1>2, TokenIssued, ProviderQuiet DEF ProviderOK, NeverRevived
<1>4. /\ y \in ReqType /\ y.handle = req[r].handle /\ y.next = req[r].next
      /\ y.act = req[r].act /\ y.pc = "refreshing" /\ y.tok = TokenOf(h)
      /\ y.failed = req[r].failed /\ y.fits = req[r].fits
  BY <1>2, <1>3 DEF ReqType
<1>5. ASSUME req' = [req EXCEPT ![r] = y] PROVE Sounds
  <2> HIDE DEF y
  <2>1. /\ req' \in [Requests -> ReqType]
        /\ \A z \in Records' : z \in Records \/ z = y
    BY <1>1, <1>4, <1>5, OneRecord
  <2>2. ASSUME Typed', Evolves, NEW z, z = y PROVE Sound(z)'
    <3>1. /\ req[r].act = Set => req[r].next # NoHandle
          /\ req[r].fits
      BY <1>1, <1>2 DEF Sound
    <3> QED
      BY <1>1, <1>2, <1>3, <1>4, <2>2, <3>1, Moved
  <2> QED
    BY <2>1, <2>2 DEF Sounds
<1>6. ASSUME ~Resolves(p, h), RespondError(r, "nosession") PROVE Sounds
  <2>1. Over(h)
    BY <1>2, <1>6, UnresolvedIsOver
  <2> QED
    BY <1>1, <1>6, <2>1, ErrorKeeps DEF Errors
<1>7. ASSUME RespondError(r, "unavailable") PROVE Sounds
  BY <1>1, <1>7, ErrorKeeps DEF Errors, Claim
<1>8. ASSUME GoOn(r, TokenOf(h), h) PROVE Sounds
  BY <1>1, <1>3, <1>8, GoesOn
<1>9. Sounds
  <2> HIDE DEF y
  <2>1. \/ req' = [req EXCEPT ![r] = y] \/ RespondError(r, "unavailable")
        \/ GoOn(r, TokenOf(h), h)
        \/ (~Resolves(p, h) /\ RespondError(r, "nosession"))
    BY DEF RefreshBegins, y
  <2> QED
    BY <2>1, <1>5, <1>6, <1>7, <1>8
<1> QED
  BY <1>1, <1>3, <1>9, QuietHandler DEF RefreshBegins, Typed

\* Its later passes: a failure that somebody recorded as a refusal is of a
\* token that the row still holds.
LEMMA RefreshReadsKeeps ==
  ASSUME AuthInv, NEW r \in Requests, RefreshReads(r)
  PROVE  AuthInv'
<1> DEFINE h == req[r].handle
           p == req[r].at
<1>1. Typed /\ req[r].pc = "refreshing" /\ UNCHANGED <<idp, seals>>
  BY DEF AuthInv, RefreshReads
<1>2. Sound(req[r]) /\ req[r] \in ReqType /\ Genuine(h)
  BY <1>1, InHand
<1>3. /\ TokenOf(h) \in 0 .. MaxIssued /\ ProviderOK /\ TokenOf(h) \in Known'
  BY <1>1, <1>2, TokenIssued, ProviderQuiet DEF ProviderOK, NeverRevived
<1>4. ASSUME ~Resolves(p, h), RespondError(r, "nosession") PROVE Sounds
  <2>1. Over(h)
    BY <1>2, <1>4, UnresolvedIsOver
  <2> QED
    BY <1>1, <1>4, <2>1, ErrorKeeps DEF Errors
<1>5. ASSUME RespondError(r, "unavailable") PROVE Sounds
  BY <1>1, <1>5, ErrorKeeps DEF Errors, Claim
<1>6. ASSUME GoOn(r, TokenOf(h), h) PROVE Sounds
  BY <1>1, <1>3, <1>6, GoesOn
<1>7. ASSUME req[r].failed # "none", RespondError(r, req[r].failed)
      PROVE  Sounds
  <2>1. req[r].failed \in Errors
    BY <1>2, <1>7 DEF ReqType, Causes, Errors
  <2>2. Claim(req[r].failed) => req[r].failed = "refused"
    BY <1>2 DEF Claim, ReqType, Causes
  <2>3. req[r].failed = "refused" => Over(h)
    BY <1>2 DEF Sound, Over, Spent
  <2> QED
    BY <1>1, <1>7, <2>1, <2>2, <2>3, ErrorKeeps
<1>8. Sounds
  BY <1>4, <1>5, <1>6, <1>7 DEF RefreshReads
<1> QED
  BY <1>1, <1>3, <1>8, QuietHandler DEF RefreshReads, Typed

\* CommitRefresh: the row moves to the new token set, under the key of the
\* replica, because the fence says that it held the spent one.
LEMMA RefreshCommitsKeeps ==
  ASSUME AuthInv, NEW r \in Requests, RefreshCommits(r)
  PROVE  AuthInv'
<1> DEFINE h == req[r].handle
           s == h.sess
           p == req[r].at
<1>1. /\ Typed /\ req[r].pc = "refreshing" /\ Owns(r) /\ Honour(req[r].tok)
      /\ UNCHANGED <<now, birth, cookie, keys, seals, logins, loggedOut>>
      /\ rows' = [rows EXCEPT ![s].tok = issued + 1, ![s].key = SealingKey(p)]
  BY DEF AuthInv, RefreshCommits
<1>2. /\ Sound(req[r]) /\ Stored /\ s \in Sessions /\ s \in Begun
      /\ p \in Replicas
  BY <1>1, InHand DEF Sound
<1>3. /\ ProviderOK /\ req[r].tok \in live
      /\ issued + 1 \in 0 .. MaxIssued /\ issued + 1 \in Known'
  BY <1>1, ProviderTyped
<1>4. Sounds
  <2>1. ASSUME RespondError(r, "unavailable") PROVE Sounds
    BY <1>1, <2>1, ErrorKeeps DEF Errors, Claim
  <2>2. ASSUME GoOn(r, issued + 1, h) PROVE Sounds
    BY <1>1, <1>3, <2>2, GoesOn
  <2> QED
    BY <2>1, <2>2 DEF RefreshCommits
<1>5. rows[s].tok \in live /\ sealing[p] \in {OldKey, NewKey}
  BY <1>1, <1>2, <1>3 DEF Owns, TokenOf, Typed
<1>6. /\ rows' \in [Sessions -> RowType]
      /\ \A z \in Sessions : rows'[z].exists = rows[z].exists
      /\ \A z \in Sessions \ {s} : rows'[z] = rows[z]
      /\ rows'[s].tok = issued + 1 /\ rows'[s].key = sealing[p]
  BY <1>1, <1>2, <1>3, <1>5 DEF Typed, RowType, SealingKey
<1>7. Typed'
  BY <1>1, <1>3, <1>4, <1>6, HandlerTyped DEF Sounds, ProviderOK, Typed
<1>8. Begun \subseteq Sessions
  BY <1>1, Numbers
<1>9. RetireInv' /\ RowInv' /\ Evolves
  BY <1>1, <1>2, <1>3, <1>5, <1>6, <1>7, <1>8, RowsStep DEF ProviderOK
<1> QED
  BY <1>1, <1>4, <1>7, <1>9, InvStays DEF Sounds

\* An exchange whose result does not reach the row.
LEMMA RefreshLostKeeps ==
  ASSUME AuthInv, NEW r \in Requests, RefreshLost(r)
  PROVE  AuthInv'
<1>1. Typed /\ req[r].pc = "refreshing" /\ Honour(req[r].tok)
  BY DEF AuthInv, RefreshLost
<1>2. ProviderOK
  BY <1>1, ProviderTyped
<1>3. ASSUME RespondError(r, "unavailable") PROVE Sounds
  BY <1>1, <1>3, ErrorKeeps DEF Errors, Claim
<1>4. ASSUME UNCHANGED req PROVE Sounds
  BY <1>1, <1>4 DEF Sounds, Records, Typed
<1> QED
  BY <1>1, <1>2, <1>3, <1>4, QuietHandler DEF RefreshLost, Typed

\* FailRefresh: a recorded refusal is of the token that the row holds, so it
\* speaks for every call on that row.
LEMMA RecordKeeps ==
  ASSUME AuthInv, NEW r \in Requests, NEW cause \in {"refused", "unreachable"},
         NEW err \in {cause, "unrecorded"}, Record(r, cause, err),
         req[r].pc = "refreshing", Owns(r),
         cause = "refused" => req[r].tok \notin live
  PROVE  Sounds
<1> DEFINE h == req[r].handle
           y(q) == [req[q] EXCEPT !.failed = cause]
<1>1. Typed /\ RowInv /\ req \in [Requests -> ReqType]
  BY DEF AuthInv, Typed
<1>2. Sound(req[r]) /\ Stored /\ err \in Errors
  BY InHand DEF Sound, Errors
<1>3. \A q \in Requests : /\ req[q] \in ReqType /\ y(q) \in ReqType
                          /\ y(q).handle = req[q].handle
                          /\ y(q).next = req[q].next
                          /\ y(q).act = req[q].act /\ y(q).pc = req[q].pc
                          /\ y(q).tok = req[q].tok /\ y(q).failed = cause
                          /\ y(q).fits = req[q].fits
  BY <1>1 DEF ReqType, Causes
<1>4. cause = "refused" => rows[h.sess].tok \notin live /\ Over(h)
  BY <1>2 DEF Owns, TokenOf, Over
<1>5. Claim(err) => Over(h)
  BY <1>4 DEF Claim
<1>6. \A q \in Requests :
        \/ req'[q] = req[q]
        \/ q = r /\ req'[q] = ErrorAnswer(req[r], err)
        \/ /\ req[q].pc = "refreshing" /\ req[q].handle.sess = h.sess
           /\ req'[q] = y(q)
  BY DEF Record
<1>7. req' \in [Requests -> ReqType]
  <2>1. ErrorAnswer(req[r], err) \in ReqType
    BY <1>1, <1>2, ErrorTyped
  <2>2. req' = [q \in Requests |-> req'[q]]
    BY DEF Record
  <2> HIDE DEF y
  <2> QED
    BY <1>3, <1>6, <2>1, <2>2
<1> HIDE DEF y
<1>8. ASSUME Typed', Evolves, NEW x \in Records', x \notin Records
      PROVE  Sound(x)'
  <2>1. PICK q \in Requests : x = req'[q]
    BY DEF Records
  <2>2. req'[q] # req[q]
    BY <1>8, <2>1 DEF Records
  <2>3. CASE q = r /\ req'[q] = ErrorAnswer(req[r], err)
    <3>1. Claim(err) => \A g : g = h => Over(g)'
      BY <1>1, <1>5, <1>8, InHand, OverStays
    <3> QED
      BY <1>2, <1>8, <2>1, <2>3, <3>1, ErrorSound
  <2>4. CASE /\ req[q].pc = "refreshing" /\ req[q].handle.sess = h.sess
             /\ req'[q] = y(q)
    <3>1. /\ Sound(req[q]) /\ Genuine(req[q].handle)
          /\ req[q].fits /\ req[q].tok \in Known
          /\ req[q].act = Set => req[q].next # NoHandle
      BY <2>4, InHand DEF Sound
    <3>2. cause = "refused" => Spent(req[q].handle)
      BY <1>2, <1>4, <2>4 DEF Spent, TokenOf
    <3>3. \A g : g = req[q].handle /\ cause = "refused" => Spent(g)'
      BY <1>1, <1>8, <3>1, <3>2, OverStays
    <3>4. x.tok \in Known'
      BY <1>3, <1>8, <2>1, <2>4, <3>1 DEF Evolves, NeverRevived
    <3> QED
      BY <1>2, <1>3, <1>8, <2>1, <2>4, <3>1, <3>3, <3>4, Moved
  <2> QED
    BY <1>6, <2>2, <2>3, <2>4
<1> QED
  BY <1>7, <1>8 DEF Sounds

\* An exchange that fails.
LEMMA RefreshFailsKeeps ==
  ASSUME AuthInv, NEW r \in Requests, RefreshFails(r)
  PROVE  AuthInv'
<1>1. Typed /\ req[r].pc = "refreshing" /\ seals' = seals
  BY DEF AuthInv, RefreshFails
<1>2. PICK cause \in {"refused", "unreachable"} :
        /\ ExchangeFails(req[r].tok, cause)
        /\ \/ Owns(r) /\ Record(r, cause, cause)
           \/ Owns(r) /\ Record(r, cause, "unrecorded")
           \/ RespondError(r, "unrecorded")
  BY DEF RefreshFails
<1>3. /\ cause = "refused" => req[r].tok \notin live
      /\ Honour(req[r].tok) \/ UNCHANGED idp
  BY <1>2 DEF ExchangeFails
<1>4. ProviderOK
  BY <1>1, <1>3, ProviderTyped
<1>5. Sounds
  <2>1. ASSUME Owns(r), NEW err \in {cause, "unrecorded"},
               Record(r, cause, err)
        PROVE  Sounds
    BY <1>1, <1>3, <2>1, RecordKeeps
  <2>2. ASSUME RespondError(r, "unrecorded") PROVE Sounds
    BY <1>1, <2>2, ErrorKeeps DEF Errors, Claim
  <2> QED
    BY <1>2, <2>1, <2>2
<1> QED
  BY <1>1, <1>4, <1>5, QuietHandler DEF RefreshFails, Typed

\* A call boards a flight of its replica.
LEMMA JoinFlightKeeps ==
  ASSUME AuthInv, NEW r \in Requests, JoinFlight(r)
  PROVE  AuthInv'
<1> DEFINE y == [req[r] EXCEPT !.pc = "flight"]
<1>1. /\ Typed /\ req[r].pc = "read" /\ req' = [req EXCEPT ![r] = y]
      /\ ~Stored /\ UNCHANGED <<idp, seals>>
  BY DEF AuthInv, JoinFlight
<1>2. Sound(req[r]) /\ req[r] \in ReqType /\ req[r].tok \in Known
  BY <1>1, InHand DEF Sound
<1>3. /\ y \in ReqType /\ y.handle = req[r].handle /\ y.next = req[r].next
      /\ y.act = req[r].act /\ y.pc = "flight" /\ y.tok = req[r].tok
      /\ y.failed = req[r].failed /\ y.fits = req[r].fits
  BY <1>2 DEF ReqType
<1> HIDE DEF y
<1>4. /\ req' \in [Requests -> ReqType]
      /\ \A z \in Records' : z \in Records \/ z = y
  BY <1>1, <1>3, OneRecord
<1>5. ProviderOK /\ seals' \in Nat
  BY <1>1, ProviderQuiet DEF Typed
<1>6. ASSUME Typed', Evolves, NEW z, z = y PROVE Sound(z)'
  <2>1. /\ req[r].act = Set => req[r].next # NoHandle
        /\ req[r].fits
    BY <1>1, <1>2 DEF Sound
  <2>2. z.tok \in Known'
    BY <1>2, <1>3, <1>5, <1>6 DEF ProviderOK, NeverRevived
  <2> QED
    BY <1>1, <1>2, <1>3, <1>6, <2>1, <2>2, Moved
<1>7. Sounds
  BY <1>4, <1>6 DEF Sounds
<1> QED
  BY <1>5, <1>7, QuietHandler DEF JoinFlight

\* A call hears that its flight failed: refused, its token is spent.
LEMMA FlightFailedKeeps ==
  ASSUME AuthInv, NEW r \in Requests, FlightFailed(r)
  PROVE  AuthInv'
<1>1. Typed /\ req[r].pc = "failed" /\ UNCHANGED <<idp, seals>>
  BY DEF AuthInv, FlightFailed
<1>2. /\ Sound(req[r]) /\ req[r] \in ReqType
      /\ RespondError(r, req[r].failed)
  BY <1>1, InHand DEF FlightFailed
<1>3. Sounds
  <2>1. CASE req[r].failed = "none"
    <3>1. NoHandle \in Handles /\ "none" \in Outcomes
      BY DEF Handles, Outcomes
    <3>2. Respond(r, "none", Keep, NoHandle)
      BY <1>2, <2>1 DEF RespondError, ErrorAnswer, Respond, SessionGone,
                        Rejections
    <3>3. /\ req' \in [Requests -> ReqType]
          /\ Says(req'[r], req[r].handle, "none", Keep, NoHandle)
          /\ \A y \in Records' : y \in Records \/ y = req'[r]
      BY <1>1, <3>1, <3>2, Answered
    <3>4. ASSUME Typed', Evolves PROVE \A x : x = req'[r] => Sound(x)'
      <4>1. \A g : g = req[r].handle => g # NoHandle /\ Genuine(g)'
        BY <1>1, <3>4, InHand, GenuineStays
      <4> QED
        BY <3>3, <4>1 DEF Says, Sound, Keep, Clear, Set
    <3> QED
      BY <3>3, <3>4 DEF Sounds
  <2>2. CASE req[r].failed # "none"
    <3>1. req[r].failed \in Errors
      BY <1>2, <2>2 DEF ReqType, Causes, Errors
    <3>2. Claim(req[r].failed) => req[r].failed = "refused"
      BY <1>2 DEF Claim, ReqType, Causes
    <3>3. req[r].failed = "refused" => Over(req[r].handle)
      BY <1>2 DEF Sound, Over, Spent
    <3> QED
      BY <1>1, <1>2, <3>1, <3>2, <3>3, ErrorKeeps
  <2> QED
    BY <2>1, <2>2
<1> QED
  BY <1>1, <1>3, ProviderQuiet, QuietHandler DEF FlightFailed, Typed

\* Everybody aboard r's flight has the new value v.
LandsNew(r, fits, v) ==
  \A q \in Requests :
    \/ req'[q] = req[q]
    \/ /\ q \in Aboard(r)
       /\ req'[q] = [req[q] EXCEPT !.pc = "refreshed", !.tok = issued + 1,
                                   !.next = v, !.fits = fits]

\* Everybody aboard r's flight hears of its failure.
LandsFailed(r, cause) ==
  \A q \in Requests :
    \/ req'[q] = req[q]
    \/ /\ q \in Aboard(r)
       /\ req'[q] = [req[q] EXCEPT !.pc = "failed", !.failed = cause]

NewValue(r) == SealHandle(req[r].at, req[r].handle.sess, issued + 1,
                          CarriedBirth(req[r].handle))

\* The ways a flight ends.
LEMMA FlightLands ==
  ASSUME NEW r \in Requests, FlightEnds(r)
  PROVE  /\ DOMAIN req' = Requests /\ req' = [q \in Requests |-> req'[q]]
         /\ \E fresh \in BOOLEAN : Sealed(fresh)
         /\ \/ /\ Honour(req[r].handle.tok)
               /\ \E fits \in BOOLEAN : LandsNew(r, fits, NewValue(r))
            \/ /\ Honour(req[r].handle.tok)
               /\ LandsFailed(r, "unsealed")
            \/ \E cause \in {"refused", "unreachable"} :
                 /\ ExchangeFails(req[r].handle.tok, cause)
                 /\ LandsFailed(r, cause)
<1> DEFINE h == req[r].handle
           v == NewValue(r)
<1>1. \/ /\ Honour(h.tok) /\ Sealed(TRUE)
         /\ \E fits \in BOOLEAN :
              req' = [q \in Requests |-> IF q \in Aboard(r)
                        THEN [req[q] EXCEPT !.pc = "refreshed",
                                !.tok = issued + 1, !.next = v, !.fits = fits]
                        ELSE req[q]]
      \/ /\ Honour(h.tok) /\ Sealed(FALSE)
         /\ req' = [q \in Requests |-> IF q \in Aboard(r)
                      THEN [req[q] EXCEPT !.pc = "failed",
                                          !.failed = "unsealed"]
                      ELSE req[q]]
      \/ /\ Sealed(FALSE)
         /\ \E cause \in {"refused", "unreachable"} :
              /\ ExchangeFails(h.tok, cause)
              /\ req' = [q \in Requests |-> IF q \in Aboard(r)
                           THEN [req[q] EXCEPT !.pc = "failed",
                                               !.failed = cause]
                           ELSE req[q]]
  BY Zenon DEF FlightEnds, NewValue
<1> HIDE DEF v
<1>2. \A q \in Requests : DOMAIN req' = Requests
                          /\ req' = [z \in Requests |-> req'[z]]
  BY <1>1
<1> QED
  BY <1>1, <1>2 DEF LandsNew, LandsFailed, v

\* What the new value carries: the birth of the session, and a token set that
\* is known from this step on.
LEMMA NewValueGenuine ==
  ASSUME AuthInv, NEW r \in Requests, req[r].pc = "flight",
         Honour(req[r].handle.tok), Typed', Evolves
  PROVE  /\ NewValue(r) \in Handles /\ NewValue(r) # NoHandle
         /\ \A g : g = NewValue(r) => Genuine(g)'
<1> DEFINE h == req[r].handle
           v == NewValue(r)
<1>1. /\ Typed /\ Genuine(h) /\ h.sess \in Begun /\ ~Stored
      /\ h.born = birth[h.sess]
  BY InHand DEF AuthInv, Genuine, Sound
<1>2. issued + 1 \in 0 .. MaxIssued /\ issued + 1 \in Known'
  BY <1>1, ProviderTyped
<1>3. /\ v \in Handles /\ v # NoHandle /\ v.sess = h.sess
      /\ SealedInTime(v.key, h.sess) /\ v.born = h.born /\ v.tok = issued + 1
  BY <1>1, <1>2, InHand, SealGenuine DEF NewValue, CarriedBirth
<1>4. PICK s \in Begun : s = h.sess
  BY <1>1
<1>5. /\ s \in Begun' /\ birth'[s] = birth[s]
      /\ \A k : SealedInTime(k, s) => SealedInTime(k, s)'
  BY <1>1, SessionStays DEF Evolves
<1> HIDE DEF v, h
<1>6. ASSUME NEW g, g = v PROVE Genuine(g)'
  <2>1. /\ g.sess = s /\ SealedInTime(g.key, s)
        /\ g.born = birth[s] /\ g.tok = issued + 1
    BY <1>1, <1>3, <1>4, <1>6
  <2> QED
    BY <1>2, <1>5, <2>1 DEF Genuine
<1> QED
  BY <1>3, <1>6 DEF v

\* A flight that brought a new value.
LEMMA NewLands ==
  ASSUME AuthInv, NEW r \in Requests, req[r].pc = "flight",
         Honour(req[r].handle.tok), NEW fits \in BOOLEAN,
         LandsNew(r, fits, NewValue(r)), req' = [q \in Requests |-> req'[q]]
  PROVE  Sounds
<1> DEFINE h == req[r].handle
           v == NewValue(r)
           y(q) == [req[q] EXCEPT !.pc = "refreshed", !.tok = issued + 1,
                                  !.next = v, !.fits = fits]
<1>1. Typed /\ req \in [Requests -> ReqType]
  BY DEF AuthInv, Typed
<1>2. /\ issued + 1 \in 0 .. MaxIssued /\ issued + 1 \in Known'
      /\ Rotates => h.tok \notin live'
  BY <1>1, ProviderTyped
<1>3. v \in Handles
  <2>1. ~Stored => h.born = birth[h.sess]
    BY InHand DEF Genuine
  <2> QED
    BY <1>2, <2>1, InHand, SealGenuine DEF NewValue, CarriedBirth
<1> HIDE DEF v
<1>4. ASSUME NEW q \in Requests
      PROVE  /\ y(q) \in ReqType /\ y(q).handle = req[q].handle
             /\ y(q).next = v /\ y(q).act = req[q].act
             /\ y(q).pc = "refreshed" /\ y(q).tok = issued + 1
             /\ y(q).failed = req[q].failed /\ y(q).fits = fits
  <2>1. req[q] \in ReqType
    BY <1>1
  <2> QED
    BY <1>2, <1>3, <2>1 DEF ReqType
<1>5. \A q \in Requests : \/ req'[q] = req[q]
                          \/ q \in Aboard(r) /\ req'[q] = y(q)
  BY DEF LandsNew, v
<1> HIDE DEF y
<1>6. req' \in [Requests -> ReqType]
  BY <1>1, <1>4, <1>5
<1>7. ASSUME Typed', Evolves, NEW x \in Records', x \notin Records
      PROVE  Sound(x)'
  <2>1. PICK q \in Requests : x = req'[q]
    BY DEF Records
  <2>2. q \in Aboard(r) /\ x = y(q)
    BY <1>5, <1>7, <2>1 DEF Records
  <2>3. req[q].pc = "flight" /\ req[q].handle = h
    BY <2>2 DEF Aboard
  <2>4. Sound(req[q]) /\ ~Stored
    BY <2>3, InHand DEF Sound
  <2>5. v # NoHandle /\ \A g : g = v => Genuine(g)'
    BY <1>7, NewValueGenuine DEF v
  <2>6. \A g : g = h /\ Rotates => Spent(g)'
    <3>1. ~Stored'
      BY <1>7, <2>4 DEF Evolves, Stored
    <3> QED
      BY <1>2, <3>1 DEF Spent, TokenOf
  <2> QED
    BY <1>2, <1>4, <1>7, <2>2, <2>3, <2>4, <2>5, <2>6, Moved
<1> QED
  BY <1>6, <1>7 DEF Sounds

\* A flight that failed.
LEMMA FailureLands ==
  ASSUME AuthInv, NEW r \in Requests, req[r].pc = "flight",
         NEW cause \in {"refused", "unreachable", "unsealed"},
         cause = "refused" => req[r].handle.tok \notin live,
         LandsFailed(r, cause), req' = [q \in Requests |-> req'[q]]
  PROVE  Sounds
<1> DEFINE h == req[r].handle
           y(q) == [req[q] EXCEPT !.pc = "failed", !.failed = cause]
<1>1. Typed /\ RowInv /\ req \in [Requests -> ReqType]
  BY DEF AuthInv, Typed
<1>2. ASSUME NEW q \in Requests
      PROVE  /\ y(q) \in ReqType /\ y(q).handle = req[q].handle
             /\ y(q).next = req[q].next /\ y(q).act = req[q].act
             /\ y(q).pc = "failed" /\ y(q).failed = cause
             /\ y(q).fits = req[q].fits
  <2>1. req[q] \in ReqType
    BY <1>1
  <2> QED
    BY <2>1 DEF ReqType, Causes
<1>3. \A q \in Requests : \/ req'[q] = req[q]
                          \/ q \in Aboard(r) /\ req'[q] = y(q)
  BY DEF LandsFailed
<1> HIDE DEF y
<1>4. req' \in [Requests -> ReqType]
  BY <1>1, <1>2, <1>3
<1>5. ASSUME Typed', Evolves, NEW x \in Records', x \notin Records
      PROVE  Sound(x)'
  <2>1. PICK q \in Requests : x = req'[q]
    BY DEF Records
  <2>2. q \in Aboard(r) /\ x = y(q)
    BY <1>3, <1>5, <2>1 DEF Records
  <2>3. req[q].pc = "flight" /\ req[q].handle = h
    BY <2>2 DEF Aboard
  <2>4. /\ Sound(req[q]) /\ ~Stored /\ Genuine(h) /\ req[q].fits
        /\ req[q].act = Set => req[q].next # NoHandle
    BY <2>3, InHand DEF Sound
  <2>5. \A g : g = h /\ cause = "refused" => Spent(g)'
    <3>1. cause = "refused" => Spent(h)
      BY <2>4 DEF Spent, TokenOf
    <3> QED
      BY <1>1, <1>5, <2>4, <3>1, OverStays
  <2> QED
    BY <1>2, <1>5, <2>2, <2>3, <2>4, <2>5, Moved
<1> QED
  BY <1>4, <1>5 DEF Sounds

\* Everybody aboard goes on soundly.
LEMMA FlightEndsKeeps ==
  ASSUME AuthInv, NEW r \in Requests, FlightEnds(r)
  PROVE  AuthInv'
<1> DEFINE t == req[r].handle.tok
<1>1. Typed /\ req[r].pc = "flight"
  BY DEF AuthInv, FlightEnds
<1>2. /\ req' = [q \in Requests |-> req'[q]]
      /\ \E fresh \in BOOLEAN : Sealed(fresh)
      /\ \/ /\ Honour(t)
            /\ \E fits \in BOOLEAN : LandsNew(r, fits, NewValue(r))
         \/ Honour(t) /\ LandsFailed(r, "unsealed")
         \/ \E cause \in {"refused", "unreachable"} :
              ExchangeFails(t, cause) /\ LandsFailed(r, cause)
  BY FlightLands
<1>3. ProviderOK /\ seals' \in Nat
  <2>1. Honour(t) \/ UNCHANGED idp
    BY <1>2 DEF ExchangeFails
  <2> QED
    BY <1>1, <1>2, <2>1, ProviderTyped, SealedTyped
<1>4. Sounds
  <2>1. ASSUME Honour(t), NEW fits \in BOOLEAN,
               LandsNew(r, fits, NewValue(r))
        PROVE  Sounds
    BY <1>1, <1>2, <2>1, NewLands
  <2>2. ASSUME LandsFailed(r, "unsealed") PROVE Sounds
    BY <1>1, <1>2, <2>2, FailureLands
  <2>3. ASSUME NEW cause \in {"refused", "unreachable"},
               ExchangeFails(t, cause), LandsFailed(r, cause)
        PROVE  Sounds
    <3>1. cause = "refused" => t \notin live
      BY <2>3 DEF ExchangeFails
    <3> QED
      BY <1>1, <1>2, <2>3, <3>1, FailureLands
  <2> QED
    BY <1>2, <2>1, <2>2, <2>3
<1> QED
  BY <1>3, <1>4, QuietHandler DEF FlightEnds

\* authLogout: an answer of "loggedout" means that the row is gone, or that
\* it had expired before its key was dropped.
LEMMA LogoutKeeps ==
  ASSUME AuthInv, NEW r \in Requests, Logout(r)
  PROVE  AuthInv'
<1> DEFINE h == req[r].handle
           s == h.sess
<1>1. /\ Typed /\ req[r].pc = "logout"
      /\ UNCHANGED <<now, birth, cookie, keys, idp, seals, logins, loggedOut>>
  BY DEF AuthInv, Logout
<1>2. /\ Genuine(h) /\ h # NoHandle /\ s \in Sessions /\ s \in Begun
      /\ NoHandle \in Handles
  BY <1>1, InHand DEF Handles
<1>3. PICK outcome \in {"loggedout", "undeleted"} :
        Respond(r, outcome, Clear, NoHandle)
  BY DEF Logout
<1>4. /\ req' \in [Requests -> ReqType]
      /\ Says(req'[r], h, outcome, Clear, NoHandle)
      /\ \A y \in Records' : y \in Records \/ y = req'[r]
  BY <1>1, <1>2, <1>3, Answered DEF Outcomes
<1>5. \/ UNCHANGED rows
      \/ rows' = [rows EXCEPT ![s].exists = FALSE]
  BY DEF Logout
<1>6. /\ rows' \in [Sessions -> RowType]
      /\ \A z \in Sessions : /\ rows'[z].key = rows[z].key
                             /\ rows'[z].tok = rows[z].tok
                             /\ ~rows[z].exists => ~rows'[z].exists
  <2>1. CASE UNCHANGED rows
    BY <1>1, <2>1 DEF Typed
  <2>2. CASE rows' = [rows EXCEPT ![s].exists = FALSE]
    <3> DEFINE y == [rows[s] EXCEPT !.exists = FALSE]
    <3>1. rows[s] \in RowType /\ rows \in [Sessions -> RowType]
      BY <1>1, <1>2 DEF Typed
    <3>2. /\ y \in RowType /\ y.key = rows[s].key /\ y.tok = rows[s].tok
          /\ ~y.exists
      BY <3>1 DEF RowType
    <3>3. rows' = [rows EXCEPT ![s] = y]
      BY <2>2
    <3> HIDE DEF y, s
    <3> QED
      BY <1>2, <3>1, <3>2, <3>3
  <2> QED
    BY <1>5, <2>1, <2>2
<1>7. ProviderOK /\ seals' \in Nat
  BY <1>1, ProviderQuiet DEF Typed
<1>8. Typed' /\ Begun \subseteq Sessions
  BY <1>1, <1>4, <1>6, <1>7, HandlerTyped, Numbers DEF ProviderOK
<1>9. RetireInv' /\ RowInv' /\ Evolves
  BY <1>1, <1>6, <1>7, <1>8, RowsStep DEF ProviderOK
<1>10. outcome = "loggedout" /\ Stored => \A z : z = s => Dead(z)'
  <2>1. SUFFICES ASSUME outcome = "loggedout", Stored
                 PROVE  \A z : z = s => Dead(z)'
    OBVIOUS
  <2>2. ~Respond(r, "undeleted", Clear, NoHandle)
    <3>1. req'[r].outcome = "loggedout"
      BY <1>4, <2>1 DEF Says
    <3>2. ASSUME Respond(r, "undeleted", Clear, NoHandle) PROVE FALSE
      <4>1. Says(req'[r], h, "undeleted", Clear, NoHandle)
        BY <1>1, <1>2, <3>2, Answered DEF Outcomes
      <4> QED
        BY <3>1, <4>1 DEF Says
    <3> QED
      BY <3>2
  <2>3. CASE Opens(req[r].at, h.key)
    <3>1. rows' = [rows EXCEPT ![s].exists = FALSE]
      BY <2>1, <2>2, <2>3 DEF Logout
    <3>2. ~rows'[s].exists
      BY <1>1, <1>2, <3>1 DEF Typed, RowType
    <3> QED
      BY <3>2 DEF Dead
  <2>4. CASE ~Opens(req[r].at, h.key)
    <3>1. Expired(birth[s])
      BY <1>2, <2>4, ShutIsExpired DEF Genuine
    <3> QED
      BY <1>1, <3>1 DEF Dead, Expired
  <2> QED
    BY <2>3, <2>4
<1>11. \A g : g = h => Genuine(g)'
  BY <1>1, <1>2, <1>8, <1>9, GenuineStays
<1>12. Stored' = Stored
  BY <1>1 DEF keys, Stored
<1>13. \A x : x = req'[r] => Sound(x)'
  <2>1. SUFFICES ASSUME NEW x, x = req'[r] PROVE Sound(x)'
    OBVIOUS
  <2>2. NoClaim(x)'
    BY <1>4, <2>1 DEF Says, NoClaim
  <2> QED
    BY <1>2, <1>4, <1>10, <1>11, <1>12, <2>1, <2>2
       DEF Says, Sound, Set, Clear
<1> QED
  BY <1>1, <1>4, <1>8, <1>9, <1>13, InvStays

-----------------------------------------------------------------------------
(* The browser, the clock, the provider and the operator *)

\* A request slot that is free again.
LEMMA IdleSound ==
  ASSUME Typed
  PROVE  /\ Idle \in ReqType /\ \A x : x = Idle => Sound(x)'
         /\ \A x : x = Idle => Sound(x)
<1>1. /\ Idle.at \in Replicas /\ Idle.pc = "idle" /\ Idle.handle = NoHandle
      /\ Idle.tok = 0 /\ Idle.stale = FALSE /\ Idle.fits = TRUE
      /\ Idle.failed = "none" /\ Idle.outcome = "none" /\ Idle.act = Keep
      /\ Idle.next = NoHandle
  BY AuthAssumption DEF Idle
<1>2. Idle \in ReqType
  BY AuthAssumption DEF Idle, ReqType, Handles, Outcomes, Causes
<1>3. \A x : x = Idle => Sound(x)' /\ Sound(x)
  BY <1>1 DEF Sound, Keep, Set
<1> QED
  BY <1>2, <1>3

\* The browser acts on a response.
LEMMA DeliverKeeps ==
  ASSUME AuthInv, NEW r \in Requests, Deliver(r)
  PROVE  AuthInv'
<1>1. /\ Typed /\ req[r].pc = "done"
      /\ UNCHANGED <<now, birth, rows, keys, idp, seals, logins>>
      /\ req' = [req EXCEPT ![r] = Idle]
  BY DEF AuthInv, Deliver
<1>2. Sound(req[r]) /\ req[r] \in ReqType /\ req[r].next \in Handles
      /\ req[r].handle.sess \in Begun
  BY <1>1, InHand
<1>3. /\ req' \in [Requests -> ReqType]
      /\ \A y \in Records' : y \in Records \/ y = Idle
  BY <1>1, IdleSound, OneRecord
<1>4. \/ cookie' = cookie \/ cookie' = NoHandle
      \/ req[r].act = Set /\ cookie' = req[r].next
  BY <1>2 DEF Deliver, ReqType
<1>5. cookie' \in Handles
  BY <1>1, <1>2, <1>4 DEF Typed, Handles
<1>6. Typed' /\ ProviderOK
  BY <1>1, <1>3, <1>5, ProviderQuiet DEF Typed, keys, idp
<1>7. RetireInv' /\ RowInv' /\ Evolves
  BY <1>1, <1>6, QuietStep DEF ProviderOK
<1>8. \A h : h = cookie' /\ h # NoHandle => h = cookie \/ Genuine(h)'
  BY <1>1, <1>2, <1>4, <1>6, <1>7, GenuineStays DEF Sound
<1>9. \A s \in loggedOut' : \/ s \in loggedOut
                            \/ s \in Begun /\ (Stored => Dead(s))
  <2>1. \/ loggedOut' = loggedOut
        \/ /\ req[r].outcome = "loggedout"
           /\ loggedOut' = loggedOut \cup {req[r].handle.sess}
    BY DEF Deliver
  <2> QED
    BY <1>1, <1>2, <2>1 DEF Sound
<1>10. \A y \in Records' : y \in Records \/ Sound(y)'
  BY <1>1, <1>3, IdleSound
<1> QED
  BY <1>6, <1>7, <1>8, <1>9, <1>10, InvStays

\* A response is lost.
LEMMA DisconnectKeeps ==
  ASSUME AuthInv, NEW r \in Requests, Disconnect(r)
  PROVE  AuthInv'
<1>1. /\ Typed /\ req' = [req EXCEPT ![r] = Idle]
      /\ UNCHANGED <<now, birth, rows, cookie, keys, idp, seals, logins,
                     loggedOut>>
  BY DEF AuthInv, Disconnect
<1>2. /\ req' \in [Requests -> ReqType]
      /\ \A y \in Records' : y \in Records \/ y = Idle
  BY <1>1, IdleSound, OneRecord
<1>3. Sounds
  BY <1>1, <1>2, IdleSound DEF Sounds
<1> QED
  BY <1>1, <1>3, ProviderQuiet, QuietHandler DEF Typed

\* A login creates a session, born now and sealed under a key in use, with a
\* token set that is new.
LEMMA LoginKeeps ==
  ASSUME AuthInv, NEW p \in Replicas, Login(p)
  PROVE  AuthInv'
<1> DEFINE n == logins + 1
           v == SealHandle(p, n, issued + 1, now)
           y == [exists |-> Stored, tok |-> issued + 1, key |-> SealingKey(p)]
<1>1. /\ Typed /\ RetireInv /\ RowInv
      /\ UNCHANGED <<now, req, keys, loggedOut>>
      /\ logins < MaxLogins /\ logins' = n
      /\ birth' = [birth EXCEPT ![n] = now] /\ rows' = [rows EXCEPT ![n] = y]
      /\ cookie' \in {v, cookie} /\ Sealed(TRUE)
  BY DEF AuthInv, Login
<1>2. /\ n \in Sessions /\ n \notin Begun /\ Begun' = Begun \cup {n}
      /\ Begun \subseteq Sessions /\ n # 0 /\ logins <= logins' /\ now <= now'
      /\ logins' \in 0 .. MaxLogins
  BY <1>1, AuthAssumption DEF Typed, Sessions, Begun
<1>3. ProviderOK /\ issued + 1 \in 0 .. MaxIssued /\ issued + 1 \in Known'
  <2>1. /\ issued \in Nat /\ MaxIssued \in Nat /\ issued <= MaxIssued
        /\ live \subseteq 1 .. issued /\ expiring \subseteq 1 .. issued
    BY <1>1, AuthAssumption DEF Typed
  <2>2. /\ issued < MaxIssued /\ issued' = issued + 1
        /\ live' = live \cup {issued + 1}
        /\ expiring' \subseteq expiring \cup {issued + 1}
    BY DEF Login, Issue
  <2>3. Known \subseteq Known' /\ issued + 1 \notin Known
    BY <2>1, <2>2 DEF Known
  <2>4. NeverRevived
    BY <2>2, <2>3 DEF NeverRevived
  <2> QED
    BY <2>1, <2>2, <2>4 DEF ProviderOK, Known
<1>4. sealing[p] \in {OldKey, NewKey} /\ seals' \in Nat /\ Stored \in BOOLEAN
  BY <1>1, SealedTyped, Numbers DEF Typed
<1>5. y \in RowType
  BY <1>3, <1>4 DEF RowType, SealingKey
<1>6. v \in Handles /\ v.sess = n /\ v.key = sealing[p]
      /\ (~Stored => v.born = now /\ v.tok = issued + 1)
  <2>1. seals + 1 \in Nat /\ now \in 0 .. MaxNow /\ 0 \in 0 .. MaxNow
        /\ 0 \in 0 .. MaxIssued
    BY <1>1, AuthAssumption DEF Typed
  <2> HIDE DEF n
  <2> QED
    BY <1>2, <1>3, <1>4, <2>1 DEF SealHandle, SealingKey, Handles
<1>7. y.exists = Stored /\ y.key = sealing[p] /\ y.tok = issued + 1
  BY DEF SealingKey
<1> HIDE DEF v, n, y
<1>8. /\ birth' \in [Sessions -> 0 .. MaxNow]
      /\ rows' \in [Sessions -> RowType] /\ cookie' \in Handles
  BY <1>1, <1>2, <1>5, <1>6 DEF Typed
<1>9. Typed'
  BY <1>1, <1>2, <1>3, <1>4, <1>8 DEF Typed, keys, ProviderOK
<1>10. /\ birth'[n] = now /\ rows'[n] = y
       /\ \A s \in Begun : birth'[s] = birth[s] /\ rows'[s] = rows[s]
  BY <1>1, <1>2 DEF Typed
<1>11. /\ \A k : \A s \in Begun : SealedInTime(k, s)' <=> SealedInTime(k, s)
       /\ \A k, s : k = sealing[p] => SealedInTime(k, s)'
  BY <1>1, <1>10 DEF SealedInTime, keys
<1>12. RetireInv'
  BY <1>1 DEF RetireInv, keys
<1>13. Evolves
  BY <1>1, <1>2, <1>3, <1>10, <1>11 DEF Evolves, keys, ProviderOK
<1>14. Stored' = Stored
  BY <1>1 DEF Stored, keys
<1>15. RowInv'
  <2>1. ASSUME NEW s \in Begun
        PROVE  /\ birth'[s] <= now' /\ rows'[s].key # 0
               /\ rows'[s].tok \in Known'
               /\ \A k : k = rows'[s].key => SealedInTime(k, s)'
    BY <1>1, <1>3, <1>10, <1>11, <2>1 DEF RowInv, ProviderOK, NeverRevived
  <2>2. ASSUME NEW s, s = n
        PROVE  /\ birth'[s] <= now' /\ rows'[s].key # 0
               /\ rows'[s].tok \in Known'
               /\ \A k : k = rows'[s].key => SealedInTime(k, s)'
    BY <1>1, <1>3, <1>4, <1>7, <1>10, <1>11, <2>2 DEF Typed, OldKey, NewKey
  <2>3. \A s \in Sessions \ Begun' : ~rows'[s].exists
    BY <1>1, <1>2 DEF RowInv, Typed
  <2> QED
    BY <1>2, <2>1, <2>2, <2>3 DEF RowInv
<1>16. \A h : h = v => Genuine(h)'
  BY <1>2, <1>3, <1>6, <1>10, <1>11, <1>14 DEF Genuine
<1>17. Records' = Records
  BY <1>1 DEF Records
<1> QED
  BY <1>1, <1>9, <1>12, <1>13, <1>15, <1>16, <1>17, InvStays

\* A step that leaves browser, requests, rows and sessions alone.
LEMMA OutsideStep ==
  ASSUME AuthInv, Typed', RetireInv', Evolves,
         UNCHANGED <<birth, rows, cookie, req, deployed, logins, loggedOut>>
  PROVE  AuthInv'
<1>1. /\ Typed /\ Typed' /\ RowInv /\ now <= now' /\ Begun' = Begun
      /\ Known \subseteq Known'
  BY DEF AuthInv, Evolves, NeverRevived, Begun
<1>2. RowInv'
  <2>1. SUFFICES ASSUME NEW s \in Begun
                 PROVE  /\ birth[s] <= now' /\ rows[s].key # 0
                        /\ rows[s].tok \in Known'
                        /\ \A k : k = rows[s].key => SealedInTime(k, s)'
    BY <1>1 DEF RowInv
  <2>2. now \in Nat /\ now' \in Nat /\ birth[s] \in Nat
    BY <1>1, Numbers DEF Typed
  <2> QED
    BY <1>1, <2>2 DEF RowInv, Evolves
<1>3. Records' = Records
  BY DEF Records
<1> QED
  BY <1>2, <1>3, InvStays

\* The browser drops an expired cookie.
LEMMA BrowserExpiresKeeps ==
  ASSUME AuthInv, BrowserExpires
  PROVE  AuthInv'
<1>1. Typed' /\ ProviderOK
  BY ProviderQuiet DEF AuthInv, BrowserExpires, Typed, keys, idp, Handles
<1>2. RetireInv' /\ RowInv' /\ Evolves
  BY <1>1, QuietStep DEF BrowserExpires, ProviderOK
<1>3. Records' = Records /\ cookie' = NoHandle /\ loggedOut' = loggedOut
  BY DEF BrowserExpires, Records
<1> QED
  BY <1>1, <1>2, <1>3, InvStays

\* Time passes.
LEMMA TickKeeps ==
  ASSUME AuthInv, Tick
  PROVE  AuthInv'
<1>1. Typed /\ RetireInv /\ now \in Nat /\ flipped \in Nat /\ MaxAge \in Nat
  BY AuthAssumption DEF AuthInv, Typed
<1>2. now' = now + 1 /\ now < MaxNow
      /\ UNCHANGED <<birth, rows, cookie, req, keys, idp, seals, logins,
                     loggedOut>>
  BY DEF Tick
<1>3. Typed' /\ NeverRevived
  BY <1>1, <1>2, AuthAssumption, ProviderQuiet
     DEF Typed, keys, idp, ProviderOK
<1>4. RetireInv'
  BY <1>1, <1>2 DEF RetireInv, keys
<1>5. \A k, s : SealedInTime(k, s)' <=> SealedInTime(k, s)
  BY <1>2 DEF SealedInTime, keys
<1>6. Evolves
  BY <1>1, <1>2, <1>3, <1>5, Numbers DEF Evolves, keys
<1> QED
  BY <1>2, <1>3, <1>4, <1>6, OutsideStep DEF keys

\* A token set enters its margin.
LEMMA TokenAgesKeeps ==
  ASSUME AuthInv, TokenAges
  PROVE  AuthInv'
<1>1. Typed
  BY DEF AuthInv
<1>2. Typed' /\ NeverRevived
  BY <1>1 DEF TokenAges, Typed, keys, NeverRevived, Known
<1>3. RetireInv' /\ Evolves
  BY <1>2, QuietStep DEF TokenAges
<1> QED
  BY <1>2, <1>3, OutsideStep DEF TokenAges, keys

\* The provider ends its session with the user.
LEMMA RevokeKeeps ==
  ASSUME AuthInv, Revoke
  PROVE  AuthInv'
<1>1. Typed
  BY DEF AuthInv
<1>2. Typed' /\ NeverRevived
  BY <1>1 DEF Revoke, Typed, keys, NeverRevived, Known
<1>3. RetireInv' /\ Evolves
  BY <1>2, QuietStep DEF Revoke
<1> QED
  BY <1>2, <1>3, OutsideStep DEF Revoke, keys

\* A replica moves to the new key: what the old one sealed was born by now.
LEMMA KeyTurnsKeeps ==
  ASSUME AuthInv, NEW p \in Replicas, KeyTurns(p)
  PROVE  AuthInv'
<1>1. Typed /\ RetireInv /\ RowInv /\ now \in Nat
  BY AuthAssumption DEF AuthInv, Typed
<1>2. /\ sealing[p] = OldKey /\ flipped' = now
      /\ sealing' = [sealing EXCEPT ![p] = NewKey]
      /\ UNCHANGED <<deployed, now, birth, rows, cookie, req, idp, retired,
                     seals, logins, loggedOut>>
  BY DEF KeyTurns
<1>3. Typed' /\ NeverRevived
  BY <1>1, <1>2, ProviderQuiet DEF Typed, idp, OldKey, NewKey, ProviderOK
<1>4. ~retired
  BY <1>1, <1>2 DEF RetireInv, OldKey, NewKey
<1>5. RetireInv'
  BY <1>1, <1>2, <1>4 DEF RetireInv
<1>6. \A k : \A s \in Begun : SealedInTime(k, s)'
  BY <1>1, <1>2 DEF SealedInTime, RowInv
<1>7. Evolves
  BY <1>1, <1>2, <1>3, <1>6, Numbers DEF Evolves
<1> QED
  BY <1>2, <1>3, <1>5, <1>7, OutsideStep

\* The old key is dropped, the maximum age after the last replica left it.
LEMMA RetireKeyKeeps ==
  ASSUME AuthInv, RetireKey
  PROVE  AuthInv'
<1>1. Typed /\ RetireInv /\ now \in Nat
  BY AuthAssumption DEF AuthInv, Typed
<1>2. Typed' /\ NeverRevived
  BY <1>1, ProviderQuiet DEF RetireKey, Typed, idp, ProviderOK
<1>3. RetireInv'
  BY <1>1 DEF RetireKey, RetireInv
<1>4. \A k, s : SealedInTime(k, s)' <=> SealedInTime(k, s)
  BY DEF RetireKey, SealedInTime
<1>5. Evolves
  BY <1>1, <1>2, <1>4, Numbers DEF RetireKey, Evolves
<1> QED
  BY <1>2, <1>3, <1>5, OutsideStep DEF RetireKey

-----------------------------------------------------------------------------
(* Every step keeps the invariant *)

\* The invariant holds at the start.
LEMMA InvInit ==
  ASSUME Init
  PROVE  AuthInv
<1>0. /\ MaxNow \in Nat /\ MaxIssued \in Nat /\ MaxLogins \in Nat
      /\ 0 \in 0 .. MaxNow /\ 0 \in 0 .. MaxIssued /\ 0 \in 0 .. MaxLogins
  BY AuthAssumption
<1>1. Idle \in ReqType /\ \A x : x = Idle => Sound(x)
  <2>1. /\ Idle.pc = "idle" /\ Idle.act = Keep /\ Idle.next = NoHandle
        /\ Idle.failed = "none" /\ Idle.fits = TRUE
    BY DEF Idle
  <2>2. Idle \in ReqType
    BY <1>0, AuthAssumption DEF Idle, ReqType, Handles, Outcomes, Causes
  <2> QED
    BY <2>1, <2>2 DEF Sound, Keep, Set
<1>2. Begun = {}
  BY DEF Init, Begun
<1>3. Typed
  BY <1>0, <1>1 DEF Init, Typed, RowType, Handles, OldKey, NewKey
<1>4. RetireInv /\ RowInv /\ CookieInv /\ LogoutInv
  BY <1>0, <1>2 DEF Init, RetireInv, RowInv, CookieInv, LogoutInv
<1>5. RequestInv
  BY <1>1 DEF Init, RequestInv, Records
<1> QED
  BY <1>3, <1>4, <1>5 DEF AuthInv

\* And is kept by every step.
LEMMA InvNext ==
  ASSUME AuthInv, [Next]_vars
  PROVE  AuthInv'
<1>1. ASSUME NEW r \in Requests,
             \/ \E p \in Replicas : Send(r, p)
             \/ Handle(r) \/ Deliver(r) \/ Disconnect(r)
      PROVE  AuthInv'
  BY <1>1, SendKeeps, ReadTokenCookieKeeps, ServeFreshKeeps,
     RefreshBeginsKeeps, RefreshReadsKeeps, RefreshCommitsKeeps,
     RefreshLostKeeps, RefreshFailsKeeps, JoinFlightKeeps, FlightEndsKeeps,
     FlightFailedKeeps, ServeRefreshedKeeps, LogoutKeeps, DeliverKeeps,
     DisconnectKeeps
     DEF Handle
<1>2. ASSUME NEW p \in Replicas, Login(p) \/ KeyTurns(p)
      PROVE  AuthInv'
  BY <1>2, LoginKeeps, KeyTurnsKeeps
<1>3. ASSUME BrowserExpires \/ Tick \/ TokenAges \/ Revoke \/ RetireKey
      PROVE  AuthInv'
  BY <1>3, BrowserExpiresKeeps, TickKeeps, TokenAgesKeeps, RevokeKeeps,
     RetireKeyKeeps
<1>4. ASSUME UNCHANGED vars
      PROVE  AuthInv'
  <2>1. UNCHANGED <<now, birth, rows, cookie, req, keys, idp, seals, logins,
                    loggedOut>>
    BY <1>4 DEF vars
  <2>2. /\ Sounds /\ ProviderOK /\ seals' \in Nat
    BY <2>1, ProviderQuiet DEF AuthInv, Typed, Sounds, Records
  <2> QED
    BY <2>1, <2>2, QuietHandler
<1> QED
  BY <1>1, <1>2, <1>3, <1>4 DEF Next

\* The inductive invariant holds throughout.
LEMMA InvAlways == Spec => []AuthInv
<1>1. Init => AuthInv
  BY InvInit
<1>2. AuthInv /\ [Next]_vars => AuthInv'
  BY InvNext
<1> QED
  BY <1>1, <1>2, PTL DEF Spec

-----------------------------------------------------------------------------
(* The theorems about states *)

\* Type correctness: in particular every value in a browser or in a response
\* is sealed under a key of the ring.
THEOREM AuthTypes == Spec => []AuthTypeOK
<1>1. ASSUME AuthInv PROVE AuthTypeOK
  <2>1. Typed /\ RowInv /\ RequestInv /\ LogoutInv
    BY <1>1 DEF AuthInv
  <2>2. ASSUME NEW r \in Requests
        PROVE  /\ req[r].handle \in Handles /\ req[r].next \in Handles
               /\ req[r].pc # "idle" => req[r].handle # NoHandle
               /\ req[r].act = Set => req[r].next # NoHandle
    <3>1. req[r] \in ReqType /\ Sound(req[r])
      BY <2>1 DEF Typed, RequestInv, Records
    <3> QED
      BY <3>1 DEF ReqType, Sound
  <2>3. ASSUME NEW s \in Sessions, rows[s].exists
        PROVE  rows[s].key \in {OldKey, NewKey}
    BY <2>1, <2>3 DEF RowInv, Typed, RowType
  <2>4. loggedOut \subseteq 1 .. logins
    BY <2>1 DEF LogoutInv, Begun
  <2> QED
    BY <2>1, <2>2, <2>3, <2>4 DEF AuthTypeOK, Typed
<1> QED
  BY <1>1, InvAlways, PTL

\* sessionGone, openKindRaw and the fences of refresh.go: a response that
\* tells the browser to drop its session cookie, and is neither a logout nor
\* one of the answers that claim nothing of the session, is about a session
\* that is over: expired, deleted, or without a refresh token that is still
\* honoured.  So it is over either store, whoever else refreshes the session,
\* whatever the store leaves unanswered and however the key rolls.
THEOREM ClearedOnlyWhenOver == Spec => []ClearOnlyWhenOver
<1>1. ASSUME AuthInv PROVE ClearOnlyWhenOver
  BY <1>1 DEF AuthInv, RequestInv, Records, Sound, ClearOnlyWhenOver
<1> QED
  BY <1>1, InvAlways, PTL

\* deleteSession: once a logout that reached the store reached the browser,
\* no cookie the browser may still be given resolves the session.
THEOREM LogoutIsFinal == Spec => []LogoutSticks
<1>1. ASSUME AuthInv PROVE LogoutSticks
  BY <1>1 DEF AuthInv, LogoutInv, LogoutSticks, Dead, Resolves
<1> QED
  BY <1>1, InvAlways, PTL

-----------------------------------------------------------------------------
(* The theorems about steps *)

\* What a step may make of a request: it is read only if its value resolves,
\* and served only with its value migrated.
Proper(r) ==
  \/ req'[r] = req[r]
  \/ req'[r].pc \notin {"read", "done"}
  \/ /\ req'[r].pc = "read"
     /\ Resolves(req[r].at, req[r].handle)
  \/ req'[r].pc = "done" /\ req'[r].outcome # "served"
  \/ /\ req'[r].pc = "done"
     /\ req[r].stale => /\ req'[r].act = Set
                        /\ req'[r].next.key = SealingKey(req[r].at)

\* What a response says.
LEMMA RespondFields ==
  ASSUME Typed, NEW r \in Requests, NEW outcome, NEW act, NEW h,
         Respond(r, outcome, act, h)
  PROVE  /\ req'[r].pc = "done" /\ req'[r].outcome = outcome
         /\ req'[r].act = act /\ req'[r].next = h
         /\ \A q \in Requests \ {r} : req'[q] = req[q]
<1>1. req \in [Requests -> ReqType]
  BY DEF Typed
<1> QED
  BY <1>1 DEF Respond, Answer, Idle

\* What an error response says.
LEMMA ErrorFields ==
  ASSUME Typed, NEW r \in Requests, NEW err, err # "served"
  PROVE  /\ ErrorAnswer(req[r], err).pc = "done"
         /\ ErrorAnswer(req[r], err).outcome # "served"
         /\ RespondError(r, err) => \A q \in Requests : Proper(q)
<1> DEFINE a == ErrorAnswer(req[r], err)
<1>1. a.pc = "done" /\ a.outcome # "served"
  BY DEF ErrorAnswer, Answer, Idle
<1>2. RespondError(r, err) => req' = [req EXCEPT ![r] = a]
  BY DEF RespondError
<1>3. req \in [Requests -> ReqType]
  BY DEF Typed
<1> HIDE DEF a
<1>4. RespondError(r, err) => \A q \in Requests : Proper(q)
  BY <1>1, <1>2, <1>3 DEF Proper
<1> QED
  BY <1>1, <1>4 DEF a

\* checkTokenExpiry: a stale value is served migrated or not at all.
LEMMA ServeProper ==
  ASSUME Typed, NEW r \in Requests, NEW v, Serve(r, v)
  PROVE  Proper(r) /\ \A q \in Requests \ {r} : req'[q] = req[q]
<1> DEFINE g == SealHandle(req[r].at, req[r].handle.sess, req[r].tok,
                           CarriedBirth(req[r].handle))
<1>1. g.key = SealingKey(req[r].at)
  BY DEF SealHandle
<1> HIDE DEF g
<1>2. CASE Respond(r, "served", Set, g)
  BY <1>1, <1>2, RespondFields DEF Proper
<1>3. CASE WriteHandle(r, IF req[r].stale THEN "unmigrated" ELSE "served", v)
  <2>1. /\ req'[r].pc = "done"
        /\ req'[r].outcome = IF req[r].stale THEN "unmigrated" ELSE "served"
        /\ \A q \in Requests \ {r} : req'[q] = req[q]
    BY <1>3, RespondFields DEF WriteHandle
  <2> QED
    BY <2>1 DEF Proper
<1> QED
  BY <1>2, <1>3 DEF Serve, g

\* A refreshed request is not answered yet.
LEMMA GoOnProper ==
  ASSUME Typed, NEW r \in Requests, NEW t, NEW v, GoOn(r, t, v)
  PROVE  \A q \in Requests : Proper(q)
<1>1. req \in [Requests -> ReqType] /\ req[r] \in ReqType
  BY DEF Typed
<1> QED
  BY <1>1 DEF GoOn, Proper, ReqType

\* A recorded failure answers the one that recorded it.
LEMMA RecordProper ==
  ASSUME Typed, NEW r \in Requests, NEW cause, NEW err, err # "served",
         Record(r, cause, err)
  PROVE  \A q \in Requests : Proper(q)
<1>1. TAKE q \in Requests
<1>2. req[q] \in ReqType
  BY DEF Typed
<1>3. CASE q = r
  <2>1. req'[r] = ErrorAnswer(req[r], err)
    BY <1>3 DEF Record
  <2> QED
    BY <1>3, <2>1, ErrorFields DEF Proper
<1>4. CASE q # r
  <2>1. \/ req'[q] = req[q]
        \/ /\ req[q].pc = "refreshing"
           /\ req'[q] = [req[q] EXCEPT !.failed = cause]
    BY <1>4 DEF Record
  <2> QED
    BY <1>2, <2>1 DEF Proper, ReqType
<1> QED
  BY <1>3, <1>4

\* Every handler is proper, and touches the requests of others only when
\* they share its flight or its row.
LEMMA HandleProper ==
  ASSUME AuthInv, NEW r \in Requests, Handle(r), NEW q \in Requests
  PROVE  Proper(q)
<1>0. Typed /\ req \in [Requests -> ReqType] /\ req[r] \in ReqType
  BY DEF AuthInv, Typed
<1>1. CASE ServeFresh(r) \/ (ServeRefreshed(r) /\ req[r].fits)
  <2>1. PICK v : Serve(r, v)
    BY <1>1 DEF ServeFresh, ServeRefreshed
  <2> QED
    BY <1>0, <2>1, ServeProper DEF Proper
<1>2. ASSUME NEW err, err # "served", RespondError(r, err) PROVE Proper(q)
  BY <1>0, <1>2, ErrorFields
<1>3. CASE Logout(r)
  <2>1. PICK outcome \in {"loggedout", "undeleted"} :
          Respond(r, outcome, Clear, NoHandle)
    BY <1>3 DEF Logout
  <2> QED
    BY <1>0, <2>1, RespondFields DEF Proper
<1>4. CASE ReadTokenCookie(r)
  <2>1. CASE \E err \in {"nosession", "unavailable"} : RespondError(r, err)
    BY <2>1, <1>2
  <2>2. CASE /\ Resolves(req[r].at, req[r].handle)
             /\ req' = [req EXCEPT ![r].pc = "read",
                          ![r].tok = TokenOf(req[r].handle),
                          ![r].stale = req[r].handle.key
                                         # SealingKey(req[r].at)]
    BY <2>2, <1>0 DEF Proper, ReqType
  <2> QED
    BY <1>4, <2>1, <2>2 DEF ReadTokenCookie
<1>5. ASSUME NEW t, NEW v, GoOn(r, t, v) PROVE Proper(q)
  BY <1>0, <1>5, GoOnProper
<1>6. req[r].failed # "served"
  BY <1>0 DEF ReqType, Causes
<1>7. CASE RefreshBegins(r)
  <2>1. CASE req' = [req EXCEPT ![r].pc = "refreshing",
                                ![r].tok = TokenOf(req[r].handle)]
    BY <2>1, <1>0 DEF Proper, ReqType
  <2> QED
    BY <1>2, <1>5, <1>7, <2>1 DEF RefreshBegins
<1>8. CASE RefreshReads(r)
  BY <1>2, <1>5, <1>6, <1>8 DEF RefreshReads
<1>9. CASE RefreshCommits(r)
  BY <1>2, <1>5, <1>9 DEF RefreshCommits
<1>10. CASE RefreshLost(r)
  <2>1. CASE UNCHANGED req
    BY <2>1 DEF Proper
  <2> QED
    BY <1>2, <1>10, <2>1 DEF RefreshLost
<1>11. CASE RefreshFails(r)
  <2>1. PICK cause \in {"refused", "unreachable"} :
          \/ \E err \in {cause, "unrecorded"} : Record(r, cause, err)
          \/ RespondError(r, "unrecorded")
    BY <1>11 DEF RefreshFails
  <2> QED
    BY <1>0, <1>2, <2>1, RecordProper
<1>12. CASE JoinFlight(r)
  BY <1>0, <1>12 DEF JoinFlight, Proper, ReqType
<1>13. CASE FlightEnds(r)
  <2>1. \/ \E fits, v : LandsNew(r, fits, v)
        \/ \E cause : LandsFailed(r, cause)
    BY <1>13, FlightLands
  <2>2. req[q] \in ReqType
    BY <1>0
  <2>3. CASE \E fits, v : LandsNew(r, fits, v)
    BY <2>2, <2>3 DEF Proper, LandsNew, ReqType
  <2>4. CASE \E cause : LandsFailed(r, cause)
    BY <2>2, <2>4 DEF Proper, LandsFailed, ReqType
  <2> QED
    BY <2>1, <2>3, <2>4
<1>14. CASE FlightFailed(r)
  BY <1>2, <1>6, <1>14 DEF FlightFailed
<1>15. CASE ServeRefreshed(r) /\ ~req[r].fits
  BY <1>2, <1>15 DEF ServeRefreshed
<1> QED
  BY <1>1, <1>3, <1>4, <1>7, <1>8, <1>9, <1>10, <1>11, <1>12, <1>13, <1>14,
     <1>15
     DEF Handle

\* Every step is proper.
LEMMA NextProper ==
  ASSUME AuthInv, Next, NEW q \in Requests
  PROVE  Proper(q)
<1>0. \A r \in Requests : req \in [Requests -> ReqType] /\ req[r] \in ReqType
  BY DEF AuthInv, Typed
<1>1. ASSUME NEW r \in Requests, NEW p \in Replicas, Send(r, p)
      PROVE  Proper(q)
  BY <1>0, <1>1 DEF Send, Proper, ReqType
<1>2. ASSUME NEW r \in Requests, Deliver(r) \/ Disconnect(r)
      PROVE  Proper(q)
  BY <1>0, <1>2 DEF Deliver, Disconnect, Idle, Proper
<1>3. ASSUME req' = req
      PROVE  Proper(q)
  BY <1>3 DEF Proper
<1>4. CASE \/ \E p \in Replicas : Login(p) \/ KeyTurns(p)
           \/ BrowserExpires \/ Tick \/ TokenAges \/ Revoke \/ RetireKey
  BY <1>3, <1>4
     DEF Login, KeyTurns, BrowserExpires, Tick, TokenAges, Revoke, RetireKey
<1> QED
  BY <1>1, <1>2, <1>4, HandleProper DEF Next

\* CookieTokenStore.seal and Store.Get: however often a session is refreshed
\* or re-sealed, no request resolves it past the maximum age counted from
\* its login, because every value carries that birth.
THEOREM ExpiryIsAbsolute == Spec => AbsoluteExpiry
<1>1. ASSUME AuthInv, Next, NEW r \in Requests, req[r].pc = "sent",
             req'[r].pc = "read"
      PROVE  ~Expired(birth[req[r].handle.sess])
  <2>1. Typed /\ Genuine(req[r].handle)
    BY <1>1, InHand DEF AuthInv
  <2>2. Resolves(req[r].at, req[r].handle)
    BY <1>1, <2>1, NextProper DEF Proper
  <2> QED
    BY <2>1, <2>2 DEF Resolves, Genuine
<1>2. AuthInv /\ [Next]_vars =>
        [\A r \in Requests :
           req[r].pc = "sent" /\ req'[r].pc = "read"
             => ~Expired(birth[req[r].handle.sess])]_vars
  BY <1>1
<1> QED
  BY <1>2, InvAlways, PTL DEF Spec, AbsoluteExpiry

\* checkTokenExpiry: a request that came under another key than its replica
\* seals with is answered with a value under that key, on the refresh path
\* too, unless sealing itself failed.
THEOREM StaleCookieIsMigrated == Spec => StaleIsMigrated
<1>1. ASSUME AuthInv, Next, NEW r \in Requests, req[r].stale,
             req[r].pc # "done", req'[r].pc = "done",
             req'[r].outcome = "served"
      PROVE  /\ req'[r].act = Set
             /\ req'[r].next.key = SealingKey(req[r].at)
  BY <1>1, NextProper DEF Proper, AuthInv
<1>2. AuthInv /\ [Next]_vars =>
        [\A r \in Requests :
           req[r].stale /\ req[r].pc # "done" /\ req'[r].pc = "done"
                        /\ req'[r].outcome = "served"
             => /\ req'[r].act = Set
                /\ req'[r].next.key = SealingKey(req[r].at)]_vars
  BY <1>1
<1> QED
  BY <1>2, InvAlways, PTL DEF Spec, StaleIsMigrated

=============================================================================
