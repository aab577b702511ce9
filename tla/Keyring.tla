------------------------------ MODULE Keyring ------------------------------
(***************************************************************************)
(* The cookie keyring and the sealed envelope, as operators: startup       *)
(* validation and the choice of the sealing key (cookie_keyring.go), the   *)
(* domains, sealing and opening (cookie_crypto.go, session_sealer.go).     *)
(*                                                                         *)
(* A key is its id and the instant it may seal after; a keyring is a set   *)
(* of keys.  An environment is a set of entries, which are keys or, with   *)
(* id 0, a value that does not parse.  The AEAD is perfect: it opens a     *)
(* value with exactly the additional data the value was sealed with.       *)
(***************************************************************************)
EXTENDS Integers, Sequences

NoKey == [kid |-> 0, useAfter |-> 0]

-----------------------------------------------------------------------------
(* cookie_keyring.go *)

\* Mutant of NewCookieKeyring: ties are looked for among the eligible keys.
NewCookieKeyringEligibleTies(entries, t) ==
  /\ \E e \in entries : e.useAfter <= t
  /\ \A e \in entries : e.kid # 0
  /\ \A e, f \in entries :
       e # f => /\ e.kid # f.kid
                /\ e.useAfter <= t => e.useAfter # f.useAfter

\* Mutant of NewCookieKeyring: nobody asks whether a key is eligible yet.
NewCookieKeyringAnyDate(entries, t) ==
  /\ entries # {}
  /\ \A e \in entries : e.kid # 0
  /\ \A e, f \in entries :
       e # f => e.kid # f.kid /\ e.useAfter # f.useAfter

\* CookieKeyringFromEnv and newCookieKeyring: whether a process started at
\* its instant t accepts the environment.  Every entry parses, no two hold
\* the same secret or start sealing at the same instant, and one is eligible
\* now.
NewCookieKeyring(entries, t) ==
  /\ \A e \in entries : e.kid # 0
  /\ \A e, f \in entries :
       e # f => e.kid # f.kid /\ e.useAfter # f.useAfter
  /\ \E e \in entries : e.useAfter <= t

\* The eligible keys that no later eligible key supersedes.
Latest(ring, t) ==
  {k \in ring : /\ k.useAfter <= t
                /\ \A o \in ring : o.useAfter <= t =>
                                     o.useAfter <= k.useAfter}

\* sealingKey: chosen per call, and nil when no key is eligible.
SealingKey(ring, t) ==
  IF Latest(ring, t) = {} THEN NoKey ELSE CHOOSE k \in Latest(ring, t) : TRUE

-----------------------------------------------------------------------------
(* Domains: names and purposes are sequences of tokens *)

Session      == <<"cookie", ":">>
AuthRedirect == <<"cookie", ":", "auth_redir", ":">>
Store        == <<"store", ":">>

\* Mutant of ValidCookieName: separators are let through.
AnyCookieName(name) == name # <<>>

\* validCookieName: not empty and no separator.
ValidCookieName(name) ==
  name # <<>> /\ \A i \in DOMAIN name : name[i] # ":"

\* cookieDomain, for a name it accepts.
CookieDomain(purpose, name) == purpose \o name

\* payloadDomain: the store's domain and the row.
PayloadDomain(name, row) == CookieDomain(Store, name) \o <<":", row>>

-----------------------------------------------------------------------------
(* The envelope *)

Payload == "payload"
Handle  == "handle"

\* cookieEnvelopeAAD
EnvelopeAAD(kind, kid, domain) == <<kind, kid, domain>>

\* sealKindRaw, by a process that has a key to seal with.
SealKind(ring, t, kind, domain) ==
  LET kid == SealingKey(ring, t).kid
  IN  [version |-> 1, kind |-> kind, kid |-> kid,
       aad |-> EnvelopeAAD(kind, kid, domain)]


\* Mutant of OpenKind: a key opens only once it may seal.
OpenKindEligible(ring, t, kind, domain, v) ==
  IF SealingKey(ring, t) = NoKey THEN "no_keyring"
  ELSE IF v.version = 0 THEN "not_sealed"
  ELSE IF v.version # 1 THEN "unknown_version"
  ELSE IF v.kind # kind THEN "wrong_kind"
  ELSE IF \A k \in ring : k.useAfter <= t => k.kid # v.kid THEN "unknown_key"
  ELSE IF v.aad # EnvelopeAAD(kind, v.kid, domain) THEN "authentication"
  ELSE "ok"

\* Mutant of OpenKind: the kind is left to the authentication.
OpenKindUnchecked(ring, t, kind, domain, v) ==
  IF SealingKey(ring, t) = NoKey THEN "no_keyring"
  ELSE IF v.version = 0 THEN "not_sealed"
  ELSE IF v.version # 1 THEN "unknown_version"
  ELSE IF \A k \in ring : k.kid # v.kid THEN "unknown_key"
  ELSE IF v.aad # EnvelopeAAD(kind, v.kid, domain) THEN "authentication"
  ELSE "ok"

\* openKindRaw, whose checks come in this order.  Every configured key
\* opens, whether or not it may seal yet.
OpenKind(ring, t, kind, domain, v) ==
  IF SealingKey(ring, t) = NoKey THEN "no_keyring"
  ELSE IF v.version = 0 THEN "not_sealed"
  ELSE IF v.version # 1 THEN "unknown_version"
  ELSE IF v.kind # kind THEN "wrong_kind"
  ELSE IF \A k \in ring : k.kid # v.kid THEN "unknown_key"
  ELSE IF v.aad # EnvelopeAAD(kind, v.kid, domain) THEN "authentication"
  ELSE "ok"

=============================================================================
