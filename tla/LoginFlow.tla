------------------------------ MODULE LoginFlow ------------------------------
(***************************************************************************)
(* The login handlers of OIDCAuth (authRedirect and authCallback in        *)
(* application_auth.go) in one browser with several tabs.  An attempt      *)
(* keeps its state, its nonce and its landing target in three cookies the  *)
(* tabs share, so attempts overlap, callbacks arrive late or twice, and a  *)
(* callback URL may carry any state with any code the provider issued, to  *)
(* this browser or to another.                                             *)
(***************************************************************************)
EXTENDS Naturals, FiniteSets

CONSTANTS
  Attempts,   \* login attempts this browser may start
  Foreign,    \* attempts of another browser, whose codes exist
  Visits,     \* callback requests that may be in flight at once
  MaxVisits   \* bound: callback requests sent

ASSUME LoginAssumption ==
  /\ Attempts \cap Foreign = {} /\ "none" \notin Attempts \cup Foreign
  /\ MaxVisits \in Nat

VARIABLES
  jar,        \* the browser's callback cookies
  tab,        \* per attempt: where it is, and the target it asked for
  visit,      \* per callback request: its URL, its cookies, its response
  codes,      \* authorization codes the provider has issued
  redeemed,   \* ... and the ones it has exchanged
  session,    \* the attempt whose session the browser holds, and where it
              \* landed
  sent,
  crossed     \* history: attempts another request of the browser crossed

vars == <<jar, tab, visit, codes, redeemed, session, sent, crossed>>

-----------------------------------------------------------------------------
(* Cookies and targets *)

None == "none"
Targets == {"root", "path", "offsite"}   \* "root": no target was asked for

\* One landing target: what it is and whose attempt it belongs to.
Target(a, kind) == [of |-> a, kind |-> kind]
NoTarget == Target(None, "root")

NoJar == [state |-> None, nonce |-> None, redir |-> NoTarget]

\* Mutant of StartJar: a target left by an earlier attempt stays.
StartJarKeepsTarget(a, kind) ==
  [state |-> a, nonce |-> a,
   redir |-> IF kind = "root" THEN jar.redir ELSE Target(a, kind)]

\* Mutant of StartJar: a nonce that is there already is kept.
StartJarKeepsNonce(a, kind) ==
  [state |-> a, nonce |-> IF jar.nonce = None THEN a ELSE jar.nonce,
   redir |-> IF kind = "root" THEN NoTarget ELSE Target(a, kind)]

\* authRedirect: state and nonce are set, and the target is set or cleared.
StartJar(a, kind) ==
  [state |-> a, nonce |-> a,
   redir |-> IF kind = "root" THEN NoTarget ELSE Target(a, kind)]

\* resolveRedirect and safeRedirectPath: a path within the application, or
\* the application's root.
ResolveRedirect(t) == IF t.kind = "path" THEN t ELSE NoTarget

\* A callback request that is not under way.
Idle == [pc |-> "idle", state |-> None, code |-> None, jar |-> NoJar,
         out |-> "none", land |-> NoTarget]

-----------------------------------------------------------------------------
(* Actions *)

\* A tab follows /auth/redirect: the response sets the cookies and sends the
\* browser to the provider.
AuthRedirect(a, kind) ==
  /\ tab[a].pc = "new"
  /\ jar' = StartJar(a, kind)
  /\ tab' = [tab EXCEPT ![a] = [pc |-> "provider", kind |-> kind]]
  /\ crossed' = crossed \cup {b \in Attempts : tab[b].pc # "new"}
  /\ UNCHANGED <<visit, codes, redeemed, session, sent>>

\* The target cannot be sealed: state and nonce are set by then, and the
\* visitor gets an error page instead of the redirect.
AuthRedirectFails(a) ==
  /\ tab[a].pc = "new"
  /\ jar' = [jar EXCEPT !.state = a, !.nonce = a]
  /\ tab' = [tab EXCEPT ![a].pc = "stuck"]
  /\ crossed' = crossed \cup {b \in Attempts : tab[b].pc # "new"}
  /\ UNCHANGED <<visit, codes, redeemed, session, sent>>

\* The provider authorises the attempt and sends the tab to the callback.
Authorise(a) ==
  /\ tab[a].pc = "provider"
  /\ tab' = [tab EXCEPT ![a].pc = "back"]
  /\ codes' = codes \cup {a}
  /\ UNCHANGED <<jar, visit, redeemed, session, sent, crossed>>

\* The provider denies it: the callback answers with an error page before it
\* looks at a cookie.
Deny(a) ==
  /\ tab[a].pc = "provider"
  /\ tab' = [tab EXCEPT ![a].pc = "ended"]
  /\ UNCHANGED <<jar, visit, codes, redeemed, session, sent, crossed>>

\* The browser requests a callback URL, with its cookies as they are now.
Visit(v, st, code) ==
  /\ visit[v].pc = "idle" /\ sent < MaxVisits
  /\ code \in codes
  /\ st \in Attempts => tab[st].pc \in {"back", "ended"}
  /\ sent' = sent + 1
  /\ visit' = [visit EXCEPT ![v] =
                 [pc |-> "sent", state |-> st, code |-> code, jar |-> jar,
                  out |-> "none", land |-> NoTarget]]
  /\ UNCHANGED <<jar, tab, codes, redeemed, session, crossed>>

Answer(v, out, land) ==
  visit' = [visit EXCEPT ![v].pc = "done", ![v].out = out, ![v].land = land]

\* Mutant of Accepts: the ID token's nonce is not compared.
AcceptsAnyNonce(v) == visit[v].state = visit[v].jar.state

\* The state parameter equals the cookie, and the ID token's nonce equals
\* its cookie.
Accepts(v) ==
  /\ visit[v].state = visit[v].jar.state
  /\ visit[v].code = visit[v].jar.nonce

\* The state or the nonce cookie is missing: the login fails and nothing is
\* cleared.
CallbackNoCookies(v) ==
  /\ visit[v].pc = "sent"
  /\ visit[v].jar.state = None \/ visit[v].jar.nonce = None
  /\ Answer(v, "nocookie", NoTarget)
  /\ UNCHANGED <<jar, tab, codes, redeemed, session, sent, crossed>>

\* The state does not match, or it does and the nonce in the ID token the
\* code was exchanged for does not: the login fails, the cookies cleared.
CallbackRefused(v) ==
  /\ visit[v].pc = "sent"
  /\ visit[v].jar.state # None /\ visit[v].jar.nonce # None
  /\ ~Accepts(v)
  /\ Answer(v, "mismatch", NoTarget)
  /\ \/ UNCHANGED redeemed
     \/ /\ visit[v].state = visit[v].jar.state
        /\ redeemed' = redeemed \cup {visit[v].code}
  /\ UNCHANGED <<jar, tab, codes, session, sent, crossed>>

\* The code does not exchange (it may have been redeemed before), the ID
\* token does not verify, the application's callback refuses the login, the
\* store cannot create the session, or its cookie does not fit: the login
\* fails.
CallbackFails(v) ==
  /\ visit[v].pc = "sent"
  /\ visit[v].jar.state # None /\ visit[v].jar.nonce # None
  /\ Accepts(v)
  /\ Answer(v, "failed", NoTarget)
  /\ redeemed' \in {redeemed, redeemed \cup {visit[v].code}}
  /\ UNCHANGED <<jar, tab, codes, session, sent, crossed>>

\* The code is exchanged and the session created; the response sets its
\* cookie, clears the callback cookies and lands on the target, or on the
\* root when the target's cookie no longer opens.
CallbackOK(v) ==
  /\ visit[v].pc = "sent"
  /\ visit[v].jar.state # None /\ visit[v].jar.nonce # None
  /\ Accepts(v)
  /\ visit[v].code \notin redeemed
  /\ redeemed' = redeemed \cup {visit[v].code}
  /\ \E t \in {visit[v].jar.redir, NoTarget} :
       Answer(v, "session", ResolveRedirect(t))
  /\ UNCHANGED <<jar, tab, codes, session, sent, crossed>>

\* The response reaches the browser and ends the attempt it belongs to.
Deliver(v) ==
  /\ visit[v].pc = "done"
  /\ jar' = IF visit[v].out = "nocookie" THEN jar ELSE NoJar
  /\ session' = IF visit[v].out = "session"
                  THEN [of |-> visit[v].code, land |-> visit[v].land]
                  ELSE session
  /\ tab' = [a \in Attempts |->
               IF a = visit[v].state THEN [tab[a] EXCEPT !.pc = "ended"]
                                     ELSE tab[a]]
  /\ visit' = [visit EXCEPT ![v] = Idle]
  /\ crossed' = crossed \cup {b \in Attempts : tab[b].pc # "new"}
  /\ UNCHANGED <<codes, redeemed, sent>>

\* The callback cookies outlive their hour.
Lapse ==
  /\ jar # NoJar
  /\ jar' = NoJar
  /\ crossed' = crossed \cup {jar.state}
  /\ UNCHANGED <<tab, visit, codes, redeemed, session, sent>>

-----------------------------------------------------------------------------
(* Specification *)

Init ==
  /\ jar = NoJar
  /\ tab = [a \in Attempts |-> [pc |-> "new", kind |-> "root"]]
  /\ visit = [v \in Visits |-> Idle]
  /\ codes = Foreign /\ redeemed = {}
  /\ session = [of |-> None, land |-> NoTarget]
  /\ sent = 0 /\ crossed = {}

Next ==
  \/ \E a \in Attempts : \/ \E k \in Targets : AuthRedirect(a, k)
                         \/ AuthRedirectFails(a) \/ Authorise(a) \/ Deny(a)
  \/ \E v \in Visits : \/ \E st, code \in Attempts \cup Foreign :
                             Visit(v, st, code)
                       \/ CallbackNoCookies(v) \/ CallbackRefused(v)
                       \/ CallbackFails(v) \/ CallbackOK(v) \/ Deliver(v)
  \/ Lapse

Spec == Init /\ [][Next]_vars

-----------------------------------------------------------------------------
(* Properties *)

\* authCallback: the browser only ever holds a session of a login it started
\* itself, whatever callback URLs it is sent to and however its attempts
\* overlap.
OwnLogin == session.of \in Attempts \cup {None}

\* authRedirect clears and authCallback resolves the target: a login lands
\* on the path its own attempt asked for, or on the application's root;
\* never on an earlier attempt's target and never off the site.
LandsOnOwnTarget ==
  session.land = NoTarget
    \/ /\ session.land.of = session.of
       /\ tab[session.of].kind = "path"

\* authRedirect and authCallback agree on the cookies: a login that no other
\* request of the browser crossed, and that the provider and the store let
\* through, is never refused over its state or its nonce.
UncrossedIsAccepted ==
  \A v \in Visits :
    /\ visit[v].pc = "done" /\ visit[v].out \in {"nocookie", "mismatch"}
    /\ visit[v].state = visit[v].code
    => visit[v].state \in crossed \cup Foreign

=============================================================================
