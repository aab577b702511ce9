-------------------------- MODULE LoginFlowProofs --------------------------
(***************************************************************************)
(* Proofs about LoginFlow, for any number of attempts, foreign attempts    *)
(* and callback requests: the session a browser ends up with is one of its *)
(* own logins, it lands where that login asked to, and a login nothing     *)
(* crossed is not refused over its cookies.                                *)
(***************************************************************************)
EXTENDS LoginFlow, TLAPS

Known == Attempts \cup {None}
TargetType == [of: Known, kind: Targets]
JarType == [state: Known, nonce: Known, redir: TargetType]
VisitType ==
  [pc: {"idle", "sent", "done"},
   state: Attempts \cup Foreign \cup {None},
   code: Attempts \cup Foreign \cup {None},
   jar: JarType,
   out: {"none", "nocookie", "mismatch", "failed", "session"},
   land: TargetType]

\* The types of the state the three properties are about.
LoginTypeOK ==
  /\ jar \in JarType
  /\ tab \in [Attempts -> [pc: {"new", "provider", "back", "ended", "stuck"},
                           kind: Targets]]
  /\ visit \in [Visits -> VisitType]
  /\ codes \subseteq Attempts \cup Foreign
  /\ session \in [of: Attempts \cup Foreign \cup {None}, land: TargetType]

\* A code of this browser exists only for an attempt that came back from the
\* provider, and a callback names such an attempt or none of this browser's.
CodeInv ==
  /\ \A a \in Attempts \cap codes : tab[a].pc \in {"back", "ended"}
  /\ \A v \in Visits :
       visit[v].pc # "idle" =>
         /\ visit[v].code \in codes
         /\ visit[v].state \in Attempts =>
              tab[visit[v].state].pc \in {"back", "ended"}

\* A target cookie belongs to an attempt that was started with it, and that
\* attempt is the one the nonce belongs to, unless the nonce's attempt got
\* stuck before it reached the provider.
JarInv(j, t) ==
  j.redir # NoTarget =>
    /\ j.redir.of \in Attempts
    /\ t[j.redir.of].pc # "new"
    /\ t[j.redir.of].kind = j.redir.kind
    /\ j.redir.of # j.nonce => j.nonce \in Attempts /\ t[j.nonce].pc = "stuck"

\* A landing page of login a is the path a asked for, or the root.
LandInv(a, land, t) ==
  land # NoTarget =>
    /\ a \in Attempts /\ land.of = a
    /\ t[a].pc # "new" /\ t[a].kind = "path"

\* The jar, the copies of it that callbacks carry, and what came of them.
TargetInv ==
  /\ JarInv(jar, tab)
  /\ \A v \in Visits :
       /\ JarInv(visit[v].jar, tab)
       /\ visit[v].pc = "done" /\ visit[v].out = "session" =>
            visit[v].code \in Attempts /\ LandInv(visit[v].code,
                                                  visit[v].land, tab)
  /\ session.of \in Known
  /\ LandInv(session.of, session.land, tab)

\* The cookies still belong to an attempt nothing crossed.
CrossInv ==
  /\ \A a \in Attempts :
       tab[a].pc # "new" /\ a \notin crossed =>
         jar.state = a /\ jar.nonce = a
  /\ \A v \in Visits :
       visit[v].pc = "sent" /\ visit[v].state \in Attempts \ crossed =>
         visit[v].jar.state = visit[v].state
           /\ visit[v].jar.nonce = visit[v].state

LoginInv ==
  LoginTypeOK /\ CodeInv /\ TargetInv /\ CrossInv /\ UncrossedIsAccepted

-----------------------------------------------------------------------------

\* How an attempt may move: once it is started it keeps its target, and a
\* stuck one stays stuck.
TabStep ==
  \A a \in Attempts :
    tab[a].pc # "new" =>
      /\ tab'[a].pc # "new" /\ tab'[a].kind = tab[a].kind
      /\ tab[a].pc = "stuck" => tab'[a].pc = "stuck"

\* What a jar and a landing page say stays true as attempts move on.
LEMMA TabStable ==
  ASSUME TabStep
  PROVE  /\ \A j : JarInv(j, tab) => JarInv(j, tab')
         /\ \A a, l : LandInv(a, l, tab) => LandInv(a, l, tab')
  BY DEF TabStep, JarInv, LandInv

\* The initial state: no cookies, no callbacks, only foreign codes.
LEMMA InitInv == Init => LoginInv
  BY LoginAssumption
  DEF Init, LoginInv, LoginTypeOK, CodeInv, TargetInv, CrossInv, JarInv,
      LandInv, UncrossedIsAccepted, Idle, NoJar, NoTarget, Target, None,
      JarType, VisitType, TargetType, Known, Targets

\* Every action moves attempts forward only (TabStep).
LEMMA NextTabStep == LoginInv /\ [Next]_vars => TabStep
<1> SUFFICES ASSUME LoginInv, [Next]_vars PROVE TabStep
  OBVIOUS
<1> USE DEF LoginInv, LoginTypeOK, TabStep
<1>1. ASSUME NEW a \in Attempts, NEW k \in Targets, AuthRedirect(a, k)
      PROVE  TabStep
  BY <1>1 DEF AuthRedirect
<1>2. ASSUME NEW a \in Attempts, AuthRedirectFails(a) PROVE TabStep
  BY <1>2 DEF AuthRedirectFails
<1>3. ASSUME NEW a \in Attempts, Authorise(a) PROVE TabStep
  BY <1>3 DEF Authorise
<1>4. ASSUME NEW a \in Attempts, Deny(a) PROVE TabStep
  BY <1>4 DEF Deny
<1>5. ASSUME NEW v \in Visits, Deliver(v) PROVE TabStep
  BY <1>5 DEF Deliver, CodeInv
<1>6. ASSUME UNCHANGED tab PROVE TabStep
  BY <1>6
<1> QED
  BY <1>1, <1>2, <1>3, <1>4, <1>5, <1>6
  DEF Next, vars, Visit, CallbackNoCookies, CallbackRefused, CallbackFails,
      CallbackOK, Lapse

\* What answering a callback leaves in its record.
LEMMA AnswerStep ==
  ASSUME LoginTypeOK, NEW v \in Visits, NEW land \in TargetType,
         NEW out \in {"nocookie", "mismatch", "failed", "session"},
         Answer(v, out, land)
  PROVE  /\ visit' \in [Visits -> VisitType]
         /\ \A w \in Visits \ {v} : visit'[w] = visit[w]
         /\ visit'[v].pc = "done" /\ visit'[v].out = out
         /\ visit'[v].land = land /\ visit'[v].jar = visit[v].jar
         /\ visit'[v].state = visit[v].state
         /\ visit'[v].code = visit[v].code
<1>1. visit[v] \in VisitType /\ visit \in [Visits -> VisitType]
  BY DEF LoginTypeOK
<1>2. visit' = [visit EXCEPT ![v] =
        [visit[v] EXCEPT !.pc = "done", !.out = out, !.land = land]]
  BY DEF Answer
<1>3. [visit[v] EXCEPT !.pc = "done", !.out = out, !.land = land] \in VisitType
  BY <1>1 DEF VisitType
<1> QED
  BY <1>1, <1>2, <1>3 DEF VisitType

-----------------------------------------------------------------------------
(* One lemma per action: it preserves LoginInv. *)

\* authRedirect.
LEMMA AuthRedirectInv ==
  ASSUME LoginInv, TabStep, NEW a \in Attempts, NEW k \in Targets,
         AuthRedirect(a, k)
  PROVE  LoginInv'
<1> USE LoginAssumption
    DEF LoginInv, LoginTypeOK, AuthRedirect, StartJar, None
<1>1. LoginTypeOK'
  BY DEF JarType, TargetType, Known, Target, NoTarget, Targets
<1>2. CodeInv'
  BY DEF CodeInv
<1>3. TargetInv'
  <2>1. JarInv(jar, tab)'
    BY DEF JarInv, Target, NoTarget
  <2> QED
    BY <2>1, TabStable DEF TargetInv
<1>4. CrossInv'
  BY DEF CrossInv, CodeInv
<1>5. UncrossedIsAccepted'
  BY DEF UncrossedIsAccepted
<1> QED
  BY <1>1, <1>2, <1>3, <1>4, <1>5

\* authRedirect when the target cannot be sealed.
LEMMA AuthRedirectFailsInv ==
  ASSUME LoginInv, TabStep, NEW a \in Attempts, AuthRedirectFails(a)
  PROVE  LoginInv'
<1> USE LoginAssumption DEF LoginInv, LoginTypeOK, AuthRedirectFails, None
<1>1. LoginTypeOK'
  BY DEF JarType, Known
<1>2. CodeInv'
  BY DEF CodeInv
<1>3. TargetInv'
  <2>1. JarInv(jar, tab)'
    BY DEF TargetInv, JarInv, JarType
  <2> QED
    BY <2>1, TabStable DEF TargetInv
<1>4. CrossInv'
  BY DEF CrossInv, CodeInv, JarType
<1>5. UncrossedIsAccepted'
  BY DEF UncrossedIsAccepted
<1> QED
  BY <1>1, <1>2, <1>3, <1>4, <1>5

\* The provider's answer, either way.
LEMMA ProviderInv ==
  ASSUME LoginInv, TabStep, NEW a \in Attempts, Authorise(a) \/ Deny(a)
  PROVE  LoginInv'
<1> USE LoginAssumption DEF LoginInv, LoginTypeOK, Authorise, Deny, None
<1>1. LoginTypeOK'
  OBVIOUS
<1>2. CodeInv'
  BY DEF CodeInv
<1>3. TargetInv'
  BY TabStable DEF TargetInv
<1>4. CrossInv'
  BY DEF CrossInv
<1>5. UncrossedIsAccepted'
  BY DEF UncrossedIsAccepted
<1> QED
  BY <1>1, <1>2, <1>3, <1>4, <1>5

\* The browser requests a callback URL.
LEMMA VisitInv ==
  ASSUME LoginInv, NEW v \in Visits,
         NEW st \in Attempts \cup Foreign, NEW code \in Attempts \cup Foreign,
         Visit(v, st, code)
  PROVE  LoginInv'
<1> USE LoginAssumption DEF LoginInv, LoginTypeOK, Visit, None
<1>1. LoginTypeOK'
  BY DEF VisitType, TargetType, Known, NoTarget, Target, Targets
<1>2. CodeInv'
  BY DEF CodeInv
<1>3. TargetInv'
  BY DEF TargetInv
<1>4. CrossInv'
  BY DEF CrossInv
<1>5. UncrossedIsAccepted'
  BY DEF UncrossedIsAccepted
<1> QED
  BY <1>1, <1>2, <1>3, <1>4, <1>5

\* A callback answered without a session: over missing cookies, over a
\* mismatch, or for any later reason.
LEMMA CallbackEndsInv ==
  ASSUME LoginInv, NEW v \in Visits,
         CallbackNoCookies(v) \/ CallbackRefused(v) \/ CallbackFails(v)
  PROVE  LoginInv'
<1> DEFINE outs == {"nocookie", "mismatch", "failed"}
<1> DEFINE Refusal == \/ visit[v].jar.state = None \/ visit[v].jar.nonce = None
                      \/ ~Accepts(v)
<1>0. PICK out \in outs : Answer(v, out, NoTarget) /\ (out # "failed" => Refusal)
  <2>1. CASE CallbackNoCookies(v)
    <3>1. Answer(v, "nocookie", NoTarget) /\ Refusal
      BY <2>1 DEF CallbackNoCookies
    <3> QED
      BY <3>1, Zenon
  <2>2. CASE CallbackRefused(v)
    <3>1. Answer(v, "mismatch", NoTarget) /\ Refusal
      BY <2>2 DEF CallbackRefused
    <3> QED
      BY <3>1, Zenon
  <2>3. CASE CallbackFails(v)
    <3>1. Answer(v, "failed", NoTarget)
      BY <2>3 DEF CallbackFails
    <3> QED
      BY <3>1, Zenon
  <2> QED
    BY <2>1, <2>2, <2>3
<1>1. Answer(v, out, NoTarget)
  BY <1>0
<1>2. /\ visit[v].pc = "sent"
      /\ UNCHANGED <<jar, tab, codes, session, crossed>>
  BY DEF CallbackNoCookies, CallbackRefused, CallbackFails
<1>3. out # "failed" => Refusal
  BY <1>0
<1> USE LoginAssumption DEF LoginInv, LoginTypeOK, Answer, None
<1>4. LoginTypeOK'
  <2>1. NoTarget \in TargetType
    BY DEF TargetType, Known, NoTarget, Target, Targets
  <2>2. visit' \in [Visits -> VisitType]
    BY <1>1, <2>1, AnswerStep
  <2> QED
    BY <1>2, <2>2
<1>5. CodeInv'
  BY <1>1, <1>2 DEF CodeInv
<1>6. TargetInv'
  BY <1>1, <1>2 DEF TargetInv
<1>7. CrossInv'
  BY <1>1, <1>2 DEF CrossInv
<1>8. UncrossedIsAccepted'
  BY <1>1, <1>2, <1>3 DEF UncrossedIsAccepted, CrossInv, CodeInv, Accepts
<1> QED
  BY <1>4, <1>5, <1>6, <1>7, <1>8

\* A callback that creates the session.  The nonce in the accepted ID token
\* is the one in the cookie, so the code is of an attempt of this browser
\* that came back from the provider, and the target is that attempt's.
LEMMA CallbackOKInv ==
  ASSUME LoginInv, NEW v \in Visits, CallbackOK(v)
  PROVE  LoginInv'
<1>1. PICK t \in {visit[v].jar.redir, NoTarget} :
        Answer(v, "session", ResolveRedirect(t))
  BY DEF CallbackOK
<1> USE LoginAssumption DEF LoginInv, LoginTypeOK, Answer, CallbackOK
<1>2. t \in TargetType /\ ResolveRedirect(t) \in TargetType
  BY DEF VisitType, JarType, TargetType, Known, NoTarget, Target, Targets,
         ResolveRedirect
<1>3. visit[v].code \in Attempts
  BY DEF Accepts, VisitType, JarType, Known
<1>4. LandInv(visit[v].code, ResolveRedirect(t), tab)
  <2>1. tab[visit[v].code].pc \in {"back", "ended"}
    BY <1>3 DEF CodeInv
  <2>2. JarInv(visit[v].jar, tab) /\ visit[v].code = visit[v].jar.nonce
    BY DEF TargetInv, Accepts
  <2> QED
    BY <1>1, <1>3, <2>1, <2>2 DEF LandInv, JarInv, ResolveRedirect, NoTarget,
       Target
<1>5. LoginTypeOK'
  BY <1>1, <1>2, AnswerStep
<1>6. CodeInv'
  BY <1>1 DEF CodeInv
<1>7. TargetInv'
  <2>1. /\ \A w \in Visits \ {v} : visit'[w] = visit[w]
        /\ visit'[v].land = ResolveRedirect(t)
        /\ visit'[v].jar = visit[v].jar /\ visit'[v].code = visit[v].code
    BY <1>1, <1>2, AnswerStep
  <2> QED
    BY <2>1, <1>3, <1>4 DEF TargetInv
<1>8. CrossInv'
  BY <1>1 DEF CrossInv
<1>9. UncrossedIsAccepted'
  BY <1>1 DEF UncrossedIsAccepted
<1> QED
  BY <1>5, <1>6, <1>7, <1>8, <1>9

\* A response reaches the browser.
LEMMA DeliverInv ==
  ASSUME LoginInv, TabStep, NEW v \in Visits, Deliver(v)
  PROVE  LoginInv'
<1> USE LoginAssumption DEF LoginInv, LoginTypeOK, Deliver
<1>0. /\ NoJar \in JarType /\ NoTarget \in TargetType
      /\ Idle \in VisitType /\ JarInv(NoJar, tab')
      /\ Idle.jar = NoJar /\ Idle.pc = "idle"
  BY DEF NoJar, Idle, NoTarget, Target, JarType, TargetType, VisitType,
         Known, Targets, JarInv
<1>1. LoginTypeOK'
  <2>1. session' \in [of: Attempts \cup Foreign \cup {None}, land: TargetType]
    BY DEF VisitType
  <2> QED
    BY <1>0, <2>1
<1>2. CodeInv'
  BY <1>0 DEF CodeInv
<1>3. TargetInv'
  <2>1. session'.of \in Known /\ LandInv(session'.of, session'.land, tab')
    BY TabStable DEF TargetInv, Known
  <2>2. JarInv(jar', tab')
    BY <1>0, TabStable DEF TargetInv
  <2>3. \A w \in Visits :
          /\ JarInv(visit'[w].jar, tab')
          /\ visit'[w].pc = "done" /\ visit'[w].out = "session" =>
               visit'[w].code \in Attempts /\ LandInv(visit'[w].code,
                                                     visit'[w].land, tab')
    BY <1>0, TabStable DEF TargetInv
  <2> QED
    BY <2>1, <2>2, <2>3 DEF TargetInv
<1>4. CrossInv'
  <2>1. \A b \in Attempts : tab'[b].pc # "new" => b \in crossed'
    BY DEF CodeInv
  <2>2. \A w \in Visits : visit'[w].pc = "sent" => visit'[w] = visit[w]
    BY <1>0
  <2> QED
    BY <2>1, <2>2 DEF CrossInv
<1>5. UncrossedIsAccepted'
  BY <1>0 DEF UncrossedIsAccepted
<1> QED
  BY <1>1, <1>2, <1>3, <1>4, <1>5

\* The callback cookies expire.
LEMMA LapseInv ==
  ASSUME LoginInv, Lapse
  PROVE  LoginInv'
<1> USE LoginAssumption DEF LoginInv, LoginTypeOK, Lapse
<1>0. NoJar \in JarType /\ JarInv(NoJar, tab)
  BY DEF NoJar, NoTarget, Target, JarType, TargetType, Known, Targets, JarInv
<1>1. LoginTypeOK'
  BY <1>0
<1>2. CodeInv'
  BY DEF CodeInv
<1>3. TargetInv'
  BY <1>0 DEF TargetInv
<1>4. CrossInv'
  BY DEF CrossInv
<1>5. UncrossedIsAccepted'
  BY DEF UncrossedIsAccepted
<1> QED
  BY <1>1, <1>2, <1>3, <1>4, <1>5

\* A step that changes nothing.
LEMMA StutterInv == LoginInv /\ UNCHANGED vars => LoginInv'
  BY DEF LoginInv, LoginTypeOK, CodeInv, TargetInv, CrossInv,
         UncrossedIsAccepted, vars

-----------------------------------------------------------------------------
(* The theorems *)

\* LoginInv is an invariant of the login handlers.
THEOREM Invariance == Spec => []LoginInv
<1>1. LoginInv /\ [Next]_vars => LoginInv'
  <2> SUFFICES ASSUME LoginInv, [Next]_vars PROVE LoginInv'
    OBVIOUS
  <2>1. TabStep
    BY NextTabStep
  <2> QED
    BY <2>1, AuthRedirectInv, AuthRedirectFailsInv, ProviderInv, VisitInv,
       CallbackEndsInv, CallbackOKInv, DeliverInv, LapseInv, StutterInv
    DEF Next
<1> QED
  BY InitInv, <1>1, PTL DEF Spec

\* authCallback: a browser never ends up with the session of a login that
\* another browser started.
THEOREM BrowserKeepsOwnLogin == Spec => []OwnLogin
<1>1. LoginInv => OwnLogin
  BY DEF LoginInv, TargetInv, OwnLogin, Known
<1> QED
  BY Invariance, <1>1, PTL

\* authRedirect and resolveRedirect: a login lands on the path its own
\* attempt asked for, or on the root.
THEOREM LoginLandsOnOwnTarget == Spec => []LandsOnOwnTarget
<1>1. LoginInv => LandsOnOwnTarget
  BY DEF LoginInv, TargetInv, LandInv, LandsOnOwnTarget
<1> QED
  BY Invariance, <1>1, PTL

\* authRedirect and authCallback agree on state and nonce: an attempt no
\* other request crossed is not refused over them.
THEOREM UncrossedLoginIsAccepted == Spec => []UncrossedIsAccepted
<1>1. LoginInv => UncrossedIsAccepted
  BY DEF LoginInv
<1> QED
  BY Invariance, <1>1, PTL

=============================================================================
