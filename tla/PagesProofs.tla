---------------------------- MODULE PagesProofs ----------------------------
(***************************************************************************)
(* Theorems about Pages, for any clients, request makers, forms, menus and *)
(* languages: one answer to every request, the visitor's own language in   *)
(* it, a menu of the page's own items in their order, a form that shows    *)
(* what was saved and leaves alone what it does not manage, and a site     *)
(* check that lets all of the trusted writes through and no others.        *)
(***************************************************************************)
EXTENDS Pages, FiniteSetTheorems, SequenceTheorems, WellFoundedInduction,
        TLAPS

-----------------------------------------------------------------------------
(* The inductive invariant *)

\* What RenderPage makes of the menu the renderer started with.
MenuOf(path) ==
  MarkActive(Alter(SortMenuItems(Registered \o OwnItems[path]), path), path)

\* No request writes to what the requests share.
RendererInv == renderer = [menu |-> Collect, funcs |-> NoTemplate.funcs]

\* The cookie jar holds what the visitor asked for.
JarInv ==
  /\ picked = [c \in Clients |-> picked[c]]
  /\ lang = [c \in Clients |-> LangCookie(picked[c])]

\* The request carries the headers of its maker.
Made(r) ==
  /\ \E s \in Sources :
       r.from = s.from /\ r.site = s.site /\ r.origin = s.origin
  /\ r.what.kind = "post" => r.method = "POST" /\ r.what.form \in Submissions
  /\ r.what.kind = "get" => r.what.path \in Paths

\* An answer fits its request: a whole one, in the request's language and
\* with the page's menu.
Fits(x, o) ==
  /\ o.kind \in {"page", "error", "own"}
  /\ o.kind \in {"page", "error"} => o.funcs = Localizer(x.req)
  /\ o.kind = "page" => x.page.path \in Paths /\ o.menu = MenuOf(x.page.path)

Fields == {"pc", "req", "page", "code", "menu", "tpl", "out"}

\* Nothing was requested yet; or the request carries the cookie of the
\* language its visitor had asked for, and is answered once, at its end.
Coherent(x) ==
  \/ x.req = NoRequest /\ x.pc = "idle" /\ x.out = <<>>
  \/ /\ x.req.lang = LangCookie(x.req.picked)
     /\ x.pc # "idle" => x.out = <<>>
     /\ x.pc = "idle" => \E o : x.out = <<o>> /\ Fits(x, o)

\* What a connection is in the middle of is so.
Sound(x) ==
  /\ DOMAIN x = Fields /\ Coherent(x)
  /\ x.pc = "serve" => Made(x.req)
  /\ x.pc \in {"page", "execute"} => x.page.path \in Paths
  /\ x.pc = "execute" => /\ x.tpl = LocaleTemplate(x.req)
                         /\ x.menu = Clone(MenuOf(x.page.path))
  /\ x.pc = "error" /\ x.code = 403 => x.req.from \notin Trusted

ConnInv ==
  /\ conn = [c \in Clients |-> conn[c]]
  /\ \A c \in Clients : Sound(conn[c])

PagesInv == RendererInv /\ JarInv /\ ConnInv

-----------------------------------------------------------------------------
(* Lemmas *)

\* A step that gives one connection a sound state keeps all of them sound.
LEMMA OneConnection ==
  ASSUME ConnInv, NEW c \in Clients, NEW x, Sound(x),
         conn' = [conn EXCEPT ![c] = x]
  PROVE  ConnInv' /\ conn'[c] = x
BY DEF ConnInv

\* A connection that is under way carries its request.
LEMMA UnderWay ==
  ASSUME ConnInv, NEW c \in Clients, conn[c].pc # "idle"
  PROVE  /\ Sound(conn[c]) /\ DOMAIN conn[c] = Fields /\ conn[c].out = <<>>
         /\ conn[c].req.lang = LangCookie(conn[c].req.picked)
BY DEF ConnInv, Sound, Coherent

\* Localizer looks at no more of a request than Served keeps.
LEMMA ServedKeeps ==
  ASSUME NEW r
  PROVE  /\ Served(r).lang = r.lang /\ Served(r).accept = r.accept
         /\ Served(r).picked = r.picked
         /\ Localizer(Served(r)) = Localizer(r)
BY DEF Served, Localizer

\* The handler's own answer is sound.
LEMMA OwnAnswerSound ==
  ASSUME ConnInv, NEW c \in Clients, conn[c].pc # "idle"
  PROVE  Sound(OwnAnswer(c)) /\ OwnAnswer(c).pc = "idle"
<1> DEFINE x == OwnAnswer(c)
<1>1. /\ DOMAIN x = Fields /\ x.pc = "idle" /\ x.out = <<OwnOut>>
      /\ x.req = Served(conn[c].req)
  BY DEF OwnAnswer, Idle, Fields
<1>2. x.req.lang = LangCookie(x.req.picked)
  BY <1>1, UnderWay, ServedKeeps
<1>3. Fits(x, OwnOut)
  BY DEF Fits, OwnOut
<1> HIDE DEF x
<1> QED
  BY <1>1, <1>2, <1>3 DEF Sound, Coherent, x

\* A page that a handler returned is sound.
LEMMA PageReturnedSound ==
  ASSUME ConnInv, NEW c \in Clients, conn[c].pc # "idle",
         NEW path \in Paths, NEW status
  PROVE  Sound(PageReturned(c, path, status))
<1> DEFINE x == PageReturned(c, path, status)
<1>1. /\ DOMAIN x = Fields /\ x.pc = "page" /\ x.out = <<>>
      /\ x.req = Served(conn[c].req) /\ x.page.path = path
  BY DEF PageReturned, Idle, Fields
<1>2. x.req.lang = LangCookie(x.req.picked)
  BY <1>1, UnderWay, ServedKeeps
<1> HIDE DEF x
<1> QED
  BY <1>1, <1>2 DEF Sound, Coherent, x

\* An answer ends a request.
LEMMA AnsweredSound ==
  ASSUME ConnInv, NEW c \in Clients, conn[c].pc # "idle", NEW o,
         Fits(conn[c], o)
  PROVE  Sound(Answered(c, <<o>>))
<1> DEFINE x == Answered(c, <<o>>)
<1>1. /\ DOMAIN x = Fields /\ x.pc = "idle" /\ x.out = <<o>>
      /\ x.req = conn[c].req /\ x.page = conn[c].page
  BY UnderWay DEF Answered, Fields
<1>2. Fits(x, o)
  BY <1>1 DEF Fits
<1> HIDE DEF x
<1> QED
  BY <1>1, <1>2, UnderWay DEF Sound, Coherent, x

-----------------------------------------------------------------------------
(* The steps *)

\* A client makes a request.
LEMMA RequestKeeps ==
  ASSUME PagesInv, NEW c \in Clients, NEW s \in Sources, NEW what,
         what.kind = "post" => what.form \in Submissions,
         what.kind = "get" => what.path \in Paths, Request(c, s, what)
  PROVE  PagesInv'
<1> DEFINE r == [from |-> s.from, site |-> s.site, origin |-> s.origin,
                 method |-> IF what.kind = "post" THEN "POST" ELSE "GET",
                 what |-> what, lang |-> lang[c], accept |-> Accept[c],
                 picked |-> picked[c]]
           x == [Idle EXCEPT !.pc = "serve", !.req = r]
<1>1. conn' = [conn EXCEPT ![c] = x]
      /\ UNCHANGED <<doc, shown, renderer, lang, picked>>
  BY DEF Request
<1>2. r.lang = LangCookie(r.picked) /\ Made(r)
  BY DEF PagesInv, JarInv, Made
<1>3. DOMAIN x = Fields /\ x.pc = "serve" /\ x.req = r /\ x.out = <<>>
  BY DEF Idle, Fields
<1> HIDE DEF r, x
<1>4. Sound(x)
  BY <1>2, <1>3 DEF Sound, Coherent
<1> QED
  BY <1>1, <1>4, OneConnection DEF PagesInv, RendererInv, JarInv

\* A step of one connection that shares nothing.
LEMMA OwnStep ==
  ASSUME PagesInv, UNCHANGED <<renderer, lang, picked>>, NEW c \in Clients,
         NEW x, Sound(x), conn' = [conn EXCEPT ![c] = x]
  PROVE  PagesInv'
BY OneConnection DEF PagesInv, RendererInv, JarInv

\* PageMux.Handle refuses nothing trusted.
LEMMA RefuseKeeps ==
  ASSUME PagesInv, NEW c \in Clients, Refuse(c)
  PROVE  PagesInv'
<1> DEFINE x == [conn[c] EXCEPT !.pc = "error", !.code = 403]
<1>1. /\ conn[c].pc = "serve" /\ ~CheckRequestSite(conn[c].req)
      /\ conn' = [conn EXCEPT ![c] = x]
      /\ UNCHANGED <<renderer, lang, picked>> /\ ConnInv
  BY DEF Refuse, PagesInv
<1>2. /\ DOMAIN x = Fields /\ x.pc = "error" /\ x.req = conn[c].req
      /\ x.out = <<>>
  BY <1>1, UnderWay DEF Fields
<1>3. conn[c].req.from \notin Trusted
  BY <1>1, UnderWay, BrowserAssumption
     DEF Sound, Made, CheckRequestSite, SameHost
<1> HIDE DEF x
<1>4. Sound(x)
  BY <1>1, <1>2, <1>3, UnderWay DEF Sound, Coherent
<1> QED
  BY <1>1, <1>4, OwnStep

\* The handlers that answer with a page or with a response of their own.
LEMMA HandlersKeep ==
  ASSUME PagesInv, NEW c \in Clients,
         ServePage(c) \/ SubmitForm(c) \/ RejectForm(c)
  PROVE  PagesInv'
<1>1. ConnInv /\ conn[c].pc = "serve" /\ UNCHANGED <<renderer, lang, picked>>
  BY DEF PagesInv, ServePage, SubmitForm, RejectForm, Serving
<1>2. \/ conn' = [conn EXCEPT ![c] = OwnAnswer(c)]
      \/ \E path \in Paths : \E status :
           conn' = [conn EXCEPT ![c] = PageReturned(c, path, status)]
  <2>1. FormPath \in Paths
    BY PagesAssumption DEF Paths
  <2>2. ServePage(c) => conn[c].req.what.path \in Paths
    BY <1>1, UnderWay DEF ServePage, Serving, Sound, Made
  <2> QED BY <2>1, <2>2 DEF ServePage, SubmitForm, RejectForm
<1> QED
  BY <1>1, <1>2, OwnAnswerSound, PageReturnedSound, OwnStep

\* setLanguage leaves the cookie of what was asked for.
LEMMA SetLanguageKeeps ==
  ASSUME PagesInv, NEW c \in Clients, SetLanguage(c)
  PROVE  PagesInv'
<1>1. /\ ConnInv /\ JarInv /\ conn[c].pc = "serve" /\ renderer' = renderer
      /\ conn' = [conn EXCEPT ![c] = OwnAnswer(c)]
  BY DEF PagesInv, SetLanguage, Serving
<1>2. PICK choice : /\ lang' = [lang EXCEPT ![c] = LangCookie(choice)]
                    /\ picked' = [picked EXCEPT ![c] = choice]
  BY DEF SetLanguage
<1>3. JarInv'
  <2>1. picked' = [d \in Clients |-> IF d = c THEN choice ELSE picked[d]]
    BY <1>1, <1>2 DEF JarInv
  <2>2. lang' = [d \in Clients |-> IF d = c THEN LangCookie(choice)
                                            ELSE LangCookie(picked[d])]
    BY <1>1, <1>2 DEF JarInv
  <2>3. picked' = [d \in Clients |-> picked'[d]]
    BY <2>1
  <2>4. lang' = [d \in Clients |-> LangCookie(picked'[d])]
    BY <2>1, <2>2
  <2> QED
    BY <2>3, <2>4 DEF JarInv, LangCookie
<1>4. ConnInv'
  BY <1>1, OwnAnswerSound, OneConnection
<1> QED
  BY <1>1, <1>3, <1>4 DEF PagesInv, RendererInv

\* A handler fails.
LEMMA HandlerFailsKeeps ==
  ASSUME PagesInv, NEW c \in Clients, HandlerFails(c)
  PROVE  PagesInv'
<1> DEFINE x(e) == [Idle EXCEPT !.pc = "error", !.req = Served(conn[c].req),
                                !.code = AsHTTPError(e)]
<1>1. ConnInv /\ conn[c].pc = "serve" /\ UNCHANGED <<renderer, lang, picked>>
  BY DEF PagesInv, HandlerFails, Serving
<1>2. \/ conn' = [conn EXCEPT ![c] = OwnAnswer(c)]
      \/ \E e : conn' = [conn EXCEPT ![c] = x(e)]
  BY DEF HandlerFails
<1>3. ASSUME NEW e PROVE Sound(x(e))
  <2>1. /\ DOMAIN x(e) = Fields /\ x(e).pc = "error" /\ x(e).out = <<>>
        /\ x(e).req = Served(conn[c].req) /\ x(e).code # 403
    BY DEF Idle, Fields, AsHTTPError
  <2>2. x(e).req.lang = LangCookie(x(e).req.picked)
    BY <1>1, <2>1, UnderWay, ServedKeeps
  <2> HIDE DEF x
  <2> QED
    BY <2>1, <2>2 DEF Sound, Coherent
<1> HIDE DEF x
<1> QED
  BY <1>1, <1>2, <1>3, OwnAnswerSound, OwnStep

\* RenderPage works on clones.
LEMMA PrepareKeeps ==
  ASSUME PagesInv, NEW c \in Clients, Prepare(c)
  PROVE  PagesInv'
<1> DEFINE menu == PageMenu(conn[c].page)
           tpl == LocaleTemplate(conn[c].req)
           x == [conn[c] EXCEPT !.pc = "execute", !.menu = menu, !.tpl = tpl]
<1>1. /\ ConnInv /\ conn[c].pc = "page" /\ UNCHANGED <<lang, picked>>
      /\ conn' = [conn EXCEPT ![c] = x]
      /\ renderer' = [menu |-> IF menu.own THEN renderer.menu ELSE menu.items,
                      funcs |-> IF tpl.own THEN renderer.funcs ELSE tpl.funcs]
  BY DEF Prepare, PagesInv
<1>2. menu = Clone(MenuOf(conn[c].page.path))
  BY DEF PageMenu, MenuOf, PagesInv, RendererInv, Collect
<1>3. menu.own /\ tpl.own
  BY <1>2 DEF Clone, LocaleTemplate
<1>4. renderer' = renderer
  BY <1>1, <1>3 DEF PagesInv, RendererInv
<1>5. /\ DOMAIN x = Fields /\ x.pc = "execute" /\ x.req = conn[c].req
      /\ x.out = <<>> /\ x.page = conn[c].page /\ x.menu = menu /\ x.tpl = tpl
  BY <1>1, UnderWay DEF Fields
<1> HIDE DEF x, menu
<1>6. Sound(x)
  BY <1>1, <1>2, <1>5, UnderWay DEF Sound, Coherent
<1> QED
  BY <1>1, <1>4, <1>6, OwnStep

\* The template is executed: the page is in the request's own language and
\* has its own menu.
LEMMA ExecuteKeeps ==
  ASSUME PagesInv, NEW c \in Clients, Execute(c)
  PROVE  PagesInv'
<1> DEFINE o == Executed(c)
<1>1. /\ ConnInv /\ conn[c].pc = "execute"
      /\ UNCHANGED <<renderer, lang, picked>>
      /\ conn' = [conn EXCEPT ![c] = Answered(c, <<o>>)]
  BY DEF Execute, PagesInv
<1>2. /\ conn[c].tpl = LocaleTemplate(conn[c].req)
      /\ conn[c].menu = Clone(MenuOf(conn[c].page.path))
      /\ conn[c].page.path \in Paths
  BY <1>1, UnderWay DEF Sound
<1>3. /\ Funcs(conn[c].tpl) = Localizer(conn[c].req)
      /\ Items(c) = MenuOf(conn[c].page.path)
  BY <1>2 DEF Funcs, Items, LocaleTemplate, Clone
<1>4. Fits(conn[c], o)
  BY <1>2, <1>3 DEF Fits, Executed, PageOut
<1> HIDE DEF o
<1> QED
  BY <1>1, <1>4, AnsweredSound, OwnStep

\* A template fails: nothing of the page has been written.
LEMMA ExecuteFailsKeeps ==
  ASSUME PagesInv, NEW c \in Clients, ExecuteFails(c)
  PROVE  PagesInv'
<1> DEFINE x == [conn[c] EXCEPT !.pc = "error", !.code = 0, !.out = Discarded]
<1>1. /\ ConnInv /\ conn[c].pc = "execute"
      /\ UNCHANGED <<renderer, lang, picked>>
      /\ conn' = [conn EXCEPT ![c] = x]
  BY DEF ExecuteFails, PagesInv
<1>2. /\ DOMAIN x = Fields /\ x.pc = "error" /\ x.req = conn[c].req
      /\ x.out = <<>> /\ x.code = 0
  BY <1>1, UnderWay DEF Fields, Discarded
<1> HIDE DEF x
<1>3. Sound(x)
  BY <1>1, <1>2, UnderWay DEF Sound, Coherent
<1> QED
  BY <1>1, <1>3, OwnStep

\* ErrorPage answers, in the request's own language.
LEMMA ErrorPageKeeps ==
  ASSUME PagesInv, NEW c \in Clients, ErrorPage(c)
  PROVE  PagesInv'
<1> DEFINE code == IF conn[c].code = 0 THEN 500 ELSE conn[c].code
           o(whole) == ErrorOut(code, LocaleTemplate(conn[c].req).funcs,
                                whole)
<1>1. /\ ConnInv /\ conn[c].pc = "error"
      /\ UNCHANGED <<renderer, lang, picked>>
  BY DEF ErrorPage, PagesInv
<1>2. PICK whole \in BOOLEAN :
        conn' = [conn EXCEPT ![c] =
                   Answered(c, conn[c].out \o <<o(whole)>>)]
  BY DEF ErrorPage
<1>3. Fits(conn[c], o(whole))
  BY DEF Fits, ErrorOut, LocaleTemplate
<1>4. conn[c].out \o <<o(whole)>> = <<o(whole)>>
  <2>1. \A e : <<>> \o <<e>> = <<e>>
    OBVIOUS
  <2> QED
    BY <1>1, <2>1, UnderWay
<1> HIDE DEF o
<1> QED
  BY <1>1, <1>2, <1>3, <1>4, AnsweredSound, OwnStep

-----------------------------------------------------------------------------
(* Every step keeps the invariant *)

\* The invariant holds at the start.
LEMMA InvInit ==
  ASSUME Init
  PROVE  PagesInv
<1>1. Sound(Idle)
  BY DEF Idle, Sound, Coherent, Fields
<1>2. ConnInv
  BY <1>1 DEF Init, ConnInv
<1>3. JarInv
  BY DEF Init, JarInv, LangCookie
<1> QED
  BY <1>2, <1>3 DEF Init, PagesInv, RendererInv

\* And is kept by every step.
LEMMA InvNext ==
  ASSUME PagesInv, [Next]_vars
  PROVE  PagesInv'
<1>1. ASSUME NEW c \in Clients, Get(c) \/ Post(c) \/ Pick(c) \/ Stray(c)
      PROVE  PagesInv'
  <2>1. CASE Get(c)
    BY <2>1, RequestKeeps DEF Get
  <2>2. CASE Post(c)
    BY <2>2, RequestKeeps DEF Post
  <2>3. CASE Pick(c) \/ Stray(c)
    BY <2>3, RequestKeeps DEF Pick, Stray
  <2> QED BY <1>1, <2>1, <2>2, <2>3
<1>2. CASE UNCHANGED vars
  BY <1>2 DEF vars, PagesInv, RendererInv, JarInv, ConnInv
<1> QED
  BY <1>1, <1>2, RefuseKeeps, HandlersKeep, SetLanguageKeeps,
     HandlerFailsKeeps, PrepareKeeps, ExecuteKeeps, ExecuteFailsKeeps,
     ErrorPageKeeps DEF Next

\* The inductive invariant holds throughout.
LEMMA InvAlways == Spec => []PagesInv
<1>1. Init => PagesInv
  BY InvInit
<1>2. PagesInv /\ [Next]_vars => PagesInv'
  BY InvNext
<1> QED
  BY <1>1, <1>2, PTL DEF Spec

-----------------------------------------------------------------------------
(* The theorems *)

\* RenderPage and PageMux.Handle: whatever fails on the way, every request
\* is answered once, and nothing of a page whose template failed comes
\* before the error page.
THEOREM OneAnswerEach == Spec => []AnsweredOnce
<1>1. ASSUME PagesInv PROVE AnsweredOnce
  <2>1. SUFFICES ASSUME NEW c \in Clients, conn[c].pc = "idle",
                        conn[c].req # NoRequest
                 PROVE  Len(conn[c].out) = 1 /\ Answer(c) # Torn
    BY DEF AnsweredOnce
  <2>2. PICK o : conn[c].out = <<o>> /\ Fits(conn[c], o)
    BY <1>1, <2>1 DEF PagesInv, ConnInv, Sound, Coherent
  <2>3. o # Torn
    BY <2>2 DEF Fits, Torn
  <2> QED
    BY <2>2, <2>3 DEF Answer
<1> QED
  BY <1>1, InvAlways, PTL

\* setLanguage, Localizer and localeTemplate: pages and error pages are in
\* the language that their own visitor had last asked for, and otherwise in
\* the one its own browser accepts or in English, however the requests of
\* others interleave.
THEOREM LanguageIsOwn == Spec => []LanguageFollows
<1>1. ASSUME PagesInv PROVE LanguageFollows
  <2>1. SUFFICES ASSUME NEW c \in Clients,
                        HasAnswer(c, "page") \/ HasAnswer(c, "error")
                 PROVE  IF conn[c].req.picked \in Languages
                          THEN Answer(c).funcs.text = conn[c].req.picked
                          ELSE Answer(c).funcs.text
                                 \in {conn[c].req.accept, English}
    BY DEF LanguageFollows
  <2> DEFINE r == conn[c].req
  <2>2. conn[c].pc = "idle" /\ conn[c].out # <<>>
        /\ Answer(c).kind \in {"page", "error"}
    BY <2>1 DEF HasAnswer
  <2>3. /\ r.lang = LangCookie(r.picked)
        /\ \E o : conn[c].out = <<o>> /\ Fits(conn[c], o)
    BY <1>1, <2>2 DEF PagesInv, ConnInv, Sound, Coherent
  <2>4. Answer(c).funcs = Localizer(r)
    BY <2>2, <2>3 DEF Answer, Fits
  <2>5. IF r.picked \in Languages THEN Localizer(r).text = r.picked
                                  ELSE Localizer(r).text \in {r.accept, English}
    BY <2>3, PagesAssumption DEF Localizer, LangCookie
  <2> QED
    BY <2>4, <2>5
<1> QED
  BY <1>1, InvAlways, PTL

\* A page's menu is what the page alone makes of the registered items.
MenuIsOfPage ==
  \A c \in Clients : HasAnswer(c, "page") =>
    Answer(c).menu = MenuOf(conn[c].page.path)

\* RenderPage: however requests interleave, no page's items, order or active
\* marks reach the menu of another, nor the renderer's.
THEOREM MenusAreApart == Spec => [](MenuIsOfPage /\ RendererInv)
<1>1. ASSUME PagesInv PROVE MenuIsOfPage /\ RendererInv
  <2>1. SUFFICES ASSUME NEW c \in Clients, HasAnswer(c, "page")
                 PROVE  Answer(c).menu = MenuOf(conn[c].page.path)
    BY <1>1 DEF MenuIsOfPage, PagesInv
  <2>2. conn[c].pc = "idle" /\ conn[c].out # <<>> /\ Answer(c).kind = "page"
    BY <2>1 DEF HasAnswer
  <2>3. \E o : conn[c].out = <<o>> /\ Fits(conn[c], o)
    BY <1>1, <2>2 DEF PagesInv, ConnInv, Sound, Coherent
  <2> QED
    BY <2>2, <2>3 DEF Answer, Fits
<1> QED
  BY <1>1, InvAlways, PTL

\* checkRequestSite: no request of the application's own pages, of the
\* visitor or of a tool is refused.
THEOREM TrustedPasses == Spec => []TrustedNeverRefused
<1>1. ASSUME PagesInv PROVE TrustedNeverRefused
  BY <1>1 DEF PagesInv, ConnInv, Sound, TrustedNeverRefused
<1> QED
  BY <1>1, InvAlways, PTL

\* checkRequestSite: and only they change the document.
THEOREM WritesAreTrusted == Spec => OnlyTrustedWrite
<1>1. ASSUME PagesInv, Next, doc' # doc
      PROVE  \E c \in Clients : /\ conn[c].pc = "serve" /\ conn'[c].pc # "serve"
                                /\ conn[c].req.from \in Trusted
  <2>1. PICK c \in Clients : SubmitForm(c)
    BY <1>1 DEF Next, Get, Post, Pick, Stray, Request, Refuse, ServePage,
       RejectForm, SetLanguage, HandlerFails, Prepare, Execute, ExecuteFails,
       ErrorPage
  <2>2. /\ conn[c].pc = "serve" /\ conn[c].req.what.kind = "post"
        /\ CheckRequestSite(conn[c].req)
        /\ conn' = [conn EXCEPT ![c] = OwnAnswer(c)] /\ ConnInv
    BY <1>1, <2>1 DEF SubmitForm, Serving, PagesInv
  <2>3. conn'[c].pc = "idle"
    BY <2>2, OwnAnswerSound, OneConnection
  <2>4. conn[c].req.from \in Trusted
    <3>1. Made(conn[c].req)
      BY <2>2, UnderWay DEF Sound
    <3>2. PICK s \in Sources : /\ conn[c].req.from = s.from
                               /\ conn[c].req.site = s.site
                               /\ conn[c].req.origin = s.origin
      BY <3>1 DEF Made
    <3>3. conn[c].req.method # "GET"
      BY <2>2, <3>1 DEF Made
    <3>4. \/ s.site \in {"same-origin", "none"}
          \/ s.site = Absent /\ (s.origin = NoOrigin \/ s.origin.host = Host)
      BY <2>2, <3>2, <3>3 DEF CheckRequestSite, SameHost
    <3>5. Absent \notin {"same-origin", "none"}
      BY DEF Absent
    <3>6. s.from \in Trusted
      BY <3>4, <3>5, BrowserAssumption
    <3> QED
      BY <3>2, <3>6
  <2> QED
    BY <2>2, <2>3, <2>4
<1>2. PagesInv /\ [Next]_vars =>
        [doc' # doc =>
           \E c \in Clients : conn[c].pc = "serve" /\ conn'[c].pc # "serve"
                              /\ conn[c].req.from \in Trusted]_vars
  BY <1>1
<1> QED
  BY <1>2, InvAlways, PTL DEF Spec, OnlyTrustedWrite

-----------------------------------------------------------------------------
(* Orders and selections *)

\* A strict total order of the positions S.
Orders(order, S) ==
  /\ \A i \in S : <<i, i>> \notin order
  /\ \A i, j \in S : i # j => <<i, j>> \in order \/ <<j, i>> \in order
  /\ \A i, j, k \in S :
       <<i, j>> \in order /\ <<j, k>> \in order => <<i, k>> \in order

\* h takes the positions S onto T, and keeps their order.
Moves(h, S, order, T, later) ==
  /\ h \in [S -> T] /\ \A j \in T : \E i \in S : h[i] = j
  /\ \A i, j \in S : <<i, j>> \in order => <<h[i], h[j]>> \in later

\* The rank in a strict total order of a finite set: below the set's size,
\* and in the order of the elements.
LEMMA RankIs ==
  ASSUME NEW S, IsFiniteSet(S), NEW order, Orders(order, S)
  PROVE  /\ Cardinality(S) \in Nat
         /\ \A i \in S : Rank(S, order, i) \in 0 .. Cardinality(S) - 1
         /\ \A i, j \in S :
              <<i, j>> \in order <=> Rank(S, order, i) < Rank(S, order, j)
<1> DEFINE B(i) == {j \in S : <<j, i>> \in order}
<1>1. Cardinality(S) \in Nat
  BY FS_CardinalityType
<1>2. \A i \in S : /\ IsFiniteSet(B(i))
                  /\ Cardinality(B(i)) \in 0 .. Cardinality(S) - 1
  <2> TAKE i \in S
  <2>1. B(i) \in SUBSET S /\ i \notin B(i)
    BY DEF Orders
  <2>2. /\ IsFiniteSet(B(i)) /\ Cardinality(B(i)) <= Cardinality(S)
        /\ Cardinality(S) = Cardinality(B(i)) => S = B(i)
    <3> HIDE DEF B
    <3> QED BY <2>1, FS_Subset
  <2>3. Cardinality(B(i)) \in Nat
    BY <2>2, FS_CardinalityType
  <2>4. Cardinality(S) # Cardinality(B(i))
    BY <2>1, <2>2
  <2> HIDE DEF B
  <2> QED BY <1>1, <2>2, <2>3, <2>4
<1>3. \A i, j \in S :
        <<i, j>> \in order => Cardinality(B(i)) < Cardinality(B(j))
  <2> SUFFICES ASSUME NEW i \in S, NEW j \in S, <<i, j>> \in order
               PROVE  Cardinality(B(i)) < Cardinality(B(j))
    OBVIOUS
  <2>1. B(i) \in SUBSET B(j) /\ i \in B(j) /\ i \notin B(i)
    BY DEF Orders
  <2>2. /\ Cardinality(B(i)) <= Cardinality(B(j))
        /\ Cardinality(B(j)) = Cardinality(B(i)) => B(j) = B(i)
    <3> HIDE DEF B
    <3> QED BY <1>2, <2>1, FS_Subset
  <2>3. Cardinality(B(i)) \in Nat /\ Cardinality(B(j)) \in Nat
    <3> HIDE DEF B
    <3> QED BY <1>2, FS_CardinalityType
  <2> HIDE DEF B
  <2> QED BY <2>1, <2>2, <2>3
<1>4. \A i, j \in S :
        Cardinality(B(i)) < Cardinality(B(j)) => <<i, j>> \in order
  <2> SUFFICES ASSUME NEW i \in S, NEW j \in S, <<i, j>> \notin order
               PROVE  ~(Cardinality(B(i)) < Cardinality(B(j)))
    OBVIOUS
  <2>1. i = j \/ Cardinality(B(j)) < Cardinality(B(i))
    BY <1>3 DEF Orders
  <2>2. Cardinality(B(i)) \in Int /\ Cardinality(B(j)) \in Int
    <3> HIDE DEF B
    <3> QED BY <1>1, <1>2
  <2> HIDE DEF B
  <2> QED BY <2>1, <2>2
<1>5. \A i \in S : Rank(S, order, i) = Cardinality(B(i))
  BY DEF Rank
<1> HIDE DEF B
<1> QED BY <1>1, <1>2, <1>3, <1>4, <1>5

\* InOrder lists the positions once each, the earlier ones first.
LEMMA InOrderIs ==
  ASSUME NEW S, IsFiniteSet(S), NEW order, Orders(order, S)
  PROVE  LET at == InOrder(S, order)
             n == Cardinality(S)
         IN  /\ n \in Nat
             /\ at \in [1 .. n -> S]
             /\ \A i \in S : \E k \in 1 .. n : at[k] = i
             /\ \A j, k \in 1 .. n : j < k <=> <<at[j], at[k]>> \in order
             /\ \A k \in 1 .. n : Rank(S, order, at[k]) = k - 1
<1> DEFINE n == Cardinality(S)
           at == InOrder(S, order)
           rank == [i \in S |-> Rank(S, order, i) + 1]
<1>1. /\ n \in Nat
      /\ \A i \in S : Rank(S, order, i) \in 0 .. n - 1
      /\ \A i, j \in S :
           <<i, j>> \in order <=> Rank(S, order, i) < Rank(S, order, j)
  BY RankIs
<1> HIDE DEF n
<1>2. rank \in [S -> 1 .. n]
  BY <1>1
<1>3. \A i, j \in S : rank[i] = rank[j] => i = j
  <2> SUFFICES ASSUME NEW i \in S, NEW j \in S, rank[i] = rank[j]
               PROVE  i = j
    OBVIOUS
  <2>1. Rank(S, order, i) = Rank(S, order, j) /\ Rank(S, order, i) \in Int
    BY <1>1
  <2>2. <<i, j>> \notin order /\ <<j, i>> \notin order
    BY <1>1, <2>1
  <2> QED BY <2>2 DEF Orders
<1>4. rank \in Injection(S, 1 .. n)
  BY <1>2, <1>3 DEF Injection, IsInjective
<1>5. IsFiniteSet(1 .. n) /\ Cardinality(1 .. n) = n
  BY <1>1, FS_Interval
<1>6. rank \in Surjection(S, 1 .. n)
  BY <1>4, <1>5, FS_Injection DEF n
<1>7. \A k \in 1 .. n : \E i \in S : Rank(S, order, i) = k - 1
  <2> TAKE k \in 1 .. n
  <2>1. PICK i \in S : rank[i] = k
    BY <1>6 DEF Surjection
  <2> QED BY <1>1, <2>1
<1>8. \A k \in 1 .. n : at[k] \in S /\ Rank(S, order, at[k]) = k - 1
  BY <1>7 DEF InOrder, n
<1>9. at \in [1 .. n -> S]
  <2>1. at = [k \in 1 .. n |-> at[k]]
    BY DEF InOrder, n
  <2> QED BY <1>8, <2>1
<1> HIDE DEF at
<1>10. \A i \in S : \E k \in 1 .. n : at[k] = i
  <2> TAKE i \in S
  <2>1. rank[i] \in 1 .. n /\ rank[at[rank[i]]] = rank[i]
    BY <1>1, <1>2, <1>8
  <2>2. at[rank[i]] = i
    BY <1>3, <1>8, <2>1
  <2> QED BY <2>1, <2>2
<1>11. \A j, k \in 1 .. n : j < k <=> <<at[j], at[k]>> \in order
  BY <1>1, <1>8
<1> QED BY <1>1, <1>8, <1>9, <1>10, <1>11 DEF n, at

\* A map that keeps the order takes the k-th position to the k-th.
LEMMA InOrderMoves ==
  ASSUME NEW S, IsFiniteSet(S), NEW order, Orders(order, S),
         NEW T, NEW later, Orders(later, T),
         NEW h, Moves(h, S, order, T, later)
  PROVE  /\ IsFiniteSet(T) /\ Cardinality(T) = Cardinality(S)
         /\ \A k \in 1 .. Cardinality(S) :
              InOrder(T, later)[k] = h[InOrder(S, order)[k]]
<1> USE DEF Moves
<1>1. \A i, j \in S : h[i] = h[j] => i = j
  BY DEF Orders
<1>2. \A i, j \in S : <<h[i], h[j]>> \in later => <<i, j>> \in order
  BY DEF Orders
<1>3. h \in Bijection(S, T)
  BY <1>1 DEF Bijection, Injection, Surjection, IsInjective
<1>4. IsFiniteSet(T) /\ Cardinality(T) = Cardinality(S)
  BY <1>3, FS_Bijection DEF ExistsBijection
<1>5. \A i \in S : Rank(T, later, h[i]) = Rank(S, order, i)
  <2> TAKE i \in S
  <2> DEFINE A == {j \in S : <<j, i>> \in order}
             C == {t \in T : <<t, h[i]>> \in later}
             g == [j \in A |-> h[j]]
  <2>1. g \in [A -> C]
    OBVIOUS
  <2>2. \A j, k \in A : g[j] = g[k] => j = k
    BY <1>1
  <2>3. \A t \in C : \E j \in A : g[j] = t
    BY <1>2
  <2>4. A \in SUBSET S
    OBVIOUS
  <2> HIDE DEF A, C, g
  <2>5. g \in Bijection(A, C)
    BY <2>1, <2>2, <2>3 DEF Bijection, Injection, Surjection, IsInjective
  <2>6. IsFiniteSet(A)
    BY <2>4, FS_Subset
  <2>7. Cardinality(C) = Cardinality(A)
    BY <2>5, <2>6, FS_Bijection DEF ExistsBijection
  <2> QED BY <2>7 DEF A, C, Rank
<1>6. ASSUME NEW k \in 1 .. Cardinality(S)
      PROVE  InOrder(T, later)[k] = h[InOrder(S, order)[k]]
  <2> DEFINE i == InOrder(S, order)[k]
             t == InOrder(T, later)[k]
  <2>1. i \in S /\ Rank(S, order, i) = k - 1
    BY InOrderIs
  <2>2. t \in T /\ Rank(T, later, t) = k - 1
    <3>1. k \in 1 .. Cardinality(T)
      BY <1>4
    <3>2. \A j \in 1 .. Cardinality(T) :
            /\ InOrder(T, later)[j] \in T
            /\ Rank(T, later, InOrder(T, later)[j]) = j - 1
      BY <1>4, InOrderIs
    <3> QED BY <3>1, <3>2
  <2>3. /\ Rank(T, later, h[i]) = Rank(T, later, t) /\ h[i] \in T
        /\ Rank(T, later, t) \in Int
    BY <1>5, <2>1, <2>2
  <2> HIDE DEF i, t
  <2>4. ~(<<h[i], t>> \in later) /\ ~(<<t, h[i]>> \in later)
    BY <1>4, <2>2, <2>3, RankIs
  <2>5. h[i] = t
    BY <2>2, <2>3, <2>4 DEF Orders
  <2> QED BY <2>5 DEF i, t
<1> QED BY <1>4, <1>6

-----------------------------------------------------------------------------
(* Selections from a sequence *)

\* The positions of a sequence are ordered from first to last.
LEMMA AscendingOrders ==
  ASSUME NEW S \in SUBSET Int
  PROVE  Orders(Ascending(S), S)
<1>1. \A i, j \in S : <<i, j>> \in Ascending(S) <=> i < j
  BY DEF Ascending
<1> HIDE DEF Ascending
<1> QED BY <1>1 DEF Orders

\* Positions of a sequence are finitely many numbers.
LEMMA Positions ==
  ASSUME NEW n \in Nat, NEW S \in SUBSET (1 .. n)
  PROVE  IsFiniteSet(S) /\ S \in SUBSET Int
<1>1. IsFiniteSet(1 .. n)
  BY FS_Interval
<1>2. IsFiniteSet(S)
  BY <1>1, FS_Subset
<1> QED BY <1>2

\* What Selected returns.
LEMMA SelectedIs ==
  ASSUME NEW s, NEW S \in SUBSET Int, IsFiniteSet(S)
  PROVE  LET at == InOrder(S, Ascending(S))
         IN  /\ IsFiniteSet(S) /\ Cardinality(S) \in Nat
             /\ DOMAIN Selected(s, S) = 1 .. Cardinality(S)
             /\ at \in [1 .. Cardinality(S) -> S]
             /\ \A i \in S : \E k \in 1 .. Cardinality(S) : at[k] = i
             /\ \A j, k \in 1 .. Cardinality(S) : j < k <=> at[j] < at[k]
             /\ Selected(s, S) = [k \in 1 .. Cardinality(S) |-> s[at[k]]]
<1>2. Orders(Ascending(S), S)
  BY AscendingOrders
<1> DEFINE at == InOrder(S, Ascending(S))
<1>3. /\ Cardinality(S) \in Nat /\ at \in [1 .. Cardinality(S) -> S]
      /\ \A i \in S : \E k \in 1 .. Cardinality(S) : at[k] = i
      /\ \A j, k \in 1 .. Cardinality(S) :
           j < k <=> <<at[j], at[k]>> \in Ascending(S)
  BY <1>2, InOrderIs
<1>4. Selected(s, S) = [k \in 1 .. Cardinality(S) |-> s[at[k]]]
  BY DEF Selected, Arranged
<1> HIDE DEF at
<1>5. \A j, k \in 1 .. Cardinality(S) : j < k <=> at[j] < at[k]
  BY <1>3 DEF Ascending
<1> QED BY <1>3, <1>4, <1>5 DEF at

\* Selections are equal whose positions correspond in order.
Corresponds(h, s, S, t, T) ==
  /\ h \in [S -> T] /\ \A j \in T : \E i \in S : h[i] = j
  /\ \A i, j \in S : i < j => h[i] < h[j]
  /\ \A i \in S : t[h[i]] = s[i]

\* A selection is the same wherever its elements have moved, in their order.
LEMMA SelectedMoves ==
  ASSUME NEW s, NEW S \in SUBSET Int, IsFiniteSet(S),
         NEW t, NEW T \in SUBSET Int, NEW h, Corresponds(h, s, S, t, T)
  PROVE  /\ Selected(t, T) = Selected(s, S)
         /\ Cardinality(T) = Cardinality(S)
<1>2. Orders(Ascending(S), S) /\ Orders(Ascending(T), T)
  BY AscendingOrders
<1> USE DEF Corresponds
<1>3. \A i, j \in S :
        <<i, j>> \in Ascending(S) => <<h[i], h[j]>> \in Ascending(T)
  BY DEF Ascending
<1>4. /\ Cardinality(T) = Cardinality(S)
      /\ \A k \in 1 .. Cardinality(S) :
           InOrder(T, Ascending(T))[k] = h[InOrder(S, Ascending(S))[k]]
  <2>1. Moves(h, S, Ascending(S), T, Ascending(T))
    BY <1>3 DEF Moves
  <2> QED BY <1>2, <2>1, InOrderMoves
<1>5. \A k \in 1 .. Cardinality(S) : InOrder(S, Ascending(S))[k] \in S
  BY <1>2, InOrderIs
<1> QED BY <1>4, <1>5 DEF Selected, Arranged

\* The first of some positions is one of them.
LEMMA MinIs ==
  ASSUME NEW S \in SUBSET Nat, S # {}
  PROVE  Min(S) \in S /\ \A j \in S : Min(S) <= j
<1>1. PICK x \in S : \A y \in S : ~(<<y, x>> \in OpToRel(<, Nat))
  BY NatLessThanWellFounded, WFMin
<1>2. \A y \in S : x <= y
  <2> TAKE y \in S
  <2>1. ~(y < x)
    BY <1>1 DEF OpToRel
  <2> QED BY <2>1
<1> QED BY <1>2 DEF Min

\* Positions without a gap before them have the rank they stand at.
LEMMA RankOfFirst ==
  ASSUME NEW n \in Nat, NEW S \in SUBSET (1 .. n), NEW p \in 0 .. n,
         1 .. p \subseteq S, NEW i \in 1 .. p
  PROVE  Rank(S, Ascending(S), i) = i - 1
<1>1. {j \in S : <<j, i>> \in Ascending(S)} = 1 .. i - 1
  <2>1. \A j \in S : <<j, i>> \in Ascending(S) <=> j < i
    BY DEF Ascending
  <2>2. \A j \in 1 .. i - 1 : j \in S /\ j < i
    OBVIOUS
  <2>3. \A j \in S : j < i => j \in 1 .. i - 1
    OBVIOUS
  <2> QED BY <2>1, <2>2, <2>3
<1>2. Cardinality(1 .. i - 1) = i - 1
  BY FS_Interval
<1> QED BY <1>1, <1>2 DEF Rank

\* All of a sequence is the sequence.
LEMMA SelectedAll ==
  ASSUME NEW s, NEW n \in Nat, s = [k \in 1 .. n |-> s[k]]
  PROVE  Selected(s, 1 .. n) = s
<1> DEFINE S == 1 .. n
<1>1. IsFiniteSet(S) /\ Cardinality(S) = n /\ Orders(Ascending(S), S)
  BY FS_Interval, AscendingOrders
<1>2. \A k \in S : InOrder(S, Ascending(S))[k] = k
  <2> TAKE k \in S
  <2> DEFINE i == InOrder(S, Ascending(S))[k]
  <2>1. \A m \in 1 .. Cardinality(S) :
          /\ InOrder(S, Ascending(S))[m] \in S
          /\ Rank(S, Ascending(S), InOrder(S, Ascending(S))[m]) = m - 1
    <3> HIDE DEF S
    <3> QED BY <1>1, InOrderIs
  <2>2. i \in S /\ Rank(S, Ascending(S), i) = k - 1
    BY <1>1, <2>1
  <2>3. Rank(S, Ascending(S), i) = i - 1
    <3> HIDE DEF i
    <3>1. /\ S \in SUBSET (1 .. n) /\ n \in 0 .. n
          /\ 1 .. n \subseteq S /\ i \in 1 .. n
      BY <2>2
    <3> QED BY <3>1, RankOfFirst
  <2> HIDE DEF i
  <2> QED BY <2>2, <2>3 DEF i
<1> QED BY <1>1, <1>2 DEF Selected, Arranged

-----------------------------------------------------------------------------
(* Blocks *)

\* One sequence after another, under a name of its own.
Join(s, t) == s \o t

\* What two sequences of B have where, one after the other.
Joined(B, s, t) ==
  /\ Join(s, t) \in Seq(B) /\ Len(Join(s, t)) = Len(s) + Len(t)
  /\ \A k \in 1 .. Len(s) : Join(s, t)[k] = s[k]
  /\ \A k \in 1 .. Len(t) : Join(s, t)[Len(s) + k] = t[k]

\* Two sequences are joined at the end of the first.
LEMMA ConcatAt ==
  ASSUME NEW B, NEW s \in Seq(B), NEW t \in Seq(B)
  PROVE  Joined(B, s, t)
<1> DEFINE r == Join(s, t)
           q == Len(s)
           e == Len(t)
<1>1. /\ r \in Seq(B) /\ Len(r) = q + e /\ q \in Nat /\ e \in Nat
      /\ \A k \in 1 .. q + e : r[k] = IF k <= q THEN s[k] ELSE t[k - q]
  BY ConcatProperties DEF Join
<1> HIDE DEF r, q, e
<1>2. \A k \in 1 .. e : /\ q + k \in 1 .. q + e /\ ~(q + k <= q)
                         /\ (q + k) - q = k
  BY <1>1
<1>3. \A k \in 1 .. q : k \in 1 .. q + e /\ k <= q
  BY <1>1
<1>4. /\ \A k \in 1 .. q : r[k] = s[k]
      /\ \A k \in 1 .. e : r[q + k] = t[k]
  BY <1>1, <1>2, <1>3
<1> QED BY <1>1, <1>4 DEF r, q, e, Joined

\* r is blocks without the positions M and with repl from p + 1 on: the
\* others stay in order, at g.
Spliced(r, blocks, M, repl, p, g) ==
  LET D == DOMAIN blocks \ M
      Put == p + 1 .. p + Len(repl)
  IN  /\ p \in Nat /\ p + Len(repl) <= Len(r)
      /\ g \in [D -> DOMAIN r]
      /\ \A i, j \in D : i < j => g[i] < g[j]
      /\ \A i \in D : r[g[i]] = blocks[i] /\ g[i] \notin Put
      /\ \A k \in DOMAIN r : k \in Put \/ \E i \in D : g[i] = k
      /\ \A k \in 1 .. Len(repl) : r[p + k] = repl[k]
      /\ M # {} => Min(M) = p + 1 /\ \A i \in D : i <= p <=> g[i] <= p

\* replaceBlocks: the replacement takes the place of the first of the
\* component's blocks, or the end, and every other block keeps its order.
LEMMA ReplaceSplices ==
  ASSUME NEW B, NEW blocks \in Seq(B), NEW c, NEW repl \in Seq(B)
  PROVE  LET r == ReplaceBlocks(blocks, c, repl)
         IN  /\ r \in Seq(B)
             /\ \E p, g : Spliced(r, blocks, Managed(blocks, c), repl, p, g)
<1> DEFINE r == ReplaceBlocks(blocks, c, repl)
           n == Len(blocks)
           L == Len(repl)
           M == Managed(blocks, c)
           D == DOMAIN blocks \ M
           f == Selected(blocks, D)
           d == Cardinality(D)
           p == IF M = {} THEN d ELSE Min(M) - 1
           Place(i) == Rank(D, Ascending(D), i) + 1
           g == [i \in D |-> IF Place(i) <= p THEN Place(i) ELSE Place(i) + L]
<1>1. /\ n \in Nat /\ DOMAIN blocks = 1 .. n /\ M \in SUBSET (1 .. n)
      /\ D \in SUBSET (1 .. n) /\ L \in Nat /\ DOMAIN repl = 1 .. L
  BY DEF Managed
<1>2. /\ IsFiniteSet(D) /\ d \in Nat
      /\ DOMAIN f = 1 .. d /\ Orders(Ascending(D), D)
  <2> HIDE DEF D
  <2>1. D \in SUBSET Int /\ IsFiniteSet(D)
    BY <1>1, Positions
  <2> QED BY <2>1, SelectedIs, AscendingOrders
<1>3. /\ \A i \in D : Place(i) \in 1 .. d
      /\ \A i, j \in D : i < j <=> Place(i) < Place(j)
  <2>1. \A i, j \in D : i < j <=> <<i, j>> \in Ascending(D)
    BY <1>1 DEF Ascending
  <2> HIDE DEF D
  <2>2. /\ \A i \in D : Rank(D, Ascending(D), i) \in 0 .. d - 1
        /\ \A i, j \in D : <<i, j>> \in Ascending(D)
             <=> Rank(D, Ascending(D), i) < Rank(D, Ascending(D), j)
    BY <1>2, RankIs
  <2> HIDE DEF d
  <2>3. \A i \in D : Place(i) \in 1 .. d
    BY <1>2, <2>2
  <2>4. ASSUME NEW i \in D, NEW j \in D
        PROVE  i < j <=> Place(i) < Place(j)
    <3>1. Rank(D, Ascending(D), i) \in Int /\ Rank(D, Ascending(D), j) \in Int
      BY <1>2, <2>2
    <3>2. (i < j) <=> Rank(D, Ascending(D), i) < Rank(D, Ascending(D), j)
      BY <2>1, <2>2
    <3> QED BY <3>1, <3>2
  <2> QED BY <2>3, <2>4
<1>4. \A k \in 1 .. d : \E i \in D : Place(i) = k /\ f[k] = blocks[i]
  <2> HIDE DEF D
  <2> DEFINE at == InOrder(D, Ascending(D))
  <2>1. \A k \in 1 .. d : at[k] \in D /\ Rank(D, Ascending(D), at[k]) = k - 1
    BY <1>2, InOrderIs
  <2>2. \A k \in 1 .. d : f[k] = blocks[at[k]]
    BY DEF Selected, Arranged
  <2> HIDE DEF at, d
  <2> QED BY <1>2, <2>1, <2>2
<1>5. f \in Seq(B) /\ Len(f) = d
  <2>1. \A k \in 1 .. d : f[k] \in B
    <3>1. \A i \in D : blocks[i] \in B
      BY <1>1
    <3> HIDE DEF f, d, D, Place
    <3> QED BY <1>4, <3>1
  <2>2. f = [k \in 1 .. d |-> f[k]]
    BY DEF Selected, Arranged
  <2> HIDE DEF f, d, D
  <2> QED BY <1>2, <2>1, <2>2
<1>6. M # {} => /\ Min(M) \in M /\ p \in 0 .. n /\ 1 .. p \subseteq D
                /\ Min(M) = p + 1 /\ p + 1 \notin D
  <2> HAVE M # {}
  <2>1. Min(M) \in M /\ \A j \in M : Min(M) <= j
    <3>1. M \in SUBSET Nat
      BY <1>1
    <3> HIDE DEF M
    <3> QED BY <3>1, MinIs
  <2>2. Min(M) \in 1 .. n /\ p = Min(M) - 1 /\ D = (1 .. n) \ M
    BY <1>1, <2>1
  <2> HIDE DEF M, p, n, D
  <2>3. p \in 0 .. n /\ Min(M) = p + 1
    BY <1>1, <2>2
  <2>4. \A k \in 1 .. p : k \in D
    BY <1>1, <2>1, <2>2, <2>3
  <2>5. p + 1 \notin D
    BY <2>1, <2>2, <2>3
  <2> QED BY <2>1, <2>3, <2>4, <2>5
<1>7. M # {} => \A i \in D : i <= p <=> Place(i) <= p
  <2> HAVE M # {}
  <2> TAKE i \in D
  <2> HIDE DEF D, M, p
  <2>1. \A j \in 1 .. p : Place(j) = j
    <3> TAKE j \in 1 .. p
    <3>1. Rank(D, Ascending(D), j) = j - 1
      BY <1>1, <1>6, RankOfFirst
    <3>2. j \in Int
      OBVIOUS
    <3> QED BY <3>1, <3>2
  <2>2. CASE i <= p
    BY <1>1, <1>6, <2>1, <2>2
  <2>3. CASE i > p
    <3>1. CASE p = 0
      BY <1>1, <1>2, <1>3, <2>3, <3>1
    <3>2. CASE p # 0
      <4>1. p \in D /\ Place(p) = p /\ p \in Nat
        BY <1>6, <2>1, <3>2
      <4>2. Place(p) < Place(i)
        BY <1>3, <2>3, <4>1
      <4> HIDE DEF Place
      <4> QED BY <1>2, <1>3, <2>3, <4>1, <4>2
    <3> QED BY <3>1, <3>2
  <2> QED BY <1>1, <1>6, <2>2, <2>3
<1>8. p \in 0 .. d
  <2>1. CASE M = {}
    BY <1>2, <2>1
  <2>2. CASE M # {}
    <3> HIDE DEF D, M, p
    <3>1. CASE p = 0
      BY <1>2, <3>1
    <3>2. CASE p # 0
      <4>1. p \in D /\ Place(p) <= p /\ p \in 1 .. p
        BY <1>6, <1>7, <2>2, <3>2
      <4>2. Place(p) = p
        <5>1. Rank(D, Ascending(D), p) = p - 1
          BY <1>1, <1>6, <2>2, <4>1, RankOfFirst
        <5> QED BY <1>6, <2>2, <5>1
      <4> QED BY <1>2, <1>3, <4>1, <4>2
    <3> QED BY <3>1, <3>2
  <2> QED BY <2>1, <2>2
<1>9. /\ r \in Seq(B) /\ Len(r) = d + L /\ DOMAIN r = 1 .. d + L
      /\ \A k \in 1 .. p : r[k] = f[k]
      /\ \A k \in 1 .. L : r[p + k] = repl[k]
      /\ \A k \in p + 1 .. d : r[k + L] = f[k]
  <2> DEFINE a == SubSeq(f, 1, p)
             z == SubSeq(f, p + 1, d)
  <2>1. r = Join(Join(a, repl), z)
    BY <1>5 DEF ReplaceBlocks, DropBlocks, Join
  <2> HIDE DEF f, p, d, r
  <2>2. \A k \in 1 .. d : f[k] \in B
    BY <1>2, <1>5
  <2>3. a \in Seq(B) /\ Len(a) = p /\ \A k \in 1 .. p : a[k] = f[k]
    BY <1>2, <1>5, <1>8, <2>2
  <2>4. z \in Seq(B) /\ Len(z) = d - p /\ \A k \in 1 .. d - p : z[k] = f[p + k]
    BY <1>2, <1>5, <1>8, <2>2
  <2> HIDE DEF a, z, L
  <2> DEFINE b == Join(a, repl)
  <2>5. /\ b \in Seq(B) /\ Len(b) = p + L
        /\ \A k \in 1 .. p : b[k] = a[k]
        /\ \A k \in 1 .. L : b[p + k] = repl[k]
    <3>1. /\ b \in Seq(B) /\ Len(b) = Len(a) + Len(repl)
          /\ \A k \in 1 .. Len(a) : b[k] = a[k]
          /\ \A k \in 1 .. Len(repl) : b[Len(a) + k] = repl[k]
      <4>1. Joined(B, a, repl)
        BY <2>3, ConcatAt
      <4> QED BY <4>1 DEF Joined
    <3> HIDE DEF b
    <3>2. Len(a) = p /\ Len(repl) = L
      BY <2>3 DEF L
    <3> QED BY <3>1, <3>2 DEF b
  <2>6. /\ r \in Seq(B) /\ Len(r) = (p + L) + (d - p)
        /\ \A k \in 1 .. p + L : r[k] = b[k]
        /\ \A k \in 1 .. d - p : r[(p + L) + k] = z[k]
    <3> DEFINE q == p + L
               e == d - p
    <3>1. /\ b \in Seq(B) /\ Len(b) = q /\ Len(z) = e /\ r = Join(b, z)
          /\ q \in Nat /\ e \in Nat
      BY <1>1, <1>2, <1>8, <2>1, <2>4, <2>5
    <3> HIDE DEF b, q, e
    <3>2. /\ r \in Seq(B) /\ Len(r) = q + e
          /\ \A k \in 1 .. q : r[k] = b[k]
          /\ \A k \in 1 .. e : r[q + k] = z[k]
      <4>1. /\ r \in Seq(B) /\ Len(r) = Len(b) + Len(z)
            /\ \A k \in 1 .. Len(b) : r[k] = b[k]
            /\ \A k \in 1 .. Len(z) : r[Len(b) + k] = z[k]
        <5>1. Joined(B, b, z)
          BY <2>4, <3>1, ConcatAt
        <5> QED BY <3>1, <5>1 DEF Joined
      <4> QED BY <3>1, <4>1
    <3> QED BY <3>2 DEF q, e
  <2> HIDE DEF b
  <2>7. /\ Len(r) = d + L /\ DOMAIN r = 1 .. d + L
        /\ \A k \in 1 .. p : r[k] = f[k]
        /\ \A k \in 1 .. L : r[p + k] = repl[k]
    <3>1. Len(r) = d + L /\ DOMAIN r = 1 .. d + L
      BY <1>1, <1>2, <1>8, <2>6
    <3>2. \A k \in 1 .. p : k \in 1 .. p + L
      BY <1>1, <1>2, <1>8
    <3>3. \A k \in 1 .. L : p + k \in 1 .. p + L
      BY <1>1, <1>2, <1>8
    <3> QED BY <2>3, <2>5, <2>6, <3>1, <3>2, <3>3
  <2>8. \A k \in p + 1 .. d : r[k + L] = f[k]
    <3> TAKE k \in p + 1 .. d
    <3>1. k - p \in 1 .. d - p /\ (p + L) + (k - p) = k + L /\ p + (k - p) = k
      BY <1>1, <1>2, <1>8
    <3> QED BY <2>4, <2>6, <3>1
  <2> QED BY <2>6, <2>7, <2>8
<1>10. \A i \in D : /\ g[i] \in DOMAIN r /\ g[i] \notin p + 1 .. p + L
                    /\ r[g[i]] = blocks[i]
                    /\ (g[i] <= p <=> Place(i) <= p)
  <2> TAKE i \in D
  <2>1. f[Place(i)] = blocks[i]
    <3> HIDE DEF D, f, d
    <3>1. PICK j \in D : Place(j) = Place(i) /\ f[Place(i)] = blocks[j]
      BY <1>3, <1>4
    <3>2. i = j
      BY <1>1, <1>3, <3>1
    <3> QED BY <3>1, <3>2
  <2> HIDE DEF D, f, r, d, p, Place, L
  <2>2. g[i] = IF Place(i) <= p THEN Place(i) ELSE Place(i) + L
    OBVIOUS
  <2> HIDE DEF g
  <2> QED BY <1>1, <1>2, <1>3, <1>8, <1>9, <2>1, <2>2
<1>11. \A i, j \in D : i < j => g[i] < g[j]
  <2> HIDE DEF D, d, p, Place, L
  <2> QED BY <1>1, <1>2, <1>3, <1>8
<1>12. \A k \in DOMAIN r : k \in p + 1 .. p + L \/ \E i \in D : g[i] = k
  <2> HIDE DEF D, d, p, Place, L, r, f
  <2> SUFFICES ASSUME NEW k \in DOMAIN r, k \notin p + 1 .. p + L
               PROVE  \E i \in D : g[i] = k
    OBVIOUS
  <2>1. CASE k <= p
    <3>1. k \in 1 .. d
      BY <1>1, <1>2, <1>8, <1>9, <2>1
    <3>2. PICK i \in D : Place(i) = k
      BY <1>4, <3>1
    <3> QED BY <2>1, <3>2
  <2>2. CASE k > p + L
    <3>1. k - L \in 1 .. d /\ ~(k - L <= p)
      BY <1>1, <1>2, <1>8, <1>9, <2>2
    <3>2. PICK i \in D : Place(i) = k - L
      BY <1>4, <3>1
    <3>3. g[i] = (k - L) + L
      BY <3>1, <3>2
    <3> QED BY <1>1, <1>2, <1>9, <3>3
  <2> QED BY <1>1, <1>2, <1>8, <1>9, <2>1, <2>2
<1>13. Spliced(r, blocks, M, repl, p, g)
  <2>1. M # {} => Min(M) = p + 1 /\ \A i \in D : i <= p <=> g[i] <= p
    <3> HAVE M # {}
    <3>1. Min(M) = p + 1
      BY <1>6
    <3>2. \A i \in D : i <= p <=> Place(i) <= p
      BY <1>7
    <3>3. \A i \in D : g[i] <= p <=> Place(i) <= p
      BY <1>10
    <3> HIDE DEF D, M, p, g, Place
    <3> QED BY <3>1, <3>2, <3>3
  <2>2. p \in Nat /\ p + L <= Len(r)
    <3> HIDE DEF p, d, L, r
    <3> QED BY <1>1, <1>2, <1>8, <1>9
  <2>3. g \in [D -> DOMAIN r]
    <3> HIDE DEF D, r, p, L, Place
    <3> QED BY <1>10
  <2>4. /\ \A i \in D : r[g[i]] = blocks[i] /\ g[i] \notin p + 1 .. p + L
        /\ \A k \in 1 .. L : r[p + k] = repl[k]
    BY <1>9, <1>10
  <2> HIDE DEF M, p, r, g
  <2> QED BY <1>11, <1>12, <2>1, <2>2, <2>3, <2>4 DEF Spliced
<1> HIDE DEF r, p, g
<1> QED BY <1>9, <1>13 DEF r

\* What g moves keeps its order.
LEMMA SplicedSelection ==
  ASSUME NEW B, NEW blocks \in Seq(B), NEW r \in Seq(B), NEW repl \in Seq(B),
         NEW M, NEW p, NEW g, Spliced(r, blocks, M, repl, p, g),
         NEW S \in SUBSET (DOMAIN blocks \ M), NEW T \in SUBSET (DOMAIN r),
         \A k \in 1 .. Len(repl) : p + k \notin T,
         \A i \in DOMAIN blocks \ M : i \in S <=> g[i] \in T
  PROVE  Selected(r, T) = Selected(blocks, S) /\ Cardinality(T) = Cardinality(S)
<1> DEFINE D == DOMAIN blocks \ M
           h == [i \in S |-> g[i]]
<1>1. /\ Len(blocks) \in Nat /\ S \in SUBSET (1 .. Len(blocks))
      /\ Len(r) \in Nat /\ T \in SUBSET (1 .. Len(r)) /\ DOMAIN r = 1 .. Len(r)
      /\ Len(repl) \in Nat
  OBVIOUS
<1>2. /\ p \in Nat /\ g \in [D -> DOMAIN r]
      /\ \A i, j \in D : i < j => g[i] < g[j]
      /\ \A i \in D : r[g[i]] = blocks[i]
      /\ \A k \in DOMAIN r :
           k \in p + 1 .. p + Len(repl) \/ \E i \in D : g[i] = k
  BY DEF Spliced
<1>3. h \in [S -> T]
  BY <1>2
<1>4. \A j \in T : \E i \in S : h[i] = j
  <2> TAKE j \in T
  <2>1. j \notin p + 1 .. p + Len(repl)
    <3> SUFFICES ASSUME j \in p + 1 .. p + Len(repl) PROVE FALSE
      OBVIOUS
    <3>1. j - p \in 1 .. Len(repl) /\ p + (j - p) = j
      BY <1>1, <1>2
    <3> QED BY <3>1
  <2>2. PICK i \in D : g[i] = j
    BY <1>2, <2>1
  <2> QED BY <2>2
<1>5. \A i, j \in S : i < j => h[i] < h[j]
  BY <1>2
<1>6. \A i \in S : r[h[i]] = blocks[i]
  BY <1>2
<1> HIDE DEF h
<1>7. Corresponds(h, blocks, S, r, T)
  BY <1>3, <1>4, <1>5, <1>6 DEF Corresponds
<1>8. S \in SUBSET Int /\ T \in SUBSET Int /\ IsFiniteSet(S)
  <2>1. IsFiniteSet(S)
    BY <1>1, Positions
  <2> QED BY <1>1, <2>1
<1> QED BY <1>7, <1>8, SelectedMoves

\* A selection is a sequence, empty only if nothing is selected.
LEMMA SelectedType ==
  ASSUME NEW B, NEW s \in Seq(B), NEW S \in SUBSET (DOMAIN s)
  PROVE  /\ Selected(s, S) \in Seq(B)
         /\ \A k \in DOMAIN Selected(s, S) :
              \E i \in S : Selected(s, S)[k] = s[i]
         /\ Selected(s, S) # <<>> <=> S # {}
<1>1. Len(s) \in Nat /\ DOMAIN s = 1 .. Len(s) /\ S \in SUBSET (1 .. Len(s))
  OBVIOUS
<1>2. IsFiniteSet(S) /\ Cardinality(S) \in Nat /\ S \in SUBSET Int
  <2>1. IsFiniteSet(S) /\ S \in SUBSET Int
    BY <1>1, Positions
  <2> QED BY <2>1, FS_CardinalityType
<1> DEFINE at == InOrder(S, Ascending(S))
<1>3. /\ at \in [1 .. Cardinality(S) -> S]
      /\ Selected(s, S) = [k \in 1 .. Cardinality(S) |-> s[at[k]]]
  BY <1>2, SelectedIs
<1> HIDE DEF at
<1>4. \A k \in 1 .. Cardinality(S) : s[at[k]] \in B
  BY <1>1, <1>3
<1>5. Selected(s, S) \in Seq(B) /\ Len(Selected(s, S)) = Cardinality(S)
  BY <1>2, <1>3, <1>4
<1>6. Cardinality(S) = 0 <=> S = {}
  BY <1>2, FS_EmptySet
<1>7. Selected(s, S) = <<>> <=> Cardinality(S) = 0
  BY <1>2, <1>5
<1> QED BY <1>2, <1>3, <1>5, <1>6, <1>7

\* replaceBlocks: a component's blocks are the replacement.
LEMMA OwnReplaced ==
  ASSUME NEW B, NEW blocks \in Seq(B), NEW r \in Seq(B), NEW c,
         NEW repl \in Seq(B), \A k \in DOMAIN repl : Matches(c, repl[k]),
         NEW p, NEW g, Spliced(r, blocks, Managed(blocks, c), repl, p, g)
  PROVE  /\ AllBlocks(r, c) = repl
         /\ Managed(r, c) = p + 1 .. p + Len(repl)
<1> DEFINE M == Managed(blocks, c)
           D == DOMAIN blocks \ M
           L == Len(repl)
           T == p + 1 .. p + L
           h == [k \in 1 .. L |-> p + k]
<1>1. /\ L \in Nat /\ DOMAIN repl = 1 .. L /\ Len(r) \in Nat
      /\ DOMAIN r = 1 .. Len(r)
  OBVIOUS
<1>2. /\ p \in Nat /\ p + L <= Len(r)
      /\ \A i \in D : r[g[i]] = blocks[i] /\ g[i] \notin T
      /\ \A k \in DOMAIN r : k \in T \/ \E i \in D : g[i] = k
      /\ \A k \in 1 .. L : r[p + k] = repl[k]
  BY DEF Spliced
<1>3. \A k \in T : k - p \in 1 .. L /\ p + (k - p) = k
  BY <1>1, <1>2
<1>4. T \in SUBSET (1 .. Len(r))
  BY <1>1, <1>2
<1>5. Managed(r, c) = T
  <2>1. \A k \in T : Matches(c, r[k])
    <3> TAKE k \in T
    <3>1. r[k] = repl[k - p]
      BY <1>2, <1>3
    <3> QED BY <1>1, <1>3, <3>1
  <2>2. \A k \in DOMAIN r \ T : ~Matches(c, r[k])
    <3> TAKE k \in DOMAIN r \ T
    <3>1. PICK i \in D : g[i] = k
      BY <1>2
    <3>2. r[k] = blocks[i] /\ ~Matches(c, blocks[i])
      BY <1>2, <3>1 DEF Managed
    <3> QED BY <3>2
  <2> HIDE DEF T
  <2> QED BY <1>1, <1>4, <2>1, <2>2 DEF Managed
<1>6. Selected(r, T) = Selected(repl, 1 .. L)
  <2>1. 1 .. L \in SUBSET (1 .. L) /\ h \in [1 .. L -> T]
    BY <1>1, <1>2
  <2>2. \A j \in T : \E i \in 1 .. L : h[i] = j
    <3> TAKE j \in T
    <3>1. j - p \in 1 .. L /\ h[j - p] = j
      BY <1>3
    <3> QED BY <3>1
  <2>3. \A i, j \in 1 .. L : i < j => h[i] < h[j]
    BY <1>1, <1>2
  <2>4. \A i \in 1 .. L : r[h[i]] = repl[i]
    BY <1>2
  <2> HIDE DEF h, T, L
  <2> DEFINE S == 1 .. L
  <2>5. Corresponds(h, repl, S, r, T)
    BY <2>1, <2>2, <2>3, <2>4 DEF Corresponds
  <2>6. S \in SUBSET Int /\ IsFiniteSet(S) /\ T \in SUBSET Int
    BY <1>1, <1>4, FS_Interval
  <2> HIDE DEF S
  <2>7. Selected(r, T) = Selected(repl, S)
    BY <2>5, <2>6, SelectedMoves
  <2> QED BY <2>7 DEF S
<1>7. Selected(repl, 1 .. L) = repl
  <2>1. repl = [k \in 1 .. L |-> repl[k]]
    BY <1>1
  <2> HIDE DEF L
  <2> QED BY <1>1, <2>1, SelectedAll
<1> QED BY <1>5, <1>6, <1>7 DEF AllBlocks

\* The first of some positions is the one that is.
LEMMA MinIsThat ==
  ASSUME NEW S \in SUBSET Nat, NEW v \in S, \A j \in S : v <= j
  PROVE  Min(S) = v
<1>1. Min(S) \in S /\ \A j \in S : Min(S) <= j
  BY MinIs
<1>2. Min(S) \in Nat /\ v \in Nat /\ Min(S) <= v /\ v <= Min(S)
  BY <1>1
<1> QED BY <1>2

\* The positions of the blocks of a kind.
Of(blocks, kind) == {i \in DOMAIN blocks : blocks[i] \in kind}

\* Blocks of a kind that the component does not match are only moved.
LEMMA KindMoves ==
  ASSUME NEW B, NEW blocks \in Seq(B), NEW r \in Seq(B), NEW c,
         NEW repl \in Seq(B), \A k \in DOMAIN repl : Matches(c, repl[k]),
         NEW p, NEW g, Spliced(r, blocks, Managed(blocks, c), repl, p, g),
         NEW kind, \A v \in kind : ~Matches(c, v)
  PROVE  LET D == DOMAIN blocks \ Managed(blocks, c)
         IN  /\ Of(blocks, kind) \in SUBSET D
             /\ Of(r, kind) \in SUBSET (DOMAIN r)
             /\ \A k \in 1 .. Len(repl) : p + k \notin Of(r, kind)
             /\ \A i \in D : i \in Of(blocks, kind) <=> g[i] \in Of(r, kind)
             /\ \A k \in Of(r, kind) : \E i \in Of(blocks, kind) : g[i] = k
<1> DEFINE D == DOMAIN blocks \ Managed(blocks, c)
           L == Len(repl)
<1>1. L \in Nat /\ DOMAIN repl = 1 .. L
  OBVIOUS
<1>2. /\ p \in Nat /\ p + L <= Len(r) /\ g \in [D -> DOMAIN r]
      /\ \A i \in D : r[g[i]] = blocks[i]
      /\ \A k \in DOMAIN r : k \in p + 1 .. p + L \/ \E i \in D : g[i] = k
      /\ \A k \in 1 .. L : r[p + k] = repl[k]
  BY DEF Spliced
<1>3. Of(blocks, kind) \in SUBSET D
  BY DEF Of, Managed
<1>4. \A k \in 1 .. L : p + k \notin Of(r, kind)
  BY <1>1, <1>2 DEF Of
<1>5. \A i \in D : i \in Of(blocks, kind) <=> g[i] \in Of(r, kind)
  BY <1>2 DEF Of
<1>6. \A k \in Of(r, kind) : \E i \in Of(blocks, kind) : g[i] = k
  <2> TAKE k \in Of(r, kind)
  <2>1. k \notin p + 1 .. p + L
    <3> SUFFICES ASSUME k \in p + 1 .. p + L PROVE FALSE
      OBVIOUS
    <3>1. k - p \in 1 .. L /\ p + (k - p) = k
      BY <1>1, <1>2
    <3> QED BY <1>4, <3>1
  <2>2. PICK i \in D : g[i] = k
    BY <1>2, <2>1 DEF Of
  <2> QED BY <1>5, <2>2
<1> QED BY <1>3, <1>4, <1>5, <1>6 DEF Of

\* What the n-th component matches, and what none of a target does.
Owned(n) == {b \in Blocks : Matches(Form[n], b)}
\* The blocks that no component with the target manages.
Foreign(t) == {b \in Blocks : \A n \in DOMAIN Form :
                                Form[n].target = t => ~Matches(Form[n], b)}

\* Whether a block is managed is a matter of the block alone.
LEMMA Kinds ==
  ASSUME NEW blocks \in Seq(Blocks)
  PROVE  /\ \A n \in DOMAIN Form :
              Managed(blocks, Form[n]) = Of(blocks, Owned(n))
         /\ \A t : UnmanagedAt(t, blocks) = Of(blocks, Foreign(t))
<1>1. \A i \in DOMAIN blocks : blocks[i] \in Blocks
  OBVIOUS
<1> HIDE DEF Blocks
<1> QED BY <1>1 DEF Managed, UnmanagedAt, Of, Owned, Foreign

\* The blocks of one component, and where the unmanaged ones are around it.
AheadKept(r, blocks, c) ==
  AllBlocks(blocks, c) # <<>> /\ AllBlocks(r, c) # <<>>
    => Ahead(r, c) = Ahead(blocks, c)

\* Another component's turn keeps a component's blocks.
LEMMA OthersTurn ==
  ASSUME NEW blocks \in Seq(Blocks), NEW r \in Seq(Blocks),
         NEW n \in DOMAIN Form, NEW o \in DOMAIN Form, o # n,
         Form[o].target = Form[n].target,
         NEW repl \in Seq(Blocks),
         \A k \in DOMAIN repl : Matches(Form[n], repl[k]),
         NEW p, NEW g,
         Spliced(r, blocks, Managed(blocks, Form[n]), repl, p, g)
  PROVE  /\ AllBlocks(r, Form[o]) = AllBlocks(blocks, Form[o])
         /\ AheadKept(r, blocks, Form[o])
<1> DEFINE D == DOMAIN blocks \ Managed(blocks, Form[n])
           t == Form[o].target
           S == Of(blocks, Owned(o))
           T == Of(r, Owned(o))
           U == Of(blocks, Foreign(t))
           V == Of(r, Foreign(t))
<1>1. \A v \in Owned(o) : ~Matches(Form[n], v)
  BY FormAssumption DEF Owned, Matches
<1>2. \A v \in Foreign(t) : ~Matches(Form[n], v)
  BY DEF Foreign
<1>3. /\ S = Managed(blocks, Form[o]) /\ T = Managed(r, Form[o])
      /\ U = UnmanagedAt(t, blocks) /\ V = UnmanagedAt(t, r)
  BY Kinds
<1> HIDE DEF t
<1>4. /\ S \in SUBSET D /\ T \in SUBSET (DOMAIN r)
      /\ \A k \in 1 .. Len(repl) : p + k \notin T
      /\ \A i \in D : i \in S <=> g[i] \in T
      /\ \A k \in T : \E i \in S : g[i] = k
  BY <1>1, KindMoves
<1>5. /\ U \in SUBSET D /\ V \in SUBSET (DOMAIN r)
      /\ \A k \in 1 .. Len(repl) : p + k \notin V
      /\ \A i \in D : i \in U <=> g[i] \in V
  BY <1>2, KindMoves
<1> HIDE DEF S, T, U, V
<1>6. Selected(r, T) = Selected(blocks, S)
  BY <1>4, SplicedSelection
<1>7. AllBlocks(r, Form[o]) = AllBlocks(blocks, Form[o])
  BY <1>3, <1>6 DEF AllBlocks
<1>8. ASSUME AllBlocks(blocks, Form[o]) # <<>>
      PROVE  Ahead(r, Form[o]) = Ahead(blocks, Form[o])
  <2>1. S # {}
    <3>1. S \in SUBSET (DOMAIN blocks) /\ Selected(blocks, S) # <<>>
      BY <1>3, <1>4, <1>8 DEF AllBlocks
    <3> QED BY <3>1, SelectedType
  <2>2. DOMAIN blocks \in SUBSET Nat /\ DOMAIN r \in SUBSET Nat
    OBVIOUS
  <2> DEFINE m == Min(S)
  <2>3. m \in S /\ \A j \in S : m <= j
    BY <1>4, <2>1, <2>2, MinIs
  <2>4. /\ g \in [D -> DOMAIN r]
        /\ \A i, j \in D : i < j => g[i] < g[j]
    BY DEF Spliced
  <2>5. m \in D /\ m \in Nat /\ \A i \in D : i \in Nat /\ g[i] \in Nat
    BY <1>4, <2>2, <2>3, <2>4
  <2>6. \A i \in D : i < m <=> g[i] < g[m]
    <3> TAKE i \in D
    <3> HIDE DEF D, m
    <3>1. i < m \/ i = m \/ m < i
      BY <2>5
    <3> QED BY <2>4, <2>5, <3>1
  <2>7. Min(T) = g[m]
    <3>1. g[m] \in T
      BY <1>4, <2>3
    <3>2. \A k \in T : g[m] <= k
      <4> TAKE k \in T
      <4>1. PICK i \in S : g[i] = k
        BY <1>4
      <4>2. i \in D /\ ~(i < m)
        BY <1>4, <2>3, <2>5, <4>1
      <4> QED BY <2>5, <2>6, <4>1, <4>2
    <3>3. T \in SUBSET Nat
      BY <1>4, <2>2
    <3> HIDE DEF m
    <3> QED BY <3>1, <3>2, <3>3, MinIsThat
  <2> DEFINE P == {i \in U : i < m}
             Q == {i \in V : i < g[m]}
  <2>8. /\ P \in SUBSET D /\ Q \in SUBSET (DOMAIN r)
        /\ \A k \in 1 .. Len(repl) : p + k \notin Q
        /\ \A i \in D : i \in P <=> g[i] \in Q
    BY <1>5, <2>6
  <2> HIDE DEF P, Q
  <2>9. Cardinality(Q) = Cardinality(P)
    BY <2>8, SplicedSelection
  <2> QED BY <1>3, <2>7, <2>9 DEF P, Q, Ahead, t
<1> QED BY <1>7, <1>8 DEF AheadKept

\* The component's own turn leaves it the replacement, in its place.
LEMMA OwnTurn ==
  ASSUME NEW blocks \in Seq(Blocks), NEW r \in Seq(Blocks),
         NEW n \in DOMAIN Form, NEW repl \in Seq(Blocks),
         \A k \in DOMAIN repl : Matches(Form[n], repl[k]),
         NEW p, NEW g,
         Spliced(r, blocks, Managed(blocks, Form[n]), repl, p, g)
  PROVE  /\ AllBlocks(r, Form[n]) = repl
         /\ AheadKept(r, blocks, Form[n])
         /\ Unmanaged(Form[n].target, r) = Unmanaged(Form[n].target, blocks)
<1> DEFINE M == Managed(blocks, Form[n])
           D == DOMAIN blocks \ M
           t == Form[n].target
           U == Of(blocks, Foreign(t))
           V == Of(r, Foreign(t))
           L == Len(repl)
<1>1. \A v \in Foreign(t) : ~Matches(Form[n], v)
  BY DEF Foreign
<1>2. U = UnmanagedAt(t, blocks) /\ V = UnmanagedAt(t, r)
  BY Kinds
<1>3. /\ AllBlocks(r, Form[n]) = repl
      /\ Managed(r, Form[n]) = p + 1 .. p + L
  BY OwnReplaced
<1> HIDE DEF t
<1>4. /\ U \in SUBSET D /\ V \in SUBSET (DOMAIN r)
      /\ \A k \in 1 .. Len(repl) : p + k \notin V
      /\ \A i \in D : i \in U <=> g[i] \in V
  BY <1>1, KindMoves
<1> HIDE DEF U, V
<1>5. Selected(r, V) = Selected(blocks, U)
  BY <1>4, SplicedSelection
<1>6. Unmanaged(t, r) = Unmanaged(t, blocks)
  BY <1>2, <1>5 DEF Unmanaged
<1>7. ASSUME AllBlocks(blocks, Form[n]) # <<>>, AllBlocks(r, Form[n]) # <<>>
      PROVE  Ahead(r, Form[n]) = Ahead(blocks, Form[n])
  <2>1. M # {}
    <3>1. M \in SUBSET (DOMAIN blocks) /\ Selected(blocks, M) # <<>>
      BY <1>7 DEF AllBlocks, Managed
    <3> HIDE DEF M
    <3> QED BY <3>1, SelectedType
  <2>2. L \in Nat \ {0}
    BY <1>3, <1>7
  <2>3. p \in Nat /\ Min(M) = p + 1 /\ \A i \in D : i <= p <=> g[i] <= p
    BY <2>1 DEF Spliced
  <2>4. Min(p + 1 .. p + L) = p + 1
    <3> DEFINE S == p + 1 .. p + L
    <3>1. S \in SUBSET Nat /\ p + 1 \in S /\ \A j \in S : p + 1 <= j
      BY <2>2, <2>3
    <3> HIDE DEF S
    <3>2. Min(S) = p + 1
      BY <3>1, MinIsThat
    <3> QED BY <3>2 DEF S
  <2> DEFINE P == {i \in U : i < p + 1}
             Q == {i \in V : i < p + 1}
  <2>5. /\ P \in SUBSET D /\ Q \in SUBSET (DOMAIN r)
        /\ \A k \in 1 .. Len(repl) : p + k \notin Q
    BY <1>4
  <2>6. \A i \in D : i \in P <=> g[i] \in Q
    <3> TAKE i \in D
    <3>1. i \in Nat /\ g[i] \in Nat
      BY DEF Spliced
    <3>2. i < p + 1 <=> g[i] < p + 1
      BY <2>3, <3>1
    <3> QED BY <1>4, <3>2
  <2> HIDE DEF P, Q
  <2>7. Cardinality(Q) = Cardinality(P)
    BY <2>5, <2>6, SplicedSelection
  <2> QED BY <1>2, <1>3, <2>3, <2>4, <2>7 DEF P, Q, Ahead, t
<1> QED BY <1>3, <1>6, <1>7 DEF AheadKept, t

\* Induction on the naturals, for a set of them.
LEMMA NatInductionSet ==
  ASSUME NEW S, 0 \in S, \A n \in Nat : n \in S => n + 1 \in S
  PROVE  Nat \subseteq S
<1> DEFINE T == Nat \ S
<1> SUFFICES ASSUME T # {} PROVE FALSE
  OBVIOUS
<1>1. T \in SUBSET Nat
  OBVIOUS
<1>2. Min(T) \in T /\ \A j \in T : Min(T) <= j
  <2> HIDE DEF T
  <2> QED BY <1>1, MinIs
<1>3. Min(T) # 0 /\ Min(T) \in Nat
  BY <1>2
<1>4. Min(T) - 1 \in Nat /\ Min(T) - 1 \notin T /\ (Min(T) - 1) + 1 = Min(T)
  BY <1>2, <1>3
<1> QED BY <1>2, <1>4

-----------------------------------------------------------------------------
(* The turns of ApplyAll *)

\* A component has a name and a type.
LEMMA FormTypes ==
  ASSUME NEW n \in DOMAIN Form
  PROVE  /\ Form[n].name \in Seq(STRING) /\ Form[n].type \in STRING
         /\ Form[n].name \in Names /\ Len(Form) \in Nat
         /\ DOMAIN Form = 1 .. Len(Form)
<1> DEFINE C == [name : Seq(STRING), target : STRING, type : STRING]
<1>1. Form \in Seq(C)
  BY FormAssumption
<1> HIDE DEF C
<1>2. Form[n] \in C /\ Len(Form) \in Nat /\ DOMAIN Form = 1 .. Len(Form)
  BY <1>1
<1>3. Form[n].name \in Seq(STRING) /\ Form[n].type \in STRING
  BY <1>2 DEF C
<1> QED BY <1>2, <1>3 DEF Names

\* The segments of a field's key.
Segments == STRING \cup {"value"}

\* The key of a field ends in the one segment of Field.
LEMMA FieldIs ==
  /\ Field \in Seq(Segments) /\ Len(Field) = 1 /\ Field[1] = "value"
  /\ \A k \in Seq(STRING) : k \in Seq(Segments)
<1>1. "value" \in Segments /\ STRING \subseteq Segments
  BY DEF Segments
<1>2. ASSUME NEW v \in Segments
      PROVE  <<v>> \in Seq(Segments) /\ Len(<<v>>) = 1 /\ <<v>>[1] = v
  OBVIOUS
<1> QED BY <1>1, <1>2, SeqMonotonic DEF Field

\* stripPrefix: a component's field is its name and the field's.
LEMMA ParsedField ==
  ASSUME NEW f \in Submissions, NEW n \in DOMAIN Form
  PROVE  LET values == ParseValues(f)[Form[n].name]
         IN  /\ Field \in DOMAIN values <=> Key(n) \in DOMAIN f
             /\ Key(n) \in DOMAIN f => values[Field] = f[Key(n)]
<1> DEFINE name == Form[n].name
           own == {k \in DOMAIN f : IsStrictPrefix(name, k)}
           Rest(k) == SubSeq(k, Len(name) + 1, Len(k))
           values == ParseValues(f)[name]
<1>1. name \in Seq(Segments) /\ name \in Names
  BY FormTypes, FieldIs
<1>2. values = [rest \in {Rest(k) : k \in own} |-> f[name \o rest]]
  BY <1>1 DEF ParseValues, StripPrefix
<1>3. \A k \in DOMAIN f : k \in Seq(Segments)
  BY ApplicationAssumption, FieldIs
<1> HIDE DEF name
<1> DEFINE key == name \o Field
<1>4. /\ key \in Seq(Segments) /\ Len(key) = Len(name) + 1
      /\ \A i \in 1 .. Len(name) : key[i] = name[i]
      /\ key[Len(name) + 1] = "value" /\ Len(name) \in Nat
  <2>1. /\ key \in Seq(Segments) /\ Len(key) = Len(name) + Len(Field)
        /\ \A i \in 1 .. Len(name) + Len(Field) :
             key[i] = IF i <= Len(name) THEN name[i] ELSE Field[i - Len(name)]
    BY <1>1, FieldIs, ConcatProperties
  <2>2. Len(name) \in Nat
    BY <1>1
  <2> HIDE DEF key
  <2>3. /\ Len(name) + 1 \in 1 .. Len(name) + Len(Field)
        /\ ~(Len(name) + 1 <= Len(name)) /\ (Len(name) + 1) - Len(name) = 1
    BY <2>2, FieldIs
  <2>4. key[Len(name) + 1] = "value"
    BY <2>1, <2>3, FieldIs
  <2>5. \A i \in 1 .. Len(name) : key[i] = name[i]
    BY <2>1, <2>2, FieldIs
  <2> QED BY <2>1, <2>2, <2>4, <2>5, FieldIs
<1> HIDE DEF key
<1>5. ASSUME key \in DOMAIN f
      PROVE  key \in own /\ Rest(key) = Field
  <2>1. SubSeq(key, 1, Len(name)) = SubSeq(name, 1, Len(name))
    <3>1. SubSeq(key, 1, Len(name)) \in Seq(Segments)
      BY <1>4
    <3>2. SubSeq(name, 1, Len(name)) \in Seq(Segments)
      BY <1>1
    <3> QED BY <1>1, <1>4, <3>1, <3>2
  <2>2. key # name /\ Len(name) <= Len(key)
    BY <1>4
  <2>3. Rest(key) = Field
    <3>1. Rest(key) = SubSeq(key, Len(name) + 1, Len(name) + 1)
      BY <1>4
    <3>2. /\ Rest(key) \in Seq(Segments) /\ Len(Rest(key)) = 1
          /\ Rest(key)[1] = "value"
      BY <1>4, <3>1
    <3> HIDE DEF Rest
    <3> QED BY <3>2, FieldIs, SeqEqual
  <2> QED BY <1>5, <2>1, <2>2, <2>3 DEF IsStrictPrefix, IsPrefix
<1>6. ASSUME NEW k \in own, Rest(k) = Field
      PROVE  k = key
  <2>1. /\ k \in Seq(Segments) /\ Len(name) <= Len(k) /\ k # name
        /\ SubSeq(name, 1, Len(name)) = SubSeq(k, 1, Len(name))
    BY <1>3 DEF IsStrictPrefix, IsPrefix
  <2>2. \A i \in 1 .. Len(name) : k[i] = name[i]
    <3> TAKE i \in 1 .. Len(name)
    <3>1. SubSeq(name, 1, Len(name))[i] = name[i]
      BY <1>1
    <3>2. SubSeq(k, 1, Len(name))[i] = k[i]
      BY <1>4, <2>1
    <3> QED BY <2>1, <3>1, <3>2
  <2>3. Len(Rest(k)) = 1 /\ Rest(k)[1] = "value"
    BY <1>6, FieldIs
  <2>4. Len(k) = Len(name) + 1 /\ k[Len(name) + 1] = "value"
    BY <1>4, <2>1, <2>3
  <2>5. \A i \in 1 .. Len(k) : k[i] = key[i]
    BY <1>4, <2>2, <2>4
  <2> QED BY <1>4, <2>1, <2>4, <2>5, SeqEqual
<1>7. Field \in DOMAIN values <=> key \in DOMAIN f
  BY <1>2, <1>5, <1>6
<1>8. key \in DOMAIN f => values[Field] = f[key]
  BY <1>2, <1>5 DEF key
<1>9. key = Key(n)
  BY DEF key, Key, name
<1> QED BY <1>7, <1>8, <1>9 DEF name

\* The blocks a component makes of its field.
Filled(n, f) ==
  [i \in DOMAIN f[Key(n)] |-> [type |-> Form[n].type, val |-> f[Key(n)][i]]]

\* Component.Apply returns blocks of the component.
LEMMA Applied ==
  ASSUME NEW f \in Submissions, NEW n \in DOMAIN Form,
         NEW blocks \in Seq(Blocks)
  PROVE  LET repl == Apply(Form[n], AllBlocks(blocks, Form[n]),
                           ParseValues(f)[Form[n].name])
         IN  /\ repl \in Seq(Blocks)
             /\ \A k \in DOMAIN repl : Matches(Form[n], repl[k])
             /\ repl = IF Key(n) \in DOMAIN f THEN Filled(n, f)
                       ELSE AllBlocks(blocks, Form[n])
<1> DEFINE c == Form[n]
           values == ParseValues(f)[c.name]
           repl == Apply(c, AllBlocks(blocks, c), values)
<1>1. repl = IF Key(n) \in DOMAIN f THEN Filled(n, f) ELSE AllBlocks(blocks, c)
  <2>1. /\ Field \in DOMAIN values <=> Key(n) \in DOMAIN f
        /\ Key(n) \in DOMAIN f => values[Field] = f[Key(n)]
    BY ParsedField
  <2> HIDE DEF values
  <2> QED BY <2>1 DEF Apply, Filled
<1> HIDE DEF repl
<1>2. CASE Key(n) \in DOMAIN f
  <2> DEFINE v == f[Key(n)]
  <2>1. v \in Seq(Int) /\ c.type \in STRING
    BY <1>2, ApplicationAssumption, FormTypes
  <2>2. Filled(n, f) = [i \in 1 .. Len(v) |-> [type |-> c.type, val |-> v[i]]]
    BY <2>1 DEF Filled
  <2> HIDE DEF v, c
  <2>3. \A i \in 1 .. Len(v) : [type |-> c.type, val |-> v[i]] \in Blocks
    BY <2>1 DEF Blocks
  <2>4. Filled(n, f) \in Seq(Blocks)
    BY <2>1, <2>2, <2>3
  <2>5. \A k \in DOMAIN Filled(n, f) : Matches(c, Filled(n, f)[k])
    BY <2>2 DEF Matches
  <2> QED BY <1>1, <1>2, <2>4, <2>5 DEF repl, c
<1>3. CASE Key(n) \notin DOMAIN f
  <2>1. Managed(blocks, c) \in SUBSET (DOMAIN blocks)
    BY DEF Managed
  <2>2. /\ AllBlocks(blocks, c) \in Seq(Blocks)
        /\ \A k \in DOMAIN AllBlocks(blocks, c) :
             \E i \in Managed(blocks, c) : AllBlocks(blocks, c)[k] = blocks[i]
    BY <2>1, SelectedType DEF AllBlocks
  <2>3. \A k \in DOMAIN AllBlocks(blocks, c) :
          Matches(c, AllBlocks(blocks, c)[k])
    BY <2>2 DEF Managed
  <2> QED BY <1>1, <1>3, <2>2, <2>3 DEF repl
<1> QED BY <1>2, <1>3

\* Documents, and the blocks of the n-th component in one.
Docs == [DOMAIN StartDoc -> Seq(Blocks)]
\* The blocks of the n-th component's target, and its own of them.
In(d, n) == d[Form[n].target]
Has(d, n) == AllBlocks(In(d, n), Form[n])

\* d after the turns of the components up to m: those have what was
\* submitted for them, the unmanaged blocks and the other components' are as
\* they were, and the components have stayed where they were among them.
Turned(e, d, m, f) ==
  /\ e \in Docs
  /\ \A t \in DOMAIN StartDoc : Unmanaged(t, e[t]) = Unmanaged(t, d[t])
  /\ \A n \in DOMAIN Form : AheadKept(In(e, n), In(d, n), Form[n])
  /\ \A n \in DOMAIN Form :
       Has(e, n) = IF n <= m /\ Key(n) \in DOMAIN f THEN Filled(n, f)
                   ELSE Has(d, n)

\* One turn.
LEMMA OneApplied ==
  ASSUME NEW d \in Docs, NEW n \in DOMAIN Form, NEW f \in Submissions
  PROVE  LET e == ApplyOne(d, Form[n], ParseValues(f))
         IN  /\ e \in Docs
             /\ \A t \in DOMAIN StartDoc :
                  Unmanaged(t, e[t]) = Unmanaged(t, d[t])
             /\ \A o \in DOMAIN Form :
                  AheadKept(In(e, o), In(d, o), Form[o])
             /\ \A o \in DOMAIN Form : o # n => Has(e, o) = Has(d, o)
             /\ Has(e, n) = IF Key(n) \in DOMAIN f THEN Filled(n, f)
                            ELSE Has(d, n)
<1> DEFINE c == Form[n]
           u == c.target
           b == d[u]
           repl == Apply(c, AllBlocks(b, c), ParseValues(f)[c.name])
           r == ReplaceBlocks(b, c, repl)
           e == ApplyOne(d, c, ParseValues(f))
<1>1. u \in DOMAIN StartDoc /\ b \in Seq(Blocks) /\ DOMAIN d = DOMAIN StartDoc
  BY ApplicationAssumption DEF Docs
<1>2. e = [d EXCEPT ![u] = r]
  BY DEF ApplyOne
<1>3. /\ repl \in Seq(Blocks)
      /\ \A k \in DOMAIN repl : Matches(c, repl[k])
      /\ repl = IF Key(n) \in DOMAIN f THEN Filled(n, f) ELSE AllBlocks(b, c)
  BY <1>1, Applied
<1> HIDE DEF repl
<1>4. r \in Seq(Blocks) /\ \E p, g : Spliced(r, b, Managed(b, c), repl, p, g)
  BY <1>1, <1>3, ReplaceSplices
<1>5. PICK p, g : Spliced(r, b, Managed(b, c), repl, p, g)
  BY <1>4
<1> HIDE DEF r, e
<1>6. /\ AllBlocks(r, c) = repl /\ AheadKept(r, b, c)
      /\ Unmanaged(u, r) = Unmanaged(u, b)
  BY <1>1, <1>3, <1>4, <1>5, OwnTurn
<1>7. \A o \in DOMAIN Form : o # n /\ Form[o].target = u =>
        /\ AllBlocks(r, Form[o]) = AllBlocks(b, Form[o])
        /\ AheadKept(r, b, Form[o])
  BY <1>1, <1>3, <1>4, <1>5, OthersTurn
<1>8. /\ e \in Docs /\ e[u] = r
      /\ \A t \in DOMAIN StartDoc : t # u => e[t] = d[t]
  BY <1>1, <1>2, <1>4 DEF Docs
<1> HIDE DEF c, u, b
<1>9. \A t \in DOMAIN StartDoc : Unmanaged(t, e[t]) = Unmanaged(t, d[t])
  BY <1>6, <1>8 DEF b
<1>10. \A o \in DOMAIN Form : /\ AheadKept(In(e, o), In(d, o), Form[o])
                              /\ o # n => Has(e, o) = Has(d, o)
  <2> TAKE o \in DOMAIN Form
  <2>1. Form[o].target \in DOMAIN StartDoc
    BY ApplicationAssumption
  <2>2. CASE Form[o].target = u
    BY <1>6, <1>7, <1>8, <2>2 DEF In, Has, b, c
  <2>3. CASE Form[o].target # u
    BY <1>8, <2>1, <2>3 DEF In, Has, AheadKept
  <2> QED BY <2>2, <2>3
<1>11. Has(e, n) = IF Key(n) \in DOMAIN f THEN Filled(n, f) ELSE Has(d, n)
  BY <1>3, <1>6, <1>8 DEF In, Has, b, c, u
<1> QED BY <1>8, <1>9, <1>10, <1>11 DEF e, c

\* Before the first turn nothing has changed.
LEMMA TurnedStarts ==
  ASSUME NEW d \in Docs, NEW f
  PROVE  Turned(d, d, 0, f)
<1>1. \A n \in DOMAIN Form : ~(n <= 0)
  BY FormTypes
<1> QED BY <1>1 DEF Turned, AheadKept

\* One turn of ApplyAll's loop: the next component has what was submitted for
\* it, and the others and the unmanaged blocks what they had.
LEMMA TurnedSteps ==
  ASSUME NEW d \in Docs, NEW f \in Submissions, NEW m \in Nat,
         m + 1 \in DOMAIN Form, NEW e, Turned(e, d, m, f)
  PROVE  Turned(ApplyOne(e, Form[m + 1], ParseValues(f)), d, m + 1, f)
<1> DEFINE n == m + 1
           a == ApplyOne(e, Form[n], ParseValues(f))
<1>1. /\ e \in Docs
      /\ \A t \in DOMAIN StartDoc : Unmanaged(t, e[t]) = Unmanaged(t, d[t])
      /\ \A o \in DOMAIN Form : AheadKept(In(e, o), In(d, o), Form[o])
      /\ \A o \in DOMAIN Form :
           Has(e, o) = IF o <= m /\ Key(o) \in DOMAIN f THEN Filled(o, f)
                       ELSE Has(d, o)
  BY DEF Turned
<1>2. n \in DOMAIN Form /\ n \in Nat /\ ~(n <= m) /\ n <= n
  OBVIOUS
<1> HIDE DEF n
<1>3. /\ a \in Docs
      /\ \A t \in DOMAIN StartDoc : Unmanaged(t, a[t]) = Unmanaged(t, e[t])
      /\ \A o \in DOMAIN Form : AheadKept(In(a, o), In(e, o), Form[o])
      /\ \A o \in DOMAIN Form : o # n => Has(a, o) = Has(e, o)
      /\ Has(a, n) = IF Key(n) \in DOMAIN f THEN Filled(n, f) ELSE Has(e, n)
  BY <1>1, <1>2, OneApplied
<1> HIDE DEF a
<1>4. \A o \in DOMAIN Form : o # n => (o <= n <=> o <= m)
  <2>1. \A o \in DOMAIN Form : o \in Nat
    BY FormTypes
  <2> QED BY <2>1 DEF n
<1>5. \A o \in DOMAIN Form :
        Has(a, o) = IF o <= n /\ Key(o) \in DOMAIN f THEN Filled(o, f)
                    ELSE Has(d, o)
  <2> TAKE o \in DOMAIN Form
  <2>1. CASE o = n
    BY <1>1, <1>2, <1>3, <2>1
  <2>2. CASE o # n
    BY <1>1, <1>3, <1>4, <2>2
  <2> QED BY <2>1, <2>2
<1>6. \A o \in DOMAIN Form : AheadKept(In(a, o), In(d, o), Form[o])
  <2> TAKE o \in DOMAIN Form
  <2> SUFFICES ASSUME Has(d, o) # <<>>, Has(a, o) # <<>>
               PROVE  Ahead(In(a, o), Form[o]) = Ahead(In(d, o), Form[o])
    BY DEF AheadKept, Has
  <2>1. Has(e, o) # <<>>
    <3>1. CASE o = n
      BY <1>1, <1>2, <3>1
    <3>2. CASE o # n
      BY <1>3, <3>2
    <3> QED BY <3>1, <3>2
  <2> QED BY <1>1, <1>3, <2>1 DEF AheadKept, Has
<1> QED BY <1>1, <1>3, <1>5, <1>6 DEF Turned, n, a

\* ApplyAll's loop.
Turns(F, m, d, f) ==
  F = [i \in 0 .. m |-> IF i = 0 THEN d
                        ELSE ApplyOne(F[i - 1], Form[i], ParseValues(f))]

\* The loop has a result after any number of turns.
LEMMA TurnsExist ==
  ASSUME NEW d, NEW f, NEW m \in Nat
  PROVE  \E F : Turns(F, m, d, f)
<1> DEFINE S == {k \in Nat : \E F : Turns(F, k, d, f)}
<1>1. 0 \in S
  <2> DEFINE F == [i \in 0 .. 0 |-> d]
  <2>1. Turns(F, 0, d, f)
    <3>1. \A i \in 0 .. 0 : i = 0
      OBVIOUS
    <3> QED BY <3>1 DEF Turns
  <2> QED BY <2>1
<1>2. ASSUME NEW k \in Nat, k \in S
      PROVE  k + 1 \in S
  <2>1. PICK F : Turns(F, k, d, f)
    BY <1>2
  <2> DEFINE last == ApplyOne(F[k], Form[k + 1], ParseValues(f))
             G == [i \in 0 .. k + 1 |-> IF i <= k THEN F[i] ELSE last]
  <2>2. ASSUME NEW i \in 0 .. k + 1
        PROVE  G[i] = IF i = 0 THEN d
                      ELSE ApplyOne(G[i - 1], Form[i], ParseValues(f))
    <3>1. CASE i = 0
      BY <2>1, <3>1 DEF Turns
    <3>2. CASE i # 0 /\ i <= k
      <4>1. i \in 0 .. k /\ i - 1 \in 0 .. k + 1 /\ i - 1 <= k
        BY <3>2
      <4>2. G[i] = F[i] /\ G[i - 1] = F[i - 1]
        BY <3>2, <4>1
      <4> HIDE DEF G
      <4> QED BY <2>1, <3>2, <4>1, <4>2 DEF Turns
    <3>3. CASE i = k + 1
      <4>1. G[i] = last /\ G[i - 1] = F[k] /\ i # 0
        BY <3>3
      <4> HIDE DEF G
      <4> QED BY <3>3, <4>1
    <3> QED BY <3>1, <3>2, <3>3
  <2>3. G = [i \in 0 .. k + 1 |-> G[i]]
    OBVIOUS
  <2> HIDE DEF G
  <2>4. Turns(G, k + 1, d, f)
    BY <2>2, <2>3 DEF Turns
  <2> QED BY <2>4
<1> HIDE DEF S
<1>3. Nat \subseteq S
  BY <1>1, <1>2, NatInductionSet
<1> QED BY <1>3 DEF S

\* ApplyAll is all of the turns.
LEMMA AllTurned ==
  ASSUME NEW d \in Docs, NEW f \in Submissions
  PROVE  Turned(ApplyAll(d, f), d, Len(Form), f)
<1>1. Len(Form) \in Nat /\ DOMAIN Form = 1 .. Len(Form)
  BY FormAssumption
<1> DEFINE F == CHOOSE F : Turns(F, Len(Form), d, f)
<1>2. ApplyAll(d, f) = F[Len(Form)]
  BY DEF ApplyAll, Turns
<1>3. Turns(F, Len(Form), d, f)
  BY <1>1, TurnsExist
<1> HIDE DEF F
<1> DEFINE S == {k \in Nat : k <= Len(Form) => Turned(F[k], d, k, f)}
<1>4. 0 \in S
  <2>1. F[0] = d
    BY <1>1, <1>3 DEF Turns
  <2> QED BY <2>1, TurnedStarts
<1>5. ASSUME NEW k \in Nat, k \in S
      PROVE  k + 1 \in S
  <2> SUFFICES ASSUME k + 1 <= Len(Form)
               PROVE  Turned(F[k + 1], d, k + 1, f)
    OBVIOUS
  <2>1. Turned(F[k], d, k, f) /\ k + 1 \in DOMAIN Form
    BY <1>1, <1>5
  <2>2. F[k + 1] = ApplyOne(F[k], Form[k + 1], ParseValues(f))
    <3>1. /\ k + 1 \in 0 .. Len(Form) /\ k + 1 # 0 /\ (k + 1) - 1 = k
      BY <1>1
    <3> QED BY <1>3, <3>1 DEF Turns
  <2> QED BY <2>1, <2>2, TurnedSteps
<1> HIDE DEF S
<1>6. Nat \subseteq S
  BY <1>4, <1>5, NatInductionSet
<1>7. Turned(F[Len(Form)], d, Len(Form), f)
  BY <1>1, <1>6 DEF S
<1> QED BY <1>2, <1>7

-----------------------------------------------------------------------------
(* The menu is the page's own *)

\* By weight and then by position is an order.
LEMMA ByWeightOrders ==
  ASSUME NEW menu \in Seq(MenuItems)
  PROVE  Orders(ByWeight(menu), DOMAIN menu)
<1>1. \A i \in DOMAIN menu : i \in Int /\ menu[i].weight \in Int
  <2>1. \A i \in DOMAIN menu : i \in Int /\ menu[i] \in MenuItems
    OBVIOUS
  <2> QED BY <2>1 DEF MenuItems, Weights
<1>2. \A i, j \in DOMAIN menu : <<i, j>> \in ByWeight(menu) <=>
        \/ menu[i].weight < menu[j].weight
        \/ menu[i].weight = menu[j].weight /\ i < j
  BY DEF ByWeight
<1> QED BY <1>1, <1>2 DEF Orders

\* SortMenuItems: the items by weight, each once.
LEMMA Sorted ==
  ASSUME NEW menu \in Seq(MenuItems)
  PROVE  LET n == Len(menu)
             at == InOrder(DOMAIN menu, ByWeight(menu))
         IN  /\ SortMenuItems(menu) = [k \in 1 .. n |-> menu[at[k]]]
             /\ at \in [1 .. n -> 1 .. n]
             /\ \A i \in 1 .. n : \E k \in 1 .. n : at[k] = i
             /\ \A j, k \in 1 .. n :
                  j < k <=> <<at[j], at[k]>> \in ByWeight(menu)
<1> DEFINE n == Len(menu)
           S == DOMAIN menu
           at == InOrder(S, ByWeight(menu))
<1>1. S = 1 .. n /\ n \in Nat
  OBVIOUS
<1>2. IsFiniteSet(S) /\ Cardinality(S) = n
  BY <1>1, FS_Interval
<1>3. Orders(ByWeight(menu), S)
  BY ByWeightOrders
<1>4. SortMenuItems(menu) = [k \in 1 .. n |-> menu[at[k]]]
  BY <1>2 DEF SortMenuItems, Arranged
<1> HIDE DEF S, n
<1>5. /\ at \in [1 .. Cardinality(S) -> S]
      /\ \A i \in S : \E k \in 1 .. Cardinality(S) : at[k] = i
      /\ \A j, k \in 1 .. Cardinality(S) :
           j < k <=> <<at[j], at[k]>> \in ByWeight(menu)
  BY <1>2, <1>3, InOrderIs
<1> QED BY <1>1, <1>2, <1>4, <1>5 DEF S, n

\* What RenderPage makes of the items, told by where each of them was.
LEMMA MenuOfIs ==
  ASSUME NEW path \in Paths
  PROVE  MenuFits(MenuOf(path), path)
<1> DEFINE menu == MenuOf(path)
           all == Registered \o OwnItems[path]
           left == {i \in DOMAIN all : all[i].title \notin Hidden[path]}
           n == Len(all)
           sorted == SortMenuItems(all)
           a == InOrder(DOMAIN all, ByWeight(all))
           K == {k \in DOMAIN sorted : sorted[k].title \notin Hidden[path]}
           m == Cardinality(K)
           b == InOrder(K, Ascending(K))
           altered == Alter(sorted, path)
           place == [k \in 1 .. m |-> a[b[k]]]
<1>1. all \in Seq(MenuItems)
  <2>1. Registered \in Seq(MenuItems) /\ OwnItems[path] \in Seq(MenuItems)
    BY ApplicationAssumption DEF Paths
  <2> QED BY <2>1
<1>2. n \in Nat /\ DOMAIN all = 1 .. n /\ \A i \in 1 .. n : all[i] \in MenuItems
  <2> HIDE DEF all
  <2> QED BY <1>1
<1>3. /\ sorted = [k \in 1 .. n |-> all[a[k]]]
      /\ a \in [1 .. n -> 1 .. n]
      /\ \A i \in 1 .. n : \E k \in 1 .. n : a[k] = i
      /\ \A j, k \in 1 .. n : j < k <=> <<a[j], a[k]>> \in ByWeight(all)
  <2> HIDE DEF all
  <2> QED BY <1>1, Sorted
<1> HIDE DEF sorted, a, n
<1>4. K \in SUBSET (1 .. n) /\ \A k \in 1 .. n : k \in K <=> a[k] \in left
  BY <1>2, <1>3
<1> HIDE DEF K
<1>5. /\ m \in Nat /\ altered = [k \in 1 .. m |-> sorted[b[k]]]
      /\ b \in [1 .. m -> K]
      /\ \A i \in K : \E k \in 1 .. m : b[k] = i
      /\ \A j, k \in 1 .. m : j < k <=> b[j] < b[k]
  <2>1. altered = Selected(sorted, K)
    BY DEF Alter, K
  <2>2. K \in SUBSET Int /\ IsFiniteSet(K)
    BY <1>2, <1>4, Positions
  <2> QED BY <2>1, <2>2, SelectedIs
<1> HIDE DEF m, b, altered
<1>6. \A k \in 1 .. m : /\ b[k] \in 1 .. n /\ place[k] \in left
                        /\ altered[k] = all[place[k]]
  BY <1>3, <1>4, <1>5
<1>7. menu = [k \in 1 .. m |->
                [altered[k] EXCEPT !.active =
                   altered[k].href \in {path, Crumb[path]}]]
  BY <1>5 DEF MenuOf, MarkActive, altered, sorted
<1>8. place \in Bijection(1 .. m, left)
  <2>1. place \in [1 .. m -> left]
    BY <1>6
  <2>2. ASSUME NEW j \in 1 .. m, NEW k \in 1 .. m, place[j] = place[k]
        PROVE  j = k
    <3>1. b[j] \in 1 .. n /\ b[k] \in 1 .. n /\ a[b[j]] = a[b[k]]
      BY <1>6, <2>2
    <3>2. Orders(ByWeight(all), 1 .. n)
      <4> HIDE DEF all
      <4> QED BY <1>1, <1>2, ByWeightOrders
    <3>3. ~(b[j] < b[k]) /\ ~(b[k] < b[j])
      BY <1>3, <3>1, <3>2 DEF Orders
    <3>4. ~(j < k) /\ ~(k < j)
      BY <1>5, <3>3
    <3> QED BY <1>5, <3>4
  <2>3. ASSUME NEW i \in left
        PROVE  \E k \in 1 .. m : place[k] = i
    <3>1. PICK l \in 1 .. n : a[l] = i
      BY <1>2, <1>3
    <3>2. PICK k \in 1 .. m : b[k] = l
      BY <1>4, <1>5, <3>1
    <3> QED BY <3>1, <3>2
  <2> HIDE DEF place, left
  <2> QED BY <2>1, <2>2, <2>3
       DEF Bijection, Injection, Surjection, IsInjective
<1>9. \A k \in 1 .. m : /\ place[k] \in 1 .. n
                        /\ menu[k] = [all[place[k]] EXCEPT !.active =
                             all[place[k]].href \in {path, Crumb[path]}]
                        /\ menu[k].weight = all[place[k]].weight
  <2> TAKE k \in 1 .. m
  <2> DEFINE it == all[place[k]]
  <2>1. place[k] \in 1 .. n /\ it \in MenuItems
    BY <1>2, <1>6
  <2>2. menu[k] = [it EXCEPT !.active = it.href \in {path, Crumb[path]}]
    BY <1>6, <1>7
  <2> HIDE DEF it, menu
  <2>3. menu[k].weight = it.weight
    BY <2>1, <2>2 DEF MenuItems
  <2> QED BY <2>1, <2>2, <2>3 DEF it
<1>10. DOMAIN menu = 1 .. m
  BY <1>7
<1>11. ASSUME NEW j \in 1 .. m, NEW k \in 1 .. m, j < k
       PROVE  \/ menu[j].weight < menu[k].weight
              \/ menu[j].weight = menu[k].weight /\ place[j] < place[k]
  <2>1. b[j] \in 1 .. n /\ b[k] \in 1 .. n /\ b[j] < b[k]
    BY <1>5, <1>6, <1>11
  <2>2. <<place[j], place[k]>> \in ByWeight(all)
    BY <1>3, <2>1
  <2> HIDE DEF place, menu, all
  <2> QED BY <1>9, <2>2 DEF ByWeight
<1> HIDE DEF place, menu, all, left
<1>12. \E q \in Bijection(DOMAIN menu, left) :
         /\ \A j, k \in DOMAIN menu : j < k =>
              \/ menu[j].weight < menu[k].weight
              \/ menu[j].weight = menu[k].weight /\ q[j] < q[k]
         /\ \A k \in DOMAIN menu : menu[k] =
              [all[q[k]] EXCEPT !.active =
                 all[q[k]].href \in {path, Crumb[path]}]
  <2>1. place \in Bijection(DOMAIN menu, left)
    BY <1>8, <1>10
  <2> WITNESS place \in Bijection(DOMAIN menu, left)
  <2> QED BY <1>9, <1>10, <1>11
<1> QED BY <1>12 DEF MenuFits, menu, all, left

\* RenderPage: however requests interleave, a page's menu has the items left
\* for it, each once, by weight and in order of registration, and marks the
\* entries of its own page.
THEOREM MenuIsThePages == Spec => []MenuIsOwn
<1>1. ASSUME PagesInv PROVE MenuIsOwn
  <2>1. ASSUME NEW c \in Clients, HasAnswer(c, "page")
        PROVE  /\ Answer(c).menu = MenuOf(conn[c].page.path)
               /\ conn[c].page.path \in Paths
    <3>1. conn[c].pc = "idle" /\ conn[c].out # <<>> /\ Answer(c).kind = "page"
      BY <2>1 DEF HasAnswer
    <3>2. \E o : conn[c].out = <<o>> /\ Fits(conn[c], o)
      BY <1>1, <3>1 DEF PagesInv, ConnInv, Sound, Coherent
    <3> QED
      BY <3>1, <3>2 DEF Answer, Fits
  <2> QED
    BY <2>1, MenuOfIs DEF MenuIsOwn
<1> QED
  BY <1>1, InvAlways, PTL

-----------------------------------------------------------------------------
(* The form shows what was saved *)

\* The document has the application's targets, and shows what was saved.
DocInv == doc \in Docs /\ SavedIsShown

\* A submission is applied, or the document stays.
LEMMA DocSteps ==
  ASSUME PagesInv, [Next]_vars
  PROVE  \/ doc' = doc /\ shown' = shown
         \/ \E f \in Submissions :
              /\ doc' = ApplyAll(doc, f)
              /\ shown' = [i \in DOMAIN Form |->
                   IF Key(i) \in DOMAIN f THEN f[Key(i)] ELSE shown[i]]
<1>1. ASSUME NEW c \in Clients, SubmitForm(c)
      PROVE  \E f \in Submissions :
               /\ doc' = ApplyAll(doc, f)
               /\ shown' = [i \in DOMAIN Form |->
                    IF Key(i) \in DOMAIN f THEN f[Key(i)] ELSE shown[i]]
  <2>1. conn[c].pc = "serve" /\ conn[c].req.what.kind = "post"
    BY <1>1 DEF SubmitForm, Serving
  <2>2. conn[c].req.what.form \in Submissions
    BY <2>1, UnderWay DEF PagesInv, Sound, Made
  <2> QED BY <1>1, <2>2 DEF SubmitForm
<1>2. CASE UNCHANGED vars
  BY <1>2 DEF vars
<1>3. CASE Next
  <2>1. PICK c \in Clients :
          \/ Get(c) \/ Post(c) \/ Pick(c) \/ Stray(c)
          \/ Refuse(c) \/ ServePage(c) \/ SubmitForm(c) \/ RejectForm(c)
          \/ SetLanguage(c) \/ HandlerFails(c)
          \/ Prepare(c) \/ Execute(c) \/ ExecuteFails(c) \/ ErrorPage(c)
    BY <1>3 DEF Next
  <2>2. CASE Get(c) \/ Post(c) \/ Pick(c) \/ Stray(c)
    BY <2>2 DEF Get, Post, Pick, Stray, Request
  <2>3. CASE SubmitForm(c)
    BY <1>1, <2>3
  <2>4. CASE Refuse(c)
    BY <2>4 DEF Refuse
  <2>5. CASE ServePage(c)
    BY <2>5 DEF ServePage
  <2>6. CASE RejectForm(c)
    BY <2>6 DEF RejectForm
  <2>7. CASE SetLanguage(c)
    BY <2>7 DEF SetLanguage
  <2>8. CASE HandlerFails(c)
    BY <2>8 DEF HandlerFails
  <2>9. CASE Prepare(c)
    BY <2>9 DEF Prepare
  <2>10. CASE Execute(c)
    BY <2>10 DEF Execute
  <2>11. CASE ExecuteFails(c)
    BY <2>11 DEF ExecuteFails
  <2>12. CASE ErrorPage(c)
    BY <2>12 DEF ErrorPage
  <2> QED BY <2>1, <2>2, <2>3, <2>4, <2>5, <2>6, <2>7, <2>8,
             <2>9, <2>10, <2>11, <2>12
<1> QED BY <1>2, <1>3

\* What a document shows.
LEMMA Shows ==
  ASSUME NEW d
  PROVE  ExtractAll(d) = [n \in DOMAIN Form |-> ValuesOf(Has(d, n))]
BY DEF ExtractAll, Has, In

\* A step keeps the document and what was saved last in agreement.
LEMMA DocKept ==
  ASSUME PagesInv, DocInv, [Next]_vars
  PROVE  DocInv'
<1>1. CASE doc' = doc /\ shown' = shown
  BY <1>1 DEF DocInv, SavedIsShown
<1>2. ASSUME NEW f \in Submissions, doc' = ApplyAll(doc, f),
             shown' = [i \in DOMAIN Form |->
               IF Key(i) \in DOMAIN f THEN f[Key(i)] ELSE shown[i]]
      PROVE  DocInv'
  <2> DEFINE d == doc
             e == ApplyAll(doc, f)
  <2>1. Turned(e, d, Len(Form), f)
    BY AllTurned DEF DocInv
  <2>2. /\ e \in Docs
        /\ \A n \in DOMAIN Form : Has(e, n) =
             IF n <= Len(Form) /\ Key(n) \in DOMAIN f THEN Filled(n, f)
             ELSE Has(d, n)
    BY <2>1 DEF Turned
  <2>3. \A n \in DOMAIN Form : n <= Len(Form)
    BY FormAssumption
  <2>4. ASSUME NEW n \in DOMAIN Form
        PROVE  ValuesOf(Has(e, n)) = IF Key(n) \in DOMAIN f THEN f[Key(n)]
                                     ELSE shown[n]
    <3>1. CASE Key(n) \in DOMAIN f
      <4>1. Has(e, n) = Filled(n, f)
        BY <2>2, <2>3, <3>1
      <4>2. f[Key(n)] \in Seq(Int)
        BY <3>1, ApplicationAssumption
      <4>3. ValuesOf(Filled(n, f)) = f[Key(n)]
        <5> DEFINE v == f[Key(n)]
        <5>1. v = [i \in DOMAIN v |-> v[i]]
          BY <4>2
        <5>2. ValuesOf(Filled(n, f)) = [i \in DOMAIN v |-> v[i]]
          <6> HIDE DEF v
          <6> QED BY DEF ValuesOf, Filled, v
        <5> QED BY <5>1, <5>2
      <4> QED BY <3>1, <4>1, <4>3
    <3>2. CASE Key(n) \notin DOMAIN f
      <4>1. Has(e, n) = Has(d, n)
        BY <2>2, <3>2
      <4>2. shown[n] = ValuesOf(Has(d, n))
        BY Shows DEF DocInv, SavedIsShown
      <4> QED BY <3>2, <4>1, <4>2
    <3> QED BY <3>1, <3>2
  <2>5. ExtractAll(e) = shown'
    <3> HIDE DEF e, d
    <3> QED BY <1>2, <2>4, Shows
  <2>6. SavedIsShown'
    <3>1. \A x : x = doc' => ExtractAll(x) = ExtractAll(doc)'
      BY DEF ExtractAll, ValuesOf, AllBlocks, Selected, Arranged, InOrder, Rank,
         Ascending, Managed, Matches
    <3> QED BY <1>2, <2>5, <3>1 DEF SavedIsShown
  <2>7. (doc \in Docs)'
    BY <1>2, <2>2 DEF Docs
  <2> QED BY <2>6, <2>7 DEF DocInv
<1> QED BY <1>1, <1>2, DocSteps

\* The document always shows what was saved last.
LEMMA DocAlways == Spec => []DocInv
<1>1. Init => DocInv
  BY ApplicationAssumption DEF Init, DocInv, Docs, SavedIsShown
<1>2. PagesInv /\ DocInv /\ [Next]_vars => DocInv'
  BY DocKept
<1> QED
  BY <1>1, <1>2, InvAlways, PTL DEF Spec

\* ParseValues, ApplyAll and ExtractAll: over any sequence of submissions the
\* form shows, for every component, the values last submitted for it.
THEOREM FormShowsSaved == Spec => []SavedIsShown
<1>1. DocInv => SavedIsShown
  BY DEF DocInv
<1> QED
  BY <1>1, DocAlways, PTL

\* replaceBlocks: no submission drops, adds or reorders a block that no
\* component manages, nor moves a component's blocks among them.
THEOREM UnmanagedBlocksStay == Spec => UnmanagedStay
<1> DEFINE Stay ==
      /\ DOMAIN doc' = DOMAIN doc
      /\ \A t \in DOMAIN doc : Unmanaged(t, doc'[t]) = Unmanaged(t, doc[t])
      /\ \A i \in DOMAIN Form :
           LET c == Form[i]
               t == c.target
           IN  /\ AllBlocks(doc[t], c) # <<>>
               /\ AllBlocks(doc'[t], c) # <<>>
               => Ahead(doc'[t], c) = Ahead(doc[t], c)
<1>1. ASSUME PagesInv, DocInv, [Next]_vars, doc' # doc
      PROVE  Stay
  <2>1. PICK f \in Submissions : doc' = ApplyAll(doc, f)
    BY <1>1, DocSteps
  <2>2. Turned(doc', doc, Len(Form), f)
    BY <1>1, <2>1, AllTurned DEF DocInv
  <2>3. DOMAIN doc' = DOMAIN StartDoc /\ DOMAIN doc = DOMAIN StartDoc
    BY <1>1, <2>2 DEF Turned, Docs, DocInv
  <2> QED
    BY <2>2, <2>3 DEF Turned, AheadKept, In
<1>2. PagesInv /\ DocInv /\ [Next]_vars => [doc' # doc => Stay]_vars
  BY <1>1
<1> QED
  BY <1>2, InvAlways, DocAlways, PTL DEF Spec, UnmanagedStay

=============================================================================
