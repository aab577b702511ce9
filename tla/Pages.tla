------------------------------- MODULE Pages -------------------------------
(***************************************************************************)
(* Requests to a PageMux (page_mux.go, page.go, menu.go, application.go):  *)
(* the site check, a handler, the rendering of its page with the visitor's *)
(* language and the menu, and the error pages.  Handlers are the           *)
(* application's: a page with a menu of its own, a document form, handlers *)
(* that fail, and howdah's own set-language.                               *)
(*                                                                         *)
(* Requests of different clients interleave.  What they share is the       *)
(* PageRenderer: its templates with their functions, and its menu.  A      *)
(* request works on clones of both; a slice or a template set is           *)
(* therefore modelled with where it lives, its own memory or the           *)
(* renderer's.  A mux without a renderer (NewApplication never makes one)  *)
(* is left out.                                                            *)
(***************************************************************************)
EXTENDS DocForm

CONSTANTS
  Clients,      \* browsers and tools, each with a cookie jar of its own
  Sources,      \* request makers: who, and the headers that come along
  Trusted,      \* the makers whose writes the application acts on
  Host,         \* the host the application is reached at
  Scheme,       \* the scheme requests arrive over, behind the ingress
  Registered,   \* the menu items of the hooks, in order of registration
  OwnItems,     \* path -> the items a page there adds
  Crumb,        \* path -> href of its first breadcrumb, or NoHref
  Hidden,       \* path -> titles an alter hook removes there
  Languages,    \* languages with translations
  Accept,       \* client -> its Accept-Language
  Wanted,       \* languages a visitor may ask for; NoLanguage: the default
  FormPath,     \* the path of the form's page
  Submissions,  \* forms that may be posted
  StartDoc,     \* the document before the first of them
  MaxRequests   \* bound: requests

NoHref == "no href"
NoLanguage == ""
English == "en"
Absent == "absent"   \* a header or a cookie that is not there
NoOrigin == [scheme |-> Absent, host |-> Absent]

ASSUME PagesAssumption ==
  /\ English \in Languages /\ {NoLanguage, Absent} \cap Languages = {}
  /\ MaxRequests \in Nat /\ FormPath \in DOMAIN OwnItems
  /\ DOMAIN OwnItems = DOMAIN Crumb /\ DOMAIN OwnItems = DOMAIN Hidden

\* Weights whose differences, by which SortMenuItems compares, fit an int of
\* either width: half of the 32-bit range.
Weights == {w \in Int : -(2 ^ 30) <= w /\ w < 2 ^ 30}

\* The application's menu items, document and forms.
MenuItems ==
  [title : STRING, href : STRING, weight : Weights, active : BOOLEAN]
ASSUME ApplicationAssumption ==
  /\ Registered \in Seq(MenuItems)
  /\ \A p \in DOMAIN OwnItems : OwnItems[p] \in Seq(MenuItems)
  /\ StartDoc \in [DOMAIN StartDoc -> Seq(Blocks)]
  /\ \A i \in DOMAIN Form : Form[i].target \in DOMAIN StartDoc
  /\ \A f \in Submissions : \A k \in DOMAIN f :
       k \in Seq(STRING) /\ f[k] \in Seq(Int)

\* What browsers send along: Sec-Fetch-Site tells the application's own pages
\* and the visitor from other sites, and a browser without it names another
\* site in Origin; nothing trusted names a host other than this one.
ASSUME BrowserAssumption ==
  \A s \in Sources :
    IF s.from \in Trusted
      THEN \/ s.site \in {"same-origin", "none"}
           \/ s.site = Absent /\ (s.origin = NoOrigin \/ s.origin.host = Host)
      ELSE \/ s.site \notin {"same-origin", "none", Absent}
           \/ /\ s.site = Absent /\ s.origin # NoOrigin
              /\ s.origin.host # Host

VARIABLES
  doc,        \* the document the form edits
  shown,      \* history: what the saves so far make each component show
  renderer,   \* the PageRenderer: its menu and its templates' functions
  conn,       \* client -> its request and how far it has come
  lang,       \* client -> its lang cookie
  picked,     \* history: client -> the language it last asked for
  requests    \* requests made

vars == <<doc, shown, renderer, conn, lang, picked, requests>>

Paths == DOMAIN OwnItems

-----------------------------------------------------------------------------
(* The site check *)

SameHost(r) == r.origin.host = Host

\* Mutant of CheckRequestSite: a sibling application counts as this one.
CheckRequestSiteSibling(r) ==
  \/ r.method = "GET"
  \/ r.site \in {"same-origin", "same-site", "none"}
  \/ r.site = Absent /\ (r.origin = NoOrigin \/ SameHost(r))

\* Mutant of CheckRequestSite: the whole origin is compared.
CheckRequestSiteScheme(r) ==
  \/ r.method = "GET"
  \/ r.site \in {"same-origin", "none"}
  \/ r.site = Absent /\ (\/ r.origin = NoOrigin
                         \/ SameHost(r) /\ r.origin.scheme = Scheme)

\* checkRequestSite: safe methods pass, and otherwise Sec-Fetch-Site, or
\* Origin without it, has to say that the request comes from here.
CheckRequestSite(r) ==
  \/ r.method = "GET"
  \/ r.site \in {"same-origin", "none"}
  \/ r.site = Absent /\ (r.origin = NoOrigin \/ SameHost(r))

-----------------------------------------------------------------------------
(* The menu *)

\* Hooks.Collect: what the hooks return, in order of registration.
Collect == Registered

\* SortMenuItems: by weight, stable.
ByWeight(menu) ==
  LET At == DOMAIN menu
  IN  {p \in At \X At :
         \/ menu[p[1]].weight < menu[p[2]].weight
         \/ menu[p[1]].weight = menu[p[2]].weight /\ p[1] < p[2]}
SortMenuItems(menu) == Arranged(menu, DOMAIN menu, ByWeight(menu))

\* Hooks.Alter, with an application's hook that hides items.
Alter(menu, path) ==
  Selected(menu, {k \in DOMAIN menu : menu[k].title \notin Hidden[path]})

\* The items marked as the ones the page is under.
MarkActive(menu, path) ==
  [k \in DOMAIN menu |->
     [menu[k] EXCEPT !.active = menu[k].href \in {path, Crumb[path]}]]

\* Mutant of Clone: the renderer's own array.
Alias(items) == [own |-> FALSE, items |-> items]

\* slices.Clone: an array of the request's own.
Clone(items) == [own |-> TRUE, items |-> items]

\* RenderPage: the clone, with the page's items, in order and marked.
PageMenu(page) ==
  LET all == SortMenuItems(renderer.menu \o OwnItems[page.path])
  IN  Clone(MarkActive(Alter(all, page.path), page.path))

-----------------------------------------------------------------------------
(* The language *)

\* Localizer: the cookie's language or English, and then Accept-Language for
\* the texts that have no translation in it.
Localizer(r) ==
  LET setting == IF r.lang \in {Absent, NoLanguage} THEN English ELSE r.lang
      fallback == IF r.accept \in Languages THEN r.accept ELSE English
  IN  [lang |-> setting,
       text |-> IF setting \in Languages THEN setting ELSE fallback]

\* Mutant of LocaleTemplate: the functions go into the renderer's templates.
LocaleTemplateShared(r) == [own |-> FALSE, funcs |-> Localizer(r)]

\* localeTemplate: a clone of the templates, with the request's functions.
LocaleTemplate(r) == [own |-> TRUE, funcs |-> Localizer(r)]

\* setLanguage: the cookie the browser has after the response; asking for
\* none expires it.
LangCookie(choice) == IF choice = NoLanguage THEN Absent ELSE choice

-----------------------------------------------------------------------------
(* Responses *)

NoRequest == [from |-> Absent]
NoPage == [path |-> Absent, status |-> 0, contents |-> <<>>]
NoTemplate == [own |-> TRUE, funcs |-> [lang |-> English, text |-> English]]
Idle == [pc |-> "idle", req |-> NoRequest, page |-> NoPage, code |-> 0,
         menu |-> Clone(<<>>), tpl |-> NoTemplate, out |-> <<>>]

\* A rendered page, an error page, and a response the handler wrote itself.
PageOut(status, funcs, menu, contents) ==
  [kind |-> "page", status |-> status, funcs |-> funcs, menu |-> menu,
   contents |-> contents]
ErrorOut(code, funcs, whole) ==
  [kind |-> "error", status |-> code, funcs |-> funcs, whole |-> whole]
OwnOut == [kind |-> "own"]
Torn == [kind |-> "torn"]   \* the beginning of a page

\* What is left to look at of a request that has reached its handler.
Served(r) == [lang |-> r.lang, accept |-> r.accept, picked |-> r.picked]

Answered(c, out) == [conn[c] EXCEPT !.pc = "idle", !.out = out]
OwnAnswer(c) == [Idle EXCEPT !.req = Served(conn[c].req), !.out = <<OwnOut>>]
PageReturned(c, path, status) ==
  [Idle EXCEPT !.pc = "page", !.req = Served(conn[c].req),
               !.page = [path |-> path, status |-> status,
                         contents |-> ExtractAll(doc)]]

-----------------------------------------------------------------------------
(* Requests *)

Request(c, s, what) ==
  /\ conn[c].pc = "idle" /\ requests < MaxRequests
  /\ requests' = requests + 1
  /\ conn' = [conn EXCEPT ![c] =
       [Idle EXCEPT !.pc = "serve",
          !.req = [from |-> s.from, site |-> s.site, origin |-> s.origin,
                   method |-> IF what.kind = "post" THEN "POST" ELSE "GET",
                   what |-> what, lang |-> lang[c], accept |-> Accept[c],
                   picked |-> picked[c]]]]
  /\ UNCHANGED <<doc, shown, renderer, lang, picked>>

Get(c) == \E p \in Paths, s \in Sources :
  Request(c, s, [kind |-> "get", path |-> p])
Post(c) == \E f \in Submissions, s \in Sources :
  Request(c, s, [kind |-> "post", form |-> f])
Pick(c) == \E l \in Wanted, s \in Sources :
  Request(c, s, [kind |-> "language", choice |-> l])
Stray(c) == \E e \in {"typed", "untyped", "skip"}, s \in Sources :
  Request(c, s, [kind |-> "fails", err |-> e])

\* PageMux.Handle: the request is refused, and its error rendered.
Refuse(c) ==
  /\ conn[c].pc = "serve" /\ ~CheckRequestSite(conn[c].req)
  /\ conn' = [conn EXCEPT ![c].pc = "error", ![c].code = 403]
  /\ UNCHANGED <<doc, shown, renderer, lang, picked, requests>>

\* The request passes the site check, and its handler is of this kind.
Serving(c, kind) ==
  /\ conn[c].pc = "serve" /\ conn[c].req.what.kind = kind
  /\ CheckRequestSite(conn[c].req)

\* The handler returns a page, of the form or of another path.
ServePage(c) ==
  /\ Serving(c, "get")
  /\ conn' = [conn EXCEPT ![c] = PageReturned(c, @.req.what.path, 0)]
  /\ UNCHANGED <<doc, shown, renderer, lang, picked, requests>>

\* The fields a form submits for the i-th component, if any.
Key(i) == Form[i].name \o Field

\* A form that validates is applied, and the visitor redirected.
SubmitForm(c) ==
  LET f == conn[c].req.what.form
  IN  /\ Serving(c, "post") /\ ValidateAll(f) = {}
      /\ doc' = ApplyAll(doc, f)
      /\ shown' = [i \in DOMAIN Form |->
                     IF Key(i) \in DOMAIN f THEN f[Key(i)] ELSE shown[i]]
      /\ conn' = [conn EXCEPT ![c] = OwnAnswer(c)]
      /\ UNCHANGED <<renderer, lang, picked, requests>>

\* One that does not is shown again.
RejectForm(c) ==
  /\ Serving(c, "post") /\ ValidateAll(conn[c].req.what.form) # {}
  /\ conn' = [conn EXCEPT ![c] = PageReturned(c, FormPath, 422)]
  /\ UNCHANGED <<doc, shown, renderer, lang, picked, requests>>

\* setLanguage: the cookie, and a redirect it writes itself.
SetLanguage(c) ==
  LET choice == conn[c].req.what.choice
  IN  /\ Serving(c, "language")
      /\ lang' = [lang EXCEPT ![c] = LangCookie(choice)]
      /\ picked' = [picked EXCEPT ![c] = choice]
      /\ conn' = [conn EXCEPT ![c] = OwnAnswer(c)]
      /\ UNCHANGED <<doc, shown, renderer, requests>>

\* AsHTTPError: an error without a code of its own is a 500.
AsHTTPError(err) == IF err = "typed" THEN 404 ELSE 500

\* A handler fails, or has written its response and returns ErrSkipRender.
HandlerFails(c) ==
  /\ Serving(c, "fails")
  /\ LET err == conn[c].req.what.err
     IN  conn' = [conn EXCEPT ![c] =
           IF err = "skip" THEN OwnAnswer(c)
           ELSE [Idle EXCEPT !.pc = "error", !.req = Served(conn[c].req),
                             !.code = AsHTTPError(err)]]
  /\ UNCHANGED <<doc, shown, renderer, lang, picked, requests>>

-----------------------------------------------------------------------------
(* Rendering *)

\* RenderPage, up to the execution of the template: what is written to a
\* slice or a template set that is not the request's own is written to the
\* renderer's.
Prepare(c) ==
  /\ conn[c].pc = "page"
  /\ LET menu == PageMenu(conn[c].page)
         tpl == LocaleTemplate(conn[c].req)
     IN  /\ conn' = [conn EXCEPT ![c].pc = "execute", ![c].menu = menu,
                                 ![c].tpl = tpl]
         /\ renderer' =
              [menu |-> IF menu.own THEN renderer.menu ELSE menu.items,
               funcs |-> IF tpl.own THEN renderer.funcs ELSE tpl.funcs]
  /\ UNCHANGED <<doc, shown, lang, picked, requests>>

Items(c) == IF conn[c].menu.own THEN conn[c].menu.items ELSE renderer.menu
Funcs(tpl) == IF tpl.own THEN tpl.funcs ELSE renderer.funcs

\* The page of a request that has been executed to the end.
Executed(c) ==
  LET p == conn[c].page
  IN  PageOut(IF p.status = 0 THEN 200 ELSE p.status, Funcs(conn[c].tpl),
              Items(c), p.contents)

Execute(c) ==
  /\ conn[c].pc = "execute"
  /\ conn' = [conn EXCEPT ![c] = Answered(c, <<Executed(c)>>)]
  /\ UNCHANGED <<doc, shown, renderer, lang, picked, requests>>

\* Mutant of Discarded: the template writes to the response.
DiscardedLate == <<Torn>>

\* What the response holds of a page whose template fails: it was written to
\* a buffer.
Discarded == <<>>

ExecuteFails(c) ==
  /\ conn[c].pc = "execute"
  /\ conn' = [conn EXCEPT ![c].pc = "error", ![c].code = 0,
                          ![c].out = Discarded]
  /\ UNCHANGED <<doc, shown, renderer, lang, picked, requests>>

\* ErrorPage, on templates of its own, written straight to the response; no
\* code is a 500, and a failure of error.html is only logged.
ErrorPage(c) ==
  /\ conn[c].pc = "error"
  /\ \E whole \in BOOLEAN :
       LET code == IF conn[c].code = 0 THEN 500 ELSE conn[c].code
           page == ErrorOut(code, LocaleTemplate(conn[c].req).funcs, whole)
       IN  conn' = [conn EXCEPT ![c] = Answered(c, conn[c].out \o <<page>>)]
  /\ UNCHANGED <<doc, shown, renderer, lang, picked, requests>>

-----------------------------------------------------------------------------
(* Specification *)

\* NewApplication and NewPageRenderer: the menu is collected once.
Init ==
  /\ doc = StartDoc /\ shown = ExtractAll(StartDoc)
  /\ renderer = [menu |-> Collect, funcs |-> NoTemplate.funcs]
  /\ conn = [c \in Clients |-> Idle]
  /\ lang = [c \in Clients |-> Absent]
  /\ picked = [c \in Clients |-> NoLanguage]
  /\ requests = 0

Next == \E c \in Clients :
  \/ Get(c) \/ Post(c) \/ Pick(c) \/ Stray(c)
  \/ Refuse(c) \/ ServePage(c) \/ SubmitForm(c) \/ RejectForm(c)
  \/ SetLanguage(c) \/ HandlerFails(c)
  \/ Prepare(c) \/ Execute(c) \/ ExecuteFails(c) \/ ErrorPage(c)

Spec == Init /\ [][Next]_vars

-----------------------------------------------------------------------------
(* Properties *)

Answer(c) == conn[c].out[1]
HasAnswer(c, kind) ==
  conn[c].pc = "idle" /\ conn[c].out # <<>> /\ Answer(c).kind = kind

\* RenderPage and PageMux.Handle: whatever fails on the way, a request is
\* answered once, with a whole page, an error page or the handler's own
\* response; a page whose template fails leaves nothing of itself before the
\* error page.
AnsweredOnce ==
  \A c \in Clients :
    conn[c].pc = "idle" /\ conn[c].req # NoRequest =>
      Len(conn[c].out) = 1 /\ Answer(c) # Torn

\* A menu of the registered items its alter hook left and of the page's own,
\* each once, by weight and then in order of registration, with the entries
\* of the page marked.
MenuFits(menu, path) ==
  LET all == Registered \o OwnItems[path]
      left == {i \in DOMAIN all : all[i].title \notin Hidden[path]}
  IN  \E place \in Bijection(DOMAIN menu, left) :
        /\ \A j, k \in DOMAIN menu : j < k =>
             \/ menu[j].weight < menu[k].weight
             \/ menu[j].weight = menu[k].weight /\ place[j] < place[k]
        /\ \A k \in DOMAIN menu : menu[k] =
             [all[place[k]] EXCEPT !.active =
                all[place[k]].href \in {path, Crumb[path]}]

\* RenderPage: however requests interleave, a page's menu has the registered
\* items its alter hook left and the items of its own, each once, by weight
\* and then in order of registration, and marks as active the entries of
\* this page and no other.
MenuIsOwn ==
  \A c \in Clients : HasAnswer(c, "page") =>
    MenuFits(Answer(c).menu, conn[c].page.path)

\* setLanguage, Localizer and localeTemplate: a page and an error page are in
\* the language the visitor had last asked for when the request was made,
\* and otherwise in the one its browser accepts or in English; no other
\* visitor's language shows in them.
LanguageFollows ==
  \A c \in Clients : HasAnswer(c, "page") \/ HasAnswer(c, "error") =>
    LET r == conn[c].req
        text == Answer(c).funcs.text
    IN  IF r.picked \in Languages THEN text = r.picked
                                  ELSE text \in {r.accept, English}

\* "Three sources, in order: the `lang` cookie, the `Accept-Language` header,
\* English" (docs/architecture.md): a visitor who asked for no language gets
\* the one its browser accepts, when there are translations to it.
LanguageInOrder ==
  \A c \in Clients : HasAnswer(c, "page") =>
    LET r == conn[c].req
    IN  r.picked = NoLanguage /\ r.accept \in Languages =>
          Answer(c).funcs.text = r.accept

\* ParseValues, ApplyAll and ExtractAll: over any sequence of submissions the
\* form shows, for every component, the values last submitted for it, also
\* when several components share a target and when a submission leaves some
\* of them out.
SavedIsShown == ExtractAll(doc) = shown

\* The blocks of a target that no component of the form manages.
UnmanagedAt(t, blocks) ==
  {j \in DOMAIN blocks :
     \A i \in DOMAIN Form : Form[i].target = t => ~Matches(Form[i], blocks[j])}
Unmanaged(t, blocks) == Selected(blocks, UnmanagedAt(t, blocks))

\* How many of them come before the first one of a component.
Ahead(blocks, c) ==
  Cardinality({j \in UnmanagedAt(c.target, blocks) :
                 j < Min(Managed(blocks, c))})

\* replaceBlocks: a submission keeps the unmanaged blocks and their order, and
\* a component that had blocks and still has them stays where it was among
\* them.
UnmanagedStay ==
  [][doc' # doc =>
       /\ DOMAIN doc' = DOMAIN doc
       /\ \A t \in DOMAIN doc : Unmanaged(t, doc'[t]) = Unmanaged(t, doc[t])
       /\ \A i \in DOMAIN Form :
            LET c == Form[i]
                t == c.target
            IN  /\ AllBlocks(doc[t], c) # <<>>
                /\ AllBlocks(doc'[t], c) # <<>>
                => Ahead(doc'[t], c) = Ahead(doc[t], c)]_vars

\* checkRequestSite: the document changes only by a request of the
\* application's own pages, of the visitor or of a tool, whichever headers
\* the browser that made it sends.
OnlyTrustedWrite ==
  [][doc' # doc =>
       \E c \in Clients : conn[c].pc = "serve" /\ conn'[c].pc # "serve"
                          /\ conn[c].req.from \in Trusted]_vars

\* checkRequestSite: and none of those is refused, behind a TLS-terminating
\* ingress too.
TrustedNeverRefused ==
  \A c \in Clients :
    conn[c].pc = "error" /\ conn[c].code = 403 =>
      conn[c].req.from \notin Trusted

=============================================================================
