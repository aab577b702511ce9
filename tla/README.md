# TLA+ models of howdah

howdah is a Go library for server-rendered applications: it logs users in over
OpenID Connect, keeps their OAuth2 tokens in a session, and renders pages. The
hard part of it is the session: a refresh token that a provider may rotate, held
in a cookie or in a database row, used by many requests on many replicas at the
same time. This directory models that part first, and then what surrounds it (the
keys, the token endpoint, the login, the pages and forms), checks it with TLC, and
proves the central claims with TLAPS.

## Inventory

| Component (source) | State | Operations | What is hard |
|---|---|---|---|
| PostgreSQL store, refresh (`tokenstore/pgstore/refresh.go`, `postgres/queries.sql`) | a `howdah_session` row: token set, `refreshed_at`, `refresh_failed_at`, lease and nonce | `Refresh`, `runExchange`, `refreshFailed`, `CommitRefresh`, `FailRefresh` | leases that run out, stalled or late write-backs, crashes, errors that hide a success, waiters |
| PostgreSQL store, the rest (`pgstore.go`) | the same rows | `Create`, `Get`, `Update`, `Reseal`, `Delete`, `DeleteSubject`, `DeleteExpired` | `Update` and `Delete` during a refresh; overlapping sweeps |
| Token store contract (`token_store.go`) | one session | the `TokenStore` interface | what both stores owe their caller |
| Cookie store (`token_store_cookie.go`) | none but a per-process singleflight group; the session is the cookie value | `Create`, `Get`, `Reseal`, `Refresh`, `Delete` | responses that arrive out of order; calls just outside the flight |
| Request path (`application_auth.go`) | the session cookie | `RequireAuth`, `OptionalAuth`, `Keepalive`, logout | when a cookie is rewritten, and when it is cleared |
| Login (`application_auth.go`, `application.go`) | the `state`, `nonce` and `auth_redir` cookies | `authRedirect`, `authCallback` | overlapping attempts, repeated and foreign callbacks |
| Keyring and envelope (`cookie_keyring.go`, `cookie_crypto.go`, `session_sealer.go`, `pgstore/payload.go`) | per process: an ordered set of keys, read at startup | `newCookieKeyring`, `sealingKey`, `cookieDomain`, seal, open | replicas with different clocks and different environments, retiring a key |
| Token endpoint client (`token.go`, `exchangeRefreshToken` and `detachedDeadline` in `application_auth.go`) | none but a round trip under way | `doTokenRoundTrip`, `assumeTokenExpiry` | a client that goes away, deadlines, optional fields, integer widths |
| Pages and mux (`page.go`, `page_mux.go`, `http_err.go`) | the renderer's templates and menu, shared by all requests | `checkRequestSite`, `Handle`, `RenderPage`, `ErrorPage` | concurrent renders over shared slices and templates, failures halfway through a page |
| Menu and HTML elements (`menu.go`, `elements.go`) | none | `Collect`, `Alter`, `SortMenuItems` | the shared array behind the menu |
| Language (`application.go`) | the language cookie | `setLanguage`, `Localizer` | which language a concurrent request is answered in |
| Document forms (`docform/`) | none; the document is the application's | `ParseValues`, `ValidateAll`, `ApplyAll`, `ExtractAll` | components that share a target |
| Wiring, migration, generated queries | none | start-up I/O | nothing that a model adds to |

The request path calls the store (`Get`, `Refresh`, `Reseal`, `Delete`); the store
calls back into the request path for the exchange (`exchangeToken`); both stores
seal and open through the keyring; the login creates the session. Replicas share
nothing but the database and the browser's cookie.

For each component, what makes it correct: a rotating refresh token is posted
once unless its answer was lost; no write-back puts an older token set over a
newer one; every `Refresh` returns; a cookie is cleared only when its session is
over; a session never outlives its absolute expiry; a logout stays a logout; a
rollover drains and logs nobody out; a browser only ends up in a login of its
own, on the page it asked for; sweeps count right and finish the job; detaching an
exchange from its request neither loses the session nor overruns the lease; a
request is answered once, with its own visitor's menu and language; a form shows
what was last saved and leaves the rest of the document alone.

## Modules

| Module | Models |
|---|---|
| `SessionSpec` | the abstract promise of a `TokenStore` about one session |
| `PgRefresh` | the lease protocol on one row, which implements `SessionSpec` |
| `PgRefreshProofs` | types and the refinement of `SessionSpec` |
| `PgExchangeProofs` | what the lease is for: one exchange at a time, and only when needed |
| `AuthSessions` | the request path over either store, with browser, provider and key rollover |
| `AuthSessionsProofs` | theorems about `AuthSessions` |
| `LoginFlow` | the login handlers and their cookies |
| `LoginFlowProofs` | theorems about `LoginFlow` |
| `Sweep` | overlapping expiry sweeps |
| `SweepProofs` | theorems about `Sweep` |
| `Keyring` | startup validation, the sealing key, domains and the envelope, as operators |
| `Rollover` | a fleet with `Keyring`s and clocks of its own through rollovers, with a session over either store |
| `RolloverProofs` | theorems about `Rollover` and the operators of `Keyring` |
| `TokenExchange` | the token endpoint round trip and chains of refreshes |
| `TokenExchangeProofs` | theorems about `TokenExchange` |
| `Selection` | parts of a sequence taken in order, and a sequence put in order |
| `DocForm` | forms: fields to components to blocks, as operators |
| `Pages` | requests through the mux and the renderer, and a document edited through a `DocForm` |
| `PagesProofs` | theorems about `Pages` |
| `MC*` | the instances TLC checks |

`AuthSessions` has pgstore's `Refresh` at the places where a call reads the row, writes
it back, or is answered; what happens between them (who gets the lease, for how long,
and what a stall does to it) is `PgRefresh`'s. Only `PgRefresh` is held against
`SessionSpec`: the request path keeps what the store returned and adds no promise of
its own about the row. What `AuthSessions` reduces to two keys and one turn, `Rollover`
has in full, with every response arriving at once; what `PgRefresh` reduces to "the
exchange ends before its deadline", `TokenExchange` has in full (`WithinBudget`).

### PgRefresh

`row` is the database row, `call[c]` the local variables of one `Refresh` call
(`pc` says which statement it is at), `late` the writes whose caller gave up on
them but which may still land, `pending` an `Update` between its read and its
write. Each statement of `queries.sql` is an operator (`Takeable`, `LeasedTo`,
`Fenced`, `Replaced`, `MarkedFailed`), each step of the loop an action: `GiveUp`
(the budget check), `ReadFirst`, `ReadAgain`, `ReadNothing`, `Take`,
`TakeDenied`, `TakeError`, `WaitEnds`, `StartExchange`, `ExchangeOK`,
`ExchangeError`, `SealError`, `Commit`, `Fail`, `WriteError`; `Crash` may happen
anywhere. A write-back that is not answered may have been done, be on its way, or be
lost; a caller whose `FailRefresh` is not answered reports its exchange failure all the
same (`unrecorded`), as `refreshFailed` does by joining the two errors. `conf` ranges
over every set of durations that `validate` accepts, with a stall and a kind of
provider.

Time is a countdown: `Tick` decrements the lease and the deadline of each bounded
phase, and cannot pass such a deadline, because the contexts of the code end the
phase. The one phase the code does not bound is the wait between the database granting
the lease and the exchange starting (scheduling, a slow reply); `conf.stall` names it.
Callers are `Prompt` when it is no longer than the least by which `validate` makes the
lease exceed the round trip and the write-back: that is the condition under which the
code promises one exchange at a time, and it stands inside `ExclusiveExchange` and
`NoReplay`; the other safety properties hold whatever the stall. Timestamps are
numbered by write, since the code only compares a column with an earlier read of the
same column.

### AuthSessions

A handle is a record (session, key, and for the cookie store the sealed token
set and its `issued_at`). `req[r]` is one request: sent with the cookie the
browser had then, read on a replica, refreshed, answered with a cookie action
(`keep`, `set`, `clear`), and delivered in any order, or never. `deployed` is the
deployment at hand, either store and a provider that rotates or does not.
`JoinFlight`, `Aboard` and `FlightEnds` are singleflight keyed on the cookie value,
per replica. Over pgstore, `RefreshBegins` is the first pass of its loop and
`RefreshReads` the later ones, which may find the row gone, moved (whatever life the new
token set has left), or another call's failure; `RefreshCommits` and `RefreshFails` are
the write-backs that pass their fence (`Owns`) or are not answered, `RefreshLost` those
that do not reach the row. The provider honours a token, refuses it, is not reached, or
honours it and the answer is lost; `Revoke` is the provider ending its own session. A
call's failure is kept with its cause, since the code answers alike for all of them.

`Over` is a fact about the session and not about the answer: it is past its absolute
expiry, its row is gone, or the refresh token of the handle is not honoured any more.
`ClearOnlyWhenOver` says that a response which clears the cookie belongs to such a
session. The answers by which the code clears a cookie without knowing that are named in
`NoClaim`: a logout, whether or not the row could be deleted; a provider that could not
be reached, which `exchangeToken` says it does not tell from a refusal; a failure that
could not be recorded; and a token set too big for a cookie, if the provider does not
rotate. In front of a provider that rotates, the cookie store does log out a session
that another replica refreshed, as `CookieTokenStore`'s comment says: its refused
exchange clears a cookie whose own token is spent, and `Over` calls that value over.

`KeyTurns` moves one replica to the new key by its own clock;
`RetireKey` is the operator following the runbook. Keepalive, RequireAuth and
OptionalAuth share their actions, since they treat the cookie alike.

### LoginFlow

An attempt is identified with its random state and nonce. `jar` holds the three
cookies the tabs share, `visit[v]` one callback request with the cookies it was
sent with. A callback URL may combine any state with any code the provider
issued, of this browser or of another.

### Sweep

`DeleteExpiredSessions` is two steps, the locking subselect and the delete. Other
statements lock rows meanwhile. A failed statement releases its locks; its delete was
rolled back, or had committed and only the reply was lost, and then nobody was told of
the rows (`unreported`).

### Keyring and Rollover

`Keyring` has the pure part. An environment is a set of entries (a key id and a
use-after instant, id 0 for one that does not parse); `NewCookieKeyring` says
whether a process accepts it, `SealingKey` which key seals at an instant, and
`OpenKind` goes through the checks of `openKindRaw` in their order and returns the
error they end in. Domains are sequences of tokens, so that a separator inside a
cookie name can really make two of them equal; the AEAD opens a value with exactly
the additional data it was sealed with.

`Rollover` puts it on a fleet. `ring[p]` is the keyring a replica last started
with, `env` the deployed environment, `Restart` reads it on one replica.
`AddKey` and `DropKey` are the steps of `docs/cookies.md` section 11, `Revoke` its
emergency form, `Misconfigure` and `Correct` an operator's mistake that `Restart`
has to refuse, `SwitchStore` a move between the stores. A change waits until the
one before it is `RolledOut` (every replica runs, with exactly these keys), and
`Correct` takes a change back to `env.last` once it is `Refused` (no replica would
start with it). `Login`, `Request` and
`Refresh` are the request path's three ways to seal, over the replica's store. The
model assumes what the code says it cannot check: new keys are dated ahead, a
rollout is finished before its key may seal anywhere (`InTime`), clocks differ by
at most `MaxSkew` and are never set back. `DropKey` waits for the maximum session
age *and* the skew after the later key's date, where the document mentions only the
age. A session born on a fast replica may be re-sealed under the old key by a slow
one, and its age is counted from a birth that lies ahead of the slow clock, so the
age alone is short by up to the skew (by less than an instant here, so the run would
pass without it; a larger `MaxSkew` needs it).

### TokenExchange

`trip` is one round trip with its context: the deadline the store handed down
(`budget`; none over cookies), the deadline `detachedDeadline` made of it, and
whether a client that goes away (`Disconnect`) cancels it. The provider grants,
grants without a new refresh token, refuses, or answers with something unusable;
`Complete` turns a usable reply into the session's next token set as
`doTokenRoundTrip`, `exchangeRefreshToken` and `assumeTokenExpiry` do, `BadReply`
and `ContextEnds` end the session. `excused` is a history variable: the provider,
or a budget that is spent, gave a reason for losing the session. Integers keep
their widths, scaled down together (`MaxInt32`, `MaxInt64`, `Second`), and lifetimes may
be below zero.

### DocForm and Pages

`DocForm` is `docform/form.go`: a field name is the sequence of its segments, a
document a function from targets to sequences of blocks. The components and the
newsdoc helpers are external; each component here manages the blocks of one type.
Filtering and sorting are stated by positions (`Selection`: the element that has so
many before it) rather than by the library's folds, which the prover cannot open.

`Pages` runs requests of several clients through `PageMux.Handle`: `Refuse` is the
site check, `ServePage`, `SubmitForm`, `RejectForm`, `SetLanguage` and
`HandlerFails` are the handler's outcomes, `Prepare` and `Execute` the two halves
of `RenderPage` between which other requests may render, `ExecuteFails` and
`ErrorPage` the failure paths. `renderer` is what all requests share. A menu or a
template set says whether it is the request's own; what is done to one that is not
is done to the renderer's, which is what the code's clones are for. Handlers make a
new `Page` for each request, as those of the repository do; what the templates
print is left out.

## Runs

| Run | Shows | Result |
|---|---|---|
| `refresh` | two overlapping refreshes, prompt or stalled beyond their own lease, and a provider that rotates or does not: one exchange at a time and no replay of a spent token unless its answer was lost (prompt callers); no needless exchange, one attempt for a failure, no recorded failure over a fresher row, the contract (all callers) | holds |
| `ends` | every call returns | holds |
| `livelock` | the comment on `maxLostWriteReads` | violated |
| `failure` | the comments on `Refresh` and `refreshFailed` | violated |
| `auth` | the request path over either store and either kind of provider: clears, logout (over pgstore), absolute expiry, migration of stale cookies | holds |
| `reseal` | the comment on `TokenStore.Reseal` | violated |
| `login_overlap` | own login, own landing page, no needless refusal | holds |
| `sweep_overlap` | counts add up, and everything expired goes in the end | holds |
| `rollover` | nobody stranded, one sealing key, no false alarm of tampering, a sealed value opens in its place only | holds |
| `token` | a session the provider honours survives, within the store's budget, with a sound expiry; every round trip ends | holds |
| `pages` | one answer per request, own menu and language, only trusted requests write and none of those is refused, forms show what was saved and move nothing else | holds |
| `language` | the documented order of the language's sources | violated |

The violated ones are places where a comment or a document promises more than
the code does; each is described, with both lines, under `findings` in
`PROJECT.json`:

- **livelock**: each lost write-back grants one read that skips the deadline, and
  the next lost one grants it again; two callers that keep stalling past their
  leases keep displacing each other. The cap bounds a counter that never grows.
  A nonce is displaced when a lease is taken over, which is before the new holder
  has written an answer, so the re-read need not find one.
- **reseal**: without a row, the browser's cookie is the session, and the last
  response to arrive decides it: a re-seal can put the token set it read back over
  a refreshed one. For the same reason `LogoutSticks` is checked over pgstore only:
  without a row, a Set-Cookie that was on its way when the logout completed brings
  the session back.
- **failure**: `refreshFailed` reads its fence so that a refresher which has lost its
  lease does not report its own failure. When `FailRefresh` itself is not answered it
  cannot know, and reports the failure joined with the error of the write; the joined
  error still wraps `ErrRefreshRejected`, so the cookie of a session that was renewed
  meanwhile is cleared. `RecordedFailureIsOwn` is the claim for a fence that was read.
- **language**: `Localizer` passes the cookie's language, or English when there is none,
  ahead of Accept-Language. That header decides only for a visitor whose cookie names a
  language without translations; the documents put it before English. `LanguageFollows`
  is what does hold: a picked language is kept, and nobody gets another visitor's.

Smaller differences met while modelling, which no run is spent on:

- Singleflight shares only what is under way: a request of the same page load that
  comes a moment after the flight has landed posts the spent token, where
  `docs/cookies.md` section on concurrent refreshes reads as if one page load made one
  exchange.
- A login that the provider denies is answered before any callback cookie is cleared,
  so the attempt's cookies live out their hour, although the comment on
  `clearCallbackCookie` says they are cleared when the attempt is over.
- The comment on `DeleteExpired` says that for a single sweeper a count of 0 means
  that the table is clean. `CommitRefresh`, `FailRefresh` and `UpdateSession` do not
  look at `expires_at`, and `SKIP LOCKED` skips whatever is locked, so an expired row
  that one of them is writing is skipped too, and a single sweeper's 0 leaves it
  there. In `Sweep` that is `WriteRow` under one sweeper; `SweepDrains` says that a
  later round finds it.
- The active mark compares `r.URL.Path`, which `StripPrefix` has trimmed, with links
  that carry the base path: under a base path an item is only active by way of the
  breadcrumb.
- A form-encoded `expires_in` is multiplied into nanoseconds unguarded and wraps
  beyond 292 years; the JSON one is guarded above. A negative one is not guarded on
  either path: below an int32 it may wrap into a long lifetime. `ExpirySound` leaves
  out what does not fit its width, and says of other lifetimes below zero only that
  they are not extended.

### Bounds

Two callers suffice for every race of two lease holders, and `MaxCalls` of 2 gives two
overlapping calls or one after the other. Durations up to 3 give lease 3, round trip 1 and write
1, the smallest configuration `validate` accepts; a stall of 1 is within what that
lease leaves, 4 is beyond it. Three token sets allow a refresh, an `Update` and
another refresh. Six nonces are more than can be in use at once. Two requests on two
replicas, one session, two keys, three token sets and the instants 0, 1 and 2 with a
maximum age of two let a session age out, a rollover happen in the middle of a
request, and the old key be retired as the last session sealed under it ages out;
nothing in `AuthSessions` depends on instants but through the age, so more of them add
none of these. Three token sets are a login and two refreshes, which two replicas or
two cookie values may both make. `Rollover` has two replicas one instant apart at
most, keys dated two ahead, a maximum age of two, three keys and instants up to five:
two overlapping rollovers, the first key dropped when its last session has aged out,
and one incident at any moment of it. Its two cookie names collide if a separator is
let through. `TokenExchange` scales the widths to 3 and 7 with two nanoseconds a
second, so that the lifetimes 0, 1, 3, 4 and 9 are absent, ordinary, the largest
int32, beyond an int32 and beyond an int64, and -1 and -5 below zero and below an
int32; stores hand down no deadline, one sooner and one later than the timeout; three
token sets are a login and two refreshes. `Pages` has two clients, three requests,
four submissions (one refused by validation, one that empties a component) over a
document whose blocks are scattered, and eight kinds of sender: own pages, visitors,
tools, siblings and opaque origins, with and without Sec-Fetch-Site. Two attempts, one
foreign attempt and three callbacks give every crossing of two tabs and a repeated
callback. Four rows with batches of two give two sweepers a full batch each, with two
failures and two writes of other statements. Deadlock is not checked where the
environment may simply stop: a browser that sends no more requests (`AuthSessions`), a
login flow whose attempts are all over (`LoginFlow`), clocks and keys at their bounds
(`Rollover`, `TokenExchange`), clients that are done (`Pages`).

### Fairness

`PgRefresh`: a running call's own step is weakly fair (its goroutine is scheduled,
and every wait in it ends by a context or a timer); `PassDeadline` is strongly
fair, because every pass of the loop takes real time, so a call that keeps coming
back to its top finds its budget spent. Nothing is assumed of crashes, of the
provider's answer, or of the lease being free. `Sweep`: the ticker keeps calling,
and statements end. `TokenExchange`: the clock advances, a context's deadline fires
and a reply that has arrived is delivered; nothing is assumed of the provider, which
may never answer. The other modules state safety only.

## Proofs

Every safety property of the passing runs is also a theorem, for every value of the
constants that the named assumptions allow. Each proof has the same layout: an
inductive invariant (conjunctions of named parts), a lemma for each action that keeps
it, and the property as a consequence. The invariants were also checked by TLC on
the runs' instances.

`PgRefreshProofs` proves, for any callers, nonces, stall and bounds and any
configuration `validate` accepts, `TypeCorrect` and `StoreHonoursContract`
(`PgRefresh` implements `SessionSpec`). The contract is not inductive by itself: that
a commit replaces an older token set by a newer one rests on the nonce. `Inv` adds to
the types that every holder has a real nonce of its own (`HolderNonces`); that
whatever would pass the fence, a caller's write-back or a late one, carries a token
set newer than the row's and issued by the provider (`FenceInv`); and that a pending
`Update` has one to write (`PendingInv`). One step per action maps it to a step of
`SessionSpec` or to a stutter. A nonce's freshness is the guard of `Take`, which
stands for sixteen random bytes.

`PgExchangeProofs` builds on it.

- `ExchangeIsNeeded`, `OutageCostsOneAttempt` and `FailureReportIsOwn` (of a failure
  whose `FailRefresh` was answered) hold whatever stalls. `MarkInv` relates what a
  call remembers of the row to the row: one that was not written since still holds an
  expiring token set, and a failure recorded since shows in it (`SeenInv`); a holder
  whose nonce the row has is refreshing the row as it is (`HoldInv`).
- `ExchangeIsExclusive` and `SpentIsPostedOnce` are about prompt callers. Nothing in
  the code bounds the stall, so `Prompt` is a condition inside the properties and not
  an assumption; `conf` never changes, and in a behaviour whose callers are not prompt
  they say nothing (`PromptFits`). For the others the proof needs only `StallFits`:
  the stall before an exchange, the round trip and the write fit in the lease. `ExInv`
  adds that the lease that is left covers what its holder still needs (`LeaseInv`),
  that a token set is committed by one caller (`OnceInv`), and that a token is spent
  only by a call that is still answering for it or whose answer was lost (`SpentInv`).

`AuthSessionsProofs`, for any number of requests, replicas, sessions and token sets and
either store, with a provider that rotates or does not: `AuthTypes`,
`ClearedOnlyWhenOver`, `LogoutIsFinal`, `ExpiryIsAbsolute` and `StaleCookieIsMigrated`.
`AuthInv` says that every value in a browser, a request or a response is `Genuine`: its
session has begun, it carries the session's birth, and it was sealed under the old key
only if the session was born before the last replica left that key (`SealedInTime`);
that the old key is retired no sooner than the maximum age after that (`RetireInv`), so
that what it alone opens has expired; that a row holds a token set that was issued
(`RowInv`); and that what a request record says is so (`Sound`): in particular, a
failure kept as a refusal, and a result too big for its cookie under a provider that
rotates, tell of a handle whose token is spent. What makes that last part inductive is
that it cannot be undone: no step makes the provider honour a token again
(`NeverRevived`), and a row whose token is spent is never renewed, because only a token
that is honoured is exchanged for the next (`Evolves`). Facts of that kind stay true
once they are, which is one lemma (`SoundStays`) for all actions, so that each action
only answers for the records it makes. A logout whose handle no longer opens deletes
nothing: there `LogoutIsFinal` needs that the session had expired (`ShutIsExpired`).

`RolloverProofs`, for any number of replicas, keys, rows and logins, any names, any
skew and any lead longer than the skew: `RolloverTypes`, `SealingKeyIsUnique`,
`NobodyIsStranded`, `NoAlarmIsFalse` and `SealedIsBound`. `RolloverInv` says of the keys
that a running replica would accept its keyring again (`RingInv`), that replicas differ
from the environment by keys that may not seal yet or by keys that are `Gone`
(`RolloutInv`), and that an environment nobody accepts has reached nobody
(`RefusedInv`); and of the session that each key it depends on was superseded only
after the session began, and is there on every replica until the session is over
(`SessionInv`), with the additional data of its place (`Shapes`). Proving it is what
made the model say precisely when a rollout has finished and which mistakes an
operator corrects: with a replica that was down counted as rolled out, the invariant
is not kept.

`TokenExchangeProofs`, for every timeout, margin and lifetime and at every scale of
the integer widths: `TripKeepsBudget`, `SessionOutlivesRefreshes` and `ExpiryIsSound`.
`TokenInv` carries the deadline a round trip was given to its end (`DeadlineInv`) and
the refresh token that the provider honours through replies that leave it out
(`HonouredInv`); the lemmas before it say what the conversions do at the widths'
edges.

`SweepProofs`, for any sweepers, writers, rows and batch size: `LocksAreBatches` and
`CountsAreExact`: what the sweeps report falls short of the rows that are gone by
exactly those whose delete committed unheard. `SweepInv` needs that a sweeper between
statements holds nothing (`Between`); that a batch fits its `LIMIT` is a pigeonhole
argument (`ChosenFits`).

`LoginFlowProofs` proves `OwnLogin`, `LandsOnOwnTarget` and `UncrossedIsAccepted`
for any number of attempts and callbacks. `LoginInv` says that a code of this
browser exists only for an attempt that came back from the provider (`CodeInv`);
that a target cookie belongs to the attempt the nonce belongs to, unless that
attempt got stuck half way through setting its cookies, and then no code for it
exists (`JarInv`, `TargetInv`); and that the cookies are still those of an attempt
nothing crossed (`CrossInv`).

`PagesProofs`, for any clients, request makers, menus, languages and forms:
`OneAnswerEach`, `LanguageIsOwn`, `MenusAreApart`, `MenuIsThePages`,
`FormShowsSaved`, `UnmanagedBlocksStay`, `TrustedPasses` and `WritesAreTrusted`.
`PagesInv` says that no request writes to the renderer (`RendererInv`), that the
cookie jar holds what was asked for (`JarInv`), and that a request carries its
maker's headers, its visitor's language and nothing of an answer until its end
(`Sound`). The last two theorems rest on `BrowserAssumption`, what browsers send
along, which the code relies on and cannot check.

The theorems about menus and forms need to know what sorting and filtering compute,
which is a matter of data and not of steps. The argument is about ranks: in a strict
total order of finitely many positions the number of those before a position is
different for each and takes every value below their number (`RankIs`), so
`InOrder` is a bijection (`InOrderIs`), and the menu is the items left, each once and
in order. For forms, `ReplaceSplices` says what `replaceBlocks` does to a
sequence: the replacement stands where the first match stood, or last, and every
other block keeps its order, at a place that `Spliced` names. From that and
`SelectedMoves` (a selection is the same wherever its elements have moved in order)
follow a component's own turn and what it leaves of the others' blocks and of the
unmanaged ones. `Turned` is the invariant of `ApplyAll`'s loop over the components;
that it holds after every turn is shown by the least turn at which it would not,
since induction theorems that take a predicate are beyond the prover.

Assumptions are the named `ASSUME`s of the modules: bounds and durations are natural
numbers, there is at least one replica, no sweeper or writer is `Nobody`, the largest
int32 is not 0 and its lower edge in seconds fits an int64 of nanoseconds, there is an
id for every row, English has translations and the absence of a language is not one,
and what browsers send. Of the application the theorems about menus and forms assume
(`FormAssumption`, `ApplicationAssumption`) that two components of a form do not
manage the same blocks of one target, that the form's targets are ones the document
has, and that menu weights are in half the range of a 32-bit int, since
`SortMenuItems` compares by subtraction. The code does not check any of these: two
components over the same blocks would overwrite each other's values by the same loop,
and weights whose difference overflows would compare the wrong way round.

Only model-checked:

- liveness (`CallsEnd`, `SweepDrains`, `TripEnds`), which is outside the prover;
- the properties of the runs that end in a violation, which do not hold.

## Not modelled

The migration and the generated query code are I/O; `queries.sql`, from which the
latter is generated, is modelled. Loading locales and templates and registering
routes happens once, at startup, and leaves no state that later steps change. The
HTML elements and what templates print are values without operations.
`CookieTokenStore.Update` is left out: the request path never calls it. Key
derivation and the AEAD are taken as perfect, so `Keyring` keeps "which keys open,
with which additional data". A token set in `PgRefresh` and `AuthSessions` is a
number; its contents are `TokenExchange`'s. A login's session cookie reaches the
browser in the same step as its creation. Clocks set back are not modelled: a
replica whose clock goes back past its only eligible key can open nothing, and
`Get` reports that as a session that is over.

## Plan

1. Done: the session core (`SessionSpec`, `PgRefresh`, `AuthSessions`, `LoginFlow`,
   `Sweep`) and the first theorems.
2. Done: `Keyring` and `Rollover`, `TokenExchange`, `DocForm` and `Pages`.
3. Done: the safety properties of every module as theorems, menu order and forms
   included, and the refinement of `SessionSpec` by the lease protocol.
4. Left: the hazards that `PROJECT.json` lists without a property: a flight that has
   just landed, the cookies of a denied login, the form-encoded `expires_in`, and
   clocks that are set back.
