----------------------------- MODULE PgRefresh -----------------------------
(***************************************************************************)
(* The deduplicated token refresh of the PostgreSQL session store          *)
(* (tokenstore/pgstore/refresh.go and the statements it runs in            *)
(* postgres/queries.sql), for one session row shared by every replica.     *)
(*                                                                         *)
(* Callers are Store.Refresh calls in flight, on any replica.  Each is     *)
(* interleaved at every statement and every network round trip: reading    *)
(* the row, taking the lease, posting the refresh token to the identity    *)
(* provider, and the write-back fenced on the lease nonce.  Requests may   *)
(* be cancelled, processes may crash, the database and the provider may    *)
(* fail, and a write whose caller gave up on it may still land later.      *)
(*                                                                         *)
(* Time.  Leases and timeouts are countdowns that Tick moves together;     *)
(* time may not pass the deadline of a bounded phase.  Write instants      *)
(* (refreshed_at, refresh_failed_at) are numbered by "stamp": the code     *)
(* only ever compares them with an earlier read of the same column.        *)
(***************************************************************************)
EXTENDS Integers, FiniteSets

CONSTANTS
  Callers,      \* Refresh calls that may be in flight at once
  Nonces,       \* the values rand.Read can give a lease
  MaxDuration,  \* largest duration a configuration may name
  Stalls,       \* the longest a caller may sit between the database
                \* granting the lease and the start of its exchange: nothing
                \* in the code bounds it
  Rotations,    \* whether the provider rotates refresh tokens
  MaxCalls,     \* bound: Refresh calls begun
  MaxIssued     \* bound: token sets the provider issues

ASSUME CallersAssumption == Callers # {}
ASSUME DurationAssumption == MaxDuration \in Nat /\ Stalls \subseteq Nat
ASSUME RotationAssumption == Rotations \subseteq BOOLEAN
ASSUME BoundAssumption == MaxCalls \in Nat /\ MaxIssued \in Nat \ {0}
ASSUME NonceAssumption == Nonces \subseteq Nat \ {0}

VARIABLES
  conf,         \* the store's durations, as New validated them, and what it
                \* was deployed into: the longest stall, and the provider
  row,          \* the howdah_session row
  call,         \* per caller: the local state of its Refresh call
  late,         \* writes whose caller is gone, which may still land
  pending,      \* the token set a running Update will write, or NoToken
  live,         \* refresh tokens the provider still honours
  issued,       \* token sets issued so far, numbered in order
  expiring,     \* token sets inside the refresh margin of their expiry
  stamp,        \* instant of the last write that stamped the row
  begun,        \* Refresh calls begun
  lost,         \* history: tokens whose exchange result was never stored
  replayed,     \* history: spent tokens that were posted again
  lastFailure   \* history: instant of the last recorded failure

rowVars  == <<row, stamp>>
idpVars  == <<live, issued, expiring>>
hist     == <<lost, replayed, lastFailure>>
vars     == <<conf, row, call, late, pending, live, issued, expiring,
              stamp, begun, lost, replayed, lastFailure>>

-----------------------------------------------------------------------------
(* Values *)

Null    == 0      \* an unset timestamp
NoNonce == 0      \* refresh_lease_nonce IS NULL
NoToken == 0
Free    == -1     \* refresh_lease_until IS NULL or before now()

\* maxLostWriteReads
MaxLostWriteReads == 2

\* Mutant of Validate: the lease only has to cover the round trip.
ValidateRoundTripOnly(k) ==
  /\ k.lease > 0 /\ k.request > 0 /\ k.write > 0
  /\ k.lease > k.request

\* conf.validate: every duration positive, and the lease longer than the
\* round trip and the write-back together.
Validate(k) ==
  /\ k.lease > 0 /\ k.request > 0 /\ k.write > 0
  /\ k.lease > k.request + k.write

Durations == 1 .. MaxDuration
Confs == {k \in [lease: Durations, request: Durations, write: Durations,
                 stall: Stalls, rotates: Rotations] : Validate(k)}

\* Callers stall for no longer than the least by which validate makes the
\* lease exceed the round trip and the write-back.
Prompt == conf.stall <= 1

\* The exchange's own failure, as its caller sees it: recorded in the row,
\* or joined with the error of a store that would not record it.
OwnFailures == {"exchangefailed", "unrecorded"}

Results == {"none", "session", "nosession", "unopenable", "timeout",
            "refreshfailed", "error"} \cup OwnFailures

\* A call that is not running; tok is the token set of its last result.
Idle(result, tok) ==
  [pc |-> "idle", first |-> TRUE, seenR |-> Null, seenF |-> Null,
   overdue |-> FALSE, lostReads |-> 0, nonce |-> NoNonce,
   tok |-> tok, got |-> NoToken, until |-> 0, since |-> 0,
   result |-> result]

\* The caller owns, or thinks it owns, the refresh.
Holding(c) == call[c].pc \in {"leased", "posting", "commit", "fail"}

\* advanced: a failure marker set since the caller's first read.
Advanced(now, seen) == now # Null /\ (seen = Null \/ now > seen)

-----------------------------------------------------------------------------
(* The statements of queries.sql, as the row they leave behind *)

\* CommitRefresh and UpdateSession set the same columns.
Replaced(t) ==
  [row EXCEPT !.tok = t, !.refreshedAt = stamp + 1, !.failedAt = Null,
              !.nonce = NoNonce, !.leaseLeft = Free]

\* FailRefresh
MarkedFailed ==
  [row EXCEPT !.failedAt = stamp + 1, !.nonce = NoNonce,
              !.leaseLeft = Free]

\* TakeRefreshLease
LeasedTo(n) == [row EXCEPT !.nonce = n, !.leaseLeft = conf.lease]

\* Mutants of Takeable: one clause missing each.
TakeableWhenRefreshed(c) ==
  /\ row.exists /\ row.leaseLeft = Free /\ ~row.expired
  /\ row.failedAt = call[c].seenF

TakeableWhenFailed(c) ==
  /\ row.exists /\ row.leaseLeft = Free /\ ~row.expired
  /\ row.refreshedAt <= call[c].seenR

TakeableWhenHeld(c) ==
  /\ row.exists /\ ~row.expired
  /\ row.refreshedAt <= call[c].seenR
  /\ row.failedAt = call[c].seenF

\* The WHERE clause of TakeRefreshLease, for what caller c saw.
Takeable(c) ==
  /\ row.exists
  /\ row.leaseLeft = Free
  /\ row.refreshedAt <= call[c].seenR
  /\ row.failedAt = call[c].seenF
  /\ ~row.expired

\* Mutant of Fenced: the write-back is not fenced.
Unfenced(n) == row.exists

\* The WHERE clause of CommitRefresh and FailRefresh.
Fenced(n) == row.exists /\ row.nonce = n

\* A nonce is random: one that nobody else holds.
UsedNonces ==
  {row.nonce} \cup {call[c].nonce : c \in Callers}
              \cup {w.nonce : w \in late}
FreshNonce == CHOOSE n \in Nonces : n \notin UsedNonces

-----------------------------------------------------------------------------
(* One Refresh call *)

Become(c, rec) == call' = [call EXCEPT ![c] = rec]
Return(c, result, tok) == Become(c, Idle(result, tok))

\* A request reads the session, finds its access token inside the margin
\* and calls Refresh.
Begin(c) ==
  /\ call[c].pc = "idle"
  /\ begun < MaxCalls
  /\ row.exists /\ ~row.expired
  /\ row.tok \in expiring
  /\ Become(c, [Idle("none", NoToken) EXCEPT !.pc = "read"])
  /\ begun' = begun + 1
  /\ UNCHANGED <<conf, rowVars, late, pending, idpVars, hist>>

\* The call's own budget (refreshWait, any positive duration) has run out
\* by the time the loop comes back to its top, the one place that looks.
PassDeadline(c) ==
  /\ call[c].pc = "read" /\ ~call[c].first
  /\ ~call[c].overdue
  /\ Become(c, [call[c] EXCEPT !.overdue = TRUE])
  /\ UNCHANGED <<conf, rowVars, late, pending, idpVars, begun, hist>>

\* Top of the loop: the budget check that precedes the read.
OutOfBudget(c) ==
  ~call[c].first /\ call[c].lostReads = 0 /\ call[c].overdue

GiveUp(c) ==
  /\ call[c].pc = "read"
  /\ OutOfBudget(c)
  /\ Return(c, "timeout", NoToken)
  /\ UNCHANGED <<conf, rowVars, late, pending, idpVars, begun, hist>>

Readable == row.exists /\ ~row.expired

\* GetSession fails or the request is cancelled; or the row is gone or past
\* its absolute expiry; or its payload does not open on this replica.
ReadNothing(c) ==
  /\ call[c].pc = "read"
  /\ ~OutOfBudget(c)
  /\ \/ Return(c, "error", NoToken)
     \/ ~Readable /\ Return(c, "nosession", NoToken)
     \/ Readable /\ Return(c, "unopenable", NoToken)
  /\ UNCHANGED <<conf, rowVars, late, pending, idpVars, begun, hist>>

\* First pass: remember what the row said, and return its token when
\* somebody refreshed it before this call.
ReadFirst(c) ==
  /\ call[c].pc = "read" /\ call[c].first
  /\ Readable
  /\ IF row.tok \notin expiring
       THEN Return(c, "session", row.tok)
       ELSE Become(c, [call[c] EXCEPT !.pc = "take",
                                      !.seenR = row.refreshedAt,
                                      !.seenF = row.failedAt,
                                      !.since = stamp])
  /\ UNCHANGED <<conf, rowVars, late, pending, idpVars, begun, hist>>

\* Later passes: somebody's refresh, somebody's failure, or try again.
ReadAgain(c) ==
  /\ call[c].pc = "read" /\ ~call[c].first
  /\ ~OutOfBudget(c)
  /\ Readable
  /\ IF row.refreshedAt > call[c].seenR
       THEN Return(c, "session", row.tok)
     ELSE IF Advanced(row.failedAt, call[c].seenF)
       THEN Return(c, "refreshfailed", NoToken)
     ELSE Become(c, [call[c] EXCEPT !.pc = "take",
                       !.lostReads = IF @ > 0 THEN @ - 1 ELSE 0])
  /\ UNCHANGED <<conf, rowVars, late, pending, idpVars, begun, hist>>

\* Mutant of Take: the caller does not keep the nonce it leased with.
TakeForgetsNonce(c) ==
  /\ call[c].pc = "take"
  /\ Takeable(c)
  /\ row' = LeasedTo(FreshNonce)
  /\ Become(c, [call[c] EXCEPT !.pc = "leased", !.tok = row.tok,
                               !.until = conf.stall])
  /\ UNCHANGED <<conf, stamp, late, pending, idpVars, begun, hist>>

\* TakeRefreshLease returned the row: the payload it returned is what the
\* exchange will be done with.
Take(c) ==
  /\ call[c].pc = "take"
  /\ Takeable(c)
  /\ Nonces \ UsedNonces # {}
  /\ row' = LeasedTo(FreshNonce)
  /\ Become(c, [call[c] EXCEPT !.pc = "leased", !.nonce = FreshNonce,
                               !.tok = row.tok, !.until = conf.stall])
  /\ UNCHANGED <<conf, stamp, late, pending, idpVars, begun, hist>>

\* Mutant of TakeDenied: the pass is not counted.
TakeDeniedFirstPass(c) ==
  /\ call[c].pc = "take"
  /\ ~Takeable(c)
  /\ Become(c, [call[c] EXCEPT !.pc = "wait"])
  /\ UNCHANGED <<conf, rowVars, late, pending, idpVars, begun, hist>>

\* No row came back: wait for whoever holds the lease or moved the row.
TakeDenied(c) ==
  /\ call[c].pc = "take"
  /\ ~Takeable(c)
  /\ Become(c, [call[c] EXCEPT !.pc = "wait", !.first = FALSE])
  /\ UNCHANGED <<conf, rowVars, late, pending, idpVars, begun, hist>>

\* The statement failed or the request was cancelled; the lease may have
\* been granted all the same, to a nonce nobody will ever present.
TakeError(c) ==
  /\ call[c].pc = "take"
  /\ Return(c, "error", NoToken)
  /\ \/ UNCHANGED row
     \/ /\ Takeable(c)
        /\ Nonces \ UsedNonces # {}
        /\ row' = LeasedTo(FreshNonce)
  /\ UNCHANGED <<conf, stamp, late, pending, idpVars, begun, hist>>

\* wait: the backoff elapses, or the request goes away.
WaitEnds(c) ==
  /\ call[c].pc = "wait"
  /\ \/ Become(c, [call[c] EXCEPT !.pc = "read"])
     \/ Return(c, "error", NoToken)
  /\ UNCHANGED <<conf, rowVars, late, pending, idpVars, begun, hist>>

-----------------------------------------------------------------------------
(* runExchange: the winner's half *)

\* The token endpoint request leaves, on a context detached from the
\* request and bounded by tokenRequestTimeout.
StartExchange(c) ==
  /\ call[c].pc = "leased"
  /\ Become(c, [call[c] EXCEPT !.pc = "posting", !.until = conf.request])
  /\ UNCHANGED <<conf, rowVars, late, pending, idpVars, begun, hist>>

\* The payload the lease returned does not open on this replica: the call
\* ends and the lease is left to run out.
LeasedUnreadable(c) ==
  /\ call[c].pc = "leased"
  /\ Return(c, "unopenable", NoToken)
  /\ UNCHANGED <<conf, rowVars, late, pending, idpVars, begun, hist>>

\* The provider honours a refresh token, spends it when it rotates, and
\* issues the next token set; short-lived access tokens may be inside the
\* refresh margin from the start.
Honour(t) ==
  /\ t \in live
  /\ issued < MaxIssued
  /\ issued' = issued + 1
  /\ live' = (live \ (IF conf.rotates THEN {t} ELSE {})) \cup {issued + 1}
  /\ \/ expiring' = expiring
     \/ expiring' = expiring \cup {issued + 1}

\* A spent token reaches the provider again.
Replay(t) == replayed' = replayed \cup ({t} \ live)

\* The exchange succeeded; the result is sealed and its write-back starts.
ExchangeOK(c) ==
  /\ call[c].pc = "posting"
  /\ Honour(call[c].tok)
  /\ Become(c, [call[c] EXCEPT !.pc = "commit", !.got = issued + 1,
                               !.until = conf.write])
  /\ UNCHANGED <<conf, rowVars, late, pending, begun, hist>>

\* The exchange succeeded but its result could not be sealed.
SealError(c) ==
  /\ call[c].pc = "posting"
  /\ Honour(call[c].tok)
  /\ Return(c, "error", NoToken)
  /\ lost' = lost \cup {call[c].tok}
  /\ UNCHANGED <<conf, rowVars, late, pending, begun, replayed,
                 lastFailure>>

\* The exchange failed: the provider refused the token, could not be
\* reached, or its answer never arrived (the timeout included).
ExchangeError(c) ==
  /\ call[c].pc = "posting"
  /\ Become(c, [call[c] EXCEPT !.pc = "fail", !.until = conf.write])
  /\ \/ /\ UNCHANGED <<idpVars, lost>>
        /\ Replay(call[c].tok)
     \/ /\ Honour(call[c].tok)
        /\ lost' = lost \cup {call[c].tok}
        /\ UNCHANGED replayed
  /\ UNCHANGED <<conf, rowVars, late, pending, begun, lastFailure>>

\* errLeaseLost: the result is discarded and the row read once more.
LoseLease(c) ==
  Become(c, [call[c] EXCEPT !.pc = "read", !.first = FALSE,
       !.nonce = NoNonce, !.tok = NoToken, !.got = NoToken, !.until = 0,
       !.lostReads = IF @ + 1 < MaxLostWriteReads THEN @ + 1
                                                  ELSE MaxLostWriteReads])

\* CommitRefresh, fenced on the nonce.
Commit(c) ==
  /\ call[c].pc = "commit"
  /\ IF Fenced(call[c].nonce)
       THEN /\ row' = Replaced(call[c].got)
            /\ stamp' = stamp + 1
            /\ Return(c, "session", call[c].got)
       ELSE /\ LoseLease(c)
            /\ UNCHANGED rowVars
  /\ UNCHANGED <<conf, late, pending, idpVars, begun, hist>>

\* Mutant of Fail: the rows the fence let through are not looked at.
FailReportsAnyway(c) ==
  /\ call[c].pc = "fail"
  /\ Return(c, "exchangefailed", NoToken)
  /\ IF Fenced(call[c].nonce)
       THEN /\ row' = MarkedFailed
            /\ stamp' = stamp + 1
            /\ lastFailure' = stamp + 1
       ELSE UNCHANGED <<rowVars, lastFailure>>
  /\ UNCHANGED <<conf, late, pending, idpVars, begun, lost, replayed>>

\* FailRefresh, fenced the same way: a failure that is no longer this
\* caller's to report is discarded.
Fail(c) ==
  /\ call[c].pc = "fail"
  /\ IF Fenced(call[c].nonce)
       THEN /\ row' = MarkedFailed
            /\ stamp' = stamp + 1
            /\ lastFailure' = stamp + 1
            /\ Return(c, "exchangefailed", NoToken)
       ELSE /\ LoseLease(c)
            /\ UNCHANGED <<rowVars, lastFailure>>
  /\ UNCHANGED <<conf, late, pending, idpVars, begun, lost, replayed>>

\* The write-back a caller abandons; it may have reached the server.
Abandoned(c) ==
  [kind |-> call[c].pc, nonce |-> call[c].nonce, tok |-> call[c].got]

\* The write-back failed or ran into writeTimeout.  A failed exchange is
\* reported all the same, joined with the error of its write-back.
WriteError(c) ==
  /\ call[c].pc \in {"commit", "fail"}
  /\ Return(c, IF call[c].pc = "fail" THEN "unrecorded" ELSE "error", NoToken)
  /\ late' \in {late, late \cup {Abandoned(c)}}
  /\ lost' = IF call[c].pc = "commit" THEN lost \cup {call[c].tok} ELSE lost
  /\ UNCHANGED <<conf, rowVars, pending, idpVars, begun, replayed,
                 lastFailure>>

\* The process dies.  A request already on its way to the provider may be
\* acted on, and a write already sent may land.
Crash(c) ==
  /\ call[c].pc # "idle"
  /\ Return(c, "error", NoToken)
  /\ CASE call[c].pc = "posting" ->
            /\ UNCHANGED late
            /\ \/ UNCHANGED <<idpVars, lost>>
               \/ /\ Honour(call[c].tok)
                  /\ lost' = lost \cup {call[c].tok}
       [] call[c].pc = "commit" ->
            /\ late' \in {late, late \cup {Abandoned(c)}}
            /\ lost' = lost \cup {call[c].tok}
            /\ UNCHANGED idpVars
       [] call[c].pc = "fail" ->
            /\ late' \in {late, late \cup {Abandoned(c)}}
            /\ UNCHANGED <<idpVars, lost>>
       [] OTHER -> UNCHANGED <<late, idpVars, lost>>
  /\ UNCHANGED <<conf, rowVars, pending, begun, replayed, lastFailure>>

-----------------------------------------------------------------------------
(* The rest of the world *)

\* A write whose caller is gone reaches the database after all.
Land(w) ==
  /\ w \in late
  /\ late' = late \ {w}
  /\ IF Fenced(w.nonce)
       THEN /\ row' = IF w.kind = "commit" THEN Replaced(w.tok)
                                           ELSE MarkedFailed
            /\ stamp' = stamp + 1
            /\ lastFailure' = IF w.kind = "fail" THEN stamp + 1
                                                 ELSE lastFailure
       ELSE UNCHANGED <<rowVars, lastFailure>>
  /\ UNCHANGED <<conf, call, pending, idpVars, begun, lost, replayed>>

\* Update is handed a token set the application obtained by itself, reads
\* the session, and writes that token set over it in a second, unfenced
\* statement, which may find the row gone or fail.
UpdateGet ==
  /\ pending = NoToken /\ issued < MaxIssued
  /\ Readable
  /\ issued' = issued + 1
  /\ live' = live \cup {issued + 1}
  /\ pending' = issued + 1
  /\ UNCHANGED <<conf, rowVars, call, late, expiring, begun, hist>>

UpdateWrite ==
  /\ pending # NoToken
  /\ pending' = NoToken
  /\ \/ row.exists /\ row' = Replaced(pending) /\ stamp' = stamp + 1
     \/ UNCHANGED rowVars
  /\ UNCHANGED <<conf, call, late, idpVars, begun, hist>>

\* Delete and DeleteSubject at any time, DeleteExpired past the expiry.
Delete ==
  /\ row.exists
  /\ row' = [row EXCEPT !.exists = FALSE, !.failedAt = Null,
                        !.nonce = NoNonce, !.leaseLeft = Free]
  /\ UNCHANGED <<conf, stamp, call, late, pending, idpVars, begun, hist>>

\* The session's absolute expiry passes.
SessionExpires ==
  /\ row.exists /\ ~row.expired
  /\ row' = [row EXCEPT !.expired = TRUE]
  /\ UNCHANGED <<conf, stamp, call, late, pending, idpVars, begun, hist>>

\* The row's access token enters the refresh margin.
TokenAges ==
  /\ row.tok \notin expiring
  /\ expiring' = expiring \cup {row.tok}
  /\ UNCHANGED <<conf, rowVars, call, late, pending, live, issued, begun,
                 hist>>

\* Time passes for the lease and for every bounded phase.
Tick ==
  /\ \A c \in Callers : Holding(c) => call[c].until > 0
  /\ row' = [row EXCEPT !.leaseLeft = IF @ = Free THEN Free ELSE @ - 1]
  /\ call' = [c \in Callers |->
                IF Holding(c) THEN [call[c] EXCEPT !.until = @ - 1]
                              ELSE call[c]]
  /\ UNCHANGED <<conf, stamp, late, pending, idpVars, begun, hist>>

-----------------------------------------------------------------------------
(* Specification *)

\* A session just created, with a configuration New accepts.
Init ==
  /\ conf \in Confs
  /\ row = [exists |-> TRUE, expired |-> FALSE, tok |-> 1,
            refreshedAt |-> 1, failedAt |-> Null,
            nonce |-> NoNonce, leaseLeft |-> Free]
  /\ call = [c \in Callers |-> Idle("none", NoToken)]
  /\ late = {} /\ pending = NoToken
  /\ live = {1} /\ issued = 1 /\ expiring = {1}
  /\ stamp = 1 /\ begun = 0
  /\ lost = {} /\ replayed = {} /\ lastFailure = Null

\* A step of the call's own goroutine.
Step(c) ==
  \/ GiveUp(c) \/ ReadNothing(c) \/ ReadFirst(c) \/ ReadAgain(c)
  \/ Take(c) \/ TakeDenied(c) \/ TakeError(c) \/ WaitEnds(c)
  \/ StartExchange(c) \/ LeasedUnreadable(c)
  \/ ExchangeOK(c) \/ SealError(c) \/ ExchangeError(c)
  \/ Commit(c) \/ Fail(c) \/ WriteError(c)

World ==
  \/ \E w \in late : Land(w)
  \/ UpdateGet \/ UpdateWrite \/ Delete
  \/ SessionExpires \/ TokenAges \/ Tick

Next ==
  \/ \E c \in Callers : Begin(c) \/ PassDeadline(c) \/ Step(c) \/ Crash(c)
  \/ World

Spec == Init /\ [][Next]_vars

\* A running call is scheduled and its contexts bound every wait; every
\* pass of the loop takes time, so one of them finds the budget spent.
FairSpec ==
  Spec /\ \A c \in Callers : WF_vars(Step(c)) /\ SF_vars(PassDeadline(c))

-----------------------------------------------------------------------------
(* Properties *)

PCs == {"idle", "read", "take", "wait", "leased", "posting", "commit", "fail"}

RowType ==
  [exists: BOOLEAN, expired: BOOLEAN, tok: Nat, refreshedAt: Nat,
   failedAt: Nat, nonce: Nonces \cup {NoNonce}, leaseLeft: Nat \cup {Free}]

CallType ==
  [pc: PCs, first: BOOLEAN, seenR: Nat, seenF: Nat, overdue: BOOLEAN,
   lostReads: 0 .. MaxLostWriteReads, nonce: Nonces \cup {NoNonce},
   tok: Nat, got: Nat, until: Nat, since: Nat, result: Results]

WriteType == [kind: {"commit", "fail"}, nonce: Nonces, tok: Nat]

\* Type correctness of the row, the calls in flight and the provider.
TypeOK ==
  /\ conf \in Confs
  /\ row \in RowType
  /\ call \in [Callers -> CallType]
  /\ late \subseteq WriteType
  /\ pending \in Nat
  /\ live \subseteq Nat /\ issued \in Nat /\ expiring \subseteq Nat
  /\ stamp \in Nat /\ begun \in Nat
  /\ lost \subseteq Nat /\ replayed \subseteq Nat /\ lastFailure \in Nat

\* Refresh, step 1: no exchange is started for a token set that still has
\* more than the refresh margin left, however the row moved between the
\* caller's read and its lease.
NoNeedlessExchange ==
  \A c \in Callers : Holding(c) => call[c].tok \in expiring

\* conf.validate: a refresher whose provider and database are merely slow
\* keeps its lease, so no two callers are ever exchanging the same refresh
\* token.
ExclusiveExchange ==
  Prompt => \A c, d \in Callers :
    c # d /\ Holding(c) /\ Holding(d) => call[c].tok # call[d].tok

\* "Exactly once": a refresh token the provider has rotated away is posted
\* again only when the answer to its exchange never reached the row (the
\* one window Refresh documents as open).
NoReplay == Prompt => replayed \subseteq lost

\* TakeRefreshLease's failed_at clause: a call that was already under way
\* when a failure was recorded never exchanges the token itself, so an
\* outage costs one attempt and not one per waiting caller.
OneAttemptPerFailure ==
  [][\A c \in Callers :
       call[c].pc = "take" /\ call'[c].pc = "leased"
         => lastFailure <= call[c].since]_vars

\* What refreshFailed's caller c may report its failure over: the row as c
\* saw it, which nobody has refreshed since.
StillOwn(c) == row.refreshedAt <= call[c].seenR /\ row.tok = call[c].tok

\* refreshFailed, when FailRefresh answers: however long the caller was
\* stalled, it reports its own exchange failure only while it still owns the
\* refresh, never over a session somebody refreshed since.
RecordedFailureIsOwn ==
  [][\A c \in Callers :
       call[c].pc = "fail" /\ call'[c].result = "exchangefailed"
         => StillOwn(c)]_vars

\* The comment on Refresh, step 3, whether FailRefresh answers or not: "a
\* refresher that has lost its lease must not report its own exchange
\* failure".
FailureIsOwn ==
  [][\A c \in Callers :
       call[c].pc = "fail" /\ call'[c].result \in OwnFailures
         => StillOwn(c)]_vars

\* The TokenStore contract: whoever's write lands last, the token set in the
\* row is only replaced by a later one or by an Update the application asked
\* for; every session a call returns is the one the row holds; and nothing
\* brings a deleted session back.
Contract == INSTANCE SessionSpec WITH
  Clients  <- Callers,
  MaxToken <- MaxIssued,
  alive    <- row.exists,
  current  <- row.tok,
  asked    <- pending # NoToken,
  answer   <- [c \in Callers |->
                 IF call[c].result = "session" THEN call[c].tok ELSE NoToken]

HonoursContract == Contract!Spec

\* The loop in Refresh ends: every call returns.
CallsEnd == \A c \in Callers : call[c].pc # "idle" ~> call[c].pc = "idle"

=============================================================================
