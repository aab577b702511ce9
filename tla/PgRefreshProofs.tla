-------------------------- MODULE PgRefreshProofs --------------------------
(***************************************************************************)
(* Proofs about PgRefresh, for every number of callers, every nonce space, *)
(* every configuration conf.validate accepts and every bound.              *)
(***************************************************************************)
EXTENDS PgRefresh, TLAPS

\* A call that has returned, whatever it returned, is well typed.
LEMMA IdleType ==
  ASSUME NEW r \in Results, NEW t \in Nat
  PROVE  Idle(r, t) \in CallType
  BY DEF Idle, CallType, PCs, Results, OwnFailures, Null, NoToken, NoNonce,
         MaxLostWriteReads

\* The nonce a lease is taken with is in nobody else's hands.
LEMMA FreshNonceType ==
  ASSUME Nonces \ UsedNonces # {}
  PROVE  FreshNonce \in Nonces /\ FreshNonce \notin UsedNonces
  BY DEF FreshNonce

\* What conf.validate guarantees of the durations.
LEMMA ConfType ==
  ASSUME conf \in Confs
  PROVE  /\ conf.lease \in Nat /\ conf.request \in Nat /\ conf.write \in Nat
         /\ conf.stall \in Nat
         /\ conf.lease > conf.request + conf.write
  <1>1. conf \in [lease: Durations, request: Durations, write: Durations,
                  stall: Stalls, rotates: Rotations]
    BY DEF Confs
  <1>2. /\ conf.lease \in Durations /\ conf.request \in Durations
        /\ conf.write \in Durations /\ conf.stall \in Stalls
    BY <1>1
  <1>3. Durations \subseteq Nat
    BY DurationAssumption DEF Durations
  <1>4. conf.lease > conf.request + conf.write
    BY DEF Confs, Validate
  <1> QED BY <1>2, <1>3, <1>4, DurationAssumption

\* The rows the statements leave behind are well typed.
LEMMA RowStatements ==
  ASSUME row \in RowType, stamp \in Nat, conf \in Confs
  PROVE  /\ \A t \in Nat : Replaced(t) \in RowType
         /\ MarkedFailed \in RowType
         /\ \A n \in Nonces : LeasedTo(n) \in RowType
  <1>1. Null \in Nat /\ stamp + 1 \in Nat /\ conf.lease \in Nat
    BY ConfType DEF Null
  <1>2. \A t \in Nat : Replaced(t) \in RowType
    BY <1>1 DEF RowType, Replaced
  <1>3. MarkedFailed \in RowType
    BY <1>1 DEF RowType, MarkedFailed
  <1>4. \A n \in Nonces : LeasedTo(n) \in RowType
    BY <1>1 DEF RowType, LeasedTo
  <1> QED BY <1>2, <1>3, <1>4

\* An exchange the provider honours leaves it well typed.
LEMMA HonourType ==
  ASSUME live \subseteq Nat, issued \in Nat, expiring \subseteq Nat,
         NEW t \in Nat, Honour(t)
  PROVE  live' \subseteq Nat /\ issued' \in Nat /\ expiring' \subseteq Nat
  <1>1. issued' = issued + 1 /\ issued + 1 \in Nat
    BY DEF Honour
  <1>2. live' \subseteq live \cup {issued + 1}
    BY DEF Honour
  <1>3. expiring' \subseteq expiring \cup {issued + 1}
    BY DEF Honour
  <1> QED BY <1>1, <1>2, <1>3

\* Whoever owns, or thinks it owns, the refresh has a nonce.
HolderNonces ==
  \A c \in Callers : Holding(c) => call[c].nonce \in Nonces

\* Becoming a well-typed call keeps the calls well typed.
LEMMA BecomeType ==
  ASSUME call \in [Callers -> CallType], NEW c \in Callers,
         NEW rec \in CallType, Become(c, rec)
  PROVE  call' \in [Callers -> CallType]
  BY DEF Become

\* A call that returns leaves the calls well typed.
LEMMA ReturnType ==
  ASSUME call \in [Callers -> CallType], NEW c \in Callers,
         NEW r \in Results, NEW t \in Nat, Return(c, r, t)
  PROVE  call' \in [Callers -> CallType]
  BY BecomeType, IdleType DEF Return

\* Type correctness is preserved by every step.
LEMMA TypeStep == TypeOK /\ HolderNonces /\ [Next]_vars => TypeOK'
  <1> SUFFICES ASSUME TypeOK, HolderNonces, [Next]_vars
               PROVE  TypeOK'
    OBVIOUS
  <1> USE DEF rowVars, idpVars, hist
  <1>0. /\ conf.lease \in Nat /\ conf.request \in Nat /\ conf.write \in Nat
        /\ row \in RowType /\ stamp \in Nat /\ row.tok \in Nat
        /\ conf.stall \in Nat
    BY ConfType, DurationAssumption DEF TypeOK, RowType
  <1>1. \A c \in Callers :
          /\ call[c] \in CallType
          /\ call[c].tok \in Nat /\ call[c].got \in Nat
    BY DEF TypeOK, CallType
  <1>2. NoToken \in Nat /\ {"none", "session", "nosession", "unopenable",
          "timeout", "refreshfailed", "exchangefailed", "unrecorded",
          "error"} = Results
    BY DEF NoToken, Results, OwnFailures
  <1>3. ASSUME NEW c \in Callers, LoseLease(c)
        PROVE  call' \in [Callers -> CallType]
    <2> DEFINE n == IF call[c].lostReads + 1 < MaxLostWriteReads
                      THEN call[c].lostReads + 1 ELSE MaxLostWriteReads
    <2>1. n \in 0 .. MaxLostWriteReads
      BY <1>1 DEF CallType, MaxLostWriteReads
    <2>2. LoseLease(c) = Become(c, [call[c] EXCEPT !.pc = "read",
             !.first = FALSE, !.nonce = NoNonce, !.tok = NoToken,
             !.got = NoToken, !.until = 0, !.lostReads = n])
      BY DEF LoseLease
    <2>3. [call[c] EXCEPT !.pc = "read",
             !.first = FALSE, !.nonce = NoNonce, !.tok = NoToken,
             !.got = NoToken, !.until = 0, !.lostReads = n] \in CallType
      <3> HIDE DEF n
      <3> QED BY <1>1, <2>1 DEF CallType, PCs, NoNonce, NoToken
    <2> QED BY <1>3, <2>2, <2>3, BecomeType DEF TypeOK
  <1>4. ASSUME NEW c \in Callers, Begin(c)
        PROVE  TypeOK'
    <2>1. [Idle("none", NoToken) EXCEPT !.pc = "read"] \in CallType
      BY <1>2, IdleType DEF CallType, PCs
    <2> QED BY <1>4, <2>1, BecomeType DEF TypeOK, Begin
  <1>5. ASSUME NEW c \in Callers, PassDeadline(c)
        PROVE  TypeOK'
    <2>1. [call[c] EXCEPT !.overdue = TRUE] \in CallType
      BY <1>5, <1>0, <1>1, <1>2 DEF CallType
    <2> QED BY <1>5, <2>1, BecomeType DEF TypeOK, PassDeadline
  <1>6. ASSUME NEW c \in Callers, GiveUp(c)
        PROVE  TypeOK'
    BY <1>6, <1>2, ReturnType DEF TypeOK, GiveUp
  <1>7. ASSUME NEW c \in Callers, ReadNothing(c)
        PROVE  TypeOK'
    BY <1>7, <1>2, ReturnType DEF TypeOK, ReadNothing
  <1>8. ASSUME NEW c \in Callers, ReadFirst(c)
        PROVE  TypeOK'
    <2>1. [call[c] EXCEPT !.pc = "take", !.seenR = row.refreshedAt,
             !.seenF = row.failedAt, !.since = stamp] \in CallType
      BY <1>0, <1>1 DEF CallType, PCs, RowType
    <2>2. call' \in [Callers -> CallType]
      BY <1>8, <2>1, <1>0, <1>2, BecomeType, ReturnType DEF TypeOK, ReadFirst
    <2> QED BY <1>8, <2>2 DEF TypeOK, ReadFirst
  <1>9. ASSUME NEW c \in Callers, ReadAgain(c)
        PROVE  TypeOK'
    <2> DEFINE k == IF call[c].lostReads > 0 THEN call[c].lostReads - 1 ELSE 0
    <2>1. k \in 0 .. MaxLostWriteReads
      BY <1>1 DEF CallType, MaxLostWriteReads
    <2>2. [call[c] EXCEPT !.pc = "take", !.lostReads = k] \in CallType
      <3> HIDE DEF k
      <3> QED BY <2>1, <1>1 DEF CallType, PCs
    <2>3. \/ Return(c, "session", row.tok)
          \/ Return(c, "refreshfailed", NoToken)
          \/ Become(c, [call[c] EXCEPT !.pc = "take", !.lostReads = k])
      BY <1>9 DEF ReadAgain
    <2>4. call' \in [Callers -> CallType]
      BY <2>2, <2>3, <1>0, <1>2, BecomeType, ReturnType DEF TypeOK
    <2> QED BY <1>9, <2>4 DEF TypeOK, ReadAgain
  <1>10. ASSUME NEW c \in Callers, Take(c)
        PROVE  TypeOK'
    <2>1. FreshNonce \in Nonces
      BY <1>10, FreshNonceType DEF Take
    <2>2. [call[c] EXCEPT !.pc = "leased", !.nonce = FreshNonce,
             !.tok = row.tok, !.until = conf.stall] \in CallType
      BY <1>0, <1>1, <2>1 DEF CallType, PCs
    <2>3. call' \in [Callers -> CallType]
      BY <1>10, <2>2, BecomeType DEF TypeOK, Take
    <2>4. row' \in RowType
      BY <1>10, <2>1, RowStatements DEF TypeOK, Take
    <2> QED BY <1>10, <2>3, <2>4 DEF TypeOK, Take
  <1>11. ASSUME NEW c \in Callers, TakeDenied(c)
        PROVE  TypeOK'
    <2>1. [call[c] EXCEPT !.pc = "wait", !.first = FALSE] \in CallType
      BY <1>11, <1>0, <1>1, <1>2 DEF CallType, PCs
    <2> QED BY <1>11, <2>1, BecomeType DEF TypeOK, TakeDenied
  <1>12. ASSUME NEW c \in Callers, TakeError(c)
        PROVE  TypeOK'
    <2>1. row' \in RowType
      BY <1>12, RowStatements, FreshNonceType DEF TypeOK, TakeError
    <2>2. call' \in [Callers -> CallType]
      BY <1>12, <1>2, ReturnType DEF TypeOK, TakeError
    <2> QED BY <1>12, <2>1, <2>2 DEF TypeOK, TakeError
  <1>13. ASSUME NEW c \in Callers, WaitEnds(c)
        PROVE  TypeOK'
    <2>1. [call[c] EXCEPT !.pc = "read"] \in CallType
      BY <1>1 DEF CallType, PCs
    <2>2. call' \in [Callers -> CallType]
      BY <1>13, <2>1, <1>2, BecomeType, ReturnType DEF TypeOK, WaitEnds
    <2> QED BY <1>13, <2>2 DEF TypeOK, WaitEnds
  <1>14. ASSUME NEW c \in Callers, StartExchange(c)
        PROVE  TypeOK'
    <2>1. [call[c] EXCEPT !.pc = "posting", !.until = conf.request] \in CallType
      BY <1>14, <1>0, <1>1, <1>2 DEF CallType, PCs
    <2> QED BY <1>14, <2>1, BecomeType DEF TypeOK, StartExchange
  <1>15. ASSUME NEW c \in Callers, LeasedUnreadable(c)
        PROVE  TypeOK'
    BY <1>15, <1>2, ReturnType DEF TypeOK, LeasedUnreadable
  <1>16. ASSUME NEW c \in Callers, ExchangeOK(c)
        PROVE  TypeOK'
    <2>1. [call[c] EXCEPT !.pc = "commit", !.got = issued + 1,
             !.until = conf.write] \in CallType
      <3>1. issued + 1 \in Nat
        BY DEF TypeOK
      <3> QED BY <3>1, <1>0, <1>1 DEF CallType, PCs
    <2>2. call' \in [Callers -> CallType]
      BY <1>16, <2>1, BecomeType DEF TypeOK, ExchangeOK
    <2> QED BY <1>16, <2>2 DEF TypeOK, ExchangeOK, Honour
  <1>17. ASSUME NEW c \in Callers, SealError(c)
        PROVE  TypeOK'
    <2>1. call' \in [Callers -> CallType]
      BY <1>17, <1>2, ReturnType DEF TypeOK, SealError
    <2>2. live' \subseteq Nat /\ issued' \in Nat /\ expiring' \subseteq Nat
      BY <1>17, <1>1, HonourType DEF TypeOK, SealError
    <2> QED BY <1>17, <2>1, <2>2, <1>1 DEF TypeOK, SealError
  <1>18. ASSUME NEW c \in Callers, ExchangeError(c)
        PROVE  TypeOK'
    <2>1. [call[c] EXCEPT !.pc = "fail", !.until = conf.write] \in CallType
      BY <1>0, <1>1 DEF CallType, PCs
    <2>2. call' \in [Callers -> CallType]
      BY <1>18, <2>1, BecomeType DEF TypeOK, ExchangeError
    <2> QED BY <1>18, <2>2, <1>1 DEF TypeOK, ExchangeError, Honour, Replay
  <1>19. ASSUME NEW c \in Callers, Commit(c)
        PROVE  TypeOK'
    <2>1. call' \in [Callers -> CallType]
      BY <1>19, <1>1, <1>2, <1>3, ReturnType DEF TypeOK, Commit
    <2>2. row' \in RowType /\ stamp' \in Nat
      BY <1>19, <1>1, RowStatements DEF TypeOK, Commit
    <2> QED BY <1>19, <2>1, <2>2 DEF TypeOK, Commit
  <1>20. ASSUME NEW c \in Callers, Fail(c)
        PROVE  TypeOK'
    <2>1. call' \in [Callers -> CallType]
      BY <1>20, <1>2, <1>3, ReturnType DEF TypeOK, Fail
    <2>2. row' \in RowType /\ stamp' \in Nat /\ lastFailure' \in Nat
      BY <1>20, RowStatements DEF TypeOK, Fail
    <2> QED BY <1>20, <2>1, <2>2 DEF TypeOK, Fail
  <1>21. ASSUME NEW w \in late, Land(w)
        PROVE  TypeOK'
    <2>1. w.tok \in Nat
      BY DEF TypeOK, WriteType
    <2>2. row' \in RowType /\ stamp' \in Nat /\ lastFailure' \in Nat
      BY <1>21, <2>1, RowStatements DEF TypeOK, Land
    <2> QED BY <1>21, <2>2 DEF TypeOK, Land
  <1>22. ASSUME UpdateGet
        PROVE  TypeOK'
    <2>1. issued + 1 \in Nat
      BY DEF TypeOK
    <2> QED BY <1>22, <2>1 DEF TypeOK, UpdateGet
  <1>23. ASSUME UpdateWrite
        PROVE  TypeOK'
    <2>1. row' \in RowType
      BY <1>23, RowStatements DEF TypeOK, UpdateWrite
    <2>2. stamp' \in Nat
      BY <1>23 DEF TypeOK, UpdateWrite
    <2> QED BY <1>23, <2>1, <2>2 DEF TypeOK, UpdateWrite, NoToken
  <1>24. ASSUME Delete
        PROVE  TypeOK'
    <2>1. row' \in RowType
      BY <1>24, <1>0 DEF Delete, RowType, NoNonce, Free, Null
    <2> QED BY <1>24, <2>1 DEF TypeOK, Delete
  <1>25. ASSUME SessionExpires
        PROVE  TypeOK'
    <2>1. row' \in RowType
      BY <1>25, <1>0 DEF SessionExpires, RowType
    <2> QED BY <1>25, <2>1 DEF TypeOK, SessionExpires
  <1>26. ASSUME TokenAges
        PROVE  TypeOK'
    BY <1>26, <1>0 DEF TypeOK, TokenAges
  <1>27. ASSUME Tick
        PROVE  TypeOK'
    <2> DEFINE left == IF row.leaseLeft = Free THEN Free ELSE row.leaseLeft - 1
    <2>1. left \in Nat \cup {Free}
      BY <1>0 DEF RowType, Free
    <2>2. row' = [row EXCEPT !.leaseLeft = left]
      BY <1>27 DEF Tick
    <2>3. row' \in RowType
      <3> HIDE DEF left
      <3> QED BY <2>1, <2>2, <1>0 DEF RowType
    <2>4. ASSUME NEW c \in Callers, Holding(c)
          PROVE  [call[c] EXCEPT !.until = call[c].until - 1] \in CallType
      <3>1. call[c].until - 1 \in Nat
        BY <1>27, <1>1, <2>4 DEF Tick, CallType
      <3> QED BY <3>1, <1>1 DEF CallType
    <2>5. call' \in [Callers -> CallType]
      BY <1>27, <2>4, <1>1 DEF Tick
    <2> QED BY <1>27, <2>3, <2>5 DEF TypeOK, Tick
  <1>28. ASSUME NEW c \in Callers, WriteError(c)
        PROVE  TypeOK'
    <2>1. call' \in [Callers -> CallType]
      BY <1>28, <1>2, ReturnType DEF TypeOK, WriteError
    <2>2. late' \subseteq WriteType
      BY <1>28, <1>1 DEF TypeOK, WriteError, Abandoned, WriteType,
             HolderNonces, Holding
    <2> QED BY <1>28, <2>1, <2>2, <1>1 DEF TypeOK, WriteError
  <1>29. ASSUME NEW c \in Callers, Crash(c)
        PROVE  TypeOK'
    <2>1. call' \in [Callers -> CallType]
      BY <1>29, <1>2, ReturnType DEF TypeOK, Crash
    <2>2. late' \subseteq WriteType
      BY <1>29, <1>1 DEF TypeOK, Crash, Abandoned, WriteType,
             HolderNonces, Holding
    <2> QED BY <1>29, <2>1, <2>2, <1>1 DEF TypeOK, Crash, Honour
  <1>30. CASE UNCHANGED vars
    BY <1>30 DEF TypeOK, vars
  <1> QED
    BY <1>4, <1>5, <1>6, <1>7, <1>8, <1>9, <1>10, <1>11, <1>12, <1>13,
       <1>14, <1>15, <1>16, <1>17, <1>18, <1>19, <1>20, <1>21, <1>22,
       <1>23, <1>24, <1>25, <1>26, <1>27, <1>28, <1>29, <1>30
    DEF Next, Step, World

-----------------------------------------------------------------------------
(* The fence.  A write-back, in a caller's hands or abandoned by one, that  *)
(* presents the nonce the row holds carries a later token set than the row. *)

FenceInv ==
  /\ row.tok \in 1 .. issued /\ issued <= MaxIssued
  /\ \A c \in Callers :
       call[c].pc = "commit" =>
         /\ call[c].got <= issued
         /\ row.nonce = call[c].nonce => row.tok < call[c].got
  /\ \A w \in late :
       w.kind = "commit" =>
         /\ w.tok <= issued
         /\ row.nonce = w.nonce => row.tok < w.tok
  /\ \A c \in Callers : call[c].pc # "idle" => call[c].result # "session"

\* A running Update was handed its token set before it started.
PendingInv == pending <= issued

Inv == TypeOK /\ HolderNonces /\ FenceInv /\ PendingInv

\* What a step of one caller leaves alone, and what a return leaves behind.
LEMMA BecomeFrame ==
  ASSUME call \in [Callers -> CallType], NEW c \in Callers,
         NEW rec \in CallType, Become(c, rec)
  PROVE  call'[c] = rec /\ \A d \in Callers \ {c} : call'[d] = call[d]
  BY DEF Become

\* A call that returns is idle with its result, and nobody else moves.
LEMMA ReturnFrame ==
  ASSUME call \in [Callers -> CallType], NEW c \in Callers,
         NEW r \in Results, NEW t \in Nat, Return(c, r, t)
  PROVE  /\ call'[c].pc = "idle" /\ call'[c].result = r /\ call'[c].tok = t
         /\ call'[c].nonce = NoNonce
         /\ \A d \in Callers \ {c} : call'[d] = call[d]
  BY BecomeFrame, IdleType DEF Return, Idle

\* A call whose ownership and result a step leaves alone.
Keeps(d) ==
  /\ call'[d].pc = call[d].pc /\ call'[d].nonce = call[d].nonce
  /\ call'[d].got = call[d].got /\ call'[d].result = call[d].result

\* A call that is where the invariant wants it after a step.
Sound(d) ==
  /\ call'[d].pc \in {"leased", "posting", "commit", "fail"}
       => call'[d].nonce \in Nonces
  /\ call'[d].pc # "idle" => call'[d].result # "session"
  /\ call'[d].pc = "commit" =>
       /\ call'[d].got <= issued'
       /\ row'.nonce = call'[d].nonce => row'.tok < call'[d].got

\* A step that leaves every call alone or sound, and takes the row to the
\* same token and nonce, to no nonce, or to one nobody has, keeps the fence.
LEMMA FenceFrame ==
  ASSUME Inv, TypeOK',
         \A d \in Callers : Keeps(d) \/ Sound(d),
         row'.tok \in 1 .. issued', issued <= issued', issued' <= MaxIssued,
         \/ row'.nonce = row.nonce /\ row'.tok = row.tok
         \/ row'.nonce \notin UsedNonces
         \/ row'.nonce = NoNonce,
         \A w \in late' : w \in late \/
           (w.kind = "commit" =>
              w.tok <= issued' /\ (row'.nonce = w.nonce => row'.tok < w.tok))
  PROVE  HolderNonces' /\ FenceInv'
  <1>1. NoNonce \notin Nonces
    BY NonceAssumption DEF NoNonce
  <1>2. /\ row.tok \in Nat /\ issued \in Nat /\ MaxIssued \in Nat
        /\ row'.tok \in Nat /\ issued' \in Nat
    BY BoundAssumption DEF Inv, TypeOK, RowType
  <1>3. HolderNonces'
    BY DEF Inv, HolderNonces, Holding, Keeps, Sound
  <1>4. ASSUME NEW d \in Callers, call'[d].pc = "commit"
        PROVE  /\ call'[d].got <= issued'
               /\ row'.nonce = call'[d].nonce => row'.tok < call'[d].got
    <2>1. CASE Sound(d)
      BY <1>4, <2>1 DEF Sound
    <2>2. CASE Keeps(d)
      <3>1. /\ call[d].pc = "commit" /\ call[d].nonce \in Nonces
            /\ call[d].nonce \in UsedNonces /\ call[d].got \in Nat
        BY <1>4, <2>2
        DEF Keeps, Inv, HolderNonces, Holding, UsedNonces, TypeOK, CallType
      <3>2. /\ call[d].got <= issued
            /\ row.nonce = call[d].nonce => row.tok < call[d].got
        BY <3>1 DEF Inv, FenceInv
      <3> QED BY <1>1, <1>2, <2>2, <3>1, <3>2 DEF Keeps
    <2> QED BY <2>1, <2>2
  <1>5. ASSUME NEW w \in late', w.kind = "commit"
        PROVE  /\ w.tok <= issued'
               /\ row'.nonce = w.nonce => row'.tok < w.tok
    <2>1. CASE w \in late
      <3>1. /\ w.nonce \in Nonces /\ w.nonce \in UsedNonces /\ w.tok \in Nat
        BY <2>1 DEF Inv, TypeOK, WriteType, UsedNonces
      <3>2. w.tok <= issued /\ (row.nonce = w.nonce => row.tok < w.tok)
        BY <1>5, <2>1 DEF Inv, FenceInv
      <3> QED BY <1>1, <1>2, <3>1, <3>2
    <2> QED BY <1>5, <2>1
  <1>6. \A d \in Callers : call'[d].pc # "idle" => call'[d].result # "session"
    BY DEF Inv, FenceInv, Keeps, Sound
  <1> QED BY <1>3, <1>4, <1>5, <1>6 DEF FenceInv

\* A call that returns is sound, and every other call is left alone.
LEMMA ReturnSound ==
  ASSUME Inv, NEW c \in Callers, NEW r \in Results, NEW t \in Nat,
         Return(c, r, t)
  PROVE  \A d \in Callers : Keeps(d) \/ Sound(d)
  BY ReturnFrame DEF Inv, TypeOK, Keeps, Sound

\* Only UpdateGet sets the pending token set, and no step takes an issued one
\* back.
LEMMA PendingStep == Inv /\ [Next]_vars => PendingInv'
  <1> SUFFICES ASSUME Inv, [Next]_vars PROVE PendingInv'
    OBVIOUS
  <1> USE DEF rowVars, idpVars, hist
  <1>1. pending \in Nat /\ issued \in Nat /\ pending <= issued
    BY DEF Inv, TypeOK, PendingInv
  <1>2. CASE UpdateGet
    BY <1>1, <1>2 DEF UpdateGet, PendingInv
  <1>3. CASE UpdateWrite
    BY <1>1, <1>3 DEF UpdateWrite, PendingInv, NoToken
  <1>4. ASSUME NEW c \in Callers,
               Begin(c) \/ PassDeadline(c) \/ Step(c) \/ Crash(c)
        PROVE  pending' = pending /\ issued' \in {issued, issued + 1}
    BY <1>4
    DEF Begin, PassDeadline, Step, Crash, GiveUp, ReadNothing, ReadFirst,
        ReadAgain, Take, TakeDenied, TakeError, WaitEnds, StartExchange,
        LeasedUnreadable, ExchangeOK, SealError, ExchangeError, Honour,
        Commit, Fail, WriteError
  <1>5. ASSUME World, ~UpdateGet, ~UpdateWrite
        PROVE  pending' = pending /\ issued' = issued
    BY <1>5 DEF World, Land, Delete, SessionExpires, TokenAges, Tick
  <1> QED BY <1>1, <1>2, <1>3, <1>4, <1>5 DEF Next, vars, PendingInv

\* The fence survives every step.
LEMMA FenceStep == Inv /\ [Next]_vars => Inv'
  <1> SUFFICES ASSUME Inv, [Next]_vars
               PROVE  Inv'
    OBVIOUS
  <1> USE DEF rowVars, idpVars, hist
  <1>0. TypeOK'
    BY TypeStep DEF Inv
  <1> SUFFICES HolderNonces' /\ FenceInv'
    BY <1>0, PendingStep DEF Inv
  <1>1. /\ \A c \in Callers : call[c] \in CallType
        /\ call \in [Callers -> CallType]
        /\ \A c \in Callers : call[c].tok \in Nat /\ call[c].got \in Nat
        /\ \A c \in Callers : call[c].pc # "idle" => call[c].result # "session"
        /\ \A c \in Callers : Holding(c) => call[c].nonce \in Nonces
    BY DEF Inv, TypeOK, CallType, HolderNonces, FenceInv
  <1>2. /\ row \in RowType /\ row.tok \in Nat /\ issued \in Nat
        /\ row.tok \in 1 .. issued /\ issued <= MaxIssued /\ MaxIssued \in Nat
    BY BoundAssumption DEF Inv, TypeOK, RowType, FenceInv
  <1>3. NoToken \in Nat /\ {"none", "session", "nosession", "unopenable",
          "timeout", "refreshfailed", "exchangefailed", "unrecorded",
          "error"} = Results
    BY DEF NoToken, Results, OwnFailures
  <1>4. ASSUME NEW c \in Callers, Holding(c), LoseLease(c)
        PROVE  \A d \in Callers : Keeps(d) \/ Sound(d)
    BY <1>1, <1>4 DEF LoseLease, Become, Keeps, Sound, Holding, CallType
  <1>5. ASSUME NEW t, Honour(t)
        PROVE  issued' = issued + 1 /\ issued' <= MaxIssued
    BY <1>2, <1>5 DEF Honour
  <1>6. ASSUME NEW c \in Callers, Begin(c)
        PROVE  HolderNonces' /\ FenceInv'
    <2>1. \A d \in Callers : Keeps(d) \/ Sound(d)
      BY <1>6, <1>1, <1>2, <1>3, ReturnSound
      DEF Begin, Become, Keeps, Sound, Holding, CallType, Idle
    <2> QED BY <1>6, <2>1, <1>0, <1>2, FenceFrame DEF Begin
  <1>7. ASSUME NEW c \in Callers, PassDeadline(c)
        PROVE  HolderNonces' /\ FenceInv'
    <2>1. \A d \in Callers : Keeps(d) \/ Sound(d)
      BY <1>7, <1>1, <1>2, <1>3, ReturnSound
      DEF PassDeadline, Become, Keeps, Sound, Holding, CallType
    <2> QED BY <1>7, <2>1, <1>0, <1>2, FenceFrame DEF PassDeadline
  <1>8. ASSUME NEW c \in Callers, GiveUp(c)
        PROVE  HolderNonces' /\ FenceInv'
    <2>1. \A d \in Callers : Keeps(d) \/ Sound(d)
      BY <1>8, <1>1, <1>2, <1>3, ReturnSound
      DEF GiveUp, Become, Keeps, Sound, Holding, CallType
    <2> QED BY <1>8, <2>1, <1>0, <1>2, FenceFrame DEF GiveUp
  <1>9. ASSUME NEW c \in Callers, ReadNothing(c)
        PROVE  HolderNonces' /\ FenceInv'
    <2>1. \A d \in Callers : Keeps(d) \/ Sound(d)
      BY <1>9, <1>1, <1>2, <1>3, ReturnSound
      DEF ReadNothing, Become, Keeps, Sound, Holding, CallType
    <2> QED BY <1>9, <2>1, <1>0, <1>2, FenceFrame DEF ReadNothing
  <1>10. ASSUME NEW c \in Callers, ReadFirst(c)
        PROVE  HolderNonces' /\ FenceInv'
    <2>1. CASE row.tok \notin expiring
      <3>1. \A d \in Callers : Keeps(d) \/ Sound(d)
        BY <1>10, <2>1, <1>2, <1>3, ReturnSound DEF ReadFirst
      <3> QED BY <1>10, <3>1, <1>0, <1>2, FenceFrame DEF ReadFirst
    <2>2. CASE ~(row.tok \notin expiring)
      <3>1. \A d \in Callers \ {c} : call'[d] = call[d]
        BY <1>10, <2>2, <1>1 DEF ReadFirst, Become
      <3>2. /\ call'[c].pc \in {"read", "take"}
            /\ call'[c].result = call[c].result /\ call[c].pc # "idle"
        BY <1>10, <2>2, <1>1 DEF ReadFirst, Become, CallType
      <3>3. \A d \in Callers : Keeps(d) \/ Sound(d)
        BY <3>1, <3>2, <1>1 DEF Keeps, Sound
      <3> QED BY <1>10, <3>3, <1>0, <1>2, FenceFrame DEF ReadFirst
    <2> QED BY <2>1, <2>2
  <1>11. ASSUME NEW c \in Callers, ReadAgain(c)
        PROVE  HolderNonces' /\ FenceInv'
    <2>1. CASE \/ row.refreshedAt > call[c].seenR
               \/ Advanced(row.failedAt, call[c].seenF)
      <3>1. \A d \in Callers : Keeps(d) \/ Sound(d)
        BY <1>11, <2>1, <1>2, <1>3, ReturnSound DEF ReadAgain
      <3> QED BY <1>11, <3>1, <1>0, <1>2, FenceFrame DEF ReadAgain
    <2>2. CASE ~(\/ row.refreshedAt > call[c].seenR
               \/ Advanced(row.failedAt, call[c].seenF))
      <3>1. \A d \in Callers \ {c} : call'[d] = call[d]
        BY <1>11, <2>2, <1>1 DEF ReadAgain, Become
      <3>2. /\ call'[c].pc \in {"read", "take"}
            /\ call'[c].result = call[c].result /\ call[c].pc # "idle"
        BY <1>11, <2>2, <1>1 DEF ReadAgain, Become, CallType
      <3>3. \A d \in Callers : Keeps(d) \/ Sound(d)
        BY <3>1, <3>2, <1>1 DEF Keeps, Sound
      <3> QED BY <1>11, <3>3, <1>0, <1>2, FenceFrame DEF ReadAgain
    <2> QED BY <2>1, <2>2
  <1>12. ASSUME NEW c \in Callers, Take(c)
        PROVE  HolderNonces' /\ FenceInv'
    <2>1. FreshNonce \in Nonces /\ FreshNonce \notin UsedNonces
      BY <1>12, FreshNonceType DEF Take
    <2>2. \A d \in Callers : Keeps(d) \/ Sound(d)
      BY <1>12, <2>1, <1>1 DEF Take, Become, Keeps, Sound, CallType
    <2>3. row'.nonce = FreshNonce /\ row'.tok = row.tok
      BY <1>12, <1>2 DEF Take, LeasedTo, RowType
    <2> QED BY <1>12, <2>1, <2>2, <2>3, <1>0, <1>2, FenceFrame DEF Take
  <1>13. ASSUME NEW c \in Callers, TakeDenied(c)
        PROVE  HolderNonces' /\ FenceInv'
    <2>1. \A d \in Callers : Keeps(d) \/ Sound(d)
      BY <1>13, <1>1, <1>2, <1>3, ReturnSound
      DEF TakeDenied, Become, Keeps, Sound, Holding, CallType
    <2> QED BY <1>13, <2>1, <1>0, <1>2, FenceFrame DEF TakeDenied
  <1>14. ASSUME NEW c \in Callers, TakeError(c)
        PROVE  HolderNonces' /\ FenceInv'
    <2>1. \A d \in Callers : Keeps(d) \/ Sound(d)
      BY <1>14, <1>3, ReturnSound DEF TakeError
    <2>2. /\ row'.tok = row.tok
          /\ row'.nonce = row.nonce \/ row'.nonce \notin UsedNonces
      BY <1>14, <1>2, FreshNonceType DEF TakeError, LeasedTo, RowType
    <2> QED BY <1>14, <2>1, <2>2, <1>0, <1>2, FenceFrame DEF TakeError
  <1>15. ASSUME NEW c \in Callers, WaitEnds(c)
        PROVE  HolderNonces' /\ FenceInv'
    <2>1. CASE Return(c, "error", NoToken)
      <3>1. \A d \in Callers : Keeps(d) \/ Sound(d)
        BY <1>15, <2>1, <1>2, <1>3, ReturnSound DEF WaitEnds
      <3> QED BY <1>15, <3>1, <1>0, <1>2, FenceFrame DEF WaitEnds
    <2>2. CASE ~(Return(c, "error", NoToken))
      <3>1. \A d \in Callers \ {c} : call'[d] = call[d]
        BY <1>15, <2>2, <1>1 DEF WaitEnds, Become
      <3>2. /\ call'[c].pc \in {"read", "take"}
            /\ call'[c].result = call[c].result /\ call[c].pc # "idle"
        BY <1>15, <2>2, <1>1 DEF WaitEnds, Become, CallType
      <3>3. \A d \in Callers : Keeps(d) \/ Sound(d)
        BY <3>1, <3>2, <1>1 DEF Keeps, Sound
      <3> QED BY <1>15, <3>3, <1>0, <1>2, FenceFrame DEF WaitEnds
    <2> QED BY <2>1, <2>2
  <1>16. ASSUME NEW c \in Callers, StartExchange(c)
        PROVE  HolderNonces' /\ FenceInv'
    <2>1. \A d \in Callers : Keeps(d) \/ Sound(d)
      BY <1>16, <1>1, <1>2, <1>3, ReturnSound
      DEF StartExchange, Become, Keeps, Sound, Holding, CallType
    <2> QED BY <1>16, <2>1, <1>0, <1>2, FenceFrame DEF StartExchange
  <1>17. ASSUME NEW c \in Callers, LeasedUnreadable(c)
        PROVE  HolderNonces' /\ FenceInv'
    <2>1. \A d \in Callers : Keeps(d) \/ Sound(d)
      BY <1>17, <1>1, <1>2, <1>3, ReturnSound
      DEF LeasedUnreadable, Become, Keeps, Sound, Holding, CallType
    <2> QED BY <1>17, <2>1, <1>0, <1>2, FenceFrame DEF LeasedUnreadable
  <1>18. ASSUME NEW c \in Callers, ExchangeOK(c)
        PROVE  HolderNonces' /\ FenceInv'
    <2>1. issued' = issued + 1 /\ issued' <= MaxIssued
      BY <1>18, <1>5 DEF ExchangeOK
    <2>2. \A d \in Callers : Keeps(d) \/ Sound(d)
      BY <1>18, <2>1, <1>1, <1>2
      DEF ExchangeOK, Become, Keeps, Sound, Holding, CallType
    <2> QED BY <1>18, <2>1, <2>2, <1>0, <1>2, FenceFrame DEF ExchangeOK
  <1>19. ASSUME NEW c \in Callers, SealError(c)
        PROVE  HolderNonces' /\ FenceInv'
    <2>1. issued' = issued + 1 /\ issued' <= MaxIssued
      BY <1>19, <1>5 DEF SealError
    <2>2. \A d \in Callers : Keeps(d) \/ Sound(d)
      BY <1>19, <1>3, ReturnSound DEF SealError
    <2> QED BY <1>19, <2>1, <2>2, <1>0, <1>2, FenceFrame DEF SealError
  <1>20. ASSUME NEW c \in Callers, ExchangeError(c)
        PROVE  HolderNonces' /\ FenceInv'
    <2>1. issued' \in {issued, issued + 1} /\ issued' <= MaxIssued
      BY <1>20, <1>2, <1>5 DEF ExchangeError
    <2>2. \A d \in Callers : Keeps(d) \/ Sound(d)
      BY <1>20, <1>1 DEF ExchangeError, Become, Keeps, Sound, Holding, CallType
    <2> QED BY <1>20, <2>1, <2>2, <1>0, <1>2, FenceFrame DEF ExchangeError
  <1>21. ASSUME NEW c \in Callers, Commit(c)
        PROVE  HolderNonces' /\ FenceInv'
    <2>1. \A d \in Callers : Keeps(d) \/ Sound(d)
      BY <1>21, <1>1, <1>3, <1>4, ReturnSound DEF Commit, Holding
    <2>2. CASE Fenced(call[c].nonce)
      <3>1. row'.tok = call[c].got /\ row'.nonce = NoNonce
        BY <1>21, <2>2, <1>2 DEF Commit, Replaced, RowType
      <3>2. call[c].got \in 1 .. issued
        BY <1>21, <2>2, <1>1, <1>2 DEF Commit, Fenced, Inv, FenceInv
      <3> QED BY <1>21, <2>1, <3>1, <3>2, <1>0, <1>2, FenceFrame DEF Commit
    <2>3. CASE ~Fenced(call[c].nonce)
      BY <1>21, <2>1, <2>3, <1>0, <1>2, FenceFrame DEF Commit
    <2> QED BY <2>2, <2>3
  <1>22. ASSUME NEW c \in Callers, Fail(c)
        PROVE  HolderNonces' /\ FenceInv'
    <2>1. \A d \in Callers : Keeps(d) \/ Sound(d)
      BY <1>22, <1>3, <1>4, ReturnSound DEF Fail, Holding
    <2>2. row'.tok = row.tok /\ row'.nonce \in {row.nonce, NoNonce}
      BY <1>22, <1>2 DEF Fail, MarkedFailed, RowType
    <2> QED BY <1>22, <2>1, <2>2, <1>0, <1>2, FenceFrame DEF Fail
  <1>23. ASSUME NEW c \in Callers, WriteError(c)
        PROVE  HolderNonces' /\ FenceInv'
    <2>1. \A d \in Callers : Keeps(d) \/ Sound(d)
      BY <1>23, <1>3, ReturnSound DEF WriteError
    <2>2. row' = row /\ issued' \in {issued, issued + 1} /\ issued' <= MaxIssued
      BY <1>23, <1>2, <1>5 DEF WriteError
    <2>3. \A w \in late' : w \in late \/ w = Abandoned(c)
      BY <1>23 DEF WriteError
    <2>4. Abandoned(c).kind = "commit" =>
            /\ Abandoned(c).tok <= issued'
            /\ row.nonce = Abandoned(c).nonce => row.tok < Abandoned(c).tok
      BY <2>2, <1>1, <1>2 DEF Abandoned, Inv, FenceInv
    <2> QED BY <1>23, <2>1, <2>2, <2>3, <2>4, <1>0, <1>2, FenceFrame
  <1>24. ASSUME NEW c \in Callers, Crash(c)
        PROVE  HolderNonces' /\ FenceInv'
    <2>1. \A d \in Callers : Keeps(d) \/ Sound(d)
      BY <1>24, <1>3, ReturnSound DEF Crash
    <2>2. row' = row /\ issued' \in {issued, issued + 1} /\ issued' <= MaxIssued
      BY <1>24, <1>2, <1>5 DEF Crash
    <2>3. \A w \in late' : w \in late \/ w = Abandoned(c)
      BY <1>24 DEF Crash
    <2>4. Abandoned(c).kind = "commit" =>
            /\ Abandoned(c).tok <= issued'
            /\ row.nonce = Abandoned(c).nonce => row.tok < Abandoned(c).tok
      BY <2>2, <1>1, <1>2 DEF Abandoned, Inv, FenceInv
    <2> QED BY <1>24, <2>1, <2>2, <2>3, <2>4, <1>0, <1>2, FenceFrame
  <1>25. ASSUME NEW w \in late, Land(w)
        PROVE  HolderNonces' /\ FenceInv'
    <2>1. \A d \in Callers : Keeps(d)
      BY <1>25 DEF Land, Keeps
    <2>2. CASE ~Fenced(w.nonce) \/ w.kind # "commit"
      <3>1. row'.tok = row.tok /\ row'.nonce \in {row.nonce, NoNonce}
        BY <1>25, <2>2, <1>2 DEF Land, MarkedFailed, RowType
      <3> QED BY <1>25, <2>1, <3>1, <1>0, <1>2, FenceFrame DEF Land
    <2>3. CASE Fenced(w.nonce) /\ w.kind = "commit"
      <3>1. row'.tok = w.tok /\ row'.nonce = NoNonce
        BY <1>25, <2>3, <1>2 DEF Land, Replaced, RowType
      <3>2. w.tok \in 1 .. issued
        BY <2>3, <1>2 DEF Fenced, Inv, FenceInv, TypeOK, WriteType
      <3> QED BY <1>25, <2>1, <3>1, <3>2, <1>0, <1>2, FenceFrame DEF Land
    <2> QED BY <2>2, <2>3
  <1>26. ASSUME UpdateGet
        PROVE  HolderNonces' /\ FenceInv'
    BY <1>26, <1>0, <1>2, FenceFrame DEF UpdateGet, Keeps
  <1>27. ASSUME UpdateWrite
        PROVE  HolderNonces' /\ FenceInv'
    <2>1. \/ row' = row
          \/ row'.tok = pending /\ row'.nonce = NoNonce
      BY <1>27, <1>2 DEF UpdateWrite, Replaced, RowType
    <2>2. pending \in 1 .. issued
      BY <1>27 DEF UpdateWrite, Inv, PendingInv, TypeOK, NoToken
    <2> QED BY <1>27, <2>1, <2>2, <1>0, <1>2, FenceFrame
            DEF UpdateWrite, Keeps
  <1>28. ASSUME Delete
        PROVE  HolderNonces' /\ FenceInv'
    <2>1. row'.tok = row.tok /\ row'.nonce = NoNonce
      BY <1>28, <1>2 DEF Delete, RowType
    <2> QED BY <1>28, <2>1, <1>0, <1>2, FenceFrame DEF Delete, Keeps
  <1>29. ASSUME SessionExpires
        PROVE  HolderNonces' /\ FenceInv'
    <2>1. row'.tok = row.tok /\ row'.nonce = row.nonce
      BY <1>29, <1>2 DEF SessionExpires, RowType
    <2> QED BY <1>29, <2>1, <1>0, <1>2, FenceFrame DEF SessionExpires, Keeps
  <1>30. ASSUME TokenAges
        PROVE  HolderNonces' /\ FenceInv'
    BY <1>30, <1>0, <1>2, FenceFrame DEF TokenAges, Keeps
  <1>31. ASSUME Tick
        PROVE  HolderNonces' /\ FenceInv'
    <2>1. row'.tok = row.tok /\ row'.nonce = row.nonce
      BY <1>31, <1>2 DEF Tick, RowType
    <2>2. \A d \in Callers : Keeps(d)
      BY <1>31, <1>1 DEF Tick, Keeps, CallType
    <2> QED BY <1>31, <2>1, <2>2, <1>0, <1>2, FenceFrame DEF Tick
  <1>32. CASE UNCHANGED vars
    BY <1>32, <1>0, <1>2, FenceFrame DEF vars, Keeps
  <1> QED
    BY <1>6, <1>7, <1>8, <1>9, <1>10, <1>11, <1>12, <1>13, <1>14,
       <1>15, <1>16, <1>17, <1>18, <1>19, <1>20, <1>21, <1>22, <1>23,
       <1>24, <1>25, <1>26, <1>27, <1>28, <1>29, <1>30, <1>31, <1>32
    DEF Next, Step, World

-----------------------------------------------------------------------------
(* Theorems *)

\* A session just created satisfies the inductive invariant.
LEMMA InvInit == Init => Inv
  <1> SUFFICES ASSUME Init PROVE Inv
    OBVIOUS
  <1>1. Idle("none", NoToken) \in CallType
    BY IdleType DEF Results, OwnFailures, NoToken
  <1>2. /\ Idle("none", NoToken).pc = "idle"
    BY DEF Idle
  <1>3. row \in RowType
    BY DEF Init, RowType, Null, NoNonce, Free
  <1>4. TypeOK
    <2>1. call \in [Callers -> CallType]
      BY <1>1 DEF Init
    <2>2. /\ {} \subseteq WriteType /\ {1} \subseteq Nat /\ {} \subseteq Nat
          /\ 0 \in Nat /\ 1 \in Nat
      OBVIOUS
    <2> QED BY <1>3, <2>1, <2>2 DEF Init, TypeOK, Null, NoToken
  <1>5. HolderNonces
    BY <1>2 DEF Init, HolderNonces, Holding
  <1>6. FenceInv
    BY <1>2, BoundAssumption DEF Init, FenceInv
  <1>7. PendingInv
    BY DEF Init, PendingInv, NoToken
  <1> QED BY <1>4, <1>5, <1>6, <1>7 DEF Inv

\* The inductive invariant holds throughout.
LEMMA InvHolds == Spec => []Inv
  BY InvInit, FenceStep, PTL DEF Spec

\* Every reachable state is well typed: in particular a write-back never
\* carries an unset nonce, which the fence would compare with NULL.
THEOREM TypeCorrect == Spec => []TypeOK
  <1>1. Inv => TypeOK
    BY DEF Inv
  <1> QED BY <1>1, InvHolds, PTL

\* What the contract sees of a call.
AnswerOf(d) == IF call[d].result = "session" THEN call[d].tok ELSE NoToken

\* A step that moves neither the token, the session, an answer nor an Update
\* is invisible to the contract.
LEMMA AsStutter ==
  ASSUME row'.exists = row.exists, row'.tok = row.tok, pending' = pending,
         \A d \in Callers : AnswerOf(d)' = AnswerOf(d)
  PROVE  UNCHANGED Contract!specVars
  BY DEF Contract!specVars, AnswerOf

\* A call that starts over or ends with an error forgets its answer.
LEMMA AsForget ==
  ASSUME NEW c \in Callers, row'.exists = row.exists, row'.tok = row.tok,
         pending' = pending,
         \A d \in Callers \ {c} : call'[d] = call[d],
         call'[c].result # "session"
  PROVE  Contract!Next
  <1>1. Contract!Forget(c)
    BY DEF Contract!Forget, Contract!NoAnswer, NoToken
  <1> QED BY <1>1 DEF Contract!Next

\* A call that returns the row's token set answers its client.
LEMMA AsAnswer ==
  ASSUME Inv, Inv', NEW c \in Callers, row.exists, row'.exists,
         row.tok <= row'.tok, pending' = pending,
         \A d \in Callers \ {c} : call'[d] = call[d],
         call'[c].result = "session", call'[c].tok = row'.tok
  PROVE  Contract!Next
  <1>1. row'.tok \in 1 .. MaxIssued /\ row'.tok >= row.tok
    BY BoundAssumption DEF Inv, FenceInv, TypeOK, RowType
  <1>2. Contract!Answer(c)
    BY <1>1 DEF Contract!Answer, Contract!NoAnswer, Inv, TypeOK, RowType
  <1> QED BY <1>2 DEF Contract!Next

\* A write-back without a caller that replaces the token set renews it.
LEMMA AsRenew ==
  ASSUME Inv, Inv', row.exists, row'.exists, row.tok < row'.tok,
         pending' = pending, call' = call
  PROVE  Contract!Next
  <1>1. row'.tok \in 1 .. MaxIssued /\ row'.tok > row.tok
    BY BoundAssumption DEF Inv, FenceInv, TypeOK, RowType
  <1>2. Contract!Renew
    BY <1>1 DEF Contract!Renew, Inv, TypeOK, RowType
  <1> QED BY <1>2 DEF Contract!Next

\* Every step of the store is a step of the contract, or invisible to it.
LEMMA ContractStep ==
  Inv /\ Inv' /\ [Next]_vars => [Contract!Next]_(Contract!specVars)
  <1> SUFFICES ASSUME Inv, Inv', [Next]_vars
               PROVE  Contract!Next \/ UNCHANGED Contract!specVars
    OBVIOUS
  <1> USE DEF rowVars, idpVars, hist
  <1>1. /\ call \in [Callers -> CallType]
        /\ \A c \in Callers : call[c] \in CallType
        /\ \A c \in Callers : call[c].tok \in Nat /\ call[c].got \in Nat
        /\ \A c \in Callers : call[c].pc # "idle" => call[c].result # "session"
    BY DEF Inv, TypeOK, CallType, FenceInv
  <1>2. row \in RowType /\ row.tok \in Nat
    BY DEF Inv, TypeOK, RowType
  <1>3. NoToken \in Nat /\ {"none", "session", "nosession", "unopenable",
          "timeout", "refreshfailed", "exchangefailed", "unrecorded",
          "error"} = Results
    BY DEF NoToken, Results, OwnFailures
  <1>4. ASSUME NEW c \in Callers, NEW r \in Results \ {"session"},
               Return(c, r, NoToken),
               row'.exists = row.exists, row'.tok = row.tok,
               pending' = pending
        PROVE  Contract!Next
    BY <1>1, <1>3, <1>4, ReturnFrame, AsForget
  <1>5. ASSUME NEW c \in Callers,
               \A d \in Callers \ {c} : call'[d] = call[d],
               call'[c].result = call[c].result, call[c].pc # "idle",
               row'.exists = row.exists, row'.tok = row.tok,
               pending' = pending
        PROVE  UNCHANGED Contract!specVars
    <2>1. \A d \in Callers : AnswerOf(d)' = AnswerOf(d)
      BY <1>1, <1>5 DEF AnswerOf
    <2> QED BY <1>5, <2>1, AsStutter
  <1>6. ASSUME NEW c \in Callers, Return(c, "session", row.tok), Readable,
               row' = row, pending' = pending
        PROVE  Contract!Next
    <2>1. /\ call'[c].result = "session" /\ call'[c].tok = row.tok
          /\ \A d \in Callers \ {c} : call'[d] = call[d]
      BY <1>1, <1>2, <1>3, <1>6, ReturnFrame
    <2> QED BY <1>2, <1>6, <2>1, AsAnswer DEF Readable
  <1>7. ASSUME NEW c \in Callers, LoseLease(c), call[c].pc # "idle",
               row' = row, pending' = pending
        PROVE  UNCHANGED Contract!specVars
    BY <1>1, <1>5, <1>7 DEF LoseLease, Become, CallType
  <1>8. ASSUME NEW c \in Callers, Begin(c)
        PROVE  Contract!Next \/ UNCHANGED Contract!specVars
    <2>1. /\ call'[c].result # "session"
          /\ \A d \in Callers \ {c} : call'[d] = call[d]
      BY <1>8, <1>1 DEF Begin, Become, Idle
    <2> QED BY <1>8, <2>1, AsForget DEF Begin
  <1>9. ASSUME NEW c \in Callers, PassDeadline(c)
        PROVE  Contract!Next \/ UNCHANGED Contract!specVars
    BY <1>9, <1>1, <1>5 DEF PassDeadline, Become, CallType
  <1>10. ASSUME NEW c \in Callers, GiveUp(c)
        PROVE  Contract!Next \/ UNCHANGED Contract!specVars
    BY <1>10, <1>3, <1>4 DEF GiveUp
  <1>11. ASSUME NEW c \in Callers, ReadNothing(c)
        PROVE  Contract!Next \/ UNCHANGED Contract!specVars
    BY <1>11, <1>3, <1>4 DEF ReadNothing
  <1>12. ASSUME NEW c \in Callers, ReadFirst(c)
        PROVE  Contract!Next \/ UNCHANGED Contract!specVars
    <2>1. CASE row.tok \notin expiring
      BY <1>12, <2>1, <1>6 DEF ReadFirst
    <2>2. CASE row.tok \in expiring
      BY <1>12, <2>2, <1>1, <1>5 DEF ReadFirst, Become, CallType
    <2> QED BY <2>1, <2>2
  <1>13. ASSUME NEW c \in Callers, ReadAgain(c)
        PROVE  Contract!Next \/ UNCHANGED Contract!specVars
    <2>1. \/ Return(c, "session", row.tok)
          \/ Return(c, "refreshfailed", NoToken)
          \/ /\ \A d \in Callers \ {c} : call'[d] = call[d]
             /\ call'[c].result = call[c].result
      BY <1>13, <1>1 DEF ReadAgain, Become, CallType
    <2> QED BY <1>13, <2>1, <1>3, <1>4, <1>5, <1>6 DEF ReadAgain
  <1>14. ASSUME NEW c \in Callers, Take(c)
        PROVE  Contract!Next \/ UNCHANGED Contract!specVars
    <2>1. row'.exists = row.exists /\ row'.tok = row.tok
      BY <1>14, <1>2 DEF Take, LeasedTo, RowType
    <2>2. \A d \in Callers : call'[d].result = call[d].result
      BY <1>14, <1>1 DEF Take, Become, CallType
    <2>3. \A d \in Callers : AnswerOf(d)' = AnswerOf(d)
      BY <1>14, <2>2, <1>1 DEF Take, Become, AnswerOf
    <2> QED BY <1>14, <2>1, <2>3, AsStutter DEF Take
  <1>15. ASSUME NEW c \in Callers, TakeDenied(c)
        PROVE  Contract!Next \/ UNCHANGED Contract!specVars
    BY <1>15, <1>1, <1>5 DEF TakeDenied, Become, CallType
  <1>16. ASSUME NEW c \in Callers, TakeError(c)
        PROVE  Contract!Next \/ UNCHANGED Contract!specVars
    <2>1. row'.exists = row.exists /\ row'.tok = row.tok
      BY <1>16, <1>2 DEF TakeError, LeasedTo, RowType
    <2> QED BY <1>16, <2>1, <1>3, <1>4 DEF TakeError
  <1>17. ASSUME NEW c \in Callers, WaitEnds(c)
        PROVE  Contract!Next \/ UNCHANGED Contract!specVars
    <2>1. \/ Return(c, "error", NoToken)
          \/ /\ \A d \in Callers \ {c} : call'[d] = call[d]
             /\ call'[c].result = call[c].result
      BY <1>17, <1>1 DEF WaitEnds, Become, CallType
    <2> QED BY <1>17, <2>1, <1>3, <1>4, <1>5 DEF WaitEnds
  <1>18. ASSUME NEW c \in Callers, StartExchange(c)
        PROVE  Contract!Next \/ UNCHANGED Contract!specVars
    BY <1>18, <1>1, <1>5 DEF StartExchange, Become, CallType
  <1>19. ASSUME NEW c \in Callers, LeasedUnreadable(c)
        PROVE  Contract!Next \/ UNCHANGED Contract!specVars
    BY <1>19, <1>3, <1>4 DEF LeasedUnreadable
  <1>20. ASSUME NEW c \in Callers, ExchangeOK(c)
        PROVE  Contract!Next \/ UNCHANGED Contract!specVars
    BY <1>20, <1>1, <1>5 DEF ExchangeOK, Become, CallType
  <1>21. ASSUME NEW c \in Callers, SealError(c)
        PROVE  Contract!Next \/ UNCHANGED Contract!specVars
    BY <1>21, <1>3, <1>4 DEF SealError
  <1>22. ASSUME NEW c \in Callers, ExchangeError(c)
        PROVE  Contract!Next \/ UNCHANGED Contract!specVars
    BY <1>22, <1>1, <1>5 DEF ExchangeError, Become, CallType
  <1>23. ASSUME NEW c \in Callers, Commit(c)
        PROVE  Contract!Next \/ UNCHANGED Contract!specVars
    <2>1. CASE Fenced(call[c].nonce)
      <3>1. row'.tok = call[c].got /\ row'.exists = row.exists
        BY <1>23, <2>1, <1>2 DEF Commit, Replaced, RowType
      <3>2. row.exists /\ row.tok < call[c].got
        BY <1>23, <2>1 DEF Commit, Fenced, Inv, FenceInv
      <3>3. /\ call'[c].result = "session" /\ call'[c].tok = call[c].got
            /\ \A d \in Callers \ {c} : call'[d] = call[d]
        BY <1>23, <2>1, <1>1, <1>3, ReturnFrame DEF Commit
      <3> QED BY <1>23, <3>1, <3>2, <3>3, <1>1, <1>2, AsAnswer DEF Commit
    <2>2. CASE ~Fenced(call[c].nonce)
      BY <1>23, <2>2, <1>7 DEF Commit
    <2> QED BY <2>1, <2>2
  <1>24. ASSUME NEW c \in Callers, Fail(c)
        PROVE  Contract!Next \/ UNCHANGED Contract!specVars
    <2>1. row'.exists = row.exists /\ row'.tok = row.tok
      BY <1>24, <1>2 DEF Fail, MarkedFailed, RowType
    <2>2. CASE Fenced(call[c].nonce)
      BY <1>24, <2>1, <2>2, <1>3, <1>4 DEF Fail
    <2>3. CASE ~Fenced(call[c].nonce)
      BY <1>24, <2>3, <1>7 DEF Fail
    <2> QED BY <2>2, <2>3
  <1>25. ASSUME NEW c \in Callers, WriteError(c)
        PROVE  Contract!Next \/ UNCHANGED Contract!specVars
    BY <1>25, <1>3, <1>4 DEF WriteError
  <1>26. ASSUME NEW c \in Callers, Crash(c)
        PROVE  Contract!Next \/ UNCHANGED Contract!specVars
    BY <1>26, <1>3, <1>4 DEF Crash
  <1>27. ASSUME NEW w \in late, Land(w)
        PROVE  Contract!Next \/ UNCHANGED Contract!specVars
    <2>1. CASE Fenced(w.nonce) /\ w.kind = "commit"
      <3>1. row'.tok = w.tok /\ row'.exists = row.exists
        BY <1>27, <2>1, <1>2 DEF Land, Replaced, RowType
      <3>2. row.exists /\ row.tok < w.tok
        BY <2>1 DEF Fenced, Inv, FenceInv
      <3> QED BY <1>27, <3>1, <3>2, AsRenew DEF Land
    <2>2. CASE ~(Fenced(w.nonce) /\ w.kind = "commit")
      <3>1. row'.tok = row.tok /\ row'.exists = row.exists
        BY <1>27, <2>2, <1>2 DEF Land, MarkedFailed, RowType
      <3> QED BY <1>27, <3>1, AsStutter DEF Land, AnswerOf
    <2> QED BY <2>1, <2>2
  <1>28. ASSUME UpdateGet
        PROVE  Contract!Next \/ UNCHANGED Contract!specVars
    <2>1. pending = NoToken /\ pending' # NoToken
      BY <1>28 DEF UpdateGet, Inv, TypeOK, NoToken
    <2>2. Contract!Ask
      BY <1>28, <2>1 DEF UpdateGet, Contract!Ask
    <2> QED BY <2>2 DEF Contract!Next
  <1>29. ASSUME UpdateWrite
        PROVE  Contract!Next \/ UNCHANGED Contract!specVars
    <2>1. CASE row.exists /\ row' = Replaced(pending)
      <3>1. row'.tok = pending /\ row'.exists = row.exists
        BY <1>29, <2>1, <1>2 DEF Replaced, RowType
      <3>2. pending \in 1 .. MaxIssued
        BY <1>29, BoundAssumption
        DEF UpdateWrite, Inv, PendingInv, FenceInv, TypeOK, NoToken
      <3>3. Contract!Replace
        BY <1>29, <2>1, <3>1, <3>2 DEF UpdateWrite, Contract!Replace
      <3> QED BY <3>3 DEF Contract!Next
    <2>2. CASE row' = row
      <3>1. Contract!Drop
        BY <1>29, <2>2 DEF UpdateWrite, Contract!Drop
      <3> QED BY <3>1 DEF Contract!Next
    <2> QED BY <1>29, <2>1, <2>2 DEF UpdateWrite
  <1>30. ASSUME Delete
        PROVE  Contract!Next \/ UNCHANGED Contract!specVars
    <2>1. /\ row'.exists = FALSE /\ row'.tok = row.tok /\ call' = call
          /\ pending' = pending
      BY <1>30, <1>2 DEF Delete, RowType
    <2>2. Contract!End
      BY <2>1 DEF Contract!End
    <2> QED BY <2>2 DEF Contract!Next
  <1>31. ASSUME SessionExpires
        PROVE  Contract!Next \/ UNCHANGED Contract!specVars
    <2>1. row'.exists = row.exists /\ row'.tok = row.tok
      BY <1>31, <1>2 DEF SessionExpires, RowType
    <2> QED BY <1>31, <2>1, AsStutter DEF SessionExpires, AnswerOf
  <1>32. ASSUME TokenAges
        PROVE  Contract!Next \/ UNCHANGED Contract!specVars
    <2>1. row'.exists = row.exists /\ row'.tok = row.tok
      BY <1>32, <1>2 DEF TokenAges, RowType
    <2> QED BY <1>32, <2>1, AsStutter DEF TokenAges, AnswerOf
  <1>33. ASSUME Tick
        PROVE  Contract!Next \/ UNCHANGED Contract!specVars
    <2>1. row'.exists = row.exists /\ row'.tok = row.tok
      BY <1>33, <1>2 DEF Tick, RowType
    <2>2. \A d \in Callers :
            call'[d].result = call[d].result /\ call'[d].tok = call[d].tok
      BY <1>33, <1>1 DEF Tick, CallType
    <2> QED BY <1>33, <2>1, <2>2, AsStutter DEF Tick, AnswerOf
  <1>34. CASE UNCHANGED vars
    BY <1>34, AsStutter DEF vars, AnswerOf
  <1> QED
    BY <1>8, <1>9, <1>10, <1>11, <1>12, <1>13, <1>14, <1>15, <1>16,
       <1>17, <1>18, <1>19, <1>20, <1>21, <1>22, <1>23, <1>24, <1>25,
       <1>26, <1>27, <1>28, <1>29, <1>30, <1>31, <1>32, <1>33, <1>34
    DEF Next, Step, World

\* The store implements the TokenStore contract: whatever the leases, the
\* stalls, the crashes and the late writes do, the row's token set is only
\* replaced by a later one or by an Update, every session returned is the
\* row's own, and a deleted session stays deleted.
THEOREM StoreHonoursContract == Spec => HonoursContract
  <1>1. Init => Contract!Init
    <2> SUFFICES ASSUME Init PROVE Contract!Init
      OBVIOUS
    <2>1. \A c \in Callers : call[c].result = "none"
      BY DEF Init, Idle
    <2> QED BY <2>1 DEF Init, Contract!Init, Contract!NoAnswer, NoToken
  <1> QED BY <1>1, InvHolds, ContractStep, PTL
          DEF Spec, HonoursContract, Contract!Spec

=============================================================================
