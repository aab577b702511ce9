-------------------------- MODULE PgExchangeProofs --------------------------
(***************************************************************************)
(* What the lease is for: proofs that PgRefresh exchanges a token set only *)
(* when it is expiring, only once, and never after a failure it should     *)
(* have seen.  They rest on the invariant of PgRefreshProofs.              *)
(*                                                                         *)
(* The first half holds whatever callers do.  The second half, that no two *)
(* callers exchange the same token set and that a spent one is only posted *)
(* again when its answer was lost, holds when the stall before an exchange *)
(* fits in what conf.validate leaves of the lease.                         *)
(***************************************************************************)
EXTENDS PgRefreshProofs

-----------------------------------------------------------------------------
(* What a call remembers *)

\* A call that has read the row and remembers what it said.
Seen(c) ==
  \/ call[c].pc \in {"take", "wait", "leased", "posting", "commit", "fail"}
  \/ call[c].pc = "read" /\ ~call[c].first

\* What a call remembers is older than the row's later stamps: a row that was
\* not written since the call read it still holds an expiring token set, and
\* a failure recorded since then shows in the row.
SeenInv ==
  /\ row.refreshedAt <= stamp /\ row.failedAt <= stamp /\ lastFailure <= stamp
  /\ \A c \in Callers : Seen(c) =>
       /\ call[c].seenR <= call[c].since /\ call[c].seenF <= call[c].since
       /\ call[c].since <= stamp
       /\ row.refreshedAt <= call[c].seenR => row.tok \in expiring
       /\ lastFailure > call[c].since =>
            \/ ~row.exists
            \/ row.failedAt > call[c].since
            \/ row.refreshedAt > call[c].seenR

\* A holder whose nonce the row has is refreshing the row as it is.
HoldInv ==
  \A c \in Callers : Holding(c) =>
    /\ call[c].tok \in expiring
    /\ row.nonce = call[c].nonce =>
         row.tok = call[c].tok /\ row.refreshedAt <= call[c].seenR

\* A running call has no result.
RunInv == \A c \in Callers : call[c].pc # "idle" => call[c].result = "none"

MarkInv == Inv /\ SeenInv /\ HoldInv /\ RunInv


\* A call that gains no memory, no lease and no result in a step.
Quiet(d) ==
  /\ Seen(d)' => /\ Seen(d)
                 /\ call'[d].seenR = call[d].seenR
                 /\ call'[d].seenF = call[d].seenF
                 /\ call'[d].since = call[d].since
  /\ Holding(d)' => /\ Holding(d)
                    /\ call'[d].nonce = call[d].nonce
                    /\ call'[d].tok = call[d].tok
  /\ call'[d].pc # "idle" => call'[d].result = "none"

\* A call that has just read an expiring row.
Reads(d) ==
  /\ ~Holding(d)' /\ call'[d].result = "none"
  /\ call'[d].seenR = row.refreshedAt /\ call'[d].seenF = row.failedAt
  /\ call'[d].since = stamp /\ row.tok \in expiring

\* A call that has just been given the lease on the row it remembers.
Takes(d) ==
  /\ Seen(d) /\ call'[d].result = "none"
  /\ call'[d].seenR = call[d].seenR /\ call'[d].seenF = call[d].seenF
  /\ call'[d].since = call[d].since
  /\ call'[d].tok = row.tok /\ row.refreshedAt <= call[d].seenR

\* The row keeps everything but its lease, which it keeps or gives to a nonce
\* nobody has.
RowKept ==
  /\ row'.tok = row.tok /\ row'.refreshedAt = row.refreshedAt
  /\ row'.failedAt = row.failedAt /\ row'.exists = row.exists
  /\ stamp' = stamp /\ lastFailure' = lastFailure

RowReplaced ==
  /\ row'.refreshedAt = stamp + 1 /\ row'.failedAt = Null
  /\ row'.nonce = NoNonce
  /\ stamp' = stamp + 1 /\ lastFailure' = lastFailure

RowFailed ==
  /\ row'.tok = row.tok /\ row'.refreshedAt = row.refreshedAt
  /\ row'.failedAt = stamp + 1 /\ row'.exists = row.exists
  /\ row'.nonce = NoNonce
  /\ stamp' = stamp + 1 /\ lastFailure' = stamp + 1

RowDeleted ==
  /\ row'.tok = row.tok /\ row'.refreshedAt = row.refreshedAt
  /\ row'.failedAt = Null /\ ~row'.exists /\ row'.nonce = NoNonce
  /\ stamp' = stamp /\ lastFailure' = lastFailure

\* Types of everything a memory is made of.
LEMMA MemoryTypes ==
  ASSUME TypeOK
  PROVE  /\ row.refreshedAt \in Nat /\ row.failedAt \in Nat /\ row.tok \in Nat
         /\ stamp \in Nat /\ lastFailure \in Nat
         /\ \A c \in Callers :
              /\ call[c].seenR \in Nat /\ call[c].seenF \in Nat
              /\ call[c].since \in Nat
  BY DEF TypeOK, RowType, CallType

\* A step made of these keeps the memories right.
LEMMA MarkFrame ==
  ASSUME MarkInv, TypeOK', Inv', expiring \subseteq expiring',
         \A d \in Callers : \/ Quiet(d)
                            \/ RowKept /\ row' = row /\ Reads(d)
                            \/ RowKept /\ Takes(d),
         \/ RowKept /\ (row'.nonce = row.nonce \/ row'.nonce \notin UsedNonces)
         \/ RowReplaced \/ RowFailed \/ RowDeleted
  PROVE  MarkInv'
  <1> USE DEF MarkInv
  <1>1. NoNonce \notin Nonces /\ Null = 0
    BY NonceAssumption DEF NoNonce, Null
  <1>2. TypeOK
    BY DEF Inv
  <1>3. /\ row.refreshedAt \in Nat /\ row.failedAt \in Nat /\ stamp \in Nat
        /\ lastFailure \in Nat
        /\ \A c \in Callers :
             /\ call[c].seenR \in Nat /\ call[c].seenF \in Nat
             /\ call[c].since \in Nat
    BY <1>2, MemoryTypes
  <1>4. /\ row'.refreshedAt <= stamp' /\ row'.failedAt <= stamp'
        /\ lastFailure' <= stamp'
    BY <1>1, <1>3 DEF SeenInv, RowKept, RowReplaced, RowFailed, RowDeleted
  <1>5. ASSUME NEW c \in Callers, Seen(c)'
        PROVE  /\ call'[c].seenR <= call'[c].since
               /\ call'[c].seenF <= call'[c].since
               /\ call'[c].since <= stamp'
               /\ row'.refreshedAt <= call'[c].seenR => row'.tok \in expiring'
               /\ lastFailure' > call'[c].since =>
                    \/ ~row'.exists
                    \/ row'.failedAt > call'[c].since
                    \/ row'.refreshedAt > call'[c].seenR
    <2>1. CASE RowKept /\ row' = row /\ Reads(c)
      BY <1>3, <2>1 DEF SeenInv, RowKept, Reads
    <2>2. CASE ~Reads(c) \/ row' # row \/ ~RowKept
      <3>1. /\ Seen(c) /\ call'[c].seenR = call[c].seenR
            /\ call'[c].seenF = call[c].seenF
            /\ call'[c].since = call[c].since
        BY <1>5, <2>2 DEF Quiet, Takes
      <3>2. /\ call[c].seenR <= call[c].since /\ call[c].seenF <= call[c].since
            /\ call[c].since <= stamp
            /\ row.refreshedAt <= call[c].seenR => row.tok \in expiring
            /\ lastFailure > call[c].since =>
                 \/ ~row.exists
                 \/ row.failedAt > call[c].since
                 \/ row.refreshedAt > call[c].seenR
        BY <3>1 DEF SeenInv
      <3>3. CASE RowKept
        BY <1>3, <3>1, <3>2, <3>3 DEF RowKept
      <3>4. CASE RowReplaced
        BY <1>3, <3>1, <3>2, <3>4 DEF RowReplaced
      <3>5. CASE RowFailed
        BY <1>3, <3>1, <3>2, <3>5 DEF RowFailed
      <3>6. CASE RowDeleted
        BY <1>3, <3>1, <3>2, <3>6 DEF RowDeleted
      <3> QED BY <3>3, <3>4, <3>5, <3>6
    <2> QED BY <2>1, <2>2
  <1>6. SeenInv'
    BY <1>4, <1>5 DEF SeenInv
  <1>7. ASSUME NEW c \in Callers, Holding(c)'
        PROVE  /\ call'[c].tok \in expiring'
               /\ row'.nonce = call'[c].nonce =>
                    /\ row'.tok = call'[c].tok
                    /\ row'.refreshedAt <= call'[c].seenR
    <2>1. CASE Takes(c) /\ RowKept
      <3>1. row.tok \in expiring
        BY <2>1 DEF Takes, SeenInv
      <3> QED BY <2>1, <3>1 DEF Takes, RowKept
    <2>2. CASE Quiet(c)
      <3>1. Holding(c) /\ call'[c].nonce = call[c].nonce
            /\ call'[c].tok = call[c].tok
        BY <1>7, <2>2 DEF Quiet
      <3>2. Seen(c)'
        BY <1>7 DEF Seen, Holding
      <3>3. call'[c].seenR = call[c].seenR
        BY <2>2, <3>2 DEF Quiet
      <3>4. /\ call[c].tok \in expiring /\ call[c].nonce \in Nonces
            /\ call[c].nonce \in UsedNonces
            /\ row.nonce = call[c].nonce =>
                 row.tok = call[c].tok /\ row.refreshedAt <= call[c].seenR
        BY <3>1 DEF HoldInv, Inv, HolderNonces, UsedNonces
      <3> QED
        BY <1>1, <3>1, <3>3, <3>4
        DEF RowKept, RowReplaced, RowFailed, RowDeleted
    <2> QED BY <1>7, <2>1, <2>2 DEF Reads
  <1>8. HoldInv'
    BY <1>7 DEF HoldInv
  <1>9. RunInv'
    BY DEF RunInv, Quiet, Reads, Takes
  <1> QED BY <1>6, <1>8, <1>9

\* A call that a step leaves alone is quiet.
LEMMA AloneQuiet ==
  ASSUME MarkInv, NEW d \in Callers, call'[d] = call[d]
  PROVE  Quiet(d)
  BY DEF MarkInv, RunInv, Quiet, Seen, Holding

\* A call that returns is quiet, and so is everybody else.
LEMMA ReturnQuiet ==
  ASSUME MarkInv, NEW c \in Callers, NEW r \in Results, NEW t \in Nat,
         Return(c, r, t)
  PROVE  \A d \in Callers : Quiet(d)
  <1>1. call \in [Callers -> CallType]
    BY DEF MarkInv, Inv, TypeOK
  <1>2. call'[c].pc = "idle" /\ \A d \in Callers \ {c} : call'[d] = call[d]
    BY <1>1, ReturnFrame
  <1>3. Quiet(c)
    BY <1>2 DEF Quiet, Seen, Holding
  <1> QED BY <1>2, <1>3, AloneQuiet

\* A lost lease takes its caller back to reading the row.
LEMMA LoseLeaseQuiet ==
  ASSUME MarkInv, NEW c \in Callers, Holding(c), LoseLease(c)
  PROVE  \A d \in Callers : Quiet(d)
  <1>1. call \in [Callers -> CallType] /\ call[c] \in CallType
    BY DEF MarkInv, Inv, TypeOK
  <1>2. call[c].result = "none" /\ Seen(c)
    BY DEF MarkInv, RunInv, Holding, Seen
  <1>3. /\ call'[c].pc = "read" /\ call'[c].result = "none"
        /\ call'[c].seenR = call[c].seenR /\ call'[c].seenF = call[c].seenF
        /\ call'[c].since = call[c].since
        /\ \A d \in Callers \ {c} : call'[d] = call[d]
    BY <1>1, <1>2 DEF LoseLease, Become, CallType
  <1>4. Quiet(c)
    BY <1>2, <1>3 DEF Quiet, Holding
  <1> QED BY <1>3, <1>4, AloneQuiet

\* The statements' effects on the row, as the memories see them.
LEMMA RowShapes ==
  ASSUME TypeOK
  PROVE  /\ \A t : row' = Replaced(t) =>
              /\ row'.refreshedAt = stamp + 1 /\ row'.failedAt = Null
              /\ row'.nonce = NoNonce /\ row'.tok = t
              /\ row'.exists = row.exists /\ row'.leaseLeft = Free
         /\ row' = MarkedFailed =>
              /\ row'.tok = row.tok /\ row'.refreshedAt = row.refreshedAt
              /\ row'.failedAt = stamp + 1 /\ row'.exists = row.exists
              /\ row'.nonce = NoNonce /\ row'.leaseLeft = Free
         /\ \A n : row' = LeasedTo(n) =>
              /\ row'.tok = row.tok /\ row'.refreshedAt = row.refreshedAt
              /\ row'.failedAt = row.failedAt /\ row'.exists = row.exists
              /\ row'.nonce = n /\ row'.leaseLeft = conf.lease
  <1>1. row \in RowType
    BY DEF TypeOK
  <1> QED BY <1>1 DEF RowType, Replaced, MarkedFailed, LeasedTo

\* Every step keeps the memories right.
LEMMA MarkStep == MarkInv /\ Inv' /\ [Next]_vars => MarkInv'
  <1> SUFFICES ASSUME MarkInv, Inv', [Next]_vars
               PROVE  MarkInv'
    OBVIOUS
  <1> USE DEF rowVars, idpVars, hist
  <1>0. TypeOK /\ TypeOK' /\ Inv
    BY DEF MarkInv, Inv
  <1>1. /\ call \in [Callers -> CallType]
        /\ \A c \in Callers : call[c] \in CallType
        /\ \A c \in Callers : call[c].tok \in Nat /\ call[c].got \in Nat
        /\ row \in RowType /\ row.tok \in Nat
    BY <1>0 DEF TypeOK, CallType, RowType
  <1>2. NoToken \in Nat /\ {"none", "session", "nosession", "unopenable",
          "timeout", "refreshfailed", "exchangefailed", "unrecorded",
          "error"} = Results
    BY DEF NoToken, Results, OwnFailures
  <1>3. \A c \in Callers : call[c].pc # "idle" => call[c].result = "none"
    BY DEF MarkInv, RunInv
  <1>4. row' = row /\ stamp' = stamp /\ lastFailure' = lastFailure =>
          RowKept /\ row'.nonce = row.nonce
    BY DEF RowKept
  <1>5. \A t : Honour(t) => expiring \subseteq expiring'
    BY DEF Honour
  <1>6. ASSUME NEW c \in Callers, NEW r \in Results, NEW t \in Nat,
               Return(c, r, t), expiring \subseteq expiring',
               \/ RowKept /\ (row'.nonce = row.nonce \/ row'.nonce \notin UsedNonces)
               \/ RowReplaced \/ RowFailed
        PROVE  MarkInv'
    BY <1>0, <1>6, ReturnQuiet, MarkFrame
  <1>7. ASSUME NEW c \in Callers, Quiet(c),
               \A d \in Callers \ {c} : call'[d] = call[d],
               row' = row, stamp' = stamp, lastFailure' = lastFailure,
               expiring \subseteq expiring'
        PROVE  MarkInv'
    BY <1>0, <1>4, <1>7, AloneQuiet, MarkFrame
  <1>8. ASSUME NEW c \in Callers, Begin(c)
        PROVE  MarkInv'
    <2>1. /\ call'[c].pc = "read" /\ call'[c].first /\ call'[c].result = "none"
          /\ \A d \in Callers \ {c} : call'[d] = call[d]
      BY <1>1, <1>8 DEF Begin, Become, Idle
    <2>2. Quiet(c)
      BY <2>1 DEF Quiet, Seen, Holding
    <2> QED BY <1>7, <1>8, <2>1, <2>2 DEF Begin
  <1>9. ASSUME NEW c \in Callers, PassDeadline(c)
        PROVE  MarkInv'
    <2>1. /\ Quiet(c) /\ \A d \in Callers \ {c} : call'[d] = call[d]
      BY <1>1, <1>3, <1>9
      DEF PassDeadline, Become, CallType, Quiet, Seen, Holding
    <2> QED BY <1>7, <1>9, <2>1 DEF PassDeadline
  <1>10. ASSUME NEW c \in Callers, GiveUp(c)
        PROVE  MarkInv'
    BY <1>2, <1>4, <1>6, <1>10 DEF GiveUp
  <1>11. ASSUME NEW c \in Callers, ReadNothing(c)
        PROVE  MarkInv'
    BY <1>2, <1>4, <1>6, <1>11 DEF ReadNothing
  <1>12. ASSUME NEW c \in Callers, ReadFirst(c)
        PROVE  MarkInv'
    <2>1. CASE row.tok \notin expiring
      BY <1>1, <1>2, <1>4, <1>6, <1>12, <2>1 DEF ReadFirst
    <2>2. CASE row.tok \in expiring
      <3>0. call[c].result = "none"
        BY <1>3, <1>12 DEF ReadFirst
      <3>1. /\ call'[c].pc = "take" /\ call'[c].result = "none"
            /\ call'[c].seenR = row.refreshedAt
            /\ call'[c].seenF = row.failedAt /\ call'[c].since = stamp
            /\ \A d \in Callers \ {c} : call'[d] = call[d]
        <4>1. Become(c, [call[c] EXCEPT !.pc = "take",
                                        !.seenR = row.refreshedAt,
                                        !.seenF = row.failedAt,
                                        !.since = stamp])
          BY <1>12, <2>2 DEF ReadFirst
        <4> QED BY <1>1, <3>0, <4>1 DEF Become, CallType
      <3>2. Reads(c)
        BY <2>2, <3>1 DEF Reads, Holding
      <3> QED BY <1>0, <1>4, <1>12, <3>1, <3>2, AloneQuiet, MarkFrame
              DEF ReadFirst
    <2> QED BY <2>1, <2>2
  <1>13. ASSUME NEW c \in Callers, ReadAgain(c)
        PROVE  MarkInv'
    <2>1. \/ Return(c, "session", row.tok)
          \/ Return(c, "refreshfailed", NoToken)
          \/ Become(c, [call[c] EXCEPT !.pc = "take",
                           !.lostReads = IF @ > 0 THEN @ - 1 ELSE 0])
      BY <1>13 DEF ReadAgain
    <2>2. CASE Become(c, [call[c] EXCEPT !.pc = "take",
                            !.lostReads = IF @ > 0 THEN @ - 1 ELSE 0])
      <3>1. call[c].result = "none" /\ Seen(c)
        BY <1>3, <1>13 DEF ReadAgain, Seen
      <3>2. /\ call'[c].pc = "take" /\ call'[c].result = "none"
            /\ call'[c].seenR = call[c].seenR
            /\ call'[c].seenF = call[c].seenF
            /\ call'[c].since = call[c].since
            /\ \A d \in Callers \ {c} : call'[d] = call[d]
        BY <1>1, <2>2, <3>1 DEF Become, CallType
      <3>3. Quiet(c)
        BY <3>1, <3>2 DEF Quiet, Holding
      <3> QED BY <1>7, <1>13, <3>2, <3>3 DEF ReadAgain
    <2> QED BY <1>1, <1>2, <1>4, <1>6, <1>13, <2>1, <2>2 DEF ReadAgain
  <1>14. ASSUME NEW c \in Callers, Take(c)
        PROVE  MarkInv'
    <2>1. /\ Takes(c) /\ \A d \in Callers \ {c} : call'[d] = call[d]
      BY <1>1, <1>3, <1>14 DEF Take, Takeable, Become, CallType, Takes, Seen
    <2>2. RowKept /\ row'.nonce \notin UsedNonces
      BY <1>0, <1>14, RowShapes, FreshNonceType DEF Take, RowKept
    <2> QED BY <1>0, <1>14, <2>1, <2>2, AloneQuiet, MarkFrame DEF Take
  <1>15. ASSUME NEW c \in Callers, TakeDenied(c)
        PROVE  MarkInv'
    <2>1. /\ Quiet(c) /\ \A d \in Callers \ {c} : call'[d] = call[d]
      BY <1>1, <1>3, <1>15
      DEF TakeDenied, Become, CallType, Quiet, Seen, Holding
    <2> QED BY <1>7, <1>15, <2>1 DEF TakeDenied
  <1>16. ASSUME NEW c \in Callers, TakeError(c)
        PROVE  MarkInv'
    <2>1. RowKept /\ (row'.nonce = row.nonce \/ row'.nonce \notin UsedNonces)
      BY <1>0, <1>4, <1>16, RowShapes, FreshNonceType DEF TakeError, RowKept
    <2> QED BY <1>2, <1>6, <1>16, <2>1 DEF TakeError
  <1>17. ASSUME NEW c \in Callers, WaitEnds(c)
        PROVE  MarkInv'
    <2>1. \/ Return(c, "error", NoToken)
          \/ /\ Quiet(c) /\ \A d \in Callers \ {c} : call'[d] = call[d]
      BY <1>1, <1>3, <1>17
      DEF WaitEnds, Become, CallType, Quiet, Seen, Holding
    <2> QED BY <1>2, <1>4, <1>6, <1>7, <1>17, <2>1 DEF WaitEnds
  <1>18. ASSUME NEW c \in Callers, StartExchange(c)
        PROVE  MarkInv'
    <2>1. /\ Quiet(c) /\ \A d \in Callers \ {c} : call'[d] = call[d]
      BY <1>1, <1>3, <1>18
      DEF StartExchange, Become, CallType, Quiet, Seen, Holding
    <2> QED BY <1>7, <1>18, <2>1 DEF StartExchange
  <1>19. ASSUME NEW c \in Callers, LeasedUnreadable(c)
        PROVE  MarkInv'
    BY <1>2, <1>4, <1>6, <1>19 DEF LeasedUnreadable
  <1>20. ASSUME NEW c \in Callers, ExchangeOK(c)
        PROVE  MarkInv'
    <2>1. /\ Quiet(c) /\ \A d \in Callers \ {c} : call'[d] = call[d]
      BY <1>1, <1>3, <1>20
      DEF ExchangeOK, Become, CallType, Quiet, Seen, Holding
    <2> QED BY <1>5, <1>7, <1>20, <2>1 DEF ExchangeOK
  <1>21. ASSUME NEW c \in Callers, SealError(c)
        PROVE  MarkInv'
    BY <1>2, <1>4, <1>5, <1>6, <1>21 DEF SealError
  <1>22. ASSUME NEW c \in Callers, ExchangeError(c)
        PROVE  MarkInv'
    <2>1. /\ Quiet(c) /\ \A d \in Callers \ {c} : call'[d] = call[d]
      BY <1>1, <1>3, <1>22
      DEF ExchangeError, Become, CallType, Quiet, Seen, Holding
    <2> QED BY <1>5, <1>7, <1>22, <2>1 DEF ExchangeError
  <1>23. ASSUME NEW c \in Callers, Commit(c)
        PROVE  MarkInv'
    <2>1. CASE Fenced(call[c].nonce)
      <3>1. RowReplaced
        BY <1>0, <1>23, <2>1, RowShapes DEF Commit, RowReplaced
      <3> QED BY <1>1, <1>2, <1>6, <1>23, <2>1, <3>1 DEF Commit
    <2>2. CASE ~Fenced(call[c].nonce)
      BY <1>0, <1>4, <1>23, <2>2, LoseLeaseQuiet, MarkFrame DEF Commit, Holding
    <2> QED BY <2>1, <2>2
  <1>24. ASSUME NEW c \in Callers, Fail(c)
        PROVE  MarkInv'
    <2>1. CASE Fenced(call[c].nonce)
      <3>1. RowFailed
        BY <1>0, <1>24, <2>1, RowShapes DEF Fail, RowFailed
      <3> QED BY <1>2, <1>6, <1>24, <2>1, <3>1 DEF Fail
    <2>2. CASE ~Fenced(call[c].nonce)
      BY <1>0, <1>4, <1>24, <2>2, LoseLeaseQuiet, MarkFrame DEF Fail, Holding
    <2> QED BY <2>1, <2>2
  <1>25. ASSUME NEW c \in Callers, WriteError(c)
        PROVE  MarkInv'
    BY <1>2, <1>4, <1>6, <1>25 DEF WriteError
  <1>26. ASSUME NEW c \in Callers, Crash(c)
        PROVE  MarkInv'
    <2>1. expiring \subseteq expiring'
      BY <1>5, <1>26 DEF Crash
    <2> QED BY <1>2, <1>4, <1>6, <1>26, <2>1 DEF Crash
  <1>27. ASSUME NEW w \in late, Land(w)
        PROVE  MarkInv'
    <2>1. \A d \in Callers : Quiet(d)
      BY <1>27, AloneQuiet DEF Land
    <2>2. \/ RowKept /\ row'.nonce = row.nonce
          \/ RowReplaced \/ RowFailed
      <3>1. CASE ~Fenced(w.nonce)
        BY <1>4, <1>27, <3>1 DEF Land
      <3>2. CASE Fenced(w.nonce) /\ w.kind = "commit"
        BY <1>0, <1>27, <3>2, RowShapes DEF Land, RowReplaced
      <3>3. CASE Fenced(w.nonce) /\ w.kind # "commit"
        <4>1. w.kind = "fail"
          BY <1>0, <3>3 DEF TypeOK, WriteType
        <4> QED BY <1>0, <1>27, <3>3, <4>1, RowShapes DEF Land, RowFailed
      <3> QED BY <3>1, <3>2, <3>3
    <2> QED BY <1>0, <1>27, <2>1, <2>2, MarkFrame DEF Land
  <1>28. ASSUME UpdateGet
        PROVE  MarkInv'
    <2>1. \A d \in Callers : Quiet(d)
      BY <1>28, AloneQuiet DEF UpdateGet
    <2> QED BY <1>0, <1>4, <1>28, <2>1, MarkFrame DEF UpdateGet
  <1>29. ASSUME UpdateWrite
        PROVE  MarkInv'
    <2>1. \A d \in Callers : Quiet(d)
      BY <1>29, AloneQuiet DEF UpdateWrite
    <2>2. CASE row' = Replaced(pending) /\ stamp' = stamp + 1
      <3>1. RowReplaced
        BY <1>0, <1>29, <2>2, RowShapes DEF UpdateWrite, RowReplaced
      <3> QED BY <1>0, <1>29, <2>1, <3>1, MarkFrame DEF UpdateWrite
    <2>3. CASE UNCHANGED rowVars
      BY <1>0, <1>4, <1>29, <2>1, <2>3, MarkFrame DEF UpdateWrite
    <2> QED BY <1>29, <2>2, <2>3 DEF UpdateWrite
  <1>30. ASSUME Delete
        PROVE  MarkInv'
    <2>1. \A d \in Callers : Quiet(d)
      BY <1>30, AloneQuiet DEF Delete
    <2>2. RowDeleted
      BY <1>1, <1>30 DEF Delete, RowType, RowDeleted
    <2> QED BY <1>0, <1>30, <2>1, <2>2, MarkFrame DEF Delete
  <1>31. ASSUME SessionExpires
        PROVE  MarkInv'
    <2>1. \A d \in Callers : Quiet(d)
      BY <1>31, AloneQuiet DEF SessionExpires
    <2>2. RowKept /\ row'.nonce = row.nonce
      BY <1>1, <1>31 DEF SessionExpires, RowType, RowKept
    <2> QED BY <1>0, <1>31, <2>1, <2>2, MarkFrame DEF SessionExpires
  <1>32. ASSUME TokenAges
        PROVE  MarkInv'
    <2>1. \A d \in Callers : Quiet(d)
      BY <1>32, AloneQuiet DEF TokenAges
    <2> QED BY <1>0, <1>4, <1>32, <2>1, MarkFrame DEF TokenAges
  <1>33. ASSUME Tick
        PROVE  MarkInv'
    <2>1. \A d \in Callers : Quiet(d)
      BY <1>1, <1>3, <1>33 DEF Tick, CallType, Quiet, Seen, Holding
    <2>2. RowKept /\ row'.nonce = row.nonce
      BY <1>1, <1>33 DEF Tick, RowType, RowKept
    <2> QED BY <1>0, <1>33, <2>1, <2>2, MarkFrame DEF Tick
  <1>34. CASE UNCHANGED vars
    <2>1. \A d \in Callers : Quiet(d)
      BY <1>34, AloneQuiet DEF vars
    <2> QED BY <1>0, <1>4, <1>34, <2>1, MarkFrame DEF vars
  <1> QED
    BY <1>8, <1>9, <1>10, <1>11, <1>12, <1>13, <1>14, <1>15, <1>16,
       <1>17, <1>18, <1>19, <1>20, <1>21, <1>22, <1>23, <1>24, <1>25,
       <1>26, <1>27, <1>28, <1>29, <1>30, <1>31, <1>32, <1>33, <1>34
    DEF Next, Step, World


-----------------------------------------------------------------------------
(* What holds whatever the callers do *)

\* A session just created is remembered by nobody.
LEMMA MarkInit == Init => MarkInv
  <1> SUFFICES ASSUME Init PROVE MarkInv
    OBVIOUS
  <1>1. Inv
    BY InvInit
  <1>2. \A c \in Callers : call[c].pc = "idle"
    BY DEF Init, Idle
  <1>3. ~\E c \in Callers : Seen(c) \/ Holding(c)
    BY <1>2 DEF Seen, Holding
  <1>4. row.refreshedAt = 1 /\ row.failedAt = 0 /\ lastFailure = 0 /\ stamp = 1
    BY DEF Init, Null
  <1> QED BY <1>1, <1>2, <1>3, <1>4 DEF MarkInv, SeenInv, HoldInv, RunInv

\* The memories are right in every reachable state.
LEMMA MarkHolds == Spec => []MarkInv
  <1>1. Inv /\ [Next]_vars => Inv'
    BY FenceStep
  <1>2. MarkInv /\ [Next]_vars => MarkInv'
    BY <1>1, MarkStep DEF MarkInv
  <1> QED BY <1>2, MarkInit, PTL DEF Spec

\* Refresh, step 1, for any number of callers and any timing: only a token
\* set inside the refresh margin is exchanged, because the lease is refused
\* when the row was refreshed after the caller read it.
THEOREM ExchangeIsNeeded == Spec => []NoNeedlessExchange
  <1>1. MarkInv => NoNeedlessExchange
    BY DEF MarkInv, HoldInv, NoNeedlessExchange
  <1> QED BY <1>1, MarkHolds, PTL

\* A call only moves by its own steps and with the clock.
LEMMA MovesAlone ==
  ASSUME MarkInv, [Next]_vars, NEW c \in Callers, call'[c] # call[c]
  PROVE  Begin(c) \/ PassDeadline(c) \/ Step(c) \/ Crash(c) \/ Tick
  <1>1. call \in [Callers -> CallType]
    BY DEF MarkInv, Inv, TypeOK
  <1>2. ASSUME NEW d \in Callers, NEW rec, Become(d, rec)
        PROVE  d = c
    BY <1>1, <1>2 DEF Become
  <1>3. ASSUME NEW d \in Callers,
               Begin(d) \/ PassDeadline(d) \/ Step(d) \/ Crash(d)
        PROVE  d = c
    <2>1. ASSUME Begin(d) \/ PassDeadline(d) PROVE d = c
      BY <1>2, <2>1 DEF Begin, PassDeadline
    <2>2. ASSUME GiveUp(d) \/ ReadNothing(d) \/ ReadFirst(d) \/ ReadAgain(d)
          PROVE  d = c
      BY <1>2, <2>2 DEF GiveUp, ReadNothing, ReadFirst, ReadAgain, Return
    <2>3. ASSUME Take(d) \/ TakeDenied(d) \/ TakeError(d) \/ WaitEnds(d)
          PROVE  d = c
      BY <1>2, <2>3 DEF Take, TakeDenied, TakeError, WaitEnds, Return
    <2>4. ASSUME StartExchange(d) \/ LeasedUnreadable(d) \/ ExchangeOK(d)
                 \/ SealError(d) \/ ExchangeError(d)
          PROVE  d = c
      BY <1>2, <2>4 DEF StartExchange, LeasedUnreadable, ExchangeOK,
         SealError, ExchangeError, Return
    <2>5. ASSUME Commit(d) \/ Fail(d) \/ WriteError(d) \/ Crash(d)
          PROVE  d = c
      BY <1>2, <2>5 DEF Commit, Fail, WriteError, Crash, Return, LoseLease
    <2> QED BY <1>3, <2>1, <2>2, <2>3, <2>4, <2>5 DEF Step
  <1>4. ASSUME World PROVE Tick
    BY <1>4 DEF World, Land, UpdateGet, UpdateWrite, Delete, SessionExpires,
       TokenAges
  <1> QED BY <1>3, <1>4 DEF Next, vars

\* An outage costs one attempt: a call that was already under way when a
\* failure was recorded is never given the lease, because the row it would
\* take either carries that failure or was refreshed after it.
THEOREM OutageCostsOneAttempt == Spec => OneAttemptPerFailure
  <1>1. MarkInv /\ MarkInv' /\ [Next]_vars
          => [\A c \in Callers :
                call[c].pc = "take" /\ call'[c].pc = "leased"
                  => lastFailure <= call[c].since]_vars
    <2> SUFFICES ASSUME MarkInv, [Next]_vars, NEW c \in Callers,
                        call[c].pc = "take", call'[c].pc = "leased"
                 PROVE  lastFailure <= call[c].since
      OBVIOUS
    <2>1. Takeable(c)
      <3>1. call \in [Callers -> CallType] /\ call[c] \in CallType
        BY DEF MarkInv, Inv, TypeOK
      <3>2. ~Tick
        BY <3>1 DEF Tick, CallType
      <3>3. ~Crash(c) /\ ~TakeError(c)
        BY <3>1, BecomeFrame, IdleType DEF Crash, TakeError, Return, Become, Idle
      <3>4. ~TakeDenied(c)
        BY <3>1 DEF TakeDenied, Become, CallType
      <3>5. Take(c)
        BY <3>2, <3>3, <3>4, MovesAlone
        DEF Begin, PassDeadline, Step, GiveUp, ReadNothing, ReadFirst,
            ReadAgain, WaitEnds, StartExchange, LeasedUnreadable, ExchangeOK,
            SealError, ExchangeError, Commit, Fail, WriteError
      <3> QED BY <3>5 DEF Take
    <2>2. TypeOK /\ Seen(c)
      BY DEF MarkInv, Inv, Seen
    <2>3. /\ row.refreshedAt \in Nat /\ row.failedAt \in Nat
          /\ lastFailure \in Nat /\ call[c].seenR \in Nat
          /\ call[c].seenF \in Nat /\ call[c].since \in Nat
      BY <2>2, MemoryTypes
    <2> QED BY <2>1, <2>2, <2>3 DEF MarkInv, SeenInv, Takeable
  <1> QED BY <1>1, MarkHolds, PTL DEF Spec, OneAttemptPerFailure

\* A caller whose FailRefresh is answered reports its own exchange's failure
\* only about the row it leased: the fence that lets FailRefresh through is the row's own nonce, and a row
\* with the caller's nonce was not replaced since.
THEOREM FailureReportIsOwn == Spec => RecordedFailureIsOwn
  <1>1. MarkInv /\ MarkInv' /\ [Next]_vars
          => [\A c \in Callers :
                call[c].pc = "fail" /\ call'[c].result = "exchangefailed"
                  => StillOwn(c)]_vars
    <2> SUFFICES ASSUME MarkInv, [Next]_vars, NEW c \in Callers,
                        call[c].pc = "fail",
                        call'[c].result = "exchangefailed"
                 PROVE  StillOwn(c)
      OBVIOUS
    <2>1. Fenced(call[c].nonce)
      <3>1. call \in [Callers -> CallType] /\ call[c] \in CallType
        BY DEF MarkInv, Inv, TypeOK
      <3>2. call[c].result = "none"
        BY DEF MarkInv, RunInv
      <3>3. ~Tick
        BY <3>1, <3>2 DEF Tick, CallType
      <3>4. ~Crash(c) /\ ~WriteError(c)
        BY <3>1 DEF Crash, WriteError, Return, Become, Idle
      <3>5. ASSUME LoseLease(c) PROVE FALSE
        <4>1. call'[c].result = "none"
          BY <3>1, <3>2, <3>5 DEF LoseLease, Become, CallType
        <4> QED BY <4>1
      <3>6. Fail(c)
        BY <3>2, <3>3, <3>4, MovesAlone
        DEF Begin, PassDeadline, Step, GiveUp, ReadNothing, ReadFirst,
            ReadAgain, Take, TakeDenied, TakeError, WaitEnds, StartExchange,
            LeasedUnreadable, ExchangeOK, SealError, ExchangeError, Commit
      <3> QED BY <3>5, <3>6 DEF Fail
    <2>2. Holding(c)
      BY DEF Holding
    <2> QED BY <2>1, <2>2 DEF MarkInv, HoldInv, Fenced, StillOwn
  <1> QED BY <1>1, MarkHolds, PTL DEF Spec, RecordedFailureIsOwn

-----------------------------------------------------------------------------
(* What holds when the lease outlives its holder                            *)
(*                                                                          *)
(* Exclusive is not inductive: it needs that a holder of the row's  *)
(* token set still has the row's lease (LeaseInv), which in turn needs that *)
(* no token set is written twice (OnceInv) and none on its way into the row *)
(* is anybody's to exchange (AwaitedInv).                                   *)

\* The longest a holder may still need its lease.
Need(c) ==
  IF call[c].pc = "leased" THEN call[c].until + conf.request + conf.write
  ELSE IF call[c].pc = "posting" THEN call[c].until + conf.write
  ELSE call[c].until

\* The stall before an exchange fits in what conf.validate leaves of the
\* lease; with a stall of at most one unit of time it always does.
StallFits == conf.stall + conf.request + conf.write <= conf.lease

\* No two holders share a nonce, and no abandoned write has a holder's.
NonceInv ==
  \A c \in Callers : Holding(c) =>
    /\ \A d \in Callers : Holding(d) /\ call[c].nonce = call[d].nonce => c = d
    /\ \A w \in late : w.nonce # call[c].nonce

\* A caller that holds the row's own token set holds the row's lease, for as
\* long as it may need it.
LeaseInv ==
  \A c \in Callers :
    Holding(c) /\ row.exists /\ row.tok = call[c].tok =>
      row.nonce = call[c].nonce /\ row.leaseLeft >= Need(c)

\* Token sets on their way into the row: of a running Update, of callers
\* that commit, and of writes nobody waits for.
Committing(c) == call[c].pc = "commit"
LateCommits == {w \in late : w.kind = "commit"}
Awaited(t) ==
  \/ t = pending /\ pending # NoToken
  \/ \E c \in Callers : Committing(c) /\ t = call[c].got
  \/ \E w \in LateCommits : t = w.tok

\* They are good, they are not the row's, and nobody is exchanging them.
AwaitedInv ==
  /\ \A t : Awaited(t) => t \in live /\ t # row.tok
  /\ \A c \in Callers : Holding(c) => ~Awaited(call[c].tok)

\* Each is on its way once.
OnceInv ==
  /\ \A c \in Callers : Committing(c) =>
       /\ call[c].got # pending
       /\ \A d \in Callers : Committing(d) /\ call[c].got = call[d].got => c = d
       /\ \A w \in LateCommits : w.tok # call[c].got
  /\ \A w \in LateCommits :
       /\ w.tok # pending
       /\ \A x \in LateCommits : x.tok = w.tok => x = w

IssuedInv ==
  /\ live \subseteq 1 .. issued
  /\ \A c \in Callers : Holding(c) => call[c].tok <= issued

\* A token set about to be posted is good unless its answer was lost, and so
\* is the row's unless its successor is being committed.
SpentInv ==
  /\ \A c \in Callers :
       call[c].pc \in {"leased", "posting"} => call[c].tok \in live \cup lost
  /\ row.exists /\ row.tok \notin live \cup lost =>
       \E c \in Callers : Committing(c) /\ call[c].tok = row.tok

\* No two callers exchange the same refresh token.
Exclusive ==
  \A c, d \in Callers :
    c # d /\ Holding(c) /\ Holding(d) => call[c].tok # call[d].tok

\* A spent token is posted again only if the answer to its exchange was lost.
SpentOnce == replayed \subseteq lost

ExInv == /\ MarkInv /\ StallFits /\ NonceInv /\ LeaseInv /\ AwaitedInv
         /\ OnceInv /\ IssuedInv /\ SpentInv /\ Exclusive /\ SpentOnce

\* A call that starts no exchange and no commit in a step.
Settles(d) ==
  /\ Holding(d)' => /\ Holding(d)
                    /\ call'[d].nonce = call[d].nonce
                    /\ call'[d].tok = call[d].tok
  /\ call'[d].pc \in {"leased", "posting"} => call[d].pc \in {"leased", "posting"}
  /\ Committing(d)' => Committing(d) /\ call'[d].got = call[d].got

\* A commit that ends without a write leaves its token set lost, or had no
\* row to write it to.
EndsLost(d) ==
  Committing(d) /\ ~Committing(d)' =>
    call[d].tok \in lost' \/ ~row.exists \/ row.tok # call[d].tok

\* Steps after which every holder is one that was.
LEMMA SettledFrame ==
  ASSUME ExInv, MarkInv', NonceInv', OnceInv', LeaseInv',
         conf' = conf, live' = live, issued' = issued,
         lost \subseteq lost', replayed' \subseteq replayed \cup lost',
         \A d \in Callers : Settles(d),
         \A t : Awaited(t)' => Awaited(t) /\ t # row'.tok,
         row'.exists => \/ row'.tok \in live
                        \/ /\ row.exists /\ row'.tok = row.tok
                           /\ \A d \in Callers : EndsLost(d)
  PROVE  ExInv'
  <1> USE DEF ExInv
  <1>1. StallFits'
    BY DEF StallFits
  <1>2. AwaitedInv'
    <2>1. \A t : Awaited(t)' => t \in live' /\ t # row'.tok
      BY DEF AwaitedInv
    <2>2. ASSUME NEW c \in Callers, Holding(c)', Awaited(call[c].tok)'
          PROVE  FALSE
      <3>1. Holding(c) /\ call'[c].tok = call[c].tok
        BY <2>2 DEF Settles
      <3>2. Awaited(call'[c].tok)
        BY <2>2
      <3> QED BY <3>1, <3>2 DEF AwaitedInv
    <2> QED BY <2>1, <2>2 DEF AwaitedInv
  <1>3. IssuedInv'
    BY DEF IssuedInv, Settles
  <1>4. SpentInv'
    <2>1. ASSUME NEW c \in Callers, call'[c].pc \in {"leased", "posting"}
          PROVE  call'[c].tok \in live' \cup lost'
      <3>1. Holding(c)' /\ call[c].pc \in {"leased", "posting"}
        BY <2>1 DEF Settles, Holding
      <3> QED BY <3>1 DEF Settles, SpentInv
    <2>2. ASSUME row'.exists, row'.tok \notin live' \cup lost'
          PROVE  \E c \in Callers : Committing(c)' /\ call'[c].tok = row'.tok
      <3>1. /\ row.exists /\ row'.tok = row.tok
            /\ \A d \in Callers : EndsLost(d)
        BY <2>2
      <3>2. PICK c \in Callers : Committing(c) /\ call[c].tok = row.tok
        BY <2>2, <3>1 DEF SpentInv
      <3>3. Committing(c)'
        BY <2>2, <3>1, <3>2 DEF EndsLost
      <3>4. Holding(c)'
        BY <3>3 DEF Committing, Holding
      <3> QED BY <3>1, <3>2, <3>3, <3>4 DEF Settles
    <2> QED BY <2>1, <2>2 DEF SpentInv
  <1>5. Exclusive'
    BY DEF Exclusive, Settles
  <1>6. SpentOnce'
    BY DEF SpentOnce
  <1> QED BY <1>1, <1>2, <1>3, <1>4, <1>5, <1>6

\* Types of what a lease is compared with.
LEMMA NeedType ==
  ASSUME TypeOK
  PROVE  /\ row.leaseLeft \in Int
         /\ conf.lease \in Nat /\ conf.request \in Nat /\ conf.write \in Nat
         /\ \A c \in Callers : Need(c) \in Nat /\ call[c].until \in Nat
  <1>1. conf.lease \in Nat /\ conf.request \in Nat /\ conf.write \in Nat
    BY ConfType DEF TypeOK
  <1>2. row.leaseLeft \in Int
    BY DEF TypeOK, RowType, Free
  <1>3. \A c \in Callers : call[c].until \in Nat
    BY DEF TypeOK, CallType
  <1> QED BY <1>1, <1>2, <1>3 DEF Need

\* A row kept as it is keeps every lease long enough for those who go on.
LEMMA LeaseKept ==
  ASSUME ExInv, TypeOK', conf' = conf, \A d \in Callers : Settles(d),
         \A d \in Callers : Holding(d)' => Need(d)' <= Need(d),
         row'.exists => /\ row.exists /\ row'.tok = row.tok
                        /\ row'.nonce = row.nonce
                        /\ row'.leaseLeft = row.leaseLeft
  PROVE  LeaseInv'
  <1>1. row.leaseLeft \in Int /\ \A c \in Callers : Need(c) \in Nat
    BY NeedType DEF ExInv, MarkInv, Inv
  <1>2. \A c \in Callers : Need(c)' \in Nat
    <2>1. \A c \in Callers : call'[c].until \in Nat
      BY DEF TypeOK, CallType
    <2>2. conf.request \in Nat /\ conf.write \in Nat
      BY NeedType DEF ExInv, MarkInv, Inv
    <2> QED BY <2>1, <2>2 DEF Need
  <1> SUFFICES ASSUME NEW c \in Callers, Holding(c)', row'.exists,
                      row'.tok = call'[c].tok
               PROVE  row'.nonce = call'[c].nonce /\ row'.leaseLeft >= Need(c)'
    BY DEF LeaseInv
  <1>3. /\ Holding(c) /\ call'[c].nonce = call[c].nonce
        /\ call'[c].tok = call[c].tok
    BY DEF Settles
  <1>4. row.nonce = call[c].nonce /\ row.leaseLeft >= Need(c)
    BY <1>3 DEF ExInv, LeaseInv
  <1> QED BY <1>1, <1>2, <1>3, <1>4

\* Nothing new is abandoned, awaited or begun.
LEMMA SettledKept ==
  ASSUME ExInv, \A d \in Callers : Settles(d), late' \subseteq late,
         pending' \in {pending, NoToken}
  PROVE  NonceInv' /\ OnceInv' /\ \A t : Awaited(t)' => Awaited(t)
  <1> USE DEF ExInv
  <1>1. NonceInv'
    BY DEF NonceInv, Settles
  <1>2. LateCommits' \subseteq LateCommits
    BY DEF LateCommits
  <1>3. \A t : Awaited(t)' => Awaited(t)
    BY <1>2 DEF Awaited, Settles
  <1>4. ~Awaited(NoToken)
    BY DEF AwaitedInv, IssuedInv, NoToken
  <1>5. ASSUME NEW c \in Callers, Committing(c)'
        PROVE  /\ call'[c].got # pending'
               /\ \A d \in Callers :
                    Committing(d)' /\ call'[c].got = call'[d].got => c = d
               /\ \A w \in LateCommits' : w.tok # call'[c].got
    <2>1. Committing(c) /\ call'[c].got = call[c].got
      BY <1>5 DEF Settles
    <2>2. call[c].got # NoToken
      BY <1>4, <2>1 DEF Awaited
    <2> QED BY <1>2, <2>1, <2>2 DEF OnceInv, Settles
  <1>6. ASSUME NEW w \in LateCommits'
        PROVE  /\ w.tok # pending'
               /\ \A x \in LateCommits' : x.tok = w.tok => x = w
    <2>1. w.tok # NoToken
      BY <1>2, <1>4 DEF Awaited
    <2> QED BY <1>2, <2>1 DEF OnceInv
  <1>7. OnceInv'
    BY <1>5, <1>6 DEF OnceInv
  <1> QED BY <1>1, <1>3, <1>7

\* A caller that owns nothing after the step, while everybody else stays put.
Leaves(c) ==
  ~Holding(c)' /\ \A d \in Callers \ {c} : call'[d] = call[d]

\* Leaving, returning and losing a lease settle every call.
LEMMA LeavesSettled ==
  ASSUME NEW c \in Callers, Leaves(c), conf' = conf
  PROVE  /\ \A d \in Callers : Settles(d)
         /\ \A d \in Callers \ {c} : EndsLost(d)
         /\ \A d \in Callers : Holding(d)' => d # c /\ Need(d)' = Need(d)
  <1>1. ASSUME NEW d \in Callers \ {c}
        PROVE  Settles(d) /\ EndsLost(d) /\ Need(d)' = Need(d)
    BY <1>1 DEF Leaves, Settles, EndsLost, Holding, Committing, Need
  <1>2. Settles(c)
    BY DEF Leaves, Settles, Holding, Committing
  <1> QED BY <1>1, <1>2 DEF Leaves

\* The step of a caller that leaves the row's token set and every write where
\* they are, and gives up its own claim.
LEMMA LeavesFrame ==
  ASSUME ExInv, MarkInv', NEW c \in Callers, Leaves(c), EndsLost(c),
         conf' = conf, live' = live, issued' = issued, late' \subseteq late,
         pending' = pending, lost \subseteq lost', replayed' = replayed,
         row'.tok = row.tok, row'.exists = row.exists,
         \/ row'.nonce = row.nonce /\ row'.leaseLeft = row.leaseLeft
         \/ LeaseInv'
  PROVE  ExInv'
  <1>1. /\ \A d \in Callers : Settles(d) /\ EndsLost(d)
        /\ \A d \in Callers : Holding(d)' => Need(d)' = Need(d)
    BY LeavesSettled
  <1>2. TypeOK /\ TypeOK' /\ \A d \in Callers : Need(d) \in Nat
    BY NeedType DEF ExInv, MarkInv, Inv
  <1>3. LeaseInv'
    BY <1>1, <1>2, LeaseKept
  <1>4. NonceInv' /\ OnceInv' /\ \A t : Awaited(t)' => Awaited(t)
    BY <1>1, SettledKept
  <1>5. \A t : Awaited(t)' => Awaited(t) /\ t # row'.tok
    BY <1>4 DEF ExInv, AwaitedInv
  <1> QED BY <1>1, <1>3, <1>4, <1>5, SettledFrame

\* The same when the write the caller gave up on may still land.
LEMMA AbandonFrame ==
  ASSUME ExInv, MarkInv', NEW c \in Callers, Leaves(c),
         call[c].pc \in {"commit", "fail"}, EndsLost(c),
         conf' = conf, live' = live, issued' = issued,
         late' = late \cup {Abandoned(c)},
         pending' = pending, lost \subseteq lost', replayed' = replayed,
         row' = row
  PROVE  ExInv'
  <1>1. /\ \A d \in Callers : Settles(d) /\ EndsLost(d)
        /\ \A d \in Callers : Holding(d)' => d # c /\ Need(d)' = Need(d)
    BY LeavesSettled
  <1>2. TypeOK /\ TypeOK' /\ \A d \in Callers : Need(d) \in Nat
    BY NeedType DEF ExInv, MarkInv, Inv
  <1>3. LeaseInv'
    BY <1>1, <1>2, LeaseKept
  <1>4. /\ Abandoned(c).kind = call[c].pc /\ Abandoned(c).nonce = call[c].nonce
        /\ Abandoned(c).tok = call[c].got
    BY DEF Abandoned
  <1>5. NonceInv'
    <2>1. ASSUME NEW d \in Callers, Holding(d)'
          PROVE  /\ \A b \in Callers :
                      Holding(b)' /\ call'[d].nonce = call'[b].nonce => d = b
                 /\ \A w \in late' : w.nonce # call'[d].nonce
      <3>1. Holding(c) /\ Holding(d) /\ d # c /\ call'[d].nonce = call[d].nonce
        BY <1>1, <2>1 DEF Settles, Holding
      <3> QED BY <1>1, <1>4, <3>1 DEF ExInv, NonceInv, Settles
    <2> QED BY <2>1 DEF NonceInv
  <1>6. CASE call[c].pc = "fail"
    <2>1. LateCommits' = LateCommits
      BY <1>4, <1>6 DEF LateCommits
    <2>2. \A t : Awaited(t)' => Awaited(t)
      BY <1>1, <2>1 DEF Awaited, Settles
    <2>3. OnceInv'
      BY <1>1, <2>1 DEF ExInv, OnceInv, Settles
    <2>4. \A t : Awaited(t)' => Awaited(t) /\ t # row'.tok
      BY <2>2 DEF ExInv, AwaitedInv
    <2> QED BY <1>1, <1>3, <1>5, <2>3, <2>4, SettledFrame
  <1>7. CASE call[c].pc = "commit"
    <2>1. LateCommits' = LateCommits \cup {Abandoned(c)}
      BY <1>4, <1>7 DEF LateCommits
    <2>2. Committing(c)
      BY <1>7 DEF Committing
    <2>3. ASSUME NEW t, Awaited(t)' PROVE Awaited(t) /\ t # row'.tok
      <3>1. Awaited(t)
        BY <1>1, <1>4, <2>1, <2>2, <2>3 DEF Awaited, Settles
      <3> QED BY <3>1 DEF ExInv, AwaitedInv
    <2>4. ASSUME NEW d \in Callers, Committing(d)'
          PROVE  /\ call'[d].got # pending'
                 /\ \A b \in Callers :
                      Committing(b)' /\ call'[d].got = call'[b].got => d = b
                 /\ \A w \in LateCommits' : w.tok # call'[d].got
      <3>1. d # c /\ Committing(d) /\ call'[d].got = call[d].got
        BY <1>1, <2>4 DEF Settles, Committing, Holding
      <3> QED BY <1>1, <1>4, <2>1, <2>2, <3>1 DEF ExInv, OnceInv, Settles
    <2>5. ASSUME NEW w \in LateCommits'
          PROVE  /\ w.tok # pending'
                 /\ \A x \in LateCommits' : x.tok = w.tok => x = w
      BY <1>4, <2>1, <2>2, <2>5 DEF ExInv, OnceInv
    <2>6. OnceInv'
      BY <2>4, <2>5 DEF OnceInv
    <2> QED BY <1>1, <1>3, <1>5, <2>3, <2>6, SettledFrame
  <1> QED BY <1>6, <1>7

\* What the provider does to its tokens when it honours one.
LEMMA HonourShape ==
  ASSUME NEW t, Honour(t)
  PROVE  /\ t \in live /\ issued' = issued + 1
         /\ live' \subseteq live \cup {issued + 1} /\ issued + 1 \in live'
         /\ \A u \in live : u # t => u \in live'
  BY DEF Honour

\* An exchange the provider honours, whose caller either commits the new
\* token set or leaves the spent one lost.
LEMMA HonourFrame ==
  ASSUME ExInv, MarkInv', NEW c \in Callers, call[c].pc = "posting",
         Honour(call[c].tok), \A d \in Callers \ {c} : call'[d] = call[d],
         Holding(c)' => /\ call'[c].nonce = call[c].nonce
                        /\ call'[c].tok = call[c].tok /\ Need(c)' <= Need(c),
         call'[c].pc \notin {"leased", "posting"},
         \/ Committing(c)' /\ call'[c].got = issued + 1
         \/ ~Committing(c)' /\ call[c].tok \in lost',
         conf' = conf, late' = late, pending' = pending, row' = row,
         lost \subseteq lost', replayed' = replayed
  PROVE  ExInv'
  <1> USE DEF ExInv
  <1>1. TypeOK /\ TypeOK' /\ issued \in Nat /\ Inv
    BY DEF MarkInv, Inv, TypeOK
  <1>2. /\ call[c].tok \in live /\ issued' = issued + 1
        /\ live' \subseteq live \cup {issued + 1} /\ issued + 1 \in live'
        /\ \A u \in live : u # call[c].tok => u \in live'
    BY HonourShape
  <1>3. Holding(c)
    BY DEF Holding
  <1>4. \A d \in Callers : Holding(d)' =>
          /\ Holding(d) /\ call'[d].nonce = call[d].nonce
          /\ call'[d].tok = call[d].tok
    BY <1>3 DEF Holding
  <1>5. \A d \in Callers : Need(d) \in Nat
    BY <1>1, NeedType
  <1>6. \A d \in Callers : Holding(d)' => Need(d)' <= Need(d)
    <2>1. \A d \in Callers \ {c} : Need(d)' = Need(d)
      BY DEF Need
    <2> QED BY <1>5, <2>1
  <1>7. \A d \in Callers \ {c} : Committing(d)' <=> Committing(d)
    BY DEF Committing
  <1>8. ~Committing(c)
    BY DEF Committing
  <1>9. StallFits' /\ NonceInv'
    BY <1>4 DEF StallFits, NonceInv
  <1>10. LeaseInv'
    <2>1. \A d \in Callers : Need(d)' \in Nat
      <3>1. \A d \in Callers : call'[d].until \in Nat
        BY <1>1 DEF TypeOK, CallType
      <3> QED BY <1>1, <3>1, NeedType DEF Need
    <2>2. row.leaseLeft \in Int
      BY <1>1, NeedType
    <2>3. ASSUME NEW d \in Callers, Holding(d)', row.exists,
                 row.tok = call'[d].tok
          PROVE  row.nonce = call'[d].nonce /\ row.leaseLeft >= Need(d)'
      <3>1. row.nonce = call[d].nonce /\ row.leaseLeft >= Need(d)
        BY <1>4, <2>3 DEF LeaseInv
      <3> QED BY <1>4, <1>5, <1>6, <2>1, <2>2, <2>3, <3>1
    <2> QED BY <2>3 DEF LeaseInv
  <1>11. LateCommits' = LateCommits
    BY DEF LateCommits
  <1>12. ASSUME NEW t, Awaited(t)'
         PROVE  Awaited(t) \/ t = issued + 1
    <2>1. CASE \E d \in Callers : Committing(d)' /\ t = call'[d].got
      <3>1. PICK d \in Callers : Committing(d)' /\ t = call'[d].got
        BY <2>1
      <3>2. CASE d = c
        BY <3>1, <3>2
      <3>3. CASE d # c
        BY <1>7, <3>1, <3>3 DEF Awaited
      <3> QED BY <3>2, <3>3
    <2> QED BY <1>11, <1>12, <2>1 DEF Awaited
  <1>13. \A t : Awaited(t) => t \in live /\ t <= issued /\ t # call[c].tok
    <2>1. \A t : Awaited(t) => t \in live /\ t # call[c].tok
      BY <1>3 DEF AwaitedInv
    <2>2. \A t \in live : t <= issued
      BY <1>1 DEF IssuedInv
    <2> QED BY <2>1, <2>2
  <1>14. row.tok # issued + 1 /\ \A d \in Callers :
           Holding(d) => call[d].tok # issued + 1
    <2>1. row.tok <= issued /\ row.tok \in Nat
      BY <1>1 DEF Inv, FenceInv
    <2>2. \A d \in Callers : call[d].tok \in Nat
      BY <1>1 DEF TypeOK, CallType
    <2> QED BY <1>1, <2>1, <2>2 DEF IssuedInv
  <1>15. AwaitedInv'
    <2>1. ASSUME NEW t, Awaited(t)' PROVE t \in live' /\ t # row'.tok
      BY <1>2, <1>12, <1>13, <1>14, <2>1 DEF AwaitedInv
    <2>2. ASSUME NEW d \in Callers, Holding(d)', Awaited(call[d].tok)'
          PROVE  FALSE
      <3>1. Awaited(call'[d].tok) \/ call'[d].tok = issued + 1
        BY <1>12, <2>2
      <3> QED BY <1>4, <1>14, <2>2, <3>1 DEF AwaitedInv
    <2> QED BY <2>1, <2>2 DEF AwaitedInv
  <1>16. OnceInv'
    <2>1. \A d \in Callers : Committing(d) => Awaited(call[d].got)
      BY DEF Awaited
    <2>2. \A w \in LateCommits : Awaited(w.tok)
      BY DEF Awaited
    <2>3. \A d \in Callers \ {c} : Committing(d)' =>
            call'[d].got = call[d].got /\ call[d].got # issued + 1
      BY <1>1, <1>7, <1>13, <2>1
    <2>4. \A w \in LateCommits : w.tok # issued + 1
      BY <1>1, <1>13, <2>2
    <2>5. pending # issued + 1
      BY <1>1 DEF Inv, PendingInv, TypeOK
    <2>6. ASSUME NEW d \in Callers, Committing(d)'
          PROVE  /\ call'[d].got # pending'
                 /\ \A b \in Callers :
                      Committing(b)' /\ call'[d].got = call'[b].got => d = b
                 /\ \A w \in LateCommits' : w.tok # call'[d].got
      <3>1. CASE d = c
        BY <1>11, <2>3, <2>4, <2>5, <2>6, <3>1
      <3>2. CASE d # c
        BY <1>7, <1>11, <2>3, <2>6, <3>2 DEF OnceInv
      <3> QED BY <3>1, <3>2
    <2> QED BY <1>11, <2>6 DEF OnceInv
  <1>17. IssuedInv'
    <2>1. live' \subseteq 1 .. issued'
      BY <1>1, <1>2 DEF IssuedInv
    <2>2. \A d \in Callers : call[d].tok \in Nat
      BY <1>1 DEF TypeOK, CallType
    <2> QED BY <1>1, <1>2, <1>4, <2>1, <2>2 DEF IssuedInv
  <1>18. SpentInv'
    <2>1. ASSUME NEW d \in Callers, call'[d].pc \in {"leased", "posting"}
          PROVE  call'[d].tok \in live' \cup lost'
      <3>1. d # c /\ Holding(d)
        BY <2>1 DEF Holding
      <3>2. call[d].tok # call[c].tok /\ call[d].tok \in live \cup lost
        BY <1>3, <2>1, <3>1 DEF Exclusive, SpentInv
      <3> QED BY <1>2, <3>1, <3>2
    <2>2. ASSUME row'.exists, row'.tok \notin live' \cup lost'
          PROVE  \E d \in Callers : Committing(d)' /\ call'[d].tok = row'.tok
      <3>1. CASE row.tok = call[c].tok
        <4>1. Committing(c)' /\ Holding(c)'
          BY <2>2, <3>1 DEF Committing, Holding
        <4> QED BY <1>4, <3>1, <4>1
      <3>2. CASE row.tok # call[c].tok
        <4>1. row.tok \notin live \cup lost
          BY <1>2, <2>2, <3>2
        <4>2. PICK d \in Callers : Committing(d) /\ call[d].tok = row.tok
          BY <2>2, <4>1 DEF SpentInv
        <4>3. d # c
          BY <1>8, <4>2
        <4>4. Committing(d)' /\ call'[d].tok = row.tok
          BY <1>7, <4>2, <4>3
        <4> QED BY <4>4
      <3> QED BY <3>1, <3>2
    <2> QED BY <2>1, <2>2 DEF SpentInv
  <1>19. Exclusive' /\ SpentOnce'
    BY <1>4 DEF Exclusive, SpentOnce
  <1> QED BY <1>9, <1>10, <1>15, <1>16, <1>17, <1>18, <1>19

\* A row that receives a token set on its way to it.
LEMMA ArrivalFrame ==
  ASSUME ExInv, MarkInv', \A d \in Callers : Settles(d), NEW t,
         Awaited(t), ~Awaited(t)', row'.tok = t,
         late' \subseteq late, pending' \in {pending, NoToken},
         conf' = conf, live' = live, issued' = issued, lost' = lost,
         replayed' = replayed
  PROVE  ExInv'
  <1>1. NonceInv' /\ OnceInv' /\ \A u : Awaited(u)' => Awaited(u)
    BY SettledKept
  <1>2. \A u : Awaited(u)' => Awaited(u) /\ u # row'.tok
    BY <1>1
  <1>3. LeaseInv'
    <2> SUFFICES ASSUME NEW d \in Callers, Holding(d)', row'.tok = call'[d].tok
                 PROVE  FALSE
      BY DEF LeaseInv
    <2>1. Holding(d) /\ call'[d].tok = call[d].tok
      BY DEF Settles
    <2> QED BY <2>1 DEF ExInv, AwaitedInv
  <1>4. row'.tok \in live
    BY DEF ExInv, AwaitedInv
  <1> QED BY <1>1, <1>2, <1>3, <1>4, SettledFrame

\* A lease is only granted while nobody holds the row's token set: a holder
\* would still have the lease.
LEMMA NobodyHolds ==
  ASSUME ExInv, NEW c \in Callers, Takeable(c), NEW d \in Callers, Holding(d)
  PROVE  call[d].tok # row.tok
  <1>1. Need(d) \in Nat
    BY NeedType DEF ExInv, MarkInv, Inv
  <1> QED BY <1>1 DEF ExInv, LeaseInv, Takeable, Free

\* Being given the lease.
LEMMA TakeFrame ==
  ASSUME ExInv, MarkInv', NEW c \in Callers, Take(c)
  PROVE  ExInv'
  <1> USE DEF ExInv, rowVars, idpVars, hist
  <1>1. /\ call \in [Callers -> CallType] /\ call[c] \in CallType
        /\ TypeOK /\ Inv
    BY DEF MarkInv, Inv, TypeOK
  <1>2. /\ call'[c].pc = "leased" /\ call'[c].nonce = FreshNonce
        /\ call'[c].tok = row.tok /\ call'[c].until = conf.stall
        /\ \A d \in Callers \ {c} : call'[d] = call[d]
    BY <1>1 DEF Take, Become, CallType
  <1>3. /\ row'.tok = row.tok /\ row'.exists = row.exists
        /\ row'.nonce = FreshNonce /\ row'.leaseLeft = conf.lease
    BY <1>1, RowShapes DEF Take
  <1>4. FreshNonce \notin UsedNonces
    BY FreshNonceType DEF Take
  <1>5. Takeable(c) /\ ~Holding(c) /\ row.exists
    BY DEF Take, Takeable, Holding
  <1>6. ASSUME NEW d \in Callers, Holding(d)
        PROVE  call[d].tok # row.tok /\ d # c
    <2>1. call[d].tok # row.tok
      BY <1>5, <1>6, NobodyHolds
    <2> QED BY <1>5, <1>6, <2>1
  <1>7. \A d \in Callers : Holding(d)' => d = c \/ Holding(d)
    <2>1. \A d \in Callers \ {c} : Holding(d)' => Holding(d)
      BY <1>2 DEF Holding
    <2> QED BY <2>1
  <1>8. \A d \in Callers : Committing(d)' =>
          d # c /\ Committing(d) /\ call'[d] = call[d]
    BY <1>2 DEF Committing
  <1>9. \A d \in Callers : Committing(d) => d # c /\ Committing(d)'
    BY <1>2, <1>5 DEF Committing, Holding
  <1>10. StallFits'
    BY DEF StallFits, Take
  <1>11. NonceInv'
    <2>1. \A d \in Callers : call[d].nonce \in UsedNonces
      BY DEF UsedNonces
    <2>2. \A w \in late : w.nonce \in UsedNonces
      BY DEF UsedNonces
    <2>3. late' = late
      BY DEF Take
    <2>4. ASSUME NEW d \in Callers, Holding(d)'
          PROVE  /\ \A b \in Callers :
                      Holding(b)' /\ call'[d].nonce = call'[b].nonce => d = b
                 /\ \A w \in late : w.nonce # call'[d].nonce
      <3>1. CASE d = c
        BY <1>2, <1>4, <2>1, <2>2, <3>1
      <3>2. CASE d # c
        <4>1. call'[d].nonce = call[d].nonce /\ Holding(d)
          BY <1>2, <1>7, <2>4, <3>2
        <4> QED BY <1>2, <1>4, <1>7, <2>1, <4>1 DEF NonceInv
      <3> QED BY <3>1, <3>2
    <2> QED BY <2>3, <2>4 DEF NonceInv
  <1>12. LeaseInv'
    <2> SUFFICES ASSUME NEW d \in Callers, Holding(d)', row'.exists,
                        row'.tok = call'[d].tok
                 PROVE  row'.nonce = call'[d].nonce /\ row'.leaseLeft >= Need(d)'
      BY DEF LeaseInv
    <2>1. d = c
      BY <1>2, <1>3, <1>6, <1>7
    <2>2. Need(c)' = conf.stall + conf.request + conf.write
      BY <1>2 DEF Need, Take
    <2>3. conf.lease \in Nat /\ conf.request \in Nat /\ conf.write \in Nat
      BY <1>1, NeedType
    <2> QED BY <1>2, <1>3, <2>1, <2>2, <2>3, DurationAssumption DEF StallFits
  <1>13. /\ late' = late /\ pending' = pending /\ live' = live
         /\ issued' = issued /\ lost' = lost /\ replayed' = replayed
         /\ LateCommits' = LateCommits
    BY DEF Take, LateCommits
  <1>14. \A t : Awaited(t)' => Awaited(t)
    BY <1>8, <1>13 DEF Awaited
  <1>15. AwaitedInv'
    <2>1. ASSUME NEW d \in Callers, Holding(d)', Awaited(call[d].tok)'
          PROVE  FALSE
      <3>1. Awaited(call'[d].tok)
        BY <1>14, <2>1
      <3>2. CASE d = c
        BY <1>2, <3>1, <3>2 DEF AwaitedInv
      <3>3. CASE d # c
        BY <1>2, <1>7, <2>1, <3>1, <3>3 DEF AwaitedInv
      <3> QED BY <3>2, <3>3
    <2> QED BY <1>3, <1>13, <1>14, <2>1 DEF AwaitedInv
  <1>16. OnceInv'
    BY <1>8, <1>13 DEF OnceInv
  <1>17. IssuedInv'
    <2>1. row.tok <= issued
      BY <1>1 DEF Inv, FenceInv, TypeOK
    <2> QED BY <1>2, <1>7, <1>13, <2>1 DEF IssuedInv
  <1>18. SpentInv'
    <2>1. row.tok \in live \cup lost
      BY <1>5, <1>6 DEF SpentInv, Committing, Holding
    <2>2. \A d \in Callers \ {c} :
            call'[d].pc \in {"leased", "posting"} =>
              call'[d].tok \in live \cup lost
      BY <1>2 DEF SpentInv
    <2> QED BY <1>2, <1>3, <1>13, <2>1, <2>2 DEF SpentInv
  <1>19. Exclusive' /\ SpentOnce'
    <2>1. \A d, b \in Callers : d # b /\ Holding(d)' /\ Holding(b)' =>
            call'[d].tok # call'[b].tok
      BY <1>2, <1>6, <1>7 DEF Exclusive
    <2> QED BY <1>13, <2>1 DEF Exclusive, SpentOnce
  <1> QED BY <1>10, <1>11, <1>12, <1>15, <1>16, <1>17, <1>18, <1>19

\* The clock moves the lease and its holder's deadline together.
LEMMA TickFrame ==
  ASSUME ExInv, MarkInv', Tick
  PROVE  ExInv'
  <1> USE DEF ExInv, rowVars, idpVars, hist
  <1>1. TypeOK /\ TypeOK' /\ \A d \in Callers : call[d] \in CallType
    BY DEF MarkInv, Inv, TypeOK
  <1>2. \A d \in Callers :
          /\ call'[d].pc = call[d].pc /\ call'[d].nonce = call[d].nonce
          /\ call'[d].tok = call[d].tok /\ call'[d].got = call[d].got
          /\ Holding(d) => call'[d].until = call[d].until - 1
    BY <1>1 DEF Tick, CallType
  <1>3. \A d \in Callers : Settles(d) /\ EndsLost(d)
    BY <1>2 DEF Settles, EndsLost, Holding, Committing
  <1>4. /\ row'.tok = row.tok /\ row'.exists = row.exists
        /\ row'.nonce = row.nonce
        /\ row.leaseLeft # Free => row'.leaseLeft = row.leaseLeft - 1
    BY <1>1 DEF Tick, TypeOK, RowType
  <1>5. LeaseInv'
    <2> SUFFICES ASSUME NEW d \in Callers, Holding(d)', row'.exists,
                        row'.tok = call'[d].tok
                 PROVE  row'.nonce = call'[d].nonce /\ row'.leaseLeft >= Need(d)'
      BY DEF LeaseInv
    <2>1. Holding(d) /\ row.exists /\ row.tok = call[d].tok
      BY <1>2, <1>4 DEF Holding
    <2>2. row.nonce = call[d].nonce /\ row.leaseLeft >= Need(d)
      BY <2>1 DEF LeaseInv
    <2>3. /\ row.leaseLeft \in Int /\ Need(d) \in Nat /\ call[d].until \in Nat
          /\ conf.request \in Nat /\ conf.write \in Nat
      BY <1>1, NeedType
    <2>4. Need(d)' = Need(d) - 1
      <3>1. conf' = conf
        BY DEF Tick
      <3>2. call'[d].pc = call[d].pc /\ call'[d].until = call[d].until - 1
        BY <1>2, <2>1
      <3> QED BY <2>3, <3>1, <3>2 DEF Need
    <2>5. row'.leaseLeft = row.leaseLeft - 1
      BY <1>4, <2>2, <2>3 DEF Free
    <2> QED BY <1>2, <1>4, <2>2, <2>3, <2>4, <2>5
  <1>6. /\ late' = late /\ pending' = pending /\ conf' = conf /\ live' = live
        /\ issued' = issued /\ lost' = lost /\ replayed' = replayed
    BY DEF Tick
  <1>7. NonceInv' /\ OnceInv' /\ \A t : Awaited(t)' => Awaited(t)
    BY <1>3, <1>6, SettledKept
  <1>8. \A t : Awaited(t)' => Awaited(t) /\ t # row'.tok
    BY <1>4, <1>7 DEF AwaitedInv
  <1> QED BY <1>3, <1>4, <1>5, <1>6, <1>7, <1>8, SettledFrame

\* Leaving the holders: every step of a caller outside an exchange.
LEMMA LeavesHow ==
  ASSUME TypeOK, NEW c \in Callers,
         \/ \E r \in Results, t \in Nat : Return(c, r, t)
         \/ LoseLease(c)
         \/ Begin(c) \/ PassDeadline(c) \/ ReadFirst(c) \/ ReadAgain(c)
         \/ TakeDenied(c) \/ WaitEnds(c)
  PROVE  Leaves(c)
  <1>1. call \in [Callers -> CallType] /\ call[c] \in CallType /\ row.tok \in Nat
    BY DEF TypeOK, RowType
  <1>2. ASSUME NEW r \in Results, NEW t \in Nat, Return(c, r, t)
        PROVE  Leaves(c)
    BY <1>1, <1>2, ReturnFrame DEF Leaves, Holding
  <1>3. {"session", "refreshfailed", "error"} \subseteq Results
        /\ NoToken \in Nat
    BY DEF Results, OwnFailures, NoToken
  <1>4. ASSUME NEW rec, Become(c, rec),
               rec.pc \notin {"leased", "posting", "commit", "fail"}
        PROVE  Leaves(c)
    BY <1>1, <1>4 DEF Become, Leaves, Holding
  <1>5. ASSUME LoseLease(c) PROVE Leaves(c)
    BY <1>1, <1>4, <1>5 DEF LoseLease, CallType
  <1>6. ASSUME Begin(c) PROVE Leaves(c)
    BY <1>4, <1>6 DEF Begin, Idle
  <1>7. ASSUME PassDeadline(c) PROVE Leaves(c)
    BY <1>1, <1>4, <1>7 DEF PassDeadline, CallType
  <1>8. ASSUME ReadFirst(c) PROVE Leaves(c)
    <2>1. \/ Return(c, "session", row.tok)
          \/ Become(c, [call[c] EXCEPT !.pc = "take",
                                       !.seenR = row.refreshedAt,
                                       !.seenF = row.failedAt,
                                       !.since = stamp])
      BY <1>8 DEF ReadFirst
    <2> QED BY <1>1, <1>2, <1>3, <1>4, <2>1 DEF CallType
  <1>9. ASSUME ReadAgain(c) PROVE Leaves(c)
    <2>1. \/ Return(c, "session", row.tok)
          \/ Return(c, "refreshfailed", NoToken)
          \/ Become(c, [call[c] EXCEPT !.pc = "take",
                           !.lostReads = IF @ > 0 THEN @ - 1 ELSE 0])
      BY <1>9 DEF ReadAgain
    <2> QED BY <1>1, <1>2, <1>3, <1>4, <2>1 DEF CallType
  <1>10. ASSUME TakeDenied(c) PROVE Leaves(c)
    BY <1>1, <1>4, <1>10 DEF TakeDenied, CallType
  <1>11. ASSUME WaitEnds(c) PROVE Leaves(c)
    BY <1>1, <1>2, <1>3, <1>4, <1>11 DEF WaitEnds, CallType
  <1> QED BY <1>2, <1>5, <1>6, <1>7, <1>8, <1>9, <1>10, <1>11

\* A lease taken off the row, by a grant nobody heard of or by a failure,
\* was nobody's who still needs it.
LEMMA LeaseMoved ==
  ASSUME ExInv, row'.tok = row.tok, row'.exists = row.exists,
         \A d \in Callers : Settles(d),
         \A d \in Callers :
           Holding(d)' /\ row.exists => row.tok # call[d].tok
  PROVE  LeaseInv'
  BY DEF LeaseInv, Settles

\* Whoever presents the row's nonce is the only one who holds its token set.
LEMMA FenceAlone ==
  ASSUME ExInv, NEW d \in Callers, Holding(d), row.exists,
         row.tok = call[d].tok
  PROVE  /\ row.nonce = call[d].nonce
         /\ \A c \in Callers : Holding(c) /\ row.nonce = call[c].nonce => c = d
         /\ \A w \in late : row.nonce # w.nonce
  BY DEF ExInv, LeaseInv, NonceInv

\* A step of the world that gives the row nothing.
LEMMA WorldFrame ==
  ASSUME ExInv, MarkInv', call' = call, conf' = conf, live' = live,
         issued' = issued, lost' = lost, replayed' = replayed,
         late' \subseteq late, pending' \in {pending, NoToken},
         row'.tok = row.tok, row'.exists => row.exists,
         \/ row'.exists => row'.nonce = row.nonce /\ row'.leaseLeft = row.leaseLeft
         \/ LeaseInv'
  PROVE  ExInv'
  <1>1. \A d \in Callers : Settles(d) /\ EndsLost(d) /\ Need(d)' = Need(d)
    BY DEF Settles, EndsLost, Holding, Committing, Need
  <1>2. TypeOK /\ TypeOK' /\ \A d \in Callers : Need(d) \in Nat
    BY NeedType DEF ExInv, MarkInv, Inv
  <1>3. LeaseInv'
    BY <1>1, <1>2, LeaseKept
  <1>4. NonceInv' /\ OnceInv' /\ \A t : Awaited(t)' => Awaited(t)
    BY <1>1, SettledKept
  <1>5. \A t : Awaited(t)' => Awaited(t) /\ t # row'.tok
    BY <1>4 DEF ExInv, AwaitedInv
  <1> QED BY <1>1, <1>3, <1>4, <1>5, SettledFrame

\* Update is handed a token set nobody else has.
LEMMA UpdateGetFrame ==
  ASSUME ExInv, MarkInv', UpdateGet
  PROVE  ExInv'
  <1> USE DEF ExInv, rowVars, idpVars, hist
  <1>1. TypeOK /\ Inv /\ issued \in Nat
    BY DEF MarkInv, Inv, TypeOK
  <1>2. /\ call' = call /\ row' = row /\ late' = late /\ conf' = conf
        /\ lost' = lost /\ replayed' = replayed
        /\ pending = NoToken /\ pending' = issued + 1 /\ issued' = issued + 1
        /\ live' = live \cup {issued + 1}
    BY DEF UpdateGet
  <1>3. /\ LateCommits' = LateCommits
        /\ \A d \in Callers : /\ Holding(d)' <=> Holding(d)
                              /\ Committing(d)' <=> Committing(d)
                              /\ Need(d)' = Need(d)
    BY <1>2 DEF LateCommits, Holding, Committing, Need
  <1>4. \A t : Awaited(t)' => Awaited(t) \/ t = issued + 1
    BY <1>2, <1>3 DEF Awaited
  <1>5. \A t : Awaited(t) => t \in live /\ t # issued + 1
    <2>1. \A t \in live : t # issued + 1
      BY <1>1 DEF IssuedInv
    <2> QED BY <2>1 DEF AwaitedInv
  <1>6. row.tok # issued + 1 /\ \A d \in Callers :
          Holding(d) => call[d].tok # issued + 1
    <2>1. row.tok <= issued /\ row.tok \in Nat
      BY <1>1 DEF Inv, FenceInv
    <2>2. \A d \in Callers : call[d].tok \in Nat
      BY <1>1 DEF TypeOK, CallType
    <2> QED BY <1>1, <2>1, <2>2 DEF IssuedInv
  <1>7. StallFits' /\ NonceInv' /\ LeaseInv' /\ Exclusive' /\ SpentOnce'
    BY <1>2, <1>3
    DEF StallFits, NonceInv, LeaseInv, Exclusive, SpentOnce
  <1>8. AwaitedInv'
    BY <1>2, <1>3, <1>4, <1>5, <1>6 DEF AwaitedInv
  <1>9. OnceInv'
    <2>1. \A d \in Callers : Committing(d) => call[d].got # issued + 1
      BY <1>5 DEF Awaited
    <2>2. \A w \in LateCommits : w.tok # issued + 1
      BY <1>5 DEF Awaited
    <2> QED BY <1>2, <1>3, <2>1, <2>2 DEF OnceInv
  <1>10. IssuedInv'
    <2>1. live' \subseteq 1 .. issued'
      <3>1. \A t \in live : t \in 1 .. issued
        BY DEF IssuedInv
      <3>2. \A t \in live' : t \in live \/ t = issued + 1
        BY <1>2
      <3> QED BY <1>1, <1>2, <3>1, <3>2
    <2>2. \A d \in Callers : call[d].tok \in Nat
      BY <1>1 DEF TypeOK, CallType
    <2> QED BY <1>1, <1>2, <1>3, <2>1, <2>2 DEF IssuedInv
  <1>11. SpentInv'
    BY <1>2, <1>3 DEF SpentInv
  <1> QED BY <1>7, <1>8, <1>9, <1>10, <1>11

\* Commit, when the fence lets it through and when it does not.
LEMMA CommitFrame ==
  ASSUME ExInv, MarkInv', NEW c \in Callers, Commit(c)
  PROVE  ExInv'
  <1> USE DEF rowVars, idpVars, hist
  <1>1. TypeOK /\ Committing(c) /\ Holding(c)
    BY DEF ExInv, MarkInv, Inv, Commit, Committing, Holding
  <1>2. CASE Fenced(call[c].nonce)
    <2>1. /\ row'.tok = call[c].got
          /\ Return(c, "session", call[c].got)
      BY <1>1, <1>2, RowShapes DEF Commit
    <2>2. Leaves(c)
      <3>1. call[c].got \in Nat /\ "session" \in Results
        BY <1>1 DEF TypeOK, CallType, Results
      <3> QED BY <1>1, <2>1, <3>1, LeavesHow
    <2>3. \A d \in Callers : Settles(d)
      BY <2>2, LeavesSettled DEF Commit
    <2>4. Awaited(call[c].got)
      BY <1>1 DEF Awaited
    <2>5. ~Committing(c)' /\ \A d \in Callers \ {c} : call'[d] = call[d]
      BY <2>2 DEF Leaves, Holding, Committing
    <2>6. late' = late /\ pending' = pending
      BY DEF Commit
    <2>7. ASSUME NEW t, t = call[c].got, Awaited(t)' PROVE FALSE
      <3>1. /\ t # pending /\ \A w \in LateCommits : w.tok # t
            /\ \A d \in Callers : Committing(d) /\ t = call[d].got => c = d
        BY <1>1, <2>7 DEF ExInv, OnceInv
      <3>2. \A d \in Callers : Committing(d)' =>
              d # c /\ Committing(d) /\ call'[d] = call[d]
        BY <2>5 DEF Committing
      <3>3. LateCommits' = LateCommits
        BY <2>6 DEF LateCommits
      <3> QED BY <2>6, <2>7, <3>1, <3>2, <3>3 DEF Awaited
    <2>8. PICK t : t = call[c].got
      OBVIOUS
    <2> QED BY <2>1, <2>3, <2>4, <2>6, <2>7, <2>8, ArrivalFrame DEF Commit
  <1>3. CASE ~Fenced(call[c].nonce)
    <2>1. Leaves(c)
      BY <1>1, <1>3, LeavesHow DEF Commit
    <2>2. EndsLost(c)
      BY <1>1, <1>3 DEF ExInv, LeaseInv, Fenced, EndsLost
    <2> QED BY <1>3, <2>1, <2>2, LeavesFrame DEF Commit
  <1> QED BY <1>2, <1>3

\* Fail, the same way.
LEMMA FailFrame ==
  ASSUME ExInv, MarkInv', NEW c \in Callers, Fail(c)
  PROVE  ExInv'
  <1> USE DEF rowVars, idpVars, hist
  <1>1. TypeOK /\ ~Committing(c) /\ Holding(c) /\ EndsLost(c)
    BY DEF ExInv, MarkInv, Inv, Fail, Committing, Holding, EndsLost
  <1>2. CASE Fenced(call[c].nonce)
    <2>1. /\ row'.tok = row.tok /\ row'.exists = row.exists
          /\ Return(c, "exchangefailed", NoToken)
      BY <1>1, <1>2, RowShapes DEF Fail
    <2>2. Leaves(c)
      <3>1. NoToken \in Nat /\ "exchangefailed" \in Results
        BY DEF NoToken, Results, OwnFailures
      <3> QED BY <1>1, <2>1, <3>1, LeavesHow
    <2>3. /\ \A d \in Callers : Settles(d)
          /\ \A d \in Callers : Holding(d)' => d # c
      BY <2>2, LeavesSettled DEF Fail
    <2>4. ASSUME NEW d \in Callers, Holding(d)', row.exists,
                 row.tok = call[d].tok
          PROVE  FALSE
      <3>1. Holding(d) /\ d # c
        BY <2>3, <2>4 DEF Settles
      <3> QED BY <1>1, <1>2, <2>4, <3>1, FenceAlone DEF Fenced
    <2>5. LeaseInv'
      BY <2>1, <2>3, <2>4, LeaseMoved
    <2> QED BY <1>1, <2>1, <2>2, <2>5, LeavesFrame DEF Fail
  <1>3. CASE ~Fenced(call[c].nonce)
    <2>1. Leaves(c)
      BY <1>1, <1>3, LeavesHow DEF Fail
    <2> QED BY <1>1, <1>3, <2>1, LeavesFrame DEF Fail
  <1> QED BY <1>2, <1>3

\* A write nobody waits for lands.
LEMMA LandFrame ==
  ASSUME ExInv, MarkInv', NEW w \in late, Land(w)
  PROVE  ExInv'
  <1> USE DEF rowVars, idpVars, hist
  <1>1. TypeOK /\ w.kind \in {"commit", "fail"}
    BY DEF ExInv, MarkInv, Inv, TypeOK, WriteType
  <1>2. /\ call' = call /\ late' = late \ {w} /\ pending' = pending
        /\ conf' = conf /\ live' = live /\ issued' = issued /\ lost' = lost
        /\ replayed' = replayed
    BY DEF Land
  <1>3. \A d \in Callers : Settles(d)
    BY <1>2 DEF Settles, Holding, Committing
  <1>4. CASE ~Fenced(w.nonce)
    BY <1>2, <1>4, WorldFrame DEF Land
  <1>5. CASE Fenced(w.nonce) /\ w.kind = "commit"
    <2>1. row'.tok = w.tok
      BY <1>1, <1>5, RowShapes DEF Land
    <2>2. w \in LateCommits
      BY <1>5 DEF LateCommits
    <2>3. Awaited(w.tok)
      BY <2>2 DEF Awaited
    <2>4. ASSUME NEW t, t = w.tok, Awaited(t)' PROVE FALSE
      <3>1. /\ t # pending /\ \A x \in LateCommits : x.tok = t => x = w
            /\ \A d \in Callers : Committing(d) => t # call[d].got
        BY <2>2, <2>4 DEF ExInv, OnceInv
      <3>2. LateCommits' = LateCommits \ {w}
        BY <1>2 DEF LateCommits
      <3>3. \A d \in Callers : Committing(d)' <=> Committing(d)
        BY <1>2 DEF Committing
      <3> QED BY <1>2, <2>4, <3>1, <3>2, <3>3 DEF Awaited
    <2>5. PICK t : t = w.tok
      OBVIOUS
    <2> QED BY <1>2, <1>3, <2>1, <2>3, <2>4, <2>5, ArrivalFrame
  <1>6. CASE Fenced(w.nonce) /\ w.kind = "fail"
    <2>1. row'.tok = row.tok /\ row'.exists = row.exists
      BY <1>1, <1>6, RowShapes DEF Land
    <2>2. ASSUME NEW d \in Callers, Holding(d)', row.exists,
                 row.tok = call[d].tok
          PROVE  FALSE
      <3>1. Holding(d)
        BY <1>3, <2>2 DEF Settles
      <3> QED BY <1>6, <2>2, <3>1, FenceAlone DEF Fenced
    <2>3. LeaseInv'
      BY <1>3, <2>1, <2>2, LeaseMoved
    <2> QED BY <1>2, <2>1, <2>3, WorldFrame
  <1> QED BY <1>1, <1>4, <1>5, <1>6

\* Every step keeps the invariant behind the exclusive exchange.
LEMMA ExStep == ExInv /\ MarkInv' /\ [Next]_vars => ExInv'
  <1> SUFFICES ASSUME ExInv, MarkInv', [Next]_vars
               PROVE  ExInv'
    OBVIOUS
  <1> USE DEF rowVars, idpVars, hist
  <1>0. TypeOK /\ TypeOK'
    BY DEF ExInv, MarkInv, Inv
  <1>1. /\ call \in [Callers -> CallType]
        /\ \A c \in Callers : call[c] \in CallType
        /\ row \in RowType
    BY <1>0 DEF TypeOK
  <1>2. NoToken \in Nat /\ {"none", "session", "nosession", "unopenable",
          "timeout", "refreshfailed", "exchangefailed", "unrecorded",
          "error"} = Results
    BY DEF NoToken, Results, OwnFailures
  <1>3. \A c \in Callers : call[c].pc # "commit" => EndsLost(c)
    BY DEF EndsLost, Committing
  <1>4. ASSUME NEW c \in Callers, NEW r \in Results, NEW t \in Nat,
               Return(c, r, t)
        PROVE  Leaves(c)
    BY <1>0, <1>4, LeavesHow
  <1>5. ASSUME NEW c \in Callers, Leaves(c), EndsLost(c), row' = row,
               conf' = conf, live' = live, issued' = issued,
               late' \subseteq late, pending' = pending,
               lost \subseteq lost', replayed' = replayed
        PROVE  ExInv'
    BY <1>5, LeavesFrame
  <1>6. ASSUME NEW c \in Callers,
               \/ Begin(c) \/ PassDeadline(c) \/ ReadFirst(c) \/ ReadAgain(c)
               \/ TakeDenied(c) \/ WaitEnds(c)
        PROVE  ExInv'
    <2>1. Leaves(c)
      BY <1>0, <1>6, LeavesHow
    <2> QED
      BY <1>3, <1>5, <1>6, <2>1
      DEF Begin, PassDeadline, ReadFirst, ReadAgain, TakeDenied, WaitEnds
  <1>7. ASSUME NEW c \in Callers,
               GiveUp(c) \/ ReadNothing(c) \/ LeasedUnreadable(c)
        PROVE  ExInv'
    <2>1. Leaves(c)
      BY <1>2, <1>4, <1>7 DEF GiveUp, ReadNothing, LeasedUnreadable
    <2> QED
      BY <1>3, <1>5, <1>7, <2>1 DEF GiveUp, ReadNothing, LeasedUnreadable
  <1>8. ASSUME NEW c \in Callers, TakeError(c)
        PROVE  ExInv'
    <2>1. Leaves(c) /\ EndsLost(c)
      BY <1>2, <1>3, <1>4, <1>8 DEF TakeError
    <2>2. CASE row' = row
      BY <1>5, <1>8, <2>1, <2>2 DEF TakeError
    <2>3. CASE Takeable(c) /\ row' = LeasedTo(FreshNonce)
      <3>1. row'.tok = row.tok /\ row'.exists = row.exists
        BY <1>0, <2>3, RowShapes
      <3>2. \A d \in Callers : Settles(d)
        BY <1>8, <2>1, LeavesSettled DEF TakeError
      <3>3. \A d \in Callers : Holding(d)' => row.tok # call[d].tok
        BY <2>3, <3>2, NobodyHolds DEF Settles
      <3>4. LeaseInv'
        BY <3>1, <3>2, <3>3, LeaseMoved
      <3> QED BY <1>8, <2>1, <3>1, <3>4, LeavesFrame DEF TakeError
    <2> QED BY <1>8, <2>2, <2>3 DEF TakeError
  <1>9. ASSUME NEW c \in Callers, NEW p \in {"posting", "fail"},
               call[c].pc \in {"leased", "posting"}, call[c].pc # p,
               call'[c].pc = p, call'[c].tok = call[c].tok,
               call'[c].nonce = call[c].nonce, Need(c)' <= Need(c),
               \A d \in Callers \ {c} : call'[d] = call[d],
               conf' = conf, row' = row, live' = live, issued' = issued,
               late' = late, pending' = pending, lost' = lost,
               replayed' \subseteq replayed \cup lost
        PROVE  ExInv'
    <2>1. \A d \in Callers \ {c} : Settles(d) /\ EndsLost(d) /\ Need(d)' = Need(d)
      BY <1>9 DEF Settles, EndsLost, Holding, Committing, Need
    <2>2. Settles(c) /\ EndsLost(c)
      BY <1>9 DEF Settles, EndsLost, Holding, Committing
    <2>3. \A d \in Callers : Need(d) \in Nat
      BY <1>0, NeedType
    <2>4. \A d \in Callers : Settles(d) /\ EndsLost(d) /\ Need(d)' <= Need(d)
      BY <1>9, <2>1, <2>2, <2>3
    <2>5. LeaseInv'
      BY <1>0, <1>9, <2>4, LeaseKept
    <2>6. NonceInv' /\ OnceInv' /\ \A t : Awaited(t)' => Awaited(t)
      BY <1>9, <2>4, SettledKept
    <2>7. \A t : Awaited(t)' => Awaited(t) /\ t # row'.tok
      BY <1>9, <2>6 DEF ExInv, AwaitedInv
    <2> QED BY <1>9, <2>4, <2>5, <2>6, <2>7, SettledFrame
  <1>10. /\ conf.request \in Nat /\ conf.write \in Nat
         /\ \A c \in Callers : call[c].until \in Nat
    BY <1>0, NeedType
  <1>11. ASSUME NEW c \in Callers, StartExchange(c)
         PROVE  ExInv'
    <2>1. /\ call'[c].pc = "posting" /\ call'[c].tok = call[c].tok
          /\ call'[c].nonce = call[c].nonce /\ call'[c].until = conf.request
          /\ \A d \in Callers \ {c} : call'[d] = call[d]
      BY <1>1, <1>11 DEF StartExchange, Become, CallType
    <2>2. Need(c)' <= Need(c)
      BY <1>10, <1>11, <2>1 DEF StartExchange, Need
    <2> QED BY <1>9, <1>11, <2>1, <2>2 DEF StartExchange
  <1>12. ASSUME NEW c \in Callers, ExchangeOK(c)
         PROVE  ExInv'
    <2>1. /\ call'[c].pc = "commit" /\ call'[c].tok = call[c].tok
          /\ call'[c].nonce = call[c].nonce /\ call'[c].until = conf.write
          /\ call'[c].got = issued + 1
          /\ \A d \in Callers \ {c} : call'[d] = call[d]
      BY <1>1, <1>12 DEF ExchangeOK, Become, CallType
    <2>2. Need(c)' <= Need(c) /\ Committing(c)'
      BY <1>10, <1>12, <2>1 DEF ExchangeOK, Need, Committing
    <2> QED BY <1>12, <2>1, <2>2, HonourFrame DEF ExchangeOK
  <1>13. ASSUME NEW c \in Callers, SealError(c)
         PROVE  ExInv'
    <2>1. Leaves(c)
      BY <1>2, <1>4, <1>13 DEF SealError
    <2>2. call'[c].pc \notin {"leased", "posting"} /\ ~Committing(c)'
      BY <2>1 DEF Leaves, Holding, Committing
    <2> QED BY <1>13, <2>1, <2>2, HonourFrame DEF SealError, Leaves
  <1>14. ASSUME NEW c \in Callers, ExchangeError(c)
         PROVE  ExInv'
    <2>1. /\ call'[c].pc = "fail" /\ call'[c].tok = call[c].tok
          /\ call'[c].nonce = call[c].nonce /\ call'[c].until = conf.write
          /\ \A d \in Callers \ {c} : call'[d] = call[d]
      BY <1>1, <1>14 DEF ExchangeError, Become, CallType
    <2>2. Need(c)' <= Need(c) /\ ~Committing(c)'
      BY <1>10, <1>14, <2>1 DEF ExchangeError, Need, Committing
    <2>3. CASE Honour(call[c].tok) /\ lost' = lost \cup {call[c].tok}
               /\ replayed' = replayed
      BY <1>14, <2>1, <2>2, <2>3, HonourFrame DEF ExchangeError
    <2>4. CASE UNCHANGED <<idpVars, lost>> /\ Replay(call[c].tok)
      <3>1. replayed' \subseteq replayed \cup lost
        BY <1>14, <2>4 DEF ExchangeError, Replay, ExInv, SpentInv
      <3> QED BY <1>9, <1>14, <2>1, <2>2, <2>4, <3>1 DEF ExchangeError
    <2> QED BY <1>14, <2>3, <2>4 DEF ExchangeError
  <1>15. ASSUME NEW c \in Callers, WriteError(c)
         PROVE  ExInv'
    <2>1. Leaves(c)
      BY <1>2, <1>4, <1>15 DEF WriteError
    <2>2. EndsLost(c)
      BY <1>3, <1>15 DEF WriteError, EndsLost
    <2>3. CASE late' = late
      BY <1>5, <1>15, <2>1, <2>2, <2>3 DEF WriteError
    <2>4. CASE late' = late \cup {Abandoned(c)}
      BY <1>15, <2>1, <2>2, <2>4, AbandonFrame DEF WriteError
    <2> QED BY <1>15, <2>3, <2>4 DEF WriteError
  <1>16. ASSUME NEW c \in Callers, Crash(c)
         PROVE  ExInv'
    <2>1. Leaves(c) /\ conf' = conf /\ row' = row /\ pending' = pending
          /\ replayed' = replayed
      BY <1>2, <1>4, <1>16 DEF Crash
    <2>2. CASE call[c].pc = "posting"
      <3>1. late' = late
        BY <1>16, <2>2 DEF Crash
      <3>2. CASE UNCHANGED <<idpVars, lost>>
        BY <1>3, <1>5, <2>1, <2>2, <3>1, <3>2
      <3>3. CASE Honour(call[c].tok) /\ lost' = lost \cup {call[c].tok}
        <4>1. call'[c].pc \notin {"leased", "posting"} /\ ~Committing(c)'
          BY <2>1 DEF Leaves, Holding, Committing
        <4> QED BY <2>1, <2>2, <3>1, <3>3, <4>1, HonourFrame DEF Leaves
      <3> QED BY <1>16, <2>2, <3>2, <3>3 DEF Crash
    <2>3. CASE call[c].pc \in {"commit", "fail"}
      <3>1. /\ late' = late \/ late' = late \cup {Abandoned(c)}
            /\ lost \subseteq lost' /\ UNCHANGED idpVars
            /\ call[c].pc = "commit" => call[c].tok \in lost'
        BY <1>16, <2>3 DEF Crash
      <3>2. EndsLost(c)
        BY <1>3, <3>1 DEF EndsLost
      <3> QED BY <1>5, <2>1, <2>3, <3>1, <3>2, AbandonFrame
    <2>4. CASE call[c].pc \notin {"posting", "commit", "fail"}
      <3>1. UNCHANGED <<late, idpVars, lost>>
        BY <1>16, <2>4 DEF Crash
      <3> QED BY <1>3, <1>5, <2>1, <2>4, <3>1
    <2> QED BY <2>2, <2>3, <2>4
  <1>17. ASSUME UpdateWrite
         PROVE  ExInv'
    <2>1. CASE row' = Replaced(pending)
      <3>1. row'.tok = pending
        BY <1>0, <2>1, RowShapes
      <3>2. Awaited(pending) /\ \A d \in Callers : Settles(d)
        BY <1>17 DEF UpdateWrite, Awaited, Settles, Holding, Committing
      <3>3. ASSUME NEW t, t = pending, Awaited(t)' PROVE FALSE
        <4>1. /\ \A w \in LateCommits : w.tok # t
              /\ \A d \in Callers : Committing(d) => t # call[d].got
          BY <3>3 DEF ExInv, OnceInv
        <4>2. LateCommits' = LateCommits /\ pending' = NoToken
          BY <1>17 DEF UpdateWrite, LateCommits
        <4>3. \A d \in Callers :
                Committing(d)' => Committing(d) /\ call'[d] = call[d]
          BY <1>17 DEF UpdateWrite, Committing
        <4> QED BY <3>3, <4>1, <4>2, <4>3 DEF Awaited
      <3>4. PICK t : t = pending
        OBVIOUS
      <3> QED BY <1>17, <3>1, <3>2, <3>3, <3>4, ArrivalFrame DEF UpdateWrite
    <2>2. CASE row' = row
      BY <1>17, <2>2, WorldFrame DEF UpdateWrite
    <2> QED BY <1>17, <2>1, <2>2 DEF UpdateWrite
  <1>18. ASSUME Delete
         PROVE  ExInv'
    <2>1. row'.tok = row.tok /\ ~row'.exists
      BY <1>1, <1>18 DEF Delete, RowType
    <2> QED BY <1>18, <2>1, WorldFrame DEF Delete
  <1>19. ASSUME SessionExpires
         PROVE  ExInv'
    <2>1. /\ row'.tok = row.tok /\ row'.exists = row.exists
          /\ row'.nonce = row.nonce /\ row'.leaseLeft = row.leaseLeft
      BY <1>1, <1>19 DEF SessionExpires, RowType
    <2> QED BY <1>19, <2>1, WorldFrame DEF SessionExpires
  <1>20. CASE TokenAges \/ UNCHANGED vars
    BY <1>20, WorldFrame DEF TokenAges, vars
  <1> QED
    BY <1>6, <1>7, <1>8, <1>11, <1>12, <1>13, <1>14, <1>15, <1>16, <1>17,
       <1>18, <1>19, <1>20, TakeFrame, CommitFrame, FailFrame, LandFrame,
       UpdateGetFrame, TickFrame
    DEF Next, Step, World

\* A session just created is nobody's to exchange yet.
LEMMA ExInit == Init /\ StallFits => ExInv
  <1> SUFFICES ASSUME Init, StallFits PROVE ExInv
    OBVIOUS
  <1>1. MarkInv
    BY MarkInit
  <1>2. \A c \in Callers : ~Holding(c) /\ ~Committing(c)
                           /\ call[c].pc \notin {"leased", "posting"}
    BY DEF Init, Idle, Holding, Committing
  <1>3. \A t : ~Awaited(t)
    BY <1>2 DEF Init, Awaited, LateCommits
  <1>4. /\ late = {} /\ live = {1} /\ issued = 1 /\ row.tok = 1
        /\ replayed = {} /\ LateCommits = {}
    BY DEF Init, LateCommits
  <1>5. NonceInv /\ LeaseInv /\ AwaitedInv /\ OnceInv /\ Exclusive
    BY <1>2, <1>3, <1>4
    DEF NonceInv, LeaseInv, AwaitedInv, OnceInv, Exclusive
  <1>6. IssuedInv /\ SpentInv /\ SpentOnce
    BY <1>2, <1>4 DEF IssuedInv, SpentInv, SpentOnce
  <1> QED BY <1>1, <1>5, <1>6 DEF ExInv

\* The invariant holds in every reachable state of a store whose lease
\* outlives its holder.
LEMMA ExHolds == Spec /\ StallFits => []ExInv
  BY ExInit, ExStep, MarkHolds, PTL DEF Spec

\* What conf.validate accepted leaves room in the lease for a prompt caller,
\* and the configuration never changes.
LEMMA PromptFits ==
  /\ Init /\ ~StallFits => ~Prompt
  /\ ~Prompt /\ [Next]_vars => ~Prompt'
  <1>1. ASSUME Init, Prompt PROVE StallFits
    <2>1. conf \in Confs
      BY <1>1 DEF Init
    <2> QED BY <1>1, <2>1, ConfType DEF Prompt, StallFits
  <1>2. ASSUME [Next]_vars PROVE conf' = conf
    BY <1>2
    DEF Next, Step, World, vars, Begin, PassDeadline, Crash, GiveUp,
        ReadNothing, ReadFirst, ReadAgain, Take, TakeDenied, TakeError,
        WaitEnds, StartExchange, LeasedUnreadable, ExchangeOK, SealError,
        ExchangeError, Commit, Fail, WriteError, Land, UpdateGet,
        UpdateWrite, Delete, SessionExpires, TokenAges, Tick
  <1> QED BY <1>1, <1>2 DEF Prompt

\* conf.validate's guarantee, for any number of callers, replicas, crashes
\* and late writes: while the stall before an exchange fits in what validate
\* leaves of the lease, no two callers ever exchange the same refresh token.
THEOREM ExchangeIsExclusive == Spec => []ExclusiveExchange
  <1>1. ExInv => ExclusiveExchange
    BY DEF ExInv, Exclusive, ExclusiveExchange
  <1>2. ~Prompt => ExclusiveExchange
    BY DEF ExclusiveExchange
  <1> QED BY <1>1, <1>2, ExHolds, PromptFits, PTL DEF Spec

\* "Exactly once": under the same condition a refresh token the provider has
\* rotated away is posted again only if the answer to its exchange was lost.
THEOREM SpentIsPostedOnce == Spec => []NoReplay
  <1>1. ExInv => NoReplay
    BY DEF ExInv, SpentOnce, NoReplay
  <1>2. ~Prompt => NoReplay
    BY DEF NoReplay
  <1> QED BY <1>1, <1>2, ExHolds, PromptFits, PTL DEF Spec

=============================================================================
