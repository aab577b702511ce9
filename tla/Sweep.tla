------------------------------- MODULE Sweep -------------------------------
(***************************************************************************)
(* The expiry sweep of the PostgreSQL session store: DeleteExpired         *)
(* (tokenstore/pgstore/pgstore.go) and the statement DeleteExpiredSessions *)
(* (postgres/queries.sql), run by several replicas at once, each calling   *)
(* it until it returns 0, while other statements write the same rows.      *)
(*                                                                         *)
(* A statement is two steps here: the subselect locks its batch, skipping  *)
(* what somebody else has locked, and the delete commits and releases it.  *)
(* A replica may fail or crash in between, which releases the locks; and a *)
(* delete may commit and its reply be lost.                                *)
(***************************************************************************)
EXTENDS Naturals, FiniteSets

CONSTANTS
  Rows,       \* sessions, numbered in the order the statement sorts them
  Sweepers,   \* replicas that sweep
  Writers,    \* other statements under way at once
  Batch,      \* the batch size
  MaxWrites,  \* bound: other statements run
  MaxAborts   \* bound: sweeps that fail

ASSUME SweepAssumption ==
  /\ Rows \subseteq Nat /\ IsFiniteSet(Rows)
  /\ Batch \in Nat \ {0}
  /\ MaxWrites \in Nat /\ MaxAborts \in Nat
  /\ Sweepers \cap Writers = {}

VARIABLES
  table,      \* rows in the table
  expired,    \* rows past their absolute expiry
  holder,     \* per row: who has it locked
  sweep,      \* per sweeper: what its running statement has locked
  writes, aborts,
  reported,   \* the rows all calls together have reported deleted
  unreported  \* history: rows whose deletion nobody was told of

counts == <<reported, unreported>>
vars == <<table, expired, holder, sweep, writes, aborts, counts>>

Nobody == "nobody"

ASSUME NobodyAssumption == Nobody \notin Sweepers \cup Writers

-----------------------------------------------------------------------------
(* The statement *)

\* WHERE expires_at <= now() ... FOR UPDATE SKIP LOCKED
Candidates == {r \in table \cap expired : holder[r] = Nobody}

\* Mutant of Chosen: the LIMIT is one too high.
ChosenOver ==
  {r \in Candidates : Cardinality({q \in Candidates : q < r}) <= Batch}

\* ORDER BY expires_at, id LIMIT batch
Chosen ==
  {r \in Candidates : Cardinality({q \in Candidates : q < r}) < Batch}

\* The subselect locks a batch.
Select(s) ==
  /\ sweep[s].pc = "calling"
  /\ sweep' = [sweep EXCEPT ![s] = [pc |-> "deleting", batch |-> Chosen]]
  /\ holder' = [r \in Rows |-> IF r \in Chosen THEN s ELSE holder[r]]
  /\ UNCHANGED <<table, expired, writes, aborts, counts>>

\* A statement that ends releases the rows it locked.
Released(S) == [r \in Rows |-> IF r \in S THEN Nobody ELSE holder[r]]

\* Mutant of Finish: the count is the LIMIT rather than the rows affected.
FinishCountsLimit(s) ==
  /\ sweep[s].pc = "deleting"
  /\ table' = table \ sweep[s].batch
  /\ holder' = Released(sweep[s].batch)
  /\ reported' = IF sweep[s].batch = {} THEN reported ELSE reported + Batch
  /\ sweep' = [sweep EXCEPT ![s] =
       [pc |-> IF sweep[s].batch = {} THEN "resting" ELSE "calling",
        batch |-> {}]]
  /\ UNCHANGED <<expired, writes, aborts, unreported>>

\* The delete commits; the caller goes on until a call reports 0.
Finish(s) ==
  /\ sweep[s].pc = "deleting"
  /\ table' = table \ sweep[s].batch
  /\ holder' = Released(sweep[s].batch)
  /\ reported' = reported + Cardinality(sweep[s].batch)
  /\ sweep' = [sweep EXCEPT ![s] =
       [pc |-> IF sweep[s].batch = {} THEN "resting" ELSE "calling",
        batch |-> {}]]
  /\ UNCHANGED <<expired, writes, aborts, unreported>>

\* Mutant of Abort: a failed statement leaves its transaction open.
AbortLeaks(s) ==
  /\ sweep[s].pc = "deleting" /\ aborts < MaxAborts
  /\ aborts' = aborts + 1
  /\ sweep' = [sweep EXCEPT ![s] = [pc |-> "resting", batch |-> {}]]
  /\ UNCHANGED <<table, expired, holder, writes, counts>>

\* The statement fails or its replica dies, and the call reports 0 and an
\* error or nothing at all: the delete was rolled back, or it had committed
\* and only its reply was lost.
Abort(s) ==
  /\ sweep[s].pc = "deleting" /\ aborts < MaxAborts
  /\ aborts' = aborts + 1
  /\ holder' = Released(sweep[s].batch)
  /\ sweep' = [sweep EXCEPT ![s] = [pc |-> "resting", batch |-> {}]]
  /\ \/ UNCHANGED <<table, unreported>>
     \/ /\ table' = table \ sweep[s].batch
        /\ unreported' = unreported \cup sweep[s].batch
  /\ UNCHANGED <<expired, writes, reported>>

\* The application's ticker starts the next round.
Resume(s) ==
  /\ sweep[s].pc = "resting"
  /\ sweep' = [sweep EXCEPT ![s].pc = "calling"]
  /\ UNCHANGED <<table, expired, holder, writes, aborts, counts>>

-----------------------------------------------------------------------------
(* Everything else *)

\* A session reaches its absolute expiry.
Expire(r) ==
  /\ r \in table \ expired
  /\ expired' = expired \cup {r}
  /\ UNCHANGED <<table, holder, sweep, writes, aborts, counts>>

\* CommitRefresh, FailRefresh or UpdateSession, none of which looks at the
\* expiry, has row r locked while it writes it.
WriteRow(w, r) ==
  /\ writes < MaxWrites
  /\ \A q \in Rows : holder[q] # w
  /\ r \in table /\ holder[r] = Nobody
  /\ writes' = writes + 1
  /\ holder' = [holder EXCEPT ![r] = w]
  /\ UNCHANGED <<table, expired, sweep, aborts, counts>>

WriteDone(w) ==
  /\ \E q \in Rows : holder[q] = w
  /\ holder' = Released({q \in Rows : holder[q] = w})
  /\ UNCHANGED <<table, expired, sweep, writes, aborts, counts>>

-----------------------------------------------------------------------------
(* Specification *)

Init ==
  /\ table = Rows
  /\ expired \in SUBSET Rows
  /\ holder = [r \in Rows |-> Nobody]
  /\ sweep = [s \in Sweepers |-> [pc |-> "calling", batch |-> {}]]
  /\ writes = 0 /\ aborts = 0 /\ reported = 0 /\ unreported = {}

Statement(s) == Select(s) \/ Finish(s) \/ Resume(s)

Next ==
  \/ \E s \in Sweepers : Statement(s) \/ Abort(s)
  \/ \E r \in Rows : Expire(r) \/ \E w \in Writers : WriteRow(w, r)
  \/ \E w \in Writers : WriteDone(w)

Spec == Init /\ [][Next]_vars

\* The ticker keeps calling, and every statement ends.
FairSpec ==
  /\ Spec
  /\ \A s \in Sweepers : WF_vars(Statement(s))
  /\ \A w \in Writers : WF_vars(WriteDone(w))

-----------------------------------------------------------------------------
(* Properties *)

\* Locks and batches agree: a sweeper's batch is exactly what it has locked,
\* is still in the table and past its expiry, and fits the batch size.
SweepTypeOK ==
  /\ table \subseteq Rows /\ expired \subseteq Rows
  /\ holder \in [Rows -> Sweepers \cup Writers \cup {Nobody}]
  /\ sweep \in [Sweepers -> [pc: {"calling", "deleting", "resting"},
                             batch: SUBSET Rows]]
  /\ writes \in 0 .. MaxWrites /\ aborts \in 0 .. MaxAborts
  /\ \A s \in Sweepers :
       /\ sweep[s].batch = {r \in Rows : holder[r] = s}
       /\ sweep[s].batch \subseteq table \cap expired
       /\ Cardinality(sweep[s].batch) <= Batch

\* DeleteExpired "returns how many it removed": overlapping sweepers never
\* both report a row and never report one that is still there, so the counts
\* fall short of the rows gone by exactly the deletes whose reply was lost.
CountsAddUp ==
  /\ unreported \cap table = {}
  /\ reported = Cardinality((Rows \ table) \ unreported)

\* Overlapping sweeps are complete between them: every session past its
\* expiry is removed in the end, failed sweeps and locked rows
\* notwithstanding.
SweepDrains == \A r \in Rows : r \in expired ~> r \notin table

=============================================================================
