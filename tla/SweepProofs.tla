---------------------------- MODULE SweepProofs ----------------------------
(***************************************************************************)
(* Proofs about Sweep, for any number of sweepers, writers and rows and    *)
(* any batch size: locks and batches agree, and the counts that            *)
(* DeleteExpired returns fall short of the rows that are gone by exactly   *)
(* the deletes whose reply was lost.                                       *)
(***************************************************************************)
EXTENDS Sweep, FiniteSetTheorems, TLAPS

\* Every set of rows is finite and has a cardinality.
LEMMA RowsFinite ==
  ASSUME NEW S \in SUBSET Rows
  PROVE  IsFiniteSet(S) /\ Cardinality(S) \in Nat
  BY SweepAssumption, FS_Subset, FS_CardinalityType

\* LIMIT: no two chosen rows have the same number of candidates before them,
\* and fewer than Batch numbers are possible.
LEMMA ChosenFits ==
  ASSUME table \subseteq Rows
  PROVE  Cardinality(Chosen) <= Batch
  <1> DEFINE Before(r) == {q \in Candidates : q < r}
             rank == [r \in Chosen |-> Cardinality(Before(r))]
  <1>1. Candidates \subseteq Rows /\ Chosen \subseteq Candidates
    BY DEF Candidates, Chosen
  <1>2. IsFiniteSet(Chosen) /\ Cardinality(Chosen) \in Nat /\ Chosen \subseteq Nat
    BY <1>1, RowsFinite, SweepAssumption
  <1>3. \A r \in Chosen :
          IsFiniteSet(Before(r)) /\ Cardinality(Before(r)) \in Nat
    <2> TAKE r \in Chosen
    <2>1. Before(r) \in SUBSET Rows
      BY <1>1
    <2> QED BY <2>1, RowsFinite
  <1>4. rank \in [Chosen -> 0 .. Batch - 1]
    <2>1. \A r \in Chosen : Cardinality(Before(r)) < Batch
      BY DEF Chosen
    <2>2. \A r \in Chosen : Cardinality(Before(r)) \in 0 .. Batch - 1
      BY <1>3, <2>1, SweepAssumption
    <2> QED BY <2>2
  <1>5. ASSUME NEW q \in Chosen, NEW r \in Chosen, q < r
        PROVE  rank[q] # rank[r]
    <2>1. Before(q) \cup {q} \subseteq Before(r) /\ q \notin Before(q)
      <3>1. q \in Nat /\ r \in Nat /\ q \in Candidates
        BY <1>1, <1>2
      <3>2. \A x \in Candidates : x < q => x < r
        BY <1>1, <1>5, <3>1, SweepAssumption
      <3>3. ~(q < q)
        BY <3>1
      <3>4. Before(q) \subseteq Before(r)
        BY <3>2
      <3>5. q \in Before(r)
        BY <1>5, <3>1
      <3> QED BY <3>3, <3>4, <3>5
    <2>2. Cardinality(Before(q) \cup {q}) = Cardinality(Before(q)) + 1
      BY <1>3, <2>1, FS_AddElement
    <2>3. Cardinality(Before(q) \cup {q}) <= Cardinality(Before(r))
      BY <1>3, <2>1, FS_Subset
    <2>4. Cardinality(Before(q)) < Cardinality(Before(r))
      BY <1>3, <2>2, <2>3
    <2> HIDE DEF Before
    <2> QED BY <1>3, <2>4
  <1>6. IsFiniteSet(0 .. Batch - 1) /\ Cardinality(0 .. Batch - 1) = Batch
    BY FS_Interval, SweepAssumption
  <1>7. ASSUME Batch < Cardinality(Chosen) PROVE FALSE
    <2> HIDE DEF rank
    <2>1. PICK q, r \in Chosen : q # r /\ rank[q] = rank[r]
      BY <1>2, <1>4, <1>6, <1>7, FS_PigeonHole
    <2>2. q < r \/ r < q
      BY <1>2, <2>1
    <2> QED BY <1>5, <2>1, <2>2
  <1> QED BY <1>2, <1>7, SweepAssumption

-----------------------------------------------------------------------------
(* SweepTypeOK is inductive once a sweeper between statements is known to  *)
(* hold nothing.                                                           *)

Between ==
  \A s \in Sweepers : sweep[s].pc # "deleting" => sweep[s].batch = {}

SweepInv == SweepTypeOK /\ Between /\ CountsAddUp

\* What a sweeper's statement may do to the locks: they stay in agreement
\* with the batches when the sweeper's own batch and its locks move together.
LEMMA LocksAgree ==
  ASSUME SweepTypeOK, NEW s \in Sweepers, NEW S \in SUBSET Rows,
         holder' \in [Rows -> Sweepers \cup Writers \cup {Nobody}],
         \A r \in Rows : holder'[r] = s <=> r \in S,
         \A r \in Rows : holder[r] \in Sweepers \ {s} => holder'[r] = holder[r],
         \A r \in Rows : holder'[r] \in Sweepers \ {s} => holder[r] = holder'[r],
         NEW p \in {"calling", "deleting", "resting"},
         sweep' = [sweep EXCEPT ![s] = [pc |-> p, batch |-> S]]
  PROVE  /\ sweep' \in [Sweepers -> [pc: {"calling", "deleting", "resting"},
                                     batch: SUBSET Rows]]
         /\ \A q \in Sweepers : sweep'[q].batch = {r \in Rows : holder'[r] = q}
         /\ sweep'[s].batch = S /\ sweep'[s].pc = p
         /\ \A q \in Sweepers \ {s} : sweep'[q] = sweep[q]
  <1>1. sweep \in [Sweepers -> [pc: {"calling", "deleting", "resting"},
                                batch: SUBSET Rows]]
    BY DEF SweepTypeOK
  <1>2. sweep' \in [Sweepers -> [pc: {"calling", "deleting", "resting"},
                                 batch: SUBSET Rows]]
    BY <1>1
  <1>3. /\ sweep'[s].batch = S /\ sweep'[s].pc = p
        /\ \A q \in Sweepers \ {s} : sweep'[q] = sweep[q]
    BY <1>1
  <1>4. ASSUME NEW q \in Sweepers
        PROVE  sweep'[q].batch = {r \in Rows : holder'[r] = q}
    <2>1. CASE q = s
      BY <1>3, <2>1
    <2>2. CASE q # s
      <3>1. sweep[q].batch = {r \in Rows : holder[r] = q}
        BY DEF SweepTypeOK
      <3>2. \A r \in Rows : holder[r] = q <=> holder'[r] = q
        BY <2>2
      <3> QED BY <1>3, <2>2, <3>1, <3>2
    <2> QED BY <2>1, <2>2
  <1> QED BY <1>2, <1>3, <1>4

\* Released touches the locks of the batch and nothing else.
LEMMA ReleasedLocks ==
  ASSUME SweepTypeOK, NEW S \in SUBSET Rows, holder' = Released(S)
  PROVE  /\ holder' \in [Rows -> Sweepers \cup Writers \cup {Nobody}]
         /\ \A r \in Rows : holder'[r] = IF r \in S THEN Nobody ELSE holder[r]
  BY DEF SweepTypeOK, Released

\* Select.
LEMMA SelectStep ==
  ASSUME SweepInv, NEW s \in Sweepers, Select(s)
  PROVE  SweepInv'
  <1>1. SweepTypeOK /\ sweep[s].batch = {}
    BY DEF SweepInv, Between, Select
  <1>2. Chosen \subseteq table \cap expired /\ Chosen \subseteq Rows
        /\ \A r \in Chosen : holder[r] = Nobody
    BY <1>1 DEF Chosen, Candidates, SweepTypeOK
  <1>3. \A r \in Rows : holder[r] # s
    BY <1>1 DEF SweepTypeOK
  <1>4. /\ holder' \in [Rows -> Sweepers \cup Writers \cup {Nobody}]
        /\ \A r \in Rows : holder'[r] = IF r \in Chosen THEN s ELSE holder[r]
    BY <1>1 DEF Select, SweepTypeOK
  <1>5. /\ \A r \in Rows : holder'[r] = s <=> r \in Chosen
        /\ \A r \in Rows : holder[r] \in Sweepers \ {s} => holder'[r] = holder[r]
        /\ \A r \in Rows : holder'[r] \in Sweepers \ {s} => holder[r] = holder'[r]
    BY <1>2, <1>3, <1>4, NobodyAssumption
  <1>6. /\ sweep' \in [Sweepers -> [pc: {"calling", "deleting", "resting"},
                                    batch: SUBSET Rows]]
        /\ \A q \in Sweepers : sweep'[q].batch = {r \in Rows : holder'[r] = q}
        /\ sweep'[s].batch = Chosen /\ sweep'[s].pc = "deleting"
        /\ \A q \in Sweepers \ {s} : sweep'[q] = sweep[q]
    BY <1>1, <1>2, <1>4, <1>5, LocksAgree DEF Select
  <1>7. Cardinality(Chosen) <= Batch
    BY <1>1, ChosenFits DEF SweepTypeOK
  <1>8. /\ table' = table /\ expired' = expired /\ writes' = writes
        /\ aborts' = aborts /\ reported' = reported
        /\ unreported' = unreported
    BY DEF Select, counts
  <1>9. \A q \in Sweepers : /\ sweep'[q].batch \subseteq table \cap expired
                            /\ Cardinality(sweep'[q].batch) <= Batch
    BY <1>1, <1>2, <1>6, <1>7 DEF SweepTypeOK
  <1>10. SweepTypeOK'
    BY <1>1, <1>4, <1>6, <1>8, <1>9 DEF SweepTypeOK
  <1>11. Between'
    BY <1>6 DEF SweepInv, Between
  <1>12. CountsAddUp'
    BY <1>8 DEF SweepInv, CountsAddUp
  <1> QED BY <1>10, <1>11, <1>12 DEF SweepInv

\* Ending a statement, committed or not, releases exactly its batch.
LEMMA EndStep ==
  ASSUME SweepInv, NEW s \in Sweepers, NEW p \in {"calling", "resting"},
         holder' = Released(sweep[s].batch),
         sweep' = [sweep EXCEPT ![s] = [pc |-> p, batch |-> {}]],
         table' = table \ sweep[s].batch \/ table' = table,
         expired' = expired, writes' = writes,
         aborts' \in 0 .. MaxAborts
  PROVE  SweepTypeOK' /\ Between'
  <1>1. /\ SweepTypeOK /\ sweep[s].batch \in SUBSET Rows
        /\ sweep[s].batch = {r \in Rows : holder[r] = s}
    BY DEF SweepInv, SweepTypeOK
  <1>2. /\ holder' \in [Rows -> Sweepers \cup Writers \cup {Nobody}]
        /\ \A r \in Rows :
             holder'[r] = IF r \in sweep[s].batch THEN Nobody ELSE holder[r]
    BY <1>1, ReleasedLocks
  <1>3. /\ \A r \in Rows : holder'[r] = s <=> r \in {}
        /\ \A r \in Rows : holder[r] \in Sweepers \ {s} => holder'[r] = holder[r]
        /\ \A r \in Rows : holder'[r] \in Sweepers \ {s} => holder[r] = holder'[r]
    BY <1>1, <1>2, NobodyAssumption
  <1>4. /\ sweep' \in [Sweepers -> [pc: {"calling", "deleting", "resting"},
                                    batch: SUBSET Rows]]
        /\ \A q \in Sweepers : sweep'[q].batch = {r \in Rows : holder'[r] = q}
        /\ sweep'[s].batch = {} /\ sweep'[s].pc = p
        /\ \A q \in Sweepers \ {s} : sweep'[q] = sweep[q]
    BY <1>1, <1>2, <1>3, LocksAgree
  <1>5. \A q \in Sweepers \ {s} :
          /\ sweep[q].batch \cap sweep[s].batch = {}
          /\ sweep[q].batch \subseteq table \cap expired
          /\ Cardinality(sweep[q].batch) <= Batch
    BY <1>1 DEF SweepTypeOK
  <1>6. Cardinality({}) = 0
    BY FS_EmptySet
  <1>7. \A q \in Sweepers : /\ sweep'[q].batch \subseteq table' \cap expired'
                            /\ Cardinality(sweep'[q].batch) <= Batch
    BY <1>4, <1>5, <1>6, SweepAssumption
  <1>8. SweepTypeOK'
    BY <1>1, <1>2, <1>4, <1>7 DEF SweepTypeOK
  <1>9. Between'
    BY <1>4 DEF SweepInv, Between
  <1> QED BY <1>8, <1>9

\* Finish: the rows of a batch go from the table to the count.
LEMMA FinishStep ==
  ASSUME SweepInv, NEW s \in Sweepers, Finish(s)
  PROVE  SweepInv'
  <1>1. /\ table \subseteq Rows /\ sweep[s].batch \subseteq table
        /\ aborts \in 0 .. MaxAborts
    BY DEF SweepInv, SweepTypeOK
  <1>2. PICK p \in {"calling", "resting"} :
          sweep' = [sweep EXCEPT ![s] = [pc |-> p, batch |-> {}]]
    BY DEF Finish
  <1>3. SweepTypeOK' /\ Between'
    BY <1>1, <1>2, EndStep DEF Finish
  <1> DEFINE Told == (Rows \ table) \ unreported
  <1>4. (Rows \ table') \ unreported' = Told \cup sweep[s].batch
    BY <1>1 DEF SweepInv, CountsAddUp, Finish
  <1>5. /\ IsFiniteSet(Told) /\ Cardinality(Told) \in Nat
        /\ IsFiniteSet(sweep[s].batch) /\ Cardinality(sweep[s].batch) \in Nat
    <2>1. Told \in SUBSET Rows /\ sweep[s].batch \in SUBSET Rows
      BY <1>1
    <2> HIDE DEF Told
    <2> QED BY <2>1, RowsFinite
  <1>6. Told \cap sweep[s].batch = {} /\ Cardinality({}) = 0
    BY <1>1, FS_EmptySet
  <1>7. Cardinality(Told \cup sweep[s].batch)
          = Cardinality(Told) + Cardinality(sweep[s].batch)
    <2> HIDE DEF Told
    <2>1. Cardinality(Told \cup sweep[s].batch)
            = Cardinality(Told) + Cardinality(sweep[s].batch)
                - Cardinality(Told \cap sweep[s].batch)
      BY <1>5, FS_Union
    <2>2. Cardinality(Told \cap sweep[s].batch) = 0
      BY <1>6
    <2> QED BY <1>5, <2>1, <2>2
  <1>8. CountsAddUp'
    <2>1. reported = Cardinality(Told)
      BY DEF SweepInv, CountsAddUp
    <2>2. unreported' \cap table' = {}
      BY DEF SweepInv, CountsAddUp, Finish
    <2>3. reported' = Cardinality(Told) + Cardinality(sweep[s].batch)
      BY <2>1 DEF Finish
    <2> QED BY <1>4, <1>7, <2>2, <2>3 DEF CountsAddUp
  <1> QED BY <1>3, <1>8 DEF SweepInv

\* Abort: the rows are unlocked and stay, or go without being reported.
LEMMA AbortStep ==
  ASSUME SweepInv, NEW s \in Sweepers, Abort(s)
  PROVE  SweepInv'
  <1>1. aborts' \in 0 .. MaxAborts
    BY SweepAssumption DEF SweepInv, SweepTypeOK, Abort
  <1>2. SweepTypeOK' /\ Between'
    BY <1>1, EndStep DEF Abort
  <1>3. sweep[s].batch \subseteq table
    BY DEF SweepInv, SweepTypeOK
  <1>4. /\ (Rows \ table') \ unreported' = (Rows \ table) \ unreported
        /\ unreported' \cap table' = {}
    BY <1>3 DEF SweepInv, CountsAddUp, Abort
  <1>5. CountsAddUp'
    BY <1>4 DEF SweepInv, CountsAddUp, Abort
  <1> QED BY <1>2, <1>5 DEF SweepInv

\* Resume: nothing is locked on the way into the next round.
LEMMA ResumeStep ==
  ASSUME SweepInv, NEW s \in Sweepers, Resume(s)
  PROVE  SweepInv'
  <1>1. sweep \in [Sweepers -> [pc: {"calling", "deleting", "resting"},
                                batch: SUBSET Rows]]
    BY DEF SweepInv, SweepTypeOK
  <1>2. /\ sweep' \in [Sweepers -> [pc: {"calling", "deleting", "resting"},
                                    batch: SUBSET Rows]]
        /\ \A q \in Sweepers : sweep'[q].batch = sweep[q].batch
        /\ \A q \in Sweepers : sweep'[q].pc = "deleting" => sweep[q].pc = "deleting"
        /\ sweep[s].batch = {}
        /\ \A q \in Sweepers \ {s} : sweep'[q] = sweep[q]
    BY <1>1 DEF Resume, SweepInv, Between
  <1>3. SweepTypeOK'
    BY <1>2 DEF SweepInv, SweepTypeOK, Resume, counts
  <1>4. Between'
    BY <1>2 DEF SweepInv, Between
  <1>5. CountsAddUp'
    BY DEF SweepInv, CountsAddUp, Resume, counts
  <1> QED BY <1>3, <1>4, <1>5 DEF SweepInv

\* Steps that are not a sweeper's leave what sweepers have locked alone.
LEMMA OtherStep ==
  ASSUME SweepInv, sweep' = sweep, table' = table, counts' = counts,
         aborts' = aborts, expired \subseteq expired', expired' \subseteq Rows,
         writes' \in 0 .. MaxWrites,
         holder' \in [Rows -> Sweepers \cup Writers \cup {Nobody}],
         \A r \in Rows : holder[r] \in Sweepers => holder'[r] = holder[r],
         \A r \in Rows : holder'[r] \in Sweepers => holder[r] = holder'[r]
  PROVE  SweepInv'
  <1>1. SweepTypeOK
    BY DEF SweepInv
  <1>2. ASSUME NEW s \in Sweepers
        PROVE  sweep[s].batch = {r \in Rows : holder'[r] = s}
    <2>1. \A r \in Rows : holder[r] = s <=> holder'[r] = s
      OBVIOUS
    <2>2. sweep[s].batch = {r \in Rows : holder[r] = s}
      BY <1>1 DEF SweepTypeOK
    <2> QED BY <2>1, <2>2
  <1>3. \A s \in Sweepers : /\ sweep[s].batch \subseteq table' \cap expired'
                            /\ Cardinality(sweep[s].batch) <= Batch
    BY <1>1 DEF SweepTypeOK
  <1>4. SweepTypeOK'
    BY <1>1, <1>2, <1>3 DEF SweepTypeOK
  <1> QED BY <1>4 DEF SweepInv, Between, CountsAddUp, counts

\* Every step keeps the invariant.
LEMMA SweepStep == SweepInv /\ [Next]_vars => SweepInv'
  <1> SUFFICES ASSUME SweepInv, [Next]_vars
               PROVE  SweepInv'
    OBVIOUS
  <1>1. SweepTypeOK
    BY DEF SweepInv
  <1>2. holder \in [Rows -> Sweepers \cup Writers \cup {Nobody}]
        /\ expired \subseteq Rows /\ writes \in 0 .. MaxWrites
    BY <1>1 DEF SweepTypeOK
  <1>3. ASSUME NEW r \in Rows, Expire(r) PROVE SweepInv'
    BY <1>2, <1>3, OtherStep DEF Expire
  <1>4. ASSUME NEW w \in Writers, NEW r \in Rows, WriteRow(w, r)
        PROVE  SweepInv'
    <2>1. writes' \in 0 .. MaxWrites
      BY <1>2, <1>4, SweepAssumption DEF WriteRow
    <2>2. /\ holder' \in [Rows -> Sweepers \cup Writers \cup {Nobody}]
          /\ holder'[r] = w /\ holder[r] = Nobody
          /\ \A q \in Rows \ {r} : holder'[q] = holder[q]
      BY <1>2, <1>4 DEF WriteRow
    <2>3. w \notin Sweepers /\ Nobody \notin Sweepers
      BY SweepAssumption, NobodyAssumption
    <2> QED BY <1>2, <1>4, <2>1, <2>2, <2>3, OtherStep DEF WriteRow
  <1>5. ASSUME NEW w \in Writers, WriteDone(w) PROVE SweepInv'
    <2>1. PICK S \in SUBSET Rows : S = {q \in Rows : holder[q] = w}
      OBVIOUS
    <2>2. /\ holder' \in [Rows -> Sweepers \cup Writers \cup {Nobody}]
          /\ \A r \in Rows : holder'[r] = IF r \in S THEN Nobody ELSE holder[r]
      BY <1>1, <1>5, <2>1, ReleasedLocks DEF WriteDone
    <2>3. w \notin Sweepers /\ Nobody \notin Sweepers
      BY SweepAssumption, NobodyAssumption
    <2> QED BY <1>2, <1>5, <2>1, <2>2, <2>3, OtherStep DEF WriteDone
  <1>6. CASE UNCHANGED vars
    BY <1>2, <1>6, OtherStep DEF vars
  <1> QED
    BY <1>3, <1>4, <1>5, <1>6, SelectStep, FinishStep, AbortStep, ResumeStep
    DEF Next, Statement

\* The sweep starts with nothing locked and nothing reported.
LEMMA SweepInit == Init => SweepInv
  <1> SUFFICES ASSUME Init PROVE SweepInv
    OBVIOUS
  <1>1. (Rows \ table) \ unreported = {} /\ Cardinality({}) = 0
    BY FS_EmptySet DEF Init
  <1>2. \A s \in Sweepers : sweep[s] = [pc |-> "calling", batch |-> {}]
    BY DEF Init
  <1>3. \A s \in Sweepers : {r \in Rows : holder[r] = s} = {}
    BY NobodyAssumption DEF Init
  <1>4. SweepTypeOK
    <2>1. /\ table \subseteq Rows /\ expired \subseteq Rows
          /\ holder \in [Rows -> Sweepers \cup Writers \cup {Nobody}]
          /\ sweep \in [Sweepers -> [pc: {"calling", "deleting", "resting"},
                                     batch: SUBSET Rows]]
      BY DEF Init
    <2>2. writes \in 0 .. MaxWrites /\ aborts \in 0 .. MaxAborts
      BY SweepAssumption DEF Init
    <2>3. ASSUME NEW s \in Sweepers
          PROVE  /\ sweep[s].batch = {r \in Rows : holder[r] = s}
                 /\ sweep[s].batch \subseteq table \cap expired
                 /\ Cardinality(sweep[s].batch) <= Batch
      <3>1. sweep[s].batch = {}
        BY <1>2
      <3> QED BY <1>1, <1>3, <3>1, SweepAssumption
    <2> QED BY <2>1, <2>2, <2>3 DEF SweepTypeOK
  <1> QED BY <1>1, <1>2, <1>4 DEF Init, SweepInv, Between, CountsAddUp

\* The invariant holds in every reachable state.
LEMMA SweepHolds == Spec => []SweepInv
  BY SweepInit, SweepStep, PTL DEF Spec

\* FOR UPDATE SKIP LOCKED, for any number of overlapping sweepers: what a
\* sweeper deletes is exactly what it has locked, past its expiry, still in
\* the table, and no more than a batch.
THEOREM LocksAreBatches == Spec => []SweepTypeOK
  <1>1. SweepInv => SweepTypeOK
    BY DEF SweepInv
  <1> QED BY <1>1, SweepHolds, PTL

\* DeleteExpired's counts: overlapping sweepers never count a row twice, a
\* statement that rolled back counts none, and what the calls report falls
\* short of the rows gone only by deletes whose reply was lost.
THEOREM CountsAreExact == Spec => []CountsAddUp
  <1>1. SweepInv => CountsAddUp
    BY DEF SweepInv
  <1> QED BY <1>1, SweepHolds, PTL

=============================================================================
