------------------------- MODULE AblationRunProofs -------------------------
(***************************************************************************)
(* Proofs, for every value of the constants, of the safety properties of   *)
(* AblationRun.  The inductive invariant is built in layers, each          *)
(* inductive relative to the ones before it:                               *)
(*                                                                         *)
(*   ControlInv   where the process is and what its loop variables hold    *)
(*   SampleInv    which slots are stored, against where the process is     *)
(*   VerdictInv   which verdicts are stored, against the loop              *)
(*   MoneyInv     the four sums of money                                   *)
(*   CapInv       how far the current comparison may exceed the cap        *)
(*   ChargeInv    the same of what the provider has charged                *)
(*   CountInv     the counters of samples                                  *)
(***************************************************************************)
EXTENDS AblationRun, FiniteSetTheorems, TLAPS

-----------------------------------------------------------------------------
(***************************************************************************)
(* Layer 1: types and control.                                             *)
(***************************************************************************)

\* The steps before the first clause; the loop variables are still at rest.
Opening == {"idle", "init", "warmup", "warmed", "repair"}

\* The steps between a response of the subject and its run_budget entry.
InHand == {"warmed", "insert", "ledger", "spend"}

ControlInv ==
    /\ pc \in InClause =>
         /\ clause \in Clauses
         /\ issued < NMax
         /\ recorded \subseteq RecordedIn(clause)
    /\ pc \in {"clause", "refuse", "advance"} => clause \in Clauses
    /\ pc \in {"gate", "judge"} => cond = Full
    /\ pc \in Opening => clause = 1
    /\ pc \notin InHand => pending = 0

Inv1 == TypeOK /\ ControlInv

(***************************************************************************)
(* Layer 2: samples.  A slot that is stored and not in resume's snapshot   *)
(* is one the process itself has gone past.                                *)
(***************************************************************************)
GonePast(s) ==
    \/ s[1] < clause
    \/ /\ s[1] = clause
       /\ pc \in InClause \cup {"advance"}
       /\ \/ s[3] < issued
          \/ /\ s[3] = issued
             /\ \/ pc \in InClause /\ s[2] < cond
                \/ pc = "judge"
                \/ pc \in {"ledger", "spend"} /\ s[2] = cond

\* The conditions of the current comparison that were handled are stored.
HandledStored ==
    /\ pc \in {"sample", "insert", "ledger", "spend"} =>
         \A k \in Conditions : k < cond => Slot(clause, k, issued) \in samples
    /\ pc \in {"ledger", "spend"} => NextSlot \in samples
    /\ pc = "judge" => Comparison(clause, issued) \subseteq samples

\* Nothing is stored before InitRuntime.
Fresh ==
    /\ runRow = "absent" => progress = "absent" /\ pc = "idle"
    /\ progress = "absent" =>
         /\ pc \in {"idle", "init"}
         /\ samples = {} /\ evidenceUsd = 0 /\ ledgerUsd = 0
         /\ budgetUsd = 0 /\ billedUsd = 0
    /\ pc = "init" => progress = "absent"
    /\ pc \in {"init", "warmup", "warmed"} => samples = {} /\ evidenceUsd = 0

SampleInv ==
    /\ Fresh
    /\ existing \subseteq samples
    /\ pc \notin {"idle", "abort"} => \A s \in samples \ existing : GonePast(s)
    /\ pc \in {"insert", "ledger", "spend"} => NextSlot \notin existing
    /\ HandledStored

Inv2 == Inv1 /\ SampleInv

(***************************************************************************)
(* Layer 3: verdicts.  The loop is either replaying the verdicts that were *)
(* there when the clause was entered, or at the end of the stored ones.    *)
(***************************************************************************)
VerdictInv ==
    /\ VerdictsInOrder
    /\ VerdictsHaveSamples
    /\ pc \in InClause =>
         \/ /\ issued <= Len(verdicts[clause])
            /\ recorded = 0..Len(verdicts[clause]) - 1
         \/ /\ issued = Len(verdicts[clause])
            /\ recorded \subseteq 0..Len(verdicts[clause]) - 1

Inv3 == Inv2 /\ VerdictInv

(***************************************************************************)
(* Layer 4: money.                                                         *)
(***************************************************************************)
MoneyInv ==
    /\ pc \notin {"idle", "repair", "ledger", "spend"} => evidenceUsd <= budgetUsd
    /\ pc \in {"ledger", "spend"} => evidenceUsd <= budgetUsd + pending
    /\ pc = "repair" => budgetUsd < evidenceUsd
    /\ billedUsd <= budgetUsd + pending + faults * MaxCallCost
    /\ ledgerUsd <= evidenceUsd
    /\ pc = "ledger" => ledgerUsd + pending <= evidenceUsd

Inv4 == Inv2 /\ MoneyInv

(***************************************************************************)
(* Layer 5: the cap.  Once the gate has let a comparison pass, each of its *)
(* calls may add one MaxCallCost to what the gate saw.                     *)
(***************************************************************************)
Allowance(calls) ==
    IF calls = 0 THEN 0
    ELSE IF calls = 1 THEN MaxCallCost
    ELSE IF calls = 2 THEN 2 * MaxCallCost
    ELSE 3 * MaxCallCost

CapInv ==
    /\ cap <= highCap
    /\ EvidenceWithinCap
    /\ pc \in {"sample", "insert", "ledger", "spend"} =>
         \/ Comparison(clause, issued) \subseteq existing
         \/ evidenceUsd + 3 * Projected <= highCap +
              (IF pc \in {"ledger", "spend"} THEN Allowance(cond)
                                             ELSE Allowance(cond - 1))

Inv5 == Inv4 /\ CapInv

(***************************************************************************)
(* The provider's charges, bounded in the same way.  They run ahead of     *)
(* what the gate sees by the response in hand and by what the faults hid.  *)
(***************************************************************************)
FaultCost == faults * MaxCallCost

\* What was charged passes the largest cap by at most the error of the gate's
\* estimate of one comparison and one call per fault.
ChargesWithinCap ==
    billedUsd > MaxCallCost =>
        billedUsd + 3 * Projected <= highCap + 3 * MaxCallCost + FaultCost

ChargeInv ==
    /\ ChargesWithinCap
    /\ pc \in {"init", "warmup"} => billedUsd = 0
    /\ evidenceUsd + warmupUsd
         + (IF pc \in {"warmed", "insert"} THEN pending ELSE 0) <= billedUsd
    /\ pc \in {"sample", "insert", "ledger", "spend"} =>
         \/ Comparison(clause, issued) \subseteq existing
         \/ billedUsd + 3 * Projected <= highCap + FaultCost +
              (IF pc = "sample" THEN Allowance(cond - 1) ELSE Allowance(cond))

ChargesInv == Inv5 /\ ChargeInv

(***************************************************************************)
(* The counters of samples, against the number of stored samples.          *)
(***************************************************************************)
CountInv ==
    /\ SamplesAccounted
    /\ progress = "completed" => pc \in {"idle", "reconcile"}
    /\ reported <= collected
    /\ pc = "idle" => collected = 0
    /\ pc \in {"ledger", "spend"} => collected + 1 = Cardinality(samples)
    /\ pc \notin {"idle", "ledger", "spend"} => collected = Cardinality(samples)

Inv6 == Inv2 /\ CountInv
-----------------------------------------------------------------------------
(***************************************************************************)
(* Lemmas about the operators of Stopping.                                 *)
(***************************************************************************)

\* next_check_at() returns a number of comparisons.
LEMMA NextCheckAtType ==
    ASSUME NEW n \in Nat
    PROVE  NextCheckAt(n) \in Nat
<1>1. NInc \in Nat \ {0} /\ NMin \in Nat /\ NMax \in Nat
  BY ScheduleAssumption
<1>2. n \div NInc \in Nat
  BY <1>1
<1>3. ((n \div NInc) + 1) * NInc \in Nat
  BY <1>1, <1>2
<1> QED
  BY <1>1, <1>3 DEF NextCheckAt, AtMost

\* add() and check_stop() keep the counters counters.
LEMMA AddType ==
    ASSUME NEW t \in Tallies, NEW obs \in Observations
    PROVE  Add(t, obs) \in Tallies
BY DEF Tallies, Add, Observations

\* The next check, moved or not, is a number of comparisons.
LEMMA NextCheckType ==
    ASSUME NEW t \in Tallies, NEW i \in Nat, NEW k \in Nat
    PROVE  NextCheck(t, i, k) \in Nat
<1>1. Total(t) \in Nat
  BY DEF Total, Tallies
<1> QED
  BY <1>1, NextCheckAtType DEF NextCheck

\* The loop never goes on once the issued comparisons are used up (MAJOR-4).
LEMMA LoopCapped ==
    ASSUME NEW t \in Tallies, NEW i \in Nat, NEW k \in Nat, LoopGoesOn(t, i, k)
    PROVE  i < NMax
BY DEF LoopGoesOn, BelowTarget

-----------------------------------------------------------------------------
(***************************************************************************)
(* Layer 1                                                                 *)
(***************************************************************************)

\* The table of samples is bounded by its UNIQUE constraint.
LEMMA SamplesFinite ==
    ASSUME NEW S \in SUBSET Slots
    PROVE  IsFiniteSet(S) /\ Cardinality(S) \in Nat
<1> DEFINE Pairs == (Clauses \X Conditions) \X (0..NMax - 1)
           f == [p \in Pairs |-> <<p[1][1], p[1][2], p[2]>>]
<1>1. NClauses \in Int /\ NMax - 1 \in Int /\ 0 \in Int /\ 1 \in Int /\ 3 \in Int
  BY ScheduleAssumption, RunAssumption
<1>2. IsFiniteSet(Clauses) /\ IsFiniteSet(Conditions) /\ IsFiniteSet(0..NMax - 1)
  BY <1>1, FS_Interval DEF Clauses, Conditions, Full, Null
<1>3. IsFiniteSet(Pairs)
  BY <1>2, FS_Product
<1>4. f \in Surjection(Pairs, Slots)
  <2>1. f \in [Pairs -> Slots]
    BY DEF Slots
  <2>2. ASSUME NEW s \in Slots PROVE \E p \in Pairs : f[p] = s
    <3>1. <<<<s[1], s[2]>>, s[3]>> \in Pairs
      BY DEF Slots
    <3>2. f[<<<<s[1], s[2]>>, s[3]>>] = s
      BY <3>1 DEF Slots
    <3> QED
      BY <3>1, <3>2
  <2> QED
    BY <2>1, <2>2 DEF Surjection
<1>5. IsFiniteSet(Slots)
  BY <1>3, <1>4, FS_Surjection
<1> QED
  BY <1>5, FS_Subset, FS_CardinalityType

\* _existing_verdict_keys() returns sample indexes.
LEMMA RecordedType ==
    ASSUME TypeOK, NEW c \in Clauses
    PROVE  RecordedIn(c) \subseteq 0..NMax - 1
<1>1. verdicts[c] \in Seq(VerdictRows)
  BY DEF TypeOK
<1>2. \A k \in DOMAIN verdicts[c] : verdicts[c][k] \in VerdictRows
  BY <1>1
<1> QED
  BY <1>2 DEF RecordedIn, VerdictRows

\* The row replayed for a recorded comparison is one of the stored rows.
LEMMA PersistedRowType ==
    ASSUME TypeOK, NEW c \in Clauses, NEW i \in RecordedIn(c)
    PROVE  PersistedRow(c, i) \in VerdictRows
<1>1. verdicts[c] \in Seq(VerdictRows)
  BY DEF TypeOK
<1>2. \E k \in DOMAIN verdicts[c] : verdicts[c][k].idx = i
  BY DEF RecordedIn
<1> QED
  BY <1>1, <1>2 DEF PersistedRow

\* Absorbing a row keeps the tally a tally.
LEMMA AbsorbType ==
    ASSUME tally \in Tallies, NEW row \in VerdictRows
    PROVE  Absorb(row) \in Tallies
BY AddType DEF Absorb, VerdictRows

\* The end of a comparison: the loop variables keep their types, and the gate
\* is reached only with comparisons left.
LEMMA EndComparisonType ==
    ASSUME TypeOK, issued < NMax, NEW t \in Tallies, EndComparison(t)
    PROVE  /\ tally' \in Tallies
           /\ issued' \in 0..NMax
           /\ issued' = issued + 1
           /\ check' \in Nat
           /\ pc' \in {"gate", "advance"}
           /\ pc' = "gate" => issued' < NMax
<1>1. issued \in Nat /\ check \in Nat /\ NMax \in Nat
  BY ScheduleAssumption DEF TypeOK
<1>2. issued + 1 \in 0..NMax
  BY <1>1
<1>3. NextCheck(t, issued + 1, check) \in Nat
  BY <1>1, <1>2, NextCheckType
<1>4. LoopGoesOn(t, issued + 1, check) => issued + 1 < NMax
  BY <1>1, <1>2, LoopCapped
<1> QED
  BY <1>2, <1>3, <1>4 DEF EndComparison, Goto

\* A run that has not started has its types and its place.
LEMMA InitInv1 == Init => Inv1
<1> SUFFICES ASSUME Init PROVE Inv1
  OBVIOUS
<1> USE ScheduleAssumption, RunAssumption
    DEF Init, IdleProcess, Clauses, Conditions, Full, Ablated, Null
<1>1. verdicts \in [Clauses -> Seq(VerdictRows)]
  OBVIOUS
<1>2. EmptyTally \in Tallies /\ NMin \in Nat /\ 0 \in 0..MaxCallCost /\ 0 \in 0..MaxFaults
  BY DEF EmptyTally, Tallies
<1>3. TypeOK
  <2>1. /\ samples \subseteq Slots /\ outcomes \subseteq Clauses
        /\ existing \subseteq Slots /\ recorded \subseteq 0..NMax - 1
    OBVIOUS
  <2>2. /\ pc \in Steps /\ runRow \in {"absent", "open", "completed"}
        /\ progress \in {"absent", "running", "completed", "aborted_budget"}
        /\ abortedAt \in BOOLEAN
    BY DEF Steps
  <2>3. clause \in 1..NClauses + 1 /\ issued \in 0..NMax /\ cond \in Conditions
    OBVIOUS
  <2> QED
    BY <1>1, <1>2, <2>1, <2>2, <2>3 DEF TypeOK
<1>4. ControlInv
  BY DEF ControlInv, InClause, Opening, InHand
<1> QED
  BY <1>3, <1>4 DEF Inv1

\* Every step of the process, the operator or a fault keeps types and place.
LEMMA NextInv1 == Inv1 /\ [Next]_vars => Inv1'
<1> SUFFICES ASSUME Inv1, [Next]_vars PROVE Inv1'
  OBVIOUS
<1> USE ScheduleAssumption, RunAssumption
    DEF Inv1, TypeOK, ControlInv, Clauses, Conditions, Full, Ablated, Null,
        Steps, InClause, Opening, InHand, evidence, runtime, process, attempt,
        loop, counts, observers, Goto
<1>1. CASE StartRun
  BY <1>1 DEF StartRun
<1>2. CASE InitRuntime
  BY <1>2 DEF InitRuntime
<1>3. CASE Warmup
  BY <1>3 DEF Warmup
<1>4. CASE WarmupSpend
  BY <1>4 DEF WarmupSpend
<1>5. CASE Resume
  BY <1>5, SamplesFinite DEF Resume, Snapshot, EvidenceCount
<1>6. CASE RepairBudget
  BY <1>6 DEF RepairBudget
<1>7. CASE EnterClause
  <2>1. RecordedIn(clause) \subseteq 0..NMax - 1
    BY <1>7, RecordedType DEF EnterClause
  <2>2. RecordedIn(clause)' = RecordedIn(clause)
    BY <1>7 DEF EnterClause, RecordedIn
  <2>3. EmptyTally \in Tallies
    BY DEF EmptyTally, Tallies
  <2> QED
    BY <1>7, <2>1, <2>2, <2>3 DEF EnterClause
<1>8. CASE RefuseClause
  BY <1>8 DEF RefuseClause
<1>9. CASE PassGate
  BY <1>9 DEF PassGate, RecordedIn
<1>10. CASE CloseGate
  BY <1>10 DEF CloseGate
<1>11. CASE BudgetAbort
  BY <1>11 DEF BudgetAbort, Forget, EmptyTally, Tallies
<1>12. CASE LoadSample
  BY <1>12 DEF LoadSample, NextCondition, RecordedIn
<1>13. CASE CallSubject
  BY <1>13 DEF CallSubject, RecordedIn
<1>14. CASE CallFails
  BY <1>14 DEF CallFails, Forget, EmptyTally, Tallies
<1>15. CASE InsertSample
  <2>1. NextSlot \in Slots
    BY <1>15 DEF InsertSample, NextSlot, Slot, Slots
  <2>2. evidenceUsd + pending \in Nat
    OBVIOUS
  <2> QED
    BY <1>15, <2>1, <2>2 DEF InsertSample, RecordedIn
<1>16. CASE WriteLedger
  BY <1>16 DEF WriteLedger, RecordedIn
<1>17. CASE UpdateSpend
  BY <1>17 DEF UpdateSpend, NextCondition, RecordedIn
<1>18. CASE RecordVerdict
  <2> PICK row \in ScorableRows :
        /\ verdicts' = [verdicts EXCEPT ![clause] = Append(@, row)]
        /\ EndComparison(Absorb(row))
    BY <1>18 DEF RecordVerdict
  <2>1. pc = "judge" /\ clause \in Clauses /\ issued < NMax /\ issued \in 0..NMax - 1
    BY <1>18 DEF RecordVerdict
  <2>2. row \in VerdictRows
    <3>1. (nulls >= NullFloor) \in BOOLEAN
      OBVIOUS
    <3>2. {issued} \subseteq 0..NMax - 1
      BY <2>1
    <3> QED
      BY <3>1, <3>2, Zenon DEF ScorableRows, VerdictRows
  <2>3. Absorb(row) \in Tallies
    BY <2>2, AbsorbType
  <2>4. /\ tally' \in Tallies /\ issued' \in 0..NMax /\ check' \in Nat
        /\ pc' \in {"gate", "advance"} /\ (pc' = "gate" => issued' < NMax)
    BY <2>1, <2>3, EndComparisonType
  <2>5. verdicts' \in [Clauses -> Seq(VerdictRows)]
    BY <2>1, <2>2
  <2>6. recorded \subseteq RecordedIn(clause)'
    <3> SUFFICES ASSUME NEW i \in recorded PROVE i \in RecordedIn(clause)'
      OBVIOUS
    <3>1. PICK k \in DOMAIN verdicts[clause] : verdicts[clause][k].idx = i
      BY <2>1 DEF RecordedIn
    <3>2. verdicts[clause] \in Seq(VerdictRows)
      BY <2>1
    <3>3. k \in DOMAIN verdicts'[clause] /\ verdicts'[clause][k].idx = i
      BY <3>1, <3>2, <2>1, <2>2
    <3>4. clause' = clause
      BY <1>18 DEF RecordVerdict
    <3> QED
      BY <3>3, <3>4 DEF RecordedIn
  <2> QED
    BY <1>18, <2>1, <2>4, <2>5, <2>6 DEF RecordVerdict
<1>19. CASE ReplayVerdict
  <2>1. pc = "judge" /\ clause \in Clauses /\ issued < NMax
        /\ issued \in RecordedIn(clause)
    BY <1>19 DEF ReplayVerdict
  <2>2. Absorb(PersistedRow(clause, issued)) \in Tallies
    BY <2>1, PersistedRowType, AbsorbType
  <2>3. /\ tally' \in Tallies /\ issued' \in 0..NMax /\ check' \in Nat
        /\ pc' \in {"gate", "advance"} /\ (pc' = "gate" => issued' < NMax)
    BY <1>19, <2>1, <2>2, EndComparisonType DEF ReplayVerdict
  <2>4. RecordedIn(clause)' = RecordedIn(clause)
    BY <1>19 DEF ReplayVerdict, RecordedIn
  <2> QED
    BY <1>19, <2>1, <2>3, <2>4 DEF ReplayVerdict
<1>20. CASE AdvanceClause
  BY <1>20 DEF AdvanceClause
<1>21. CASE StampCompleted
  BY <1>21 DEF StampCompleted
<1>22. CASE StampRefused
  BY <1>22 DEF StampRefused, Forget, EmptyTally, Tallies
<1>23. CASE FinishProgress
  BY <1>23 DEF FinishProgress
<1>24. CASE Reconcile
  BY <1>24 DEF Reconcile, Forget, EmptyTally, Tallies
<1>25. CASE Crash
  BY <1>25 DEF Crash, Forget, EmptyTally, Tallies
<1>26. CASE Rest
  BY <1>26 DEF Rest, vars
<1>27. CASE UNCHANGED vars
  BY <1>27 DEF vars, RecordedIn
<1> QED
  BY <1>1, <1>2, <1>3, <1>4, <1>5, <1>6, <1>7, <1>8, <1>9, <1>10, <1>11,
     <1>12, <1>13, <1>14, <1>15, <1>16, <1>17, <1>18, <1>19, <1>20, <1>21,
     <1>22, <1>23, <1>24, <1>25, <1>26, <1>27 DEF Next, Runner

\* The whole state keeps its types, the process its control invariant.
THEOREM TypeCorrect == Spec => []TypeOK
<1>1. Spec => []Inv1
  BY InitInv1, NextInv1, PTL DEF Spec
<1>2. Inv1 => TypeOK
  BY DEF Inv1
<1> QED
  BY <1>1, <1>2, PTL

-----------------------------------------------------------------------------
(***************************************************************************)
(* Layer 2                                                                 *)
(***************************************************************************)

\* Nothing is stored before the run starts.
LEMMA InitInv2 == Init => Inv2
BY InitInv1
   DEF Init, IdleProcess, Inv2, SampleInv, Fresh, HandledStored

\* The three conditions make up the comparison.
LEMMA WholeComparison ==
    ASSUME cond = Null, NextSlot \in samples,
           \A k \in Conditions : k < cond => Slot(clause, k, issued) \in samples
    PROVE  Comparison(clause, issued) \subseteq samples
<1> SUFFICES ASSUME NEW k \in Conditions PROVE Slot(clause, k, issued) \in samples
  BY DEF Comparison
<1>1. k < Null \/ k = Null
  BY DEF Conditions, Full, Null
<1> QED
  BY <1>1 DEF NextSlot

\* A stored condition extends the stored part of the comparison.
LEMMA OneMoreStored ==
    ASSUME cond \in Int, NextSlot \in samples,
           \A k \in Conditions : k < cond => Slot(clause, k, issued) \in samples
    PROVE  \A k \in Conditions : k < cond + 1 => Slot(clause, k, issued) \in samples
<1> SUFFICES ASSUME NEW k \in Conditions, k < cond + 1
             PROVE  Slot(clause, k, issued) \in samples
  OBVIOUS
<1>1. k < cond \/ k = cond
  BY DEF Conditions, Full, Null
<1> QED
  BY <1>1 DEF NextSlot

\* Every step keeps the stored slots behind the place of the process.
LEMMA NextInv2 == Inv2 /\ [Next]_vars => Inv2'
<1> SUFFICES ASSUME Inv2, [Next]_vars PROVE SampleInv'
  BY NextInv1 DEF Inv2
<1> USE ScheduleAssumption, RunAssumption
    DEF Inv2, Inv1, TypeOK, ControlInv, SampleInv, Fresh, HandledStored, GonePast,
        Clauses, Conditions, Full, Ablated, Null, Slots,
        Steps, InClause, Opening, InHand, evidence, runtime, process, attempt,
        loop, counts, observers, Goto
<1>1. CASE StartRun
  BY <1>1 DEF StartRun
<1>2. CASE InitRuntime
  BY <1>2 DEF InitRuntime
<1>3. CASE Warmup
  BY <1>3 DEF Warmup
<1>4. CASE WarmupSpend
  BY <1>4 DEF WarmupSpend
<1>5. CASE Resume
  BY <1>5 DEF Resume, Snapshot, Resumable
<1>6. CASE RepairBudget
  BY <1>6 DEF RepairBudget
<1>7. CASE EnterClause
  BY <1>7 DEF EnterClause
<1>8. CASE RefuseClause
  BY <1>8 DEF RefuseClause
<1>9. CASE PassGate
  BY <1>9 DEF PassGate, Slot
<1>10. CASE CloseGate
  BY <1>10 DEF CloseGate
<1>11. CASE BudgetAbort
  BY <1>11 DEF BudgetAbort, Forget
<1>12. CASE LoadSample
  <2>1. NextSlot \in samples /\ pc = "sample"
    BY <1>12 DEF LoadSample
  <2>2. CASE cond = Null
    <3>1. Comparison(clause, issued) \subseteq samples
      BY <2>1, <2>2, WholeComparison
    <3>2. Comparison(clause, issued)' = Comparison(clause, issued)
      BY <1>12 DEF LoadSample, Comparison, Slot
    <3> QED
      BY <1>12, <2>1, <2>2, <3>1, <3>2 DEF LoadSample, NextCondition, Slot
  <2>3. CASE cond # Null
    <3>1. /\ pc' = "sample" /\ cond' = cond + 1
          /\ UNCHANGED <<samples, existing, clause, issued>>
          /\ UNCHANGED <<runRow, progress, evidenceUsd, ledgerUsd>>
      BY <1>12, <2>3 DEF LoadSample, NextCondition
    <3>2. \A k \in Conditions : k < cond + 1 => Slot(clause, k, issued) \in samples
      BY <2>1, OneMoreStored
    <3>3. \A k \in Conditions : k < cond' => Slot(clause, k, issued)' \in samples'
      BY <3>1, <3>2 DEF Slot
    <3>4. \A s \in samples \ existing : s[2] \in Int
      OBVIOUS
    <3>5. \A s \in samples \ existing : GonePast(s)'
      BY <2>1, <3>1, <3>4
    <3> QED
      BY <2>1, <3>1, <3>3, <3>5
  <2> QED
    BY <2>2, <2>3
<1>13. CASE CallSubject
  BY <1>13 DEF CallSubject, NextSlot
<1>14. CASE CallFails
  BY <1>14 DEF CallFails, Forget, NextSlot
<1>15. CASE InsertSample
  BY <1>15 DEF InsertSample, NextSlot, Slot
<1>16. CASE WriteLedger
  BY <1>16 DEF WriteLedger, NextSlot
<1>17. CASE UpdateSpend
  <2>1. NextSlot \in samples /\ pc = "spend"
    BY <1>17 DEF UpdateSpend
  <2>2. CASE cond = Null
    <3>1. Comparison(clause, issued) \subseteq samples
      BY <2>1, <2>2, WholeComparison
    <3>2. Comparison(clause, issued)' = Comparison(clause, issued)
      BY <1>17 DEF UpdateSpend, Comparison, Slot
    <3> QED
      BY <1>17, <2>1, <2>2, <3>1, <3>2 DEF UpdateSpend, NextCondition, NextSlot, Slot
  <2>3. CASE cond # Null
    <3>1. /\ pc' = "sample" /\ cond' = cond + 1
          /\ UNCHANGED <<samples, existing, clause, issued>>
          /\ UNCHANGED <<runRow, progress, evidenceUsd, ledgerUsd>>
      BY <1>17, <2>3 DEF UpdateSpend, NextCondition
    <3>2. \A k \in Conditions : k < cond + 1 => Slot(clause, k, issued) \in samples
      BY <2>1, OneMoreStored
    <3>3. \A k \in Conditions : k < cond' => Slot(clause, k, issued)' \in samples'
      BY <3>1, <3>2 DEF Slot
    <3>4. \A s \in samples \ existing : s[2] \in Int
      OBVIOUS
    <3>5. \A s \in samples \ existing : GonePast(s)'
      BY <2>1, <3>1, <3>4
    <3> QED
      BY <2>1, <3>1, <3>3, <3>5
  <2> QED
    BY <2>2, <2>3
<1>18. CASE RecordVerdict
  <2>1. /\ pc = "judge" /\ pc' \in {"gate", "advance"}
        /\ issued' = issued + 1 /\ UNCHANGED <<samples, existing, clause, cond>>
        /\ UNCHANGED <<runRow, progress, evidenceUsd, ledgerUsd, budgetUsd, billedUsd>>
    BY <1>18 DEF RecordVerdict, EndComparison
  <2>2. \A s \in samples \ existing : s[3] \in Int
    OBVIOUS
  <2>3. ASSUME NEW s \in samples \ existing PROVE GonePast(s)'
    <3>1. GonePast(s) /\ s[3] \in Int /\ issued \in Int
      BY <2>1, <2>2
    <3>2. s[1] < clause \/ (s[1] = clause /\ s[3] <= issued)
      BY <3>1
    <3>3. s[3] <= issued => s[3] < issued + 1
      BY <3>1
    <3> QED
      BY <2>1, <3>2, <3>3
  <2> QED
    BY <2>1, <2>3
<1>19. CASE ReplayVerdict
  BY <1>19 DEF ReplayVerdict, EndComparison
<1>20. CASE AdvanceClause
  <2>1. /\ pc = "advance" /\ pc' \in {"complete", "clause"}
        /\ clause' = clause + 1 /\ UNCHANGED <<samples, existing>>
    BY <1>20 DEF AdvanceClause
  <2>2. \A s \in samples \ existing : s[1] \in Int
    OBVIOUS
  <2>3. \A s \in samples \ existing : GonePast(s)'
    BY <2>1, <2>2
  <2> QED
    BY <1>20, <2>1, <2>3 DEF AdvanceClause
<1>21. CASE StampCompleted
  BY <1>21 DEF StampCompleted
<1>22. CASE StampRefused
  BY <1>22 DEF StampRefused, Forget
<1>23. CASE FinishProgress
  BY <1>23 DEF FinishProgress
<1>24. CASE Reconcile
  BY <1>24 DEF Reconcile, Forget
<1>25. CASE Crash
  BY <1>25 DEF Crash, Forget
<1>26. CASE Rest
  BY <1>26 DEF Rest, vars
<1>27. CASE UNCHANGED vars
  BY <1>27 DEF vars, NextSlot, Slot, Comparison
<1> QED
  BY <1>1, <1>2, <1>3, <1>4, <1>5, <1>6, <1>7, <1>8, <1>9, <1>10, <1>11,
     <1>12, <1>13, <1>14, <1>15, <1>16, <1>17, <1>18, <1>19, <1>20, <1>21,
     <1>22, <1>23, <1>24, <1>25, <1>26, <1>27 DEF Next, Runner

-----------------------------------------------------------------------------
(***************************************************************************)
(* Layer 3                                                                 *)
(***************************************************************************)

\* A step that leaves the verdicts and the loop's place in them alone.
VerdictFrame ==
    /\ UNCHANGED verdicts
    /\ samples \subseteq samples'
    /\ pc' \in InClause =>
         pc \in InClause /\ UNCHANGED <<clause, issued, recorded>>

\* A step that touches neither the verdicts nor the loop keeps their relation.
LEMMA FrameVerdictInv == VerdictInv /\ VerdictFrame => VerdictInv'
<1> SUFFICES ASSUME VerdictInv, VerdictFrame PROVE VerdictInv'
  OBVIOUS
<1>1. VerdictsInOrder'
  BY DEF VerdictInv, VerdictsInOrder, VerdictFrame
<1>2. VerdictsHaveSamples'
  BY DEF VerdictInv, VerdictsHaveSamples, VerdictFrame, Comparison, Slot
<1> QED
  BY <1>1, <1>2 DEF VerdictInv, VerdictFrame

\* No verdict is stored before the run starts.
LEMMA InitInv3 == Init => Inv3
BY InitInv2
   DEF Init, IdleProcess, Inv3, VerdictInv, VerdictsInOrder, VerdictsHaveSamples,
       InClause

\* With the verdicts in order, the recorded indexes are those below their number.
LEMMA RecordedInOrder ==
    ASSUME TypeOK, VerdictsInOrder, NEW c \in Clauses
    PROVE  RecordedIn(c) = 0..Len(verdicts[c]) - 1
<1>1. verdicts[c] \in Seq(VerdictRows)
  BY DEF TypeOK
<1>2. RecordedIn(c) = {k - 1 : k \in 1..Len(verdicts[c])}
  BY <1>1 DEF RecordedIn, VerdictsInOrder
<1>3. Len(verdicts[c]) \in Nat
  BY <1>1
<1>4. ASSUME NEW i \in 0..Len(verdicts[c]) - 1
      PROVE  i \in {k - 1 : k \in 1..Len(verdicts[c])}
  <2>1. i + 1 \in 1..Len(verdicts[c]) /\ i = (i + 1) - 1
    BY <1>3
  <2> QED
    BY <2>1
<1>5. \A k \in 1..Len(verdicts[c]) : k - 1 \in 0..Len(verdicts[c]) - 1
  BY <1>3
<1> QED
  BY <1>2, <1>4, <1>5

\* Every step keeps the verdicts in order, grounded and level with the loop.
LEMMA NextInv3 == Inv3 /\ [Next]_vars => Inv3'
<1> SUFFICES ASSUME Inv3, [Next]_vars PROVE VerdictInv'
  BY NextInv2 DEF Inv3
<1> USE DEF evidence, runtime, process, attempt, loop, counts, observers, Goto
<1>1. TypeOK /\ TypeOK' /\ VerdictInv /\ VerdictsInOrder /\ VerdictsHaveSamples
  BY NextInv2 DEF Inv3, Inv2, Inv1, VerdictInv
<1>2. CASE EnterClause
  <2>1. /\ pc' \in {"gate", "refuse"} /\ UNCHANGED <<verdicts, samples, clause>>
        /\ issued' = 0 /\ recorded' = RecordedIn(clause) /\ clause \in Clauses
    BY <1>2 DEF EnterClause
  <2>2. verdicts[clause] \in Seq(VerdictRows)
    BY <1>1, <2>1 DEF TypeOK
  <2>3. recorded' = 0..Len(verdicts[clause]) - 1 /\ issued' <= Len(verdicts[clause])
    BY <1>1, <2>1, <2>2, RecordedInOrder
  <2>4. VerdictsInOrder' /\ VerdictsHaveSamples'
    BY <1>1, <2>1 DEF VerdictsInOrder, VerdictsHaveSamples, Comparison, Slot
  <2> QED
    BY <2>1, <2>3, <2>4 DEF VerdictInv
<1>3. CASE RecordVerdict
  <2> PICK row \in ScorableRows :
        /\ verdicts' = [verdicts EXCEPT ![clause] = Append(@, row)]
        /\ EndComparison(Absorb(row))
    BY <1>3 DEF RecordVerdict
  <2>1. /\ pc = "judge" /\ issued \notin recorded /\ issued' = issued + 1
        /\ UNCHANGED <<samples, clause, recorded>>
    BY <1>3 DEF RecordVerdict, EndComparison
  <2>2. clause \in Clauses /\ issued \in Nat
    BY <2>1 DEF Inv3, Inv2, Inv1, ControlInv, TypeOK, InClause
  <2>3. row.idx = issued
    BY DEF ScorableRows
  <2> DEFINE seq == verdicts[clause]
  <2>4. seq \in Seq(VerdictRows) /\ Len(seq) \in Nat
    BY <1>1, <2>2 DEF TypeOK
  <2>5. issued = Len(seq) /\ recorded \subseteq 0..Len(seq) - 1
    BY <1>1, <2>1, <2>2, <2>4 DEF VerdictInv, InClause
  <2>6. verdicts'[clause] = Append(seq, row)
    BY <1>1, <2>2 DEF TypeOK
  <2>7. \A d \in Clauses : d # clause => verdicts'[d] = verdicts[d]
    BY <1>1 DEF TypeOK
  <2>8. /\ Len(verdicts'[clause]) = Len(seq) + 1
        /\ DOMAIN verdicts'[clause] = 1..Len(seq) + 1
        /\ \A k \in 1..Len(seq) : verdicts'[clause][k] = seq[k]
        /\ verdicts'[clause][Len(seq) + 1] = row
    BY <2>4, <2>6
  <2>9. VerdictsInOrder'
    <3> SUFFICES ASSUME NEW d \in Clauses, NEW k \in DOMAIN verdicts'[d]
                 PROVE  verdicts'[d][k].idx = k - 1
      BY DEF VerdictsInOrder
    <3>1. CASE d # clause
      BY <1>1, <2>7, <3>1 DEF VerdictsInOrder
    <3>2. CASE d = clause /\ k \in 1..Len(seq)
      BY <1>1, <2>4, <2>8, <3>2 DEF VerdictsInOrder
    <3>3. CASE d = clause /\ k = Len(seq) + 1
      BY <2>3, <2>4, <2>5, <2>8, <3>3
    <3> QED
      BY <2>4, <2>8, <3>1, <3>2, <3>3
  <2>10. VerdictsHaveSamples'
    <3> SUFFICES ASSUME NEW d \in Clauses, NEW k \in DOMAIN verdicts'[d]
                 PROVE  Comparison(d, verdicts'[d][k].idx) \subseteq samples
      BY <2>1 DEF VerdictsHaveSamples, Comparison, Slot
    <3>1. CASE d # clause
      BY <1>1, <2>7, <3>1 DEF VerdictsHaveSamples
    <3>2. CASE d = clause /\ k \in 1..Len(seq)
      BY <1>1, <2>4, <2>8, <3>2 DEF VerdictsHaveSamples
    <3>3. CASE d = clause /\ k = Len(seq) + 1
      BY <2>1, <2>3, <2>8, <3>3 DEF Inv3, Inv2, SampleInv, HandledStored
    <3> QED
      BY <2>4, <2>8, <3>1, <3>2, <3>3
  <2>11. issued' = Len(verdicts'[clause]) /\ recorded' \subseteq 0..Len(verdicts'[clause]) - 1
    BY <2>1, <2>4, <2>5, <2>8
  <2> QED
    BY <2>1, <2>9, <2>10, <2>11 DEF VerdictInv
<1>4. CASE ReplayVerdict
  <2>1. /\ pc = "judge" /\ issued \in recorded /\ issued' = issued + 1
        /\ UNCHANGED <<samples, verdicts, clause, recorded>>
    BY <1>4 DEF ReplayVerdict, EndComparison
  <2>2. verdicts[clause] \in Seq(VerdictRows) /\ issued \in Nat
    BY <2>1 DEF Inv3, Inv2, Inv1, ControlInv, TypeOK, InClause
  <2>3. /\ recorded = 0..Len(verdicts[clause]) - 1
        /\ issued + 1 <= Len(verdicts[clause])
    BY <1>1, <2>1, <2>2 DEF VerdictInv, InClause
  <2>4. VerdictsInOrder' /\ VerdictsHaveSamples'
    BY <1>1, <2>1 DEF VerdictsInOrder, VerdictsHaveSamples, Comparison, Slot
  <2> QED
    BY <2>1, <2>3, <2>4 DEF VerdictInv
<1>5. CASE ~(EnterClause \/ RecordVerdict \/ ReplayVerdict)
  <2> SUFFICES VerdictFrame
    BY <1>1, FrameVerdictInv
  <2> USE DEF VerdictFrame, InClause
  <2>1. CASE StartRun
    BY <2>1 DEF StartRun
  <2>2. CASE InitRuntime
    BY <2>2 DEF InitRuntime
  <2>3. CASE Warmup
    BY <2>3 DEF Warmup
  <2>4. CASE WarmupSpend
    BY <2>4 DEF WarmupSpend
  <2>5. CASE Resume
    BY <2>5 DEF Resume
  <2>6. CASE RepairBudget
    BY <2>6 DEF RepairBudget
  <2>7. CASE RefuseClause
    BY <2>7 DEF RefuseClause
  <2>8. CASE PassGate
    BY <2>8 DEF PassGate
  <2>9. CASE CloseGate
    BY <2>9 DEF CloseGate
  <2>10. CASE BudgetAbort
    BY <2>10 DEF BudgetAbort, Forget
  <2>11. CASE LoadSample
    BY <2>11 DEF LoadSample, NextCondition
  <2>12. CASE CallSubject
    BY <2>12 DEF CallSubject
  <2>13. CASE CallFails
    BY <2>13 DEF CallFails, Forget
  <2>14. CASE InsertSample
    BY <2>14 DEF InsertSample
  <2>15. CASE WriteLedger
    BY <2>15 DEF WriteLedger
  <2>16. CASE UpdateSpend
    BY <2>16 DEF UpdateSpend, NextCondition
  <2>17. CASE AdvanceClause
    BY <2>17 DEF AdvanceClause
  <2>18. CASE StampCompleted
    BY <2>18 DEF StampCompleted
  <2>19. CASE StampRefused
    BY <2>19 DEF StampRefused, Forget
  <2>20. CASE FinishProgress
    BY <2>20 DEF FinishProgress
  <2>21. CASE Reconcile
    BY <2>21 DEF Reconcile, Forget
  <2>22. CASE Crash
    BY <2>22 DEF Crash, Forget
  <2>23. CASE Rest
    BY <2>23 DEF Rest, vars
  <2>24. CASE UNCHANGED vars
    BY <2>24 DEF vars
  <2> QED
    BY <1>5, <2>1, <2>2, <2>3, <2>4, <2>5, <2>6, <2>7, <2>8, <2>9, <2>10,
       <2>11, <2>12, <2>13, <2>14, <2>15, <2>16, <2>17, <2>18, <2>19,
       <2>20, <2>21, <2>22, <2>23, <2>24 DEF Next, Runner
<1> QED
  BY <1>2, <1>3, <1>4, <1>5

\* No slot of the samples table is paid for twice: neither a resumed process
\* nor a retried comparison inserts a sample that is there (set-difference of
\* resume_ablation and UNIQUE of the samples table).
THEOREM SlotsPaidOnce == Spec => []NoSlotPaidTwice
<1>1. Spec => []Inv2
  BY InitInv2, NextInv2, PTL DEF Spec
<1>2. Inv2 => NoSlotPaidTwice
  BY DEF Inv2, SampleInv, GonePast, NoSlotPaidTwice, NextSlot, Slot, Inv1, TypeOK,
         Conditions, Full, Null
<1> QED
  BY <1>1, <1>2, PTL

\* The verdicts of a clause are those of its comparisons 0, 1, 2, ..., whatever
\* crashes came between (replay by _load_persisted_verdict).
THEOREM VerdictsOrdered == Spec => []VerdictsInOrder
<1>1. Spec => []Inv3
  BY InitInv3, NextInv3, PTL DEF Spec
<1>2. Inv3 => VerdictsInOrder
  BY DEF Inv3, VerdictInv
<1> QED
  BY <1>1, <1>2, PTL

\* Every verdict rests on the three stored samples of its comparison.
THEOREM VerdictsGrounded == Spec => []VerdictsHaveSamples
<1>1. Spec => []Inv3
  BY InitInv3, NextInv3, PTL DEF Spec
<1>2. Inv3 => VerdictsHaveSamples
  BY DEF Inv3, VerdictInv
<1> QED
  BY <1>1, <1>2, PTL
-----------------------------------------------------------------------------
(***************************************************************************)
(* Layer 4                                                                 *)
(***************************************************************************)

\* One more fault allows for one more call.
LEMMA OneMoreFault ==
    ASSUME NEW f \in Nat
    PROVE  /\ f * MaxCallCost \in Nat
           /\ (f + 1) * MaxCallCost = f * MaxCallCost + MaxCallCost
BY RunAssumption

\* No money is spent before the run starts.
LEMMA InitInv4 == Init => Inv4
<1> SUFFICES ASSUME Init PROVE MoneyInv
  BY InitInv2 DEF Inv4
<1>1. 0 * MaxCallCost = 0
  BY RunAssumption
<1> QED
  BY <1>1 DEF Init, IdleProcess, MoneyInv

\* Every step keeps run_budget, cost_ledger, evidence and bill in their order.
LEMMA NextInv4 == Inv4 /\ [Next]_vars => Inv4'
<1> SUFFICES ASSUME Inv4, [Next]_vars PROVE MoneyInv'
  BY NextInv2 DEF Inv4
<1>0. faults * MaxCallCost \in Nat /\ MaxCallCost \in Nat
  BY OneMoreFault, RunAssumption DEF Inv4, Inv2, Inv1, TypeOK
<1> USE <1>0, RunAssumption
    DEF Inv4, Inv2, Inv1, TypeOK, ControlInv, SampleInv, Fresh, MoneyInv,
        Steps, InClause, Opening, InHand, evidence, runtime, process, attempt,
        loop, counts, observers, Goto
<1>1. CASE StartRun
  BY <1>1 DEF StartRun
<1>2. CASE InitRuntime
  BY <1>2 DEF InitRuntime
<1>3. CASE Warmup
  BY <1>3 DEF Warmup
<1>4. CASE WarmupSpend
  BY <1>4 DEF WarmupSpend
<1>5. CASE Resume
  BY <1>5 DEF Resume, BudgetBehind
<1>6. CASE RepairBudget
  BY <1>6 DEF RepairBudget
<1>7. CASE EnterClause
  BY <1>7 DEF EnterClause
<1>8. CASE RefuseClause
  BY <1>8 DEF RefuseClause
<1>9. CASE PassGate
  BY <1>9 DEF PassGate
<1>10. CASE CloseGate
  BY <1>10 DEF CloseGate
<1>11. CASE BudgetAbort
  BY <1>11 DEF BudgetAbort, Forget
<1>12. CASE LoadSample
  BY <1>12 DEF LoadSample, NextCondition
<1>13. CASE CallSubject
  BY <1>13 DEF CallSubject
<1>14. CASE CallFails
  BY <1>14, OneMoreFault DEF CallFails, Forget
<1>15. CASE InsertSample
  BY <1>15 DEF InsertSample
<1>16. CASE WriteLedger
  BY <1>16 DEF WriteLedger
<1>17. CASE UpdateSpend
  BY <1>17 DEF UpdateSpend, NextCondition
<1>18. CASE RecordVerdict
  BY <1>18 DEF RecordVerdict, EndComparison
<1>19. CASE ReplayVerdict
  BY <1>19 DEF ReplayVerdict, EndComparison
<1>20. CASE AdvanceClause
  BY <1>20 DEF AdvanceClause
<1>21. CASE StampCompleted
  BY <1>21 DEF StampCompleted
<1>22. CASE StampRefused
  BY <1>22 DEF StampRefused, Forget
<1>23. CASE FinishProgress
  BY <1>23 DEF FinishProgress
<1>24. CASE Reconcile
  BY <1>24 DEF Reconcile, Forget
<1>25. CASE Crash
  BY <1>25, OneMoreFault DEF Crash, Forget
<1>26. CASE Rest
  BY <1>26 DEF Rest, vars
<1>27. CASE UNCHANGED vars
  BY <1>27 DEF vars
<1> QED
  BY <1>1, <1>2, <1>3, <1>4, <1>5, <1>6, <1>7, <1>8, <1>9, <1>10, <1>11,
     <1>12, <1>13, <1>14, <1>15, <1>16, <1>17, <1>18, <1>19, <1>20, <1>21,
     <1>22, <1>23, <1>24, <1>25, <1>26, <1>27 DEF Next, Runner

\* The budget gate never reads a spend below the cost of the stored samples
\* (reconciliation of resume_ablation, MAJOR-2).
THEOREM GateSound == Spec => []GateSeesEvidence
<1>1. Spec => []Inv4
  BY InitInv4, NextInv4, PTL DEF Spec
<1>2. Inv4 => GateSeesEvidence
  BY DEF Inv4, MoneyInv, GateSeesEvidence
<1> QED
  BY <1>1, <1>2, PTL

\* What the provider charged and run_budget does not show is at most one call
\* for each crash or failed call.
THEOREM LossBounded == Spec => []LossPerFault
<1>1. Spec => []Inv4
  BY InitInv4, NextInv4, PTL DEF Spec
<1>2. Inv4 => LossPerFault
  BY DEF Inv4, Inv2, Inv1, ControlInv, InHand, MoneyInv, LossPerFault, TypeOK
<1> QED
  BY <1>1, <1>2, PTL

\* cost_ledger stays at or below the samples' cost (reconcile_run_cost adds a
\* catch-up entry and never has to take one back).
THEOREM LedgerBounded == Spec => []LedgerNotAhead
<1>1. Spec => []Inv4
  BY InitInv4, NextInv4, PTL DEF Spec
<1>2. Inv4 => LedgerNotAhead
  BY DEF Inv4, MoneyInv, LedgerNotAhead
<1> QED
  BY <1>1, <1>2, PTL

-----------------------------------------------------------------------------
(***************************************************************************)
(* Layer 5                                                                 *)
(***************************************************************************)

\* Each call of a comparison is allowed one MaxCallCost more, three in all.
LEMMA AllowanceGrows ==
    ASSUME cond \in Conditions
    PROVE  /\ Allowance(cond) = Allowance(cond - 1) + MaxCallCost
           /\ Allowance(cond) <= 3 * MaxCallCost
           /\ Allowance(cond) \in Nat /\ Allowance(cond - 1) \in Nat
<1>1. cond = 1 \/ cond = 2 \/ cond = 3
  BY DEF Conditions, Full, Null
<1> QED
  BY <1>1, RunAssumption DEF Allowance

\* The slot to be sampled next belongs to the comparison the loop is in.
LEMMA NextInComparison == cond \in Conditions => NextSlot \in Comparison(clause, issued)
BY DEF NextSlot, Comparison

\* No sample exceeds the cap before the run starts.
LEMMA InitInv5 == Init => Inv5
BY InitInv4 DEF Init, IdleProcess, Inv5, CapInv, EvidenceWithinCap

\* Every step keeps the samples within the cap and one comparison's allowance.
LEMMA NextInv5 == Inv5 /\ [Next]_vars => Inv5'
<1> SUFFICES ASSUME Inv5, [Next]_vars PROVE CapInv'
  BY NextInv4 DEF Inv5
<1> USE RunAssumption
    DEF Inv5, Inv4, Inv2, Inv1, TypeOK, ControlInv, SampleInv, Fresh, CapInv,
        EvidenceWithinCap, Steps, InClause, Opening, InHand, evidence, runtime,
        process, attempt, loop, counts, observers, Goto
<1>1. CASE StartRun
  BY <1>1 DEF StartRun
<1>2. CASE InitRuntime
  BY <1>2 DEF InitRuntime
<1>3. CASE Warmup
  BY <1>3 DEF Warmup
<1>4. CASE WarmupSpend
  BY <1>4 DEF WarmupSpend
<1>5. CASE Resume
  BY <1>5 DEF Resume
<1>6. CASE RepairBudget
  BY <1>6 DEF RepairBudget
<1>7. CASE EnterClause
  BY <1>7 DEF EnterClause
<1>8. CASE RefuseClause
  BY <1>8 DEF RefuseClause
<1>9. CASE PassGate
  <2>1. /\ pc = "gate" /\ pc' = "sample" /\ cond' = Full
        /\ UNCHANGED <<clause, issued, existing, evidenceUsd, highCap, cap, samples>>
    BY <1>9 DEF PassGate
  <2>2. Comparison(clause, issued)' = Comparison(clause, issued)
    BY <2>1 DEF Comparison, Slot
  <2>3. Comparison(clause, issued) \subseteq existing
        \/ evidenceUsd + 3 * Projected <= highCap + Allowance(0)
    BY <1>9, <2>1 DEF PassGate, GateOpen, MoneyInv, Allowance
  <2>4. Allowance(cond - 1)' = Allowance(0)
    BY <2>1 DEF Allowance, Full
  <2> QED
    BY <2>1, <2>2, <2>3, <2>4
<1>10. CASE CloseGate
  BY <1>10 DEF CloseGate
<1>11. CASE BudgetAbort
  BY <1>11 DEF BudgetAbort, Forget
<1>12. CASE LoadSample
  <2>1. /\ pc = "sample" /\ (pc' = "judge" \/ (pc' = "sample" /\ cond' = cond + 1))
        /\ UNCHANGED <<clause, issued, existing, evidenceUsd, highCap, cap, samples>>
    BY <1>12 DEF LoadSample, NextCondition
  <2>2. Comparison(clause, issued)' = Comparison(clause, issued)
    BY <2>1 DEF Comparison, Slot
  <2>3. Comparison(clause, issued) \subseteq existing
        \/ evidenceUsd + 3 * Projected <= highCap + Allowance(cond - 1)
    BY <2>1
  <2>4. Comparison(clause, issued) \subseteq existing
        \/ evidenceUsd + 3 * Projected <= highCap + Allowance(cond)
    BY <2>3, AllowanceGrows
  <2>5. cond \in Int
    BY DEF Conditions, Full, Null
  <2>6. CASE pc' = "judge"
    BY <2>1, <2>6
  <2>7. CASE pc' = "sample" /\ cond' = cond + 1
    <3>1. cond' - 1 = cond
      BY <2>5, <2>7
    <3>2. Allowance(cond - 1)' = Allowance(cond)
      BY <3>1 DEF Allowance
    <3> QED
      BY <2>1, <2>2, <2>4, <2>7, <3>2
  <2> QED
    BY <2>1, <2>6, <2>7
<1>13. CASE CallSubject
  BY <1>13 DEF CallSubject, Comparison, Slot
<1>14. CASE CallFails
  BY <1>14 DEF CallFails, Forget
<1>15. CASE InsertSample
  <2>1. /\ pc = "insert" /\ pc' = "ledger" /\ evidenceUsd' = evidenceUsd + pending
        /\ UNCHANGED <<clause, issued, cond, existing, highCap, cap>>
    BY <1>15 DEF InsertSample
  <2>2. ~(Comparison(clause, issued) \subseteq existing)
    BY <2>1, NextInComparison
  <2>3. evidenceUsd + 3 * Projected <= highCap + Allowance(cond - 1)
    BY <2>1, <2>2
  <2>4. evidenceUsd' + 3 * Projected <= highCap + Allowance(cond)
    BY <2>1, <2>3, AllowanceGrows
  <2>5. evidenceUsd' + 3 * Projected <= highCap + 3 * MaxCallCost
    BY <2>1, <2>4, AllowanceGrows
  <2> QED
    BY <2>1, <2>4, <2>5
<1>16. CASE WriteLedger
  BY <1>16 DEF WriteLedger, Comparison, Slot
<1>17. CASE UpdateSpend
  <2>1. /\ pc = "spend" /\ (pc' = "judge" \/ (pc' = "sample" /\ cond' = cond + 1))
        /\ UNCHANGED <<clause, issued, existing, evidenceUsd, highCap, cap, samples>>
    BY <1>17 DEF UpdateSpend, NextCondition
  <2>2. Comparison(clause, issued)' = Comparison(clause, issued)
    BY <2>1 DEF Comparison, Slot
  <2>3. Comparison(clause, issued) \subseteq existing
        \/ evidenceUsd + 3 * Projected <= highCap + Allowance(cond)
    BY <2>1
  <2>4. Comparison(clause, issued) \subseteq existing
        \/ evidenceUsd + 3 * Projected <= highCap + Allowance(cond)
    BY <2>3, AllowanceGrows
  <2>5. cond \in Int
    BY DEF Conditions, Full, Null
  <2>6. CASE pc' = "judge"
    BY <2>1, <2>6
  <2>7. CASE pc' = "sample" /\ cond' = cond + 1
    <3>1. cond' - 1 = cond
      BY <2>5, <2>7
    <3>2. Allowance(cond - 1)' = Allowance(cond)
      BY <3>1 DEF Allowance
    <3> QED
      BY <2>1, <2>2, <2>4, <2>7, <3>2
  <2> QED
    BY <2>1, <2>6, <2>7
<1>18. CASE RecordVerdict
  BY <1>18 DEF RecordVerdict, EndComparison
<1>19. CASE ReplayVerdict
  BY <1>19 DEF ReplayVerdict, EndComparison
<1>20. CASE AdvanceClause
  BY <1>20 DEF AdvanceClause
<1>21. CASE StampCompleted
  BY <1>21 DEF StampCompleted
<1>22. CASE StampRefused
  BY <1>22 DEF StampRefused, Forget
<1>23. CASE FinishProgress
  BY <1>23 DEF FinishProgress
<1>24. CASE Reconcile
  BY <1>24 DEF Reconcile, Forget
<1>25. CASE Crash
  BY <1>25 DEF Crash, Forget
<1>26. CASE Rest
  BY <1>26 DEF Rest, vars
<1>27. CASE UNCHANGED vars
  BY <1>27 DEF vars, Comparison, Slot
<1> QED
  BY <1>1, <1>2, <1>3, <1>4, <1>5, <1>6, <1>7, <1>8, <1>9, <1>10, <1>11,
     <1>12, <1>13, <1>14, <1>15, <1>16, <1>17, <1>18, <1>19, <1>20, <1>21,
     <1>22, <1>23, <1>24, <1>25, <1>26, <1>27 DEF Next, Runner

\* The stored samples exceed the largest cap by at most what the three calls of
\* one comparison exceed their projection (the gate of _run_clause).
THEOREM CapHolds == Spec => []EvidenceWithinCap
<1>1. Spec => []Inv5
  BY InitInv5, NextInv5, PTL DEF Spec
<1>2. Inv5 => EvidenceWithinCap
  BY DEF Inv5, CapInv
<1> QED
  BY <1>1, <1>2, PTL

-----------------------------------------------------------------------------
(***************************************************************************)
(* The charges                                                             *)
(***************************************************************************)

\* The cost of the faults is a number, and grows by one call with each.
LEMMA FaultCostGrows ==
    ASSUME TypeOK, TypeOK'
    PROVE  /\ FaultCost \in Nat /\ FaultCost' \in Nat
           /\ faults' = faults => FaultCost' = FaultCost
           /\ faults' = faults + 1 => FaultCost' = FaultCost + MaxCallCost
<1>1. faults \in Nat /\ faults' \in Nat
  BY RunAssumption DEF TypeOK
<1>2. /\ faults * MaxCallCost \in Nat /\ faults' * MaxCallCost \in Nat
      /\ (faults + 1) * MaxCallCost = faults * MaxCallCost + MaxCallCost
  BY <1>1, OneMoreFault
<1>3. faults' = faults + 1 => faults' * MaxCallCost = (faults + 1) * MaxCallCost
  OBVIOUS
<1> QED
  BY <1>2, <1>3 DEF FaultCost

\* Nothing is charged before the run starts.
LEMMA InitCharges == Init => ChargesInv
BY InitInv5, RunAssumption DEF Init, IdleProcess, ChargesInv, ChargeInv, ChargesWithinCap

\* The comparison that the process is in, when the step does not leave it.
LEMMA SameComparison ==
    ASSUME UNCHANGED <<clause, issued>>
    PROVE  Comparison(clause, issued)' = Comparison(clause, issued)
BY DEF Comparison, Slot

\* A condition is handled: the next one is allowed what was used so far.
LEMMA NextAllowance ==
    ASSUME TypeOK, NextCondition, UNCHANGED <<clause, issued, existing>>
    PROVE  \/ pc' = "judge"
           \/ pc' = "sample" /\ Allowance(cond - 1)' = Allowance(cond)
<1>1. pc' = "judge" \/ (pc' = "sample" /\ cond' = cond + 1)
  BY DEF NextCondition, Goto
<1>2. cond \in Int
  BY DEF TypeOK, Conditions, Full, Null
<1>3. cond' = cond + 1 => Allowance(cond - 1)' = Allowance(cond)
  BY <1>2 DEF Allowance
<1> QED
  BY <1>1, <1>3

\* One more call is charged: the allowance of the comparison covers it.
LEMMA ChargesByCall ==
    ASSUME ChargesInv, TypeOK', CallSubject
    PROVE  ChargeInv'
<1> DEFINE room == highCap + FaultCost
           before == Allowance(cond - 1)
           after == Allowance(cond)
<1>1. TypeOK /\ ChargeInv /\ pc = "sample" /\ pc' = "insert" /\ NextSlot \notin existing
  BY DEF ChargesInv, Inv5, Inv4, Inv2, Inv1, CallSubject, Goto
<1>2. UNCHANGED <<evidenceUsd, warmupUsd, faults, highCap, cond, clause, issued>>
  BY DEF CallSubject, evidence, loop
<1>3. /\ evidenceUsd \in Nat /\ warmupUsd \in Nat /\ billedUsd \in Nat
      /\ highCap \in Nat /\ cond \in Conditions
      /\ pending' \in Nat /\ pending' <= MaxCallCost
      /\ MaxCallCost \in Nat /\ Projected \in Nat
  BY <1>1, RunAssumption DEF TypeOK
<1>4. billedUsd' = billedUsd + pending'
  BY DEF CallSubject
<1>5. /\ after = before + MaxCallCost /\ after <= 3 * MaxCallCost
      /\ after \in Nat /\ before \in Nat
  BY <1>3, AllowanceGrows
<1>6. FaultCost' = FaultCost /\ FaultCost \in Nat
  BY <1>1, <1>2, FaultCostGrows
<1>7. room' = room /\ room \in Nat /\ after' = after
  BY <1>2, <1>3, <1>6 DEF Allowance
<1>8. ~(Comparison(clause, issued) \subseteq existing)
  BY <1>1, <1>3, NextInComparison
<1>9. /\ billedUsd + 3 * Projected <= room + before
      /\ evidenceUsd + warmupUsd + 0 <= billedUsd
  BY <1>1, <1>8 DEF ChargeInv
<1>10. highCap + 3 * MaxCallCost + FaultCost = room + 3 * MaxCallCost
  BY <1>3, <1>6
<1>11. (highCap + 3 * MaxCallCost + FaultCost)' = room + 3 * MaxCallCost
  BY <1>2, <1>6, <1>10
<1> HIDE DEF room, before, after
<1> DEFINE bill == billedUsd + 3 * Projected
           most == room + 3 * MaxCallCost
           paid == evidenceUsd + warmupUsd
<1>m. PICK more, total : more = pending' /\ total = billedUsd'
  OBVIOUS
<1>a. /\ more \in Nat /\ more <= MaxCallCost /\ MaxCallCost \in Nat
      /\ room \in Nat /\ billedUsd \in Nat /\ total = billedUsd + more
  BY <1>m, <1>3, <1>4, <1>7
<1>b. /\ bill \in Nat /\ paid \in Nat /\ most \in Nat /\ 3 * MaxCallCost \in Nat
      /\ bill <= room + before /\ paid <= billedUsd
  BY <1>3, <1>9, <1>a
<1>c. total + 3 * Projected = bill + more
  BY <1>3, <1>a
<1>d. bill + more <= room + after
  <2> HIDE DEF bill
  <2> QED
    BY <1>5, <1>a, <1>b
<1>e. bill + more <= most
  <2>1. room + after <= most /\ room + after \in Nat
    BY <1>5, <1>a
  <2> HIDE DEF bill, most
  <2> QED
    BY <1>a, <1>b, <1>d, <2>1
<1>12. billedUsd' + 3 * Projected <= room + after
  <2>1. total + 3 * Projected <= room + after
    BY <1>c, <1>d
  <2> QED
    BY <1>m, <2>1
<1>13. ChargesWithinCap'
  <2>1. total + 3 * Projected <= most
    BY <1>c, <1>e
  <2>2. billedUsd' + 3 * Projected <= (highCap + 3 * MaxCallCost + FaultCost)'
    BY <1>m, <1>11, <2>1
  <2> QED
    BY <2>2 DEF ChargesWithinCap
<1>14. evidenceUsd' + warmupUsd' + pending' <= billedUsd'
  <2>1. paid + more <= total
    <3> HIDE DEF paid
    <3> QED
      BY <1>a, <1>b
  <2> QED
    BY <1>m, <1>2, <2>1
<1>15. (billedUsd + 3 * Projected <= highCap + FaultCost +
           (IF pc = "sample" THEN Allowance(cond - 1) ELSE Allowance(cond)))'
  BY <1>1, <1>7, <1>12 DEF room, after
<1> QED
  BY <1>1, <1>13, <1>14, <1>15 DEF ChargeInv

\* Every step keeps the charges within the cap and their allowance.
LEMMA NextCharges == ChargesInv /\ [Next]_vars => ChargesInv'
<1> SUFFICES ASSUME ChargesInv, [Next]_vars PROVE ChargeInv'
  BY NextInv5 DEF ChargesInv
<1>a. TypeOK' /\ TypeOK /\ Inv5'
  BY NextInv5 DEF ChargesInv, Inv5, Inv4, Inv2, Inv1
<1>b. /\ FaultCost \in Nat /\ FaultCost' \in Nat
      /\ faults' = faults => FaultCost' = FaultCost
      /\ faults' = faults + 1 => FaultCost' = FaultCost + MaxCallCost
  BY <1>a, FaultCostGrows
<1>c. billedUsd <= budgetUsd + pending + FaultCost
  BY DEF ChargesInv, Inv5, Inv4, MoneyInv, FaultCost
<1> USE <1>b, RunAssumption
    DEF ChargesInv, Inv5, Inv4, Inv2, Inv1, TypeOK, ControlInv, SampleInv, Fresh,
        CapInv, ChargeInv, ChargesWithinCap, Steps, InClause, Opening, InHand,
        evidence, runtime, process, attempt, loop, counts, observers, Goto
<1>1. CASE StartRun
  BY <1>1 DEF StartRun
<1>2. CASE InitRuntime
  BY <1>2 DEF InitRuntime
<1>3. CASE Warmup
  BY <1>3 DEF Warmup
<1>4. CASE WarmupSpend
  BY <1>4 DEF WarmupSpend
<1>5. CASE Resume
  BY <1>5 DEF Resume
<1>6. CASE RepairBudget
  BY <1>6 DEF RepairBudget
<1>7. CASE EnterClause
  BY <1>7 DEF EnterClause
<1>8. CASE RefuseClause
  BY <1>8 DEF RefuseClause
<1>9. CASE PassGate
  <2>1. /\ pc = "gate" /\ pc' = "sample" /\ cond = Full /\ pending = 0
        /\ UNCHANGED <<evidence, runtime, attempt, loop, pending, observers>>
    BY <1>9 DEF PassGate
  <2>2. Comparison(clause, issued)' = Comparison(clause, issued)
    BY <2>1, SameComparison
  <2>3. Comparison(clause, issued) \subseteq existing
        \/ billedUsd + 3 * Projected <= highCap + FaultCost
    BY <1>9, <1>c, <2>1 DEF PassGate, GateOpen
  <2>4. Allowance(cond - 1)' = 0
    BY <2>1 DEF Allowance, Full
  <2> QED
    BY <2>1, <2>2, <2>3, <2>4
<1>10. CASE CloseGate
  BY <1>10 DEF CloseGate
<1>11. CASE BudgetAbort
  BY <1>11 DEF BudgetAbort, Forget
<1>12. CASE LoadSample
  <2>1. /\ pc = "sample" /\ NextCondition
        /\ UNCHANGED <<evidence, runtime, attempt, clause, issued, pending, observers>>
    BY <1>12 DEF LoadSample
  <2>2. Comparison(clause, issued)' = Comparison(clause, issued)
    BY <2>1, SameComparison
  <2>3. Comparison(clause, issued) \subseteq existing
        \/ billedUsd + 3 * Projected <= highCap + FaultCost + Allowance(cond)
    BY <2>1, AllowanceGrows
  <2>4. pc' = "judge" \/ (pc' = "sample" /\ Allowance(cond - 1)' = Allowance(cond))
    BY <1>a, <2>1, NextAllowance
  <2> QED
    BY <2>1, <2>2, <2>3, <2>4
<1>13. CASE CallSubject
  BY <1>13, <1>a, ChargesByCall
<1>14. CASE CallFails
  BY <1>14 DEF CallFails, Forget
<1>15. CASE InsertSample
  BY <1>15, SameComparison DEF InsertSample, Allowance
<1>16. CASE WriteLedger
  BY <1>16, SameComparison DEF WriteLedger, Allowance
<1>17. CASE UpdateSpend
  <2>1. /\ pc = "spend" /\ NextCondition
        /\ UNCHANGED <<evidence, attempt, clause, issued, observers>>
    BY <1>17 DEF UpdateSpend
  <2>2. Comparison(clause, issued)' = Comparison(clause, issued)
    BY <2>1, SameComparison
  <2>3. pc' = "judge" \/ (pc' = "sample" /\ Allowance(cond - 1)' = Allowance(cond))
    BY <1>a, <2>1, NextAllowance
  <2> QED
    BY <2>1, <2>2, <2>3
<1>18. CASE RecordVerdict
  BY <1>18 DEF RecordVerdict, EndComparison
<1>19. CASE ReplayVerdict
  BY <1>19 DEF ReplayVerdict, EndComparison
<1>20. CASE AdvanceClause
  BY <1>20 DEF AdvanceClause
<1>21. CASE StampCompleted
  BY <1>21 DEF StampCompleted
<1>22. CASE StampRefused
  BY <1>22 DEF StampRefused, Forget
<1>23. CASE FinishProgress
  BY <1>23 DEF FinishProgress
<1>24. CASE Reconcile
  BY <1>24 DEF Reconcile, Forget
<1>25. CASE Crash
  BY <1>25 DEF Crash, Forget
<1>26. CASE Rest
  BY <1>26, SameComparison DEF Rest, vars, Allowance
<1>27. CASE UNCHANGED vars
  BY <1>27, SameComparison DEF vars, Allowance
<1> QED
  BY <1>1, <1>2, <1>3, <1>4, <1>5, <1>6, <1>7, <1>8, <1>9, <1>10, <1>11,
     <1>12, <1>13, <1>14, <1>15, <1>16, <1>17, <1>18, <1>19, <1>20, <1>21,
     <1>22, <1>23, <1>24, <1>25, <1>26, <1>27 DEF Next, Runner

\* What the provider has charged, responses lost in a crash included, passes the
\* largest --max-usd by at most what one comparison's three calls exceed their
\* projection, and one call per crash or failed call.
THEOREM ChargesBounded == Spec => []ChargesWithinCap
<1>1. Spec => []ChargesInv
  BY InitCharges, NextCharges, PTL DEF Spec
<1>2. ChargesInv => ChargesWithinCap
  BY DEF ChargesInv, ChargeInv
<1> QED
  BY <1>1, <1>2, PTL

\* The hard cap holds of every run that no fault has hit, as soon as more than
\* the warmup call was paid, if project_call_cost() does not underestimate.
HardCapWithoutFault ==
    faults = 0 /\ MaxCallCost <= Projected
    /\ evidenceUsd + warmupUsd > MaxCallCost => HardCapSurvivesResume

\* Only a crash or a failed call lets the samples and the warmup exceed the hard
\* cap of resume_ablation's comment on MAJOR-2, and then by one call each.
THEOREM HardCapNeedsFault ==
    Spec => [](/\ HardCapWithoutFault
               /\ evidenceUsd + warmupUsd > MaxCallCost =>
                    evidenceUsd + warmupUsd + 3 * Projected
                      <= highCap + 3 * MaxCallCost + FaultCost)
<1> DEFINE Bounded == evidenceUsd + warmupUsd > MaxCallCost =>
                        evidenceUsd + warmupUsd + 3 * Projected
                          <= highCap + 3 * MaxCallCost + FaultCost
<1>1. Spec => []ChargesInv
  BY InitCharges, NextCharges, PTL DEF Spec
<1>2. ASSUME ChargesInv PROVE HardCapWithoutFault /\ Bounded
  <2>1. TypeOK /\ ChargeInv
    BY <1>2 DEF ChargesInv, Inv5, Inv4, Inv2, Inv1
  <2>2. FaultCost \in Nat /\ (faults = 0 => FaultCost = 0)
    BY <2>1, OneMoreFault, RunAssumption DEF FaultCost, TypeOK
  <2>3. evidenceUsd + warmupUsd <= billedUsd
    BY <2>1 DEF ChargeInv, TypeOK
  <2>4. Bounded
    BY <2>1, <2>2, <2>3, RunAssumption DEF ChargeInv, ChargesWithinCap, TypeOK
  <2>5. HardCapWithoutFault
    BY <2>1, <2>2, <2>4, RunAssumption
       DEF TypeOK, HardCapWithoutFault, HardCapSurvivesResume
  <2> QED
    BY <2>4, <2>5
<1> QED
  BY <1>1, <1>2, PTL

-----------------------------------------------------------------------------
(***************************************************************************)
(* The counters                                                            *)
(***************************************************************************)

\* No sample is counted before the run starts.
LEMMA InitInv6 == Init => Inv6
BY InitInv2, FS_EmptySet
   DEF Init, IdleProcess, Inv6, CountInv, SamplesAccounted

\* Every step keeps the counters level with the rows.
LEMMA NextInv6 == Inv6 /\ [Next]_vars => Inv6'
<1> SUFFICES ASSUME Inv6, [Next]_vars PROVE CountInv'
  BY NextInv2 DEF Inv6
<1>0. Cardinality(samples) \in Nat
  BY SamplesFinite DEF Inv6, Inv2, Inv1, TypeOK
<1> USE <1>0
    DEF Inv6, Inv2, Inv1, TypeOK, SampleInv, Fresh, CountInv, SamplesAccounted,
        Steps, InClause, evidence, runtime, process, attempt, loop, counts,
        observers, Goto
<1>1. CASE StartRun
  BY <1>1, FS_EmptySet DEF StartRun
<1>2. CASE InitRuntime
  BY <1>2 DEF InitRuntime
<1>3. CASE Warmup
  BY <1>3 DEF Warmup
<1>4. CASE WarmupSpend
  BY <1>4 DEF WarmupSpend
<1>5. CASE Resume
  BY <1>5 DEF Resume, EvidenceCount, Resumable
<1>6. CASE RepairBudget
  BY <1>6 DEF RepairBudget
<1>7. CASE EnterClause
  BY <1>7 DEF EnterClause
<1>8. CASE RefuseClause
  BY <1>8 DEF RefuseClause
<1>9. CASE PassGate
  BY <1>9 DEF PassGate
<1>10. CASE CloseGate
  BY <1>10 DEF CloseGate
<1>11. CASE BudgetAbort
  BY <1>11 DEF BudgetAbort, Forget
<1>12. CASE LoadSample
  BY <1>12 DEF LoadSample, NextCondition
<1>13. CASE CallSubject
  BY <1>13 DEF CallSubject
<1>14. CASE CallFails
  BY <1>14 DEF CallFails, Forget
<1>15. CASE InsertSample
  <2>1. Cardinality(samples') = Cardinality(samples) + 1
    BY <1>15, SamplesFinite, FS_AddElement DEF InsertSample
  <2> QED
    BY <1>15, <2>1 DEF InsertSample
<1>16. CASE WriteLedger
  BY <1>16 DEF WriteLedger
<1>17. CASE UpdateSpend
  BY <1>17 DEF UpdateSpend, NextCondition
<1>18. CASE RecordVerdict
  BY <1>18 DEF RecordVerdict, EndComparison
<1>19. CASE ReplayVerdict
  BY <1>19 DEF ReplayVerdict, EndComparison
<1>20. CASE AdvanceClause
  BY <1>20 DEF AdvanceClause
<1>21. CASE StampCompleted
  BY <1>21 DEF StampCompleted
<1>22. CASE StampRefused
  BY <1>22 DEF StampRefused, Forget
<1>23. CASE FinishProgress
  BY <1>23 DEF FinishProgress
<1>24. CASE Reconcile
  BY <1>24 DEF Reconcile, Forget
<1>25. CASE Crash
  BY <1>25 DEF Crash, Forget
<1>26. CASE Rest
  BY <1>26 DEF Rest, vars
<1>27. CASE UNCHANGED vars
  BY <1>27 DEF vars
<1> QED
  BY <1>1, <1>2, <1>3, <1>4, <1>5, <1>6, <1>7, <1>8, <1>9, <1>10, <1>11,
     <1>12, <1>13, <1>14, <1>15, <1>16, <1>17, <1>18, <1>19, <1>20, <1>21,
     <1>22, <1>23, <1>24, <1>25, <1>26, <1>27 DEF Next, Runner

\* samples_collected never overstates the stored samples, and a completed run
\* shows their exact number (evidence is the source of truth of resume).
THEOREM CountsAccounted == Spec => []SamplesAccounted
<1>1. Spec => []Inv6
  BY InitInv6, NextInv6, PTL DEF Spec
<1>2. Inv6 => SamplesAccounted
  BY DEF Inv6, CountInv
<1> QED
  BY <1>1, <1>2, PTL
-----------------------------------------------------------------------------
(***************************************************************************)
(* An attempt ends.  The process is one loop over the clauses, one over    *)
(* the comparisons of a clause and one over their conditions; every step   *)
(* takes it forward in one of them.  Together with the bound on faults     *)
(* this is the safety half of RunIsDecided.                                *)
(***************************************************************************)

\* The steps of a clause: fourteen for each comparison, three around them.
ClauseSteps == 14 * NMax + 3

LaterClauses(c) == (NClauses - c) * ClauseSteps

\* The most steps an attempt can still take, from step p of clause c, with i
\* comparisons issued, at condition k.
StepsLeft(p, c, i, k) ==
    CASE p = "idle" -> 0
      [] p \in {"reconcile", "abort"} -> 1
      [] p = "finish" -> 2
      [] p = "complete" -> 3
      [] p = "advance" -> LaterClauses(c) + 4
      [] p = "refuse" -> LaterClauses(c) + 5
      [] p = "judge" -> LaterClauses(c) + 14 * (NMax - i) - 8
      [] p = "spend" -> LaterClauses(c) + 14 * (NMax - i) + 5 - 4 * k
      [] p = "ledger" -> LaterClauses(c) + 14 * (NMax - i) + 6 - 4 * k
      [] p = "insert" -> LaterClauses(c) + 14 * (NMax - i) + 7 - 4 * k
      [] p = "sample" -> LaterClauses(c) + 14 * (NMax - i) + 8 - 4 * k
      [] p = "gate" -> LaterClauses(c) + 14 * (NMax - i) + 5
      [] p = "clause" -> LaterClauses(c) + ClauseSteps + 3
      [] p \in {"warmed", "repair"} -> LaterClauses(c) + ClauseSteps + 4
      [] p = "warmup" -> LaterClauses(c) + ClauseSteps + 5
      [] p = "init" -> LaterClauses(c) + ClauseSteps + 6

Remaining == StepsLeft(pc, clause, issued, cond)

\* No attempt takes more steps than this.
MaxSteps == NClauses * ClauseSteps + 6

\* The clauses that are left have a number of steps, fewer after each clause.
LEMMA LaterClausesShrink ==
    ASSUME NEW c \in Clauses
    PROVE  /\ ClauseSteps \in Nat /\ LaterClauses(c) \in Nat
           /\ c + 1 \in Clauses =>
                LaterClauses(c) = LaterClauses(c + 1) + ClauseSteps
           /\ LaterClauses(c) + ClauseSteps <= NClauses * ClauseSteps
           /\ NClauses * ClauseSteps \in Nat
<1>1. ClauseSteps \in Nat
  BY ScheduleAssumption DEF ClauseSteps
<1>2. NClauses - c \in Nat /\ c \in Nat \ {0} /\ NClauses \in Nat
  BY RunAssumption DEF Clauses
<1>3. \A n, m \in Nat : n * ClauseSteps \in Nat
        /\ (n + m) * ClauseSteps = n * ClauseSteps + m * ClauseSteps
  BY <1>1
<1>4. LaterClauses(c) \in Nat /\ NClauses * ClauseSteps \in Nat
  BY <1>2, <1>3 DEF LaterClauses
<1>5. 1 * ClauseSteps = ClauseSteps
  BY <1>1
<1>6. c + 1 \in Clauses => LaterClauses(c) = LaterClauses(c + 1) + ClauseSteps
  <2> SUFFICES ASSUME c + 1 \in Clauses
               PROVE  LaterClauses(c) = LaterClauses(c + 1) + ClauseSteps
    OBVIOUS
  <2>1. NClauses - (c + 1) \in Nat /\ NClauses - c = (NClauses - (c + 1)) + 1
    BY <1>2 DEF Clauses
  <2> QED
    BY <1>3, <1>5, <2>1 DEF LaterClauses
<1>7. LaterClauses(c) + ClauseSteps <= NClauses * ClauseSteps
  <2>1. NClauses = (NClauses - c) + c /\ c = 1 + (c - 1) /\ c - 1 \in Nat
    BY <1>2
  <2>2. NClauses * ClauseSteps = LaterClauses(c) + c * ClauseSteps
    BY <1>2, <1>3, <2>1 DEF LaterClauses
  <2>3. c * ClauseSteps = ClauseSteps + (c - 1) * ClauseSteps
    BY <1>3, <1>5, <2>1
  <2>4. (c - 1) * ClauseSteps \in Nat
    BY <1>3, <2>1
  <2> DEFINE x == LaterClauses(c)
             y == (c - 1) * ClauseSteps
             z == NClauses * ClauseSteps
  <2>5. z = x + (ClauseSteps + y)
    BY <2>2, <2>3
  <2>6. x \in Nat /\ y \in Nat /\ z \in Nat
    BY <1>4, <2>4
  <2>7. x + ClauseSteps <= z
    <3> HIDE DEF x, y, z
    <3> QED
      BY <1>1, <2>5, <2>6
  <2> QED
    BY <2>7
<1> QED
  BY <1>1, <1>4, <1>6, <1>7

\* Along the loops the number of steps left goes down.
LEMMA StepsDescend ==
    ASSUME NEW c \in Clauses, NEW i \in 0..NMax, NEW k \in Conditions
    PROVE  /\ StepsLeft("warmup", c, i, k) < StepsLeft("init", c, i, k)
           /\ StepsLeft("warmed", c, i, k) < StepsLeft("warmup", c, i, k)
           /\ StepsLeft("clause", c, i, k) < StepsLeft("warmup", c, i, k)
           /\ StepsLeft("clause", c, i, k) < StepsLeft("warmed", c, i, k)
           /\ StepsLeft("clause", c, i, k) < StepsLeft("repair", c, i, k)
           /\ StepsLeft("gate", c, 0, Full) < StepsLeft("clause", c, i, k)
           /\ StepsLeft("refuse", c, 0, Full) < StepsLeft("clause", c, i, k)
           /\ StepsLeft("advance", c, i, k) < StepsLeft("refuse", c, i, k)
           /\ StepsLeft("sample", c, i, Full) < StepsLeft("gate", c, i, Full)
           /\ StepsLeft("abort", c, i, k) < StepsLeft("gate", c, i, k)
           /\ StepsLeft("insert", c, i, k) < StepsLeft("sample", c, i, k)
           /\ StepsLeft("ledger", c, i, k) < StepsLeft("insert", c, i, k)
           /\ StepsLeft("spend", c, i, k) < StepsLeft("ledger", c, i, k)
           /\ StepsLeft("sample", c, i, k + 1) < StepsLeft("spend", c, i, k)
           /\ StepsLeft("sample", c, i, k + 1) < StepsLeft("sample", c, i, k)
           /\ StepsLeft("judge", c, i, Full) < StepsLeft("sample", c, i, k)
           /\ StepsLeft("judge", c, i, Full) < StepsLeft("spend", c, i, k)
           /\ StepsLeft("gate", c, i + 1, k) < StepsLeft("judge", c, i, k)
           /\ i < NMax => StepsLeft("advance", c, i + 1, k) < StepsLeft("judge", c, i, k)
           /\ c + 1 \in Clauses =>
                StepsLeft("clause", c + 1, i, k) < StepsLeft("advance", c, i, k)
           /\ StepsLeft("complete", c + 1, i, k) < StepsLeft("advance", c, i, k)
<1>1. /\ ClauseSteps = 14 * NMax + 3 /\ LaterClauses(c) \in Nat
      /\ c + 1 \in Clauses => LaterClauses(c) = LaterClauses(c + 1) + ClauseSteps
      /\ c + 1 \in Clauses => LaterClauses(c + 1) \in Nat
  BY LaterClausesShrink DEF ClauseSteps
<1>2. NMax \in Nat \ {0} /\ (k = 1 \/ k = 2 \/ k = 3) /\ Full = 1
  BY ScheduleAssumption DEF Conditions, Full, Null
<1> QED
  BY <1>1, <1>2 DEF StepsLeft

\* The number of steps left is a number, and it is bounded.
LEMMA StepsBounded ==
    ASSUME Inv1
    PROVE  /\ Remaining \in 0..MaxSteps
           /\ pc # "idle" => 0 < Remaining
<1>1. CASE pc \in {"idle", "reconcile", "abort", "finish", "complete"}
  <2>1. NClauses * ClauseSteps \in Nat
    <3>1. 1 \in Clauses
      BY RunAssumption DEF Clauses
    <3> QED
      BY <3>1, LaterClausesShrink
  <2>2. Remaining \in 0..3 /\ (pc # "idle" => 0 < Remaining)
    BY <1>1 DEF Remaining, StepsLeft
  <2> DEFINE y == NClauses * ClauseSteps
  <2>3. MaxSteps = y + 6
    BY DEF MaxSteps
  <2> HIDE DEF y
  <2> QED
    BY <2>1, <2>2, <2>3 DEF y
<1>2. CASE pc \notin {"idle", "reconcile", "abort", "finish", "complete"}
  <2>1. clause \in Clauses
    BY <1>2, RunAssumption
       DEF Inv1, TypeOK, ControlInv, Steps, InClause, Opening, Clauses
  <2> DEFINE x == LaterClauses(clause)
             y == NClauses * ClauseSteps
  <2>2. /\ x \in Nat /\ y \in Nat /\ ClauseSteps \in Nat
        /\ x + ClauseSteps <= y
    BY <2>1, LaterClausesShrink
  <2>3. /\ NMax \in Nat \ {0} /\ (cond = 1 \/ cond = 2 \/ cond = 3)
        /\ issued \in 0..NMax /\ ClauseSteps = 14 * NMax + 3
        /\ pc \in InClause => issued < NMax
    BY ScheduleAssumption
       DEF Inv1, TypeOK, ControlInv, Conditions, Full, Null, ClauseSteps
  <2>4. pc \in {"init", "warmup", "warmed", "repair", "clause", "refuse", "advance"}
               \cup InClause
    BY <1>2 DEF Inv1, TypeOK, Steps
  <2>5. Remaining = StepsLeft(pc, clause, issued, cond) /\ MaxSteps = y + 6
    BY DEF Remaining, MaxSteps
  <2>6. StepsLeft(pc, clause, issued, cond) \in 1..x + ClauseSteps + 6
    <3>1. CASE pc \in InClause
      <4>1. NMax - issued \in 1..NMax
        BY <2>3, <3>1
      <4> DEFINE d == NMax - issued
      <4> HIDE DEF d
      <4>2. d \in 1..NMax /\ StepsLeft(pc, clause, issued, cond) =
              CASE pc = "judge" -> x + 14 * d - 8
                [] pc = "spend" -> x + 14 * d + 5 - 4 * cond
                [] pc = "ledger" -> x + 14 * d + 6 - 4 * cond
                [] pc = "insert" -> x + 14 * d + 7 - 4 * cond
                [] pc = "sample" -> x + 14 * d + 8 - 4 * cond
                [] pc = "gate" -> x + 14 * d + 5
        BY <3>1, <4>1 DEF d, StepsLeft, InClause
      <4> HIDE DEF x
      <4> QED
        BY <2>2, <2>3, <3>1, <4>2 DEF InClause
    <3>2. CASE pc \notin InClause
      <4>1. pc \in {"init", "warmup", "warmed", "repair", "clause", "refuse", "advance"}
        BY <2>4, <3>2
      <4>2. StepsLeft(pc, clause, issued, cond) \in
              {x + ClauseSteps + 6, x + ClauseSteps + 5, x + ClauseSteps + 4,
               x + ClauseSteps + 3, x + 5, x + 4}
        BY <4>1 DEF StepsLeft
      <4> HIDE DEF x
      <4> QED
        BY <2>2, <4>2
    <3> QED
      BY <3>1, <3>2
  <2> HIDE DEF x, y
  <2> QED
    BY <2>2, <2>5, <2>6
<1> QED
  BY <1>1, <1>2

\* Every step of a living process brings the end of its attempt nearer.
LEMMA AttemptShrinks ==
    ASSUME Inv1, Next, pc # "idle"
    PROVE  Remaining' < Remaining
<1>a. /\ issued \in 0..NMax /\ cond \in Conditions
      /\ pc \in InClause \cup Opening \cup {"clause", "refuse", "advance"} =>
           clause \in Clauses
  BY RunAssumption
     DEF Inv1, TypeOK, ControlInv, InClause, Opening, Clauses
<1>b. Remaining' = StepsLeft(pc', clause', issued', cond')
  BY DEF Remaining
<1>c. Remaining = StepsLeft(pc, clause, issued, cond)
  BY DEF Remaining
<1>d. ASSUME pc' = "idle" PROVE Remaining' < Remaining
  <2>1. Remaining' = 0
    BY <1>b, <1>d DEF StepsLeft
  <2> QED
    BY <2>1, StepsBounded
<1>e. CASE StampRefused \/ BudgetAbort \/ Reconcile \/ CallFails \/ Crash
  BY <1>e, <1>d
     DEF StampRefused, BudgetAbort, Reconcile, CallFails, Crash, Forget
<1>f. CASE StartRun \/ Resume \/ Rest
  BY <1>f DEF StartRun, Resume, Rest
<1>1. CASE InitRuntime \/ Warmup \/ WarmupSpend \/ RepairBudget
  <2>1. /\ UNCHANGED <<clause, issued, cond>>
        /\ pc \in Opening
        /\ \/ pc = "init" /\ pc' = "warmup"
           \/ pc = "warmup" /\ pc' \in {"warmed", "clause"}
           \/ pc \in {"warmed", "repair"} /\ pc' = "clause"
    BY <1>1 DEF InitRuntime, Warmup, WarmupSpend, RepairBudget, loop, Goto, Opening
  <2> QED
    BY <1>a, <1>b, <1>c, <2>1, StepsDescend
<1>2. CASE EnterClause
  <2>1. /\ pc = "clause" /\ pc' \in {"refuse", "gate"}
        /\ clause' = clause /\ issued' = 0 /\ cond' = Full
    BY <1>2 DEF EnterClause, Goto
  <2> QED
    BY <1>a, <1>b, <1>c, <2>1, StepsDescend
<1>3. CASE RefuseClause
  <2>1. pc = "refuse" /\ pc' = "advance" /\ UNCHANGED <<clause, issued, cond>>
    BY <1>3 DEF RefuseClause, Goto, loop
  <2> QED
    BY <1>a, <1>b, <1>c, <2>1, StepsDescend
<1>4. CASE PassGate \/ CloseGate
  <2>1. /\ pc = "gate" /\ pc' \in {"sample", "abort"} /\ cond = Full
        /\ UNCHANGED <<clause, issued, cond>>
    BY <1>4 DEF PassGate, CloseGate, Goto, loop, Inv1, ControlInv
  <2> QED
    BY <1>a, <1>b, <1>c, <2>1, StepsDescend DEF InClause
<1>5. CASE CallSubject \/ InsertSample \/ WriteLedger
  <2>1. /\ UNCHANGED <<clause, issued, cond>>
        /\ \/ pc = "sample" /\ pc' = "insert"
           \/ pc = "insert" /\ pc' = "ledger"
           \/ pc = "ledger" /\ pc' = "spend"
    BY <1>5 DEF CallSubject, InsertSample, WriteLedger, Goto, loop
  <2> QED
    BY <1>a, <1>b, <1>c, <2>1, StepsDescend DEF InClause
<1>6. CASE LoadSample \/ UpdateSpend
  <2>1. /\ pc \in {"sample", "spend"} /\ UNCHANGED <<clause, issued>>
        /\ \/ pc' = "judge" /\ cond' = Full
           \/ pc' = "sample" /\ cond' = cond + 1
    BY <1>6 DEF LoadSample, UpdateSpend, NextCondition, Goto
  <2> QED
    BY <1>a, <1>b, <1>c, <2>1, StepsDescend DEF InClause
<1>7. CASE RecordVerdict \/ ReplayVerdict
  <2>1. /\ pc = "judge" /\ pc' \in {"gate", "advance"}
        /\ UNCHANGED <<clause, cond>> /\ issued' = issued + 1 /\ issued < NMax
    BY <1>7 DEF RecordVerdict, ReplayVerdict, EndComparison, Goto,
                Inv1, ControlInv, InClause
  <2> QED
    BY <1>a, <1>b, <1>c, <2>1, StepsDescend DEF InClause
<1>8. CASE AdvanceClause
  <2>1. /\ pc = "advance" /\ UNCHANGED <<issued, cond>> /\ clause' = clause + 1
        /\ pc' = IF clause = NClauses THEN "complete" ELSE "clause"
    BY <1>8 DEF AdvanceClause, Goto
  <2>2. clause # NClauses => clause + 1 \in Clauses
    BY <1>a, <2>1, RunAssumption DEF Clauses
  <2> QED
    BY <1>a, <1>b, <1>c, <2>1, <2>2, StepsDescend
<1>9. CASE StampCompleted \/ FinishProgress
  <2>1. \/ pc = "complete" /\ pc' = "finish"
        \/ pc = "finish" /\ pc' = "reconcile"
    BY <1>9 DEF StampCompleted, FinishProgress, Goto
  <2> QED
    BY <1>b, <1>c, <2>1 DEF StepsLeft
<1> QED
  BY <1>e, <1>f, <1>1, <1>2, <1>3, <1>4, <1>5, <1>6, <1>7, <1>8, <1>9
     DEF Next, Runner

\* A process that is past the stamp left completed_at behind.
StampBeforeFinish ==
    pc \in {"finish", "reconcile"} => runRow = "completed"

LEMMA NextStamp == StampBeforeFinish /\ [Next]_vars => StampBeforeFinish'
<1> SUFFICES ASSUME StampBeforeFinish, [Next]_vars PROVE StampBeforeFinish'
  OBVIOUS
<1> USE DEF StampBeforeFinish, Goto, evidence
<1>1. CASE StampCompleted \/ FinishProgress \/ StampRefused \/ BudgetAbort
           \/ Reconcile \/ CallFails \/ Crash
  BY <1>1 DEF StampCompleted, FinishProgress, StampRefused, BudgetAbort,
              Reconcile, CallFails, Crash, Forget
<1>2. CASE StartRun \/ Resume \/ InitRuntime \/ Warmup \/ WarmupSpend
           \/ RepairBudget \/ EnterClause \/ RefuseClause \/ PassGate \/ CloseGate
  BY <1>2 DEF StartRun, Resume, InitRuntime, Warmup, WarmupSpend, RepairBudget,
              EnterClause, RefuseClause, PassGate, CloseGate
<1>3. CASE LoadSample \/ CallSubject \/ InsertSample \/ WriteLedger \/ UpdateSpend
           \/ RecordVerdict \/ ReplayVerdict \/ AdvanceClause
  BY <1>3 DEF LoadSample, CallSubject, InsertSample, WriteLedger, UpdateSpend,
              RecordVerdict, ReplayVerdict, AdvanceClause, EndComparison,
              NextCondition
<1>4. CASE Rest \/ UNCHANGED vars
  BY <1>4 DEF Rest, vars, process
<1> QED
  BY <1>1, <1>2, <1>3, <1>4 DEF Next, Runner

\* A process that stops of itself leaves a run that is stamped or out of budget.
AttemptDecides ==
    pc # "idle" /\ pc' = "idle" /\ faults' = faults =>
        runRow' = "completed" \/ progress' = "aborted_budget"

\* An attempt, be it of run_ablation or of resume_ablation, takes at most MaxSteps
\* steps, each of which brings its end nearer; when no crash and no failed call
\* ends it, the run is stamped or out of budget.
THEOREM AttemptEnds ==
    Spec => /\ [](Remaining \in 0..MaxSteps)
            /\ [][pc # "idle" => Remaining' < Remaining /\ AttemptDecides]_vars
<1>1. Spec => []Inv1
  BY InitInv1, NextInv1, PTL DEF Spec
<1>2. Spec => []StampBeforeFinish
  <2>1. Init => StampBeforeFinish
    BY DEF Init, IdleProcess, StampBeforeFinish
  <2> QED
    BY <2>1, NextStamp, PTL DEF Spec
<1>3. Inv1 => Remaining \in 0..MaxSteps
  BY StepsBounded
<1>4. ASSUME Inv1, StampBeforeFinish, [Next]_vars
      PROVE  [pc # "idle" => Remaining' < Remaining /\ AttemptDecides]_vars
  <2> SUFFICES ASSUME Next, pc # "idle"
               PROVE  Remaining' < Remaining /\ AttemptDecides
    BY <1>4
  <2>1. Remaining' < Remaining
    BY <1>4, AttemptShrinks
  <2>2. ASSUME pc' = "idle", faults' = faults
        PROVE  runRow' = "completed" \/ progress' = "aborted_budget"
    <3> USE DEF Goto
    <3>1. CASE StampRefused \/ BudgetAbort
      BY <3>1 DEF StampRefused, BudgetAbort, evidence
    <3>2. CASE Reconcile
      BY <1>4, <3>2 DEF Reconcile, StampBeforeFinish, evidence
    <3>3. CASE CallFails \/ Crash
      BY <1>4, <2>2, <3>3 DEF CallFails, Crash, Inv1, TypeOK
    <3>4. CASE StartRun \/ Resume \/ Rest
      BY <3>4 DEF StartRun, Resume, Rest
    <3>5. CASE InitRuntime \/ Warmup \/ WarmupSpend \/ RepairBudget
               \/ EnterClause \/ RefuseClause \/ PassGate \/ CloseGate
      BY <2>2, <3>5 DEF InitRuntime, Warmup, WarmupSpend, RepairBudget,
              EnterClause, RefuseClause, PassGate, CloseGate
    <3>6. CASE LoadSample \/ CallSubject \/ InsertSample \/ WriteLedger
               \/ UpdateSpend \/ RecordVerdict \/ ReplayVerdict \/ AdvanceClause
               \/ StampCompleted \/ FinishProgress
      BY <2>2, <3>6 DEF LoadSample, CallSubject, InsertSample, WriteLedger,
              UpdateSpend, RecordVerdict, ReplayVerdict, AdvanceClause,
              EndComparison, NextCondition, StampCompleted, FinishProgress
    <3> QED
      BY <3>1, <3>2, <3>3, <3>4, <3>5, <3>6 DEF Next, Runner
  <2> QED
    BY <2>1, <2>2 DEF AttemptDecides
<1> QED
  BY <1>1, <1>2, <1>3, <1>4, PTL DEF Spec

=============================================================================
