--------------------------- MODULE RunLaunchProofs ---------------------------
(***************************************************************************)
(* Proofs, for every value of the constants, of the safety properties of   *)
(* RunLaunch.  The inductive invariant is built in layers, each inductive  *)
(* relative to the ones before it:                                         *)
(*                                                                         *)
(*   PlaceInv    what a process has established at each of its steps       *)
(*   CompanyInv  which processes share a run, and what one of them knows   *)
(*               of the verdicts when it has the run to itself             *)
(*   PlanInv     how far a process is through the clauses of its run       *)
(*   ReportInv   what an evaluation has fetched                            *)
(*   GuardInv    a process can be told for each unfinished run             *)
(*   MoneyInv    how evidence, ledger and budget of a run differ           *)
(*   SpendInv    what the processes have added since they read the cap     *)
(***************************************************************************)
EXTENDS RunLaunch, FiniteSetTheorems, TLAPS

\* Steps between the entry of a clause and its last verdict.
InLoop == {"gate", "store", "account", "judge"}

\* Steps of a process whose run has its progress row.
Visible == InRun \ {"init"}

Place(p) ==
    /\ pc[p] \in {"cap", "guard", "load"} => job[p].skill \in Skills
    /\ pc[p] = "guard" => job[p].run = None
    /\ pc[p] \in InRun => /\ skillOf[RunOf(p)] # None
                          /\ job[p].at \in DOMAIN job[p].clauses
                          /\ job[p].k \in 1..Comparisons
    /\ pc[p] \in Visible => progress[RunOf(p)] # "absent"
    /\ pc[p] \in {"stamp", "finish", "reconcile"} => job[p].at = Len(job[p].clauses)

PlaceInv ==
    /\ \A p \in Procs : Place(p)
    /\ \A r \in RunIds :
        /\ progress[r] # "absent" => skillOf[r] # None
        /\ progress[r] = "aborted_budget" => r \in aborted
        /\ r \in completed => skillOf[r] # None

\* Two processes in one run make it shared.
Alone ==
    \A p, q \in Procs :
        p # q /\ pc[p] \in InRun /\ pc[q] \in InRun /\ RunOf(p) = RunOf(q) => RunOf(p) \in shared

\* A process that has its run to itself knows which verdicts are recorded.
Known(p) ==
    pc[p] \in InLoop /\ RunOf(p) \notin shared =>
        \A k \in job[p].k..Comparisons :
            k \in job[p].recorded <=> verdicts[<<RunOf(p), Clause(p), k>>] > 0

CompanyInv ==
    /\ Alone
    /\ \A p \in Procs : Known(p)
    /\ \A s \in Slots : verdicts[s] > 0 => skillOf[s[1]] # None
    /\ SecondVerdictNeedsCompany

Planned(p) ==
    pc[p] \in InRun /\ RunOf(p) \notin replanned =>
        {job[p].clauses[i] : i \in DOMAIN job[p].clauses} = plan[RunOf(p)]

\* The comparison k of the i-th clause is behind the process.
Passed(p, i, k) ==
    \/ i < job[p].at
    \/ i = job[p].at /\ pc[p] \in InLoop /\ k < job[p].k
    \/ i = job[p].at /\ pc[p] \in {"advance", "stamp", "finish", "reconcile"}

Measured(p) ==
    pc[p] \in InRun /\ RunOf(p) \notin shared =>
        \A i \in DOMAIN job[p].clauses, k \in 1..Comparisons :
            Passed(p, i, k) => verdicts[<<RunOf(p), job[p].clauses[i], k>>] > 0

PlanInv ==
    /\ \A p \in Procs : Planned(p) /\ Measured(p)
    /\ \A s \in Slots : verdicts[s] > 0 => s[2] \in plan[s[1]] \/ s[1] \in replanned
    /\ \A r \in completed \ (shared \cup replanned), c \in AllClauses, k \in 1..Comparisons :
        c \in plan[r] => verdicts[<<r, c, k>>] > 0

ReportInv ==
    /\ reader # "idle" => outcome = "none"
    /\ reading \subseteq completed

\* The runs of a skill that are unfinished for the guard, or about to be.
Inhabited(s) ==
    {r \in RunIds \ aborted : /\ skillOf[r] = s
                              /\ \/ progress[r] = "running"
                                 \/ \E p \in Procs : pc[p] \in Visible /\ RunOf(p) = r}

\* Each of them can be charged to a process of its own that is not starting a
\* run of the skill.
Charged(s, f) ==
    /\ f \in [Inhabited(s) -> Procs \ Starting(s)]
    /\ \A r, q \in Inhabited(s) : f[r] = f[q] => r = q

GuardInv == \A s \in Skills : \E f : Charged(s, f)

\* The money in the evidence of each run.
Evid == [r \in RunIds |-> EvidenceUsd(r)]

\* What a process in a run knows of its money, as long as no run is shared.
Cash(p) ==
    LET r == RunOf(p) IN
    /\ pc[p] = "repair" => job[p].seen = Evid[r]
    /\ pc[p] \in InRun \ {"repair", "account"} => Evid[r] <= budget[r]
    /\ pc[p] = "store" => budget[r] + 1 <= job[p].max
    /\ pc[p] = "account" => Evid[r] <= budget[r] + 1 /\ ledger[r] + 1 <= Evid[r]

MoneyInv ==
    /\ \A p \in Procs : pc[p] # "idle" => job[p].max \in Budgets
    /\ shared = {} => /\ \A p \in Procs : Cash(p)
                      /\ \A r \in RunIds : ledger[r] <= Evid[r] /\ Evid[r] <= LargestBudget

\* The most that a process still adds to the ledger.
Pot(p) ==
    IF pc[p] \in {"idle", "cap"} THEN 0
    ELSE IF pc[p] \in {"guard", "load"} THEN LargestBudget
    ELSE (IF job[p].max >= Evid[RunOf(p)] THEN job[p].max ELSE Evid[RunOf(p)]) - ledger[RunOf(p)]

\* One token for each dollar that a process may have added since it read the cap.
Tokens == {t \in Procs \X (1..LargestBudget) : t[2] > Pot(t[1])}

SpendInv == shared = {} => trailing < DailyCap + Cardinality(Tokens)

-----------------------------------------------------------------------------
(* What the steps have in common. *)

\* A step is a step of a process, the end of a day, or touches nothing that
\* processes read or write.
LEMMA Moves ==
  ASSUME [Next]_vars
  PROVE  \/ \E p \in Procs : Invoke(p) \/ Launcher(p) \/ Crash(p)
         \/ RollOff
         \/ UNCHANGED <<evidence, runtime, pc, job, observers, invocations>>
<1>1. Evaluate => UNCHANGED <<evidence, runtime, pc, job, observers, invocations>>
  BY DEF Evaluate
<1>2. Evaluator => UNCHANGED <<evidence, runtime, pc, job, observers, invocations>>
  BY DEF Evaluator, CheckEvaluable, FetchRuns, ReadVerdicts
<1>3. UNCHANGED vars => UNCHANGED <<evidence, runtime, pc, job, observers, invocations>>
  BY DEF vars
<1> QED
  BY <1>1, <1>2, <1>3 DEF Next, Rest

\* A selection of clauses is a sequence of clauses of the skill.
LEMMA SelectedType ==
  ASSUME NEW s \in Skills, NEW only \in AllClauses \cup {None}
  PROVE  Selected(s, only) \in Seq(AllClauses)
  BY LaunchAssumption DEF Selected

-----------------------------------------------------------------------------
(* Layer 1: types and places. *)

LEMMA TypeInit == ASSUME Init PROVE TypeOK /\ IsFiniteSet(samples) /\ PlaceInv
<1>1. NoJob \in Jobs
  BY LaunchAssumption DEF NoJob, Jobs
<1>2. TypeOK
  BY <1>1, LaunchAssumption DEF Init, TypeOK, ProgressStates, Outcomes, InRun
<1>3. IsFiniteSet(samples)
  BY FS_EmptySet DEF Init
<1>4. PlaceInv
  BY DEF Init, PlaceInv, Place, Visible, InRun
<1> QED
  BY <1>2, <1>3, <1>4

\* The samples are finite in number, so that they can be counted.
LEMMA SamplesFinite ==
  ASSUME IsFiniteSet(samples), [Next]_vars
  PROVE  IsFiniteSet(samples')
<1>1. samples' = samples \/ \E x : samples' = samples \cup {x}
  <2>1. ASSUME NEW p \in Procs, Store(p) PROVE samples' = samples \/ \E x : samples' = samples \cup {x}
    BY <2>1 DEF Store
  <2>2. ASSUME NEW p \in Procs, Invoke(p) \/ Launcher(p) \/ Crash(p), ~Store(p) PROVE samples' = samples
    BY <2>2 DEF Invoke, Launcher, Crash, CheckDailyCap, CheckIncomplete, Refuse, StartRun, InsertRun,
                InitRuntime, Resume, RepairBudget, EnterClause, PassGate, BudgetAbort, Account, Judge,
                Advance, Stamp, Finish, Reconcile, evidence
  <2>3. RollOff => samples' = samples
    BY DEF RollOff, evidence
  <2>4. UNCHANGED <<evidence, runtime, pc, job, observers, invocations>> => samples' = samples
    BY DEF evidence
  <2> QED
    BY <2>1, <2>2, <2>3, <2>4, Moves
<1> QED
  BY <1>1, FS_AddElement

LEMMA EvidenceType ==
  ASSUME IsFiniteSet(samples), NEW r
  PROVE  /\ IsFiniteSet({s \in samples : s[1] = r})
         /\ EvidenceUsd(r) \in Nat
<1>1. IsFiniteSet({s \in samples : s[1] = r})
  BY FS_Subset
<1> QED
  BY <1>1, FS_CardinalityType DEF EvidenceUsd

LEMMA JobEdits ==
  ASSUME NEW j \in Jobs, NEW n \in Nat, NEW R \in SUBSET (1..Comparisons)
  PROVE  /\ [j EXCEPT !.at = n] \in Jobs
         /\ [j EXCEPT !.seen = n] \in Jobs
         /\ [j EXCEPT !.k = n, !.recorded = R] \in Jobs
<1>1. [j EXCEPT !.at = n] \in Jobs
  BY DEF Jobs
<1>2. [j EXCEPT !.seen = n] \in Jobs
  BY DEF Jobs
<1>3. [j EXCEPT !.k = n, !.recorded = R] \in Jobs
  BY DEF Jobs
<1> QED
  BY <1>1, <1>2, <1>3

LEMMA JobFields ==
  ASSUME NEW j \in Jobs
  PROVE  /\ j.at \in Nat /\ j.k \in Nat /\ j.max \in Nat /\ j.seen \in Nat
         /\ j.recorded \in SUBSET (1..Comparisons)
         /\ j.clauses \in Seq(AllClauses) /\ Len(j.clauses) \in Nat
         /\ j.skill \in Skills \cup {None} /\ j.only \in AllClauses \cup {None}
         /\ j.run \in RunIds \cup {None}
  BY DEF Jobs

LEMMA NoJobType == NoJob \in Jobs
  BY LaunchAssumption DEF NoJob, Jobs

LEMMA TypeStep ==
  ASSUME TypeOK, PlaceInv, IsFiniteSet(samples), [Next]_vars
  PROVE  TypeOK'
<1>1. ASSUME NEW p \in Procs, Invoke(p)
      PROVE  TypeOK'
  <2>1. PICK s \in Skills, only \in ClauseOptions, r \in RunIds \cup {None}, max \in Budgets :
            job' = [job EXCEPT ![p] = [NoJob EXCEPT !.skill = s, !.only = only, !.run = r, !.max = max]]
    BY <1>1 DEF Invoke
  <2>3. [NoJob EXCEPT !.skill = s, !.only = only, !.run = r, !.max = max] \in Jobs
    BY NoJobType, LaunchAssumption DEF Jobs
  <2>2. job' \in [Procs -> Jobs] /\ \A q \in Procs \ {p} : job'[q] = job[q]
    BY <2>1, <2>3 DEF TypeOK
  <2>4. \A q \in Procs : pc'[q] \in InRun => job'[q].run \in RunIds
    BY <1>1, <2>2 DEF Invoke, Goto, TypeOK, InRun
  <2> QED
    <3>1. /\ pc' \in [Procs -> InRun \cup {"idle", "cap", "guard", "load"}]
          /\ invocations' \in 0..MaxInvocations
      BY <1>1, LaunchAssumption DEF Invoke, Goto, TypeOK
    <3>2. UNCHANGED <<evidence, runtime, evaluator, observers>>
      BY <1>1 DEF Invoke
    <3> QED
      BY <2>2, <2>4, <3>1, <3>2 DEF TypeOK, evidence, runtime, evaluator, observers
<1>2. ASSUME NEW p \in Procs, CheckDailyCap(p)
      PROVE  TypeOK'
  <2>1. job' \in [Procs -> Jobs]
    BY <1>2, NoJobType DEF CheckDailyCap, Ends, TypeOK
  <2>2. /\ pc' \in [Procs -> InRun \cup {"idle", "cap", "guard", "load"}]
        /\ \A q \in Procs : pc'[q] \in InRun => job'[q].run \in RunIds
    <3>1. pc' = [pc EXCEPT ![p] = pc'[p]] /\ pc'[p] \in {"idle", "guard", "load"}
      BY <1>2 DEF CheckDailyCap, Ends, Goto, TypeOK
    <3>2. \A q \in Procs \ {p} : job'[q] = job[q]
      BY <1>2 DEF CheckDailyCap, Ends, TypeOK
    <3> QED
      BY <3>1, <3>2 DEF TypeOK, InRun
  <2> QED
    BY <1>2, <2>1, <2>2 DEF CheckDailyCap, TypeOK, evidence, runtime, evaluator, observers
<1>3. ASSUME NEW p \in Procs, CheckIncomplete(p)
      PROVE  TypeOK'
  <2>1. job' \in [Procs -> Jobs]
    BY <1>3, NoJobType DEF CheckIncomplete, Ends, TypeOK
  <2> QED
    BY <1>3, <2>1, LaunchAssumption DEF CheckIncomplete, Ends, Goto, RunOf, TypeOK, InRun, ProgressStates, evidence, runtime, evaluator, observers
<1>4. ASSUME NEW p \in Procs, Refuse(p)
      PROVE  TypeOK'
  <2>1. job' \in [Procs -> Jobs]
    BY <1>4, NoJobType DEF Refuse, Ends, TypeOK
  <2> QED
    BY <1>4, <2>1, LaunchAssumption DEF Refuse, Ends, Goto, RunOf, TypeOK, InRun, ProgressStates, evidence, runtime, evaluator, observers
<1>5. ASSUME NEW p \in Procs, StartRun(p)
      PROVE  TypeOK'
  <2>1. Selected(job[p].skill, job[p].only) \in Seq(AllClauses)
    BY <1>5, SelectedType DEF StartRun, TypeOK, Jobs, PlaceInv, Place
  <2>2. PICK r \in RunIds : /\ InsertRun(p, r)
                          /\ job' = [job EXCEPT ![p] = Loaded(@, r, {}, 0)]
    BY <1>5 DEF StartRun
  <2>3. /\ Loaded(job[p], r, {}, 0) \in Jobs
        /\ Loaded(job[p], r, {}, 0).run = r
    BY <2>1 DEF Loaded, TypeOK, Jobs, NoJob
  <2>4. {Selected(job[p].skill, job[p].only)[i] : i \in DOMAIN Selected(job[p].skill, job[p].only)} \in SUBSET AllClauses
    BY <2>1
  <2>5. /\ skillOf' \in [RunIds -> Skills \cup {None}]
        /\ plan' \in [RunIds -> SUBSET AllClauses]
        /\ UNCHANGED <<completed, samples, verdicts>>
    BY <2>2, <2>4, <1>5 DEF InsertRun, TypeOK, Jobs, PlaceInv, Place, StartRun
  <2>6. /\ job' \in [Procs -> Jobs]
        /\ \A q \in Procs : pc'[q] \in InRun => job'[q].run \in RunIds
    BY <1>5, <2>2, <2>3 DEF StartRun, Goto, TypeOK
  <2> QED
    BY <1>5, <2>5, <2>6 DEF StartRun, Goto, TypeOK, InRun, runtime, evaluator, observers
<1>6. ASSUME NEW p \in Procs, InitRuntime(p)
      PROVE  TypeOK'
  BY <1>6, LaunchAssumption DEF InitRuntime, Goto, TypeOK, Jobs, ProgressStates, Outcomes, InRun, Slots, RunOf, evidence, runtime, evaluator, observers
<1>7. ASSUME NEW p \in Procs, Resume(p)
      PROVE  TypeOK'
  <2>1. Selected(job[p].skill, job[p].only) \in Seq(AllClauses)
    BY <1>7, SelectedType DEF Resume, TypeOK, Jobs, PlaceInv, Place
  <2>2. RunOf(p) \in RunIds
    BY <1>7 DEF Resume, RunOf, TypeOK, Jobs
  <2>3. EvidenceUsd(RunOf(p)) \in Nat /\ budget[RunOf(p)] \in Nat
    BY <2>2, EvidenceType DEF TypeOK
  <2> DEFINE kept == {s \in samples : s[1] = RunOf(p)}
             seen == IF EvidenceUsd(RunOf(p)) > budget[RunOf(p)] THEN EvidenceUsd(RunOf(p)) ELSE 0
  <2>4. kept \subseteq Slots /\ seen \in Nat
    BY <2>3 DEF TypeOK
  <2> HIDE DEF kept, seen
  <2>5. /\ Loaded(job[p], RunOf(p), kept, seen) \in Jobs
        /\ Loaded(job[p], RunOf(p), kept, seen).run = RunOf(p)
    BY <2>1, <2>2, <2>4 DEF Loaded, TypeOK, Jobs, NoJob
  <2>6. job' = [job EXCEPT ![p] = Loaded(@, RunOf(p), kept, seen)]
    BY <1>7 DEF Resume, kept, seen
  <2>7. /\ job' \in [Procs -> Jobs]
        /\ \A q \in Procs : pc'[q] \in InRun => job'[q].run \in RunIds
    BY <1>7, <2>2, <2>5, <2>6 DEF Resume, Goto, TypeOK
  <2>8. shared' \subseteq RunIds /\ replanned' \subseteq RunIds
    BY <1>7, <2>2 DEF Resume, TypeOK
  <2> QED
    BY <1>7, <2>7, <2>8 DEF Resume, Goto, TypeOK, InRun, evidence, runtime, evaluator
<1>8. ASSUME NEW p \in Procs, RepairBudget(p)
      PROVE  TypeOK'
  <2> DEFINE new == [job[p] EXCEPT !.seen = 0]
  <2>1. new \in Jobs
    BY JobEdits DEF TypeOK
  <2>2. job' = [job EXCEPT ![p] = new]
    BY <1>8 DEF RepairBudget, TypeOK, Jobs
  <2>3. new.run = job[p].run
    BY DEF TypeOK, Jobs
  <2> HIDE DEF new
  <2>4. job' \in [Procs -> Jobs] /\ \A q \in Procs : job'[q].run = job[q].run
    BY <2>1, <2>2, <2>3 DEF TypeOK
  <2> QED
    BY <1>8, <2>4, JobFields DEF RepairBudget, Goto, TypeOK, InRun, ProgressStates, RunOf, evidence, runtime, evaluator, observers
<1>9. ASSUME NEW p \in Procs, EnterClause(p)
      PROVE  TypeOK'
  <2> DEFINE new == [job[p] EXCEPT !.k = 1, !.recorded = ExistingVerdicts(p)]
  <2>1. new \in Jobs
    BY JobEdits DEF TypeOK, ExistingVerdicts
  <2>2. job' = [job EXCEPT ![p] = new]
    BY <1>9 DEF EnterClause, TypeOK, Jobs
  <2>3. new.run = job[p].run
    BY DEF TypeOK, Jobs
  <2> HIDE DEF new
  <2>4. job' \in [Procs -> Jobs] /\ \A q \in Procs : job'[q].run = job[q].run
    BY <2>1, <2>2, <2>3 DEF TypeOK
  <2> QED
    BY <1>9, <2>4 DEF EnterClause, Goto, TypeOK, InRun, ProgressStates, RunOf, evidence, runtime, evaluator, observers
<1>10. ASSUME NEW p \in Procs, PassGate(p)
      PROVE  TypeOK'
  BY <1>10, LaunchAssumption DEF PassGate, Goto, TypeOK, Jobs, ProgressStates, Outcomes, InRun, Slots, RunOf, evidence, runtime, evaluator, observers
<1>11. ASSUME NEW p \in Procs, BudgetAbort(p)
      PROVE  TypeOK'
  <2>1. job' \in [Procs -> Jobs]
    BY <1>11, NoJobType DEF BudgetAbort, Ends, TypeOK
  <2> QED
    BY <1>11, <2>1, LaunchAssumption DEF BudgetAbort, Ends, Goto, RunOf, TypeOK, InRun, ProgressStates, evidence, runtime, evaluator, observers
<1>12. ASSUME NEW p \in Procs, Store(p)
      PROVE  TypeOK'
  <2>1. SlotAt(p) \in Slots
    BY <1>12, LaunchAssumption DEF Store, TypeOK, PlaceInv, Place, Jobs, InRun, SlotAt, Clause, RunOf, Slots
  <2>2. job' \in [Procs -> Jobs]
    BY <1>12, NoJobType DEF Store, Ends, TypeOK
  <2> QED
    BY <1>12, <2>1, <2>2 DEF Store, Ends, Goto, TypeOK, InRun, runtime, evaluator, observers
<1>13. ASSUME NEW p \in Procs, Account(p)
      PROVE  TypeOK'
  <2>1. RunOf(p) \in RunIds
    BY <1>13 DEF Account, TypeOK, RunOf, InRun
  <2>2. ledger' \in [RunIds -> Nat] /\ budget' \in [RunIds -> Nat] /\ trailing' \in Int
    BY <1>13, <2>1 DEF Account, TypeOK
  <2> QED
    BY <1>13, <2>2 DEF Account, Goto, TypeOK, InRun, evidence, evaluator, observers
<1>14. ASSUME NEW p \in Procs, Judge(p)
      PROVE  TypeOK'
  <2> DEFINE new == [job[p] EXCEPT !.k = IF @ < Comparisons THEN @ + 1 ELSE @,
                                       !.recorded = IF job[p].k < Comparisons THEN @ ELSE {}]
  <2>1. new \in Jobs
    <3>1. /\ (IF job[p].k < Comparisons THEN job[p].k + 1 ELSE job[p].k) \in Nat
          /\ (IF job[p].k < Comparisons THEN job[p].recorded ELSE {}) \in SUBSET (1..Comparisons)
      BY JobFields, LaunchAssumption DEF TypeOK
    <3> QED
      BY <3>1, JobEdits DEF TypeOK
  <2>5. SlotAt(p) \in Slots
    BY <1>14, LaunchAssumption DEF Judge, TypeOK, PlaceInv, Place, Jobs, InRun, SlotAt, Clause, RunOf, Slots
  <2>6. verdicts' \in [Slots -> Nat]
    BY <1>14, <2>5 DEF Judge, TypeOK
  <2>2. job' = [job EXCEPT ![p] = new]
    BY <1>14 DEF Judge, TypeOK, Jobs
  <2>3. new.run = job[p].run
    BY DEF TypeOK, Jobs
  <2> HIDE DEF new
  <2>4. job' \in [Procs -> Jobs] /\ \A q \in Procs : job'[q].run = job[q].run
    BY <2>1, <2>2, <2>3 DEF TypeOK
  <2> QED
    BY <1>14, <2>4, <2>6 DEF Judge, Goto, TypeOK, InRun, ProgressStates, RunOf, runtime, evaluator, observers
<1>15. ASSUME NEW p \in Procs, Advance(p)
      PROVE  TypeOK'
  <2> DEFINE new == [job[p] EXCEPT !.at = IF @ < Len(job[p].clauses) THEN @ + 1 ELSE @]
  <2>1. new \in Jobs
    <3>1. (IF job[p].at < Len(job[p].clauses) THEN job[p].at + 1 ELSE job[p].at) \in Nat
      BY JobFields DEF TypeOK
    <3> QED
      BY <3>1, JobEdits DEF TypeOK
  <2>2. job' = [job EXCEPT ![p] = new]
    BY <1>15 DEF Advance, TypeOK, Jobs
  <2>3. new.run = job[p].run
    BY DEF TypeOK, Jobs
  <2> HIDE DEF new
  <2>4. job' \in [Procs -> Jobs] /\ \A q \in Procs : job'[q].run = job[q].run
    BY <2>1, <2>2, <2>3 DEF TypeOK
  <2> QED
    BY <1>15, <2>4 DEF Advance, Goto, TypeOK, InRun, ProgressStates, RunOf, evidence, runtime, evaluator, observers
<1>16. ASSUME NEW p \in Procs, Stamp(p)
      PROVE  TypeOK'
  <2>1. job' \in [Procs -> Jobs]
    BY <1>16, NoJobType DEF Stamp, Ends, TypeOK
  <2> QED
    BY <1>16, <2>1, LaunchAssumption DEF Stamp, Ends, Goto, RunOf, TypeOK, InRun, ProgressStates, evidence, runtime, evaluator, observers
<1>17. ASSUME NEW p \in Procs, Finish(p)
      PROVE  TypeOK'
  BY <1>17, LaunchAssumption DEF Finish, Goto, TypeOK, Jobs, ProgressStates, Outcomes, InRun, Slots, RunOf, evidence, runtime, evaluator, observers
<1>18. ASSUME NEW p \in Procs, Reconcile(p)
      PROVE  TypeOK'
  <2>1. EvidenceUsd(RunOf(p)) \in Nat
    BY EvidenceType
  <2>2. job' \in [Procs -> Jobs]
    BY <1>18, NoJobType DEF Reconcile, Ends, TypeOK
  <2> QED
    BY <1>18, <2>1, <2>2 DEF Reconcile, Ends, Goto, TypeOK, InRun, RunOf, evidence, evaluator, observers
<1>19. ASSUME NEW p \in Procs, Crash(p)
      PROVE  TypeOK'
  <2>1. job' \in [Procs -> Jobs]
    BY <1>19, NoJobType DEF Crash, Ends, TypeOK
  <2> QED
    BY <1>19, <2>1, LaunchAssumption DEF Crash, Ends, Goto, RunOf, TypeOK, InRun, ProgressStates, evidence, runtime, evaluator, observers
<1>20. CASE RollOff
  BY <1>20 DEF RollOff, TypeOK, evidence, evaluator, observers
<1>21. Evaluate => TypeOK'
  BY LaunchAssumption DEF Evaluate, TypeOK, Outcomes, evidence, runtime, observers
<1>22. CheckEvaluable => TypeOK'
  BY DEF CheckEvaluable, EvaluationEnds, TypeOK, Outcomes, evidence, runtime, observers
<1>23. FetchRuns => TypeOK'
  BY DEF FetchRuns, CompletedRuns, EvaluationEnds, TypeOK, Outcomes, evidence, runtime, observers
<1>24. ReadVerdicts => TypeOK'
  BY DEF ReadVerdicts, EvaluationEnds, TypeOK, Outcomes, evidence, runtime, observers
<1>25. UNCHANGED vars => TypeOK'
  BY DEF vars, evidence, runtime, evaluator, observers, TypeOK
<1> QED
  BY <1>1, <1>2, <1>3, <1>4, <1>5, <1>6, <1>7, <1>8, <1>9, <1>10, <1>11, <1>12, <1>13, <1>14, <1>15, <1>16, <1>17, <1>18, <1>19, <1>20, <1>21, <1>22, <1>23, <1>24, <1>25 DEF Next, Launcher, Evaluator, Rest

-----------------------------------------------------------------------------
(* What only grows. *)

Grows ==
    /\ \A r \in RunIds :
        /\ skillOf[r] # None => skillOf'[r] = skillOf[r] /\ plan'[r] = plan[r]
        /\ progress[r] # "absent" => progress'[r] # "absent"
    /\ \A s \in Slots : verdicts[s] <= verdicts'[s]
    /\ completed \subseteq completed' /\ samples \subseteq samples'
    /\ shared \subseteq shared' /\ replanned \subseteq replanned' /\ aborted \subseteq aborted'

LEMMA RowsGrow ==
  ASSUME TypeOK, [Next]_vars
  PROVE  Grows
<1>1. ASSUME NEW p \in Procs, Invoke(p)
      PROVE  Grows
  BY <1>1 DEF Invoke, Goto, Grows, TypeOK, InRun, RunOf, evidence, runtime, evaluator, observers
<1>2. ASSUME NEW p \in Procs, CheckDailyCap(p)
      PROVE  Grows
  BY <1>2 DEF CheckDailyCap, Ends, Goto, Grows, TypeOK, InRun, RunOf, evidence, runtime, evaluator, observers
<1>3. ASSUME NEW p \in Procs, CheckIncomplete(p)
      PROVE  Grows
  BY <1>3 DEF CheckIncomplete, Ends, Goto, Grows, TypeOK, InRun, RunOf, evidence, runtime, evaluator, observers
<1>4. ASSUME NEW p \in Procs, Refuse(p)
      PROVE  Grows
  BY <1>4 DEF Refuse, Ends, Goto, Grows, TypeOK, InRun, RunOf, evidence, runtime, evaluator, observers
<1>5. ASSUME NEW p \in Procs, StartRun(p)
      PROVE  Grows
  BY <1>5 DEF StartRun, InsertRun, Loaded, Goto, Grows, TypeOK, InRun, RunOf, evidence, runtime, evaluator, observers
<1>6. ASSUME NEW p \in Procs, InitRuntime(p)
      PROVE  Grows
  BY <1>6 DEF InitRuntime, Goto, Grows, TypeOK, InRun, RunOf, evidence, runtime, evaluator, observers
<1>7. ASSUME NEW p \in Procs, Resume(p)
      PROVE  Grows
  BY <1>7 DEF Resume, Loaded, Goto, Grows, TypeOK, InRun, RunOf, evidence, runtime, evaluator, observers
<1>8. ASSUME NEW p \in Procs, RepairBudget(p)
      PROVE  Grows
  BY <1>8 DEF RepairBudget, Goto, Grows, TypeOK, InRun, RunOf, evidence, runtime, evaluator, observers
<1>9. ASSUME NEW p \in Procs, EnterClause(p)
      PROVE  Grows
  BY <1>9 DEF EnterClause, Goto, Grows, TypeOK, InRun, RunOf, evidence, runtime, evaluator, observers
<1>10. ASSUME NEW p \in Procs, PassGate(p)
      PROVE  Grows
  BY <1>10 DEF PassGate, Goto, Grows, TypeOK, InRun, RunOf, evidence, runtime, evaluator, observers
<1>11. ASSUME NEW p \in Procs, BudgetAbort(p)
      PROVE  Grows
  BY <1>11 DEF BudgetAbort, Ends, Goto, Grows, TypeOK, InRun, RunOf, evidence, runtime, evaluator, observers
<1>12. ASSUME NEW p \in Procs, Store(p)
      PROVE  Grows
  BY <1>12 DEF Store, Ends, Goto, Grows, TypeOK, InRun, RunOf, evidence, runtime, evaluator, observers
<1>13. ASSUME NEW p \in Procs, Account(p)
      PROVE  Grows
  BY <1>13 DEF Account, Goto, Grows, TypeOK, InRun, RunOf, evidence, runtime, evaluator, observers
<1>14. ASSUME NEW p \in Procs, Judge(p)
      PROVE  Grows
  <2>1. \A s \in Slots : verdicts[s] <= verdicts'[s]
    <3>1. verdicts' = verdicts \/ verdicts' = [verdicts EXCEPT ![SlotAt(p)] = @ + 1]
      BY <1>14 DEF Judge
    <3> QED
      BY <3>1 DEF TypeOK
  <2> QED
    BY <1>14, <2>1 DEF Judge, Grows, runtime, observers
<1>15. ASSUME NEW p \in Procs, Advance(p)
      PROVE  Grows
  BY <1>15 DEF Advance, Goto, Grows, TypeOK, InRun, RunOf, evidence, runtime, evaluator, observers
<1>16. ASSUME NEW p \in Procs, Stamp(p)
      PROVE  Grows
  BY <1>16 DEF Stamp, Ends, Goto, Grows, TypeOK, InRun, RunOf, evidence, runtime, evaluator, observers
<1>17. ASSUME NEW p \in Procs, Finish(p)
      PROVE  Grows
  BY <1>17 DEF Finish, Goto, Grows, TypeOK, InRun, RunOf, evidence, runtime, evaluator, observers
<1>18. ASSUME NEW p \in Procs, Reconcile(p)
      PROVE  Grows
  BY <1>18 DEF Reconcile, Ends, Goto, Grows, TypeOK, InRun, RunOf, evidence, runtime, evaluator, observers
<1>19. ASSUME NEW p \in Procs, Crash(p)
      PROVE  Grows
  BY <1>19 DEF Crash, Ends, Goto, Grows, TypeOK, InRun, RunOf, evidence, runtime, evaluator, observers
<1>20. CASE RollOff
  BY <1>20 DEF RollOff, Grows, TypeOK, InRun, RunOf, evidence, runtime, evaluator, observers
<1>21. CASE UNCHANGED <<evidence, runtime, pc, job, observers, invocations>>
  BY <1>21 DEF Grows, TypeOK, InRun, RunOf, evidence, runtime, evaluator, observers
<1> QED
  BY <1>1, <1>2, <1>3, <1>4, <1>5, <1>6, <1>7, <1>8, <1>9, <1>10, <1>11, <1>12, <1>13, <1>14, <1>15, <1>16, <1>17, <1>18, <1>19, <1>20, <1>21, Moves DEF Launcher

\* A step of a process leaves the others where they are.
LEMMA Locality ==
  ASSUME TypeOK, NEW p \in Procs, Invoke(p) \/ Launcher(p) \/ Crash(p)
  PROVE  \A q \in Procs \ {p} : pc'[q] = pc[q] /\ job'[q] = job[q]
<1>1. Invoke(p) => \A q \in Procs \ {p} : pc'[q] = pc[q] /\ job'[q] = job[q]
  BY DEF Invoke, Goto, TypeOK
<1>2. CheckDailyCap(p) => \A q \in Procs \ {p} : pc'[q] = pc[q] /\ job'[q] = job[q]
  BY DEF CheckDailyCap, Ends, Goto, TypeOK
<1>3. CheckIncomplete(p) => \A q \in Procs \ {p} : pc'[q] = pc[q] /\ job'[q] = job[q]
  BY DEF CheckIncomplete, Ends, Goto, TypeOK
<1>4. Refuse(p) => \A q \in Procs \ {p} : pc'[q] = pc[q] /\ job'[q] = job[q]
  BY DEF Refuse, Ends, Goto, TypeOK
<1>5. StartRun(p) => \A q \in Procs \ {p} : pc'[q] = pc[q] /\ job'[q] = job[q]
  BY DEF StartRun, InsertRun, Loaded, Goto, TypeOK
<1>6. InitRuntime(p) => \A q \in Procs \ {p} : pc'[q] = pc[q] /\ job'[q] = job[q]
  BY DEF InitRuntime, Goto, TypeOK
<1>7. Resume(p) => \A q \in Procs \ {p} : pc'[q] = pc[q] /\ job'[q] = job[q]
  BY DEF Resume, Loaded, Goto, TypeOK
<1>8. RepairBudget(p) => \A q \in Procs \ {p} : pc'[q] = pc[q] /\ job'[q] = job[q]
  BY DEF RepairBudget, Goto, TypeOK
<1>9. EnterClause(p) => \A q \in Procs \ {p} : pc'[q] = pc[q] /\ job'[q] = job[q]
  BY DEF EnterClause, Goto, TypeOK
<1>10. PassGate(p) => \A q \in Procs \ {p} : pc'[q] = pc[q] /\ job'[q] = job[q]
  BY DEF PassGate, Goto, TypeOK
<1>11. BudgetAbort(p) => \A q \in Procs \ {p} : pc'[q] = pc[q] /\ job'[q] = job[q]
  BY DEF BudgetAbort, Ends, Goto, TypeOK
<1>12. Store(p) => \A q \in Procs \ {p} : pc'[q] = pc[q] /\ job'[q] = job[q]
  BY DEF Store, Ends, Goto, TypeOK
<1>13. Account(p) => \A q \in Procs \ {p} : pc'[q] = pc[q] /\ job'[q] = job[q]
  BY DEF Account, Goto, TypeOK
<1>14. Judge(p) => \A q \in Procs \ {p} : pc'[q] = pc[q] /\ job'[q] = job[q]
  BY DEF Judge, Goto, TypeOK
<1>15. Advance(p) => \A q \in Procs \ {p} : pc'[q] = pc[q] /\ job'[q] = job[q]
  BY DEF Advance, Goto, TypeOK
<1>16. Stamp(p) => \A q \in Procs \ {p} : pc'[q] = pc[q] /\ job'[q] = job[q]
  BY DEF Stamp, Ends, Goto, TypeOK
<1>17. Finish(p) => \A q \in Procs \ {p} : pc'[q] = pc[q] /\ job'[q] = job[q]
  BY DEF Finish, Goto, TypeOK
<1>18. Reconcile(p) => \A q \in Procs \ {p} : pc'[q] = pc[q] /\ job'[q] = job[q]
  BY DEF Reconcile, Ends, Goto, TypeOK
<1>19. Crash(p) => \A q \in Procs \ {p} : pc'[q] = pc[q] /\ job'[q] = job[q]
  BY DEF Crash, Ends, Goto, TypeOK
<1> QED
  BY <1>1, <1>2, <1>3, <1>4, <1>5, <1>6, <1>7, <1>8, <1>9, <1>10, <1>11, <1>12, <1>13, <1>14, <1>15, <1>16, <1>17, <1>18, <1>19 DEF Launcher

\* What a process knows when it enters the loop.
LEMMA Entering ==
  ASSUME TypeOK, NEW p \in Procs, Place(p), StartRun(p) \/ Resume(p)
  PROVE  /\ job'[p].run \in RunIds
         /\ job'[p].clauses = Selected(job[p].skill, job[p].only)
         /\ job'[p].clauses \in Seq(AllClauses) /\ 1 \in DOMAIN job'[p].clauses
         /\ job'[p].at = 1 /\ job'[p].k = 1 /\ 1 \in 1..Comparisons
         /\ job'[p].recorded = {} /\ job'[p].max = job[p].max
         /\ StartRun(p) => /\ job[p].run = None
                           /\ skillOf[job'[p].run] = None /\ InsertRun(p, job'[p].run)
                           /\ job'[p].existing = {} /\ job'[p].seen = 0
         /\ Resume(p) => /\ job'[p].run = RunOf(p)
                         /\ job'[p].existing = {s \in samples : s[1] = RunOf(p)}
                         /\ job'[p].seen = IF EvidenceUsd(RunOf(p)) > budget[RunOf(p)]
                                           THEN EvidenceUsd(RunOf(p)) ELSE 0
<1>1. /\ Selected(job[p].skill, job[p].only) \in Seq(AllClauses)
      /\ Selected(job[p].skill, job[p].only) # <<>>
  BY SelectedType DEF StartRun, Resume, Refused, TypeOK, Jobs, Place
<1>2. 1 \in 1..Comparisons
  BY LaunchAssumption
<1>3. CASE StartRun(p)
  <2>1. PICK r \in RunIds : /\ skillOf[r] = None /\ InsertRun(p, r)
                            /\ job' = [job EXCEPT ![p] = Loaded(@, r, {}, 0)]
    BY <1>3 DEF StartRun
  <2>2. job'[p] = Loaded(job[p], r, {}, 0)
    BY <2>1 DEF TypeOK
  <2>3. ~Resume(p)
    BY <1>3 DEF Resume, StartRun, RunOf
  <2>4. job'[p].run = r
    BY <2>2 DEF Loaded, NoJob
  <2>5. InsertRun(p, job'[p].run)
    BY <2>1, <2>4 DEF InsertRun
  <2>6. /\ job'[p].clauses = Selected(job[p].skill, job[p].only)
        /\ job'[p].at = 1 /\ job'[p].k = 1 /\ job'[p].recorded = {} /\ job'[p].max = job[p].max
        /\ job'[p].existing = {} /\ job'[p].seen = 0
    BY <2>2 DEF Loaded, NoJob
  <2>7. job[p].run = None /\ skillOf[job'[p].run] = None
    BY <1>3, <2>1, <2>4 DEF StartRun
  <2>8. job'[p].clauses \in Seq(AllClauses) /\ 1 \in DOMAIN job'[p].clauses
    BY <1>1, <2>6
  <2> QED
    BY <1>2, <2>3, <2>4, <2>5, <2>6, <2>7, <2>8
<1>4. CASE Resume(p)
  <2>1. job'[p] = Loaded(job[p], RunOf(p), {s \in samples : s[1] = RunOf(p)},
                         IF EvidenceUsd(RunOf(p)) > budget[RunOf(p)] THEN EvidenceUsd(RunOf(p)) ELSE 0)
    BY <1>4 DEF Resume, TypeOK
  <2>2. ~StartRun(p) /\ RunOf(p) \in RunIds
    BY <1>4 DEF Resume, StartRun, RunOf, TypeOK, Jobs
  <2> QED
    BY <1>1, <1>2, <1>4, <2>1, <2>2 DEF Loaded, NoJob
<1> QED
  BY <1>3, <1>4

LEMMA OwnPlace ==
  ASSUME NEW p \in Procs, TypeOK, PlaceInv, Place(p), Invoke(p) \/ Launcher(p) \/ Crash(p)
  PROVE  Place(p)'
<1>1. CASE Invoke(p)
  <2>1. pc'[p] = "cap" /\ job'[p].skill \in Skills
    BY <1>1 DEF Invoke, Goto, TypeOK, NoJob
  <2> QED
    BY <2>1 DEF Place, Visible, InRun
<1>2. CASE CheckDailyCap(p)
  <2>1. CASE OverDailyCap
    <3>1. pc'[p] = "idle"
      BY <1>2, <2>1 DEF CheckDailyCap, Ends, Goto, TypeOK
    <3> QED
      BY <3>1 DEF Place, Visible, InRun
  <2>2. CASE ~OverDailyCap
    <3>1. pc'[p] = (IF job[p].run = None THEN "guard" ELSE "load") /\ job' = job
      BY <1>2, <2>2 DEF CheckDailyCap, Goto, TypeOK
    <3> QED
      BY <1>2, <3>1 DEF Place, Visible, InRun, RunOf, CheckDailyCap
  <2> QED
    BY <2>1, <2>2
<1>3. CASE CheckIncomplete(p)
  BY <1>3, LaunchAssumption DEF CheckIncomplete, Ends, Goto, TypeOK, Place, Visible, InRun, RunOf, Jobs, NoJob, evidence, runtime, observers
<1>4. CASE Refuse(p)
  BY <1>4, LaunchAssumption DEF Refuse, Ends, Goto, TypeOK, Place, Visible, InRun, RunOf, Jobs, NoJob, evidence, runtime, observers
<1>5. CASE StartRun(p)
  <2>1. pc'[p] \in {"init", "repair", "clause"}
    BY <1>5 DEF StartRun, Goto, TypeOK
  <2>2. pc'[p] = "init" /\ job[p].skill \in Skills
    BY <1>5 DEF StartRun, Goto, Place, TypeOK
  <2>3. skillOf'[job'[p].run] # None
    BY <1>5, <2>2, Entering, LaunchAssumption DEF InsertRun, TypeOK
  <2> QED
    BY <1>5, <2>2, <2>3, Entering DEF Place, Visible, InRun, RunOf
<1>6. CASE InitRuntime(p)
  BY <1>6, LaunchAssumption DEF InitRuntime, Goto, TypeOK, Place, Visible, InRun, RunOf, Jobs, NoJob, evidence, runtime, observers
<1>7. CASE Resume(p)
  <2>1. pc'[p] \in {"init", "repair", "clause"}
    BY <1>7 DEF Resume, Goto, TypeOK
  <2>2. progress'[RunOf(p)] # "absent" /\ skillOf' = skillOf /\ progress' = progress /\ RunOf(p) # None
    BY <1>7 DEF Resume, Refused, RunOf, runtime, evidence
  <2> QED
    BY <1>7, <2>1, <2>2, Entering DEF Place, Visible, InRun, RunOf, PlaceInv
<1>8. CASE RepairBudget(p)
  BY <1>8, LaunchAssumption DEF RepairBudget, Goto, TypeOK, Place, Visible, InRun, RunOf, Jobs, NoJob, evidence, runtime, observers
<1>9. CASE EnterClause(p)
  BY <1>9, LaunchAssumption DEF EnterClause, Goto, TypeOK, Place, Visible, InRun, RunOf, Jobs, NoJob, evidence, runtime, observers
<1>10. CASE PassGate(p)
  BY <1>10, LaunchAssumption DEF PassGate, Goto, TypeOK, Place, Visible, InRun, RunOf, Jobs, NoJob, evidence, runtime, observers
<1>11. CASE BudgetAbort(p)
  BY <1>11, LaunchAssumption DEF BudgetAbort, Ends, Goto, TypeOK, Place, Visible, InRun, RunOf, Jobs, NoJob, evidence, runtime, observers
<1>12. CASE Store(p)
  BY <1>12, LaunchAssumption DEF Store, Ends, Goto, TypeOK, Place, Visible, InRun, RunOf, Jobs, NoJob, evidence, runtime, observers
<1>13. CASE Account(p)
  BY <1>13, LaunchAssumption DEF Account, Goto, TypeOK, Place, Visible, InRun, RunOf, Jobs, NoJob, evidence, runtime, observers
<1>14. CASE Judge(p)
  BY <1>14, LaunchAssumption DEF Judge, Goto, TypeOK, Place, Visible, InRun, RunOf, Jobs, NoJob, evidence, runtime, observers
<1>15. CASE Advance(p)
  BY <1>15, LaunchAssumption DEF Advance, Goto, TypeOK, Place, Visible, InRun, RunOf, Jobs, NoJob, evidence, runtime, observers
<1>16. CASE Stamp(p)
  BY <1>16, LaunchAssumption DEF Stamp, Ends, Goto, TypeOK, Place, Visible, InRun, RunOf, Jobs, NoJob, evidence, runtime, observers
<1>17. CASE Finish(p)
  BY <1>17, LaunchAssumption DEF Finish, Goto, TypeOK, Place, Visible, InRun, RunOf, Jobs, NoJob, evidence, runtime, observers
<1>18. CASE Reconcile(p)
  BY <1>18, LaunchAssumption DEF Reconcile, Ends, Goto, TypeOK, Place, Visible, InRun, RunOf, Jobs, NoJob, evidence, runtime, observers
<1>19. CASE Crash(p)
  BY <1>19, LaunchAssumption DEF Crash, Ends, Goto, TypeOK, Place, Visible, InRun, RunOf, Jobs, NoJob, evidence, runtime, observers
<1> QED
  BY <1>1, <1>2, <1>3, <1>4, <1>5, <1>6, <1>7, <1>8, <1>9, <1>10, <1>11, <1>12, <1>13, <1>14, <1>15, <1>16, <1>17, <1>18, <1>19 DEF Launcher

LEMMA RunRows ==
  ASSUME NEW p \in Procs, TypeOK, PlaceInv, Invoke(p) \/ Launcher(p) \/ Crash(p)
  PROVE  \A r \in RunIds :
            /\ progress'[r] # "absent" => skillOf'[r] # None
            /\ progress'[r] = "aborted_budget" => r \in aborted'
            /\ r \in completed' => skillOf'[r] # None
<1>1. CASE Invoke(p)
  BY <1>1, LaunchAssumption DEF Invoke, Goto, TypeOK, PlaceInv, Place, Visible, InRun, RunOf, evidence, runtime, observers
<1>2. CASE CheckDailyCap(p)
  BY <1>2, LaunchAssumption DEF CheckDailyCap, Ends, Goto, TypeOK, PlaceInv, Place, Visible, InRun, RunOf, evidence, runtime, observers
<1>3. CASE CheckIncomplete(p)
  BY <1>3, LaunchAssumption DEF CheckIncomplete, Ends, Goto, TypeOK, PlaceInv, Place, Visible, InRun, RunOf, evidence, runtime, observers
<1>4. CASE Refuse(p)
  BY <1>4, LaunchAssumption DEF Refuse, Ends, Goto, TypeOK, PlaceInv, Place, Visible, InRun, RunOf, evidence, runtime, observers
<1>5. CASE StartRun(p)
  BY <1>5, LaunchAssumption DEF StartRun, InsertRun, Loaded, Goto, TypeOK, PlaceInv, Place, Visible, InRun, RunOf, evidence, runtime, observers
<1>6. CASE InitRuntime(p)
  BY <1>6, LaunchAssumption DEF InitRuntime, Goto, TypeOK, PlaceInv, Place, Visible, InRun, RunOf, evidence, runtime, observers
<1>7. CASE Resume(p)
  BY <1>7, LaunchAssumption DEF Resume, Loaded, Goto, TypeOK, PlaceInv, Place, Visible, InRun, RunOf, evidence, runtime, observers
<1>8. CASE RepairBudget(p)
  BY <1>8, LaunchAssumption DEF RepairBudget, Goto, TypeOK, PlaceInv, Place, Visible, InRun, RunOf, evidence, runtime, observers
<1>9. CASE EnterClause(p)
  BY <1>9, LaunchAssumption DEF EnterClause, Goto, TypeOK, PlaceInv, Place, Visible, InRun, RunOf, evidence, runtime, observers
<1>10. CASE PassGate(p)
  BY <1>10, LaunchAssumption DEF PassGate, Goto, TypeOK, PlaceInv, Place, Visible, InRun, RunOf, evidence, runtime, observers
<1>11. CASE BudgetAbort(p)
  BY <1>11, LaunchAssumption DEF BudgetAbort, Ends, Goto, TypeOK, PlaceInv, Place, Visible, InRun, RunOf, evidence, runtime, observers
<1>12. CASE Store(p)
  BY <1>12, LaunchAssumption DEF Store, Ends, Goto, TypeOK, PlaceInv, Place, Visible, InRun, RunOf, evidence, runtime, observers
<1>13. CASE Account(p)
  BY <1>13, LaunchAssumption DEF Account, Goto, TypeOK, PlaceInv, Place, Visible, InRun, RunOf, evidence, runtime, observers
<1>14. CASE Judge(p)
  BY <1>14, LaunchAssumption DEF Judge, Goto, TypeOK, PlaceInv, Place, Visible, InRun, RunOf, evidence, runtime, observers
<1>15. CASE Advance(p)
  BY <1>15, LaunchAssumption DEF Advance, Goto, TypeOK, PlaceInv, Place, Visible, InRun, RunOf, evidence, runtime, observers
<1>16. CASE Stamp(p)
  BY <1>16, LaunchAssumption DEF Stamp, Ends, Goto, TypeOK, PlaceInv, Place, Visible, InRun, RunOf, evidence, runtime, observers
<1>17. CASE Finish(p)
  BY <1>17, LaunchAssumption DEF Finish, Goto, TypeOK, PlaceInv, Place, Visible, InRun, RunOf, evidence, runtime, observers
<1>18. CASE Reconcile(p)
  BY <1>18, LaunchAssumption DEF Reconcile, Ends, Goto, TypeOK, PlaceInv, Place, Visible, InRun, RunOf, evidence, runtime, observers
<1>19. CASE Crash(p)
  BY <1>19, LaunchAssumption DEF Crash, Ends, Goto, TypeOK, PlaceInv, Place, Visible, InRun, RunOf, evidence, runtime, observers
<1> QED
  BY <1>1, <1>2, <1>3, <1>4, <1>5, <1>6, <1>7, <1>8, <1>9, <1>10, <1>11, <1>12, <1>13, <1>14, <1>15, <1>16, <1>17, <1>18, <1>19 DEF Launcher

LEMMA PlaceStep ==
  ASSUME TypeOK, PlaceInv, [Next]_vars
  PROVE  PlaceInv'
<1>1. ASSUME NEW p \in Procs, Invoke(p) \/ Launcher(p) \/ Crash(p)
      PROVE  PlaceInv'
  <2>1. Place(p)'
    BY <1>1, OwnPlace DEF PlaceInv
  <2>2. ASSUME NEW q \in Procs \ {p} PROVE Place(q)'
    <3>1. pc'[q] = pc[q] /\ job'[q] = job[q]
      BY <1>1, Locality
    <3>2. pc[q] \in InRun => RunOf(q) \in RunIds
      BY DEF TypeOK, RunOf
    <3>3. pc[q] \in InRun => /\ skillOf[RunOf(q)] # None => skillOf'[RunOf(q)] # None
                             /\ progress[RunOf(q)] # "absent" => progress'[RunOf(q)] # "absent"
      BY <3>2, RowsGrow DEF Grows
    <3> QED
      BY <3>1, <3>3 DEF PlaceInv, Place, Visible, InRun, RunOf
  <2>3. \A r \in RunIds :
            /\ progress'[r] # "absent" => skillOf'[r] # None
            /\ progress'[r] = "aborted_budget" => r \in aborted'
            /\ r \in completed' => skillOf'[r] # None
    BY <1>1, RunRows
  <2>4. \A q \in Procs : Place(q)'
    BY <2>1, <2>2
  <2> QED
    BY <2>3, <2>4 DEF PlaceInv
<1>2. RollOff => PlaceInv'
  BY DEF RollOff, PlaceInv, Place, RunOf, evidence, observers
<1>3. UNCHANGED <<evidence, runtime, pc, job, observers, invocations>> => PlaceInv'
  BY DEF PlaceInv, Place, RunOf, evidence, runtime, observers
<1> QED
  BY <1>1, <1>2, <1>3, Moves

-----------------------------------------------------------------------------
(* Layer 2: company. *)

\* A process stays in its run with its clauses, or enters one.
LEMMA StaysIn ==
  ASSUME NEW p \in Procs, TypeOK, PlaceInv, Invoke(p) \/ Launcher(p) \/ Crash(p)
  PROVE  \/ pc'[p] \notin InRun
         \/ /\ pc[p] \in InRun
            /\ job'[p].run = job[p].run /\ job'[p].clauses = job[p].clauses
            /\ job'[p].max = job[p].max
         \/ StartRun(p) \/ Resume(p)
<1>1. CASE Invoke(p)
  BY <1>1 DEF Invoke, Goto, TypeOK, Jobs, InRun, NoJob, evidence
<1>2. CASE CheckDailyCap(p)
  BY <1>2 DEF CheckDailyCap, Ends, Goto, TypeOK, Jobs, InRun, NoJob, evidence
<1>3. CASE CheckIncomplete(p)
  BY <1>3 DEF CheckIncomplete, Ends, Goto, TypeOK, Jobs, InRun, NoJob, evidence
<1>4. CASE Refuse(p)
  BY <1>4 DEF Refuse, Ends, Goto, TypeOK, Jobs, InRun, NoJob, evidence
<1>5. CASE StartRun(p)
  BY <1>5 DEF StartRun, InsertRun, Loaded, Goto, TypeOK, Jobs, InRun, NoJob, evidence
<1>6. CASE InitRuntime(p)
  BY <1>6 DEF InitRuntime, Goto, TypeOK, Jobs, InRun, NoJob, evidence
<1>7. CASE Resume(p)
  BY <1>7 DEF Resume, Loaded, Goto, TypeOK, Jobs, InRun, NoJob, evidence
<1>8. CASE RepairBudget(p)
  BY <1>8 DEF RepairBudget, Goto, TypeOK, Jobs, InRun, NoJob, evidence
<1>9. CASE EnterClause(p)
  BY <1>9 DEF EnterClause, Goto, TypeOK, Jobs, InRun, NoJob, evidence
<1>10. CASE PassGate(p)
  BY <1>10 DEF PassGate, Goto, TypeOK, Jobs, InRun, NoJob, evidence
<1>11. CASE BudgetAbort(p)
  BY <1>11 DEF BudgetAbort, Ends, Goto, TypeOK, Jobs, InRun, NoJob, evidence
<1>12. CASE Store(p)
  BY <1>12 DEF Store, Ends, Goto, TypeOK, Jobs, InRun, NoJob, evidence
<1>13. CASE Account(p)
  BY <1>13 DEF Account, Goto, TypeOK, Jobs, InRun, NoJob, evidence
<1>14. CASE Judge(p)
  BY <1>14 DEF Judge, Goto, TypeOK, Jobs, InRun, NoJob, evidence
<1>15. CASE Advance(p)
  BY <1>15 DEF Advance, Goto, TypeOK, Jobs, InRun, NoJob, evidence
<1>16. CASE Stamp(p)
  BY <1>16 DEF Stamp, Ends, Goto, TypeOK, Jobs, InRun, NoJob, evidence
<1>17. CASE Finish(p)
  BY <1>17 DEF Finish, Goto, TypeOK, Jobs, InRun, NoJob, evidence
<1>18. CASE Reconcile(p)
  BY <1>18 DEF Reconcile, Ends, Goto, TypeOK, Jobs, InRun, NoJob, evidence
<1>19. CASE Crash(p)
  BY <1>19 DEF Crash, Ends, Goto, TypeOK, Jobs, InRun, NoJob, evidence
<1> QED
  BY <1>1, <1>2, <1>3, <1>4, <1>5, <1>6, <1>7, <1>8, <1>9, <1>10, <1>11, <1>12, <1>13, <1>14, <1>15, <1>16, <1>17, <1>18, <1>19 DEF Launcher

\* Verdicts are written one by one, by processes that do not know of one.
LEMMA VerdictMoves ==
  ASSUME NEW p \in Procs, TypeOK, Invoke(p) \/ Launcher(p) \/ Crash(p)
  PROVE  \/ verdicts' = verdicts
         \/ /\ pc[p] = "judge" /\ job[p].k \notin job[p].recorded
            /\ verdicts' = [verdicts EXCEPT ![SlotAt(p)] = @ + 1]
<1>1. CASE Invoke(p)
  BY <1>1 DEF Invoke, Goto, evidence, runtime
<1>2. CASE CheckDailyCap(p)
  BY <1>2 DEF CheckDailyCap, Ends, Goto, evidence, runtime
<1>3. CASE CheckIncomplete(p)
  BY <1>3 DEF CheckIncomplete, Ends, Goto, evidence, runtime
<1>4. CASE Refuse(p)
  BY <1>4 DEF Refuse, Ends, Goto, evidence, runtime
<1>5. CASE StartRun(p)
  BY <1>5 DEF StartRun, InsertRun, Loaded, Goto, evidence, runtime
<1>6. CASE InitRuntime(p)
  BY <1>6 DEF InitRuntime, Goto, evidence, runtime
<1>7. CASE Resume(p)
  BY <1>7 DEF Resume, Loaded, Goto, evidence, runtime
<1>8. CASE RepairBudget(p)
  BY <1>8 DEF RepairBudget, Goto, evidence, runtime
<1>9. CASE EnterClause(p)
  BY <1>9 DEF EnterClause, Goto, evidence, runtime
<1>10. CASE PassGate(p)
  BY <1>10 DEF PassGate, Goto, evidence, runtime
<1>11. CASE BudgetAbort(p)
  BY <1>11 DEF BudgetAbort, Ends, Goto, evidence, runtime
<1>12. CASE Store(p)
  BY <1>12 DEF Store, Ends, Goto, evidence, runtime
<1>13. CASE Account(p)
  BY <1>13 DEF Account, Goto, evidence, runtime
<1>14. CASE Judge(p)
  BY <1>14 DEF Judge, Goto, evidence, runtime
<1>15. CASE Advance(p)
  BY <1>15 DEF Advance, Goto, evidence, runtime
<1>16. CASE Stamp(p)
  BY <1>16 DEF Stamp, Ends, Goto, evidence, runtime
<1>17. CASE Finish(p)
  BY <1>17 DEF Finish, Goto, evidence, runtime
<1>18. CASE Reconcile(p)
  BY <1>18 DEF Reconcile, Ends, Goto, evidence, runtime
<1>19. CASE Crash(p)
  BY <1>19 DEF Crash, Ends, Goto, evidence, runtime
<1> QED
  BY <1>1, <1>2, <1>3, <1>4, <1>5, <1>6, <1>7, <1>8, <1>9, <1>10, <1>11, <1>12, <1>13, <1>14, <1>15, <1>16, <1>17, <1>18, <1>19 DEF Launcher

LEMMA SlotType ==
  ASSUME TypeOK, PlaceInv, NEW p \in Procs, pc[p] \in InRun
  PROVE  /\ RunOf(p) \in RunIds /\ Clause(p) \in AllClauses /\ job[p].k \in 1..Comparisons
         /\ SlotAt(p) \in Slots
<1>1. RunOf(p) \in RunIds /\ job[p] \in Jobs
  BY DEF TypeOK, RunOf
<1>2. Clause(p) \in AllClauses
  BY <1>1, JobFields DEF Clause, PlaceInv, Place
<1>3. job[p].k \in 1..Comparisons
  BY DEF PlaceInv, Place
<1> QED
  BY <1>1, <1>2, <1>3 DEF SlotAt, Slots

LEMMA AloneStep ==
  ASSUME TypeOK, PlaceInv, Alone, [Next]_vars
  PROVE  Alone'
<1>1. ASSUME NEW p \in Procs, Invoke(p) \/ Launcher(p) \/ Crash(p)
      PROVE  Alone'
  <2>1. ASSUME NEW q \in Procs \ {p}, pc'[p] \in InRun, pc'[q] \in InRun, job'[p].run = job'[q].run
        PROVE  job'[p].run \in shared'
    <3>1. pc[q] \in InRun /\ job'[q] = job[q]
      BY <1>1, <2>1, Locality
    <3>2. CASE pc[p] \in InRun /\ job'[p].run = job[p].run
      BY <2>1, <3>1, <3>2, RowsGrow DEF Alone, Grows, RunOf
    <3>3. CASE StartRun(p)
      <4>1. skillOf[job'[p].run] = None
        BY <3>3, Entering DEF PlaceInv
      <4> QED
        BY <2>1, <3>1, <4>1 DEF PlaceInv, Place, RunOf
    <3>4. CASE Resume(p)
      <4>1. job'[p].run = RunOf(p)
        BY <3>4, Entering DEF PlaceInv
      <4>2. q \in Others(p, RunOf(p))
        BY <2>1, <3>1, <4>1 DEF Others, RunOf
      <4> QED
        BY <3>4, <4>1, <4>2 DEF Resume
    <3> QED
      BY <1>1, <2>1, <3>2, <3>3, <3>4, StaysIn
  <2>2. ASSUME NEW q \in Procs \ {p}, NEW o \in Procs \ {p}, q # o,
               pc'[q] \in InRun, pc'[o] \in InRun, job'[q].run = job'[o].run
        PROVE  job'[q].run \in shared'
    <3>1. pc'[q] = pc[q] /\ job'[q] = job[q] /\ pc'[o] = pc[o] /\ job'[o] = job[o]
      BY <1>1, Locality
    <3> QED
      BY <2>2, <3>1, RowsGrow DEF Alone, Grows, RunOf
  <2> QED
    BY <2>1, <2>2 DEF Alone, RunOf
<1>2. RollOff => Alone'
  BY DEF RollOff, Alone, RunOf, observers
<1>3. UNCHANGED <<evidence, runtime, pc, job, observers, invocations>> => Alone'
  BY DEF Alone, RunOf, observers
<1> QED
  BY <1>1, <1>2, <1>3, Moves

\* No other process writes verdicts of a run that a process has to itself.
LEMMA OthersVerdicts ==
  ASSUME TypeOK, PlaceInv, Alone, NEW p \in Procs, Invoke(p) \/ Launcher(p) \/ Crash(p),
         NEW q \in Procs \ {p}, pc[q] \in InRun, RunOf(q) \notin shared,
         NEW c \in AllClauses, NEW k \in 1..Comparisons
  PROVE  verdicts'[<<RunOf(q), c, k>>] = verdicts[<<RunOf(q), c, k>>]
<1>1. CASE verdicts' = verdicts
  BY <1>1
<1>2. CASE pc[p] = "judge" /\ verdicts' = [verdicts EXCEPT ![SlotAt(p)] = @ + 1]
  <2>1. RunOf(p) # RunOf(q)
    BY <1>2 DEF Alone, InRun
  <2>2. SlotAt(p) # <<RunOf(q), c, k>>
    BY <2>1 DEF SlotAt
  <2>3. <<RunOf(q), c, k>> \in Slots
    BY DEF Slots, TypeOK, RunOf
  <2> QED
    BY <1>2, <2>2, <2>3 DEF TypeOK
<1> QED
  BY <1>1, <1>2, VerdictMoves

LEMMA OwnKnown ==
  ASSUME NEW p \in Procs, TypeOK, PlaceInv, Known(p), Invoke(p) \/ Launcher(p) \/ Crash(p)
  PROVE  Known(p)'
<1>1. CASE Invoke(p)
  <2>1. pc'[p] \notin InLoop
    BY <1>1 DEF Invoke, Ends, Goto, TypeOK, InLoop
  <2> QED
    BY <2>1 DEF Known
<1>2. CASE CheckDailyCap(p)
  <2>1. pc'[p] \notin InLoop
    BY <1>2 DEF CheckDailyCap, Ends, Goto, TypeOK, InLoop
  <2> QED
    BY <2>1 DEF Known
<1>3. CASE CheckIncomplete(p)
  <2>1. pc'[p] \notin InLoop
    BY <1>3 DEF CheckIncomplete, Ends, Goto, TypeOK, InLoop
  <2> QED
    BY <2>1 DEF Known
<1>4. CASE Refuse(p)
  <2>1. pc'[p] \notin InLoop
    BY <1>4 DEF Refuse, Ends, Goto, TypeOK, InLoop
  <2> QED
    BY <2>1 DEF Known
<1>5. CASE StartRun(p)
  <2>1. pc'[p] \notin InLoop
    BY <1>5 DEF StartRun, Ends, Goto, TypeOK, InLoop
  <2> QED
    BY <2>1 DEF Known
<1>6. CASE InitRuntime(p)
  <2>1. pc'[p] \notin InLoop
    BY <1>6 DEF InitRuntime, Ends, Goto, TypeOK, InLoop
  <2> QED
    BY <2>1 DEF Known
<1>7. CASE Resume(p)
  <2>1. pc'[p] \notin InLoop
    BY <1>7 DEF Resume, Ends, Goto, TypeOK, InLoop
  <2> QED
    BY <2>1 DEF Known
<1>8. CASE RepairBudget(p)
  <2>1. pc'[p] \notin InLoop
    BY <1>8 DEF RepairBudget, Ends, Goto, TypeOK, InLoop
  <2> QED
    BY <2>1 DEF Known
<1>9. CASE EnterClause(p)
  <2>1. job'[p].k = 1 /\ job'[p].recorded = ExistingVerdicts(p) /\ job'[p].run = RunOf(p)
        /\ job'[p].clauses = job[p].clauses /\ job'[p].at = job[p].at /\ verdicts' = verdicts
    BY <1>9 DEF EnterClause, TypeOK, Jobs, RunOf, evidence
  <2> QED
    BY <2>1, LaunchAssumption DEF Known, ExistingVerdicts, Clause, RunOf
<1>10. CASE PassGate(p)
  <2>1. pc'[p] \in InLoop => job'[p] = job[p] /\ verdicts' = verdicts /\ pc[p] \in InLoop /\ shared' = shared
    BY <1>10 DEF PassGate, Ends, Goto, TypeOK, InLoop, evidence, observers
  <2> QED
    BY <2>1 DEF Known, RunOf, Clause
<1>11. CASE BudgetAbort(p)
  <2>1. pc'[p] \notin InLoop
    BY <1>11 DEF BudgetAbort, Ends, Goto, TypeOK, InLoop
  <2> QED
    BY <2>1 DEF Known
<1>12. CASE Store(p)
  <2>1. pc'[p] \in InLoop => job'[p] = job[p] /\ verdicts' = verdicts /\ pc[p] \in InLoop /\ shared' = shared
    BY <1>12 DEF Store, Ends, Goto, TypeOK, InLoop, evidence, observers
  <2> QED
    BY <2>1 DEF Known, RunOf, Clause
<1>13. CASE Account(p)
  <2>1. pc'[p] \in InLoop => job'[p] = job[p] /\ verdicts' = verdicts /\ pc[p] \in InLoop /\ shared' = shared
    BY <1>13 DEF Account, Ends, Goto, TypeOK, InLoop, evidence, observers
  <2> QED
    BY <2>1 DEF Known, RunOf, Clause
<1>14. CASE Judge(p)
  <2>1. SlotAt(p) \in Slots /\ job[p].k \in 1..Comparisons
    BY <1>14, SlotType DEF Judge, InRun
  <2>2. /\ job'[p].run = RunOf(p) /\ job'[p].clauses = job[p].clauses /\ job'[p].at = job[p].at
        /\ job[p].k < Comparisons => /\ job'[p].k = job[p].k + 1
                                     /\ job'[p].recorded = job[p].recorded
        /\ ~(job[p].k < Comparisons) => pc'[p] = "advance"
    BY <1>14 DEF Judge, Goto, TypeOK, Jobs, RunOf
  <2>3. ASSUME job[p].k < Comparisons, NEW k \in job[p].k + 1..Comparisons
        PROVE  verdicts'[<<RunOf(p), Clause(p), k>>] = verdicts[<<RunOf(p), Clause(p), k>>]
    <3>1. SlotAt(p) # <<RunOf(p), Clause(p), k>>
      BY <2>1, <2>3, LaunchAssumption DEF SlotAt
    <3>2. <<RunOf(p), Clause(p), k>> \in Slots
      BY <1>14, <2>1, <2>3, SlotType, LaunchAssumption DEF Judge, InRun, Slots
    <3> QED
      BY <1>14, <3>1, <3>2 DEF Judge, TypeOK
  <2>4. shared' = shared /\ pc[p] \in InLoop
    BY <1>14 DEF Judge, observers, InLoop
  <2>5. CASE job[p].k < Comparisons
    <3>1. \A k \in job[p].k + 1..Comparisons : k \in job[p].k..Comparisons
      BY <2>1, LaunchAssumption
    <3>2. job'[p].clauses[job'[p].at] = Clause(p)
      BY <2>2 DEF Clause
    <3> QED
      BY <2>2, <2>3, <2>4, <2>5, <3>1, <3>2 DEF Known, RunOf, Clause
  <2>6. CASE ~(job[p].k < Comparisons)
    BY <2>2, <2>6 DEF Known, InLoop
  <2> QED
    BY <2>5, <2>6
<1>15. CASE Advance(p)
  <2>1. pc'[p] \notin InLoop
    BY <1>15 DEF Advance, Ends, Goto, TypeOK, InLoop
  <2> QED
    BY <2>1 DEF Known
<1>16. CASE Stamp(p)
  <2>1. pc'[p] \notin InLoop
    BY <1>16 DEF Stamp, Ends, Goto, TypeOK, InLoop
  <2> QED
    BY <2>1 DEF Known
<1>17. CASE Finish(p)
  <2>1. pc'[p] \notin InLoop
    BY <1>17 DEF Finish, Ends, Goto, TypeOK, InLoop
  <2> QED
    BY <2>1 DEF Known
<1>18. CASE Reconcile(p)
  <2>1. pc'[p] \notin InLoop
    BY <1>18 DEF Reconcile, Ends, Goto, TypeOK, InLoop
  <2> QED
    BY <2>1 DEF Known
<1>19. CASE Crash(p)
  <2>1. pc'[p] \notin InLoop
    BY <1>19 DEF Crash, Ends, Goto, TypeOK, InLoop
  <2> QED
    BY <2>1 DEF Known
<1> QED
  BY <1>1, <1>2, <1>3, <1>4, <1>5, <1>6, <1>7, <1>8, <1>9, <1>10, <1>11, <1>12, <1>13, <1>14, <1>15, <1>16, <1>17, <1>18, <1>19 DEF Launcher

LEMMA CompanyStep ==
  ASSUME TypeOK, PlaceInv, CompanyInv, [Next]_vars
  PROVE  CompanyInv'
<1>1. Alone'
  BY AloneStep DEF CompanyInv
<1>2. ASSUME NEW p \in Procs, Invoke(p) \/ Launcher(p) \/ Crash(p)
      PROVE  CompanyInv'
  <2>1. Known(p)'
    BY <1>2, OwnKnown DEF CompanyInv
  <2>2. ASSUME NEW q \in Procs \ {p} PROVE Known(q)'
    <3>1. pc'[q] = pc[q] /\ job'[q] = job[q] /\ shared \subseteq shared'
      BY <1>2, Locality, RowsGrow DEF Grows
    <3>2. ASSUME pc[q] \in InLoop, RunOf(q) \notin shared, NEW k \in job[q].k..Comparisons
          PROVE  verdicts'[<<RunOf(q), Clause(q), k>>] = verdicts[<<RunOf(q), Clause(q), k>>]
      <4>1. pc[q] \in InRun
        BY <3>2 DEF InRun, InLoop
      <4>2. k \in 1..Comparisons /\ Clause(q) \in AllClauses
        BY <3>2, <4>1, SlotType, LaunchAssumption
      <4> QED
        BY <1>2, <3>2, <4>1, <4>2, OthersVerdicts DEF CompanyInv
    <3> QED
      BY <3>1, <3>2 DEF CompanyInv, Known, RunOf, Clause
  <2>3. ASSUME NEW s \in Slots, verdicts'[s] # verdicts[s]
        PROVE  /\ pc[p] = "judge" /\ s = SlotAt(p) /\ verdicts'[s] = verdicts[s] + 1
               /\ job[p].k \notin job[p].recorded
    BY <1>2, <2>3, VerdictMoves DEF TypeOK
  <2>4. ASSUME NEW s \in Slots, verdicts'[s] > 0 PROVE skillOf'[s[1]] # None
    <3>1. s[1] \in RunIds /\ (skillOf[s[1]] # None => skillOf'[s[1]] # None)
      BY RowsGrow DEF Grows, Slots
    <3>2. CASE verdicts'[s] = verdicts[s]
      BY <2>4, <3>1, <3>2 DEF CompanyInv
    <3>3. CASE verdicts'[s] # verdicts[s]
      BY <2>3, <3>1, <3>3 DEF PlaceInv, Place, SlotAt, InRun
    <3> QED
      BY <3>2, <3>3
  <2>5. ASSUME NEW s \in Slots, verdicts'[s] > 1 PROVE s[1] \in shared'
    <3>1. shared \subseteq shared'
      BY RowsGrow DEF Grows
    <3>2. CASE verdicts'[s] = verdicts[s]
      BY <2>5, <3>1, <3>2 DEF CompanyInv, SecondVerdictNeedsCompany
    <3>3. CASE verdicts'[s] # verdicts[s]
      <4>1. pc[p] = "judge" /\ s = SlotAt(p) /\ verdicts[s] > 0 /\ job[p].k \notin job[p].recorded
        BY <2>3, <2>5, <3>3 DEF TypeOK
      <4>2. s = <<RunOf(p), Clause(p), job[p].k>> /\ s[1] = RunOf(p)
        BY <4>1 DEF SlotAt
      <4>3. job[p].k \in job[p].k..Comparisons
        BY <4>1, SlotType, LaunchAssumption DEF InRun
      <4>4. Known(p) /\ pc[p] \in InLoop
        BY <4>1 DEF CompanyInv, InLoop
      <4> QED
        BY <3>1, <4>1, <4>2, <4>3, <4>4 DEF Known
    <3> QED
      BY <3>2, <3>3
  <2>6. \A q \in Procs : Known(q)'
    BY <2>1, <2>2
  <2>7. SecondVerdictNeedsCompany'
    BY <2>5 DEF SecondVerdictNeedsCompany
  <2> QED
    BY <1>1, <2>4, <2>6, <2>7 DEF CompanyInv
<1>3. RollOff => CompanyInv'
  BY <1>1 DEF RollOff, CompanyInv, Known, Clause, SecondVerdictNeedsCompany, RunOf, evidence, observers
<1>4. UNCHANGED <<evidence, runtime, pc, job, observers, invocations>> => CompanyInv'
  BY <1>1 DEF CompanyInv, Known, Clause, SecondVerdictNeedsCompany, RunOf, evidence, observers
<1> QED
  BY <1>2, <1>3, <1>4, Moves

-----------------------------------------------------------------------------
(* Layer 3: the plan. *)

LEMMA OwnPlanned ==
  ASSUME TypeOK, PlaceInv, NEW p \in Procs, Invoke(p) \/ Launcher(p) \/ Crash(p),
         [Next]_vars, Planned(p)
  PROVE  Planned(p)'
<1>1. CASE pc'[p] \notin InRun
  BY <1>1 DEF Planned
<1>2. CASE /\ pc[p] \in InRun
           /\ job'[p].run = job[p].run /\ job'[p].clauses = job[p].clauses
  <2>1. RunOf(p) \in RunIds /\ skillOf[RunOf(p)] # None
    BY <1>2, SlotType DEF PlaceInv, Place
  <2>2. plan'[RunOf(p)] = plan[RunOf(p)] /\ replanned \subseteq replanned'
    BY <2>1, RowsGrow DEF Grows
  <2> QED
    BY <1>2, <2>2 DEF Planned, RunOf
<1>3. CASE StartRun(p)
  <2>1. /\ job'[p].run \in RunIds /\ job'[p].clauses = Selected(job[p].skill, job[p].only)
        /\ InsertRun(p, job'[p].run)
    BY <1>3, Entering DEF PlaceInv
  <2>2. plan'[job'[p].run] = {job'[p].clauses[i] : i \in DOMAIN job'[p].clauses}
    BY <2>1 DEF InsertRun, TypeOK
  <2> QED
    BY <2>2 DEF Planned, RunOf
<1>4. CASE Resume(p)
  <2>1. job'[p].run = RunOf(p) /\ job'[p].clauses = Selected(job[p].skill, job[p].only)
    BY <1>4, Entering DEF PlaceInv
  <2>2. \/ {job'[p].clauses[i] : i \in DOMAIN job'[p].clauses} = plan[RunOf(p)]
        \/ RunOf(p) \in replanned'
    BY <1>4, <2>1 DEF Resume
  <2>3. plan' = plan
    BY <1>4 DEF Resume, evidence
  <2> QED
    BY <2>1, <2>2, <2>3 DEF Planned, RunOf
<1> QED
  BY <1>1, <1>2, <1>3, <1>4, StaysIn

LEMMA OwnMeasured ==
  ASSUME NEW p \in Procs, TypeOK, PlaceInv, Known(p), Measured(p), [Next]_vars, IsFiniteSet(samples), Invoke(p) \/ Launcher(p) \/ Crash(p)
  PROVE  Measured(p)'
<1>1. CASE Invoke(p)
  <2>1. pc'[p] \notin InRun
    BY <1>1 DEF Invoke, Ends, Goto, TypeOK, InRun
  <2> QED
    BY <2>1 DEF Measured
<1>2. CASE CheckDailyCap(p)
  <2>1. pc'[p] \notin InRun
    BY <1>2 DEF CheckDailyCap, Ends, Goto, TypeOK, InRun
  <2> QED
    BY <2>1 DEF Measured
<1>3. CASE CheckIncomplete(p)
  <2>1. pc'[p] \notin InRun
    BY <1>3 DEF CheckIncomplete, Ends, Goto, TypeOK, InRun
  <2> QED
    BY <2>1 DEF Measured
<1>4. CASE Refuse(p)
  <2>1. pc'[p] \notin InRun
    BY <1>4 DEF Refuse, Ends, Goto, TypeOK, InRun
  <2> QED
    BY <2>1 DEF Measured
<1>5. CASE StartRun(p)
  <2>1. job'[p].at = 1 /\ job'[p].clauses \in Seq(AllClauses)
    BY <1>5, Entering DEF PlaceInv
  <2>2. pc'[p] \in {"init", "repair", "clause"}
    BY <1>5 DEF StartRun, Goto, TypeOK
  <2>3. \A i \in DOMAIN job'[p].clauses, k \in 1..Comparisons : ~Passed(p, i, k)'
    BY <2>1, <2>2 DEF Passed, InLoop
  <2> QED
    BY <2>3 DEF Measured
<1>6. CASE InitRuntime(p)
  <2>1. pc'[p] \in InRun => /\ job'[p].run = job[p].run /\ job'[p].clauses = job[p].clauses
                           /\ job'[p].at = job[p].at /\ job'[p].k = job[p].k
                           /\ verdicts' = verdicts /\ shared' = shared
    BY <1>6 DEF InitRuntime, Ends, Goto, TypeOK, Jobs, InRun, evidence, observers
  <2>2. pc'[p] \in InRun => pc[p] \in InRun /\ \A i, k : Passed(p, i, k)' => Passed(p, i, k)
    BY <1>6, <2>1 DEF InitRuntime, Ends, Goto, TypeOK, InRun, InLoop, Passed
  <2> QED
    BY <2>1, <2>2 DEF Measured, RunOf
<1>7. CASE Resume(p)
  <2>1. job'[p].at = 1 /\ job'[p].clauses \in Seq(AllClauses)
    BY <1>7, Entering DEF PlaceInv
  <2>2. pc'[p] \in {"init", "repair", "clause"}
    BY <1>7 DEF Resume, Goto, TypeOK
  <2>3. \A i \in DOMAIN job'[p].clauses, k \in 1..Comparisons : ~Passed(p, i, k)'
    BY <2>1, <2>2 DEF Passed, InLoop
  <2> QED
    BY <2>3 DEF Measured
<1>8. CASE RepairBudget(p)
  <2>1. pc'[p] \in InRun => /\ job'[p].run = job[p].run /\ job'[p].clauses = job[p].clauses
                           /\ job'[p].at = job[p].at /\ job'[p].k = job[p].k
                           /\ verdicts' = verdicts /\ shared' = shared
    BY <1>8 DEF RepairBudget, Ends, Goto, TypeOK, Jobs, InRun, evidence, observers
  <2>2. pc'[p] \in InRun => pc[p] \in InRun /\ \A i, k : Passed(p, i, k)' => Passed(p, i, k)
    BY <1>8, <2>1 DEF RepairBudget, Ends, Goto, TypeOK, InRun, InLoop, Passed
  <2> QED
    BY <2>1, <2>2 DEF Measured, RunOf
<1>9. CASE EnterClause(p)
  <2>1. /\ job'[p].run = job[p].run /\ job'[p].clauses = job[p].clauses
        /\ job'[p].at = job[p].at /\ job'[p].k = 1
        /\ verdicts' = verdicts /\ shared' = shared /\ pc'[p] = "gate" /\ pc[p] \in InRun
    BY <1>9 DEF EnterClause, Goto, TypeOK, Jobs, InRun, evidence, observers
  <2>2. \A i \in DOMAIN job'[p].clauses, k \in 1..Comparisons : Passed(p, i, k)' => Passed(p, i, k)
    BY <2>1, LaunchAssumption DEF Passed, InLoop
  <2> QED
    BY <2>1, <2>2 DEF Measured, RunOf
<1>10. CASE PassGate(p)
  <2>1. pc'[p] \in InRun => /\ job'[p].run = job[p].run /\ job'[p].clauses = job[p].clauses
                           /\ job'[p].at = job[p].at /\ job'[p].k = job[p].k
                           /\ verdicts' = verdicts /\ shared' = shared
    BY <1>10 DEF PassGate, Ends, Goto, TypeOK, Jobs, InRun, evidence, observers
  <2>2. pc'[p] \in InRun => pc[p] \in InRun /\ \A i, k : Passed(p, i, k)' => Passed(p, i, k)
    BY <1>10, <2>1 DEF PassGate, Ends, Goto, TypeOK, InRun, InLoop, Passed
  <2> QED
    BY <2>1, <2>2 DEF Measured, RunOf
<1>11. CASE BudgetAbort(p)
  <2>1. pc'[p] \notin InRun
    BY <1>11 DEF BudgetAbort, Ends, Goto, TypeOK, InRun
  <2> QED
    BY <2>1 DEF Measured
<1>12. CASE Store(p)
  <2>1. CASE Ends(p)
    <3>1. pc'[p] \notin InRun
      BY <2>1 DEF Ends, Goto, TypeOK, InRun
    <3> QED
      BY <3>1 DEF Measured
  <2>2. CASE ~Ends(p)
    <3>1. /\ job' = job /\ verdicts' = verdicts /\ shared' = shared
          /\ pc[p] = "store" /\ pc'[p] = "account"
      BY <1>12, <2>2 DEF Store, Goto, TypeOK, evidence, observers
    <3>2. \A i, k : Passed(p, i, k)' => Passed(p, i, k)
      BY <3>1 DEF Passed, InLoop
    <3> QED
      BY <3>1, <3>2 DEF Measured, RunOf, InRun
  <2> QED
    BY <2>1, <2>2
<1>13. CASE Account(p)
  <2>1. pc'[p] \in InRun => /\ job'[p].run = job[p].run /\ job'[p].clauses = job[p].clauses
                           /\ job'[p].at = job[p].at /\ job'[p].k = job[p].k
                           /\ verdicts' = verdicts /\ shared' = shared
    BY <1>13 DEF Account, Ends, Goto, TypeOK, Jobs, InRun, evidence, observers
  <2>2. pc'[p] \in InRun => pc[p] \in InRun /\ \A i, k : Passed(p, i, k)' => Passed(p, i, k)
    BY <1>13, <2>1 DEF Account, Ends, Goto, TypeOK, InRun, InLoop, Passed
  <2> QED
    BY <2>1, <2>2 DEF Measured, RunOf
<1>14. CASE Judge(p)
  <2>1. /\ job'[p].run = job[p].run /\ job'[p].clauses = job[p].clauses
        /\ job'[p].at = job[p].at /\ shared' = shared /\ pc[p] = "judge"
        /\ job[p].k < Comparisons => job'[p].k = job[p].k + 1 /\ pc'[p] = "gate"
        /\ ~(job[p].k < Comparisons) => pc'[p] = "advance"
    BY <1>14 DEF Judge, Goto, TypeOK, Jobs, observers
  <2>2. SlotAt(p) \in Slots /\ job[p].k \in 1..Comparisons /\ job[p].at \in Nat /\ RunOf(p) \in RunIds
    BY <2>1, SlotType, JobFields DEF InRun, TypeOK
  <2>3. RunOf(p) \notin shared => verdicts'[SlotAt(p)] > 0
    <3>1. CASE job[p].k \in job[p].recorded
      <4>1. RunOf(p) \notin shared => verdicts[SlotAt(p)] > 0
        BY <2>1, <2>2, <3>1, LaunchAssumption DEF Known, InLoop, SlotAt
      <4> QED
        BY <1>14, <3>1, <4>1 DEF Judge
    <3>2. CASE job[p].k \notin job[p].recorded
      BY <1>14, <2>2, <3>2 DEF Judge, TypeOK
    <3> QED
      BY <3>1, <3>2
  <2>4. ASSUME RunOf(p) \notin shared, NEW i \in DOMAIN job[p].clauses, NEW k \in 1..Comparisons,
               Passed(p, i, k)'
        PROVE  verdicts'[<<RunOf(p), job[p].clauses[i], k>>] > 0
    <3>1. Passed(p, i, k) \/ (i = job[p].at /\ k = job[p].k)
      <4>1. job'[p].at = job[p].at /\ Passed(p, i, k)' /\ k \in 1..Comparisons /\ job[p].k \in 1..Comparisons
        BY <2>1, <2>2, <2>4
      <4>2. CASE job[p].k < Comparisons
        BY <2>1, <4>1, <4>2, LaunchAssumption DEF Passed, InLoop
      <4>3. CASE ~(job[p].k < Comparisons)
        BY <2>1, <4>1, <4>3, LaunchAssumption DEF Passed, InLoop
      <4> QED
        BY <4>2, <4>3
    <3>2. CASE i = job[p].at /\ k = job[p].k
      BY <2>3, <2>4, <3>2 DEF SlotAt, Clause
    <3>3. CASE Passed(p, i, k)
      <4>1. verdicts[<<RunOf(p), job[p].clauses[i], k>>] > 0
        BY <2>1, <2>4, <3>3 DEF Measured, InRun
      <4>2. <<RunOf(p), job[p].clauses[i], k>> \in Slots
        <5>1. job[p].clauses[i] \in AllClauses
          BY <2>4, JobFields DEF TypeOK
        <5> QED
          BY <2>2, <5>1 DEF Slots
      <4>3. verdicts[<<RunOf(p), job[p].clauses[i], k>>] <= verdicts'[<<RunOf(p), job[p].clauses[i], k>>]
        BY <4>2, RowsGrow DEF Grows
      <4>4. verdicts' \in [Slots -> Nat]
        BY TypeStep DEF TypeOK
      <4> QED
        BY <4>1, <4>2, <4>3, <4>4 DEF TypeOK
    <3> QED
      BY <3>1, <3>2, <3>3
  <2> QED
    BY <2>1, <2>4 DEF Measured, RunOf
<1>15. CASE Advance(p)
  <2>1. /\ job'[p].run = job[p].run /\ job'[p].clauses = job[p].clauses
        /\ pc'[p] \in {"clause", "stamp"}
        /\ pc'[p] = "clause" => job'[p].at = job[p].at + 1
        /\ pc'[p] = "stamp" => job'[p].at = job[p].at
        /\ verdicts' = verdicts /\ shared' = shared /\ pc[p] = "advance"
    BY <1>15, JobFields DEF Advance, Goto, TypeOK, Jobs, evidence, observers
  <2>2. job[p].at \in Nat /\ job[p].clauses \in Seq(AllClauses)
    BY JobFields DEF TypeOK
  <2>3. \A i \in DOMAIN job'[p].clauses, k \in 1..Comparisons : Passed(p, i, k)' => Passed(p, i, k)
    BY <2>1, <2>2 DEF Passed, InLoop
  <2> QED
    BY <2>1, <2>3 DEF Measured, RunOf, InRun
<1>16. CASE Stamp(p)
  <2>1. CASE Ends(p)
    <3>1. pc'[p] \notin InRun
      BY <2>1 DEF Ends, Goto, TypeOK, InRun
    <3> QED
      BY <3>1 DEF Measured
  <2>2. CASE ~Ends(p)
    <3>1. /\ job' = job /\ verdicts' = verdicts /\ shared' = shared
          /\ pc[p] = "stamp" /\ pc'[p] = "finish"
      BY <1>16, <2>2 DEF Stamp, Goto, TypeOK, evidence, observers
    <3>2. \A i, k : Passed(p, i, k)' => Passed(p, i, k)
      BY <3>1 DEF Passed, InLoop
    <3> QED
      BY <3>1, <3>2 DEF Measured, RunOf, InRun
  <2> QED
    BY <2>1, <2>2
<1>17. CASE Finish(p)
  <2>1. pc'[p] \in InRun => /\ job'[p].run = job[p].run /\ job'[p].clauses = job[p].clauses
                           /\ job'[p].at = job[p].at /\ job'[p].k = job[p].k
                           /\ verdicts' = verdicts /\ shared' = shared
    BY <1>17 DEF Finish, Ends, Goto, TypeOK, Jobs, InRun, evidence, observers
  <2>2. pc'[p] \in InRun => pc[p] \in InRun /\ \A i, k : Passed(p, i, k)' => Passed(p, i, k)
    BY <1>17, <2>1 DEF Finish, Ends, Goto, TypeOK, InRun, InLoop, Passed
  <2> QED
    BY <2>1, <2>2 DEF Measured, RunOf
<1>18. CASE Reconcile(p)
  <2>1. pc'[p] \notin InRun
    BY <1>18 DEF Reconcile, Ends, Goto, TypeOK, InRun
  <2> QED
    BY <2>1 DEF Measured
<1>19. CASE Crash(p)
  <2>1. pc'[p] \notin InRun
    BY <1>19 DEF Crash, Ends, Goto, TypeOK, InRun
  <2> QED
    BY <2>1 DEF Measured
<1> QED
  BY <1>1, <1>2, <1>3, <1>4, <1>5, <1>6, <1>7, <1>8, <1>9, <1>10, <1>11, <1>12, <1>13, <1>14, <1>15, <1>16, <1>17, <1>18, <1>19 DEF Launcher

LEMMA PlanStep ==
  ASSUME TypeOK, IsFiniteSet(samples), PlaceInv, CompanyInv, PlanInv, [Next]_vars
  PROVE  PlanInv'
<1> /\ TypeOK'
    /\ Grows
  BY TypeStep, RowsGrow
<1>1. ASSUME NEW p \in Procs, Invoke(p) \/ Launcher(p) \/ Crash(p)
      PROVE  PlanInv'
  <2>1. Planned(p)' /\ Measured(p)'
    BY <1>1, OwnPlanned, OwnMeasured DEF PlanInv, CompanyInv
  <2>2. ASSUME NEW q \in Procs \ {p} PROVE Planned(q)' /\ Measured(q)'
    <3>1. pc'[q] = pc[q] /\ job'[q] = job[q]
      BY <1>1, Locality
    <3>2. pc[q] \in InRun => RunOf(q) \in RunIds /\ plan'[RunOf(q)] = plan[RunOf(q)]
      BY SlotType DEF PlaceInv, Place, Grows
    <3>3. Planned(q)'
      BY <3>1, <3>2 DEF PlanInv, Planned, RunOf, Grows
    <3>4. ASSUME pc[q] \in InRun, RunOf(q) \notin shared, NEW i \in DOMAIN job[q].clauses,
                 NEW k \in 1..Comparisons
          PROVE  verdicts'[<<RunOf(q), job[q].clauses[i], k>>] = verdicts[<<RunOf(q), job[q].clauses[i], k>>]
      <4>1. job[q].clauses[i] \in AllClauses
        BY <3>4, JobFields DEF TypeOK
      <4> QED
        BY <1>1, <3>4, <4>1, OthersVerdicts DEF CompanyInv
    <3>5. \A i, k : Passed(q, i, k)' <=> Passed(q, i, k)
      BY <3>1 DEF Passed
    <3>6. Measured(q)'
      BY <3>1, <3>4, <3>5 DEF PlanInv, Measured, RunOf, Grows
    <3> QED
      BY <3>3, <3>6
  <2>3. ASSUME NEW s \in Slots, verdicts'[s] > 0
        PROVE  s[2] \in plan'[s[1]] \/ s[1] \in replanned'
    <3>1. CASE verdicts'[s] = verdicts[s]
      <4>1. s[1] \in RunIds /\ skillOf[s[1]] # None
        BY <2>3, <3>1 DEF CompanyInv, Slots
      <4> QED
        BY <2>3, <3>1, <4>1 DEF PlanInv, Grows
    <3>2. CASE verdicts'[s] # verdicts[s]
      <4>1. pc[p] = "judge" /\ s = SlotAt(p)
        BY <1>1, <3>2, VerdictMoves DEF TypeOK
      <4>2. s[1] = RunOf(p) /\ s[2] = Clause(p) /\ RunOf(p) \in RunIds /\ skillOf[RunOf(p)] # None
        BY <4>1, SlotType DEF SlotAt, PlaceInv, Place, InRun
      <4>3. Clause(p) \in {job[p].clauses[i] : i \in DOMAIN job[p].clauses}
        BY <4>1 DEF Clause, PlaceInv, Place, InRun
      <4>4. Clause(p) \in plan[RunOf(p)] \/ RunOf(p) \in replanned
        BY <4>1, <4>3 DEF PlanInv, Planned, InRun
      <4> QED
        BY <4>2, <4>4 DEF Grows
    <3> QED
      BY <3>1, <3>2
  <2>4. ASSUME NEW r \in completed' \ (shared' \cup replanned'), NEW c \in AllClauses,
               NEW k \in 1..Comparisons, c \in plan'[r]
        PROVE  verdicts'[<<r, c, k>>] > 0
    <3>1. r \in RunIds /\ <<r, c, k>> \in Slots /\ r \notin shared \cup replanned
      BY DEF TypeOK, Slots, Grows
    <3>2. verdicts[<<r, c, k>>] > 0 => verdicts'[<<r, c, k>>] > 0
      BY <3>1 DEF TypeOK, Grows
    <3>3. CASE r \in completed
      BY <2>4, <3>1, <3>2, <3>3 DEF PlanInv, PlaceInv, Grows
    <3>4. CASE r \notin completed
      <4>1. Stamp(p) /\ RunOf(p) = r /\ pc[p] = "stamp"
        BY <1>1, <2>4, <3>4 DEF Launcher, Invoke, Crash, CheckDailyCap, CheckIncomplete, Refuse, StartRun,
             InsertRun, InitRuntime, Resume, RepairBudget, EnterClause, PassGate, BudgetAbort, Store,
             Account, Judge, Advance, Stamp, Finish, Reconcile, evidence
      <4>2. plan' = plan
        BY <4>1 DEF Stamp
      <4>3. c \in {job[p].clauses[i] : i \in DOMAIN job[p].clauses}
        BY <2>4, <3>1, <4>1, <4>2 DEF PlanInv, Planned, InRun
      <4>4. PICK i \in DOMAIN job[p].clauses : job[p].clauses[i] = c
        BY <4>3
      <4>5. Passed(p, i, k)
        <5>1. job[p].at = Len(job[p].clauses) /\ job[p].clauses \in Seq(AllClauses)
          BY <4>1, JobFields DEF PlaceInv, Place, TypeOK
        <5>2. i \in 1..Len(job[p].clauses)
          BY <5>1
        <5> QED
          BY <4>1, <5>1, <5>2 DEF Passed
      <4>6. Measured(p) /\ pc[p] \in InRun
        BY <4>1 DEF PlanInv, InRun
      <4> QED
        BY <3>1, <3>2, <4>1, <4>4, <4>5, <4>6 DEF Measured
    <3> QED
      BY <3>3, <3>4
  <2>5. \A q \in Procs : Planned(q)' /\ Measured(q)'
    BY <2>1, <2>2
  <2> QED
    BY <2>3, <2>4, <2>5 DEF PlanInv
<1>2. RollOff => PlanInv'
  BY DEF RollOff, PlanInv, Planned, Measured, Passed, RunOf, evidence, observers
<1>3. UNCHANGED <<evidence, runtime, pc, job, observers, invocations>> => PlanInv'
  BY DEF PlanInv, Planned, Measured, Passed, RunOf, evidence, observers
<1> QED
  BY <1>1, <1>2, <1>3, Moves

-----------------------------------------------------------------------------
(* Layer 4: the evaluation. *)

\* A completed run that was measured alone and as planned gets no further
\* verdict.
LEMMA CompletedIsFinal ==
  ASSUME TypeOK, PlaceInv, CompanyInv, PlanInv,
         NEW p \in Procs, Invoke(p) \/ Launcher(p) \/ Crash(p),
         NEW s \in Slots, s[1] \in completed, s[1] \notin shared \cup replanned
  PROVE  verdicts'[s] = verdicts[s]
<1> SUFFICES ASSUME verdicts'[s] # verdicts[s] PROVE FALSE
  OBVIOUS
<1>1. /\ pc[p] = "judge" /\ s = SlotAt(p) /\ job[p].k \notin job[p].recorded
  BY VerdictMoves DEF TypeOK
<1>2. /\ s = <<RunOf(p), Clause(p), job[p].k>> /\ s[1] = RunOf(p)
      /\ Clause(p) \in AllClauses /\ job[p].k \in 1..Comparisons
  BY <1>1, SlotType DEF SlotAt, InRun
<1>3. Clause(p) \in plan[RunOf(p)]
  <2>1. Clause(p) \in {job[p].clauses[i] : i \in DOMAIN job[p].clauses}
    BY <1>1 DEF Clause, PlaceInv, Place, InRun
  <2> QED
    BY <1>1, <1>2, <2>1 DEF PlanInv, Planned, InRun
<1>4. verdicts[<<RunOf(p), Clause(p), job[p].k>>] > 0
  BY <1>2, <1>3 DEF PlanInv
<1>5. job[p].k \in job[p].k..Comparisons
  BY <1>2, LaunchAssumption
<1> QED
  BY <1>1, <1>2, <1>4, <1>5 DEF CompanyInv, Known, InLoop

LEMMA ReportStep ==
  ASSUME TypeOK, PlaceInv, CompanyInv, PlanInv, ReportInv, ReportStands, [Next]_vars
  PROVE  ReportInv' /\ ReportStands'
<1>1. completed \subseteq completed'
  BY RowsGrow DEF Grows
<1>2. ASSUME NEW p \in Procs, Invoke(p) \/ Launcher(p) \/ Crash(p)
      PROVE  ReportInv' /\ ReportStands'
  <2>1. UNCHANGED evaluator
    BY <1>2 DEF Launcher, Invoke, Crash, CheckDailyCap, CheckIncomplete, Refuse, StartRun,
         InitRuntime, Resume, RepairBudget, EnterClause, PassGate, BudgetAbort, Store,
         Account, Judge, Advance, Stamp, Finish, Reconcile
  <2>2. ReportInv'
    BY <1>1, <2>1 DEF ReportInv, evaluator
  <2>3. ASSUME outcome = "reported", NEW s \in Slots, s[1] \in reading
        PROVE  report[s] = verdicts'[s] \/ s[1] \in shared' \cup replanned'
    <3>1. CASE s[1] \in shared \cup replanned
      BY <3>1, RowsGrow DEF Grows
    <3>2. CASE s[1] \notin shared \cup replanned
      <4>1. report[s] = verdicts[s] /\ s[1] \in completed
        BY <2>3, <3>2 DEF ReportStands, ReportInv
      <4> QED
        BY <1>2, <3>2, <4>1, CompletedIsFinal
    <3> QED
      BY <3>1, <3>2
  <2> QED
    BY <2>1, <2>2, <2>3 DEF ReportStands, evaluator
<1>3. RollOff => ReportInv' /\ ReportStands'
  BY DEF RollOff, ReportInv, ReportStands, evidence, evaluator, observers
<1>4. Evaluate => ReportInv' /\ ReportStands'
  BY DEF Evaluate, ReportInv, ReportStands
<1>5. CheckEvaluable => ReportInv' /\ ReportStands'
  BY DEF CheckEvaluable, EvaluationEnds, ReportInv, ReportStands, evidence, observers
<1>6. FetchRuns => ReportInv' /\ ReportStands'
  BY DEF FetchRuns, CompletedRuns, EvaluationEnds, ReportInv, ReportStands, evidence, observers
<1>7. ReadVerdicts => ReportInv' /\ ReportStands'
  BY DEF ReadVerdicts, EvaluationEnds, ReportInv, ReportStands, evidence, observers
<1>8. UNCHANGED vars => ReportInv' /\ ReportStands'
  BY DEF vars, ReportInv, ReportStands, evidence, evaluator, observers
<1> QED
  BY <1>2, <1>3, <1>4, <1>5, <1>6, <1>7, <1>8 DEF Next, Evaluator, Rest

-----------------------------------------------------------------------------
(* Layer 5: the guard. *)

LEMMA Arrives ==
  ASSUME NEW p \in Procs, TypeOK, ~InitRuntime(p), Invoke(p) \/ Launcher(p) \/ Crash(p)
  PROVE  pc'[p] \in Visible => \/ /\ pc[p] \in Visible
                                  /\ job'[p].run = job[p].run
                               \/ Resume(p)
<1>1. CASE Invoke(p)
  BY <1>1 DEF Invoke, Goto, TypeOK, Jobs, InRun, Visible, evidence
<1>2. CASE CheckDailyCap(p)
  BY <1>2 DEF CheckDailyCap, Ends, Goto, TypeOK, Jobs, InRun, Visible, evidence
<1>3. CASE CheckIncomplete(p)
  BY <1>3 DEF CheckIncomplete, Ends, Goto, TypeOK, Jobs, InRun, Visible, evidence
<1>4. CASE Refuse(p)
  BY <1>4 DEF Refuse, Ends, Goto, TypeOK, Jobs, InRun, Visible, evidence
<1>5. CASE StartRun(p)
  BY <1>5 DEF StartRun, InsertRun, Loaded, Goto, TypeOK, Jobs, InRun, Visible, evidence
<1>6. CASE InitRuntime(p)
  BY <1>6 DEF InitRuntime, Goto, TypeOK, Jobs, InRun, Visible, evidence
<1>7. CASE Resume(p)
  BY <1>7 DEF Resume, Loaded, Goto, TypeOK, Jobs, InRun, Visible, evidence
<1>8. CASE RepairBudget(p)
  BY <1>8 DEF RepairBudget, Goto, TypeOK, Jobs, InRun, Visible, evidence
<1>9. CASE EnterClause(p)
  BY <1>9 DEF EnterClause, Goto, TypeOK, Jobs, InRun, Visible, evidence
<1>10. CASE PassGate(p)
  BY <1>10 DEF PassGate, Goto, TypeOK, Jobs, InRun, Visible, evidence
<1>11. CASE BudgetAbort(p)
  BY <1>11 DEF BudgetAbort, Ends, Goto, TypeOK, Jobs, InRun, Visible, evidence
<1>12. CASE Store(p)
  BY <1>12 DEF Store, Ends, Goto, TypeOK, Jobs, InRun, Visible, evidence
<1>13. CASE Account(p)
  BY <1>13 DEF Account, Goto, TypeOK, Jobs, InRun, Visible, evidence
<1>14. CASE Judge(p)
  BY <1>14 DEF Judge, Goto, TypeOK, Jobs, InRun, Visible, evidence
<1>15. CASE Advance(p)
  BY <1>15 DEF Advance, Goto, TypeOK, Jobs, InRun, Visible, evidence
<1>16. CASE Stamp(p)
  BY <1>16 DEF Stamp, Ends, Goto, TypeOK, Jobs, InRun, Visible, evidence
<1>17. CASE Finish(p)
  BY <1>17 DEF Finish, Goto, TypeOK, Jobs, InRun, Visible, evidence
<1>18. CASE Reconcile(p)
  BY <1>18 DEF Reconcile, Ends, Goto, TypeOK, Jobs, InRun, Visible, evidence
<1>19. CASE Crash(p)
  BY <1>19 DEF Crash, Ends, Goto, TypeOK, Jobs, InRun, Visible, evidence
<1> QED
  BY <1>1, <1>2, <1>3, <1>4, <1>5, <1>6, <1>7, <1>8, <1>9, <1>10, <1>11, <1>12, <1>13, <1>14, <1>15, <1>16, <1>17, <1>18, <1>19 DEF Launcher

LEMMA Runs ==
  ASSUME NEW p \in Procs, TypeOK, ~InitRuntime(p), Invoke(p) \/ Launcher(p) \/ Crash(p)
  PROVE  \A r \in RunIds : progress'[r] = "running" =>
             progress[r] = "running" \/ (pc[p] \in Visible /\ RunOf(p) = r)
<1>1. CASE Invoke(p)
  BY <1>1 DEF Invoke, Goto, TypeOK, InRun, Visible, runtime
<1>2. CASE CheckDailyCap(p)
  BY <1>2 DEF CheckDailyCap, Ends, Goto, TypeOK, InRun, Visible, runtime
<1>3. CASE CheckIncomplete(p)
  BY <1>3 DEF CheckIncomplete, Ends, Goto, TypeOK, InRun, Visible, runtime
<1>4. CASE Refuse(p)
  BY <1>4 DEF Refuse, Ends, Goto, TypeOK, InRun, Visible, runtime
<1>5. CASE StartRun(p)
  BY <1>5 DEF StartRun, InsertRun, Loaded, Goto, TypeOK, InRun, Visible, runtime
<1>6. CASE InitRuntime(p)
  BY <1>6 DEF InitRuntime, Goto, TypeOK, InRun, Visible, runtime
<1>7. CASE Resume(p)
  BY <1>7 DEF Resume, Loaded, Goto, TypeOK, InRun, Visible, runtime
<1>8. CASE RepairBudget(p)
  BY <1>8 DEF RepairBudget, Goto, TypeOK, InRun, Visible, runtime
<1>9. CASE EnterClause(p)
  BY <1>9 DEF EnterClause, Goto, TypeOK, InRun, Visible, runtime
<1>10. CASE PassGate(p)
  BY <1>10 DEF PassGate, Goto, TypeOK, InRun, Visible, runtime
<1>11. CASE BudgetAbort(p)
  BY <1>11 DEF BudgetAbort, Ends, Goto, TypeOK, InRun, Visible, runtime
<1>12. CASE Store(p)
  BY <1>12 DEF Store, Ends, Goto, TypeOK, InRun, Visible, runtime
<1>13. CASE Account(p)
  BY <1>13 DEF Account, Goto, TypeOK, InRun, Visible, runtime
<1>14. CASE Judge(p)
  BY <1>14 DEF Judge, Goto, TypeOK, InRun, Visible, runtime
<1>15. CASE Advance(p)
  BY <1>15 DEF Advance, Goto, TypeOK, InRun, Visible, runtime
<1>16. CASE Stamp(p)
  BY <1>16 DEF Stamp, Ends, Goto, TypeOK, InRun, Visible, runtime
<1>17. CASE Finish(p)
  BY <1>17 DEF Finish, Goto, TypeOK, InRun, Visible, runtime
<1>18. CASE Reconcile(p)
  BY <1>18 DEF Reconcile, Ends, Goto, TypeOK, InRun, Visible, runtime
<1>19. CASE Crash(p)
  BY <1>19 DEF Crash, Ends, Goto, TypeOK, InRun, Visible, runtime
<1> QED
  BY <1>1, <1>2, <1>3, <1>4, <1>5, <1>6, <1>7, <1>8, <1>9, <1>10, <1>11, <1>12, <1>13, <1>14, <1>15, <1>16, <1>17, <1>18, <1>19 DEF Launcher

LEMMA Skilled ==
  ASSUME NEW p \in Procs, TypeOK, Invoke(p) \/ Launcher(p) \/ Crash(p)
  PROVE  skillOf' = skillOf \/ StartRun(p)
<1>1. CASE Invoke(p)
  BY <1>1 DEF Invoke, Goto, TypeOK, evidence
<1>2. CASE CheckDailyCap(p)
  BY <1>2 DEF CheckDailyCap, Ends, Goto, TypeOK, evidence
<1>3. CASE CheckIncomplete(p)
  BY <1>3 DEF CheckIncomplete, Ends, Goto, TypeOK, evidence
<1>4. CASE Refuse(p)
  BY <1>4 DEF Refuse, Ends, Goto, TypeOK, evidence
<1>5. CASE StartRun(p)
  BY <1>5 DEF StartRun, InsertRun, Loaded, Goto, TypeOK, evidence
<1>6. CASE InitRuntime(p)
  BY <1>6 DEF InitRuntime, Goto, TypeOK, evidence
<1>7. CASE Resume(p)
  BY <1>7 DEF Resume, Loaded, Goto, TypeOK, evidence
<1>8. CASE RepairBudget(p)
  BY <1>8 DEF RepairBudget, Goto, TypeOK, evidence
<1>9. CASE EnterClause(p)
  BY <1>9 DEF EnterClause, Goto, TypeOK, evidence
<1>10. CASE PassGate(p)
  BY <1>10 DEF PassGate, Goto, TypeOK, evidence
<1>11. CASE BudgetAbort(p)
  BY <1>11 DEF BudgetAbort, Ends, Goto, TypeOK, evidence
<1>12. CASE Store(p)
  BY <1>12 DEF Store, Ends, Goto, TypeOK, evidence
<1>13. CASE Account(p)
  BY <1>13 DEF Account, Goto, TypeOK, evidence
<1>14. CASE Judge(p)
  BY <1>14 DEF Judge, Goto, TypeOK, evidence
<1>15. CASE Advance(p)
  BY <1>15 DEF Advance, Goto, TypeOK, evidence
<1>16. CASE Stamp(p)
  BY <1>16 DEF Stamp, Ends, Goto, TypeOK, evidence
<1>17. CASE Finish(p)
  BY <1>17 DEF Finish, Goto, TypeOK, evidence
<1>18. CASE Reconcile(p)
  BY <1>18 DEF Reconcile, Ends, Goto, TypeOK, evidence
<1>19. CASE Crash(p)
  BY <1>19 DEF Crash, Ends, Goto, TypeOK, evidence
<1> QED
  BY <1>1, <1>2, <1>3, <1>4, <1>5, <1>6, <1>7, <1>8, <1>9, <1>10, <1>11, <1>12, <1>13, <1>14, <1>15, <1>16, <1>17, <1>18, <1>19 DEF Launcher

LEMMA StartsAt ==
  ASSUME NEW p \in Procs, NEW s \in Skills, TypeOK, PlaceInv, ~(CheckIncomplete(p) /\ pc'[p] = "load"), Invoke(p) \/ Launcher(p) \/ Crash(p)
  PROVE  p \in Starting(s)' => p \in Starting(s)
<1>1. CASE Invoke(p)
  BY <1>1 DEF Invoke, Goto, TypeOK, Starting, RunOf, evidence
<1>2. CASE CheckDailyCap(p)
  <2>1. CASE OverDailyCap
    BY <1>2, <2>1 DEF CheckDailyCap, Ends, Goto, TypeOK, Starting
  <2>2. CASE ~OverDailyCap
    BY <1>2, <2>2 DEF CheckDailyCap, Goto, TypeOK, Starting, RunOf
  <2> QED
    BY <2>1, <2>2
<1>3. CASE CheckIncomplete(p)
  BY <1>3 DEF CheckIncomplete, Ends, Goto, TypeOK, Starting, RunOf, evidence
<1>4. CASE Refuse(p)
  BY <1>4 DEF Refuse, Ends, Goto, TypeOK, Starting, RunOf, evidence
<1>5. CASE StartRun(p)
  <2>1. pc[p] = "load" /\ job[p].run = None /\ pc'[p] = "init"
    BY <1>5 DEF StartRun, Goto, TypeOK
  <2>2. job'[p].run \in RunIds /\ InsertRun(p, job'[p].run)
    BY <1>5, Entering DEF PlaceInv
  <2>3. skillOf'[job'[p].run] = job[p].skill
    BY <2>2 DEF InsertRun, TypeOK
  <2> QED
    BY <2>1, <2>3 DEF Starting, RunOf
<1>6. CASE InitRuntime(p)
  BY <1>6 DEF InitRuntime, Goto, TypeOK, Starting, RunOf, evidence
<1>7. CASE Resume(p)
  BY <1>7 DEF Resume, Loaded, Goto, TypeOK, Starting, RunOf, evidence
<1>8. CASE RepairBudget(p)
  BY <1>8 DEF RepairBudget, Goto, TypeOK, Starting, RunOf, evidence
<1>9. CASE EnterClause(p)
  BY <1>9 DEF EnterClause, Goto, TypeOK, Starting, RunOf, evidence
<1>10. CASE PassGate(p)
  BY <1>10 DEF PassGate, Goto, TypeOK, Starting, RunOf, evidence
<1>11. CASE BudgetAbort(p)
  BY <1>11 DEF BudgetAbort, Ends, Goto, TypeOK, Starting, RunOf, evidence
<1>12. CASE Store(p)
  BY <1>12 DEF Store, Ends, Goto, TypeOK, Starting, RunOf, evidence
<1>13. CASE Account(p)
  BY <1>13 DEF Account, Goto, TypeOK, Starting, RunOf, evidence
<1>14. CASE Judge(p)
  BY <1>14 DEF Judge, Goto, TypeOK, Starting, RunOf, evidence
<1>15. CASE Advance(p)
  BY <1>15 DEF Advance, Goto, TypeOK, Starting, RunOf, evidence
<1>16. CASE Stamp(p)
  BY <1>16 DEF Stamp, Ends, Goto, TypeOK, Starting, RunOf, evidence
<1>17. CASE Finish(p)
  BY <1>17 DEF Finish, Goto, TypeOK, Starting, RunOf, evidence
<1>18. CASE Reconcile(p)
  BY <1>18 DEF Reconcile, Ends, Goto, TypeOK, Starting, RunOf, evidence
<1>19. CASE Crash(p)
  BY <1>19 DEF Crash, Ends, Goto, TypeOK, Starting, RunOf, evidence
<1> QED
  BY <1>1, <1>2, <1>3, <1>4, <1>5, <1>6, <1>7, <1>8, <1>9, <1>10, <1>11, <1>12, <1>13, <1>14, <1>15, <1>16, <1>17, <1>18, <1>19 DEF Launcher

\* But for the guard itself nothing adds to the starting processes of a skill.
LEMMA StartingShrinks ==
  ASSUME NEW p \in Procs, NEW s \in Skills, TypeOK, PlaceInv, [Next]_vars,
         ~(CheckIncomplete(p) /\ pc'[p] = "load"), Invoke(p) \/ Launcher(p) \/ Crash(p)
  PROVE  Starting(s)' \subseteq Starting(s)
<1> SUFFICES ASSUME NEW q \in Procs, q \in Starting(s)' PROVE q \in Starting(s)
  BY DEF Starting
<1>1. CASE q = p
  BY <1>1, StartsAt
<1>2. CASE q # p
  <2>1. pc'[q] = pc[q] /\ job'[q] = job[q]
    BY <1>2, Locality
  <2>2. pc[q] = "init" => RunOf(q) \in RunIds /\ skillOf'[RunOf(q)] = skillOf[RunOf(q)]
    BY SlotType, RowsGrow DEF PlaceInv, Place, InRun, Grows
  <2> QED
    BY <2>1, <2>2 DEF Starting, RunOf
<1> QED
  BY <1>1, <1>2

\* But for the first progress row of a run nothing adds to the inhabited runs.
LEMMA InhabitedShrinks ==
  ASSUME NEW p \in Procs, NEW s \in Skills, TypeOK, PlaceInv, [Next]_vars,
         ~InitRuntime(p), Invoke(p) \/ Launcher(p) \/ Crash(p)
  PROVE  Inhabited(s)' \subseteq Inhabited(s)
<1> SUFFICES ASSUME NEW r \in RunIds, r \in Inhabited(s)' PROVE r \in Inhabited(s)
  BY DEF Inhabited
<1>1. r \notin aborted /\ skillOf'[r] = s
  BY RowsGrow DEF Inhabited, Grows
<1>2. \/ progress[r] = "running"
      \/ \E q \in Procs : pc[q] \in Visible /\ RunOf(q) = r
  <2>1. CASE progress'[r] = "running"
    BY <2>1, Runs
  <2>2. CASE \E q \in Procs : pc'[q] \in Visible /\ job'[q].run = r
    <3>1. PICK q \in Procs : pc'[q] \in Visible /\ job'[q].run = r
      BY <2>2
    <3>2. CASE q # p
      BY <3>1, <3>2, Locality DEF RunOf
    <3>3. CASE q = p /\ Resume(p)
      <4>0. RunOf(p) # None /\ ~Refused(p)
        BY <3>3 DEF Resume
      <4>2. RunOf(p) = r
        BY <3>1, <3>3, Entering DEF PlaceInv
      <4>1. RunOf(p) = r /\ progress[r] \notin {"absent", "completed"}
        BY <4>0, <4>2 DEF Refused, RunOf
      <4> QED
        BY <1>1, <4>1 DEF PlaceInv, TypeOK, ProgressStates
    <3>4. CASE q = p /\ ~Resume(p)
      BY <3>1, <3>4, Arrives DEF RunOf
    <3> QED
      BY <3>2, <3>3, <3>4
  <2> QED
    BY <2>1, <2>2 DEF Inhabited, RunOf
<1>3. skillOf[r] = s
  <2>1. skillOf[r] # None
    BY <1>2, SlotType DEF PlaceInv, Place, Visible
  <2> QED
    BY <1>1, <2>1, RowsGrow DEF Grows
<1> QED
  BY <1>1, <1>2, <1>3 DEF Inhabited

LEMMA Recharged ==
  ASSUME NEW s, NEW f, Charged(s, f),
         Inhabited(s)' \subseteq Inhabited(s), Starting(s)' \subseteq Starting(s)
  PROVE  \E g : Charged(s, g)'
<1> DEFINE g == [r \in Inhabited(s)' |-> f[r]]
<1>1. g \in [Inhabited(s)' -> Procs \ Starting(s)']
  BY DEF Charged
<1>2. \A r, q \in Inhabited(s)' : g[r] = g[q] => r = q
  BY DEF Charged
<1> HIDE DEF g
<1>3. \E h : /\ h \in [Inhabited(s)' -> Procs \ Starting(s)']
             /\ \A r, q \in Inhabited(s)' : h[r] = h[q] => r = q
  BY <1>1, <1>2
<1> QED
  BY <1>3 DEF Charged

\* A process that passes the guard: each unfinished run of the skill has a
\* process in it, since the list of incomplete runs was empty.
LEMMA PassesGuard ==
  ASSUME NEW p \in Procs, NEW s \in Skills, TypeOK, PlaceInv, Alone, [Next]_vars,
         CheckIncomplete(p), pc'[p] = "load", job[p].skill = s
  PROVE  \E g : Charged(s, g)'
<1> DEFINE g == [r \in Inhabited(s)' |-> CHOOSE q \in Procs : pc[q] \in Visible /\ RunOf(q) = r]
<1>1. IncompleteRuns(s) = {} /\ UNCHANGED <<evidence, runtime, observers>>
  <2>1. ~Ends(p)
    BY DEF Ends, Goto, TypeOK
  <2> QED
    BY <2>1 DEF CheckIncomplete
<1>2. ASSUME NEW r \in Inhabited(s)' PROVE \E q \in Procs : pc[q] \in Visible /\ RunOf(q) = r
  <2>1. r \in Inhabited(s)
    <3>1. ~InitRuntime(p) /\ Launcher(p)
      BY DEF CheckIncomplete, InitRuntime, Launcher
    <3> QED
      BY <3>1, InhabitedShrinks
  <2>2. progress[r] # "running"
    BY <1>1, <2>1 DEF IncompleteRuns, Inhabited
  <2> QED
    BY <2>1, <2>2 DEF Inhabited
<1>3. \A r \in Inhabited(s)' : g[r] \in Procs /\ pc[g[r]] \in Visible /\ RunOf(g[r]) = r
  BY <1>2
<1> HIDE DEF g
<1>4. ASSUME NEW r \in Inhabited(s)' PROVE g[r] \notin Starting(s)'
  <2>1. g[r] \in Procs /\ pc[g[r]] \in Visible
    BY <1>3
  <2>2. g[r] # p
    BY <2>1 DEF CheckIncomplete, Visible, InRun
  <2>3. pc'[g[r]] = pc[g[r]]
    BY <2>1, <2>2, Locality DEF Launcher
  <2> QED
    BY <2>1, <2>3 DEF Starting, Visible, InRun
<1>5. g \in [Inhabited(s)' -> Procs \ Starting(s)']
  BY <1>3, <1>4 DEF g
<1>6. \A r, q \in Inhabited(s)' : g[r] = g[q] => r = q
  BY <1>3
<1> HIDE DEF g
<1>7. \E h : /\ h \in [Inhabited(s)' -> Procs \ Starting(s)']
             /\ \A r, q \in Inhabited(s)' : h[r] = h[q] => r = q
  BY <1>5, <1>6
<1> QED
  BY <1>7 DEF Charged

\* The run of a process that writes its first progress row is charged to it.
LEMMA GetsRow ==
  ASSUME NEW p \in Procs, NEW s \in Skills, TypeOK, PlaceInv, [Next]_vars,
         InitRuntime(p), NEW f, Charged(s, f)
  PROVE  \E g : Charged(s, g)'
<1>0. Launcher(p) /\ ~(CheckIncomplete(p) /\ pc'[p] = "load")
  BY DEF Launcher, InitRuntime, CheckIncomplete
<1>1. Starting(s)' \subseteq Starting(s)
  BY <1>0, StartingShrinks
<1>2. /\ UNCHANGED <<skillOf, aborted, job>> /\ pc' = [pc EXCEPT ![p] = "clause"]
      /\ \A r \in RunIds : r # RunOf(p) => progress'[r] = progress[r]
      /\ pc[p] = "init" /\ RunOf(p) \in RunIds
  BY DEF InitRuntime, Goto, evidence, observers, TypeOK, RunOf, InRun
<1>3. ASSUME NEW r \in Inhabited(s)', r # RunOf(p) PROVE r \in Inhabited(s)
  <2>1. r \in RunIds \ aborted /\ skillOf[r] = s
    BY <1>2 DEF Inhabited
  <2>2. CASE progress'[r] = "running"
    BY <1>2, <1>3, <2>1, <2>2 DEF Inhabited
  <2>3. CASE \E q \in Procs : pc'[q] \in Visible /\ job'[q].run = r
    <3>1. PICK q \in Procs : pc'[q] \in Visible /\ job'[q].run = r
      BY <2>3
    <3>2. q # p /\ pc[q] \in Visible /\ RunOf(q) = r
      BY <1>2, <1>3, <3>1 DEF RunOf, TypeOK
    <3> QED
      BY <2>1, <3>2 DEF Inhabited
  <2> QED
    BY <2>2, <2>3 DEF Inhabited, RunOf
<1>4. CASE RunOf(p) \notin Inhabited(s)'
  BY <1>1, <1>3, <1>4, Recharged
<1>5. CASE RunOf(p) \in Inhabited(s)'
  <2>1. p \in Starting(s) /\ p \notin Starting(s)'
    BY <1>2, <1>5 DEF Starting, Inhabited, TypeOK
  <2> DEFINE g == [r \in Inhabited(s)' |-> IF r = RunOf(p) THEN p ELSE f[r]]
  <2>2. \A r \in Inhabited(s) : f[r] \in Procs \ Starting(s)
    BY DEF Charged
  <2>3. g \in [Inhabited(s)' -> Procs \ Starting(s)']
    BY <1>1, <1>3, <2>1, <2>2
  <2>4. \A r, q \in Inhabited(s)' : g[r] = g[q] => r = q
    BY <1>3, <2>1, <2>2 DEF Charged
  <2> HIDE DEF g
  <2>5. \E h : /\ h \in [Inhabited(s)' -> Procs \ Starting(s)']
               /\ \A r, q \in Inhabited(s)' : h[r] = h[q] => r = q
    BY <2>3, <2>4
  <2> QED
    BY <2>5 DEF Charged
<1> QED
  BY <1>4, <1>5

LEMMA GuardStep ==
  ASSUME TypeOK, PlaceInv, CompanyInv, GuardInv, [Next]_vars
  PROVE  GuardInv'
<1> SUFFICES ASSUME NEW s \in Skills PROVE \E g : Charged(s, g)'
  BY DEF GuardInv
<1>1. PICK f : Charged(s, f)
  BY DEF GuardInv
<1>2. ASSUME NEW p \in Procs, Invoke(p) \/ Launcher(p) \/ Crash(p)
      PROVE  \E g : Charged(s, g)'
  <2>1. CASE InitRuntime(p)
    BY <1>1, <2>1, GetsRow
  <2>2. CASE CheckIncomplete(p) /\ pc'[p] = "load" /\ job[p].skill = s
    BY <2>2, PassesGuard DEF CompanyInv
  <2>3. CASE CheckIncomplete(p) /\ pc'[p] = "load" /\ job[p].skill # s
    <3>1. Inhabited(s)' \subseteq Inhabited(s)
      <4>1. ~InitRuntime(p)
        BY <2>3 DEF CheckIncomplete, InitRuntime
      <4> QED
        BY <1>2, <4>1, InhabitedShrinks
    <3>2. Starting(s)' \subseteq Starting(s)
      <4>1. skillOf' = skillOf /\ job' = job /\ \A q \in Procs \ {p} : pc'[q] = pc[q]
        <5>1. ~Ends(p)
          BY <2>3 DEF Ends, Goto, TypeOK
        <5> QED
          BY <1>2, <2>3, <5>1, Locality DEF CheckIncomplete, evidence
      <4> QED
        BY <2>3, <4>1 DEF Starting, RunOf
    <3> QED
      BY <1>1, <3>1, <3>2, Recharged
  <2>4. CASE ~InitRuntime(p) /\ ~(CheckIncomplete(p) /\ pc'[p] = "load")
    BY <1>1, <1>2, <2>4, InhabitedShrinks, StartingShrinks, Recharged
  <2> QED
    BY <2>1, <2>2, <2>3, <2>4
<1>3. ASSUME RollOff \/ UNCHANGED <<evidence, runtime, pc, job, observers, invocations>>
      PROVE  \E g : Charged(s, g)'
  <2>1. Inhabited(s)' = Inhabited(s) /\ Starting(s)' = Starting(s)
    BY <1>3 DEF RollOff, Inhabited, Starting, RunOf, evidence, runtime, observers
  <2> QED
    BY <1>1, <2>1, Recharged
<1> QED
  BY <1>2, <1>3, Moves

LEMMA GuardBounds ==
  ASSUME GuardInv
  PROVE  UnfinishedRunsBounded
<1> SUFFICES ASSUME NEW s \in Skills
             PROVE  Cardinality(Unfinished(s)) + Cardinality(Starting(s)) <= Cardinality(Procs)
  BY DEF UnfinishedRunsBounded
<1>1. PICK f : Charged(s, f)
  BY DEF GuardInv
<1>2. /\ IsFiniteSet(Procs) /\ IsFiniteSet(Starting(s)) /\ IsFiniteSet(Procs \ Starting(s))
      /\ Cardinality(Procs \ Starting(s)) = Cardinality(Procs) - Cardinality(Starting(s))
  <2>1. IsFiniteSet(Procs) /\ Starting(s) \subseteq Procs
    BY LaunchAssumption DEF Starting
  <2>2. Procs \cap Starting(s) = Starting(s)
    BY <2>1
  <2>3. IsFiniteSet(Starting(s))
    BY <2>1, FS_Subset
  <2>4. /\ IsFiniteSet(Procs \ Starting(s))
        /\ Cardinality(Procs \ Starting(s)) = Cardinality(Procs) - Cardinality(Procs \cap Starting(s))
    BY <2>1, FS_Difference
  <2> QED
    BY <2>1, <2>2, <2>3, <2>4
<1>3. f \in Injection(Inhabited(s), Procs \ Starting(s))
  BY <1>1 DEF Charged, Injection, IsInjective
<1>4. IsFiniteSet(Inhabited(s)) /\ Cardinality(Inhabited(s)) <= Cardinality(Procs \ Starting(s))
  BY <1>2, <1>3, FS_Injection
<1>5. Unfinished(s) \subseteq Inhabited(s)
  BY DEF Unfinished, Inhabited
<1>6. Cardinality(Unfinished(s)) <= Cardinality(Inhabited(s)) /\ IsFiniteSet(Unfinished(s))
  BY <1>4, <1>5, FS_Subset
<1>7. /\ Cardinality(Unfinished(s)) \in Nat /\ Cardinality(Inhabited(s)) \in Nat
      /\ Cardinality(Starting(s)) \in Nat /\ Cardinality(Procs) \in Nat
  BY <1>2, <1>4, <1>6, FS_CardinalityType
<1> QED
  BY <1>2, <1>4, <1>6, <1>7

-----------------------------------------------------------------------------
(* Layer 6: the money of a run. *)

LEMMA LargestBudgetType ==
  /\ LargestBudget \in Budgets /\ LargestBudget \in Nat
  /\ \A b \in Budgets : b \in Nat /\ b <= LargestBudget
<1>1. \E b \in Budgets : \A c \in Budgets : c <= b
  BY LaunchAssumption
<1>2. LargestBudget \in Budgets /\ \A c \in Budgets : c <= LargestBudget
  BY <1>1 DEF LargestBudget
<1> QED
  BY <1>2, LaunchAssumption

LEMMA EvidType ==
  ASSUME IsFiniteSet(samples)
  PROVE  Evid \in [RunIds -> Nat]
  BY EvidenceType DEF Evid

\* A stored sample adds 1 to the evidence of its run.
LEMMA EvidAdds ==
  ASSUME IsFiniteSet(samples), NEW x, x \notin samples, samples' = samples \cup {x}, x[1] \in RunIds
  PROVE  Evid' = [Evid EXCEPT ![x[1]] = @ + 1]
<1>1. ASSUME NEW r \in RunIds
      PROVE  EvidenceUsd(r)' = IF r = x[1] THEN EvidenceUsd(r) + 1 ELSE EvidenceUsd(r)
  <2> DEFINE old == {s \in samples : s[1] = r}
             new == {s \in samples' : s[1] = r}
  <2>1. CASE r = x[1]
    <3>1. new = old \cup {x} /\ x \notin old
      BY <2>1
    <3>2. IsFiniteSet(old)
      BY FS_Subset
    <3>3. Cardinality(new) = Cardinality(old) + 1
      <4> HIDE DEF old, new
      <4> QED
        BY <3>1, <3>2, FS_AddElement
    <3> QED
      BY <2>1, <3>3 DEF EvidenceUsd
  <2>2. CASE r # x[1]
    <3>1. new = old
      BY <2>2
    <3> QED
      BY <2>2, <3>1 DEF EvidenceUsd
  <2> QED
    BY <2>1, <2>2
<1>2. \A r \in RunIds : Evid'[r] = EvidenceUsd(r)' /\ Evid[r] = EvidenceUsd(r)
  BY DEF Evid
<1>3. DOMAIN Evid = RunIds /\ DOMAIN Evid' = RunIds /\ Evid' = [r \in RunIds |-> Evid'[r]]
      /\ Evid = [r \in RunIds |-> Evid[r]]
  BY DEF Evid
<1>4. \A r \in RunIds : Evid'[r] = IF r = x[1] THEN Evid[r] + 1 ELSE Evid[r]
  BY <1>1, <1>2
<1> HIDE DEF Evid
<1> QED
  BY <1>3, <1>4

LEMMA EvidSame ==
  ASSUME samples' = samples
  PROVE  Evid' = Evid
  BY DEF Evid, EvidenceUsd

\* Only a process in a run touches its money.
LEMMA EvidMoves ==
  ASSUME NEW p \in Procs, TypeOK, PlaceInv, IsFiniteSet(samples), Invoke(p) \/ Launcher(p) \/ Crash(p)
  PROVE  \/ Evid' = Evid
         \/ /\ pc[p] = "store" /\ pc'[p] = "account" /\ job' = job
            /\ Evid' = [Evid EXCEPT ![RunOf(p)] = @ + 1]
<1>1. CASE Invoke(p)
  BY <1>1, EvidSame DEF Invoke, evidence
<1>2. CASE CheckDailyCap(p)
  BY <1>2, EvidSame DEF CheckDailyCap, evidence
<1>3. CASE CheckIncomplete(p)
  BY <1>3, EvidSame DEF CheckIncomplete, evidence
<1>4. CASE Refuse(p)
  BY <1>4, EvidSame DEF Refuse, evidence
<1>5. CASE StartRun(p)
  BY <1>5, EvidSame DEF StartRun, InsertRun, evidence
<1>6. CASE InitRuntime(p)
  BY <1>6, EvidSame DEF InitRuntime, evidence
<1>7. CASE Resume(p)
  BY <1>7, EvidSame DEF Resume, evidence
<1>8. CASE RepairBudget(p)
  BY <1>8, EvidSame DEF RepairBudget, evidence
<1>9. CASE EnterClause(p)
  BY <1>9, EvidSame DEF EnterClause, evidence
<1>10. CASE PassGate(p)
  BY <1>10, EvidSame DEF PassGate, evidence
<1>11. CASE BudgetAbort(p)
  BY <1>11, EvidSame DEF BudgetAbort, evidence
<1>12. CASE Store(p)
  <2>1. CASE samples' = samples
    BY <2>1, EvidSame
  <2>2. CASE samples' # samples
    <3>1. /\ SlotAt(p) \notin samples /\ samples' = samples \cup {SlotAt(p)}
          /\ pc[p] = "store" /\ pc'[p] = "account" /\ job' = job
      BY <1>12, <2>2 DEF Store, Goto, TypeOK
    <3>2. SlotAt(p)[1] = RunOf(p) /\ RunOf(p) \in RunIds
      BY <3>1, SlotType DEF SlotAt, InRun
    <3> QED
      BY <3>1, <3>2, EvidAdds
  <2> QED
    BY <2>1, <2>2
<1>13. CASE Account(p)
  BY <1>13, EvidSame DEF Account, evidence
<1>14. CASE Judge(p)
  BY <1>14, EvidSame DEF Judge, evidence
<1>15. CASE Advance(p)
  BY <1>15, EvidSame DEF Advance, evidence
<1>16. CASE Stamp(p)
  BY <1>16, EvidSame DEF Stamp, evidence
<1>17. CASE Finish(p)
  BY <1>17, EvidSame DEF Finish, evidence
<1>18. CASE Reconcile(p)
  BY <1>18, EvidSame DEF Reconcile, evidence
<1>19. CASE Crash(p)
  BY <1>19, EvidSame DEF Crash, evidence
<1> QED
  BY <1>1, <1>2, <1>3, <1>4, <1>5, <1>6, <1>7, <1>8, <1>9, <1>10, <1>11, <1>12, <1>13, <1>14, <1>15, <1>16, <1>17, <1>18, <1>19 DEF Launcher

LEMMA LedgerMoves ==
  ASSUME NEW p \in Procs, TypeOK, Invoke(p) \/ Launcher(p) \/ Crash(p)
  PROVE  \/ UNCHANGED <<ledger, trailing>>
         \/ pc[p] = "account" \/ pc[p] = "reconcile"
<1>1. CASE Invoke(p)
  BY <1>1 DEF Invoke, Goto, runtime, evidence
<1>2. CASE CheckDailyCap(p)
  BY <1>2 DEF CheckDailyCap, Ends, Goto, runtime, evidence
<1>3. CASE CheckIncomplete(p)
  BY <1>3 DEF CheckIncomplete, Ends, Goto, runtime, evidence
<1>4. CASE Refuse(p)
  BY <1>4 DEF Refuse, Ends, Goto, runtime, evidence
<1>5. CASE StartRun(p)
  BY <1>5 DEF StartRun, InsertRun, Loaded, Goto, runtime, evidence
<1>6. CASE InitRuntime(p)
  BY <1>6 DEF InitRuntime, Goto, runtime, evidence
<1>7. CASE Resume(p)
  BY <1>7 DEF Resume, Loaded, Goto, runtime, evidence
<1>8. CASE RepairBudget(p)
  BY <1>8 DEF RepairBudget, Goto, runtime, evidence
<1>9. CASE EnterClause(p)
  BY <1>9 DEF EnterClause, Goto, runtime, evidence
<1>10. CASE PassGate(p)
  BY <1>10 DEF PassGate, Goto, runtime, evidence
<1>11. CASE BudgetAbort(p)
  BY <1>11 DEF BudgetAbort, Ends, Goto, runtime, evidence
<1>12. CASE Store(p)
  BY <1>12 DEF Store, Ends, Goto, runtime, evidence
<1>13. CASE Account(p)
  BY <1>13 DEF Account, Goto, runtime, evidence
<1>14. CASE Judge(p)
  BY <1>14 DEF Judge, Goto, runtime, evidence
<1>15. CASE Advance(p)
  BY <1>15 DEF Advance, Goto, runtime, evidence
<1>16. CASE Stamp(p)
  BY <1>16 DEF Stamp, Ends, Goto, runtime, evidence
<1>17. CASE Finish(p)
  BY <1>17 DEF Finish, Goto, runtime, evidence
<1>18. CASE Reconcile(p)
  BY <1>18 DEF Reconcile, Ends, Goto, runtime, evidence
<1>19. CASE Crash(p)
  BY <1>19 DEF Crash, Ends, Goto, runtime, evidence
<1> QED
  BY <1>1, <1>2, <1>3, <1>4, <1>5, <1>6, <1>7, <1>8, <1>9, <1>10, <1>11, <1>12, <1>13, <1>14, <1>15, <1>16, <1>17, <1>18, <1>19 DEF Launcher

LEMMA MoneyFrame ==
  ASSUME NEW p \in Procs, TypeOK, PlaceInv, IsFiniteSet(samples), NEW r \in RunIds, ~(pc[p] \in InRun /\ RunOf(p) = r), Invoke(p) \/ Launcher(p) \/ Crash(p)
  PROVE  ledger'[r] = ledger[r] /\ budget'[r] = budget[r] /\ Evid'[r] = Evid[r]
<1>1. CASE Invoke(p)
  BY <1>1, EvidMoves, EvidType DEF Invoke, Goto, TypeOK, InRun, runtime
<1>2. CASE CheckDailyCap(p)
  BY <1>2, EvidMoves, EvidType DEF CheckDailyCap, Ends, Goto, TypeOK, InRun, runtime
<1>3. CASE CheckIncomplete(p)
  BY <1>3, EvidMoves, EvidType DEF CheckIncomplete, Ends, Goto, TypeOK, InRun, runtime
<1>4. CASE Refuse(p)
  BY <1>4, EvidMoves, EvidType DEF Refuse, Ends, Goto, TypeOK, InRun, runtime
<1>5. CASE StartRun(p)
  BY <1>5, EvidMoves, EvidType DEF StartRun, InsertRun, Loaded, Goto, TypeOK, InRun, runtime
<1>6. CASE InitRuntime(p)
  BY <1>6, EvidMoves, EvidType DEF InitRuntime, Goto, TypeOK, InRun, runtime
<1>7. CASE Resume(p)
  BY <1>7, EvidMoves, EvidType DEF Resume, Loaded, Goto, TypeOK, InRun, runtime
<1>8. CASE RepairBudget(p)
  BY <1>8, EvidMoves, EvidType DEF RepairBudget, Goto, TypeOK, InRun, runtime
<1>9. CASE EnterClause(p)
  BY <1>9, EvidMoves, EvidType DEF EnterClause, Goto, TypeOK, InRun, runtime
<1>10. CASE PassGate(p)
  BY <1>10, EvidMoves, EvidType DEF PassGate, Goto, TypeOK, InRun, runtime
<1>11. CASE BudgetAbort(p)
  BY <1>11, EvidMoves, EvidType DEF BudgetAbort, Ends, Goto, TypeOK, InRun, runtime
<1>12. CASE Store(p)
  BY <1>12, EvidMoves, EvidType DEF Store, Ends, Goto, TypeOK, InRun, runtime
<1>13. CASE Account(p)
  BY <1>13, EvidMoves, EvidType DEF Account, Goto, TypeOK, InRun, runtime
<1>14. CASE Judge(p)
  BY <1>14, EvidMoves, EvidType DEF Judge, Goto, TypeOK, InRun, runtime
<1>15. CASE Advance(p)
  BY <1>15, EvidMoves, EvidType DEF Advance, Goto, TypeOK, InRun, runtime
<1>16. CASE Stamp(p)
  BY <1>16, EvidMoves, EvidType DEF Stamp, Ends, Goto, TypeOK, InRun, runtime
<1>17. CASE Finish(p)
  BY <1>17, EvidMoves, EvidType DEF Finish, Goto, TypeOK, InRun, runtime
<1>18. CASE Reconcile(p)
  BY <1>18, EvidMoves, EvidType DEF Reconcile, Ends, Goto, TypeOK, InRun, runtime
<1>19. CASE Crash(p)
  BY <1>19, EvidMoves, EvidType DEF Crash, Ends, Goto, TypeOK, InRun, runtime
<1> QED
  BY <1>1, <1>2, <1>3, <1>4, <1>5, <1>6, <1>7, <1>8, <1>9, <1>10, <1>11, <1>12, <1>13, <1>14, <1>15, <1>16, <1>17, <1>18, <1>19 DEF Launcher

LEMMA MaxIsBudget ==
  ASSUME NEW p \in Procs, TypeOK, PlaceInv, (pc[p] # "idle" => job[p].max \in Budgets), Invoke(p) \/ Launcher(p) \/ Crash(p)
  PROVE  pc'[p] # "idle" => job'[p].max \in Budgets
<1>1. CASE Invoke(p)
  BY <1>1 DEF Invoke, Goto, TypeOK, Jobs, NoJob, evidence
<1>2. CASE CheckDailyCap(p)
  BY <1>2 DEF CheckDailyCap, Ends, Goto, TypeOK, Jobs, NoJob, evidence
<1>3. CASE CheckIncomplete(p)
  BY <1>3 DEF CheckIncomplete, Ends, Goto, TypeOK, Jobs, NoJob, evidence
<1>4. CASE Refuse(p)
  BY <1>4 DEF Refuse, Ends, Goto, TypeOK, Jobs, NoJob, evidence
<1>5. CASE StartRun(p)
  BY <1>5, Entering DEF PlaceInv, StartRun
<1>6. CASE InitRuntime(p)
  BY <1>6 DEF InitRuntime, Goto, TypeOK, Jobs, NoJob, evidence
<1>7. CASE Resume(p)
  BY <1>7, Entering DEF PlaceInv, Resume
<1>8. CASE RepairBudget(p)
  BY <1>8 DEF RepairBudget, Goto, TypeOK, Jobs, NoJob, evidence
<1>9. CASE EnterClause(p)
  BY <1>9 DEF EnterClause, Goto, TypeOK, Jobs, NoJob, evidence
<1>10. CASE PassGate(p)
  BY <1>10 DEF PassGate, Goto, TypeOK, Jobs, NoJob, evidence
<1>11. CASE BudgetAbort(p)
  BY <1>11 DEF BudgetAbort, Ends, Goto, TypeOK, Jobs, NoJob, evidence
<1>12. CASE Store(p)
  BY <1>12 DEF Store, Ends, Goto, TypeOK, Jobs, NoJob, evidence
<1>13. CASE Account(p)
  BY <1>13 DEF Account, Goto, TypeOK, Jobs, NoJob, evidence
<1>14. CASE Judge(p)
  BY <1>14 DEF Judge, Goto, TypeOK, Jobs, NoJob, evidence
<1>15. CASE Advance(p)
  BY <1>15 DEF Advance, Goto, TypeOK, Jobs, NoJob, evidence
<1>16. CASE Stamp(p)
  BY <1>16 DEF Stamp, Ends, Goto, TypeOK, Jobs, NoJob, evidence
<1>17. CASE Finish(p)
  BY <1>17 DEF Finish, Goto, TypeOK, Jobs, NoJob, evidence
<1>18. CASE Reconcile(p)
  BY <1>18 DEF Reconcile, Ends, Goto, TypeOK, Jobs, NoJob, evidence
<1>19. CASE Crash(p)
  BY <1>19 DEF Crash, Ends, Goto, TypeOK, Jobs, NoJob, evidence
<1> QED
  BY <1>1, <1>2, <1>3, <1>4, <1>5, <1>6, <1>7, <1>8, <1>9, <1>10, <1>11, <1>12, <1>13, <1>14, <1>15, <1>16, <1>17, <1>18, <1>19 DEF Launcher

\* The money of the run that a process is in after its step.
OwnMoney(p) ==
    /\ Cash(p)
    /\ pc[p] \in InRun => /\ ledger[RunOf(p)] <= Evid[RunOf(p)]
                          /\ Evid[RunOf(p)] <= LargestBudget

LEMMA OwnCash ==
  ASSUME NEW p \in Procs, TypeOK, PlaceInv, IsFiniteSet(samples), InvisibleRunIsEmpty,
         pc[p] # "idle" => job[p].max \in Budgets, OwnMoney(p),
         \A r \in RunIds : ledger[r] <= Evid[r] /\ Evid[r] <= LargestBudget, Invoke(p) \/ Launcher(p) \/ Crash(p)
  PROVE  OwnMoney(p)'
<1>1. CASE Invoke(p)
  <2>1. pc'[p] \notin InRun
    BY <1>1 DEF Invoke, Ends, Goto, TypeOK, InRun
  <2> QED
    BY <2>1 DEF OwnMoney, Cash, InRun
<1>2. CASE CheckDailyCap(p)
  <2>1. pc'[p] \notin InRun
    BY <1>2 DEF CheckDailyCap, Ends, Goto, TypeOK, InRun
  <2> QED
    BY <2>1 DEF OwnMoney, Cash, InRun
<1>3. CASE CheckIncomplete(p)
  <2>1. pc'[p] \notin InRun
    BY <1>3 DEF CheckIncomplete, Ends, Goto, TypeOK, InRun
  <2> QED
    BY <2>1 DEF OwnMoney, Cash, InRun
<1>4. CASE Refuse(p)
  <2>1. pc'[p] \notin InRun
    BY <1>4 DEF Refuse, Ends, Goto, TypeOK, InRun
  <2> QED
    BY <2>1 DEF OwnMoney, Cash, InRun
<1>5. CASE StartRun(p)
  <2>1. /\ pc'[p] = "init" /\ UNCHANGED <<ledger, budget, samples>> /\ Evid' = Evid
        /\ job'[p].run \in RunIds /\ skillOf[job'[p].run] = None
    <3>1. InsertRun(p, job'[p].run) /\ job'[p].run \in RunIds /\ skillOf[job'[p].run] = None
      BY <1>5, Entering DEF PlaceInv
    <3> QED
      BY <1>5, <3>1, EvidSame DEF StartRun, InsertRun, Goto, TypeOK, runtime
  <2>2. {s \in samples : s[1] = job'[p].run} = {}
    BY <2>1 DEF PlaceInv, InvisibleRunIsEmpty, TypeOK, Slots
  <2>3. Evid[job'[p].run] = 0
    BY <2>1, <2>2, FS_EmptySet DEF Evid, EvidenceUsd
  <2>4. budget[job'[p].run] \in Nat /\ ledger[job'[p].run] <= Evid[job'[p].run]
    BY <2>1 DEF TypeOK
  <2> QED
    BY <2>1, <2>3, <2>4, LargestBudgetType DEF OwnMoney, Cash, RunOf, InRun
<1>6. CASE InitRuntime(p)
  <2> DEFINE r == RunOf(p)
  <2>0. /\ r \in RunIds /\ Evid[r] \in Nat /\ budget[r] \in Nat /\ ledger[r] \in Nat
        /\ job[p].max \in Nat /\ job[p].max <= LargestBudget /\ LargestBudget \in Nat
    BY <1>6, EvidType, LargestBudgetType DEF InitRuntime, InRun, RunOf, TypeOK
  <2> HIDE DEF r
  <2>1. job' = job /\ ledger' = ledger /\ budget' = budget /\ Evid' = Evid /\ pc'[p] = "clause"
    BY <1>6, <2>0, EvidSame, TRUE DEF InitRuntime, Goto, TypeOK, Jobs, RunOf, evidence, runtime, r
  <2> QED
    BY <1>6, <2>0, <2>1 DEF OwnMoney, Cash, RunOf, InRun, r, InitRuntime
<1>7. CASE Resume(p)
  <2> DEFINE r == RunOf(p)
  <2>1. /\ UNCHANGED <<ledger, budget, samples>> /\ Evid' = Evid /\ job'[p].run = r /\ r \in RunIds
        /\ pc'[p] = IF EvidenceUsd(r) > budget[r] THEN "repair" ELSE "clause"
        /\ job'[p].seen = IF EvidenceUsd(r) > budget[r] THEN EvidenceUsd(r) ELSE 0
    BY <1>7, EvidSame, Entering DEF PlaceInv, Resume, Goto, TypeOK, evidence, runtime
  <2>2. Evid[r] = EvidenceUsd(r) /\ Evid[r] \in Nat /\ budget[r] \in Nat
    BY <2>1, EvidType DEF Evid, TypeOK
  <2>3. ledger[r] <= Evid[r] /\ Evid[r] <= LargestBudget
    BY <2>1
  <2> HIDE DEF r
  <2> QED
    BY <2>1, <2>2, <2>3 DEF OwnMoney, Cash, RunOf, InRun
<1>8. CASE RepairBudget(p)
  <2> DEFINE r == RunOf(p)
  <2>0. /\ r \in RunIds /\ Evid[r] \in Nat /\ budget[r] \in Nat /\ ledger[r] \in Nat
        /\ job[p].max \in Nat /\ job[p].max <= LargestBudget /\ LargestBudget \in Nat
    BY <1>8, EvidType, LargestBudgetType DEF RepairBudget, InRun, RunOf, TypeOK
  <2>1. /\ job'[p].run = r /\ pc'[p] = "clause" /\ ledger' = ledger /\ Evid' = Evid
        /\ budget'[r] = job[p].seen /\ pc[p] = "repair"
    BY <1>8, <2>0, EvidSame DEF RepairBudget, Goto, TypeOK, Jobs, RunOf, evidence
  <2>2. job[p].seen = Evid[r] /\ ledger[r] <= Evid[r] /\ Evid[r] <= LargestBudget
    BY <2>1 DEF OwnMoney, Cash, InRun
  <2> QED
    BY <2>0, <2>1, <2>2 DEF OwnMoney, Cash, RunOf, InRun
<1>9. CASE EnterClause(p)
  <2> DEFINE r == RunOf(p)
  <2>0. /\ r \in RunIds /\ Evid[r] \in Nat /\ budget[r] \in Nat /\ ledger[r] \in Nat
        /\ job[p].max \in Nat /\ job[p].max <= LargestBudget /\ LargestBudget \in Nat
    BY <1>9, EvidType, LargestBudgetType DEF EnterClause, InRun, RunOf, TypeOK
  <2>1. /\ job'[p].run = r /\ ledger' = ledger /\ budget' = budget /\ Evid' = Evid
        /\ pc[p] \in InRun \ {"repair", "account"}
        /\ pc'[p] \notin {"repair", "account", "store"}
    BY <1>9, EvidSame DEF EnterClause, Goto, TypeOK, Jobs, RunOf, InRun, evidence, runtime
  <2> QED
    BY <2>0, <2>1 DEF OwnMoney, Cash, RunOf, InRun
<1>10. CASE PassGate(p)
  <2> DEFINE r == RunOf(p)
  <2>0. /\ r \in RunIds /\ Evid[r] \in Nat /\ budget[r] \in Nat /\ ledger[r] \in Nat
        /\ job[p].max \in Nat /\ job[p].max <= LargestBudget /\ LargestBudget \in Nat
    BY <1>10, EvidType, LargestBudgetType DEF PassGate, InRun, RunOf, TypeOK
  <2>1. /\ job' = job /\ UNCHANGED <<ledger, budget>> /\ Evid' = Evid
        /\ pc'[p] = "judge" \/ (pc'[p] = "store" /\ budget[r] + 1 <= job[p].max)
    BY <1>10, EvidSame DEF PassGate, Goto, TypeOK, evidence, runtime
  <2> QED
    BY <1>10, <2>0, <2>1 DEF OwnMoney, Cash, RunOf, InRun, PassGate
<1>11. CASE BudgetAbort(p)
  <2>1. pc'[p] = "idle"
    BY <1>11 DEF BudgetAbort, Ends, Goto, TypeOK
  <2> QED
    BY <2>1 DEF OwnMoney, Cash, InRun
<1>12. CASE Store(p)
  <2> DEFINE r == RunOf(p)
  <2>0. /\ r \in RunIds /\ Evid[r] \in Nat /\ budget[r] \in Nat /\ ledger[r] \in Nat
        /\ job[p].max \in Nat /\ job[p].max <= LargestBudget /\ LargestBudget \in Nat
    BY <1>12, EvidType, LargestBudgetType DEF Store, InRun, RunOf, TypeOK
  <2>1. CASE Ends(p)
    <3>1. pc'[p] = "idle"
      BY <2>1 DEF Ends, Goto, TypeOK
    <3> QED
      BY <3>1 DEF OwnMoney, Cash, InRun
  <2>2. CASE ~Ends(p)
    <3>1. /\ job' = job /\ pc'[p] = "account" /\ pc[p] = "store"
          /\ ledger' = ledger /\ budget' = budget
          /\ SlotAt(p) \notin samples /\ samples' = samples \cup {SlotAt(p)}
      BY <1>12, <2>2 DEF Store, Goto, TypeOK, runtime
    <3>2. SlotAt(p)[1] = r
      BY DEF SlotAt
    <3>3. Evid'[r] = Evid[r] + 1
      BY <2>0, <3>1, <3>2, EvidAdds, EvidType
    <3>4. Evid[r] <= budget[r] /\ budget[r] + 1 <= job[p].max /\ ledger[r] <= Evid[r]
      BY <3>1 DEF OwnMoney, Cash, InRun
    <3> QED
      BY <2>0, <3>1, <3>3, <3>4 DEF OwnMoney, Cash, RunOf, InRun
  <2> QED
    BY <2>1, <2>2
<1>13. CASE Account(p)
  <2> DEFINE r == RunOf(p)
  <2>0. /\ r \in RunIds /\ Evid[r] \in Nat /\ budget[r] \in Nat /\ ledger[r] \in Nat
        /\ job[p].max \in Nat /\ job[p].max <= LargestBudget /\ LargestBudget \in Nat
    BY <1>13, EvidType, LargestBudgetType DEF Account, InRun, RunOf, TypeOK
  <2>1. /\ job' = job /\ pc'[p] = "judge" /\ pc[p] = "account" /\ Evid' = Evid
        /\ ledger'[r] = ledger[r] + 1 /\ budget'[r] = budget[r] + 1
    BY <1>13, <2>0, EvidSame DEF Account, Goto, TypeOK, evidence
  <2>2. Evid[r] <= budget[r] + 1 /\ ledger[r] + 1 <= Evid[r] /\ Evid[r] <= LargestBudget
    BY <2>1 DEF OwnMoney, Cash, InRun
  <2> QED
    BY <2>0, <2>1, <2>2 DEF OwnMoney, Cash, RunOf, InRun
<1>14. CASE Judge(p)
  <2> DEFINE r == RunOf(p)
  <2>0. /\ r \in RunIds /\ Evid[r] \in Nat /\ budget[r] \in Nat /\ ledger[r] \in Nat
        /\ job[p].max \in Nat /\ job[p].max <= LargestBudget /\ LargestBudget \in Nat
    BY <1>14, EvidType, LargestBudgetType DEF Judge, InRun, RunOf, TypeOK
  <2>1. /\ job'[p].run = r /\ ledger' = ledger /\ budget' = budget /\ Evid' = Evid
        /\ pc[p] \in InRun \ {"repair", "account"}
        /\ pc'[p] \notin {"repair", "account", "store"}
    BY <1>14, EvidSame DEF Judge, Goto, TypeOK, Jobs, RunOf, InRun, evidence, runtime
  <2> QED
    BY <2>0, <2>1 DEF OwnMoney, Cash, RunOf, InRun
<1>15. CASE Advance(p)
  <2> DEFINE r == RunOf(p)
  <2>0. /\ r \in RunIds /\ Evid[r] \in Nat /\ budget[r] \in Nat /\ ledger[r] \in Nat
        /\ job[p].max \in Nat /\ job[p].max <= LargestBudget /\ LargestBudget \in Nat
    BY <1>15, EvidType, LargestBudgetType DEF Advance, InRun, RunOf, TypeOK
  <2>1. /\ job'[p].run = r /\ ledger' = ledger /\ budget' = budget /\ Evid' = Evid
        /\ pc[p] \in InRun \ {"repair", "account"}
        /\ pc'[p] \notin {"repair", "account", "store"}
    BY <1>15, EvidSame DEF Advance, Goto, TypeOK, Jobs, RunOf, InRun, evidence, runtime
  <2> QED
    BY <2>0, <2>1 DEF OwnMoney, Cash, RunOf, InRun
<1>16. CASE Stamp(p)
  <2> DEFINE r == RunOf(p)
  <2>0. /\ r \in RunIds /\ Evid[r] \in Nat /\ budget[r] \in Nat /\ ledger[r] \in Nat
        /\ job[p].max \in Nat /\ job[p].max <= LargestBudget /\ LargestBudget \in Nat
    BY <1>16, EvidType, LargestBudgetType DEF Stamp, InRun, RunOf, TypeOK
  <2>1. CASE Ends(p)
    <3>1. pc'[p] = "idle"
      BY <2>1 DEF Ends, Goto, TypeOK
    <3> QED
      BY <3>1 DEF OwnMoney, Cash, InRun
  <2>2. CASE ~Ends(p)
    <3>1. /\ job' = job /\ pc'[p] = "finish" /\ pc[p] = "stamp"
          /\ ledger' = ledger /\ budget' = budget /\ Evid' = Evid
      BY <1>16, <2>2, EvidSame DEF Stamp, Goto, TypeOK, runtime
    <3> QED
      BY <2>0, <3>1 DEF OwnMoney, Cash, RunOf, InRun
  <2> QED
    BY <2>1, <2>2
<1>17. CASE Finish(p)
  <2> DEFINE r == RunOf(p)
  <2>0. /\ r \in RunIds /\ Evid[r] \in Nat /\ budget[r] \in Nat /\ ledger[r] \in Nat
        /\ job[p].max \in Nat /\ job[p].max <= LargestBudget /\ LargestBudget \in Nat
    BY <1>17, EvidType, LargestBudgetType DEF Finish, InRun, RunOf, TypeOK
  <2>1. /\ job'[p].run = r /\ ledger' = ledger /\ budget' = budget /\ Evid' = Evid
        /\ pc[p] \in InRun \ {"repair", "account"}
        /\ pc'[p] \notin {"repair", "account", "store"}
    BY <1>17, EvidSame DEF Finish, Goto, TypeOK, Jobs, RunOf, InRun, evidence, runtime
  <2> QED
    BY <2>0, <2>1 DEF OwnMoney, Cash, RunOf, InRun
<1>18. CASE Reconcile(p)
  <2>1. pc'[p] = "idle"
    BY <1>18 DEF Reconcile, Ends, Goto, TypeOK
  <2> QED
    BY <2>1 DEF OwnMoney, Cash, InRun
<1>19. CASE Crash(p)
  <2>1. pc'[p] \notin InRun
    BY <1>19 DEF Crash, Ends, Goto, TypeOK, InRun
  <2> QED
    BY <2>1 DEF OwnMoney, Cash, InRun
<1> QED
  BY <1>1, <1>2, <1>3, <1>4, <1>5, <1>6, <1>7, <1>8, <1>9, <1>10, <1>11, <1>12, <1>13, <1>14, <1>15, <1>16, <1>17, <1>18, <1>19 DEF Launcher

LEMMA InvisibleStep ==
  ASSUME TypeOK, PlaceInv, InvisibleRunIsEmpty, [Next]_vars
  PROVE  InvisibleRunIsEmpty'
<1> Grows
  BY RowsGrow
<1>1. ASSUME NEW p \in Procs, Invoke(p) \/ Launcher(p) \/ Crash(p)
      PROVE  samples' = samples \/ (pc[p] = "store" /\ samples' = samples \cup {SlotAt(p)})
  BY <1>1 DEF Launcher, Invoke, Crash, CheckDailyCap, CheckIncomplete, Refuse, StartRun,
       InsertRun, InitRuntime, Resume, RepairBudget, EnterClause, PassGate, BudgetAbort, Store,
       Account, Judge, Advance, Stamp, Finish, Reconcile, evidence
<1>2. ASSUME samples' = samples PROVE InvisibleRunIsEmpty'
  BY <1>2 DEF InvisibleRunIsEmpty, Grows, TypeOK, Slots
<1>3. ASSUME NEW p \in Procs, pc[p] = "store", samples' = samples \cup {SlotAt(p)}
      PROVE  InvisibleRunIsEmpty'
  <2>1. SlotAt(p)[1] = RunOf(p) /\ RunOf(p) \in RunIds /\ progress[RunOf(p)] # "absent"
    BY <1>3, SlotType DEF PlaceInv, Place, Visible, InRun, SlotAt
  <2> QED
    BY <1>3, <2>1 DEF InvisibleRunIsEmpty, Grows, TypeOK, Slots
<1>4. RollOff => samples' = samples
  BY DEF RollOff, evidence
<1>5. UNCHANGED <<evidence, runtime, pc, job, observers, invocations>> => samples' = samples
  BY DEF evidence
<1> QED
  BY <1>1, <1>2, <1>3, <1>4, <1>5, Moves

LEMMA MoneyStep ==
  ASSUME TypeOK, PlaceInv, IsFiniteSet(samples), InvisibleRunIsEmpty, Alone, MoneyInv, [Next]_vars
  PROVE  MoneyInv'
<1>1. ASSUME NEW p \in Procs, Invoke(p) \/ Launcher(p) \/ Crash(p)
      PROVE  MoneyInv'
  <2>1. \A q \in Procs : pc'[q] # "idle" => job'[q].max \in Budgets
    BY <1>1, MaxIsBudget, Locality DEF MoneyInv
  <2>2. ASSUME shared' = {} PROVE shared = {}
    BY <2>2, RowsGrow DEF Grows
  <2>3. ASSUME shared' = {} PROVE OwnMoney(p)'
    <3>1. shared = {} /\ \A r \in RunIds : ledger[r] <= Evid[r] /\ Evid[r] <= LargestBudget
      BY <2>2, <2>3 DEF MoneyInv
    <3>2. OwnMoney(p) /\ (pc[p] # "idle" => job[p].max \in Budgets)
      BY <3>1 DEF OwnMoney, MoneyInv, TypeOK, RunOf
    <3> QED
      BY <1>1, <3>1, <3>2, OwnCash
  <2>4. ASSUME shared' = {}, NEW q \in Procs \ {p} PROVE Cash(q)'
    <3>1. pc'[q] = pc[q] /\ job'[q] = job[q]
      BY <1>1, Locality
    <3>2. CASE pc[q] \in InRun
      <4>1. RunOf(q) \in RunIds /\ ~(pc[p] \in InRun /\ RunOf(p) = RunOf(q))
        BY <2>2, <2>4, <3>2 DEF Alone, TypeOK, RunOf
      <4>2. /\ ledger'[RunOf(q)] = ledger[RunOf(q)] /\ budget'[RunOf(q)] = budget[RunOf(q)]
            /\ Evid'[RunOf(q)] = Evid[RunOf(q)]
        BY <1>1, <4>1, MoneyFrame
      <4>3. Cash(q)
        BY <2>2, <2>4 DEF MoneyInv
      <4> QED
        BY <3>1, <4>2, <4>3 DEF Cash, RunOf
    <3>3. CASE pc[q] \notin InRun
      BY <3>1, <3>3 DEF Cash, InRun
    <3> QED
      BY <3>2, <3>3
  <2>5. ASSUME shared' = {}, NEW r \in RunIds
        PROVE  ledger'[r] <= Evid'[r] /\ Evid'[r] <= LargestBudget
    <3>1. ledger[r] <= Evid[r] /\ Evid[r] <= LargestBudget
      BY <2>2, <2>5 DEF MoneyInv
    <3>2. CASE ~(pc[p] \in InRun /\ RunOf(p) = r)
      BY <1>1, <3>1, <3>2, MoneyFrame
    <3>3. CASE pc[p] \in InRun /\ RunOf(p) = r
      <4>1. CASE pc'[p] \in InRun
        <5>1. job'[p].run = r
          BY <1>1, <3>3, <4>1, StaysIn DEF StartRun, Resume, InRun, RunOf
        <5> QED
          BY <2>3, <2>5, <4>1, <5>1 DEF OwnMoney, RunOf
      <4>2. CASE pc'[p] \notin InRun
        <5>1. Evid' = Evid
          BY <1>1, <4>2, EvidMoves DEF InRun
        <5>2. CASE UNCHANGED <<ledger, trailing>>
          BY <3>1, <5>1, <5>2
        <5>3. CASE pc[p] = "account" \/ pc[p] = "reconcile"
          <6>1. CASE Account(p)
            BY <4>2, <6>1 DEF Account, Goto, TypeOK, InRun
          <6>2. CASE Reconcile(p)
            <7>1. ledger'[r] = EvidenceUsd(r) /\ Evid[r] = EvidenceUsd(r)
              BY <3>3, <6>2 DEF Reconcile, TypeOK, Evid
            <7> QED
              BY <3>1, <5>1, <7>1, EvidType
          <6>3. CASE Crash(p)
            BY <3>1, <5>1, <6>3 DEF Crash, runtime
          <6>4. Account(p) \/ Reconcile(p) \/ Crash(p)
            BY <1>1, <5>3 DEF Launcher, Invoke, CheckDailyCap, CheckIncomplete, Refuse, StartRun,
              InitRuntime, Resume, RepairBudget, EnterClause, PassGate, BudgetAbort, Store,
              Judge, Advance, Stamp, Finish
          <6> QED
            BY <6>1, <6>2, <6>3, <6>4
        <5> QED
          BY <1>1, <5>2, <5>3, LedgerMoves
      <4> QED
        BY <4>1, <4>2
    <3> QED
      BY <3>2, <3>3
  <2>6. ASSUME shared' = {} PROVE \A q \in Procs : Cash(q)'
    <3>1. Cash(p)'
      BY <2>3, <2>6 DEF OwnMoney
    <3> QED
      BY <2>4, <2>6, <3>1
  <2> QED
    BY <2>1, <2>5, <2>6 DEF MoneyInv
<1>2. RollOff => MoneyInv'
  <2>1. RollOff => Evid' = Evid
    BY EvidSame DEF RollOff, evidence
  <2> QED
    BY <2>1 DEF RollOff, MoneyInv, Cash, RunOf, observers
<1>3. UNCHANGED <<evidence, runtime, pc, job, observers, invocations>> => MoneyInv'
  <2>1. UNCHANGED <<evidence, runtime, pc, job, observers, invocations>> => Evid' = Evid
    BY EvidSame DEF evidence
  <2> QED
    BY <2>1 DEF MoneyInv, Cash, RunOf, runtime, observers
<1> QED
  BY <1>1, <1>2, <1>3, Moves

-----------------------------------------------------------------------------
(* Layer 7: the money of a day. *)

\* What a process may still spend shrinks by what it spends, but for a process
\* that has just read a ledger below the cap.
PotMoves(p) ==
    \/ /\ Pot(p) \in Nat /\ Pot(p)' \in Nat /\ Pot(p) <= LargestBudget
       /\ Pot(p)' <= Pot(p)
       /\ trailing' <= trailing + Pot(p) - Pot(p)'
    \/ trailing' = trailing /\ trailing < DailyCap

LEMMA PotType ==
  ASSUME NEW p \in Procs, TypeOK, IsFiniteSet(samples), MoneyInv, shared = {}
  PROVE  Pot(p) \in Nat /\ Pot(p) <= LargestBudget
<1>1. CASE pc[p] \notin InRun
  BY <1>1, LargestBudgetType DEF Pot, TypeOK
<1>2. CASE pc[p] \in InRun
  <2>1. RunOf(p) \in RunIds /\ job[p].max \in Nat /\ ledger[RunOf(p)] \in Nat
    BY <1>2, JobFields DEF TypeOK, RunOf
  <2>2. /\ Evid[RunOf(p)] \in Nat /\ ledger[RunOf(p)] <= Evid[RunOf(p)]
        /\ Evid[RunOf(p)] <= LargestBudget /\ job[p].max <= LargestBudget
    BY <1>2, <2>1, EvidType, LargestBudgetType DEF MoneyInv, InRun
  <2>3. Pot(p) = (IF job[p].max >= Evid[RunOf(p)] THEN job[p].max ELSE Evid[RunOf(p)]) - ledger[RunOf(p)]
    BY <1>2 DEF Pot, InRun
  <2> QED
    BY <2>1, <2>2, <2>3, LargestBudgetType
<1> QED
  BY <1>1, <1>2

LEMMA OwnPot ==
  ASSUME NEW p \in Procs, TypeOK, PlaceInv, IsFiniteSet(samples), MoneyInv, shared = {}, Invoke(p) \/ Launcher(p) \/ Crash(p)
  PROVE  PotMoves(p)
<1>1. CASE Invoke(p)
  <2>0. /\ Pot(p) \in Nat /\ Pot(p) <= LargestBudget /\ LargestBudget \in Nat /\ trailing \in Int
    BY PotType, LargestBudgetType DEF TypeOK
  <2>1. pc'[p] = "cap" /\ trailing' = trailing
    BY <1>1 DEF Invoke, Goto, TypeOK, runtime
  <2>2. Pot(p)' = 0
    BY <2>1 DEF Pot
  <2> QED
    BY <2>0, <2>1, <2>2 DEF PotMoves
<1>2. CASE CheckDailyCap(p)
  <2>0. /\ Pot(p) \in Nat /\ Pot(p) <= LargestBudget /\ LargestBudget \in Nat /\ trailing \in Int
    BY PotType, LargestBudgetType DEF TypeOK
  <2>1. CASE OverDailyCap
    <3>1. pc'[p] = "idle" /\ trailing' = trailing
      BY <1>2, <2>1 DEF CheckDailyCap, Ends, Goto, TypeOK, runtime
    <3>2. Pot(p)' = 0
      BY <3>1 DEF Pot
    <3> QED
      BY <2>0, <3>1, <3>2 DEF PotMoves
  <2>2. CASE ~OverDailyCap
    BY <1>2, <2>0, <2>2, LaunchAssumption DEF CheckDailyCap, OverDailyCap, PotMoves, runtime
  <2> QED
    BY <2>1, <2>2
<1>3. CASE CheckIncomplete(p)
  <2>0. /\ Pot(p) \in Nat /\ Pot(p) <= LargestBudget /\ LargestBudget \in Nat /\ trailing \in Int
    BY PotType, LargestBudgetType DEF TypeOK
  <2>1. pc[p] = "guard" /\ pc'[p] \in {"idle", "load"} /\ trailing' = trailing
    BY <1>3 DEF CheckIncomplete, Ends, Goto, TypeOK, runtime
  <2>2. Pot(p) = LargestBudget /\ Pot(p)' \in {0, LargestBudget}
    BY <2>1 DEF Pot
  <2> QED
    BY <2>0, <2>1, <2>2 DEF PotMoves
<1>4. CASE Refuse(p)
  <2>0. /\ Pot(p) \in Nat /\ Pot(p) <= LargestBudget /\ LargestBudget \in Nat /\ trailing \in Int
    BY PotType, LargestBudgetType DEF TypeOK
  <2>1. pc'[p] = "idle" /\ trailing' = trailing
    BY <1>4 DEF Refuse, Ends, Goto, TypeOK, runtime
  <2>2. Pot(p)' = 0
    BY <2>1 DEF Pot
  <2> QED
    BY <2>0, <2>1, <2>2 DEF PotMoves
<1>5. CASE StartRun(p)
  <2>0. /\ Pot(p) \in Nat /\ Pot(p) <= LargestBudget /\ LargestBudget \in Nat /\ trailing \in Int
    BY PotType, LargestBudgetType DEF TypeOK
  <2>1. /\ pc[p] = "load" /\ pc'[p] \in {"init", "repair", "clause"}
        /\ trailing' = trailing /\ ledger' = ledger /\ Evid' = Evid
    BY <1>5, EvidSame DEF StartRun, InsertRun, Goto, TypeOK, evidence, runtime
  <2> DEFINE r == job'[p].run
  <2>2. r \in RunIds /\ job'[p].max = job[p].max
    BY <1>5, Entering DEF PlaceInv
  <2>3. /\ Evid[r] \in Nat /\ ledger[r] \in Nat /\ ledger[r] <= Evid[r] /\ Evid[r] <= LargestBudget
        /\ job[p].max \in Nat /\ job[p].max <= LargestBudget
    BY <2>1, <2>2, EvidType, LargestBudgetType DEF MoneyInv, TypeOK
  <2>4. Pot(p) = LargestBudget
    BY <2>1 DEF Pot
  <2>5. Pot(p)' = (IF job[p].max >= Evid[r] THEN job[p].max ELSE Evid[r]) - ledger[r]
    BY <2>1, <2>2 DEF Pot, RunOf
  <2> HIDE DEF r
  <2> QED
    BY <2>0, <2>1, <2>3, <2>4, <2>5 DEF PotMoves
<1>6. CASE InitRuntime(p)
  <2>0. /\ Pot(p) \in Nat /\ Pot(p) <= LargestBudget /\ LargestBudget \in Nat /\ trailing \in Int
    BY PotType, LargestBudgetType DEF TypeOK
  <2>1. /\ pc[p] \in InRun /\ pc'[p] \in InRun
        /\ job'[p].run = job[p].run /\ job'[p].max = job[p].max
        /\ trailing' = trailing /\ ledger' = ledger /\ Evid' = Evid
    BY <1>6, EvidSame DEF InitRuntime, Goto, TypeOK, Jobs, InRun, evidence, runtime
  <2>2. Pot(p)' = Pot(p)
    BY <2>1 DEF Pot, RunOf, InRun
  <2> QED
    BY <2>0, <2>1, <2>2 DEF PotMoves
<1>7. CASE Resume(p)
  <2>0. /\ Pot(p) \in Nat /\ Pot(p) <= LargestBudget /\ LargestBudget \in Nat /\ trailing \in Int
    BY PotType, LargestBudgetType DEF TypeOK
  <2>1. /\ pc[p] = "load" /\ pc'[p] \in {"init", "repair", "clause"}
        /\ trailing' = trailing /\ ledger' = ledger /\ Evid' = Evid
    BY <1>7, EvidSame DEF Resume, InsertRun, Goto, TypeOK, evidence, runtime
  <2> DEFINE r == job'[p].run
  <2>2. r \in RunIds /\ job'[p].max = job[p].max
    BY <1>7, Entering DEF PlaceInv
  <2>3. /\ Evid[r] \in Nat /\ ledger[r] \in Nat /\ ledger[r] <= Evid[r] /\ Evid[r] <= LargestBudget
        /\ job[p].max \in Nat /\ job[p].max <= LargestBudget
    BY <2>1, <2>2, EvidType, LargestBudgetType DEF MoneyInv, TypeOK
  <2>4. Pot(p) = LargestBudget
    BY <2>1 DEF Pot
  <2>5. Pot(p)' = (IF job[p].max >= Evid[r] THEN job[p].max ELSE Evid[r]) - ledger[r]
    BY <2>1, <2>2 DEF Pot, RunOf
  <2> HIDE DEF r
  <2> QED
    BY <2>0, <2>1, <2>3, <2>4, <2>5 DEF PotMoves
<1>8. CASE RepairBudget(p)
  <2>0. /\ Pot(p) \in Nat /\ Pot(p) <= LargestBudget /\ LargestBudget \in Nat /\ trailing \in Int
    BY PotType, LargestBudgetType DEF TypeOK
  <2>1. /\ pc[p] \in InRun /\ pc'[p] \in InRun
        /\ job'[p].run = job[p].run /\ job'[p].max = job[p].max
        /\ trailing' = trailing /\ ledger' = ledger /\ Evid' = Evid
    BY <1>8, EvidSame DEF RepairBudget, Goto, TypeOK, Jobs, InRun, evidence, runtime
  <2>2. Pot(p)' = Pot(p)
    BY <2>1 DEF Pot, RunOf, InRun
  <2> QED
    BY <2>0, <2>1, <2>2 DEF PotMoves
<1>9. CASE EnterClause(p)
  <2>0. /\ Pot(p) \in Nat /\ Pot(p) <= LargestBudget /\ LargestBudget \in Nat /\ trailing \in Int
    BY PotType, LargestBudgetType DEF TypeOK
  <2>1. /\ pc[p] \in InRun /\ pc'[p] \in InRun
        /\ job'[p].run = job[p].run /\ job'[p].max = job[p].max
        /\ trailing' = trailing /\ ledger' = ledger /\ Evid' = Evid
    BY <1>9, EvidSame DEF EnterClause, Goto, TypeOK, Jobs, InRun, evidence, runtime
  <2>2. Pot(p)' = Pot(p)
    BY <2>1 DEF Pot, RunOf, InRun
  <2> QED
    BY <2>0, <2>1, <2>2 DEF PotMoves
<1>10. CASE PassGate(p)
  <2>0. /\ Pot(p) \in Nat /\ Pot(p) <= LargestBudget /\ LargestBudget \in Nat /\ trailing \in Int
    BY PotType, LargestBudgetType DEF TypeOK
  <2>1. /\ pc[p] \in InRun /\ pc'[p] \in InRun
        /\ job'[p].run = job[p].run /\ job'[p].max = job[p].max
        /\ trailing' = trailing /\ ledger' = ledger /\ Evid' = Evid
    BY <1>10, EvidSame DEF PassGate, Goto, TypeOK, Jobs, InRun, evidence, runtime
  <2>2. Pot(p)' = Pot(p)
    BY <2>1 DEF Pot, RunOf, InRun
  <2> QED
    BY <2>0, <2>1, <2>2 DEF PotMoves
<1>11. CASE BudgetAbort(p)
  <2>0. /\ Pot(p) \in Nat /\ Pot(p) <= LargestBudget /\ LargestBudget \in Nat /\ trailing \in Int
    BY PotType, LargestBudgetType DEF TypeOK
  <2>1. pc'[p] = "idle" /\ trailing' = trailing
    BY <1>11 DEF BudgetAbort, Ends, Goto, TypeOK, runtime
  <2>2. Pot(p)' = 0
    BY <2>1 DEF Pot
  <2> QED
    BY <2>0, <2>1, <2>2 DEF PotMoves
<1>12. CASE Store(p)
  <2>0. /\ Pot(p) \in Nat /\ Pot(p) <= LargestBudget /\ LargestBudget \in Nat /\ trailing \in Int
    BY PotType, LargestBudgetType DEF TypeOK
  <2>1. CASE Ends(p)
    <3>1. pc'[p] = "idle" /\ trailing' = trailing
      BY <1>12, <2>1 DEF Store, Ends, Goto, TypeOK, runtime
    <3>2. Pot(p)' = 0
      BY <3>1 DEF Pot
    <3> QED
      BY <2>0, <3>1, <3>2 DEF PotMoves
  <2>2. CASE ~Ends(p)
    <3> DEFINE r == RunOf(p)
    <3>1. /\ job' = job /\ pc[p] = "store" /\ pc'[p] = "account"
          /\ trailing' = trailing /\ ledger' = ledger
          /\ SlotAt(p) \notin samples /\ samples' = samples \cup {SlotAt(p)}
      BY <1>12, <2>2 DEF Store, Goto, TypeOK, runtime
    <3>2. r \in RunIds /\ SlotAt(p)[1] = r
      BY <3>1, SlotType DEF SlotAt, InRun
    <3>3. Evid'[r] = Evid[r] + 1 /\ Evid[r] \in Nat
      BY <3>1, <3>2, EvidAdds, EvidType
    <3>4. /\ Evid[r] <= budget[r] /\ budget[r] + 1 <= job[p].max
          /\ budget[r] \in Nat /\ ledger[r] \in Nat /\ job[p].max \in Nat
      BY <3>1, <3>2, JobFields DEF MoneyInv, Cash, InRun, TypeOK
    <3>5. Pot(p)' = Pot(p)
      <4>1. Pot(p) = job[p].max - ledger[r]
        BY <3>1, <3>3, <3>4 DEF Pot
      <4>2. Pot(p)' = job[p].max - ledger[r]
        <5>1. Pot(p)' = (IF job[p].max >= Evid'[r] THEN job[p].max ELSE Evid'[r]) - ledger[r]
          BY <3>1 DEF Pot, RunOf
        <5> QED
          BY <3>3, <3>4, <5>1
      <4> QED
        BY <4>1, <4>2
    <3> QED
      BY <2>0, <3>1, <3>5 DEF PotMoves
  <2> QED
    BY <2>1, <2>2
<1>13. CASE Account(p)
  <2>0. /\ Pot(p) \in Nat /\ Pot(p) <= LargestBudget /\ LargestBudget \in Nat /\ trailing \in Int
    BY PotType, LargestBudgetType DEF TypeOK
  <2> DEFINE r == RunOf(p)
             most == IF job[p].max >= Evid[r] THEN job[p].max ELSE Evid[r]
  <2>1. /\ job' = job /\ pc[p] = "account" /\ pc'[p] = "judge" /\ Evid' = Evid
        /\ r \in RunIds /\ ledger'[r] = ledger[r] + 1 /\ trailing' = trailing + 1
    BY <1>13, EvidSame DEF Account, Goto, TypeOK, evidence, RunOf, InRun
  <2>2. Pot(p) = most - ledger[r]
    BY <2>1 DEF Pot
  <2>3. Pot(p)' = most - (ledger[r] + 1)
    BY <2>1 DEF Pot, RunOf
  <2>4. ledger[r] + 1 <= Evid[r] /\ ledger[r] \in Nat /\ Evid[r] \in Nat /\ job[p].max \in Nat
    BY <2>1, EvidType, JobFields DEF MoneyInv, Cash, TypeOK
  <2>5. most \in Nat /\ Evid[r] <= most
    BY <2>4
  <2> HIDE DEF r, most
  <2> QED
    BY <2>0, <2>1, <2>2, <2>3, <2>4, <2>5 DEF PotMoves
<1>14. CASE Judge(p)
  <2>0. /\ Pot(p) \in Nat /\ Pot(p) <= LargestBudget /\ LargestBudget \in Nat /\ trailing \in Int
    BY PotType, LargestBudgetType DEF TypeOK
  <2>1. /\ pc[p] \in InRun /\ pc'[p] \in InRun
        /\ job'[p].run = job[p].run /\ job'[p].max = job[p].max
        /\ trailing' = trailing /\ ledger' = ledger /\ Evid' = Evid
    BY <1>14, EvidSame DEF Judge, Goto, TypeOK, Jobs, InRun, evidence, runtime
  <2>2. Pot(p)' = Pot(p)
    BY <2>1 DEF Pot, RunOf, InRun
  <2> QED
    BY <2>0, <2>1, <2>2 DEF PotMoves
<1>15. CASE Advance(p)
  <2>0. /\ Pot(p) \in Nat /\ Pot(p) <= LargestBudget /\ LargestBudget \in Nat /\ trailing \in Int
    BY PotType, LargestBudgetType DEF TypeOK
  <2>1. /\ pc[p] \in InRun /\ pc'[p] \in InRun
        /\ job'[p].run = job[p].run /\ job'[p].max = job[p].max
        /\ trailing' = trailing /\ ledger' = ledger /\ Evid' = Evid
    BY <1>15, EvidSame DEF Advance, Goto, TypeOK, Jobs, InRun, evidence, runtime
  <2>2. Pot(p)' = Pot(p)
    BY <2>1 DEF Pot, RunOf, InRun
  <2> QED
    BY <2>0, <2>1, <2>2 DEF PotMoves
<1>16. CASE Stamp(p)
  <2>0. /\ Pot(p) \in Nat /\ Pot(p) <= LargestBudget /\ LargestBudget \in Nat /\ trailing \in Int
    BY PotType, LargestBudgetType DEF TypeOK
  <2>1. CASE Ends(p)
    <3>1. pc'[p] = "idle" /\ trailing' = trailing
      BY <1>16, <2>1 DEF Stamp, Ends, Goto, TypeOK, runtime
    <3>2. Pot(p)' = 0
      BY <3>1 DEF Pot
    <3> QED
      BY <2>0, <3>1, <3>2 DEF PotMoves
  <2>2. CASE ~Ends(p)
    <3>1. /\ job' = job /\ pc[p] = "stamp" /\ pc'[p] = "finish"
          /\ trailing' = trailing /\ ledger' = ledger /\ Evid' = Evid
      BY <1>16, <2>2, EvidSame DEF Stamp, Goto, TypeOK, runtime
    <3>2. Pot(p)' = Pot(p)
      BY <3>1 DEF Pot, RunOf
    <3> QED
      BY <2>0, <3>1, <3>2 DEF PotMoves
  <2> QED
    BY <2>1, <2>2
<1>17. CASE Finish(p)
  <2>0. /\ Pot(p) \in Nat /\ Pot(p) <= LargestBudget /\ LargestBudget \in Nat /\ trailing \in Int
    BY PotType, LargestBudgetType DEF TypeOK
  <2>1. /\ pc[p] \in InRun /\ pc'[p] \in InRun
        /\ job'[p].run = job[p].run /\ job'[p].max = job[p].max
        /\ trailing' = trailing /\ ledger' = ledger /\ Evid' = Evid
    BY <1>17, EvidSame DEF Finish, Goto, TypeOK, Jobs, InRun, evidence, runtime
  <2>2. Pot(p)' = Pot(p)
    BY <2>1 DEF Pot, RunOf, InRun
  <2> QED
    BY <2>0, <2>1, <2>2 DEF PotMoves
<1>18. CASE Reconcile(p)
  <2>0. /\ Pot(p) \in Nat /\ Pot(p) <= LargestBudget /\ LargestBudget \in Nat /\ trailing \in Int
    BY PotType, LargestBudgetType DEF TypeOK
  <2> DEFINE r == RunOf(p)
             most == IF job[p].max >= Evid[r] THEN job[p].max ELSE Evid[r]
  <2>1. /\ pc[p] = "reconcile" /\ pc'[p] = "idle" /\ r \in RunIds
        /\ trailing' = trailing + EvidenceUsd(r) - ledger[r]
    BY <1>18 DEF Reconcile, Ends, Goto, TypeOK, RunOf, InRun
  <2>2. Evid[r] = EvidenceUsd(r)
    BY <2>1 DEF Evid
  <2>3. Pot(p) = most - ledger[r]
    BY <2>1 DEF Pot
  <2>4. Pot(p)' = 0
    BY <2>1 DEF Pot
  <2>5. ledger[r] \in Nat /\ Evid[r] \in Nat /\ job[p].max \in Nat
    BY <2>1, EvidType, JobFields DEF TypeOK
  <2>6. most \in Nat /\ Evid[r] <= most
    BY <2>5
  <2> HIDE DEF r, most
  <2> QED
    BY <2>0, <2>1, <2>2, <2>3, <2>4, <2>5, <2>6 DEF PotMoves
<1>19. CASE Crash(p)
  <2>0. /\ Pot(p) \in Nat /\ Pot(p) <= LargestBudget /\ LargestBudget \in Nat /\ trailing \in Int
    BY PotType, LargestBudgetType DEF TypeOK
  <2>1. pc'[p] = "idle" /\ trailing' = trailing
    BY <1>19 DEF Crash, Ends, Goto, TypeOK, runtime
  <2>2. Pot(p)' = 0
    BY <2>1 DEF Pot
  <2> QED
    BY <2>0, <2>1, <2>2 DEF PotMoves
<1> QED
  BY <1>1, <1>2, <1>3, <1>4, <1>5, <1>6, <1>7, <1>8, <1>9, <1>10, <1>11, <1>12, <1>13, <1>14, <1>15, <1>16, <1>17, <1>18, <1>19 DEF Launcher

\* The pot of a process depends on its own run.
LEMMA OthersPot ==
  ASSUME TypeOK, PlaceInv, IsFiniteSet(samples), Alone, shared = {},
         NEW p \in Procs, Invoke(p) \/ Launcher(p) \/ Crash(p), NEW q \in Procs \ {p}
  PROVE  Pot(q)' = Pot(q)
<1>1. pc'[q] = pc[q] /\ job'[q] = job[q]
  BY Locality
<1>2. CASE pc[q] \in InRun
  <2>1. RunOf(q) \in RunIds /\ ~(pc[p] \in InRun /\ RunOf(p) = RunOf(q))
    BY <1>2 DEF Alone, TypeOK, RunOf
  <2>2. ledger'[RunOf(q)] = ledger[RunOf(q)] /\ Evid'[RunOf(q)] = Evid[RunOf(q)]
    BY <2>1, MoneyFrame
  <2> QED
    BY <1>1, <2>2 DEF Pot, RunOf
<1>3. CASE pc[q] \notin InRun
  BY <1>1, <1>3 DEF Pot, TypeOK
<1> QED
  BY <1>2, <1>3

LEMMA TokensFinite ==
  /\ IsFiniteSet(Tokens) /\ Cardinality(Tokens) \in Nat
  /\ Cardinality(Tokens) <= Cardinality(Procs) * LargestBudget
<1>1. /\ IsFiniteSet(1..LargestBudget)
      /\ Cardinality(1..LargestBudget) = LargestBudget
  BY FS_Interval, LargestBudgetType
<1>2. /\ IsFiniteSet(Procs \X (1..LargestBudget))
      /\ Cardinality(Procs \X (1..LargestBudget)) = Cardinality(Procs) * LargestBudget
  BY <1>1, FS_Product, LaunchAssumption
<1>3. Tokens \in SUBSET (Procs \X (1..LargestBudget))
  BY DEF Tokens
<1> QED
  BY <1>2, <1>3, FS_Subset, FS_CardinalityType

\* The tokens grow by what the pot of one process shrinks.
LEMMA TokensGrow ==
  ASSUME NEW p \in Procs, \A q \in Procs \ {p} : Pot(q)' = Pot(q),
         Pot(p) \in Nat, Pot(p)' \in Nat, Pot(p)' <= Pot(p), Pot(p) <= LargestBudget
  PROVE  /\ Cardinality(Tokens') \in Nat
         /\ Cardinality(Tokens') = Cardinality(Tokens) + Pot(p) - Pot(p)'
<1> DEFINE a == Pot(p)
           b == Pot(p)'
           new == {p} \X ((b + 1)..a)
<1>0. a \in Nat /\ b \in Nat /\ b <= a /\ a <= LargestBudget /\ LargestBudget \in Nat
  BY LargestBudgetType
<1>1. /\ IsFiniteSet((b + 1)..a)
      /\ Cardinality((b + 1)..a) = a - b
  <2> HIDE DEF a, b
  <2>1. b + 1 \in Int /\ a \in Int
    BY <1>0
  <2>2. /\ IsFiniteSet((b + 1)..a)
        /\ Cardinality((b + 1)..a) = IF b + 1 > a THEN 0 ELSE a - (b + 1) + 1
    BY <2>1, FS_Interval
  <2> QED
    BY <1>0, <2>2
<1>2. IsFiniteSet(new) /\ Cardinality(new) = a - b
  <2>1. IsFiniteSet({p}) /\ Cardinality({p}) = 1
    BY FS_Singleton
  <2>2. IsFiniteSet(new) /\ Cardinality(new) = Cardinality({p}) * Cardinality((b + 1)..a)
    BY <1>1, <2>1, FS_Product
  <2> HIDE DEF new, a, b
  <2> QED
    BY <1>0, <1>1, <2>1, <2>2
<1>3. Tokens' = Tokens \cup new /\ Tokens \cap new = {}
  <2>1. \A q \in Procs, i \in 1..LargestBudget :
           /\ <<q, i>> \in Tokens <=> i > Pot(q)
           /\ <<q, i>> \in Tokens' <=> i > Pot(q)'
    BY DEF Tokens
  <2>2. /\ Tokens \subseteq Procs \X (1..LargestBudget)
        /\ Tokens' \subseteq Procs \X (1..LargestBudget)
    BY DEF Tokens
  <2>3. new \subseteq Procs \X (1..LargestBudget)
    <3> HIDE DEF a, b
    <3> QED
      BY <1>0
  <2>4. ASSUME NEW q \in Procs, NEW i \in 1..LargestBudget
        PROVE  /\ <<q, i>> \in Tokens' <=> <<q, i>> \in Tokens \/ <<q, i>> \in new
               /\ ~(<<q, i>> \in Tokens /\ <<q, i>> \in new)
    <3>1. CASE q # p
      <4>1. Pot(q)' = Pot(q)
        BY <3>1
      <4>2. <<q, i>> \notin new
        BY <3>1
      <4> QED
        BY <2>1, <4>1, <4>2
    <3>2. CASE q = p
      <4>1. (<<q, i>> \in Tokens <=> i > a) /\ (<<q, i>> \in Tokens' <=> i > b)
        BY <2>1, <3>2
      <4>2. <<q, i>> \in new <=> i > b /\ i <= a
        <5> HIDE DEF a, b
        <5> QED
          BY <1>0, <3>2, LargestBudgetType
      <4> HIDE DEF a, b, new
      <4> QED
        BY <1>0, <4>1, <4>2, LargestBudgetType
    <3> QED
      BY <3>1, <3>2
  <2> HIDE DEF new
  <2> QED
    BY <2>2, <2>3, <2>4
<1>4. IsFiniteSet(Tokens) /\ Cardinality(Tokens) \in Nat
  BY TokensFinite
<1> HIDE DEF new, a, b
<1>5. /\ IsFiniteSet(Tokens \cup new)
      /\ Cardinality(Tokens \cup new) = Cardinality(Tokens) + (a - b) - Cardinality({})
  BY <1>2, <1>3, <1>4, FS_Union
<1>6. Cardinality({}) = 0
  BY FS_EmptySet
<1>7. Cardinality(Tokens') = Cardinality(Tokens) + a - b
  BY <1>0, <1>3, <1>4, <1>5, <1>6
<1> QED
  BY <1>0, <1>4, <1>7 DEF a, b

LEMMA SpendStep ==
  ASSUME TypeOK, PlaceInv, IsFiniteSet(samples), Alone, MoneyInv, SpendInv, [Next]_vars
  PROVE  SpendInv'
<1> SUFFICES ASSUME shared' = {} PROVE trailing' < DailyCap + Cardinality(Tokens')
  BY DEF SpendInv
<1>1. shared = {} /\ trailing < DailyCap + Cardinality(Tokens) /\ Cardinality(Tokens) \in Nat
      /\ trailing \in Int /\ DailyCap \in Nat \ {0}
  BY RowsGrow, TokensFinite, LaunchAssumption DEF Grows, SpendInv, TypeOK
<1>2. Cardinality(Tokens') \in Nat
  <2>0. IsFiniteSet(1..LargestBudget)
    BY FS_Interval, LargestBudgetType
  <2>1. IsFiniteSet(Procs \X (1..LargestBudget))
    BY <2>0, FS_Product, LaunchAssumption
  <2>2. Tokens' \in SUBSET (Procs \X (1..LargestBudget))
    BY DEF Tokens
  <2> QED
    BY <2>1, <2>2, FS_Subset, FS_CardinalityType
<1>3. ASSUME NEW p \in Procs, Invoke(p) \/ Launcher(p) \/ Crash(p)
      PROVE  trailing' < DailyCap + Cardinality(Tokens')
  <2>1. PotMoves(p)
    BY <1>1, <1>3, OwnPot
  <2>2. CASE trailing' = trailing /\ trailing < DailyCap
    BY <1>1, <1>2, <2>2
  <2>3. CASE /\ Pot(p) \in Nat /\ Pot(p)' \in Nat /\ Pot(p) <= LargestBudget
             /\ Pot(p)' <= Pot(p) /\ trailing' <= trailing + Pot(p) - Pot(p)'
    <3>1. \A q \in Procs \ {p} : Pot(q)' = Pot(q)
      BY <1>1, <1>3, OthersPot
    <3>2. Cardinality(Tokens') = Cardinality(Tokens) + Pot(p) - Pot(p)'
      BY <2>3, <3>1, TokensGrow
    <3>3. trailing' \in Int
      BY TypeStep DEF TypeOK
    <3> QED
      BY <1>1, <1>2, <2>3, <3>2, <3>3
  <2> QED
    BY <2>1, <2>2, <2>3 DEF PotMoves
<1>4. CASE RollOff
  BY <1>1, <1>2, <1>4 DEF RollOff
<1>5. CASE UNCHANGED <<evidence, runtime, pc, job, observers, invocations>>
  <2>1. Evid' = Evid
    BY <1>5, EvidSame DEF evidence
  <2>2. \A q \in Procs : Pot(q)' = Pot(q)
    BY <1>5, <2>1 DEF Pot, RunOf, runtime
  <2>3. Tokens' = Tokens
    BY <2>2 DEF Tokens
  <2> QED
    BY <1>1, <1>5, <2>3 DEF runtime
<1> QED
  BY <1>3, <1>4, <1>5, Moves

LEMMA SpendBounds ==
  ASSUME TypeOK, SpendInv
  PROVE  DailySpendBounded
<1> SUFFICES ASSUME shared = {}
             PROVE  trailing < DailyCap + Cardinality(Procs) * LargestBudget
  BY DEF DailySpendBounded
<1>1. trailing < DailyCap + Cardinality(Tokens) /\ trailing \in Int /\ DailyCap \in Nat
  BY LaunchAssumption DEF SpendInv, TypeOK
<1>2. Cardinality(Procs) \in Nat
  BY LaunchAssumption, FS_CardinalityType
<1>3. Cardinality(Procs) * LargestBudget \in Nat
  BY <1>2, LargestBudgetType
<1> HIDE DEF LargestBudget
<1> QED
  BY <1>1, <1>3, TokensFinite

-----------------------------------------------------------------------------
(* The theorems. *)

Inv ==
    /\ TypeOK /\ IsFiniteSet(samples)
    /\ PlaceInv /\ CompanyInv /\ PlanInv /\ GuardInv /\ MoneyInv /\ SpendInv
    /\ ReportInv /\ ReportStands /\ InvisibleRunIsEmpty

LEMMA InvInit == ASSUME Init PROVE Inv
<1>1. TypeOK /\ IsFiniteSet(samples) /\ PlaceInv
  BY TypeInit
<1>2. CompanyInv /\ PlanInv /\ ReportInv /\ ReportStands /\ InvisibleRunIsEmpty
  BY DEF Init, CompanyInv, Alone, Known, SecondVerdictNeedsCompany, PlanInv, Planned, Measured,
         ReportInv, ReportStands, InvisibleRunIsEmpty, InRun, InLoop
<1>3. GuardInv
  <2> SUFFICES ASSUME NEW s \in Skills PROVE \E f : Charged(s, f)
    BY DEF GuardInv
  <2>1. Inhabited(s) = {}
    BY DEF Init, Inhabited, Visible, InRun
  <2> DEFINE f == [r \in {} |-> r]
  <2>2. f \in [Inhabited(s) -> Procs \ Starting(s)] /\ \A r, q \in Inhabited(s) : f[r] = f[q] => r = q
    BY <2>1
  <2> QED
    BY <2>2 DEF Charged
<1>4. MoneyInv
  <2>1. \A r \in RunIds : Evid[r] = 0
    <3>1. ASSUME NEW r \in RunIds PROVE {s \in samples : s[1] = r} = {}
      BY DEF Init
    <3> QED
      BY <3>1, FS_EmptySet DEF Evid, EvidenceUsd
  <2> QED
    BY <2>1, LargestBudgetType DEF Init, MoneyInv, Cash, InRun
<1>5. SpendInv
  BY TokensFinite, LaunchAssumption DEF Init, SpendInv
<1> QED
  BY <1>1, <1>2, <1>3, <1>4, <1>5 DEF Inv

LEMMA InvStep == ASSUME Inv, [Next]_vars PROVE Inv'
<1>1. TypeOK' /\ IsFiniteSet(samples') /\ PlaceInv'
  BY TypeStep, SamplesFinite, PlaceStep DEF Inv
<1>2. CompanyInv' /\ PlanInv' /\ GuardInv'
  BY CompanyStep, PlanStep, GuardStep DEF Inv
<1>3. MoneyInv' /\ SpendInv' /\ InvisibleRunIsEmpty'
  BY MoneyStep, SpendStep, InvisibleStep DEF Inv, CompanyInv
<1>4. ReportInv' /\ ReportStands'
  BY ReportStep DEF Inv
<1> QED
  BY <1>1, <1>2, <1>3, <1>4 DEF Inv

LEMMA InvHolds == Spec => []Inv
  BY InvInit, InvStep, PTL DEF Spec

\* The tables and the locals of the commands hold what their columns and code
\* allow.
THEOREM Typed == Spec => []TypeOK
<1>1. Inv => TypeOK
  BY DEF Inv
<1> QED
  BY <1>1, InvHolds, PTL

\* However often processes die between insert_run() and the runtime rows, a run
\* without progress row holds no paid sample (runner.py, run_ablation).
THEOREM InvisibleEmpty == Spec => []InvisibleRunIsEmpty
<1>1. Inv => InvisibleRunIsEmpty
  BY DEF Inv
<1> QED
  BY <1>1, InvHolds, PTL

\* However many runs, kills and resumes there are, the incomplete-run guard lets at
\* most as many runs of a skill pile up as there are terminals (main.py,
\* find_incomplete_runs before insert_run).
THEOREM PileUpBounded == Spec => []UnfinishedRunsBounded
<1>1. Inv => UnfinishedRunsBounded
  BY GuardBounds DEF Inv
<1> QED
  BY <1>1, InvHolds, PTL

\* However many runs there are, the spend of a day stays below the cap and one
\* budget per terminal, while no run is shared (main.py, _check_daily_cap).
THEOREM DayBounded == Spec => []DailySpendBounded
<1>1. Inv => DailySpendBounded
  BY SpendBounds DEF Inv
<1> QED
  BY <1>1, InvHolds, PTL

\* Only two processes in one run at a time can judge a comparison twice (runner.py,
\* _existing_verdict_keys).
THEOREM OneVerdict == Spec => []SecondVerdictNeedsCompany
<1>1. Inv => SecondVerdictNeedsCompany
  BY DEF Inv, CompanyInv
<1> QED
  BY <1>1, InvHolds, PTL

\* What a report was computed from stays what the store holds (engine.py,
\* aggregate_skill).
THEOREM ReportsStand == Spec => []ReportStands
<1>1. Inv => ReportStands
  BY DEF Inv
<1> QED
  BY <1>1, InvHolds, PTL

\* A completed run that one process at a time measured with its plan has one
\* verdict for each comparison of each planned clause, and no other (runner.py,
\* resume_ablation).
THEOREM ProperRuns == Spec => []ProperRunCoversPlan
<1>1. Inv => ProperRunCoversPlan
  <2> SUFFICES ASSUME Inv, NEW r \in completed \ (shared \cup replanned), NEW c \in AllClauses,
                      NEW k \in 1..Comparisons
               PROVE  verdicts[<<r, c, k>>] = IF c \in plan[r] THEN 1 ELSE 0
    BY DEF ProperRunCoversPlan
  <2>1. <<r, c, k>> \in Slots /\ verdicts[<<r, c, k>>] \in Nat
    BY DEF Inv, TypeOK, Slots
  <2>2. ~(verdicts[<<r, c, k>>] > 1)
    BY <2>1 DEF Inv, CompanyInv, SecondVerdictNeedsCompany
  <2>3. verdicts[<<r, c, k>>] > 0 => c \in plan[r]
    BY <2>1 DEF Inv, PlanInv
  <2>4. c \in plan[r] => verdicts[<<r, c, k>>] > 0
    BY DEF Inv, PlanInv
  <2> QED
    BY <2>1, <2>2, <2>3, <2>4
<1> QED
  BY <1>1, InvHolds, PTL

=============================================================================
