------------------------------ MODULE RunLaunch ------------------------------
(***************************************************************************)
(* `run ablation --execute` and `evaluate-skill` of                        *)
(* src/skill_harness/cli/main.py as separate processes on one pair of      *)
(* stores: the daily cap and the incomplete-run guard, the run or the      *)
(* resume behind them, and the read of the completed runs.                 *)
(*                                                                         *)
(* AblationRun models one process inside one run; this module models       *)
(* several processes, several runs and what the guards read of each other. *)
(* The loop is therefore coarse: the three calls of a comparison are one   *)
(* purchase of price 1, equal to its projection, the warmup is left out,   *)
(* and a clause takes a fixed number of comparisons.  No lock ties a run   *)
(* to a process.                                                           *)
(***************************************************************************)
EXTENDS Integers, Sequences, FiniteSets

CONSTANTS
    Procs,          \* terminals in which `run ablation` is called
    Skills,
    ClausesOf,      \* the clauses of each skill, in clause_index order
    RunIds,         \* the uuids handed out; bounds the runs of a behaviour
    Comparisons,    \* comparisons a clause takes
    ClauseOptions,  \* the values of --clause, None for all clauses
    Budgets,        \* the values of --max-usd
    DailyCap,       \* --daily-cap
    None,
    MaxInvocations, \* bound: calls of `run ablation`
    MaxCrashes,     \* bound: kills of a behaviour
    MaxEvaluations  \* bound: calls of evaluate-skill

AllClauses == UNION {{ClausesOf[s][i] : i \in DOMAIN ClausesOf[s]} : s \in Skills}

Slots == RunIds \X AllClauses \X (1..Comparisons)

ASSUME LaunchAssumption ==
    /\ None \notin Skills \cup RunIds \cup AllClauses
    /\ ClausesOf \in [Skills -> Seq(AllClauses)]
    /\ ClauseOptions \subseteq AllClauses \cup {None}
    /\ IsFiniteSet(Procs)
    /\ Comparisons \in Nat \ {0}
    /\ Budgets \subseteq Nat
    /\ \E b \in Budgets : \A c \in Budgets : c <= b
    /\ DailyCap \in Nat \ {0}
    /\ MaxInvocations \in Nat
    /\ MaxCrashes \in Nat
    /\ MaxEvaluations \in Nat

VARIABLES
    \* evidence.db
    skillOf,    \* runs.skill_id, None without a row
    plan,       \* runs.config_json: the clauses of the run
    completed,  \* the runs with completed_at
    samples,    \* the comparisons whose samples are stored
    verdicts,   \* rows of oracle_verdicts per comparison
    \* runtime.db
    progress,   \* run_progress.state
    budget,     \* run_budget.usd_spent
    ledger,     \* cost_ledger: the sum per run
    trailing,   \* cost_ledger: the sum over the last 24 hours
    \* the processes
    pc,         \* what a process does next
    job,        \* its arguments and locals
    \* evaluate-skill
    reader,     \* what it does next
    subject,    \* its skill
    reading,    \* the completed runs it fetched
    outcome,    \* how the last evaluation ended
    report,     \* verdict rows it read, per slot of the runs it fetched
    \* observers and bounds, not in the code
    shared,     \* runs that two processes have been in at once
    replanned,  \* runs resumed with other clauses than they were planned with
    aborted,    \* runs that have once stopped at their budget
    invocations, crashes, evaluations

evidence == <<skillOf, plan, completed, samples, verdicts>>
runtime == <<progress, budget, ledger, trailing>>
evaluator == <<reader, subject, reading, outcome, report, evaluations>>
observers == <<shared, replanned, aborted, crashes>>
vars == <<evidence, runtime, pc, job, evaluator, observers, invocations>>

ProgressStates == {"absent", "running", "completed", "aborted_budget"}

\* Steps at which a process has a run.
InRun == {"init", "repair", "clause", "gate", "store",
          "account", "judge", "advance", "stamp", "finish", "reconcile"}

Jobs == [skill : Skills \cup {None}, only : AllClauses \cup {None},
         run : RunIds \cup {None}, max : Nat,
         clauses : Seq(AllClauses), at : Nat, k : Nat,
         existing : SUBSET Slots, recorded : SUBSET (1..Comparisons), seen : Nat]

NoJob == [skill |-> None, only |-> None, run |-> None, max |-> 0,
          clauses |-> <<>>, at |-> 1, k |-> 1,
          existing |-> {}, recorded |-> {}, seen |-> 0]

Outcomes == {"none", "incomplete_runs", "no_completed_runs", "reported"}

TypeOK ==
    /\ skillOf \in [RunIds -> Skills \cup {None}]
    /\ plan \in [RunIds -> SUBSET AllClauses]
    /\ completed \subseteq RunIds
    /\ samples \subseteq Slots
    /\ verdicts \in [Slots -> Nat]
    /\ progress \in [RunIds -> ProgressStates]
    /\ budget \in [RunIds -> Nat]
    /\ ledger \in [RunIds -> Nat]
    /\ trailing \in Int
    /\ pc \in [Procs -> InRun \cup {"idle", "cap", "guard", "load"}]
    /\ job \in [Procs -> Jobs]
    /\ \A p \in Procs : pc[p] \in InRun => job[p].run \in RunIds
    /\ reader \in {"idle", "check", "fetch", "read"}
    /\ subject \in Skills \cup {None}
    /\ reading \subseteq RunIds
    /\ outcome \in Outcomes
    /\ report \in [Slots -> Nat]
    /\ shared \subseteq RunIds /\ replanned \subseteq RunIds /\ aborted \subseteq RunIds
    /\ invocations \in 0..MaxInvocations
    /\ crashes \in 0..MaxCrashes /\ evaluations \in 0..MaxEvaluations

Init ==
    /\ skillOf = [r \in RunIds |-> None] /\ plan = [r \in RunIds |-> {}]
    /\ completed = {} /\ samples = {} /\ verdicts = [s \in Slots |-> 0]
    /\ progress = [r \in RunIds |-> "absent"]
    /\ budget = [r \in RunIds |-> 0] /\ ledger = [r \in RunIds |-> 0]
    /\ trailing = 0
    /\ pc = [p \in Procs |-> "idle"] /\ job = [p \in Procs |-> NoJob]
    /\ reader = "idle" /\ subject = None /\ reading = {}
    /\ outcome = "none" /\ report = [s \in Slots |-> 0]
    /\ shared = {} /\ replanned = {} /\ aborted = {}
    /\ invocations = 0 /\ crashes = 0 /\ evaluations = 0

-----------------------------------------------------------------------------
Goto(p, step) == pc' = [pc EXCEPT ![p] = step]

Ends(p) ==
    /\ Goto(p, "idle")
    /\ job' = [job EXCEPT ![p] = NoJob]

\* Mutant: only a run that has collected samples counts as incomplete.
StartedRuns(s) ==
    {r \in RunIds : skillOf[r] = s /\ progress[r] = "running" /\ budget[r] > 0}

\* find_incomplete_runs(): progress rows in a state that is not terminal,
\* joined to the run rows of the skill.
IncompleteRuns(s) == {r \in RunIds : skillOf[r] = s /\ progress[r] = "running"}

\* The clauses _load_clauses_from_db() selects.
Selected(s, only) ==
    IF only = None THEN ClausesOf[s]
    ELSE IF \E i \in DOMAIN ClausesOf[s] : ClausesOf[s][i] = only THEN <<only>>
    ELSE <<>>

RunOf(p) == job[p].run
Clause(p) == job[p].clauses[job[p].at]
SlotAt(p) == <<RunOf(p), Clause(p), job[p].k>>
Others(p, r) == {q \in Procs \ {p} : pc[q] \in InRun /\ RunOf(q) = r}

\* The unfinished runs of a skill that have never stopped at their budget.
Unfinished(s) ==
    {r \in RunIds \ aborted : skillOf[r] = s /\ progress[r] = "running"}

\* Processes past the guard whose run is not yet visible to it.
Starting(s) ==
    {p \in Procs : \/ pc[p] = "load" /\ job[p].run = None /\ job[p].skill = s
                   \/ pc[p] = "init" /\ skillOf[RunOf(p)] = s}

LargestBudget == CHOOSE b \in Budgets : \A c \in Budgets : c <= b

\* SUM(samples.usd) of a run.
EvidenceUsd(r) == Cardinality({s \in samples : s[1] = r})

-----------------------------------------------------------------------------
(* The command and its guards.                                             *)

\* An operator calls `run ablation <skill> [--clause c] [--resume r]`.
Invoke(p) ==
    /\ pc[p] = "idle" /\ invocations < MaxInvocations
    /\ invocations' = invocations + 1
    /\ \E s \in Skills, only \in ClauseOptions,
          r \in {x \in RunIds : skillOf[x] # None} \cup {None}, max \in Budgets :
           job' = [job EXCEPT ![p] = [NoJob EXCEPT
                       !.skill = s, !.only = only, !.run = r, !.max = max]]
    /\ Goto(p, "cap")
    /\ UNCHANGED <<evidence, runtime, evaluator, observers>>

\* Mutant: spending the cap exactly is not a reason to refuse.
PastDailyCap == trailing > DailyCap

\* _check_daily_cap() refuses.
OverDailyCap == trailing >= DailyCap

CheckDailyCap(p) ==
    /\ pc[p] = "cap"
    /\ \/ /\ OverDailyCap
          /\ Ends(p)
       \/ /\ ~OverDailyCap
          /\ Goto(p, IF job[p].run = None THEN "guard" ELSE "load")
          /\ UNCHANGED job
    /\ UNCHANGED <<evidence, runtime, evaluator, observers, invocations>>

\* The incomplete-run guard of a run without --resume.
CheckIncomplete(p) ==
    /\ pc[p] = "guard"
    /\ \/ /\ IncompleteRuns(job[p].skill) # {}
          /\ Ends(p)
       \/ /\ IncompleteRuns(job[p].skill) = {}
          /\ Goto(p, "load")
          /\ UNCHANGED job
    /\ UNCHANGED <<evidence, runtime, evaluator, observers, invocations>>

\* No clause selected, or a resume of a run without progress row or completed.
\* The skill of the run is not compared with the skill of the command.
Refused(p) ==
    \/ Selected(job[p].skill, job[p].only) = <<>>
    \/ job[p].run # None /\ progress[RunOf(p)] \in {"absent", "completed"}

Refuse(p) ==
    /\ pc[p] = "load"
    /\ Refused(p)
    /\ Ends(p)
    /\ UNCHANGED <<evidence, runtime, evaluator, observers, invocations>>

\* Mutant: the run row is inserted together with a first purchase.
InsertAndBuy(p, r) ==
    LET clauses == Selected(job[p].skill, job[p].only) IN
    /\ skillOf' = [skillOf EXCEPT ![r] = job[p].skill]
    /\ plan' = [plan EXCEPT ![r] = {clauses[i] : i \in DOMAIN clauses}]
    /\ samples' = samples \cup {<<r, clauses[1], 1>>}
    /\ UNCHANGED <<completed, verdicts>>

\* insert_run() in its own transaction.
InsertRun(p, r) ==
    LET clauses == Selected(job[p].skill, job[p].only) IN
    /\ skillOf' = [skillOf EXCEPT ![r] = job[p].skill]
    /\ plan' = [plan EXCEPT ![r] = {clauses[i] : i \in DOMAIN clauses}]
    /\ UNCHANGED <<completed, samples, verdicts>>

\* Mutant: the id of a fresh run is not handed to the loop.
LoadedBlind(j, r, existing, seen) ==
    [NoJob EXCEPT !.run = j.run, !.max = j.max, !.clauses = Selected(j.skill, j.only)]

\* The locals of a process that enters the loop; its arguments are not read
\* again.
Loaded(j, r, existing, seen) ==
    [NoJob EXCEPT !.run = r, !.max = j.max, !.clauses = Selected(j.skill, j.only),
                  !.existing = existing, !.seen = seen]

StartRun(p) ==
    /\ pc[p] = "load" /\ job[p].run = None
    /\ ~Refused(p)
    /\ \E r \in RunIds :
           /\ skillOf[r] = None
           /\ InsertRun(p, r)
           /\ job' = [job EXCEPT ![p] = Loaded(@, r, {}, 0)]
    /\ Goto(p, "init")
    /\ UNCHANGED <<runtime, evaluator, observers, invocations>>

\* The budget and progress rows, one transaction.
InitRuntime(p) ==
    /\ pc[p] = "init"
    /\ progress' = [progress EXCEPT ![RunOf(p)] = "running"]
    /\ Goto(p, "clause")
    /\ UNCHANGED <<evidence, budget, ledger, trailing, job, evaluator, observers, invocations>>

\* resume_ablation() up to the loop: the stored samples and the two sums are
\* read; the skill of the run and its planned clauses are not.
Resume(p) ==
    LET r == RunOf(p)
        clauses == Selected(job[p].skill, job[p].only) IN
    /\ pc[p] = "load" /\ r # None
    /\ ~Refused(p)
    /\ job' = [job EXCEPT ![p] =
                   Loaded(@, r, {s \in samples : s[1] = r},
                          IF EvidenceUsd(r) > budget[r] THEN EvidenceUsd(r) ELSE 0)]
    /\ Goto(p, IF EvidenceUsd(r) > budget[r] THEN "repair" ELSE "clause")
    /\ shared' = IF Others(p, r) = {} THEN shared ELSE shared \cup {r}
    /\ replanned' = IF {clauses[i] : i \in DOMAIN clauses} = plan[r]
                    THEN replanned ELSE replanned \cup {r}
    /\ UNCHANGED <<evidence, runtime, evaluator, aborted, crashes, invocations>>

\* The budget is set to the sum read before the transaction.
RepairBudget(p) ==
    /\ pc[p] = "repair"
    /\ budget' = [budget EXCEPT ![RunOf(p)] = job[p].seen]
    /\ job' = [job EXCEPT ![p].seen = 0]
    /\ Goto(p, "clause")
    /\ UNCHANGED <<evidence, progress, ledger, trailing, evaluator, observers, invocations>>

-----------------------------------------------------------------------------
(* The loop over the clauses.                                              *)

\* Mutant: on a resume the recorded verdicts are not looked up.
NoneRecorded(p) == {}

\* Mutant: a comparison with samples is taken to be judged.
SampledComparisons(p) == {k \in 1..Comparisons : <<RunOf(p), Clause(p), k>> \in samples}

\* _existing_verdict_keys(), read once at the entry of a clause.
ExistingVerdicts(p) ==
    {k \in 1..Comparisons : verdicts[<<RunOf(p), Clause(p), k>>] > 0}

EnterClause(p) ==
    /\ pc[p] = "clause"
    /\ job' = [job EXCEPT ![p].k = 1, ![p].recorded = ExistingVerdicts(p)]
    /\ Goto(p, "gate")
    /\ UNCHANGED <<evidence, runtime, evaluator, observers, invocations>>

\* The budget gate, which reads and reserves nothing.
PassGate(p) ==
    /\ pc[p] = "gate"
    /\ \/ /\ SlotAt(p) \in job[p].existing
          /\ Goto(p, "judge")
       \/ /\ SlotAt(p) \notin job[p].existing
          /\ budget[RunOf(p)] + 1 <= job[p].max
          /\ Goto(p, "store")
    /\ UNCHANGED <<evidence, runtime, job, evaluator, observers, invocations>>

\* BudgetAbortedError: the progress row becomes terminal, the run row does not.
BudgetAbort(p) ==
    /\ pc[p] = "gate"
    /\ SlotAt(p) \notin job[p].existing
    /\ budget[RunOf(p)] + 1 > job[p].max
    /\ progress' = [progress EXCEPT ![RunOf(p)] = "aborted_budget"]
    /\ aborted' = aborted \cup {RunOf(p)}
    /\ Ends(p)
    /\ UNCHANGED <<evidence, budget, ledger, trailing, evaluator,
                   shared, replanned, crashes, invocations>>

\* The calls, then insert_sample(): the unique index on the slot refuses a second
\* row, and the exception ends the process.
Store(p) ==
    /\ pc[p] = "store"
    /\ \/ /\ SlotAt(p) \in samples
          /\ Ends(p)
          /\ UNCHANGED samples
       \/ /\ SlotAt(p) \notin samples
          /\ samples' = samples \cup {SlotAt(p)}
          /\ Goto(p, "account")
          /\ UNCHANGED job
    /\ UNCHANGED <<skillOf, plan, completed, verdicts, runtime, evaluator, observers, invocations>>

\* _write_cost_ledger() and _update_budget_spend().
Account(p) ==
    /\ pc[p] = "account"
    /\ ledger' = [ledger EXCEPT ![RunOf(p)] = @ + 1]
    /\ trailing' = trailing + 1
    /\ budget' = [budget EXCEPT ![RunOf(p)] = @ + 1]
    /\ Goto(p, "judge")
    /\ UNCHANGED <<evidence, progress, job, evaluator, observers, invocations>>

\* The verdict, unless it was recorded when the clause was entered.
Judge(p) ==
    /\ pc[p] = "judge"
    /\ verdicts' = IF job[p].k \in job[p].recorded THEN verdicts
                   ELSE [verdicts EXCEPT ![SlotAt(p)] = @ + 1]
    /\ job' = [job EXCEPT ![p].k = IF @ < Comparisons THEN @ + 1 ELSE @,
                          ![p].recorded = IF job[p].k < Comparisons THEN @ ELSE {}]
    /\ Goto(p, IF job[p].k < Comparisons THEN "gate" ELSE "advance")
    /\ UNCHANGED <<skillOf, plan, completed, samples, runtime, evaluator, observers, invocations>>

\* The heartbeat after a clause.
Advance(p) ==
    /\ pc[p] = "advance"
    /\ progress' = [progress EXCEPT ![RunOf(p)] = "running"]
    /\ job' = [job EXCEPT ![p].at = IF @ < Len(job[p].clauses) THEN @ + 1 ELSE @]
    /\ Goto(p, IF job[p].at < Len(job[p].clauses) THEN "clause" ELSE "stamp")
    /\ UNCHANGED <<evidence, budget, ledger, trailing, evaluator, observers, invocations>>

\* complete_run(); a trigger refuses a second stamp and the process ends.
Stamp(p) ==
    /\ pc[p] = "stamp"
    /\ \/ /\ RunOf(p) \in completed
          /\ Ends(p)
          /\ UNCHANGED completed
       \/ /\ RunOf(p) \notin completed
          /\ completed' = completed \cup {RunOf(p)}
          /\ Goto(p, "finish")
          /\ UNCHANGED job
    /\ UNCHANGED <<skillOf, plan, samples, verdicts, runtime, evaluator, observers, invocations>>

Finish(p) ==
    /\ pc[p] = "finish"
    /\ progress' = [progress EXCEPT ![RunOf(p)] = "completed"]
    /\ Goto(p, "reconcile")
    /\ UNCHANGED <<evidence, budget, ledger, trailing, job, evaluator, observers, invocations>>

\* reconcile_run_cost(): a catch-up row, dated now, for the difference between the
\* evidence and the ledger.
Reconcile(p) ==
    LET r == RunOf(p) IN
    /\ pc[p] = "reconcile"
    /\ ledger' = [ledger EXCEPT ![r] = EvidenceUsd(r)]
    /\ trailing' = trailing + EvidenceUsd(r) - ledger[r]
    /\ Ends(p)
    /\ UNCHANGED <<evidence, progress, budget, evaluator, observers, invocations>>

Launcher(p) ==
    \/ CheckDailyCap(p) \/ CheckIncomplete(p) \/ Refuse(p)
    \/ StartRun(p) \/ InitRuntime(p)
    \/ Resume(p) \/ RepairBudget(p)
    \/ EnterClause(p) \/ PassGate(p) \/ BudgetAbort(p)
    \/ Store(p) \/ Account(p) \/ Judge(p) \/ Advance(p)
    \/ Stamp(p) \/ Finish(p) \/ Reconcile(p)

\* A process dies; its memory is gone.
Crash(p) ==
    /\ pc[p] # "idle"
    /\ crashes < MaxCrashes
    /\ crashes' = crashes + 1
    /\ Ends(p)
    /\ UNCHANGED <<evidence, runtime, evaluator, shared, replanned, aborted,
                   invocations>>

\* A day passes: what the ledger holds leaves the window.  It matters only once
\* the cap is reached.
RollOff ==
    /\ trailing >= DailyCap /\ trailing # 0
    /\ trailing' = 0
    /\ UNCHANGED <<evidence, progress, budget, ledger, pc, job, evaluator, observers, invocations>>

-----------------------------------------------------------------------------
(* evaluate-skill: reads of two stores, none of them in a transaction.     *)

Evaluate ==
    /\ reader = "idle" /\ evaluations < MaxEvaluations
    /\ subject' \in Skills
    /\ reader' = "check"
    /\ evaluations' = evaluations + 1
    /\ outcome' = "none" /\ reading' = {} /\ report' = [s \in Slots |-> 0]
    /\ UNCHANGED <<evidence, runtime, pc, job, observers, invocations>>

EvaluationEnds(how) ==
    /\ reader' = "idle"
    /\ outcome' = how

\* find_incomplete_runs(), by the command and once more by aggregate_skill(): a
\* refusal by either ends alike, and the fetch follows the second.
CheckEvaluable ==
    /\ reader = "check"
    /\ \/ /\ IncompleteRuns(subject) # {}
          /\ EvaluationEnds("incomplete_runs")
       \/ /\ IncompleteRuns(subject) = {}
          /\ reader' = "fetch"
          /\ UNCHANGED outcome
    /\ UNCHANGED <<evidence, runtime, pc, job, subject, reading, report,
                   evaluations, observers, invocations>>

\* Mutant: every run of the skill is aggregated.
AnyRun(s) == {r \in RunIds : skillOf[r] = s}

\* _fetch_completed_ablation_runs()
CompletedRuns(s) == {r \in completed : skillOf[r] = s}

FetchRuns ==
    /\ reader = "fetch"
    /\ reading' = CompletedRuns(subject)
    /\ \/ /\ CompletedRuns(subject) = {}
          /\ EvaluationEnds("no_completed_runs")
       \/ /\ CompletedRuns(subject) # {}
          /\ reader' = "read"
          /\ UNCHANGED outcome
    /\ UNCHANGED <<evidence, runtime, pc, job, subject, report, evaluations, observers, invocations>>

ReadVerdicts ==
    /\ reader = "read"
    /\ report' = [s \in Slots |-> IF s[1] \in reading THEN verdicts[s] ELSE 0]
    /\ EvaluationEnds("reported")
    /\ UNCHANGED <<evidence, runtime, pc, job, subject, reading, evaluations, observers, invocations>>

Evaluator ==
    \/ CheckEvaluable
    \/ FetchRuns
    \/ ReadVerdicts

\* Every command has ended, or needs a run id beyond the bound.
Rest ==
    /\ \A p \in Procs :
           \/ pc[p] = "idle"
           \/ pc[p] = "load" /\ \A r \in RunIds : skillOf[r] # None
    /\ reader = "idle"
    /\ UNCHANGED vars

Next ==
    \/ \E p \in Procs : Invoke(p) \/ Launcher(p) \/ Crash(p)
    \/ Evaluate \/ Evaluator
    \/ RollOff
    \/ Rest

Spec == Init /\ [][Next]_vars

-----------------------------------------------------------------------------
\* A run that no list of incomplete runs names, because its progress row was
\* never written, holds no paid sample: passing it over loses nothing.
InvisibleRunIsEmpty ==
    \A s \in samples : progress[s[1]] # "absent"

\* The guard lets no more runs of a skill pile up unfinished than there are
\* processes that can have read it at once: the unfinished runs, with those that
\* processes past the guard are about to add, are at most as many as processes.
\* Runs that have stopped at their budget are terminal for the guard and are not
\* counted.
UnfinishedRunsBounded ==
    \A s \in Skills :
        Cardinality(Unfinished(s)) + Cardinality(Starting(s))
            <= Cardinality(Procs)

\* Processes that read the daily cap before any of them spends all pass it: the
\* spend of a day stays below the cap and one budget for each process that can
\* have passed at once.  The number of runs does not matter.  Two processes in one
\* run are excepted: one reconciles what the other is about to account for.
DailySpendBounded ==
    shared = {} => trailing < DailyCap + Cardinality(Procs) * LargestBudget

\* A comparison has a second verdict only in a run in which two processes were
\* at work at the same time; no sequence of kills and resumes makes one.
SecondVerdictNeedsCompany ==
    \A s \in Slots : verdicts[s] > 1 => s[1] \in shared

\* What a report was computed from does not change after it: the runs it read
\* are completed, and get no further verdict, unless the operator shared the
\* run between processes or resumed it with other clauses.
ReportStands ==
    outcome = "reported" =>
        \A s \in Slots : s[1] \in reading =>
            \/ report[s] = verdicts[s]
            \/ s[1] \in shared \cup replanned

\* A run that completed was measured in full: each clause it was planned with
\* has its verdicts, and none other has.
CompletedRunCoversPlan ==
    \A r \in completed, c \in AllClauses, k \in 1..Comparisons :
        verdicts[<<r, c, k>>] > 0 <=> c \in plan[r]

\* The same, of the runs that one process at a time measured with its plan.
ProperRunCoversPlan ==
    \A r \in completed \ (shared \cup replanned), c \in AllClauses, k \in 1..Comparisons :
        verdicts[<<r, c, k>>] = IF c \in plan[r] THEN 1 ELSE 0

\* An evaluation finds nothing to report only if no run of the skill has stopped
\* at its budget.
AbortedRunIsReported ==
    outcome = "no_completed_runs" =>
        \A r \in RunIds : skillOf[r] = subject => progress[r] # "aborted_budget"
=============================================================================
