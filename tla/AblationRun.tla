---------------------------- MODULE AblationRun ----------------------------
(***************************************************************************)
(* One ablation run of src/skill_harness/ablation/runner.py, from          *)
(* run_ablation to its completion, with the process dying at any point and *)
(* resume_ablation picking the run up again.                               *)
(*                                                                         *)
(* The run lives in two SQLite files that no transaction spans.            *)
(* evidence.db is append-only: runs, samples, oracle_verdicts and          *)
(* clause_run_outcomes.  runtime.db is mutable: run_progress, run_budget   *)
(* and cost_ledger.  Every action below is one committed transaction, one  *)
(* call of the subject model, or the computation between two of them; the  *)
(* process may die between any two actions, and then everything it held in *)
(* memory is gone.                                                         *)
(*                                                                         *)
(* Money is counted in whole units.  The columns samples.usd and           *)
(* cost_ledger.usd are read by the code only as sums over the run, so the  *)
(* sums are the variables.                                                 *)
(***************************************************************************)
EXTENDS Stopping, Sequences, FiniteSets

CONSTANTS
    NClauses,       \* the clauses of the skill, measured in the order 1..NClauses
    Unmeasurable,   \* clauses refused before sampling (no scorer, wrong length)
    NullFloor,      \* null samples needed before a comparison is admissible
    CallCosts,      \* what one subject call may cost
    MaxCallCost,    \* no call, warmup included, costs more
    Projected,      \* project_call_cost(): the gate's estimate of one call
    Caps,           \* the values of --max-usd an operator may pass
    MaxFaults       \* bound: crashes and permanent call errors of a behaviour

Clauses == 1..NClauses

\* The conditions of a comparison in the order they are issued.
Full == 1
Ablated == 2
Null == 3
Conditions == Full..Null

ASSUME RunAssumption ==
    /\ NClauses \in Nat \ {0}
    /\ Unmeasurable \subseteq Clauses
    /\ NullFloor \in Nat
    /\ MaxCallCost \in Nat
    /\ CallCosts \subseteq 0..MaxCallCost
    /\ Projected \in Nat
    /\ Caps \subseteq Nat
    /\ MaxFaults \in Nat

\* UNIQUE (run_id, clause_id, condition, sample_index) of the samples table.
Slots == Clauses \X Conditions \X (0..NMax - 1)

\* A verdict row, keyed by the sample_index of its full sample.
VerdictRows ==
    [idx : 0..NMax - 1, obs : Observations, admissible : BOOLEAN]

VARIABLES
    \* evidence.db
    runRow,       \* runs: the row and its completed_at
    samples,      \* samples: the slots that hold a row
    evidenceUsd,  \* samples: SUM(usd)
    verdicts,     \* oracle_verdicts of each clause, in the order of insertion
    outcomes,     \* clause_run_outcomes: the refused clauses with a row
    \* runtime.db
    progress,     \* run_progress.state
    progressN,    \* run_progress.samples_collected
    budgetUsd,    \* run_budget.usd_spent
    abortedAt,    \* run_budget.aborted_at is set
    ledgerUsd,    \* cost_ledger: SUM(usd)
    \* the process
    pc,           \* what it does next
    cap,          \* max_usd
    existing,     \* resume's snapshot of the samples table
    clause,       \* the clause being measured
    issued,       \* comparisons_issued, equal to the three sample indexes
    cond,         \* the condition handled next
    tally,        \* the stop accumulator
    check,        \* next_stop_at
    recorded,     \* pre_existing_verdict_indexes of the clause
    nulls,        \* null outputs the NullAccumulator holds
    collected,    \* samples_collected inside the clause loop
    reported,     \* samples_collected of run_ablation, behind until a clause ends
    pending,      \* cost of the response in hand
    \* observers, not in the code
    billedUsd,    \* what the provider has charged
    warmupUsd,    \* the warmup's cost, once it is in run_budget
    faults,       \* crashes and permanent call errors so far
    highCap       \* the largest cap any attempt was given

evidence == <<runRow, samples, evidenceUsd, verdicts, outcomes>>
runtime  == <<progress, progressN, budgetUsd, abortedAt, ledgerUsd>>
loop     == <<clause, issued, cond, tally, check, recorded, nulls>>
attempt  == <<cap, existing>>
counts   == <<collected, reported>>
process  == <<pc, attempt, loop, counts, pending>>
observers == <<billedUsd, warmupUsd, faults, highCap>>
vars     == <<evidence, runtime, process, observers>>

InClause == {"gate", "sample", "insert", "ledger", "spend", "judge"}

Steps == InClause \cup
    {"idle", "init", "warmup", "warmed", "repair", "clause", "refuse",
     "advance", "abort", "complete", "finish", "reconcile"}

TypeOK ==
    /\ runRow \in {"absent", "open", "completed"}
    /\ samples \subseteq Slots
    /\ evidenceUsd \in Nat
    /\ verdicts \in [Clauses -> Seq(VerdictRows)]
    /\ outcomes \subseteq Clauses
    /\ progress \in {"absent", "running", "completed", "aborted_budget"}
    /\ progressN \in Nat
    /\ budgetUsd \in Nat
    /\ abortedAt \in BOOLEAN
    /\ ledgerUsd \in Nat
    /\ pc \in Steps
    /\ cap \in Nat
    /\ existing \subseteq Slots
    /\ clause \in 1..NClauses + 1
    /\ issued \in 0..NMax
    /\ cond \in Conditions
    /\ tally \in Tallies
    /\ check \in Nat
    /\ recorded \subseteq 0..NMax - 1
    /\ nulls \in Nat
    /\ collected \in Nat
    /\ reported \in Nat
    /\ pending \in 0..MaxCallCost
    /\ billedUsd \in Nat
    /\ warmupUsd \in Nat
    /\ faults \in 0..MaxFaults
    /\ highCap \in Nat

-----------------------------------------------------------------------------
Slot(c, k, i) == <<c, k, i>>

NextSlot == Slot(clause, cond, issued)

Comparison(c, i) == {Slot(c, k, i) : k \in Conditions}

\* Mutant: only the samples of a judged comparison are taken to exist.
JudgedSnapshot ==
    {s \in samples : \E k \in DOMAIN verdicts[s[1]] : verdicts[s[1]][k].idx = s[3]}

\* _get_existing_samples()
Snapshot == samples

\* Mutants: no reconciliation; one that also lowers the recorded spend.
NeverBehind == FALSE
BudgetDiffers == evidenceUsd # budgetUsd

\* The reconciliation test of resume_ablation (MAJOR-2).
BudgetBehind == evidenceUsd > budgetUsd

\* Mutant: the count is taken from the progress row, which crashes leave behind.
ProgressCount == progressN

\* _evidence_samples_collected()
EvidenceCount == Cardinality(samples)

\* Mutant: resume does not look for the verdicts that are there.
NothingRecorded(c) == {}

\* _existing_verdict_keys()
RecordedIn(c) == {verdicts[c][k].idx : k \in DOMAIN verdicts[c]}

\* Mutant: the stored comparison is found, its admissibility is judged again.
RejudgedRow(c, i) ==
    LET k == CHOOSE k \in DOMAIN verdicts[c] : verdicts[c][k].idx = i
    IN  [verdicts[c][k] EXCEPT !.admissible = nulls >= NullFloor]

\* _load_persisted_verdict()
PersistedRow(c, i) ==
    verdicts[c][CHOOSE k \in DOMAIN verdicts[c] : verdicts[c][k].idx = i]

\* Mutant: only a run out of budget can be resumed.
ResumableIfAborted == progress = "aborted_budget"

Resumable == progress \in {"running", "aborted_budget"}

IdleProcess ==
    /\ pc = "idle"
    /\ cap = 0 /\ existing = {}
    /\ clause = 1 /\ issued = 0 /\ cond = Full
    /\ tally = EmptyTally /\ check = NMin /\ recorded = {} /\ nulls = 0
    /\ collected = 0 /\ reported = 0 /\ pending = 0

Init ==
    /\ runRow = "absent" /\ samples = {} /\ evidenceUsd = 0
    /\ verdicts = [c \in Clauses |-> <<>>] /\ outcomes = {}
    /\ progress = "absent" /\ progressN = 0 /\ budgetUsd = 0
    /\ abortedAt = FALSE /\ ledgerUsd = 0
    /\ IdleProcess
    /\ billedUsd = 0 /\ warmupUsd = 0 /\ faults = 0 /\ highCap = 0

\* The process is gone; only the two databases are left.
Forget ==
    /\ pc' = "idle"
    /\ cap' = 0 /\ existing' = {}
    /\ clause' = 1 /\ issued' = 0 /\ cond' = Full
    /\ tally' = EmptyTally /\ check' = NMin /\ recorded' = {} /\ nulls' = 0
    /\ collected' = 0 /\ reported' = 0 /\ pending' = 0

Goto(step) == pc' = step

-----------------------------------------------------------------------------
(***************************************************************************)
(* run_ablation: the run row first, then budget and progress in one        *)
(* runtime transaction, then the warmup call, whose failure is suppressed. *)
(***************************************************************************)
StartRun ==
    /\ pc = "idle" /\ runRow = "absent"
    /\ \E usd \in Caps :
         /\ cap' = usd
         /\ highCap' = usd
    /\ runRow' = "open"
    /\ Goto("init")
    /\ UNCHANGED <<samples, evidenceUsd, verdicts, outcomes, runtime>>
    /\ UNCHANGED <<existing, loop, counts, pending, billedUsd, warmupUsd, faults>>

InitRuntime ==
    /\ pc = "init"
    /\ progress' = "running"
    /\ progressN' = 0 /\ budgetUsd' = 0
    /\ Goto("warmup")
    /\ UNCHANGED <<evidence, abortedAt, ledgerUsd>>
    /\ UNCHANGED <<attempt, loop, counts, pending, observers>>

Warmup ==
    /\ pc = "warmup"
    /\ \/ \E usd \in CallCosts :
            /\ pending' = usd
            /\ billedUsd' = billedUsd + usd
            /\ Goto("warmed")
       \/ /\ Goto("clause")
          /\ UNCHANGED <<pending, billedUsd>>
    /\ UNCHANGED <<evidence, runtime, attempt, loop, counts>>
    /\ UNCHANGED <<warmupUsd, faults, highCap>>

\* Mutant: the warmup is written to cost_ledger too.
WarmupSpendInLedger ==
    /\ pc = "warmed"
    /\ budgetUsd' = budgetUsd + pending
    /\ ledgerUsd' = ledgerUsd + pending
    /\ warmupUsd' = pending
    /\ pending' = 0
    /\ Goto("clause")
    /\ UNCHANGED <<evidence, progress, progressN, abortedAt>>
    /\ UNCHANGED <<attempt, loop, counts, billedUsd, faults, highCap>>

\* The warmup's cost goes to run_budget alone: no sample, no ledger entry.
WarmupSpend ==
    /\ pc = "warmed"
    /\ budgetUsd' = budgetUsd + pending
    /\ warmupUsd' = pending
    /\ pending' = 0
    /\ Goto("clause")
    /\ UNCHANGED <<evidence, progress, progressN, abortedAt, ledgerUsd>>
    /\ UNCHANGED <<attempt, loop, counts, billedUsd, faults, highCap>>

(***************************************************************************)
(* resume_ablation: refuses a completed or unknown run, takes a snapshot   *)
(* of the samples, and lifts the recorded spend to the sum over the        *)
(* evidence when that sum is larger.  There is no warmup.                  *)
(***************************************************************************)
Resume ==
    /\ pc = "idle" /\ Resumable
    /\ \E usd \in Caps :
         /\ cap' = usd
         /\ highCap' = IF usd > highCap THEN usd ELSE highCap
    /\ existing' = Snapshot
    /\ collected' = EvidenceCount
    /\ reported' = EvidenceCount
    /\ Goto(IF BudgetBehind THEN "repair" ELSE "clause")
    /\ UNCHANGED <<evidence, runtime, loop, pending, billedUsd, warmupUsd, faults>>

RepairBudget ==
    /\ pc = "repair"
    /\ budgetUsd' = evidenceUsd
    /\ Goto("clause")
    /\ UNCHANGED <<evidence, progress, progressN, abortedAt, ledgerUsd>>
    /\ UNCHANGED <<attempt, loop, counts, pending, observers>>

-----------------------------------------------------------------------------
(***************************************************************************)
(* _run_clause.  A refused clause is not sampled: its outcome row is       *)
(* written instead (INSERT OR IGNORE, so a second refusal is a success).   *)
(***************************************************************************)
EnterClause ==
    /\ pc = "clause" /\ clause \in Clauses
    /\ Goto(IF clause \in Unmeasurable THEN "refuse" ELSE "gate")
    /\ issued' = 0 /\ cond' = Full
    /\ tally' = EmptyTally /\ check' = NMin
    /\ recorded' = RecordedIn(clause)
    /\ UNCHANGED <<evidence, runtime, attempt, clause, nulls, counts, pending>>
    /\ UNCHANGED observers

RefuseClause ==
    /\ pc = "refuse"
    /\ outcomes' = outcomes \cup {clause}
    /\ Goto("advance")
    /\ UNCHANGED <<runRow, samples, evidenceUsd, verdicts, runtime>>
    /\ UNCHANGED <<attempt, loop, counts, pending, observers>>

(***************************************************************************)
(* The budget gate, once per comparison, before its three calls; skipped   *)
(* when the snapshot already holds all three samples.  It reads the spend  *)
(* and reserves nothing.                                                   *)
(***************************************************************************)
\* Mutant: the projection of one call instead of the comparison's three.
GateOpenForOneCall ==
    \/ Comparison(clause, issued) \subseteq existing
    \/ budgetUsd + Projected <= cap

GateOpen ==
    \/ Comparison(clause, issued) \subseteq existing
    \/ budgetUsd + 3 * Projected <= cap

PassGate ==
    /\ pc = "gate" /\ GateOpen
    /\ Goto("sample")
    /\ UNCHANGED <<evidence, runtime, attempt, loop, counts, pending, observers>>

CloseGate ==
    /\ pc = "gate" /\ ~GateOpen
    /\ Goto("abort")
    /\ UNCHANGED <<evidence, runtime, attempt, loop, counts, pending, observers>>

\* _handle_budget_abort: both runtime rows, then the exception leaves the
\* process.  samples_collected is the caller's, which stands at the last clause.
BudgetAbort ==
    /\ pc = "abort"
    /\ progress' = "aborted_budget"
    /\ progressN' = reported
    /\ abortedAt' = TRUE
    /\ Forget
    /\ UNCHANGED <<evidence, budgetUsd, ledgerUsd, observers>>

\* Mutant: the comparison is judged before its null sample.
JudgeAfterAblated ==
    IF cond = Ablated
    THEN /\ Goto("judge") /\ cond' = Full /\ nulls' = nulls + 1
    ELSE /\ Goto("sample") /\ cond' = cond + 1 /\ nulls' = nulls

\* After a condition: the next one, or the comparison is complete and its
\* null output joins the NullAccumulator.
NextCondition ==
    IF cond = Null
    THEN /\ Goto("judge") /\ cond' = Full /\ nulls' = nulls + 1
    ELSE /\ Goto("sample") /\ cond' = cond + 1 /\ nulls' = nulls

LoadSample ==
    /\ pc = "sample" /\ NextSlot \in existing
    /\ NextCondition
    /\ UNCHANGED <<evidence, runtime, attempt, counts, pending, observers>>
    /\ UNCHANGED <<clause, issued, tally, check, recorded>>

CallSubject ==
    /\ pc = "sample" /\ NextSlot \notin existing
    /\ \E usd \in CallCosts :
         /\ pending' = usd
         /\ billedUsd' = billedUsd + usd
    /\ Goto("insert")
    /\ UNCHANGED <<evidence, runtime, attempt, loop, counts>>
    /\ UNCHANGED <<warmupUsd, faults, highCap>>

\* A permanent error, or the last retry of a transient one: the exception
\* passes through every caller and the run stays as it is.
CallFails ==
    /\ pc = "sample" /\ NextSlot \notin existing
    /\ faults < MaxFaults
    /\ faults' = faults + 1
    /\ Forget
    /\ UNCHANGED <<evidence, runtime, billedUsd, warmupUsd, highCap>>

\* The response is recorded in three transactions: sample, ledger, budget.
InsertSample ==
    /\ pc = "insert" /\ NextSlot \notin samples
    /\ samples' = samples \cup {NextSlot}
    /\ evidenceUsd' = evidenceUsd + pending
    /\ Goto("ledger")
    /\ UNCHANGED <<runRow, verdicts, outcomes, runtime>>
    /\ UNCHANGED <<attempt, loop, counts, pending, observers>>

WriteLedger ==
    /\ pc = "ledger"
    /\ ledgerUsd' = ledgerUsd + pending
    /\ Goto("spend")
    /\ UNCHANGED <<evidence, progress, progressN, budgetUsd, abortedAt>>
    /\ UNCHANGED <<attempt, loop, counts, pending, observers>>

UpdateSpend ==
    /\ pc = "spend"
    /\ budgetUsd' = budgetUsd + pending
    /\ pending' = 0
    /\ collected' = collected + 1
    /\ NextCondition
    /\ UNCHANGED <<evidence, progress, progressN, abortedAt, ledgerUsd>>
    /\ UNCHANGED <<attempt, clause, issued, tally, check, recorded, reported>>
    /\ UNCHANGED observers

-----------------------------------------------------------------------------
(***************************************************************************)
(* The verdict of a comparison.  A crashed scorer leaves a tie that is     *)
(* inadmissible; a confound or too few null samples make any observation   *)
(* inadmissible (_snapshot_admissibility).                                 *)
(***************************************************************************)
ScorableRows ==
    [idx : {issued}, obs : Observations, admissible : {FALSE}]
    \cup [idx : {issued}, obs : Observations,
          admissible : {nulls >= NullFloor}]

\* Mutant: every observation moves the posterior.
AbsorbAll(row) == Add(tally, row.obs)

\* Only admissible observations move the stopping posterior.
Absorb(row) == IF row.admissible THEN Add(tally, row.obs) ELSE tally

EndComparison(t) ==
    /\ tally' = t
    /\ issued' = issued + 1
    /\ check' = NextCheck(t, issued + 1, check)
    /\ Goto(IF LoopGoesOn(t, issued + 1, check) THEN "gate" ELSE "advance")

\* A fresh comparison: the verdict and its confound events, one transaction.
RecordVerdict ==
    /\ pc = "judge" /\ issued \notin recorded
    /\ \E row \in ScorableRows :
         /\ verdicts' = [verdicts EXCEPT ![clause] = Append(@, row)]
         /\ EndComparison(Absorb(row))
    /\ UNCHANGED <<runRow, samples, evidenceUsd, outcomes, runtime, attempt>>
    /\ UNCHANGED <<clause, cond, recorded, nulls, counts, pending, observers>>

\* The verdict was there when the clause was entered: the stored row counts.
ReplayVerdict ==
    /\ pc = "judge" /\ issued \in recorded
    /\ EndComparison(Absorb(PersistedRow(clause, issued)))
    /\ UNCHANGED <<evidence, runtime, attempt, counts, pending, observers>>
    /\ UNCHANGED <<clause, cond, recorded, nulls>>

\* The heartbeat after a clause; it puts an aborted run back to running.
AdvanceClause ==
    /\ pc = "advance"
    /\ progress' = "running"
    /\ progressN' = collected
    /\ reported' = collected
    /\ clause' = clause + 1
    /\ Goto(IF clause = NClauses THEN "complete" ELSE "clause")
    /\ UNCHANGED <<evidence, budgetUsd, abortedAt, ledgerUsd, attempt>>
    /\ UNCHANGED <<issued, cond, tally, check, recorded, nulls>>
    /\ UNCHANGED <<collected, pending, observers>>

-----------------------------------------------------------------------------
(***************************************************************************)
(* The end of a run: completed_at in evidence, the terminal state in       *)
(* runtime, the catch-up entry of reconcile_run_cost.  completed_at is set *)
(* once: the trigger aborts a second stamp, and the exception ends the     *)
(* process.                                                                *)
(***************************************************************************)
StampCompleted ==
    /\ pc = "complete" /\ runRow = "open"
    /\ runRow' = "completed"
    /\ Goto("finish")
    /\ UNCHANGED <<samples, evidenceUsd, verdicts, outcomes, runtime>>
    /\ UNCHANGED <<attempt, loop, counts, pending, observers>>

StampRefused ==
    /\ pc = "complete" /\ runRow = "completed"
    /\ Forget
    /\ UNCHANGED <<evidence, runtime, observers>>

FinishProgress ==
    /\ pc = "finish"
    /\ progress' = "completed"
    /\ progressN' = collected
    /\ Goto("reconcile")
    /\ UNCHANGED <<evidence, budgetUsd, abortedAt, ledgerUsd>>
    /\ UNCHANGED <<attempt, loop, counts, pending, observers>>

Reconcile ==
    /\ pc = "reconcile"
    /\ ledgerUsd' = evidenceUsd
    /\ Forget
    /\ UNCHANGED <<evidence, progress, progressN, budgetUsd, abortedAt>>
    /\ UNCHANGED observers

Crash ==
    /\ pc # "idle" /\ faults < MaxFaults
    /\ faults' = faults + 1
    /\ Forget
    /\ UNCHANGED <<evidence, runtime, billedUsd, warmupUsd, highCap>>

\* Nothing left to do: the run is over, or it was orphaned before InitRuntime.
Rest ==
    /\ pc = "idle" /\ runRow # "absent" /\ ~Resumable
    /\ UNCHANGED vars

Runner ==
    \/ InitRuntime \/ Warmup \/ WarmupSpend \/ RepairBudget
    \/ EnterClause \/ RefuseClause
    \/ PassGate \/ CloseGate \/ BudgetAbort
    \/ LoadSample \/ CallSubject \/ InsertSample \/ WriteLedger \/ UpdateSpend
    \/ RecordVerdict \/ ReplayVerdict \/ AdvanceClause
    \/ StampCompleted \/ StampRefused \/ FinishProgress \/ Reconcile

Next ==
    \/ StartRun \/ Resume
    \/ Runner
    \/ CallFails \/ Crash
    \/ Rest

Spec == Init /\ [][Next]_vars

(***************************************************************************)
(* Fairness.  A living process runs on (it is one thread with no lock to   *)
(* wait for).  The operator comes back to an incomplete run with --resume, *)
(* as the CLI tells him to, and starts the run in the first place.         *)
(***************************************************************************)
FairSpec ==
    /\ Spec
    /\ WF_vars(Runner)
    /\ WF_vars(StartRun)
    /\ WF_vars(Resume)

-----------------------------------------------------------------------------
(***************************************************************************)
(* Safety                                                                  *)
(***************************************************************************)

\* The set-difference of resume never re-issues a call that was paid for: the
\* slot of the response in hand is free, so UNIQUE (run_id, clause_id,
\* condition, sample_index) never fires in a run with one process.
NoSlotPaidTwice == pc = "insert" => NextSlot \notin samples

\* A clause's verdicts are those of the comparisons 0, 1, 2, ... in this order,
\* one each: resume neither repeats a verdict nor leaves one out.
VerdictsInOrder ==
    \A c \in Clauses : \A k \in DOMAIN verdicts[c] : verdicts[c][k].idx = k - 1

\* A verdict is written only on a comparison whose three samples are stored.
VerdictsHaveSamples ==
    \A c \in Clauses : \A k \in DOMAIN verdicts[c] :
        Comparison(c, verdicts[c][k].idx) \subseteq samples

\* Wherever the budget gate is read, run_budget counts at least what the stored
\* samples cost, whatever crash preceded it.
GateSeesEvidence == pc = "gate" => evidenceUsd <= budgetUsd

\* The stored samples never cost more than the largest cap, by more than the
\* three calls of one comparison exceed their projection.
EvidenceWithinCap ==
    samples # {} =>
        evidenceUsd + 3 * Projected <= highCap + 3 * MaxCallCost

\* Each crash hides at most one call from run_budget: a response in hand, or a
\* stored sample that the warmup's cost conceals from resume's reconciliation.
LossPerFault ==
    pc = "gate" => billedUsd <= budgetUsd + faults * MaxCallCost

\* cost_ledger never runs ahead of the samples it projects, so the catch-up
\* entry of reconcile_run_cost is never negative.
LedgerNotAhead == ledgerUsd <= evidenceUsd

\* run_progress.samples_collected never overstates the stored samples, and is
\* exact once the run is completed, however often it was resumed.
SamplesAccounted ==
    /\ progressN <= Cardinality(samples)
    /\ progress = "completed" => progressN = Cardinality(samples)

-----------------------------------------------------------------------------
(***************************************************************************)
(* Liveness                                                                *)
(***************************************************************************)

\* A run that runtime shows as running is at last stamped, or out of budget,
\* provided the crashes and the call errors end: --resume makes progress.
RunIsDecided ==
    progress = "running" ~> runRow = "completed" \/ progress = "aborted_budget"

-----------------------------------------------------------------------------
(***************************************************************************)
(* What the comments of the code say, and the code does not do.            *)
(***************************************************************************)

\* resume_ablation's comment on MAJOR-2: a crash between the evidence commit
\* and the budget update cannot let the hard cap be overspent after resume.
\* Counted are the stored samples and the warmup, no response that was lost.
HardCapSurvivesResume == evidenceUsd + warmupUsd <= highCap

\* The CLI's hint on an incomplete run, to continue it with --resume: a run
\* with its completed_at stamped is finished in runtime as well, in the end.
StampedRunFinishes == runRow = "completed" ~> progress = "completed"
=============================================================================
