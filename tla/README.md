# Formal model of skill-harness

TLA+ modules, TLC runs and TLAPS proofs for the parts of `skill-harness` where order, crashes and
several processes matter. Paths below are relative to `src/src/skill_harness/`.

The harness measures whether the clauses of an agent skill do anything. It buys samples from a
subject model under three conditions (the full skill, the skill with one clause ablated, no skill),
scores them, keeps an append-only record of samples and verdicts, stops by a sequential rule, and
derives every report from that record. What can go wrong is money spent twice or beyond a cap, a
verdict that no uninterrupted run would have produced, and a store that no longer says what happened.

## 1. Inventory

| Component | State it keeps | Operations | Interacts with |
|---|---|---|---|
| Ablation runner (`ablation/runner.py`) | `runs`, `samples`, `oracle_verdicts`, `clause_run_outcomes` in evidence.db; `run_progress`, `run_budget`, `cost_ledger` in runtime.db; loop state in memory | `run_ablation`, `resume_ablation`, `_run_clause` | subject client (calls), stopping rule, reconciler, both stores |
| Stopping rule (`ablation/stopping.py`) | tally of wins, losses and ties | `add`, `check_stop`, `next_check_at` | runner |
| Reconciler (`ablation/reconciler.py`) | none | `reconcile_run_cost` | both stores |
| Declared arms (`run_arms`, `ablation/arms.py`) | `arm_samples` | `run_arms` | subject client, both stores |
| Store opening (`storage/migrations.py`) | `schema_migrations`, `migration_semantic_digests`, `migration_sha_restamps` | `apply_pending`, `open_*` | every process, every installed version |
| CLI guards (`cli/main.py`, `storage/recovery.py`, `ratification.py`) | none of their own | incomplete-run guard, daily cap, ratification gate, evaluate-skill precondition | read what other processes write |
| Calibration (`oracles/calibration/`, `storage/dual_write.py`) | `calibration_events`, `current_calibration` | `calibrate` | judge, both stores; nothing reads the pointer |
| Screens (`subject/screen_*.py`, `repositories/evidence/screens.py`) | `screen_runs`, `screen_trials`, `screen_run_supersessions` | `ingest_screen_eval_log`, `screen backfill`, `screen verdict` | evidence.db, evaluation logs, the manifest of the installed version |
| Aggregation (`aggregation/`) | none | clause status, verdict, profile | reads evidence.db |
| Online FDR (`aggregation/online_fdr.py`) | wealth ledger | test, reject | aggregation |
| Metric identity (`metric_versions.py`, `metric_identity.py`, `frozen_cases.py`) | `metric_versions`, `metric_semantic_digests`, `metric_implementation_restamps`, `frozen_cases` | `audit-metric`, `freeze`, currency view | log ingest, the checkout that runs |
| Log ingest (`subject/ingest.py`) | `runs`, `samples`, `oracle_verdicts` of a Full/Null pair | `write_paired_evidence` | metric identity |
| Subject runners (`subject/pi/`, `subject/paired_launch.py`) | attempt records on disk | launch, parse, ingest | child processes |
| Extraction, vacuity policy, scorers, fit, reports, site | none that is shared | pure | - |

Hard behaviours. (a) *Two stores, no common transaction*: evidence is written first, runtime after
it, and a process may die between any two commits. (b) *Resume*: a second process rebuilds the loop
from what the first one left. (c) *Money is spent before it is recorded.* (d) *Several processes on
one file*: other CLI invocations, other installed versions of the package. (e) *Append-only rows with
set-once columns*: what was half-written cannot be put right. (f) *Reads before the lock*: the commands read, decide, and only then
open the transaction they write in. There are no threads; the runner says
so ("single-threaded serialization") and relies on it.

What makes each component correct is listed with its module below and, for the parts not yet
modelled, in the plan.

## 2. Modules

| Module | Models | Kind |
|---|---|---|
| `Stopping` | the stopping rule and the two nested loops around one comparison, as operators | pure |
| `AblationRun` | one run from `run_ablation` to its end, with crashes, failed calls, budget aborts and `resume_ablation` | state machine |
| `UninterruptedRun` | what a run promises of its evidence: the rows of a run that was never interrupted | abstract specification |
| `AblationRunRefinement` | the refinement mapping of `AblationRun` to `UninterruptedRun` | refinement |
| `AblationRunProofs` | theorems about `AblationRun` for all constants | proofs |
| `AblationRunRefinementProofs` | that `AblationRun` implements `UninterruptedRun`, and what follows for samples, verdicts and looks | proofs |
| `Migrations` | several openers of one store running `apply_pending` | state machine |
| `SchemaStore` | what an opened store promises of its schema, without files, digests, restamps or failures | abstract specification |
| `MigrationsRefinement` | the refinement mapping of `Migrations` to `SchemaStore` | refinement |
| `MigrationsProofs` | theorems about `Migrations` for all constants | proofs |
| `MigrationsRefinementProofs` | that `Migrations` implements `SchemaStore` | proofs |
| `RunLaunch` | several `run ablation` processes behind their guards, and `evaluate-skill`, on one pair of stores | state machine |
| `RunLaunchProofs` | theorems about `RunLaunch` for all constants | proofs |
| `Screens` | ingest, backfill, supersession and verdict of screens by several processes | state machine |
| `ScreensProofs` | theorems about `Screens` for all constants | proofs |
| `MetricIdentity` | paired ingest, audit and freezing by several checkouts on one metric | state machine |
| `MetricIdentityProofs` | theorems about `MetricIdentity` for all constants | proofs |
| `MCAblationRun`, `MCMigrations`, `MCRunLaunch`, `MCScreens`, `MCMetricIdentity` | values of the constants for TLC | model checking |

### AblationRun

One action is one committed transaction, one call of the subject model, or the computation between
two of them; `Crash` may strike between any two and clears everything but the two stores. Variables
carry the names of the tables or of the Python locals (`issued` is `comparisons_issued`, `check` is
`next_stop_at`, `recorded` is `pre_existing_verdict_indexes`).

| Code | Actions |
|---|---|
| `run_ablation` up to the loop | `StartRun`, `InitRuntime`, `Warmup`, `WarmupSpend` |
| `resume_ablation` up to the loop | `Resume`, `RepairBudget` |
| `_run_clause`: refusal | `EnterClause`, `RefuseClause` |
| `_run_clause`: gate | `PassGate`, `CloseGate`, `BudgetAbort` |
| `_run_clause`: three conditions | `LoadSample` or `CallSubject`, `InsertSample`, `WriteLedger`, `UpdateSpend`; `CallFails` |
| `_run_clause`: verdict and loop | `RecordVerdict` or `ReplayVerdict`, with `EndComparison` |
| heartbeat, end of run | `AdvanceClause`, `StampCompleted` or `StampRefused`, `FinishProgress`, `Reconcile` |

Abstractions. Scores are nondeterministic: a fresh verdict is any observation, admissible only if the
null floor is met, and possibly inadmissible even then (confound, scorer crash). The Beta posterior is
the two sets `Passing` and `Failing` of tables; any disjoint sets are allowed. Costs are whole units
and only their sums are kept, since the code reads nothing else. A run has one process at a time.
Process death loses memory only; that `synchronous = NORMAL` on runtime.db may also lose its last
commits at a power failure is not modelled. `billedUsd`, `warmupUsd`, `faults` and `highCap` observe
and never guard the code's actions (`faults` bounds them).

### Migrations

A file is its raw digest, and its meaning (the semantic digest) says what it does to the schema. Each
opener has a package, its copy of the ledger and its place in the list; each action is a statement or
a transaction of `apply_pending`. A store starts empty or as one of an earlier release, with the first
files of some package applied and no repair bookkeeping. `Die` is a kill or a refused write lock. The
observer `vetted` holds the migrations that some opener of this release has gone past, having applied, verified or
repaired them. The
text normalisation `_semantic_sql` is not modelled: it is assumed to give equal digests to files of
equal meaning and different ones to files of different meaning.

`SchemaStore` is what the openers promise together: a migration is installed once, with the meaning that
some package gives it and on top of that package's earlier ones; it keeps that meaning; and a store is
handed only to a process whose package it fits, which holds it until it closes it. In
`MigrationsRefinement` the meaning of a migration is that of the digest *in force*, which restamps move
from file to file, so that every restamp has to be a stutter. `Apply` installs, `Return` hands out, `Open` by a
process that had the store closes it, and every other step is a stutter.

### RunLaunch

`AblationRun` is one process inside one run. `RunLaunch` is the level above: several processes, several
runs, and what the guards of one read of the others. No lock ties a run to a process.

| Code | Actions |
|---|---|
| `run ablation --execute` up to the run | `Invoke`, `CheckDailyCap`, `CheckIncomplete`, `Refuse` |
| `run_ablation`, `resume_ablation` up to the loop | `StartRun`, `InitRuntime`; `Resume`, `RepairBudget` |
| `_run_clause`, coarse | `EnterClause`, `PassGate` or `BudgetAbort`, `Store`, `Account`, `Judge`, `Advance` |
| end of run | `Stamp`, `Finish`, `Reconcile` |
| `evaluate-skill`, `aggregate_skill` | `Evaluate`, `CheckEvaluable`, `FetchRuns`, `ReadVerdicts` |
| a kill; the 24-hour window of the cap | `Crash`; `RollOff` |

Abstractions. The three calls of a comparison are one purchase of price 1, equal to its projection, and
the warmup is left out: what they do to the money is the subject of `AblationRun`. Every clause is
measurable (the refusal of one is in `AblationRun`) and takes a fixed number of comparisons. Ledger and budget rows, two transactions in the code, are one step, since the
properties here do not see between them. The ratification gate, which reads files before any database is
opened, is left out. `shared`, `replanned` and `aborted` observe and never guard: they remember that two
processes were in a run at once, that a run was resumed with other clauses than it was planned with, and
that it once stopped at its budget. `Rest` marks the states where every command has ended.

### Screens

| Code | Actions |
|---|---|
| `screen backfill --execute`: the manifest | `StartBackfill`, per entry `SkipStored`, or `Look`, `Check`, `InsertRun`, `AlreadyIngested` |
| the voiding of the disposition table | `BeginVoiding`, per target `SelectRows`, `SkipSuperseded`, `CallSupersede`, `NextTarget`; `FinishBackfill` |
| `supersede_screen_run` | `Recheck`, `AlreadySuperseded`, `Supersede`, `KeyRefused` |
| `ingest_screen_eval_log` | `StartIngest`, `Check`, `InsertRun`, `AlreadyIngested` |
| `screen verdict` | `StartVerdict` (`select_stale_pin_skills`), `Derive` (`derive_p0_by_skill`) |

A row is named by what `screen_run_id` is hashed from: its log, and for a superseding row the text it was
voided with. Skill, pin and trials follow the log, since a supersession copies them in its own
transaction. `Crash` stands for a kill and for whatever else ends a command before its time (a missing
log, a score that is not binary). A manifest entry with one of its two D4 fields refuses the whole
manifest before a row is written, as `load_manifest` does.

### MetricIdentity

| Code | Actions |
|---|---|
| `write_paired_evidence`: the guard | `StartIngest`, `Guard`, `AlreadyIngested` |
| its transaction | `IngestNew`, `IngestCurrent`, `IngestRestamp`, `IngestRefused` |
| `audit-metric --execute`: both plans | `StartAudit`, `PlanAudit`, `AuditRefused`, `AlreadyAudited` |
| its transactions | `AuditRegister`, `AuditOvertaken`, `AuditRestamp` |
| `freeze --execute` | `StartFreeze`, `ReadVerdict`, `FreezeRefused`, `InsertCase`, `AlreadyFrozen` |
| the view `frozen_cases_with_currency` | `CurrentVersions`, `LabelledCurrent` |

One `metric_id`, since no statement relates the rows of two. A raw hash is the source it hashes, and a
digest is any value that agrees with behaviour *within* one digest algorithm: the digests of two
algorithms may coincide, which is the case the code has to get right. A pair of logs has at most one
freezable verdict. A dry run is a command killed before it writes. An older store is one in which a row was
audited without a digest on record. The clock may stand still between two commands (ties of
`registered_at`). The file is assumed not to change while a command runs.

## 3. Runs

| Run | Bounds | Shows |
|---|---|---|
| `evidence` | 3 clauses (the second unmeasurable), 2 comparisons, null floor 2, caps 7 and 13, one fault | types; no slot paid twice; verdicts in order and on stored samples; no sample beyond the stop; exact counts; refinement of `UninterruptedRun` |
| `money` | 1 clause, 2 comparisons, calls of 1 or 2 against a projection of 1, caps 4 and 9, two faults | the gate sees the evidence, the cap holds up to one comparison's error, a fault hides at most one call, the ledger is never ahead |
| `liveness` | 2 clauses (the first unmeasurable), caps 4 and 7, two faults | a run is at last stamped or out of budget |
| `stuck` | 1 clause, 1 comparison, one fault | **violated**: a crash between the stamp and the terminal progress row |
| `hardcap` | 1 clause, 2 comparisons, cap 6, one fault | **violated**: the warmup conceals a lost sample cost |
| `migrations` | 2 openers, 5 openings, 3 packages, 2 files | refinement of `SchemaStore`; meaning kept, repairability, justified refusals (an action property: of the step that refuses), audit chain, steady-state opens without a write |
| `launch` | 2 processes, 2 skills of one clause, 3 run ids, budgets 0 and 1, daily cap 1, 3 calls, 1 crash, 1 evaluation | what guards that read without a lock still bound: unfinished runs, the day's spend, second verdicts, reports |
| `launch_plan` | 1 process, 1 skill of two clauses, with and without `--clause`, 1 run | **violated**: a resume measures its own command line's clauses |
| `launch_aborted` | the same, without `--clause` | **violated**: a run out of budget is in no report |
| `screens` | 2 processes, 3 logs of 2 skills, 3 manifests, 2 texts, 3 commands, 1 crash | one live row per log, no return of a voided log, complete backfills, complete verdicts |
| `screens_rescreen` | the same with the manifest of a re-screen | **violated**: the backfill voids the re-screen it stores |
| `identity` | 2 processes, 4 sources, 6 builds over 2 digest algorithms, 2 log pairs, 2 clock values, 4 commands | one behaviour per version, no lock-out, one chain of restamps, honest currency, atomic ingests |

Why the bounds are enough. Two measurable clauses with an unmeasurable one between them let a null
count and a tally cross a clause boundary and a refusal; two comparisons let a stop come early, at the
cap, or not from admissible rows; the null floor 2 is met in the middle. A cap of 7 stops in the middle
of the first clause or at the second comparison, and 13 in the last clause, so every resume of an
aborted run is exercised. One fault suffices for `evidence` because resume reads only the stores and the
proofs cover any number of faults; the money and liveness runs take two. In `migrations` two openers
overtake each other at every statement, five openings alternate packages twice and then open again.
In `launch`, two processes are what it takes to pass a guard together or to share a run; three calls are a
first run, one that overtakes it, and a resume of either; with budget 0 a run stops at once and with
budget 1 it ends, and the cap 1 is reached by the first purchase, so that the second process has passed it
already. Terminals and run ids are interchangeable there and reduced by symmetry; no property or
`CHOOSE` tells them apart. In `screens`, three commands are two backfills of different texts that find the
same rows live and an ingest or verdict beside them; of the three logs one is voided, one is admitted by a
grown manifest and one belongs to a skill outside the table. In `identity`, four commands
register, restamp, restamp back and freeze, or let two ingests of one pair overtake an audit; the
sources are an original, an edit of its commentary, an edit of its code that forgot the version, and one that
did not; and the second algorithm gives each behaviour the digest that the first gives another. Every number
of processes, commands and rows is covered by the proofs of section 5.

Fairness, in `AblationRun` only. A living process runs on: weak fairness of `Runner`, since it is one thread without a lock to
wait for. An operator starts a run and comes back to an incomplete one: weak fairness of `StartRun` and
`Resume`, which the CLI asks for ("Re-run with --resume"). Faults are bounded, so they end; no fairness
is assumed of `Crash` or `CallFails`. The other modules state no liveness: a command that loses a race ends
with a refusal and waits for another one no longer than a transaction lasts, so nothing must eventually
happen without an operator who calls again.

Deadlock is checked in every run; `Rest` marks the states in which the system really is at rest.

## 4. Findings

*A run that cannot be finished* (`stuck`). `completed_at` is set once by trigger. A process that dies
after `complete_run` and before the terminal progress row leaves `run_progress.state = 'running'`. The
CLI then refuses a fresh run and says to use `--resume`; resume replays everything, stamps again, and the
trigger aborts it, each time. `evaluate-skill` refuses the skill for the same reason.

*The hard cap after resume* (`hardcap`). Resume lifts `usd_spent` to the sum over the samples when that
sum is larger. `usd_spent` also holds the warmup's cost, which no sample has. A crash between a sample's
commit and its budget update is therefore not seen when the warmup cost as much as the lost update, and
the gate lets one more comparison through. What does hold is checked and proved: `EvidenceWithinCap`
and `LossPerFault`. `HardCapNeedsFault` proves the other half: without a fault the hard cap holds, as soon as
the bill exceeds one call and the projection does not underestimate; with faults it is passed by one call
for each of them at most.

*A resume with other clauses* (`launch_plan`). `resume_ablation` loops over the clauses of its own command
line, which neither the CLI nor the runner compares with `runs.config_json`, and stamps the run complete;
its docstring speaks of "the frozen plan". `--resume` with a `--clause`, or with another skill's id, leaves a
completed run with planned clauses unmeasured. What holds is `ProperRunCoversPlan`, proved.

*A run out of budget is not reported* (`launch_aborted`). `docs/concepts/why-unmeasured.md` says that the
runner "marks the run `completed_at`"; the abort path does not, and `evaluate-skill` reads completed runs
only, so its answer is `no_completed_runs` until somebody resumes with a larger budget.

*A re-screen is voided on arrival* (`screens_rescreen`). `screen backfill` selects the rows to void by
skill and not by run, so a clean re-screen that a later manifest admits is voided, with the text of the
old leak, by the command that stores it.

## 5. Proofs

`AblationRunProofs` proves for every number of clauses, every schedule, every stopping set, every cost
and cap and every number of faults:

`TypeCorrect`, `SlotsPaidOnce`, `VerdictsOrdered`, `VerdictsGrounded`, `GateSound`, `CapHolds`,
`LossBounded`, `LedgerBounded`, `CountsAccounted`: each is `Spec => []P` for the property of that
name in `AblationRun` (section 3). The assumptions are `ScheduleAssumption` and `RunAssumption`,
which bound nothing.

None of these is inductive by itself. The strengthening is built in layers, each proved with those
below it: `ControlInv` (which steps follow which: the loop's indexes stay within their bounds and a
run in a clause has its rows), `SampleInv` (resume's snapshot contains what is stored, apart from what
this process stored since), `VerdictInv` (the verdicts of the current clause are exactly 0 .. n-1, n
being where the loop stands or, before a replay, further on), `MoneyInv` (run_budget against evidence and
bill, with the cost of the call in hand), `CapInv` (the spend against the cap between gate and
verdict), `CountInv` (the counters in memory and in `run_progress` against the number of rows). The layers
were model-checked before they were proved.

Three more results of that module are about quantities that no run checks.

- `ChargesBounded`: `ChargeInv` bounds what the provider has charged for, lost responses included, by the
  spend and one call per fault. The charges thus pass the largest cap by at most one comparison's projection
  error and `FaultCost`.
- `HardCapNeedsFault`: the complement of the finding `hardcap` (section 4).
- `AttemptEnds`: `Remaining` is a number in `0..MaxSteps`, a constant of clauses and comparisons. Every step of
  a living process makes it smaller, so no attempt goes on for ever; and an attempt that no fault ends
  leaves the run stamped or out of budget. That is the safety half of `RunIsDecided`, whose other half,
  that somebody resumes, is fairness.

`AblationRunRefinementProofs` proves that `AblationRun` implements `UninterruptedRun`
(`RunIsUninterrupted`), for all constants. `UninterruptedRun` replays the stopping rule over the rows of a clause
with a recursive function, `LoopAfter`. What such a function is for every sequence takes an induction; it is
made here with least counterexamples (`LeastOf`, from the well-foundedness of < on the naturals), once to
show that the function exists and once to show that a longer sequence does not change its values on the
shorter. Layers: `LoopInv` (the variables of the loop are what the replay of the first rows gives, whether the
process measured them or read them back, and every clause before the current one is settled),
`NullInv` (the null count is the number of comparisons gone past in all clauses, as the cardinality of a set of
cells) and `StopInv` (no sample lies beyond the clause whose turn it is). Every step then maps to
`Measure`, `Refuse`, `Stamp` or a stutter. From the same layers follow `SamplesStopWithRule`
(`NoSampleBeyondStop`), `RowsStopWithRule` (no verdict beyond the stop) and `StampedRunSettled` (a stamped run has
every clause at its stop). `NoUnscheduledLook` says that the sequential rule is read only when its schedule
provides for it: the verdicts by which a clause was decided number `N_MIN`, a multiple of `N_INC` or `N_MAX`;
otherwise the clause used up its comparisons. The error rates of the rule presuppose this, and a resume that looked
once more would break it.

`MigrationsProofs` proves, for any openers, packages, files and number of openings, `TypeCorrect`,
`MeaningKept`, `SchemaHolds`, `RefusalsAreReal`, `Repairable`, `Auditable` and `SteadyOpens` (for `TypeOK`,
`RestampsKeepMeaning`, `OpenStoreHasSchema`, `RefusalIsReal`, `OpenStoreRepairable`,
`RestampsAuditable`, `SteadyOpenWritesNothing`), from `MigrationsAssumption`. An opener acts on rows it read some steps ago, so the
invariant has three layers and, for the steady opens, a fourth: `PlaceInv` (which file an opener is at), `StoreInv` (every recorded meaning is
its digest's, every restamp means what the ledger's row does and has its meaning on record, and so does the ledger
row of what an opener has gone past, `VettedOnRecord`) and `OpenerInv` (the copy of the ledger agrees with it, the files gone past are
in order, and what `_verify_or_restamp` has read so far), `SteadyInv` (behind an opener that nobody else has
written after, the files gone past are in force and on record, and its copy of the ledger is exact for those
ahead; so all of them are when it returns, and stay so until the next write). `NextGrows` says that a step only adds rows;
`OthersKeep` uses it to keep an opener's layer while another one writes, and `OwnStepKeeps` handles each
action for its own opener.

`RefusalIsReal` excuses a refusal in one case only: the file differs from the ledger's, and no opener of this
release has gone past the migration yet. That is the edit made before the healing open, which
`_verify_or_restamp` documents as terminal. `NextVetted` shows that nobody goes past a migration without its
meaning on record, so once an opener has gone past it only a changed schema is refused.

`MigrationsRefinementProofs` proves `StoreIsSchemaStore`, that `Migrations` implements `SchemaStore`. By
`StoreInv` the digest in force means what the ledger's does (`SchemaIsLedgers`), so only a step that writes the
ledger changes the schema in force (`SameLedgerSameSchema`): restamps and backfills, whoever makes them, are
stutters. By `OpenerInv` the files an opener has gone past are in order, which is what installing the next one
and handing the store out require. `OpenStoreHasSchema` is not checked by a run any more: the refinement
contains it, and `SchemaHolds` proves it.

`RunLaunchProofs` proves for any processes, skills, clauses, budgets, cap and crashes: `Typed`,
`InvisibleEmpty`, `PileUpBounded`, `DayBounded`, `OneVerdict`, `ReportsStand` and `ProperRuns`, that is, every
property of the run `launch`, from `LaunchAssumption` (the processes are finitely many, the budgets have a
largest one, the cap is positive). Layers: `PlaceInv` (what a process has established at its step),
`CompanyInv` (which processes share a run; one that has its run to itself knows which verdicts are
recorded), `PlanInv` (how far it is through its clauses), `ReportInv` (what an evaluation has fetched),
`GuardInv`, `MoneyInv` (evidence, ledger and budget of a run differ by at most what one process holds in hand)
and `SpendInv`. Two of the arguments count. `GuardInv` is an injection of a skill's unfinished runs, with the
processes about to add one, into the processes (`Charged`): a guard is passed only when no run is
unfinished, and the injection is then rebuilt from the processes at work. `SpendInv` gives every process a
`Pot`, what it may still add to the day before it reads the cap again, and says that the day's spend is below the
cap plus the pots already used, counted by the finite set `Tokens`.

`ScreensProofs` proves `Typed`, `OneLiveRow`, `VoidedStaysVoid`, `TargetsVoided`, `ManifestReached` and
`VerdictComplete`, every property of the run `screens`, for any processes, logs, manifests, texts and
crashes. Layers: `CommandInv` (what a command holds at each step), `StoreInv` (only ingested rows are admissible
or superseded, each once, and every other row supersedes one of its log), `ManifestInv` and `VoidingInv` (which
entries and target rows a backfill has gone past), `VerdictInv`. `StoreMoves` reduces every step to an insert,
a supersession or no change of the store, and `AppendOnly` says that nothing is taken back.

`MetricIdentityProofs` proves `Typed`, `OneBehaviour`, `NeverLockedOut`, `Chain`, `AllOrNothing`,
`EditKeepsCurrency`, `Attested` and `CurrencyLost`, every property of the run `identity`, for any builds,
sources and log pairs, from `IdentityAssumption`: within one algorithm, digests agree exactly when behaviours
do. `Moves` reduces the steps of three commands to four things that can happen to the identity of a version
(`Quiet`, `Registers`, `Confirms`, `Amends`). Layers: `ProcessInv`, `LatestInv` (a nonempty set of restamps has
a latest one), `BehaviourInv` (what is recorded of a version behaves like its row), `AlgoInv`, `CoverInv` (which
sources of an unaudited version have a run), `CaseInv` (where the columns of a frozen case come from).

Every safety property of a passing run and both refinements are proved. Only model-checked:
`RunIsDecided`, which is liveness under fairness and out of reach of the prover; `AttemptEnds` is as much of it as
can be said of single steps. The violated properties are false, and stay with their runs.

## 6. Plan

In order of importance; each with its MC module and run.

1. *Done*: `Stopping`, `AblationRun`, `UninterruptedRun`, `Migrations`, `SchemaStore`, `RunLaunch`, `Screens`,
   `MetricIdentity`, and their proofs.
2. `DeclaredArms`: `run_arms` with budget and crash, without resume. Properties: the cap up to one
   purchase, no arm sampled beyond its count.
3. `PairedLaunch`: attempts, timeouts and retries of child processes, and the admission of a finished log.
4. `Aggregation`: status and verdict as operators over small evidence sets, against a reference definition;
   order independence.
5. The ratification gate in `RunLaunch`, once a record's scope is to be related to the spend of its runs.

Theorems worth proving next: that `Screens` and `MetricIdentity` implement abstract stores of their own (a
set of live rows that only supersession takes from; a version whose implementations behave alike), as
`Migrations` does now; for `RunLaunch`, that a run that was never shared is one that `AblationRun` could make.

Not modelled, with the reason.

- *Calibration*: the event in evidence.db and the pointer in runtime.db are written one after the other, and
  the failure of the second is swallowed, but nothing in the package reads `current_calibration`. A pointer
  without a reader has no property that could matter.
- *Online FDR, confidence sequences, fit*: floating-point recurrences over one list in memory.
- *The aggregation lattice*: a pure computation over finished rows; the reads that feed it are in `RunLaunch`.
- *The parsing half of the log ingest* (pairing, exposure, pins): reads files only.
- *The ratification gate*: reads files before any database is opened and changes no row.
- *Extraction and vacuity policy, scorers and judge*: text and model prompts; in `AblationRun` their results
  are nondeterministic.
- *Frontier, operating characteristics, executable evaluation; preflight, reports and site; `scripts/`*:
  simulations, read-only rendering and repository tooling without shared state; provider clients are
  external.
