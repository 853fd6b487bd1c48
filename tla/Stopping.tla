------------------------------ MODULE Stopping ------------------------------
(***************************************************************************)
(* The sequential stopping rule of src/skill_harness/ablation/stopping.py: *)
(* the discordant table a clause accumulates, the decision taken on it and *)
(* the schedule of the checks.                                             *)
(*                                                                         *)
(* The posterior P(q > 0.60) of Beta(1 + xf, 1 + xn) enters the rule only  *)
(* through two sets of tables: those at or above the pass threshold and    *)
(* those at or below the fail threshold.  The sets are parameters here.    *)
(***************************************************************************)
EXTENDS Integers

CONSTANTS
    NMin,       \* N_MIN: discordant comparisons before a threshold is read
    NInc,       \* N_INC: comparisons between two checks
    NMax,       \* N_MAX: cap on the comparisons of a clause
    Passing,    \* the tables <<xf, xn>> with p >= PASS_PROB_THRESHOLD
    Failing     \* the tables <<xf, xn>> with p <= FAIL_PROB_THRESHOLD

ASSUME ScheduleAssumption ==
    /\ NMin \in Nat \ {0} /\ NInc \in Nat \ {0} /\ NMax \in Nat \ {0}
    /\ NMin <= NMax
    /\ Passing \subseteq Nat \X Nat
    /\ Failing \subseteq Nat \X Nat
    /\ Passing \cap Failing = {}

Observations == {"win", "tie", "loss"}

\* BetaBinomialAccumulator's three counters.
Tallies == [xf : Nat, xn : Nat, ties : Nat]

EmptyTally == [xf |-> 0, xn |-> 0, ties |-> 0]

Total(t) == t.xf + t.xn + t.ties

Discordant(t) == t.xf + t.xn

\* add(): a tie is counted, and credited to neither side.
Add(t, obs) ==
    [xf   |-> t.xf + (IF obs = "win" THEN 1 ELSE 0),
     xn   |-> t.xn + (IF obs = "loss" THEN 1 ELSE 0),
     ties |-> t.ties + (IF obs = "tie" THEN 1 ELSE 0)]

\* A threshold was crossed: read on the discordant table, from N_MIN on.
Decided(t) ==
    /\ Discordant(t) >= NMin
    /\ <<t.xf, t.xn>> \in Passing \cup Failing

\* check_stop().should_stop: the cap is read on the total, ties included.
ShouldStop(t) == Decided(t) \/ Total(t) >= NMax

AtMost(x, y) == IF x <= y THEN x ELSE y

\* next_check_at(): the first check at N_MIN, then the multiples of N_INC.
NextCheckAt(n) ==
    IF n < NMin THEN NMin ELSE AtMost(((n \div NInc) + 1) * NInc, NMax)

(***************************************************************************)
(* The two nested loops around one comparison of a clause (runner.py,      *)
(* _run_clause), as one function of the loop's state after the comparison: *)
(* the tally, the comparisons issued, the next check.  The inner loop goes *)
(* on below the target; at the target, or when the issued comparisons are  *)
(* used up, the rule is read, and the outer loop goes on if it says so and *)
(* neither cap is reached.                                                 *)
(***************************************************************************)
\* Mutant: only admissible comparisons count against the cap (no MAJOR-4 cap).
UncappedBelowTarget(t, issued, check) ==
    Total(t) < AtMost(check, NMax)

BelowTarget(t, issued, check) ==
    Total(t) < AtMost(check, NMax) /\ issued < NMax

LoopGoesOn(t, issued, check) ==
    \/ BelowTarget(t, issued, check)
    \/ /\ ~ShouldStop(t)
       /\ Total(t) < NMax
       /\ issued < NMax

NextCheck(t, issued, check) ==
    IF BelowTarget(t, issued, check) THEN check ELSE NextCheckAt(Total(t))
=============================================================================
