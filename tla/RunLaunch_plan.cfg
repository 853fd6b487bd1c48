SPECIFICATION Spec
CONSTANTS
    Procs = {p1}
    Skills = {s1}
    ClausesOf <- MCTwoClauses
    RunIds = {r1}
    Comparisons = 1
    ClauseOptions <- MCClauseOptions
    Budgets = {2}
    DailyCap = 9
    None = None
    MaxInvocations = 3
    MaxCrashes = 1
    MaxEvaluations = 0
INVARIANT CompletedRunCoversPlan
