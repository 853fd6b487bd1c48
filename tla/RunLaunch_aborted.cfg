SPECIFICATION Spec
CONSTANTS
    Procs = {p1}
    Skills = {s1}
    ClausesOf <- MCTwoClauses
    RunIds = {r1}
    Comparisons = 1
    ClauseOptions = {None}
    Budgets = {1}
    DailyCap = 9
    None = None
    MaxInvocations = 3
    MaxCrashes = 1
    MaxEvaluations = 1
INVARIANT AbortedRunIsReported
