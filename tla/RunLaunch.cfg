SPECIFICATION Spec
CONSTANTS
    Procs = {p1, p2}
    Skills = {s1, s2}
    ClausesOf <- MCClausesOf
    RunIds = {r1, r2, r3}
    Comparisons = 1
    ClauseOptions = {None}
    Budgets = {0, 1}
    DailyCap = 1
    None = None
    MaxInvocations = 3
    MaxCrashes = 1
    MaxEvaluations = 1
SYMMETRY Alike
INVARIANTS
    TypeOK
    InvisibleRunIsEmpty
    UnfinishedRunsBounded
    DailySpendBounded
    SecondVerdictNeedsCompany
    ReportStands
    ProperRunCoversPlan
