SPECIFICATION Spec
CONSTANTS
    NMin = 1
    NInc = 1
    NMax = 2
    Passing <- MCPassing
    Failing <- MCFailing
    NClauses = 1
    Unmeasurable = {}
    NullFloor = 2
    CallCosts = {1, 2}
    MaxCallCost = 2
    Projected = 1
    Caps = {4, 9}
    MaxFaults = 2
INVARIANTS
    GateSeesEvidence
    EvidenceWithinCap
    LossPerFault
    LedgerNotAhead
