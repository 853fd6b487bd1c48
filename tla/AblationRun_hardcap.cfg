SPECIFICATION Spec
CONSTANTS
    NMin = 1
    NInc = 1
    NMax = 2
    Passing <- MCPassing
    Failing <- MCFailing
    NClauses = 1
    Unmeasurable = {}
    NullFloor = 2
    CallCosts = {1}
    MaxCallCost = 1
    Projected = 1
    Caps = {6}
    MaxFaults = 1
INVARIANTS
    HardCapSurvivesResume
