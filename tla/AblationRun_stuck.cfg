SPECIFICATION FairSpec
CONSTANTS
    NMin = 1
    NInc = 1
    NMax = 1
    Passing <- MCPassing
    Failing <- MCFailing
    NClauses = 1
    Unmeasurable = {}
    NullFloor = 2
    CallCosts = {1}
    MaxCallCost = 1
    Projected = 1
    Caps = {7}
    MaxFaults = 1
PROPERTIES
    StampedRunFinishes
