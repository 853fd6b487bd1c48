SPECIFICATION FairSpec
CONSTANTS
    NMin = 1
    NInc = 1
    NMax = 2
    Passing <- MCPassing
    Failing <- MCFailing
    NClauses = 2
    Unmeasurable = {1}
    NullFloor = 2
    CallCosts = {1}
    MaxCallCost = 1
    Projected = 1
    Caps = {4, 7}
    MaxFaults = 2
PROPERTIES
    RunIsDecided
