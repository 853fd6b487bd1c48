SPECIFICATION Spec
CONSTANTS
    NMin = 1
    NInc = 1
    NMax = 2
    Passing <- MCPassing
    Failing <- MCFailing
    NClauses = 3
    Unmeasurable = {2}
    NullFloor = 2
    CallCosts = {1}
    MaxCallCost = 1
    Projected = 1
    Caps = {7, 13}
    MaxFaults = 1
INVARIANTS
    TypeOK
    NoSlotPaidTwice
    VerdictsInOrder
    VerdictsHaveSamples
    NoSampleBeyondStop
    SamplesAccounted
PROPERTIES
    ImplementsUninterruptedRun
