SPECIFICATION Spec
CONSTANTS
    Procs = {p1, p2}
    a = a
    b = b
    c = c
    git = git
    other = other
    pin1 = pin1
    pin2 = pin2
    Logs = {a, b, c}
    SkillOf <- MCSkillOf
    PinOf <- MCPinOf
    Manifests <- MCManifests
    Targets <- MCTargets
    Reasons = {v1, v2}
    FreshPins = {None, pin1}
    None = None
    MaxCommands = 3
    MaxCrashes = 1
INVARIANTS
    TypeOK
    OneLiveRowPerLog
    VoidedLogNeverCounts
    BackfillVoidsItsTargets
    ManifestIsStored
    VerdictAccountsForEveryRow
