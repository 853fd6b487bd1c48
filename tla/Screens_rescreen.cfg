SPECIFICATION Spec
CONSTANTS
    Procs = {p1, p2}
    a = a
    b = b
    c = c
    git = git
    other = other
    pin1 = pin1
    pin2 = pin2
    Logs = {a, b, c}
    SkillOf <- MCSkillOf
    PinOf <- MCPinOf
    Manifests <- MCRescreened
    Targets <- MCTargets
    Reasons = {v1}
    FreshPins = {None, pin1}
    None = None
    MaxCommands = 2
    MaxCrashes = 1
INVARIANT RescreenStands
