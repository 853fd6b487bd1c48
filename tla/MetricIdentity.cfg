SPECIFICATION Spec
CONSTANTS
    Procs = {p1, p2}
    original = original
    commented = commented
    altered = altered
    bumped = bumped
    v1 = v1
    v2 = v2
    a1 = a1
    a2 = a2
    first = first
    tie = tie
    input = input
    Sources = {original, commented, altered, bumped}
    VersionOf <- MCVersionOf
    BehaviourOf <- MCBehaviourOf
    Builds <- MCBuilds
    DigestOf <- MCDigestOf
    Logs = {first, tie}
    InputOf <- MCInputOf
    None = None
    MaxClock = 1
    MaxCommands = 4
SYMMETRY Alike
INVARIANTS
    TypeOK
    OneBehaviourPerVersion
    AcceptedStaysAccepted
    RestampsChain
    CommentEditKeepsCurrency
    CurrentMeansAttested
    IngestIsAllOrNothing
PROPERTIES
    CurrencyNeverReturns
