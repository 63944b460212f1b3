SPECIFICATION FairSpec
CONSTANTS
    Keys = {k1}
    Requirements = {q1}
    Controls = {c1}
    References <- AllReferences
    Requests = {r1}
    Timer = timer
    Followed = {r1}
    MaxFaults = 1
PROPERTIES
    PassesMissOnlyChanges
    PassesAreIdempotent
    DriftIsRepaired
