SPECIFICATION Spec
CONSTANTS
    Keys = {k1, k2}
    Requests = {q1}
    Workers = {w1, w2}
    NoKey = NoKey
    MaxChanges = 2
    MaxFaults = 1
INVARIANTS
    StaleFlagsAreExcused
    FeaturesInvariant
PROPERTIES
    StaleFlagsGo
CHECK_DEADLOCK FALSE
