SPECIFICATION Spec
CONSTANTS
    c1 = c1
    c2 = c2
    Newcomers = {n1, n2}
    Referrers = {r1}
    Contests = {c1, c2}
    StartAt <- MCStartTwo
    Apps = {web, extension}
    Workers = {w1, w2}
    Threshold = 2
    NoOne = NoOne
    MaxTime = 1
    MaxFaults = 1
SYMMETRY MCSymmetry
INVARIANTS
    EligibleHasThreshold
    RecountsNeedFaults
    ContestInvariant
    RowsCountDeliveries
    SettledReferralsAreCounted
PROPERTIES
    ImplementsLedger
CHECK_DEADLOCK FALSE
