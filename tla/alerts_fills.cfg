SPECIFICATION Spec
CONSTANTS
    Users = {u1, u2}
    Senders <- MCSenders
    Requests = {q1}
    NoOne = NoOne
    Empty = Empty
    Nothing = Nothing
    MaxVersion = 2
    MaxFaults = 1
SYMMETRY MCSymmetry
INVARIANTS
    ForeignAlertsNeedMixups
    StaleAlertsNeedOverlaps
    AlertsInvariant
CHECK_DEADLOCK FALSE
