SPECIFICATION Spec
CONSTANTS
    Browsers = {b1}
    Ids = {u1, u2, v1, v2}
    Registered = {u1, u2}
    Referrers = {r1, r2}
    Apps = {web, extension}
    NoApp = NoApp
    Requests = {q1, q2}
    NoId = NoId
    Unknown = Unknown
    Keep = Keep
    MaxRequests = 3
SYMMETRY MCVisitSymmetry
INVARIANTS
    LogoutLogsOut
    AnsweredReferrerStays
    SessionsFollowLogins
    SessionInvariant
PROPERTIES
    VisitorsKeepTheirId
CHECK_DEADLOCK FALSE
