SPECIFICATION Spec
CONSTANTS
    a1 = a1
    a2 = a2
    a3 = a3
    github = github
    google = google
    Browsers = {b1, b2}
    Accounts = {a1, a2}
    KindOf <- MCKindTwo
    Ids = {u1, u2, u3}
    Requests = {q1, q2}
    NoId = NoId
    Undefined = Undefined
    MaxLogins = 2
    MaxFaults = 0
INVARIANTS
    LinkedAccountsOpenTheirSession
CHECK_DEADLOCK FALSE
