SPECIFICATION Spec
CONSTANTS
    Users = {u1, u2}
    Emails = {e1, e2}
    Usernames = {h1, h2}
    Images = {i1, i2}
    Requests = {q1, q2}
    Absent = Absent
    MaxReputation = 2
    MaxRequests = 3
INVARIANTS
    PaymentsDecidePremium
CHECK_DEADLOCK FALSE
