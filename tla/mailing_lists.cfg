SPECIFICATION Spec
CONSTANTS
    Emails = {e1, e2}
    Absent = Absent
    Workers = {w1, w2}
    Notices = {p1, p2}
    MaxChanges = 3
    MaxFaults = 2
SYMMETRY MCSymmetry
CONSTRAINT InOrder
INVARIANTS
    
    ContactMirrorsUser
    
CHECK_DEADLOCK FALSE
