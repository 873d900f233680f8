SPECIFICATION FairSpec
CONSTANTS
    c1 = c1
    c2 = c2
    Newcomers = {n1}
    Referrers = {r1}
    Contests = {c1, c2}
    StartAt <- MCStartTwo
    Apps = {web, extension}
    Workers = {w1, w2}
    Threshold = 1
    NoOne = NoOne
    MaxTime = 1
    MaxFaults = 2
PROPERTIES
    EnoughReferralsBecomeEligible
    DueReferralsGetCounted
CHECK_DEADLOCK FALSE
