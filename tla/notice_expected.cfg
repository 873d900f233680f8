SPECIFICATION FairSpec
CONSTANTS
    Participants = {p1, p2}
    Threshold = 2
    CapturedTables <- MCExpected
    Mailings = {notification, boost}
    MaxTally = 3
    MaxFaults = 1
INVARIANTS
    NoticesAreEarned
    RepeatedMailsNeedFaults
    NoticeInvariant
PROPERTIES
    EligibleParticipantsAreNotified
CHECK_DEADLOCK FALSE
