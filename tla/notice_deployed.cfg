SPECIFICATION FairSpec
CONSTANTS
    Participants = {p1}
    Threshold = 2
    CapturedTables <- MCDeployed
    Mailings = {notification, boost}
    MaxTally = 3
    MaxFaults = 1
PROPERTIES
    EligibleParticipantsAreNotified
CHECK_DEADLOCK FALSE
