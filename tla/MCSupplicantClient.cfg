CONSTANTS
    Profiles <- MCProfiles
    Timeout = 2
    MaxPaths = 2
    MaxFaults = 2
    MaxOthers = 2
SPECIFICATION Spec
PROPERTIES
    OutcomeIsHonest
    WaitEnds
