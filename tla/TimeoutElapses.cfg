CONSTANTS
    Profiles <- MCProfiles
    Timeout = 2
    MaxPaths = 2
    MaxFaults = 1
    MaxOthers = 2
SPECIFICATION Spec
PROPERTY
    TimeoutElapses
