CONSTANTS
    Objects <- MCObjects
    Initial <- MCInitial
    Configs <- MCConfigs
    NoObject = NoObject
    ScanGroups = {2, 3}
    Batch = 1
    QueueMax = 1
    MaxChanges = 2
    MaxOps = 1
    MaxFaults = 1
SPECIFICATION Spec
INVARIANT
    EventsInOrder
PROPERTIES
    DumpIsFair
    ShutdownStops
CHECK_DEADLOCK FALSE
