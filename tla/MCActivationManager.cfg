CONSTANTS
    None = None
    ProfileIds = {1, 2}
    Devices <- MCDevices
    Settings <- MCSettings
    MaxActivations = 3
SPECIFICATION Spec
INVARIANTS
    TypeOK
    EntriesUnique
    EntriesSettled
    EventsReplayToState
    EventChainLegal
    EngineAgrees
    HandlesNeverReused
PROPERTIES
    OnlyTornDownEntriesLeave
    ImplementsLifecycle
