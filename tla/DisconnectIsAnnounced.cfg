CONSTANTS
    None = None
    ProfileIds = {1, 2}
    Devices <- MCDevices
    Settings <- MCSettings
    MaxActivations = 2
    BusThreads = {"bus"}
    OwnerThreads = {"owner"}
    Callers <- MCCallers
    Policy <- MCPolicy
    Indices = {2}
    LinkStates = {"up", "gone"}
    InfoAt <- MCInfoAt
SPECIFICATION FacadeSpec
INVARIANT
    DisconnectIsAnnounced
