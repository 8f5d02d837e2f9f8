CONSTANTS
    None = None
    Garbage = Garbage
    OctetBits = 2
    Octets <- MCOctets
    PrefixSpan = 16
    Profiles <- MCProfiles
    Edits <- MCEdits
    Outcomes <- MCOutcomes
    MaxUpdates = 2
SPECIFICATION Spec
CONSTRAINT OneAtATime
INVARIANTS
    RoundTripIsStable
    RenderingsAgree
PROPERTIES
    WriteBackIsExact
