CONSTANTS
    Ids = {1, 2}
    Bodies = {"good", "other", "bad"}
    Bad = {"bad"}
    NoFile = NoFile
    Empty = Empty
    Mixed = Mixed
    Procs = {p1, p2}
    MaxCalls = 3
    MaxFaults = 1
    MaxEdits = 1
SPECIFICATION Spec
SYMMETRY Symm
INVARIANTS
    TypeOK
    SoundUnlessTorn
PROPERTIES
    ListIsFair
    QuietMatchesMemory
CHECK_DEADLOCK FALSE
