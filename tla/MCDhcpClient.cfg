CONSTANTS
    None = None
    Servers = {"s1", "s2"}
    Selective = {"s1"}
    Anonymous = {"s2"}
    AddrOf <- MCAddrOf
    Timeout = 2
    MaxCalls = 2
    MaxFaults = 1
SPECIFICATION Spec
INVARIANTS
    TypeOK
    LeaseIsOurs
    FailureHasCause
    SingleDeadline
    OnlyUnansweredLeak
PROPERTIES
    AcquireEnds
