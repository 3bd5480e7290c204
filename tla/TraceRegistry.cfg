CONSTANTS
    p1 = p1
    p2 = p2
    a1 = a1
    a2 = a2
    s1 = s1
    Procs <- MCProcs
    Actors <- MCActors
    Sessions <- MCSessions
    Root = Root
    NoActor = NoActor
    NoRecord = NoRecord
    NoState = NoState
    NoCall = NoCall
    Nobody = Nobody
    MaxCalls = 3
    MaxFaults = 2
SPECIFICATION FairSpec
INVARIANTS
    TypeOK
    IdentityStable
    TokensDistinct
    LineageRooted
PROPERTIES
    ImplementsIdentity
    EveryCallEnds
CHECK_DEADLOCK FALSE
