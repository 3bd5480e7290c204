CONSTANTS
    a1 = a1
    a2 = a2
    b = b
    c = c
    junk = junk
    hostA = hostA
    hostB = hostB
    hostC = hostC
    Invalid = Invalid
    NotFound = NotFound
    Failed = Failed
    Broke = Broke
    Unasked = Unasked
    Nothing = Nothing
    Targets <- MCTargets
    Indicators <- MCIndicators
    Normal <- MCNormal
    Calls <- MCCalls
    Statistics <- MCStatistics
    MaliciousThreshold = 1
    SuspiciousThreshold = 1
    MaxLookups = 2
    Slowest = 3
    Latencies <- MCLatencies
    Timeouts <- MCTimeouts
SPECIFICATION Spec
INVARIANTS
    AskedOnce
    GapsAreKnown
    AnswersInTime
CHECK_DEADLOCK FALSE
