CONSTANTS
    c1 = c1
    c2 = c2
    strict = strict
    lax = lax
    Calls <- MCCalls
    ShellCalls <- MCShellCalls
    Bundles <- MCBundles
    Bad = Bad
    Verdict <- MCVerdict
    MaxRules = 2
    MaxChanges = 1
    MaxFaults = 2
SPECIFICATION FairSpec
INVARIANTS
    TypeOK
    DispatchWasAllowed
    ObservationMatchesAnswer
    DetectedNeverRuns
    DetectionHasObservation
    DenialFullyReported
PROPERTIES
    EveryCallIsDecided
CHECK_DEADLOCK FALSE
