CONSTANTS
    h1 = h1
    h2 = h2
    c1 = c1
    v1 = v1
    v2 = v2
    big = big
    Loaders <- MCLoaders
    Compilers <- MCCompilers
    Policies <- MCPolicies
    Oversized = {big}
    Bad = Bad
    Raising = Raising
    DirOpens = TRUE
    MaxActivations = 1
    MaxEdits = 1
    MaxFaults = 1
    MaxCrashes = 1
SPECIFICATION Spec
SYMMETRY MCSymmetry
INVARIANTS
    TypeOK
    LoadedWasActive
    FallbackJustified
    NoRejectionOnceShielded
    DurableActivation
PROPERTIES
    NeverTorn
