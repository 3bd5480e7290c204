CONSTANTS
    h1 = h1
    h2 = h2
    c1 = c1
    v1 = v1
    v2 = v2
    big = big
    Loaders <- MCLoaders
    Compilers <- MCCompilers
    Policies <- MCPolicies
    Oversized = {big}
    Bad = Bad
    Raising = Raising
    DirOpens = FALSE
    MaxActivations = 1
    MaxEdits = 1
    MaxFaults = 1
    MaxCrashes = 0
SPECIFICATION FairSpec
PROPERTIES
    LkgConverges
