CONSTANTS
    unlexed = unlexed
    Unlexed = unlexed
    Options <- MCOptions
    Folded <- MCFolded
    HostOf <- MCHostOf
    UrlOf <- MCUrlOf
    RemoteOf <- MCRemoteOf
    Servers = {"@h"}
    Overlong = {}
    NetworkExecutables = {"curl", "dig", "nc", "ping", "scp", "ssh"}
    FileExecutables = {"rm"}
    PackageVerbs <- MCPackageVerbs
    NetworkValued = {"-o", "-t"}
    FileValued = {"-t"}
    GitValued = {"-C"}
    MaxTargets = 2
    Inputs <- MCInputs
    Tokens <- MCTokens
    Expansions <- MCExpansions
    Assignments = {"A=1"}
    Paths <- MCPaths
    Keywords = {"if"}
    CommandFlags = {"-c", "-exec"}
    Shells = {"bash"}
    Manual <- MCManual
    MaxCommands = 5
    MaxNesting = 3
    MaxDepth = 3
SPECIFICATION Spec
INVARIANTS
    NothingVanishes
    ChainsGrounded
    UncertainOrStable
CHECK_DEADLOCK FALSE
