CONSTANTS
    t1 = t1
    t2 = t2
    mine = mine
    shared = shared
    before = before
    other = other
    audit = audit
    old = old
    new = new
    Tools <- MCTools
    UserGroups <- MCUserGroups
    Events <- MCEvents
    Managed <- MCManaged
    Foreign <- MCForeign
    Ours <- MCOurs
    Current = new
    NotAList = NotAList
    Absent = Absent
    Null = Null
    Broken = Broken
    NoEvents = NoEvents
    UserFiles <- MCUserFiles
    MaxEdits = 2
    MaxFaults = 1
SPECIFICATION Spec
SYMMETRY MCSymmetry
INVARIANTS
    WholeInstallation
PROPERTIES
    ReplacementsAccounted
CHECK_DEADLOCK FALSE
