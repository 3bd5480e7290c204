CONSTANTS
    c1 = c1
    c2 = c2
    a1 = a1
    t1 = t1
    t2 = t2
    w = w
    Calls <- MCCalls
    Turns <- MCTurns
    Words <- MCWords
    Actors <- MCActors
    Root = Root
    NoActor = NoActor
    NoRecord = NoRecord
    NoState = NoState
    Redacted = Redacted
    MaxLength = 3
SPECIFICATION Correlation
INVARIANTS
    CorrelationTypeOK
    ExactJoin
    RequestJoin
    OwnTokensRedacted
    DescendantsJoin
CHECK_DEADLOCK FALSE
