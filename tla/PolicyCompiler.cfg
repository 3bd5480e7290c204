CONSTANTS
    r1 = r1
    r2 = r2
    dot = dot
    escapedDot = escapedDot
    brackets = brackets
    long = long
    name = name
    inputKey = inputKey
    longKey = longKey
    dest = dest
    threat = threat
    Texts <- MCTexts
    NoText = NoText
    TooLong = {long}
    LongCategories = {brackets, long}
    BadRegex = {brackets}
    Containing <- MCContaining
    Matching <- MCMatching
    Escape <- MCEscape
    Ids = {r1, r2}
    ScalarFields = {name}
    ListFields = {dest, threat}
    InputFields = {inputKey, longKey}
    LongFields = {longKey}
    Gates <- MCGates
    Vocabularies <- MCVocabularies
    MaxLines = 8
    MaxRules = 2
    MaxConditions = 3
    MaxListValues = 2
SPECIFICATION Spec
INVARIANTS
    SourceKept
    LateRejectionsKnown
CHECK_DEADLOCK FALSE
