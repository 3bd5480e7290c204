CONSTANTS
    Texts <- MCTexts
    EventFields <- MCEventFields
    InvocationFields <- MCInvocationFields
    Policies <- MCShellPolicies
    Events <- MCOneEvent
    Commands <- MCPartialCommands
    Reports <- MCReports
SPECIFICATION Spec
INVARIANTS
    DynamicWordsFailClosed
CHECK_DEADLOCK FALSE
