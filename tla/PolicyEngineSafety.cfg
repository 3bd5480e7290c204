CONSTANTS
    Texts <- MCTexts
    EventFields <- MCEventFields
    InvocationFields <- MCInvocationFields
    Policies <- MCPolicies
    Events <- MCEvents
    Commands <- MCCommands
    Reports <- MCReports
SPECIFICATION Spec
INVARIANTS
    TypeOK
    DecisionExact
    ContactJustified
    ReportsComplete
    ErrorsAreRelevant
CHECK_DEADLOCK FALSE
