SPECIFICATION Spec
CONSTANTS
    MaxHeaderSize = 1000
    MaxLength = 9999
    MaxCalls = 3
    Calls <- MCCalls
    Outcomes <- MCOutcomes
INVARIANTS
    InStep
PROPERTIES
    AnsweredCallReturns
    ServerLetsGo
CHECK_DEADLOCK FALSE
