SPECIFICATION Spec
CONSTANTS
    Registrations <- MCRegistrations
    Requests <- MCRequests
    MaxRegistered = 3
    Legal <- MCLegal
    Accepts <- MCAccepts
    MaxFallbackDepth = 1
INVARIANTS
    TypeOK
    ServedRight
    RouteServed
PROPERTIES
    Answered
CHECK_DEADLOCK FALSE
