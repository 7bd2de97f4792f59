SPECIFICATION Spec
CONSTANTS
    Scripts <- MCScripts
    Sends <- MCSends
    MaxSends = 1
    MaxPings = 1
INVARIANTS
    Intact
    
PROPERTIES
    ConnectionEnds
    MessageDispatched
CHECK_DEADLOCK FALSE
