\* Both endpoints open, one writes; session close, timers and resets at any point.
CONSTANTS
    Openers = {"Client", "Server"}
    Writers = {"Client"}
    StreamClosers = {}
    SessionClosers = {"Client"}
    MaxStreams = 1
    MaxSends = 1
    MaxPings = 0
    Window = 1
    Lens = {1, 2}
    Timeouts = TRUE
    Resets = TRUE
SPECIFICATION Spec
INVARIANTS
    TypeOK
    NoIdCollision
    EstablishedAtBothEnds
CHECK_DEADLOCK FALSE
