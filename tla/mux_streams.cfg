\* Streams written and closed from the client's side only.
CONSTANTS
    Openers = {"Client"}
    Writers = {"Client"}
    StreamClosers = {"Client"}
    SessionClosers = {}
    MaxStreams = 2
    MaxSends = 1
    MaxPings = 0
    Window = 1
    Lens = {1}
    Timeouts = FALSE
    Resets = FALSE
SPECIFICATION FairSpec
INVARIANTS
    
    FinAfterAllData
    SessionSurvives
PROPERTIES
    StreamLivesOnce
    WrittenIsRead
CHECK_DEADLOCK FALSE
