\* Pings cross while a stream is opened and the client closes the session.
CONSTANTS
    Openers = {"Client"}
    Writers = {}
    StreamClosers = {}
    SessionClosers = {"Client"}
    MaxStreams = 1
    MaxSends = 0
    MaxPings = 1
    Window = 1
    Lens = {1}
    Timeouts = FALSE
    Resets = FALSE
SPECIFICATION FairSpec
PROPERTIES
    CloseCompletes
CHECK_DEADLOCK FALSE
