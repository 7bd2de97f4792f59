\* Streams closed while another is being opened.
CONSTANTS
    Openers = {"Client"}
    Writers = {}
    StreamClosers = {"Client", "Server"}
    SessionClosers = {}
    MaxStreams = 2
    MaxSends = 0
    MaxPings = 0
    Window = 1
    Lens = {1}
    Timeouts = FALSE
    Resets = FALSE
SPECIFICATION FairSpec
PROPERTIES
    StreamCloseEnds
CHECK_DEADLOCK FALSE
