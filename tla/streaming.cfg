SPECIFICATION Spec
CONSTANTS
    Listening = {"server"}
    Script <- MCScript
    Size <- MCSize
    MaxPings <- MCPings
INVARIANTS
    TypeOK
    EndComesLast
PROPERTIES
    ReliableStream
    EveryoneReturns
    SentIsRead
CHECK_DEADLOCK FALSE
