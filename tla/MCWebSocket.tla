---------------------------- MODULE MCWebSocket ----------------------------
(* Peers that send whole messages, fragments, pings between and inside messages, an   *)
(* empty message and CLOSE; an application whose messages take each kind of call.     *)
EXTENDS WebSocket

Frame(opcode, fin, data, len) == [opcode |-> opcode, fin |-> fin, data |-> data, len |-> len]

First == Frame(TEXT, TRUE, "m1", 126)
Second == Frame(BINARY, TRUE, "m2", 1)
Begin(opcode) == Frame(opcode, FALSE, "f1", 1)
End == Frame(CONTINUATION, TRUE, "f2", 1)
Ping(len) == Frame(PING, TRUE, "p", len)
Close == Frame(CLOSE, TRUE, NoData, 0)

MCScripts ==
    {<<First, Second>>, <<Begin(TEXT), End, Close>>, <<Begin(BINARY), Ping(0), End>>, <<Ping(1)>>,
     <<Frame(TEXT, TRUE, NoData, 0)>>}

Call(call, opcode, data, len) == [call |-> call, opcode |-> opcode, data |-> data, len |-> len]

MCSends ==
    {Call("sendText", TEXT, "t", 126), Call("sendBinary(string)", BINARY, "b", 1),
     Call("closeWebsocket", CLOSE, NoData, 0)}
=============================================================================
