---------------------------- MODULE RpcStreaming ----------------------------
(***************************************************************************)
(* An RPC stream: a StreamingConnection (src/rpc/rpc_streaming.cpp) at     *)
(* each end of a connection, with the application's calls, the four fibers *)
(* of process(), and a connection that may be reset.                       *)
(*                                                                         *)
(* The calls come from other threads than the fibers. The fibers of a side *)
(* share a thread and switch only where they wait, so the end of a fiber   *)
(* (wg.done(), close_wc_connection()) is one step.                         *)
(***************************************************************************)
EXTENDS WsFrame

CONSTANTS
    Listening, \* the sides whose application reads
    Script,    \* the messages each side's application sends (bound)
    Size(_),   \* the size of a message, encoded
    MaxPings   \* heartbeats of each side (bound)

Sides == {"client", "server"}
Peer(s) == IF s = "client" THEN "server" ELSE "client"
Fibers == {"recv", "sender", "heartbeat", "error"}
Messages == UNION {ToSet(Script[s]) : s \in Sides}

\* An encoded message begins with its uncompressed size: it is never empty.
ASSUME ScriptAssumption == \A s \in Sides : Script[s] \in Seq(Messages)
ASSUME SizeAssumption == \A m \in Messages : Size(m) \in Lengths \ {0}

VARIABLES
    conn,      \* each side's StreamingConnection
    wire,      \* the cells on their way to a side
    broken,    \* the connection has been reset
    writer,    \* the thread that sends, closes and destroys
    reader,    \* the thread that calls recv()
    sent,      \* history: the messages send() has accepted
    received,  \* history: the messages recv() has returned
    closeAt,   \* history: how many of them a side had accepted when it first closed, or -1
    heard      \* history: a side has read a CLOSE frame

vars == <<conn, wire, broken, writer, reader, sent, received, closeAt, heard>>
app == <<writer, reader, sent, received, closeAt>>

NULL == [op |-> "nullptr"]
Task(opcode, m) == [op |-> "frame", opcode |-> opcode, m |-> m]
Inbound(m) == [op |-> "message", m |-> m]

NewConnection ==
    [live |-> Fibers, open |-> TRUE, sender_chan |-> <<>>, sending |-> <<>>, inbox |-> <<>>, head |-> <<>>,
     heartbeat_chan |-> 0, error_chan |-> 0, exit_signal |-> 0, exited |-> FALSE,
     opcode |-> 0, closed |-> FALSE, remote_close |-> FALSE, pings |-> 0]

addTask(c, task) == [c EXCEPT !.sender_chan = Append(@, task)]

\* Mutant: the application is not told.
CloseSilently(c) ==
    IF c.closed THEN c
    ELSE [c EXCEPT !.closed = TRUE, !.remote_close = TRUE, !.open = FALSE,
                   !.sender_chan = Append(@, NULL), !.heartbeat_chan = @ + 1, !.error_chan = @ + 1]

\* Mutant: every fiber that ends closes.
CloseTwice(c) ==
    [c EXCEPT !.closed = TRUE, !.remote_close = TRUE, !.inbox = Append(@, NULL), !.open = FALSE,
              !.sender_chan = Append(@, NULL), !.heartbeat_chan = @ + 1, !.error_chan = @ + 1]

close_wc_connection(c) ==
    IF c.closed THEN c
    ELSE [c EXCEPT !.closed = TRUE, !.remote_close = TRUE, !.inbox = Append(@, NULL), !.open = FALSE,
                   !.sender_chan = Append(@, NULL), !.heartbeat_chan = @ + 1, !.error_chan = @ + 1]

\* The end of a fiber of process().
Exit(c, fiber) == close_wc_connection([c EXCEPT !.live = @ \ {fiber}])

Usable(s) == conn[s].open /\ ~broken

\* What a side sends reaches the peer as long as the peer has the connection open. What a
\* side has not read is lost when it closes.
Transmit(s, cells) ==
    wire' = IF conn[Peer(s)].open THEN [wire EXCEPT ![Peer(s)] = @ \o cells] ELSE wire
Unread(s, cells) ==
    wire' = [wire EXCEPT ![s] = IF conn'[s].open THEN cells ELSE <<>>]

----------------------------------------------------------------------------
(* The application *)

\* send(): the check of remote_close_, and the encoding, which may fail.
Send(s) ==
    /\ writer[s] = "idle" /\ Len(sent[s]) < Len(Script[s])
    /\ ~conn[s].remote_close
    /\ writer' = [writer EXCEPT ![s] = "send"]
    /\ UNCHANGED <<conn, wire, broken, reader, sent, received, closeAt, heard>>

\* The rest of send(). The connection may have closed in between.
SendTask(s) ==
    /\ writer[s] = "send"
    /\ LET m == Script[s][Len(sent[s]) + 1]
       IN  /\ conn' = [conn EXCEPT ![s] = addTask(@, Task(BINARY, m))]
           /\ sent' = [sent EXCEPT ![s] = Append(@, m)]
    /\ writer' = [writer EXCEPT ![s] = "idle"]
    /\ UNCHANGED <<wire, broken, reader, received, closeAt, heard>>

CloseTask(s) ==
    /\ conn' = [conn EXCEPT ![s] = addTask(@, Task(CLOSE, NoData))]
    /\ closeAt' = [closeAt EXCEPT ![s] = IF @ < 0 THEN Len(sent[s]) ELSE @]

\* close_streaming(), called once by an application; it may go on sending.
close_streaming(s) ==
    /\ writer[s] = "idle" /\ closeAt[s] < 0
    /\ CloseTask(s)
    /\ UNCHANGED <<wire, broken, writer, reader, sent, received, heard>>

\* The destructor closes, and waits for the end of process().
Destroy(s) ==
    /\ writer[s] = "idle" /\ reader[s] # "waiting"
    /\ CloseTask(s)
    /\ writer' = [writer EXCEPT ![s] = "destroying"]
    /\ UNCHANGED <<wire, broken, reader, sent, received, heard>>

Destroyed(s) ==
    /\ writer[s] = "destroying" /\ conn[s].exit_signal > 0
    /\ conn' = [conn EXCEPT ![s].exit_signal = @ - 1]
    /\ writer' = [writer EXCEPT ![s] = "gone"]
    /\ UNCHANGED <<wire, broken, reader, sent, received, closeAt, heard>>

\* recv() waits for the inbox. The application calls it again and again, until it has read
\* enough or is told of the end.
Recv(s) ==
    /\ reader[s] = "waiting" /\ conn[s].inbox # <<>>
    /\ LET item == Head(conn[s].inbox)
       IN  IF item = NULL
           THEN reader' = [reader EXCEPT ![s] = "ended"] /\ UNCHANGED received
           ELSE /\ \E next \in {"waiting", "stopped"} : reader' = [reader EXCEPT ![s] = next]
                /\ received' = [received EXCEPT ![s] = Append(@, item.m)]
    /\ conn' = [conn EXCEPT ![s].inbox = Tail(@)]
    /\ UNCHANGED <<wire, broken, writer, sent, closeAt, heard>>

----------------------------------------------------------------------------
(* The fibers *)

\* The sender takes a task and sends the header of its frame. The result of a send is not
\* looked at: a task whose connection is gone is simply lost.
SendHeader(s) ==
    /\ "sender" \in conn[s].live /\ conn[s].sending = <<>> /\ conn[s].sender_chan # <<>>
    /\ LET task == Head(conn[s].sender_chan)
           c == [conn[s] EXCEPT !.sender_chan = Tail(@)]
           h == Header(task.opcode, TRUE, IF task.opcode = BINARY THEN Size(task.m) ELSE 0, NoKey)
       IN  IF task = NULL
           THEN conn' = [conn EXCEPT ![s] = Exit(c, "sender")] /\ UNCHANGED wire
           ELSE IF ~Usable(s)
           THEN conn' = [conn EXCEPT ![s] = c] /\ UNCHANGED wire
           ELSE /\ Transmit(s, HeaderCells(h))
                /\ conn' = [conn EXCEPT ![s] = [c EXCEPT !.sending = IF h.len = 0 THEN <<>> ELSE <<PayloadCell(h, task.m)>>]]
    /\ UNCHANGED <<broken, heard, app>>

SendPayload(s) ==
    /\ conn[s].sending # <<>>
    /\ IF Usable(s) THEN Transmit(s, conn[s].sending) ELSE UNCHANGED wire
    /\ conn' = [conn EXCEPT ![s].sending = <<>>]
    /\ UNCHANGED <<broken, heard, app>>

\* WEBSOCKET_HEARTBEAT_INTERVAL has passed.
Heartbeat(s) ==
    /\ "heartbeat" \in conn[s].live /\ conn[s].heartbeat_chan = 0 /\ conn[s].pings < MaxPings[s]
    /\ LET c == [conn[s] EXCEPT !.pings = @ + 1]
       IN  conn' = [conn EXCEPT ![s] = addTask(c, Task(PING, NoData))]
    /\ UNCHANGED <<wire, broken, heard, app>>

\* The heartbeat and the error fiber find what close_wc_connection() has pushed for them.
\* One push wakes both, and neither does more than end.
WaitersEnd(s) ==
    /\ {"heartbeat", "error"} \subseteq conn[s].live /\ conn[s].heartbeat_chan > 0 /\ conn[s].error_chan > 0
    /\ LET c == [conn[s] EXCEPT !.heartbeat_chan = @ - 1, !.error_chan = @ - 1]
       IN  conn' = [conn EXCEPT ![s] = Exit(Exit(c, "heartbeat"), "error")]
    /\ UNCHANGED <<wire, broken, heard, app>>

\* Mutant: the fiber goes on after a CLOSE.
HandleHeadOn(c, h) ==
    LET opcode == Effective(h, c.opcode)
        d == [c EXCEPT !.opcode = IF h.fin THEN 0 ELSE Saved(h, @)]
    IN  CASE opcode \in {PING, PONG} -> d
          [] opcode = CLOSE -> [d EXCEPT !.inbox = Append(@, NULL)]
          [] opcode \in {TEXT, BINARY} -> [d EXCEPT !.head = <<h>>]
          [] OTHER -> Exit(d, "recv")

\* recv_loop() up to the payload.
HandleHead(c, h) ==
    LET opcode == Effective(h, c.opcode)
        d == [c EXCEPT !.opcode = IF h.fin THEN 0 ELSE Saved(h, @)]
    IN  CASE opcode \in {PING, PONG} -> d
          [] opcode = CLOSE -> Exit([c EXCEPT !.remote_close = TRUE, !.inbox = Append(@, NULL)], "recv")
          [] opcode \in {TEXT, BINARY} -> [d EXCEPT !.head = <<h>>]
          [] OTHER -> Exit(d, "recv")

RecvHead(s) ==
    /\ "recv" \in conn[s].live /\ Usable(s) /\ conn[s].head = <<>> /\ HeaderReady(wire[s])
    /\ LET h == update_head_2bytes(wire[s])
       IN  /\ conn' = [conn EXCEPT ![s] = HandleHead(@, h)]
           /\ heard' = [heard EXCEPT ![s] = @ \/ h.opcode = CLOSE]
    /\ Unread(s, AfterHeader(wire[s]))
    /\ UNCHANGED <<broken, app>>

\* Mutant: the latest message is the first to be handed out.
RecvDataFront(s) ==
    /\ "recv" \in conn[s].live /\ Usable(s) /\ conn[s].head # <<>>
    /\ wire[s] # <<>> /\ ~IsByte(Head(wire[s])) /\ Head(wire[s]).size = Head(conn[s].head).len
    /\ conn' = [conn EXCEPT ![s].inbox = <<Inbound(Head(wire[s]).data)>> \o @, ![s].head = <<>>]
    /\ wire' = [wire EXCEPT ![s] = Tail(@)]
    /\ UNCHANGED <<broken, heard, app>>

\* read_frame_data(), and the message goes to the inbox.
RecvData(s) ==
    /\ "recv" \in conn[s].live /\ Usable(s) /\ conn[s].head # <<>>
    /\ wire[s] # <<>> /\ ~IsByte(Head(wire[s])) /\ Head(wire[s]).size = Head(conn[s].head).len
    /\ conn' = [conn EXCEPT ![s].inbox = Append(@, Inbound(Head(wire[s]).data)), ![s].head = <<>>]
    /\ wire' = [wire EXCEPT ![s] = Tail(@)]
    /\ UNCHANGED <<broken, heard, app>>

Starved(s) == IF conn[s].head = <<>> THEN ~HeaderReady(wire[s]) ELSE wire[s] = <<>>

\* A read fails: the side's own descriptor is closed, the connection was reset, or the
\* peer has closed and all it sent has been read.
RecvFails(s) ==
    /\ "recv" \in conn[s].live
    /\ ~Usable(s) \/ (~conn[Peer(s)].open /\ Starved(s))
    /\ conn' = [conn EXCEPT ![s] = Exit(@, "recv")]
    /\ Unread(s, wire[s])
    /\ UNCHANGED <<broken, heard, app>>

\* wg.wait() returns.
ProcessEnds(s) ==
    /\ conn[s].live = {} /\ ~conn[s].exited
    /\ conn' = [conn EXCEPT ![s].exited = TRUE, ![s].exit_signal = @ + 1]
    /\ UNCHANGED <<wire, broken, heard, app>>

Reset ==
    /\ ~broken /\ broken' = TRUE
    /\ wire' = [s \in Sides |-> <<>>]
    /\ UNCHANGED <<conn, heard, app>>

----------------------------------------------------------------------------

Init ==
    /\ conn = [s \in Sides |-> NewConnection]
    /\ wire = [s \in Sides |-> <<>>]
    /\ broken = FALSE
    /\ writer = [s \in Sides |-> "idle"]
    /\ reader = [s \in Sides |-> IF s \in Listening THEN "waiting" ELSE "stopped"]
    /\ sent = [s \in Sides |-> <<>>] /\ received = [s \in Sides |-> <<>>]
    /\ closeAt = [s \in Sides |-> -1] /\ heard = [s \in Sides |-> FALSE]

Calls(s) == Send(s) \/ close_streaming(s) \/ Destroy(s)
Returns(s) == SendTask(s) \/ Destroyed(s) \/ Recv(s)
SenderStep(s) == SendHeader(s) \/ SendPayload(s)
RecvStep(s) == RecvHead(s) \/ RecvData(s) \/ RecvFails(s)

Next ==
    \/ \E s \in Sides : \/ Calls(s) \/ Returns(s) \/ SenderStep(s) \/ RecvStep(s)
                        \/ Heartbeat(s) \/ WaitersEnd(s) \/ ProcessEnds(s)
    \/ Reset

Fairness ==
    \A s \in Sides :
        /\ WF_vars(SendTask(s)) /\ WF_vars(Destroyed(s)) /\ WF_vars(Recv(s))
        /\ WF_vars(SenderStep(s)) /\ WF_vars(RecvStep(s))
        /\ WF_vars(WaitersEnd(s)) /\ WF_vars(ProcessEnds(s))

Spec == Init /\ [][Next]_vars /\ Fairness

----------------------------------------------------------------------------
(* Properties *)

\* How many messages and how many nulls wait in an inbox.
Items(inbox) == Cardinality({i \in DOMAIN inbox : inbox[i] # NULL})
Nulls(inbox) == Cardinality({i \in DOMAIN inbox : inbox[i] = NULL})

Handed(s) == Len(received[s]) + Items(conn[s].inbox)

\* A channel that the fibers of a side pop is pushed to once for each; the wait group's
\* count fits the fibers that are left, and nobody is told of the end before there is one.
TypeOK ==
    /\ \A s \in Sides :
         /\ conn[s].live \subseteq Fibers
         /\ conn[s].heartbeat_chan \in 0 .. 1 /\ conn[s].error_chan \in 0 .. 1 /\ conn[s].exit_signal \in 0 .. 1
         /\ conn[s].live # Fibers => conn[s].closed
         /\ conn[s].closed <=> ~conn[s].open
         /\ conn[s].opcode = 0
         /\ Nulls(conn[s].inbox) <= 2
    /\ broken \in BOOLEAN
    /\ reader \in [Sides -> {"waiting", "stopped", "ended"}]

\* recv() hands out the messages the peer has sent, whole, in order, once (frames of all
\* three length formats and PINGs between them included).
Reliable == INSTANCE ReliableChannel
ReliableStream == Reliable!Spec

\* A side that reads a CLOSE has got everything its peer sent before it closed: the CLOSE
\* takes its turn in sender_chan_. And recv() says that the stream has ended only when it
\* has handed out all that was read.
EndComesLast ==
    \A s \in Sides :
        /\ heard[s] => Handed(s) >= closeAt[Peer(s)]
        /\ \A i \in DOMAIN conn[s].inbox :
             (reader[s] = "ended" \/ \E j \in 1 .. i - 1 : conn[s].inbox[j] = NULL) => conn[s].inbox[i] = NULL

Over == broken \/ \E s \in Sides : closeAt[s] >= 0

\* Once a side closes or the connection is lost, both process() return, no recv() is left
\* waiting and every destructor returns.
EveryoneReturns ==
    Over ~> \A s \in Sides : conn[s].exited /\ reader[s] # "waiting" /\ writer[s] # "destroying"

\* What is sent is read, unless a side closes or the connection is lost.
SentIsRead ==
    \A s \in Sides : \A n \in DOMAIN Script[s] :
        (Len(sent[s]) >= n) ~> (Over \/ Handed(Peer(s)) >= n)

=============================================================================
