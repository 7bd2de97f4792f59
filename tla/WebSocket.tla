----------------------------- MODULE WebSocket -----------------------------
(***************************************************************************)
(* A WebSocketConnection (src/http/websocket.cpp), of CoinWebsocket or of  *)
(* the client, from the handshake on: its four fibers, the workers that    *)
(* run OnMessage, the application, and a peer that follows the protocol    *)
(* and may send fragments, pings with or without data, and empty messages. *)
(*                                                                         *)
(* read_frame_head() takes any result of recv() but -1 for a whole read.   *)
(* What it then finds in the buffer is not initialised: at the end of the  *)
(* stream it goes on with an arbitrary header, and after a short read, or  *)
(* after the data of a ping, which it does not read, it has lost the       *)
(* frames' boundaries for good (sync).                                     *)
(***************************************************************************)
EXTENDS WsFrame

CONSTANTS
    Scripts,    \* the frames a peer may send: sequences of [opcode, fin, data, len]
    Sends,      \* what the application may send: [call, opcode, data, len]
    MaxSends,   \* how often (bound)
    MaxPings    \* heartbeats (bound)

\* A frame's length is a number of 64 bits, and a frame without data is empty.
ASSUME SendsAssumption ==
    \A f \in Sends : f.opcode \in 0 .. 15 /\ f.len \in Lengths /\ (f.len = 0 => f.data = NoData)

IsData(f) == f.opcode \in {CONTINUATION, TEXT, BINARY}

\* The first i frames of s end inside a message.
Unfinished(s, i) == \E j \in 1 .. i : IsData(s[j]) /\ ~s[j].fin /\ \A k \in j + 1 .. i : ~IsData(s[k])

\* A peer follows the protocol: a message begins with its type and goes on with
\* continuations, other frames are whole. (No data is called as what the pool left behind.)
ASSUME ScriptsAssumption ==
    \A s \in Scripts :
        /\ Len(s) \in Nat /\ DOMAIN s = 1 .. Len(s)
        /\ \A i \in 1 .. Len(s) :
             /\ s[i].opcode \in 0 .. 15 /\ s[i].fin \in BOOLEAN /\ s[i].len \in Lengths /\ s[i].data # "stale"
             /\ IF IsData(s[i]) THEN s[i].opcode = CONTINUATION <=> Unfinished(s, i - 1) ELSE s[i].fin

VARIABLES
    server_side,  \* whether the connection is the server's
    conn,         \* the connection
    script, sent, \* the peer's frames and how many of them it has sent
    in,           \* the cells on their way from the peer
    peer,         \* "open", or "closed" once the peer has closed its end
    sync,         \* the next cell is the first of a frame
    jobs,         \* whole messages waiting for a worker, oldest first
    running,      \* the messages whose OnMessage is running
    calls,        \* history: the OnMessage calls, but for noise
    queued,       \* history: the frames given to sender_chan_
    read          \* history: the frames the peer has read

vars == <<server_side, conn, script, sent, in, peer, sync, jobs, running, calls, queued, read>>
remote == <<server_side, script, sent, peer>>
work == <<jobs, running, calls>>

NULL == [op |-> "nullptr"]
Key == <<1, 2, 3, 4>>

Fibers == {"recv", "sender", "heartbeat", "error"}

\* The buffer of the recv fiber comes from the pool, which does not empty what it is given
\* back: it may hold the rest of another message.
Stale == Payload("stale", 1, {})

NewConnection(buffer) ==
    [live |-> Fibers, open |-> TRUE, sender_chan |-> <<>>, sending |-> <<>>, head |-> <<>>, buffer |-> buffer,
     heartbeat_chan |-> 0, error_chan |-> 0, exited |-> FALSE, opcode |-> 0, closed |-> FALSE, pings |-> 0,
     dispatched |-> 0, refused |-> FALSE]

\* Mutant: the heartbeat fiber is left waiting.
CloseQuietly(c) ==
    IF c.closed THEN c
    ELSE [c EXCEPT !.closed = TRUE, !.open = FALSE, !.sender_chan = Append(@, NULL), !.error_chan = @ + 1]

close_wc_connection(c) ==
    IF c.closed THEN c
    ELSE [c EXCEPT !.closed = TRUE, !.open = FALSE, !.sender_chan = Append(@, NULL),
                   !.heartbeat_chan = @ + 1, !.error_chan = @ + 1]

\* History: a callback has returned false.
Refuse(c) == [c EXCEPT !.refused = TRUE]

Exit(c, fiber) == close_wc_connection([c EXCEPT !.live = @ \ {fiber}])

----------------------------------------------------------------------------
(* The peer *)

\* A client masks what it sends. (What it sends to a closed connection changes nothing.)
PeerSends ==
    /\ peer = "open" /\ conn.open /\ sent < Len(script)
    /\ LET f == script[sent + 1]
           h == Header(f.opcode, f.fin, f.len, IF server_side THEN Key ELSE NoKey)
       IN  in' = in \o FrameCells(h, f.data)
    /\ sent' = sent + 1
    /\ UNCHANGED <<server_side, conn, script, peer, sync, work, queued, read>>

PeerCloses ==
    /\ peer = "open" /\ conn.open
    /\ peer' = "closed"
    /\ UNCHANGED <<server_side, conn, script, sent, in, sync, work, queued, read>>

----------------------------------------------------------------------------
(* The application and the sender *)

\* sendText(), sendBinary(), sendPing(), sendPong() and closeWebsocket(): a task for the
\* sender. A client's frames are masked, but for those of sendBinary(const std::string&).
Masked(f) == ~server_side /\ f.call # "sendBinary(string)"

\* Mutant: a task goes before those that wait.
AddTaskFirst(c, f) == [c EXCEPT !.sender_chan = <<[op |-> "frame", f |-> f]>> \o @]

addTask(c, f) == [c EXCEPT !.sender_chan = Append(@, [op |-> "frame", f |-> f])]

Send(f) ==
    /\ ~conn.exited /\ Len(queued) < MaxSends
    /\ conn' = addTask(conn, f)
    /\ queued' = Append(queued, f)
    /\ UNCHANGED <<remote, in, sync, work, read>>

SendHeader ==
    /\ "sender" \in conn.live /\ conn.sending = <<>> /\ conn.sender_chan # <<>>
    /\ LET task == Head(conn.sender_chan)
           c == [conn EXCEPT !.sender_chan = Tail(@)]
       IN  conn' = IF task = NULL THEN Exit(c, "sender")
                   ELSE IF ~c.open THEN c
                   ELSE LET h == Header(task.f.opcode, TRUE, task.f.len, IF Masked(task.f) THEN Key ELSE NoKey)
                        IN  [c EXCEPT !.sending = FrameCells(h, task.f.data)]
    /\ UNCHANGED <<remote, in, sync, work, queued, read>>

\* What a peer that follows the protocol makes of a frame.
Decoded(cells) ==
    LET h == update_head_2bytes(cells)
        body == AfterHeader(cells)
    IN  [opcode |-> h.opcode, fin |-> h.fin, len |-> h.len,
         data |-> IF body = <<>> THEN NoData ELSE IF Toggle(Head(body), h.key).masks = {} THEN Head(body).data ELSE "masked"]

\* The payload follows its header, unless the connection has been closed in between.
SendPayload ==
    /\ conn.sending # <<>>
    /\ read' = IF conn.open /\ peer = "open" THEN Append(read, Decoded(conn.sending)) ELSE read
    /\ conn' = [conn EXCEPT !.sending = <<>>]
    /\ UNCHANGED <<remote, in, sync, work, queued>>

HeartbeatPing == [call |-> "sendPing", opcode |-> PING, data |-> NoData, len |-> 0]

Heartbeat ==
    /\ "heartbeat" \in conn.live /\ conn.heartbeat_chan = 0 /\ conn.pings < MaxPings
    /\ conn' = addTask([conn EXCEPT !.pings = @ + 1], HeartbeatPing)
    /\ queued' = Append(queued, HeartbeatPing)
    /\ UNCHANGED <<remote, in, sync, work, read>>

HeartbeatEnds ==
    /\ "heartbeat" \in conn.live /\ conn.heartbeat_chan > 0
    /\ conn' = Exit([conn EXCEPT !.heartbeat_chan = @ - 1], "heartbeat")
    /\ UNCHANGED <<remote, in, sync, work, queued, read>>

ErrorEnds ==
    /\ "error" \in conn.live /\ conn.error_chan > 0
    /\ conn' = Exit([conn EXCEPT !.error_chan = @ - 1], "error")
    /\ UNCHANGED <<remote, in, sync, work, queued, read>>

----------------------------------------------------------------------------
(* The recv fiber *)

\* What recv_loop() may do with a header: OnPing and OnPong may end the fiber. The payload
\* of an empty message is read with recv(..., 0), whose 0 is taken for the end.
HandleHead(c, h) ==
    LET opcode == Effective(h, c.opcode)
        d == [c EXCEPT !.opcode = IF h.fin THEN 0 ELSE Saved(h, @)]
        e == [c EXCEPT !.opcode = Saved(h, @)]
    IN  CASE opcode \in {PING, PONG} -> {d, Exit(Refuse(d), "recv")}
          [] opcode = CLOSE -> {Exit(e, "recv")}
          [] opcode \in {TEXT, BINARY} -> IF h.len = 0 THEN {Exit(e, "recv")} ELSE {[e EXCEPT !.head = <<h>>]}
          [] OTHER -> {Exit(d, "recv")}

Receiving == "recv" \in conn.live /\ conn.open

Unread(cells) == in' = IF conn'.open THEN cells ELSE <<>>

RecvHead ==
    /\ Receiving /\ sync /\ conn.head = <<>> /\ HeaderReady(in)
    /\ LET h == update_head_2bytes(in)
       IN  /\ conn' \in HandleHead(conn, h)
           /\ sync' = (h.opcode \in {PING, PONG, CLOSE} => h.len = 0)
    /\ Unread(AfterHeader(in))
    /\ UNCHANGED <<remote, work, queued, read>>

\* Mutant: a payload is unmasked where the buffer ends.
ReadFrameDataMasked(buffer, cell, key) == Append(buffer, cell)

\* read_frame_data(): the mask is applied to the beginning of the buffer, wherever the
\* payload was put. (All fragments have one size: the first is changed as a whole.)
ReadFrameData(buffer, cell, key) ==
    IF buffer = <<>> THEN <<Toggle(cell, key)>> ELSE <<Toggle(Head(buffer), key)>> \o Tail(buffer) \o <<cell>>

\* Mutant: only a continuation ends a message.
FinishLast(h) == h.fin /\ h.opcode = CONTINUATION

finish(h) == h.fin

\* The payload; the last of a message hands it to the workers.
RecvData ==
    /\ Receiving /\ sync /\ conn.head # <<>> /\ in # <<>>
    /\ LET h == Head(conn.head)
           buffer == ReadFrameData(conn.buffer, Head(in), h.key)
           text == Effective(h, conn.opcode) = TEXT
       IN  IF finish(h)
           THEN /\ jobs' = Append(jobs, [text |-> text, cells |-> buffer, n |-> conn.dispatched + 1])
                /\ conn' = [conn EXCEPT !.buffer = <<>>, !.head = <<>>, !.opcode = 0, !.dispatched = @ + 1]
           ELSE /\ conn' = [conn EXCEPT !.buffer = buffer, !.head = <<>>]
                /\ UNCHANGED jobs
    /\ in' = Tail(in)
    /\ UNCHANGED <<remote, sync, running, calls, queued, read>>

\* A header of which only a part has come is taken for a whole one.
RecvShort ==
    /\ Receiving /\ sync /\ conn.head = <<>> /\ in # <<>>
    /\ sync' = FALSE
    /\ UNCHANGED <<remote, conn, in, work, queued, read>>

Noise == [text |-> TRUE, cells |-> <<Payload("noise", 1, {})>>, n |-> 0]

\* Without the boundaries any bytes may look like any frame: a ping, a message, or one
\* that ends the fiber.
RecvNoise ==
    /\ Receiving /\ ~sync /\ in # <<>>
    /\ \/ conn' = conn /\ UNCHANGED jobs
       \/ conn' = conn /\ Len(jobs) = 0 /\ jobs' = <<Noise>>
       \/ conn' = Exit(conn, "recv") /\ UNCHANGED jobs
    /\ Unread(<<>>)
    /\ UNCHANGED <<remote, sync, running, calls, queued, read>>

\* At the end of the stream a payload's read fails; a header's does not, and what is in
\* the buffer decides: a ping is handled and the fiber reads again.
RecvEof ==
    /\ Receiving /\ peer = "closed" /\ in = <<>>
    /\ IF conn.head # <<>> THEN conn' = Exit(conn, "recv")
       ELSE \E opcode \in {CONTINUATION, TEXT, CLOSE, PING} :
              conn' \in HandleHead(conn, Header(opcode, TRUE, 0, NoKey))
    /\ Unread(<<>>)
    /\ UNCHANGED <<remote, sync, work, queued, read>>

\* The descriptor was closed by another fiber: recv() returns -1.
RecvFails ==
    /\ "recv" \in conn.live /\ ~conn.open
    /\ conn' = Exit(conn, "recv")
    /\ UNCHANGED <<remote, in, sync, work, queued, read>>

----------------------------------------------------------------------------
(* The workers, and the end *)

\* A worker takes a message, not always the oldest. The task holds a weak pointer: when
\* the connection is gone the message is dropped.
Gone == conn.exited /\ running = {}

OnMessage(i) ==
    /\ jobs' = RemoveAt(jobs, i)
    /\ IF Gone THEN UNCHANGED <<running, calls>>
       ELSE /\ running' = running \cup {jobs[i]}
            /\ calls' = IF jobs[i].n = 0 THEN calls ELSE Append(calls, jobs[i])
    /\ UNCHANGED <<remote, conn, in, sync, queued, read>>

\* It returns; false goes to the error fiber.
OnMessageReturns(job, ok) ==
    /\ running' = running \ {job}
    /\ conn' = IF ok THEN conn ELSE [Refuse(conn) EXCEPT !.error_chan = @ + 1]
    /\ UNCHANGED <<remote, in, sync, jobs, calls, queued, read>>

\* wg.wait() returns.
ProcessEnds ==
    /\ conn.live = {} /\ ~conn.exited
    /\ conn' = [conn EXCEPT !.exited = TRUE]
    /\ UNCHANGED <<remote, in, sync, work, queued, read>>

----------------------------------------------------------------------------

Init ==
    /\ server_side \in BOOLEAN
    /\ \E buffer \in {<<>>, <<Stale>>} : conn = NewConnection(buffer)
    /\ script \in Scripts /\ sent = 0 /\ in = <<>> /\ peer = "open" /\ sync = TRUE
    /\ jobs = <<>> /\ running = {} /\ calls = <<>> /\ queued = <<>> /\ read = <<>>

SenderStep == SendHeader \/ SendPayload
RecvStep == RecvHead \/ RecvData \/ RecvNoise \/ RecvEof \/ RecvFails
WorkerStep == \E i \in DOMAIN jobs : OnMessage(i)
WorkerReturns == \E job \in running, ok \in BOOLEAN : OnMessageReturns(job, ok)

Next ==
    \/ PeerSends \/ PeerCloses
    \/ \E f \in Sends : Send(f)
    \/ SenderStep \/ Heartbeat \/ HeartbeatEnds \/ ErrorEnds
    \/ RecvStep \/ RecvShort
    \/ WorkerStep \/ WorkerReturns \/ ProcessEnds

Fairness ==
    /\ WF_vars(SenderStep) /\ WF_vars(HeartbeatEnds) /\ WF_vars(ErrorEnds) /\ WF_vars(RecvStep)
    /\ WF_vars(WorkerStep) /\ WF_vars(WorkerReturns) /\ WF_vars(ProcessEnds)

Spec == Init /\ [][Next]_vars /\ Fairness

----------------------------------------------------------------------------
(* Properties *)

\* The script's messages: the positions of their frames.
Starts == {i \in DOMAIN script : script[i].opcode \in {TEXT, BINARY}}
Ends == {i \in DOMAIN script : IsData(script[i]) /\ script[i].fin}
UpTo(S, i) == Cardinality({j \in S : j <= i})
Nth(S, k) == CHOOSE i \in S : UpTo(S, i) = k
LastFrame(k) == Nth(Ends, k)
FirstFrame(k) == Nth(Starts, k)
FramesOf(k) ==
    LET data == {i \in FirstFrame(k) .. LastFrame(k) : IsData(script[i])}
    IN  [j \in 1 .. Cardinality(data) |-> script[Nth(data, j)]]
Whole(k) == Len(FramesOf(k)) = 1

\* A message the application gets (but the first where the pool's buffer was not empty)
\* is one the peer sent, of its type, in one piece and unmasked, and no message is handed
\* over twice, whatever pings and other messages come between its fragments and in
\* whichever order the workers run. A masked message in fragments keeps its type and its
\* fragments only: read_frame_data() unmasks the wrong bytes.
Intact ==
    /\ \A i \in DOMAIN calls :
         LET job == calls[i]
             frames == FramesOf(job.n)
             fresh == IF Head(job.cells).data = "stale" THEN Tail(job.cells) ELSE job.cells
         IN  /\ job.text = (frames[1].opcode = TEXT)
             /\ [j \in DOMAIN fresh |-> fresh[j].data] = [j \in DOMAIN frames |-> frames[j].data]
             /\ job.n > 1 => fresh = job.cells
             /\ fresh = job.cells /\ (Whole(job.n) \/ ~server_side) => \A j \in DOMAIN fresh : fresh[j].masks = {}
    /\ \A i, j \in DOMAIN calls : i # j => calls[i].n # calls[j].n

\* What the peer reads is what the application and the heartbeat gave to the sender, in
\* that order, up to the point where the connection was closed; every frame, whatever
\* its length's format, is decoded and unmasked to what was queued.
FramesRead ==
    /\ Len(read) <= Len(queued)
    /\ \A i \in DOMAIN read :
         read[i] = [opcode |-> queued[i].opcode, fin |-> TRUE, len |-> queued[i].len, data |-> queued[i].data]

\* However it begins (a callback that returns false on a worker's thread, the peer's
\* CLOSE, a fiber that fails), the end of a connection reaches all of its four fibers and
\* process() returns. (Only a read that lost the frames' boundaries may miss the CLOSE.)
ConnectionEnds ==
    (conn.closed \/ conn.error_chan > 0 \/ \E i \in 1 .. sent : script[i].opcode = CLOSE)
      ~> conn.exited \/ (~sync /\ ~conn.closed /\ conn.error_chan = 0)

\* What this end does not survive: an empty message, a ping with data, a ping between
\* two fragments, a fragment that is neither the first nor the last, and CLOSE.
Awkward(i) ==
    LET f == script[i]
    IN  \/ IsData(f) # (f.len > 0)
        \/ ~IsData(f) /\ Cardinality({s \in Starts : s < i}) > Cardinality({e \in Ends : e < i})
        \/ f.opcode = CONTINUATION /\ ~f.fin
        \/ f.opcode = CLOSE

\* A message that the peer has sent as a whole, with nothing awkward before it, is handed
\* to the workers, also when the peer closes right after it: only a callback that fails
\* or a short read stops it.
MessageDispatched ==
    \A k \in 1 .. Max({Len(s) : s \in Scripts}) :
        (k <= Cardinality(Ends) /\ sent >= LastFrame(k) /\ \A i \in 1 .. LastFrame(k) : ~Awkward(i))
          ~> (conn.dispatched >= k \/ ~sync \/ conn.refused)

=============================================================================
