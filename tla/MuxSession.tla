----------------------------- MODULE MuxSession -----------------------------
(***************************************************************************)
(* The stream multiplexer of arch_net: two MultiplexingSession objects     *)
(* joined by one byte stream (src/mux_session.cpp, src/mux_stream.cpp,     *)
(* src/mux_define.h).                                                      *)
(*                                                                         *)
(* Each endpoint runs three fibers made by session_setup(): the send fiber *)
(* pops closures from send_chan_ and runs them, the recv fiber decodes     *)
(* frames and handles them, the keep-alive fiber pings.  The application   *)
(* opens, writes and closes streams from fibers of its own.  A step of the *)
(* model is what one fiber does up to the next point where another fiber   *)
(* can run or where it can block: a queue, a lock, a socket write or read. *)
(*                                                                         *)
(* A header and the payload after it are two items of the wire, because    *)
(* they are two socket writes and the recv fiber writes ACKs of its own    *)
(* without passing through the send fiber.                                 *)
(*                                                                         *)
(* Two locks matter.  The mutex of mux_streams_ is held by the recv fiber  *)
(* through handle_stream_message() and by close() while it marks streams.  *)
(* The state_lock_ of a stream is held exactly while the stream is in      *)
(* StreamLocalClose: MultiplexingStream::close() sets that state, waits    *)
(* for its FIN task and only then sets StreamClosed and unlocks.           *)
(*                                                                         *)
(* send_window_ is not a variable: it starts at MaxStreamWindowSize, no    *)
(* code decrements it and every WindowUpdate carries a delta of 0.         *)
(***************************************************************************)
EXTENDS Integers, Sequences, FiniteSets

CONSTANTS
    Openers,        \* peers whose application calls open_stream()
    Writers,        \* peers whose application calls send()
    StreamClosers,  \* peers whose application closes streams still open
    SessionClosers, \* peers whose application closes the session
    MaxStreams,     \* bound: open_stream() calls per peer
    MaxSends,       \* bound: send() calls per peer and stream
    MaxPings,       \* bound: pings per peer
    Window,         \* FLAGS_MaxStreamWindowSize
    Lens,           \* payload lengths an application passes to send()
    Timeouts,       \* may the 30 s timers of a live session expire
    Resets          \* may a closed connection reset instead of ending (EOF)

Peers == {"Client", "Server"}
Other(p) == IF p = "Client" THEN "Server" ELSE "Client"

ASSUME ConstantsAssumption ==
    /\ Openers \subseteq Peers
    /\ Writers \subseteq Peers
    /\ StreamClosers \subseteq Peers
    /\ SessionClosers \subseteq Peers
    /\ MaxStreams \in Nat /\ MaxSends \in Nat /\ MaxPings \in Nat
    /\ Window \in Nat
    /\ Lens \subseteq Nat \ {0}
    /\ Timeouts \in BOOLEAN /\ Resets \in BOOLEAN

\* Mutated form of FirstId: the constructor ignores type_.
FirstIdShared(p) == 1

\* next_stream_id_ as the constructor sets it; open_stream() adds 2 before use.
FirstId(p) == IF p = "Client" THEN 1 ELSE 2
IdStep == 2
OwnIds(p) == {FirstId(p) + IdStep * k : k \in 1..MaxStreams}
Ids == OwnIds("Client") \cup OwnIds("Server")

\* "None" is a stream object that does not exist yet at this endpoint.
StreamStates == {"None", "SYNSent", "SYNReceived", "Established",
                 "LocalClose", "RemoteClose", "Closed", "Reset"}
OpenStates   == {"SYNSent", "SYNReceived", "Established"}

VARIABLES
    shut_down,      \* [Peers -> BOOLEAN]   shut_down_
    closer,         \* where close() is: "none", "lock", "mark", "wait", "done"
    why,            \* history: what made the session close
    local_goaway,   \* local_goaway_
    remote_goaway,  \* remote_goaway_
    opens,          \* history: open_stream() calls so far
    next_stream_id, \* next_stream_id_
    streams,        \* keys of mux_streams_.streams
    state,          \* state_ of each stream object
    recv_window,    \* recv_window_ of each stream object
    erasing,        \* streams whose close() has still to call close_stream()
    send_chan,      \* send_chan_: closures waiting for the send fiber
    sender,         \* send fiber: "pop", "emplace", "body", "stuck", "exit"
    cur,            \* the closure the send fiber is in
    wire,           \* wire[p]: what p wrote and its peer has not read
    recv,           \* recv fiber: "head", "handle", "accept", "locked", "body", "exit", "abort"
    hdr,            \* recv_loop's hdr
    ka,             \* keep-alive fiber: "idle", "ping", "exit"
    ping_id,        \* ping_.ping_id
    pushed, sent, got   \* history: chunks queued, written, read per stream

sessionVars == <<shut_down, closer, why, local_goaway, remote_goaway>>
streamVars  == <<opens, next_stream_id, streams, state, recv_window, erasing>>
sendVars    == <<send_chan, sender, cur>>
recvVars    == <<recv, hdr>>
kaVars      == <<ka, ping_id>>
histVars    == <<pushed, sent, got>>
vars == <<sessionVars, streamVars, sendVars, wire, recvVars, kaVars, histVars>>

-----------------------------------------------------------------------------
(* Frames and tasks.  n is history: the number of a data chunk in its      *)
(* stream, of an open_stream() call, or the ping that a pong answers.      *)

FrameTypes == {"data", "body", "wupdate", "ping", "goaway"}
Flags == {"none", "SYN", "ACK", "FIN", "RST"}
Causes == {"none", "user", "io", "timeout", "flags", "window", "desync",
           "goaway", "syn", "task"}

Frame(type, flag, id, len, n) ==
    [type |-> type, flag |-> flag, id |-> id, len |-> len, n |-> n]
Frames == [type : FrameTypes, flag : Flags, id : Nat, len : Nat, n : Nat]

ControlKinds == {"fin", "ping", "pong", "goaway", "rst"}
Kinds == ControlKinds \cup {"open", "expired", "data", "null"}
Task(kind, id, len, n) == [kind |-> kind, id |-> id, len |-> len, n |-> n]
Tasks == [kind : Kinds, id : Nat, len : Nat, n : Nat]
NullTask == Task("null", 0, 0, 0)

-----------------------------------------------------------------------------
\* socket_stream_ of p is closed: close() got that far, or the process died.
Down(p) == closer[p] \in {"wait", "done"} \/ recv[p] = "abort"

\* mux_streams_.mutex is held for longer than one step.
MutexHeld(p) == recv[p] \in {"locked", "body"} \/ closer[p] = "mark"

Push(p, t) == send_chan' = [send_chan EXCEPT ![p] = Append(@, t)]
Write(p, f) == wire' = [wire EXCEPT ![p] = Append(@, f)]

\* close() up to its first lock; a second caller returns at once.
Shut(p, cause) ==
    IF shut_down[p]
    THEN UNCHANGED <<shut_down, closer, why>>
    ELSE /\ shut_down' = [shut_down EXCEPT ![p] = TRUE]
         /\ closer' = [closer EXCEPT ![p] = "lock"]
         /\ why' = [why EXCEPT ![p] = cause]

Init ==
    /\ shut_down = [p \in Peers |-> FALSE]
    /\ closer = [p \in Peers |-> "none"]
    /\ why = [p \in Peers |-> "none"]
    /\ local_goaway = [p \in Peers |-> FALSE]
    /\ remote_goaway = [p \in Peers |-> FALSE]
    /\ opens = [p \in Peers |-> 0]
    /\ next_stream_id = [p \in Peers |-> FirstId(p)]
    /\ streams = [p \in Peers |-> {}]
    /\ state = [p \in Peers |-> [id \in Ids |-> "None"]]
    /\ recv_window = [p \in Peers |-> [id \in Ids |-> Window]]
    /\ erasing = [p \in Peers |-> {}]
    /\ send_chan = [p \in Peers |-> <<>>]
    /\ sender = [p \in Peers |-> "pop"]
    /\ cur = [p \in Peers |-> NullTask]
    /\ wire = [p \in Peers |-> <<>>]
    /\ recv = [p \in Peers |-> "head"]
    /\ hdr = [p \in Peers |-> Frame("wupdate", "none", 0, 0, 0)]
    /\ ka = [p \in Peers |-> "idle"]
    /\ ping_id = [p \in Peers |-> 0]
    /\ pushed = [p \in Peers |-> [id \in Ids |-> 0]]
    /\ sent = [p \in Peers |-> [id \in Ids |-> 0]]
    /\ got = [p \in Peers |-> [id \in Ids |-> 0]]

-----------------------------------------------------------------------------
(* The application.                                                        *)

\* open_stream() up to the wait for the send fiber's answer.
OpenStream(p) ==
    /\ p \in Openers
    /\ opens[p] < MaxStreams
    /\ ~shut_down[p]
    /\ opens' = [opens EXCEPT ![p] = @ + 1]
    /\ Push(p, Task("open", 0, 0, opens[p] + 1))
    /\ UNCHANGED <<sessionVars, next_stream_id, streams, state, recv_window,
                   erasing, sender, cur, wire, recvVars, kaVars, histVars>>

\* The caller of open_stream() gives up after FLAGS_StreamOpenTimeout: its
\* res_chan is gone when the queued task looks for it.
OpenTimeout(p) ==
    /\ Timeouts
    /\ \E i \in 1..Len(send_chan[p]) :
          /\ send_chan[p][i].kind = "open"
          /\ send_chan' = [send_chan EXCEPT ![p][i].kind = "expired"]
    /\ UNCHANGED <<sessionVars, streamVars, sender, cur, wire, recvVars,
                   kaVars, histVars>>

\* Mutated form of Sendable: nobody looks at state_.
SendableAlways(s) == TRUE

\* The states in which send() queues its task and the task goes on to write.
Sendable(s) == s \in OpenStates

\* MultiplexingStream::send() up to the wait for send_done_notify_.
SendData(p, id, len) ==
    /\ p \in Writers
    /\ id \in streams[p]
    /\ Sendable(state[p][id])
    /\ pushed[p][id] < MaxSends
    /\ pushed' = [pushed EXCEPT ![p][id] = @ + 1]
    /\ Push(p, Task("data", id, len, 0))
    /\ UNCHANGED <<sessionVars, streamVars, sender, cur, wire, recvVars,
                   kaVars, sent, got>>

\* MultiplexingStream::close() of an open stream: it becomes LocalClose, keeps
\* state_lock_ and waits for its FIN task.
CloseStream(p, id) ==
    /\ p \in StreamClosers
    /\ id \in streams[p]
    /\ state[p][id] \in OpenStates
    /\ state' = [state EXCEPT ![p][id] = "LocalClose"]
    /\ Push(p, Task("fin", id, 0, 0))
    /\ UNCHANGED <<sessionVars, opens, next_stream_id, streams, recv_window,
                   erasing, sender, cur, wire, recvVars, kaVars, histVars>>

\* MultiplexingStream::close() once the peer's FIN was seen, as a handler does
\* when recv() returns 0: nothing is sent.
CloseHalfClosed(p, id) ==
    /\ id \in streams[p]
    /\ state[p][id] = "RemoteClose"
    /\ state' = [state EXCEPT ![p][id] = "Closed"]
    /\ erasing' = [erasing EXCEPT ![p] = @ \cup {id}]
    /\ UNCHANGED <<sessionVars, opens, next_stream_id, streams, recv_window,
                   sendVars, wire, recvVars, kaVars, histVars>>

\* close_stream(), the last step of MultiplexingStream::close().
EraseStream(p, id) ==
    /\ id \in erasing[p]
    /\ ~MutexHeld(p)
    /\ erasing' = [erasing EXCEPT ![p] = @ \ {id}]
    /\ streams' = [streams EXCEPT ![p] = @ \ {id}]
    /\ UNCHANGED <<sessionVars, opens, next_stream_id, state, recv_window,
                   sendVars, wire, recvVars, kaVars, histVars>>

\* The owner of the session calls close().
CloseSession(p) ==
    /\ p \in SessionClosers
    /\ ~shut_down[p]
    /\ Shut(p, "user")
    /\ UNCHANGED <<local_goaway, remote_goaway, streamVars, sendVars, wire,
                   recvVars, kaVars, histVars>>

-----------------------------------------------------------------------------
(* The send fiber.  A task that fails ends send_loop: wg_.done(), close(). *)

Popped(p) == send_chan' = [send_chan EXCEPT ![p] = Tail(@)]

\* Mutated form of NextTask: a task starts while a payload is still due.
NextTaskEager(p, kinds) ==
    /\ sender[p] \in {"pop", "body"}
    /\ send_chan[p] # <<>>
    /\ Head(send_chan[p]).kind \in kinds

NextTask(p, kinds) ==
    /\ sender[p] = "pop"
    /\ send_chan[p] # <<>>
    /\ Head(send_chan[p]).kind \in kinds

\* A write by p can fail once p's socket is closed or the peer's is gone; it
\* must fail in the first case.  send_message() fails first if shut_down_.
WriteMayFail(p) == shut_down[p] \/ Down(Other(p))
WriteMayWork(p) == ~shut_down[p]

SenderExits(p) ==
    /\ sender' = [sender EXCEPT ![p] = "exit"]
    /\ Shut(p, "task")

\* send_chan_.pop() returned the nullptr that close() pushed.
SenderStop(p) ==
    /\ NextTask(p, {"null"})
    /\ Popped(p)
    /\ sender' = [sender EXCEPT ![p] = "exit"]
    /\ UNCHANGED <<sessionVars, streamVars, cur, wire, recvVars, kaVars, histVars>>

\* The open task that may not go on: expired caller, closed session, goaway.
RunOpenRefused(p) ==
    /\ NextTask(p, {"open", "expired"})
    /\ \/ Head(send_chan[p]).kind = "expired"
       \/ shut_down[p]
       \/ remote_goaway[p]
    /\ Popped(p)
    /\ SenderExits(p)
    /\ UNCHANGED <<local_goaway, remote_goaway, streamVars, cur, wire,
                   recvVars, kaVars, histVars>>

NewId(p) == next_stream_id[p] + IdStep

\* Mutated form of AfterSendFlags: the opener does not wait for an ACK.
AfterSendFlagsEager(s) == "Established"

\* The state in which send_flags() leaves a stream whose first frame it flags.
AfterSendFlags(s) == IF s = "Init" THEN "SYNSent" ELSE "Established"

\* The open task: take an id and write the SYN.
RunOpen(p) ==
    /\ NextTask(p, {"open"})
    /\ ~remote_goaway[p]
    /\ WriteMayWork(p)
    /\ Popped(p)
    /\ next_stream_id' = [next_stream_id EXCEPT ![p] = NewId(p)]
    /\ state' = [state EXCEPT ![p][NewId(p)] = AfterSendFlags("Init")]
    /\ Write(p, Frame("wupdate", "SYN", NewId(p), 0, 0))
    /\ cur' = [cur EXCEPT ![p] = Task("open", NewId(p), 0, 0)]
    /\ sender' = [sender EXCEPT ![p] = "emplace"]
    /\ UNCHANGED <<sessionVars, opens, streams, recv_window, erasing, recvVars,
                   kaVars, histVars>>

\* The SYN cannot be written: the unique_ptr destroys the stream, whose
\* destructor calls close(), which waits for a task only this fiber can run.
RunOpenFails(p) ==
    /\ NextTask(p, {"open"})
    /\ ~remote_goaway[p]
    /\ ~shut_down[p]
    /\ Down(Other(p))
    /\ next_stream_id' = [next_stream_id EXCEPT ![p] = NewId(p)]
    /\ state' = [state EXCEPT ![p][NewId(p)] = "LocalClose"]
    /\ send_chan' = [send_chan EXCEPT ![p] =
                        Append(Tail(@), Task("fin", NewId(p), 0, 0))]
    /\ sender' = [sender EXCEPT ![p] = "stuck"]
    /\ UNCHANGED <<sessionVars, opens, streams, recv_window, erasing, cur, wire,
                   recvVars, kaVars, histVars>>

\* The rest of the open task: the stream enters mux_streams_.streams.
OpenEmplace(p) ==
    /\ sender[p] = "emplace"
    /\ ~MutexHeld(p)
    /\ streams' = [streams EXCEPT ![p] = @ \cup {cur[p].id}]
    /\ sender' = [sender EXCEPT ![p] = "pop"]
    /\ UNCHANGED <<sessionVars, opens, next_stream_id, state, recv_window,
                   erasing, send_chan, cur, wire, recvVars, kaVars, histVars>>

\* The data task of a stream that was closed meanwhile returns 1.
RunDataDropped(p) ==
    /\ NextTask(p, {"data"})
    /\ ~Sendable(state[p][Head(send_chan[p]).id])
    /\ Popped(p)
    /\ UNCHANGED <<sessionVars, streamVars, sender, cur, wire, recvVars,
                   kaVars, histVars>>

\* The data task writes its header; the payload is a second write.
RunData(p) ==
    /\ NextTask(p, {"data"})
    /\ LET t == Head(send_chan[p])
           n == sent[p][t.id] + 1
       IN  /\ Sendable(state[p][t.id])
           /\ WriteMayWork(p)
           /\ Popped(p)
           /\ Write(p, Frame("data", "none", t.id, t.len, n))
           /\ cur' = [cur EXCEPT ![p] = [t EXCEPT !.n = n]]
           /\ sent' = [sent EXCEPT ![p][t.id] = n]
           /\ sender' = [sender EXCEPT ![p] = "body"]
    /\ UNCHANGED <<sessionVars, streamVars, recvVars, kaVars, pushed, got>>

\* The second write of send_message(); shut_down_ is not looked at again.
SendBody(p) ==
    /\ sender[p] = "body"
    /\ ~Down(p)
    /\ Write(p, Frame("body", "none", cur[p].id, cur[p].len, cur[p].n))
    /\ sender' = [sender EXCEPT ![p] = "pop"]
    /\ UNCHANGED <<sessionVars, streamVars, send_chan, cur, recvVars, kaVars,
                   histVars>>

SendBodyFails(p) ==
    /\ sender[p] = "body"
    /\ Down(p) \/ Down(Other(p))
    /\ SenderExits(p)
    /\ UNCHANGED <<local_goaway, remote_goaway, streamVars, send_chan, cur,
                   wire, recvVars, kaVars, histVars>>

\* What a task does besides writing.  FIN: written or not, chan.push() lets
\* the stream's close() go on: StreamClosed, state_lock_ released, the erase
\* still to come.  GoAway: go_away() sets local_goaway_.
TaskEffects(p, t) ==
    /\ IF t.kind = "fin"
       THEN /\ state' = [state EXCEPT ![p][t.id] = "Closed"]
            /\ erasing' = [erasing EXCEPT ![p] = @ \cup {t.id}]
       ELSE UNCHANGED <<state, erasing>>
    /\ local_goaway' = [local_goaway EXCEPT ![p] = @ \/ t.kind = "goaway"]

\* The frame a control task writes.  The pong task holds recv_loop's hdr by
\* reference and reads its length only now.
ControlFrame(p, t) ==
    CASE t.kind = "fin"    -> Frame("wupdate", "FIN", t.id, 0, 0)
      [] t.kind = "ping"   -> Frame("ping", "SYN", 0, t.len, t.len)
      [] t.kind = "pong"   -> Frame("ping", "ACK", 0, hdr[p].len, t.n)
      [] t.kind = "goaway" -> Frame("goaway", "none", 0, 1, 0)
      [] OTHER             -> Frame("wupdate", "RST", t.id, 0, 0)

RunControl(p) ==
    /\ NextTask(p, ControlKinds)
    /\ WriteMayWork(p)
    /\ Popped(p)
    /\ TaskEffects(p, Head(send_chan[p]))
    /\ Write(p, ControlFrame(p, Head(send_chan[p])))
    /\ UNCHANGED <<shut_down, closer, why, remote_goaway, opens, next_stream_id,
                   streams, recv_window, sender, cur, recvVars, kaVars, histVars>>

\* send_message() fails in a task.
RunFails(p) ==
    /\ NextTask(p, ControlKinds \cup {"data"})
    /\ LET t == Head(send_chan[p])
       IN  /\ t.kind = "data" => Sendable(state[p][t.id])
           /\ TaskEffects(p, t)
    /\ WriteMayFail(p)
    /\ Popped(p)
    /\ SenderExits(p)
    /\ UNCHANGED <<remote_goaway, opens, next_stream_id, streams, recv_window,
                   cur, wire, recvVars, kaVars, histVars>>

-----------------------------------------------------------------------------
(* The recv fiber.                                                         *)

\* recv_loop returned -1: wg_.done(), close().
RecvExits(p, cause) ==
    /\ recv' = [recv EXCEPT ![p] = "exit"]
    /\ Shut(p, cause)

Incoming(p) == Head(wire[Other(p)])
Consume(p) == wire' = [wire EXCEPT ![Other(p)] = Tail(@)]

\* handle_ping(): a ping queues a pong, a pong wakes the ping() it answers.
Ponged(p, f) == f.type = "ping" /\ f.flag = "SYN"
Answered(p, f) == f.type = "ping" /\ f.flag # "SYN" /\ f.len = ping_id[p] - 1

\* handle_go_away(): only goAwayNormal (0) leaves the session alive.
GoAwayError(f) == f.type = "goaway" /\ f.len # 0

\* recv_loop: decode a header, stop if the session was closed meanwhile, and
\* dispatch; a frame of a stream goes on in handle_stream_message().
RecvHeader(p) ==
    /\ recv[p] = "head"
    /\ ~Down(p)
    /\ wire[Other(p)] # <<>>
    /\ LET f == Incoming(p)
           live == ~shut_down[p]
       IN  /\ Consume(p)
           /\ hdr' = [hdr EXCEPT ![p] = f]
           /\ recv' = [recv EXCEPT ![p] =
                          IF shut_down[p] \/ GoAwayError(f) THEN "exit"
                          ELSE IF f.type \in {"ping", "goaway"} THEN "head"
                          ELSE "handle"]
           /\ send_chan' = [send_chan EXCEPT ![p] =
                               IF live /\ Ponged(p, f)
                               THEN Append(@, Task("pong", 0, 0, f.len)) ELSE @]
           /\ ka' = [ka EXCEPT ![p] =
                        IF live /\ Answered(p, f) /\ @ = "ping" THEN "idle" ELSE @]
           /\ remote_goaway' = [remote_goaway EXCEPT ![p] =
                                   @ \/ (live /\ f.type = "goaway" /\ f.len = 0)]
           /\ IF GoAwayError(f) THEN Shut(p, "goaway")
                                ELSE UNCHANGED <<shut_down, closer, why>>
    /\ UNCHANGED <<local_goaway, streamVars, sender, cur, ping_id, histVars>>

\* incoming_stream() up to its ACK, which this fiber writes itself.
HandlesSyn(p) == recv[p] = "handle" /\ hdr[p].flag = "SYN" /\ ~MutexHeld(p)
FoundSameId(p) == hdr[p].id \in streams[p]

RecvIncoming(p) ==
    /\ HandlesSyn(p)
    /\ ~local_goaway[p] /\ ~FoundSameId(p)
    /\ WriteMayWork(p)
    /\ state' = [state EXCEPT ![p][hdr[p].id] = AfterSendFlags("SYNReceived")]
    /\ Write(p, Frame("wupdate", "ACK", hdr[p].id, 0, 0))
    /\ recv' = [recv EXCEPT ![p] = "accept"]
    /\ UNCHANGED <<sessionVars, opens, next_stream_id, streams, recv_window,
                   erasing, sendVars, hdr, kaVars, histVars>>

\* incoming_stream() refuses: RST after a local goaway, GoAway for an id in
\* use, or its own ACK cannot be written.
RecvRefused(p) ==
    /\ HandlesSyn(p)
    /\ local_goaway[p] \/ FoundSameId(p) \/ WriteMayFail(p)
    /\ send_chan' = [send_chan EXCEPT ![p] =
                        IF local_goaway[p] THEN Append(@, Task("rst", hdr[p].id, 0, 0))
                        ELSE IF FoundSameId(p) THEN Append(@, Task("goaway", 0, 1, 0))
                        ELSE @]
    /\ IF local_goaway[p]
       THEN /\ recv' = [recv EXCEPT ![p] = "head"]
            /\ UNCHANGED <<shut_down, closer, why>>
       ELSE RecvExits(p, IF FoundSameId(p) THEN "syn" ELSE "io")
    /\ UNCHANGED <<local_goaway, remote_goaway, streamVars, sender, cur, wire,
                   hdr, kaVars, histVars>>

\* Mutated form of RecvAccept: the stream is not put in the map.
RecvAcceptUnmapped(p) ==
    /\ recv[p] = "accept"
    /\ recv' = [recv EXCEPT ![p] = "head"]
    /\ UNCHANGED <<sessionVars, streamVars, sendVars, wire, hdr, kaVars, histVars>>

\* The rest of incoming_stream(): emplace, accept_chn_.push().
RecvAccept(p) ==
    /\ recv[p] = "accept"
    /\ ~MutexHeld(p)
    /\ streams' = [streams EXCEPT ![p] = @ \cup {hdr[p].id}]
    /\ recv' = [recv EXCEPT ![p] = "head"]
    /\ UNCHANGED <<sessionVars, opens, next_stream_id, state, recv_window,
                   erasing, sendVars, wire, hdr, kaVars, histVars>>

\* handle_stream_message() takes the mutex and keeps it to its end.
RecvLock(p) ==
    /\ recv[p] = "handle"
    /\ hdr[p].flag # "SYN"
    /\ ~MutexHeld(p)
    /\ recv' = [recv EXCEPT ![p] = "locked"]
    /\ UNCHANGED <<sessionVars, streamVars, sendVars, wire, hdr, kaVars, histVars>>

\* Mutated form of NextState: an ACK is taken in every state.
NextStateAnyAck(s, flag) ==
    CASE flag = "ACK"                       -> "Established"
      [] flag = "FIN" /\ s \in OpenStates   -> "RemoteClose"
      [] flag = "RST"                       -> "Reset"
      [] OTHER                              -> s

\* process_flags(): the new state, and the FIN it does not expect.
NextState(s, flag) ==
    CASE flag = "ACK" /\ s = "SYNSent"      -> "Established"
      [] flag = "FIN" /\ s \in OpenStates   -> "RemoteClose"
      [] flag = "RST"                       -> "Reset"
      [] OTHER                              -> s
FlagError(s, flag) == flag = "FIN" /\ s \notin OpenStates \cup {"LocalClose"}

AfterHeader(f) == IF f.type = "data" THEN "body" ELSE "head"
Mapped(p) == hdr[p].id \in streams[p]

\* A frame of a stream that is not in the map: its payload is read and lost.
RecvUnmapped(p) ==
    /\ recv[p] = "locked"
    /\ ~Mapped(p)
    /\ recv' = [recv EXCEPT ![p] = AfterHeader(hdr[p])]
    /\ UNCHANGED <<sessionVars, streamVars, sendVars, wire, hdr, kaVars, histVars>>

\* process_flags() waits for state_lock_, which a LocalClose stream holds.
StateLocked(p) ==
    /\ recv[p] = "locked"
    /\ Mapped(p)
    /\ state[p][hdr[p].id] # "LocalClose"

\* Mutated forms of ExceedsWindow: no check, and >= for >.
ExceedsWindowNever(p) == FALSE
ExceedsWindowEq(p) == hdr[p].type = "data" /\ hdr[p].len >= recv_window[p][hdr[p].id]

\* read_data(): the payload is longer than the window this end granted.
ExceedsWindow(p) == hdr[p].type = "data" /\ hdr[p].len > recv_window[p][hdr[p].id]

RecvFlags(p) ==
    /\ StateLocked(p)
    /\ ~FlagError(state[p][hdr[p].id], hdr[p].flag)
    /\ ~ExceedsWindow(p)
    /\ state' = [state EXCEPT ![p][hdr[p].id] = NextState(@, hdr[p].flag)]
    /\ recv' = [recv EXCEPT ![p] = AfterHeader(hdr[p])]
    /\ UNCHANGED <<sessionVars, opens, next_stream_id, streams, recv_window,
                   erasing, sendVars, wire, hdr, kaVars, histVars>>

\* increase_send_window() or read_data() failed: a GoAway task is queued and
\* recv_loop ends, which closes the session before that task can run.
RecvProtocolError(p) ==
    /\ StateLocked(p)
    /\ FlagError(state[p][hdr[p].id], hdr[p].flag) \/ ExceedsWindow(p)
    /\ Push(p, Task("goaway", 0, 1, 0))
    /\ RecvExits(p, IF ExceedsWindow(p) THEN "window" ELSE "flags")
    /\ UNCHANGED <<local_goaway, remote_goaway, streamVars, sender, cur, wire,
                   hdr, kaVars, histVars>>

\* read_body(): the payload goes to recv_buff_, or is discarded if unmapped.
RecvBody(p) ==
    /\ recv[p] = "body"
    /\ ~Down(p)
    /\ wire[Other(p)] # <<>>
    /\ Incoming(p).type = "body"
    /\ Consume(p)
    /\ recv' = [recv EXCEPT ![p] = "head"]
    /\ IF Mapped(p)
       THEN /\ recv_window' = [recv_window EXCEPT ![p][hdr[p].id] = @ - hdr[p].len]
            /\ got' = [got EXCEPT ![p][hdr[p].id] = @ + 1]
       ELSE UNCHANGED <<recv_window, got>>
    /\ UNCHANGED <<sessionVars, opens, next_stream_id, streams, state, erasing,
                   sendVars, hdr, kaVars, pushed, sent>>

\* Another frame stands where the payload should: its bytes are taken for the
\* payload, what follows does not decode as a header, recv_loop returns -1.
RecvDesync(p) ==
    /\ recv[p] = "body"
    /\ ~Down(p)
    /\ wire[Other(p)] # <<>>
    /\ Incoming(p).type # "body"
    /\ RecvExits(p, "desync")
    /\ UNCHANGED <<local_goaway, remote_goaway, streamVars, sendVars, wire,
                   hdr, kaVars, histVars>>

\* The next header cannot be read: the socket was closed here or there.
RecvEof(p) ==
    /\ recv[p] = "head"
    /\ \/ Down(p)
       \/ Down(Other(p)) /\ (wire[Other(p)] = <<>> \/ Resets)
    /\ RecvExits(p, "io")
    /\ UNCHANGED <<local_goaway, remote_goaway, streamVars, sendVars, wire,
                   hdr, kaVars, histVars>>

\* End of file inside a payload: read_data() fails (with recv_lock_ kept),
\* the discarding read ignores it.
RecvBodyEof(p) ==
    /\ recv[p] = "body"
    /\ ~Down(p) /\ Down(Other(p)) /\ wire[Other(p)] = <<>>
    /\ IF Mapped(p)
       THEN RecvExits(p, "io") /\ Push(p, Task("goaway", 0, 1, 0))
       ELSE /\ recv' = [recv EXCEPT ![p] = "head"]
            /\ UNCHANGED <<shut_down, closer, why, send_chan>>
    /\ UNCHANGED <<local_goaway, remote_goaway, streamVars, sender, cur, wire,
                   hdr, kaVars, histVars>>

\* A reset inside a payload, or the own socket closed before it: read_body()
\* returns -1, which the uint32_t ret turns into 2^32-1; `ret <= 0' does not
\* see it and assert(ret == length) ends the process.
RecvBodyReset(p) ==
    /\ recv[p] = "body"
    /\ Down(p) \/ (Resets /\ Down(Other(p)))
    /\ recv' = [recv EXCEPT ![p] = IF Mapped(p) THEN "abort" ELSE "head"]
    /\ UNCHANGED <<sessionVars, streamVars, sendVars, wire, hdr, kaVars, histVars>>

-----------------------------------------------------------------------------
(* The keep-alive fiber and close().                                       *)

Ping(p) ==
    /\ ka[p] = "idle"
    /\ ~Down(p)
    /\ ping_id[p] < MaxPings
    /\ ka' = [ka EXCEPT ![p] = "ping"]
    /\ ping_id' = [ping_id EXCEPT ![p] = @ + 1]
    /\ Push(p, Task("ping", 0, ping_id[p], 0))
    /\ UNCHANGED <<sessionVars, streamVars, sender, cur, wire, recvVars, histVars>>

\* No pong within FLAGS_ConnectionWriteTimeout.
PingTimeout(p) ==
    /\ ka[p] = "ping"
    /\ Timeouts \/ shut_down[p]
    /\ ka' = [ka EXCEPT ![p] = "exit"]
    /\ Shut(p, "timeout")
    /\ UNCHANGED <<local_goaway, remote_goaway, streamVars, sendVars, wire,
                   recvVars, ping_id, histVars>>

\* Mutated form of KeepAliveWoken: close() pushes after wg_.wait().
KeepAliveWokenLate(p) == closer[p] = "done"

\* keep_alive_chan_ holds what close() pushed.
KeepAliveWoken(p) == closer[p] \in {"wait", "done"}

KeepAliveStop(p) ==
    /\ ka[p] = "idle"
    /\ KeepAliveWoken(p)
    /\ ka' = [ka EXCEPT ![p] = "exit"]
    /\ UNCHANGED <<sessionVars, streamVars, sendVars, wire, recvVars, ping_id,
                   histVars>>

CloserLock(p) ==
    /\ closer[p] = "lock"
    /\ ~MutexHeld(p)
    /\ closer' = [closer EXCEPT ![p] = "mark"]
    /\ UNCHANGED <<shut_down, why, local_goaway, remote_goaway, streamVars,
                   sendVars, wire, recvVars, kaVars, histVars>>

\* set_close() of one stream; it waits for state_lock_.
CloserMark(p, id) ==
    /\ closer[p] = "mark"
    /\ id \in streams[p]
    /\ state[p][id] \notin {"LocalClose", "Closed"}
    /\ state' = [state EXCEPT ![p][id] = "Closed"]
    /\ UNCHANGED <<sessionVars, opens, next_stream_id, streams, recv_window,
                   erasing, sendVars, wire, recvVars, kaVars, histVars>>

\* Unlock, wake the send fiber, close the socket, wake the keep-alive fiber.
CloserFinish(p) ==
    /\ closer[p] = "mark"
    /\ \A id \in streams[p] : state[p][id] = "Closed"
    /\ closer' = [closer EXCEPT ![p] = "wait"]
    /\ Push(p, NullTask)
    /\ UNCHANGED <<shut_down, why, local_goaway, remote_goaway, streamVars,
                   sender, cur, wire, recvVars, kaVars, histVars>>

\* wg_.wait() returned; accept_stream() gets its nullptr.
CloserDone(p) ==
    /\ closer[p] = "wait"
    /\ sender[p] = "exit" /\ recv[p] = "exit" /\ ka[p] = "exit"
    /\ closer' = [closer EXCEPT ![p] = "done"]
    /\ UNCHANGED <<shut_down, why, local_goaway, remote_goaway, streamVars,
                   sendVars, wire, recvVars, kaVars, histVars>>

-----------------------------------------------------------------------------
Application(p) ==
    \/ OpenStream(p) \/ CloseSession(p) \/ Ping(p)
    \/ OpenTimeout(p)
    \/ \E id \in Ids, len \in Lens : SendData(p, id, len)
    \/ \E id \in Ids : CloseStream(p, id) \/ CloseHalfClosed(p, id)

SendFiber(p) ==
    \/ SenderStop(p) \/ RunOpenRefused(p) \/ RunOpen(p) \/ RunOpenFails(p)
    \/ OpenEmplace(p) \/ RunDataDropped(p) \/ RunData(p) \/ RunFails(p)
    \/ SendBody(p) \/ SendBodyFails(p) \/ RunControl(p)

RecvFiber(p) ==
    \/ RecvHeader(p) \/ RecvIncoming(p) \/ RecvRefused(p) \/ RecvAccept(p)
    \/ RecvLock(p) \/ RecvUnmapped(p) \/ RecvFlags(p) \/ RecvProtocolError(p)
    \/ RecvBody(p) \/ RecvDesync(p) \/ RecvEof(p) \/ RecvBodyEof(p)
    \/ RecvBodyReset(p)

KeepAliveFiber(p) == PingTimeout(p) \/ KeepAliveStop(p)

Closing(p) ==
    \/ CloserLock(p) \/ CloserFinish(p) \/ CloserDone(p)
    \/ \E id \in Ids : CloserMark(p, id) \/ EraseStream(p, id)

\* A process whose assertion failed takes no step.
Step(p) ==
    /\ recv[p] # "abort"
    /\ \/ Application(p) \/ SendFiber(p) \/ RecvFiber(p) \/ KeepAliveFiber(p)
       \/ Closing(p)

Next == \E p \in Peers : Step(p)

Spec == Init /\ [][Next]_vars

\* Every fiber runs again and again: none of them blocks the scheduler.
FairSpec ==
    /\ Spec
    /\ \A p \in Peers :
          /\ WF_vars(recv[p] # "abort" /\ SendFiber(p))
          /\ WF_vars(recv[p] # "abort" /\ RecvFiber(p))
          /\ WF_vars(recv[p] # "abort" /\ KeepAliveFiber(p))
          /\ WF_vars(recv[p] # "abort" /\ Closing(p))
-----------------------------------------------------------------------------
(* Properties.                                                             *)

\* Type correctness, and that recv_window_ (a uint32_t) never goes below 0.
TypeOK ==
    /\ shut_down \in [Peers -> BOOLEAN]
    /\ closer \in [Peers -> {"none", "lock", "mark", "wait", "done"}]
    /\ why \in [Peers -> Causes]
    /\ local_goaway \in [Peers -> BOOLEAN]
    /\ remote_goaway \in [Peers -> BOOLEAN]
    /\ opens \in [Peers -> 0..MaxStreams]
    /\ next_stream_id \in [Peers -> Nat]
    /\ streams \in [Peers -> SUBSET Ids]
    /\ state \in [Peers -> [Ids -> StreamStates]]
    /\ recv_window \in [Peers -> [Ids -> 0..Window]]
    /\ erasing \in [Peers -> SUBSET Ids]
    /\ send_chan \in [Peers -> Seq(Tasks)]
    /\ sender \in [Peers -> {"pop", "emplace", "body", "stuck", "exit"}]
    /\ cur \in [Peers -> Tasks]
    /\ wire \in [Peers -> Seq(Frames)]
    /\ recv \in [Peers -> {"head", "handle", "accept", "locked", "body",
                           "exit", "abort"}]
    /\ hdr \in [Peers -> Frames]
    /\ ka \in [Peers -> {"idle", "ping", "exit"}]
    /\ ping_id \in [Peers -> 0..MaxPings]
    /\ pushed \in [Peers -> [Ids -> Nat]]
    /\ sent \in [Peers -> [Ids -> Nat]]
    /\ got \in [Peers -> [Ids -> Nat]]

\* A SYN on its way never names a stream the receiver already has, whoever
\* opened it: found_same_id in incoming_stream() is never true, although the
\* two endpoints number their streams without talking to each other.
Syn(f) == f.type = "wupdate" /\ f.flag = "SYN"
NoIdCollision ==
    \A p \in Peers : \A i \in 1..Len(wire[p]) :
        Syn(wire[p][i]) => state[Other(p)][wire[p][i].id] = "None"

\* A stream its opener believes Established exists at the acceptor: the ACK
\* was written by incoming_stream() for this very id.
EstablishedAtBothEnds ==
    \A p \in Peers : \A id \in OwnIds(p) :
        state[p][id] = "Established" => state[Other(p)][id] # "None"

\* The peers that never answer a SYN: only their send fiber writes to the
\* socket, so their frames cannot be torn by an ACK of the recv fiber.
SoleWriter(p) == Other(p) \notin Openers

\* The payload the peer of a SoleWriter reads is the one its header announced,
\* and chunks arrive in the order send() queued them, none missing, none twice.
InOrderDelivery ==
    \A p \in Peers :
        /\ SoleWriter(Other(p))
        /\ recv[p] = "body" /\ Mapped(p) /\ wire[Other(p)] # <<>>
        => LET f == Incoming(p)
           IN  /\ f.type = "body" /\ f.id = hdr[p].id /\ f.len = hdr[p].len
               /\ f.n = got[p][f.id] + 1

\* When the acceptor has seen the FIN it has every chunk its peer wrote: a
\* half-close loses no data that was sent before it.
FinAfterAllData ==
    \A p \in Peers : \A id \in OwnIds(Other(p)) :
        /\ SoleWriter(Other(p))
        /\ state[p][id] = "RemoteClose"
        => got[p][id] = sent[Other(p)][id]

\* A stream lives once: no step takes a stream back along
\* None - SYNSent - Established - LocalClose/RemoteClose - Closed, whatever
\* ACK, FIN or session close arrives late.
Rank(s) == CASE s = "None" -> 0
             [] s \in {"SYNSent", "SYNReceived"} -> 1
             [] s = "Established" -> 2
             [] s \in {"LocalClose", "RemoteClose"} -> 3
             [] OTHER -> 4
StreamLivesOnce ==
    [][\A p \in Peers : \A id \in Ids :
          state'[p][id] # state[p][id] => Rank(state'[p][id]) > Rank(state[p][id])]_vars

\* Streams closed from one side only, with room in the window and no timer
\* expiring, never cost the session.
SessionSurvives == \A p \in Peers : ~shut_down[p]

\* Once a session starts to close, close() returns at both endpoints: every
\* fiber leaves its loop and wg_.wait() ends.
CloseCompletes ==
    \A p, q \in Peers : shut_down[p] ~> closer[q] = "done" \/ recv[q] = "abort"

\* Everything a SoleWriter has written is read by its peer, or the session
\* closes.
WrittenIsRead ==
    \A p \in Peers : \A id \in OwnIds(p) :
        SoleWriter(p) =>
            [](\A n \in 1..MaxSends :
                (sent[p][id] >= n) ~> (got[Other(p)][id] >= n \/ shut_down[p]
                                          \/ shut_down[Other(p)]))
=============================================================================
