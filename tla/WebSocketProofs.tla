-------------------------- MODULE WebSocketProofs --------------------------
(***************************************************************************)
(* Proofs about websocket connections (WebSocket).                         *)
(*                                                                         *)
(* What the peer reads is what was given to the sender, in that order: as  *)
(* long as both ends are open, the frames the peer has read, the one that  *)
(* is being sent and the tasks that wait are together what was queued.     *)
(*                                                                         *)
(* What OnMessage is given is what the peer sent: as long as the reader    *)
(* has not lost the frames' boundaries, the cells on their way are the     *)
(* frames after the last one it has read, and the buffer, the opcode and   *)
(* the count of messages follow from that frame's place in the script.     *)
(***************************************************************************)
EXTENDS WebSocket, WsFrameProofs, FiniteSetTheorems

----------------------------------------------------------------------------
(* The inductive invariant *)

Frames == Sends \cup {HeartbeatPing}
TaskOf(f) == [op |-> "frame", f |-> f]
Tasks == {NULL} \cup {TaskOf(f) : f \in Frames}

\* A frame as it is sent, and as the peer should read it.
HeaderOf(f, key) == Header(f.opcode, TRUE, f.len, key)
Coded(f, key) == FrameCells(HeaderOf(f, key), f.data)
Seen(f) == [opcode |-> f.opcode, fin |-> TRUE, len |-> f.len, data |-> f.data]

\* A connection has the fields of one.
Fields == {"live", "open", "sender_chan", "sending", "head", "buffer", "heartbeat_chan", "error_chan", "exited",
           "opcode", "closed", "pings", "dispatched", "refused"}

IsConnection(c) == c = [x \in Fields |-> c[x]]

\* The part of a connection its sender uses.
SenderInv(c) ==
    /\ IsConnection(c)
    /\ c.open \in BOOLEAN /\ c.closed = ~c.open
    /\ c.sender_chan \in Seq(Tasks)
    /\ c.open => \A i \in 1 .. Len(c.sender_chan) : c.sender_chan[i] # NULL

\* What the peer has read.
ReadInv(q, r) ==
    /\ q \in Seq(Frames) /\ r \in Seq({Seen(f) : f \in Frames})
    /\ Len(r) <= Len(q)
    /\ \A i \in 1 .. Len(r) : r[i] = Seen(q[i])

\* The tasks in chan are the frames of q after the first k.
Waiting(chan, q, k) ==
    k + Len(chan) = Len(q) /\ \A i \in 1 .. Len(chan) : chan[i] = TaskOf(q[k + i])

\* What it has still to read after n frames.
Pending(sending, chan, q, n) ==
    IF sending = <<>> THEN Waiting(chan, q, n)
    ELSE Waiting(chan, q, n + 1) /\ \E key \in {Key, NoKey} : sending = Coded(q[n + 1], key)

Inv ==
    /\ SenderInv(conn)
    /\ ReadInv(queued, read)
    /\ conn.open /\ peer = "open" => Pending(conn.sending, conn.sender_chan, queued, Len(read))

----------------------------------------------------------------------------
(* Frames *)

\* A task is not the null that ends the sender, and holds its frame.
LEMMA TaskFacts == \A f : TaskOf(f) # NULL /\ TaskOf(f).f = f /\ \A g : TaskOf(f) = TaskOf(g) => f = g
<1>1. \A f : TaskOf(f).op # NULL.op /\ TaskOf(f).f = f
  BY DEF TaskOf, NULL
<1> QED  BY <1>1

\* A frame of the application or of the heartbeat has a header.
LEMMA FrameFacts ==
    ASSUME NEW f \in Frames, NEW key \in {Key, NoKey}
    PROVE  HeaderOf(f, key) \in Headers /\ (f.len = 0 => f.data = NoData)
<1>1. f.opcode \in 0 .. 15 /\ f.len \in Lengths /\ (f.len = 0 => f.data = NoData)
  <2>1. CASE f \in Sends
    BY <2>1, SendsAssumption
  <2>2. CASE f = HeartbeatPing
    <3>1. 0 \in Lengths
      BY DEF Lengths
    <3> QED  BY <2>2, <3>1 DEF HeartbeatPing, PING
  <2> QED  BY <2>1, <2>2 DEF Frames
<1>2. key \in Keys
  <2>1. Key \in [1 .. 4 -> ByteValues]
    BY DEF Key, ByteValues
  <2> QED  BY <2>1 DEF Keys
<1> QED  BY <1>1, <1>2 DEF HeaderOf, Header, Headers, Opcodes

\* A frame is read as it was queued, masked or not.
LEMMA FrameIsRead ==
    ASSUME NEW f \in Frames, NEW key \in {Key, NoKey}
    PROVE  Coded(f, key) # <<>> /\ Decoded(Coded(f, key)) = Seen(f)
<1> DEFINE h == HeaderOf(f, key)
           cell == PayloadCell(h, f.data)
           rest == IF h.len = 0 THEN <<>> ELSE <<cell>>
           cells == HeaderCells(h) \o rest
<1>1. h \in Headers /\ (f.len = 0 => f.data = NoData)
  BY FrameFacts
<1>2. h.opcode = f.opcode /\ h.fin = TRUE /\ h.len = f.len /\ h.key = key
  BY DEF HeaderOf, Header
<1>3. rest \in Seq({cell})
  <2> HIDE DEF cell, h
  <2>1. <<>> \in Seq({cell}) /\ <<cell>> \in Seq({cell})
    OBVIOUS
  <2> QED  BY <2>1
<1>4. Coded(f, key) = cells
  BY DEF Coded, FrameCells
<1> HIDE DEF h
<1>5. update_head_2bytes(cells) = h /\ AfterHeader(cells) = rest /\ HeaderReady(cells)
  <2> HIDE DEF rest
  <2> QED  BY <1>1, <1>3, HeaderRoundTrip
<1>6. cells # <<>>
  <2>1. Len(cells) >= 2
    BY <1>5 DEF HeaderReady
  <2>2. Len(<<>>) = 0
    OBVIOUS
  <2> HIDE DEF cells
  <2> QED  BY <2>1, <2>2
<1>7. cell.data = f.data /\ cell.masks = IF key = NoKey THEN {} ELSE {key}
  BY <1>2 DEF PayloadCell, Payload
<1>8. Toggle(cell, key).masks = {}
  <2>1. cell = [data |-> cell.data, size |-> cell.size, masks |-> cell.masks]
    BY DEF PayloadCell, Payload
  <2> HIDE DEF cell
  <2>2. Toggle(cell, key).masks =
          IF key = NoKey THEN cell.masks ELSE IF key \in cell.masks THEN cell.masks \ {key} ELSE cell.masks \cup {key}
    BY <2>1 DEF Toggle
  <2> QED  BY <1>7, <2>2
<1> DEFINE data == IF rest = <<>> THEN NoData
                   ELSE IF Toggle(Head(rest), h.key).masks = {} THEN Head(rest).data ELSE "masked"
<1>9. Decoded(cells) = [opcode |-> h.opcode, fin |-> h.fin, len |-> h.len, data |-> data]
  <2> HIDE DEF cells, rest
  <2> QED  BY <1>5 DEF Decoded
<1>10. data = f.data
  <2>1. CASE h.len = 0
    BY <1>1, <1>2, <2>1
  <2>2. CASE h.len # 0
    <3>1. rest = <<cell>> /\ rest # <<>> /\ Head(rest) = cell
      <4> HIDE DEF cell
      <4> QED  BY <2>2
    <3> HIDE DEF rest, cell
    <3> QED  BY <1>2, <1>7, <1>8, <3>1
  <2> QED  BY <2>1, <2>2
<1> HIDE DEF data, cells
<1> QED  BY <1>2, <1>4, <1>6, <1>9, <1>10 DEF Seen

----------------------------------------------------------------------------
(* The steps *)

\* The sender's part of a connection after close_wc_connection().
LEMMA ExitFacts ==
    ASSUME NEW c, SenderInv(c), NEW fiber
    PROVE  SenderInv(Exit(c, fiber)) /\ ~Exit(c, fiber).open
<1> DEFINE b == [c EXCEPT !.live = c.live \ {fiber}]
           e == [b EXCEPT !.closed = TRUE, !.open = FALSE, !.sender_chan = Append(b.sender_chan, NULL),
                          !.heartbeat_chan = b.heartbeat_chan + 1, !.error_chan = b.error_chan + 1]
<1>1. IsConnection(c) /\ c.open \in BOOLEAN /\ c.closed = ~c.open /\ c.sender_chan \in Seq(Tasks)
  BY DEF SenderInv
<1>2. Exit(c, fiber) = IF b.closed THEN b ELSE e
  BY DEF Exit, close_wc_connection
<1>3. IsConnection(b) /\ b.open = c.open /\ b.closed = c.closed /\ b.sender_chan = c.sender_chan
  BY <1>1 DEF IsConnection, Fields
<1> HIDE DEF b
<1>4. IsConnection(e) /\ e.open = FALSE /\ e.closed = TRUE /\ e.sender_chan = Append(b.sender_chan, NULL)
  BY <1>3 DEF IsConnection, Fields
<1> HIDE DEF e
<1>5. Append(b.sender_chan, NULL) \in Seq(Tasks)
  BY <1>1, <1>3, AppendProperties DEF Tasks
<1>6. CASE c.open
  BY <1>1, <1>2, <1>3, <1>4, <1>5, <1>6 DEF SenderInv
<1>7. CASE ~c.open
  BY <1>1, <1>2, <1>3, <1>7 DEF SenderInv
<1> QED  BY <1>6, <1>7

\* The connection c2 has the sender's part of c.
Same(c, c2) ==
    IsConnection(c2) /\ c2.open = c.open /\ c2.closed = c.closed /\ c2.sender_chan = c.sender_chan /\ c2.sending = c.sending

\* A step that leaves what is sent alone, or closes the connection.
LEMMA QuietStep ==
    ASSUME Inv, SenderInv(conn'), ~conn'.open \/ Same(conn, conn'), peer' = peer \/ peer' = "closed",
           UNCHANGED <<queued, read>>
    PROVE  Inv'
<1>1. ReadInv(queued, read)'
  BY DEF Inv
<1>2. ASSUME conn'.open, peer' = "open"
      PROVE  Pending(conn'.sending, conn'.sender_chan, queued', Len(read'))
  <2>1. Same(conn, conn') /\ peer = "open"
    BY <1>2
  <2> QED  BY <1>2, <2>1 DEF Inv, Same
<1> QED  BY <1>1, <1>2 DEF Inv

\* The same part has the same properties.
LEMMA SameInv ==
    ASSUME NEW c, SenderInv(c), NEW c2, Same(c, c2)
    PROVE  SenderInv(c2)
  BY DEF SenderInv, Same

\* The connection goes on, or a fiber ends.
LEMMA SameOrExit ==
    ASSUME Inv, NEW c, Same(conn, c), NEW fiber, conn' = c \/ conn' = Exit(c, fiber),
           peer' = peer \/ peer' = "closed", UNCHANGED <<queued, read>>
    PROVE  Inv'
<1>1. SenderInv(c)
  BY SameInv DEF Inv
<1>2. CASE conn' = c
  BY <1>1, <1>2, QuietStep
<1>3. CASE conn' = Exit(c, fiber)
  <2>1. SenderInv(conn') /\ ~conn'.open
    BY <1>1, <1>3, ExitFacts
  <2> QED  BY <2>1, QuietStep
<1> QED  BY <1>2, <1>3

\* A frame and its task are added to what waits.
LEMMA WaitingTask ==
    ASSUME NEW chan \in Seq(Tasks), NEW q \in Seq(Frames), NEW f \in Frames, NEW k \in Nat, Waiting(chan, q, k)
    PROVE  Waiting(Append(chan, TaskOf(f)), Append(q, f), k)
<1> DEFINE more == Append(chan, TaskOf(f))
           qq == Append(q, f)
           t == TaskOf(f)
<1>0. t \in Tasks
  BY DEF Tasks
<1>1. Len(chan) \in Nat /\ Len(q) \in Nat /\ k + Len(chan) = Len(q)
  BY LenProperties DEF Waiting
<1> HIDE DEF t
<1>2. more = Append(chan, t)
  BY DEF t
<1> HIDE DEF more
<1>3. Len(more) = Len(chan) + 1 /\ more[Len(chan) + 1] = t /\ \A i \in 1 .. Len(chan) : more[i] = chan[i]
  BY <1>0, <1>2, AppendProperties
<1>4. Len(qq) = Len(q) + 1 /\ qq[Len(q) + 1] = f /\ \A i \in 1 .. Len(q) : qq[i] = q[i]
  BY AppendProperties
<1> HIDE DEF qq
<1>5. k + Len(more) = Len(qq)
  BY <1>1, <1>3, <1>4
<1>6. ASSUME NEW i \in 1 .. Len(chan)
      PROVE  more[i] = TaskOf(qq[k + i])
  <2>1. k + i \in 1 .. Len(q)
    BY <1>1
  <2>2. chan[i] = TaskOf(q[k + i])
    BY DEF Waiting
  <2> QED  BY <1>3, <1>4, <2>1, <2>2
<1>7. more[Len(chan) + 1] = TaskOf(qq[k + (Len(chan) + 1)])
  <2>1. k + (Len(chan) + 1) = Len(q) + 1
    BY <1>1
  <2> QED  BY <1>3, <1>4, <2>1 DEF t
<1>8. \A i \in 1 .. Len(more) : i \in 1 .. Len(chan) \/ i = Len(chan) + 1
  BY <1>1, <1>3
<1>9. \A i \in 1 .. Len(more) : more[i] = TaskOf(qq[k + i])
  BY <1>6, <1>7, <1>8
<1> QED  BY <1>5, <1>9 DEF Waiting, more, qq

\* The application and the heartbeat add a task.
LEMMA TaskStep ==
    ASSUME Inv, NEW c, Same(conn, c), NEW f \in Frames, conn' = addTask(c, f), queued' = Append(queued, f),
           UNCHANGED <<peer, read>>
    PROVE  Inv'
<1> DEFINE chan == conn.sender_chan
           more == conn'.sender_chan
<1>1. SenderInv(conn) /\ ReadInv(queued, read)
  BY DEF Inv
<1>2. chan \in Seq(Tasks) /\ queued \in Seq(Frames) /\ read \in Seq({Seen(g) : g \in Frames})
  BY <1>1 DEF SenderInv, ReadInv
<1>3. Len(chan) \in Nat /\ Len(queued) \in Nat /\ Len(read) \in Nat
  BY <1>2, LenProperties
<1>4. /\ IsConnection(conn') /\ conn'.open = conn.open /\ conn'.closed = conn.closed
      /\ more = Append(chan, TaskOf(f)) /\ conn'.sending = conn.sending
  BY DEF Same, addTask, IsConnection, Fields, TaskOf
<1> HIDE DEF chan, more
<1>5. /\ more \in Seq(Tasks) /\ Len(more) = Len(chan) + 1 /\ more[Len(chan) + 1] = TaskOf(f)
      /\ \A i \in 1 .. Len(chan) : more[i] = chan[i]
  <2>1. TaskOf(f) \in Tasks
    BY DEF Tasks
  <2> QED  BY <1>2, <1>4, <2>1, AppendProperties
<1>6. /\ queued' \in Seq(Frames) /\ Len(queued') = Len(queued) + 1 /\ queued'[Len(queued) + 1] = f
      /\ \A i \in 1 .. Len(queued) : queued'[i] = queued[i]
  BY <1>2, AppendProperties
<1>7. \A i \in 1 .. Len(more) : i \in 1 .. Len(chan) \/ i = Len(chan) + 1
  BY <1>3, <1>5
<1>8. SenderInv(conn')
  <2>1. conn'.open => \A i \in 1 .. Len(more) : more[i] # NULL
    <3>1. conn.open => \A i \in 1 .. Len(chan) : chan[i] # NULL
      BY <1>1 DEF SenderInv, chan
    <3> QED  BY <1>4, <1>5, <1>7, <3>1, TaskFacts
  <2> QED  BY <1>1, <1>4, <1>5, <2>1 DEF SenderInv, more
<1>9. ReadInv(queued', read')
  <2>1. Len(read) <= Len(queued) /\ \A i \in 1 .. Len(read) : read[i] = Seen(queued[i])
    BY <1>1 DEF ReadInv
  <2>2. \A i \in 1 .. Len(read) : queued'[i] = queued[i]
    BY <1>3, <1>6, <2>1
  <2>3. Len(read) <= Len(queued')
    BY <1>3, <1>6, <2>1
  <2> QED  BY <1>2, <1>6, <2>1, <2>2, <2>3 DEF ReadInv
<1>10. ASSUME conn.open, peer = "open"
       PROVE  Pending(conn.sending, more, queued', Len(read))
  <2> DEFINE n == Len(read)
  <2>1. Pending(conn.sending, chan, queued, n)
    BY <1>10 DEF Inv, chan
  <2> HIDE DEF n
  <2>2. n \in Nat
    BY <1>3 DEF n
  <2>3. ASSUME NEW k \in Nat, Waiting(chan, queued, k)
        PROVE  Waiting(more, queued', k)
    BY <1>2, <1>4, <2>3, WaitingTask
  <2>4. CASE conn.sending = <<>>
    BY <2>1, <2>2, <2>3, <2>4 DEF Pending, n
  <2>5. CASE conn.sending # <<>>
    <3>1. Waiting(chan, queued, n + 1) /\ \E key \in {Key, NoKey} : conn.sending = Coded(queued[n + 1], key)
      BY <2>1, <2>5 DEF Pending
    <3>2. n + 1 \in Nat
      BY <2>2
    <3>3. Waiting(more, queued', n + 1)
      BY <2>3, <3>1, <3>2
    <3>4. queued'[n + 1] = queued[n + 1]
      <4>1. n + 1 + Len(chan) = Len(queued)
        BY <3>1 DEF Waiting
      <4>2. n + 1 \in 1 .. Len(queued)
        BY <1>3, <2>2, <4>1
      <4> QED  BY <1>6, <4>2
    <3> QED  BY <2>5, <3>1, <3>3, <3>4 DEF Pending, n
  <2> QED  BY <2>4, <2>5 DEF n
<1> QED  BY <1>4, <1>8, <1>9, <1>10 DEF Inv, more

\* The sender takes a task: it ends, drops it, or begins to send its frame.
LEMMA SendHeaderKeeps ==
    ASSUME Inv, SendHeader
    PROVE  Inv'
<1> DEFINE chan == conn.sender_chan
           less == Tail(chan)
           task == Head(chan)
           c == [conn EXCEPT !.sender_chan = less]
           key == IF Masked(task.f) THEN Key ELSE NoKey
           d == [c EXCEPT !.sending = Coded(task.f, key)]
<1>1. SenderInv(conn) /\ ReadInv(queued, read) /\ chan \in Seq(Tasks)
  BY DEF Inv, SenderInv
<1>2. conn.sending = <<>> /\ chan # <<>> /\ UNCHANGED <<peer, queued, read>>
  BY DEF SendHeader, remote
<1>3. conn' = IF task = NULL THEN Exit(c, "sender") ELSE IF ~c.open THEN c ELSE d
  BY DEF SendHeader, Coded, HeaderOf
<1>4. /\ IsConnection(c) /\ c.open = conn.open /\ c.closed = conn.closed
      /\ c.sender_chan = less /\ c.sending = conn.sending
  <2> HIDE DEF less
  <2> QED  BY <1>1 DEF SenderInv, IsConnection, Fields
<1>5. IsConnection(d) /\ d.open = c.open /\ d.closed = c.closed /\ d.sender_chan = c.sender_chan /\ d.sending = Coded(task.f, key)
  <2> HIDE DEF c, key, task
  <2> QED  BY <1>4 DEF IsConnection, Fields
<1> HIDE DEF c, d
<1>6. /\ less \in Seq(Tasks) /\ Len(less) = Len(chan) - 1 /\ task = chan[1] /\ Len(chan) \in Nat /\ Len(chan) >= 1
      /\ \A i \in 1 .. Len(chan) - 1 : less[i] = chan[i + 1]
  <2> HIDE DEF chan
  <2> QED  BY <1>1, <1>2
<1> HIDE DEF less, task, key
<1>7. conn.open => \A i \in 1 .. Len(chan) : chan[i] # NULL
  BY <1>1 DEF SenderInv
<1>8. conn.open \in BOOLEAN /\ conn.closed = ~conn.open
  BY <1>1 DEF SenderInv
<1> HIDE DEF chan
<1>9. conn.open => task # NULL /\ \A i \in 1 .. Len(less) : less[i] # NULL
  BY <1>6, <1>7
<1>10. SenderInv(c) /\ SenderInv(d)
  BY <1>4, <1>5, <1>6, <1>8, <1>9 DEF SenderInv
<1>11. CASE ~conn.open
  <2>1. conn' = Exit(c, "sender") \/ conn' = c
    BY <1>3, <1>4, <1>11
  <2>2. SenderInv(conn') /\ ~conn'.open
    BY <1>4, <1>10, <1>11, <2>1, ExitFacts
  <2> QED  BY <1>2, <2>2, QuietStep
<1>12. CASE conn.open
  <2>1. conn' = d
    BY <1>3, <1>4, <1>9, <1>12
  <2>2. ASSUME peer = "open"
        PROVE  Pending(d.sending, d.sender_chan, queued, Len(read))
    <3> DEFINE n == Len(read)
    <3>1. n + Len(chan) = Len(queued) /\ \A i \in 1 .. Len(chan) : chan[i] = TaskOf(queued[n + i])
      BY <1>2, <1>12, <2>2 DEF Inv, Pending, Waiting, chan
    <3>2. n \in Nat /\ Len(queued) \in Nat /\ queued \in Seq(Frames)
      BY <1>1, LenProperties DEF ReadInv
    <3> HIDE DEF n
    <3>3. task = TaskOf(queued[n + 1]) /\ queued[n + 1] \in Frames
      <4>1. 1 \in 1 .. Len(chan)
        BY <1>6
      <4>2. n + 1 \in 1 .. Len(queued)
        BY <1>6, <3>1, <3>2
      <4>3. queued[n + 1] \in Frames
        BY <3>2, <4>2, ElementOfSeq
      <4> QED  BY <1>6, <3>1, <4>1, <4>3
    <3>4. task.f = queued[n + 1] /\ key \in {Key, NoKey}
      BY <3>3, TaskFacts DEF key
    <3>5. d.sending = Coded(queued[n + 1], key) /\ d.sending # <<>>
      BY <1>5, <3>3, <3>4, FrameIsRead
    <3>6. n + 1 + Len(less) = Len(queued)
      BY <1>6, <3>1, <3>2
    <3>7. ASSUME NEW i \in 1 .. Len(less)
          PROVE  less[i] = TaskOf(queued[n + 1 + i])
      <4>1. i \in 1 .. Len(chan) - 1 /\ i + 1 \in 1 .. Len(chan) /\ n + (i + 1) = n + 1 + i
        BY <1>6, <3>2
      <4> QED  BY <1>6, <3>1, <4>1
    <3> QED  BY <1>4, <1>5, <3>4, <3>5, <3>6, <3>7 DEF Pending, Waiting, n
  <2> QED  BY <1>1, <1>2, <1>10, <2>1, <2>2 DEF Inv
<1> QED  BY <1>8, <1>11, <1>12

\* The rest of a frame is sent, and the peer reads it.
LEMMA SendPayloadKeeps ==
    ASSUME Inv, SendPayload
    PROVE  Inv'
<1> DEFINE c == [conn EXCEPT !.sending = <<>>]
           chan == conn.sender_chan
           n == Len(read)
<1>1. SenderInv(conn) /\ ReadInv(queued, read)
  BY DEF Inv
<1>2. /\ conn.sending # <<>> /\ conn' = c /\ UNCHANGED <<peer, queued>>
      /\ read' = IF conn.open /\ peer = "open" THEN Append(read, Decoded(conn.sending)) ELSE read
  BY DEF SendPayload, remote
<1>3. /\ IsConnection(c) /\ c.open = conn.open /\ c.closed = conn.closed /\ c.sender_chan = chan /\ c.sending = <<>>
  BY <1>1 DEF SenderInv, IsConnection, Fields
<1> HIDE DEF c
<1>4. SenderInv(c)
  BY <1>1, <1>3 DEF SenderInv
<1>5. /\ queued \in Seq(Frames) /\ read \in Seq({Seen(f) : f \in Frames}) /\ n <= Len(queued)
      /\ \A i \in 1 .. n : read[i] = Seen(queued[i])
  BY <1>1 DEF ReadInv
<1>6. n \in Nat /\ Len(queued) \in Nat
  BY <1>5, LenProperties
<1>7. CASE conn.open /\ peer = "open"
  <2>1. /\ n + 1 + Len(chan) = Len(queued) /\ \A i \in 1 .. Len(chan) : chan[i] = TaskOf(queued[n + 1 + i])
        /\ \E key \in {Key, NoKey} : conn.sending = Coded(queued[n + 1], key)
    BY <1>2, <1>7 DEF Inv, Pending, Waiting
  <2>2. PICK key \in {Key, NoKey} : conn.sending = Coded(queued[n + 1], key)
    BY <2>1
  <2>3. Len(chan) \in Nat
    BY <1>1, LenProperties DEF SenderInv
  <2> HIDE DEF n, chan
  <2>4. n + 1 \in 1 .. Len(queued)
    BY <1>6, <2>1, <2>3
  <2>5. queued[n + 1] \in Frames
    BY <1>5, <2>4, ElementOfSeq
  <2>6. Decoded(conn.sending) = Seen(queued[n + 1])
    BY <2>2, <2>5, FrameIsRead
  <2>7. read' = Append(read, Seen(queued[n + 1]))
    BY <1>2, <1>7, <2>6
  <2>8. /\ read' \in Seq({Seen(f) : f \in Frames}) /\ Len(read') = n + 1 /\ read'[n + 1] = Seen(queued[n + 1])
        /\ \A i \in 1 .. n : read'[i] = read[i]
    <3>1. Seen(queued[n + 1]) \in {Seen(f) : f \in Frames}
      BY <2>5
    <3> QED  BY <1>5, <2>7, <3>1, AppendProperties DEF n
  <2>9. \A i \in 1 .. n + 1 : i \in 1 .. n \/ i = n + 1
    BY <1>6
  <2>10. ReadInv(queued, read')
    <3>1. Len(read') <= Len(queued)
      BY <2>4, <2>8
    <3>2. \A i \in 1 .. Len(read') : read'[i] = Seen(queued[i])
      BY <1>5, <2>8, <2>9
    <3> QED  BY <1>5, <2>8, <3>1, <3>2 DEF ReadInv
  <2>11. Pending(<<>>, chan, queued, Len(read'))
    BY <2>1, <2>8 DEF Pending, Waiting
  <2> QED  BY <1>2, <1>3, <1>4, <2>10, <2>11 DEF Inv
<1>8. CASE ~(conn.open /\ peer = "open")
  <2>1. read' = read
    BY <1>2, <1>8
  <2> QED  BY <1>1, <1>2, <1>3, <1>4, <1>8, <2>1 DEF Inv
<1> QED  BY <1>7, <1>8

\* What recv_loop() makes of a header: the connection goes on, or the fiber ends.
LEMMA HandleHeadFacts ==
    ASSUME Inv, NEW h, conn' \in HandleHead(conn, h), peer' = peer, UNCHANGED <<queued, read>>
    PROVE  Inv'
<1>1. IsConnection(conn)
  BY DEF Inv, SenderInv
<1> DEFINE On(x) == [conn EXCEPT !.opcode = x]
           d == On(IF h.fin THEN 0 ELSE Saved(h, conn.opcode))
           e == On(Saved(h, conn.opcode))
           body == [e EXCEPT !.head = <<h>>]
           op == Effective(h, conn.opcode)
<1>2. ASSUME NEW x PROVE Same(conn, On(x)) /\ Same(conn, Refuse(On(x)))
  BY <1>1 DEF Same, IsConnection, Fields, Refuse
<1>3. Same(conn, d) /\ Same(conn, Refuse(d)) /\ Same(conn, e)
  <2> HIDE DEF On
  <2> QED  BY <1>2
<1> HIDE DEF d, e
<1>4. Same(conn, body)
  BY <1>3 DEF Same, IsConnection, Fields
<1>5. HandleHead(conn, h) =
        CASE op \in {PING, PONG} -> {d, Exit(Refuse(d), "recv")}
          [] op = CLOSE -> {Exit(e, "recv")}
          [] op \in {TEXT, BINARY} -> IF h.len = 0 THEN {Exit(e, "recv")} ELSE {body}
          [] OTHER -> {Exit(d, "recv")}
  BY DEF HandleHead, d, e
<1> HIDE DEF body, op
<1>6. HandleHead(conn, h) \in {{d, Exit(Refuse(d), "recv")}, {Exit(e, "recv")}, {body}, {Exit(d, "recv")}}
  BY <1>5 DEF PING, PONG, CLOSE, TEXT, BINARY
<1>7. conn' \in {d, Exit(Refuse(d), "recv"), Exit(e, "recv"), body, Exit(d, "recv")}
  BY <1>6
<1>8. conn' = d \/ conn' = Exit(d, "recv") => Inv'
  BY <1>3, SameOrExit
<1>9. conn' = Exit(Refuse(d), "recv") => Inv'
  BY <1>3, SameOrExit
<1>10. conn' = Exit(e, "recv") => Inv'
  BY <1>3, SameOrExit
<1>11. conn' = body => Inv'
  BY <1>4, SameOrExit
<1> QED  BY <1>7, <1>8, <1>9, <1>10, <1>11

\* The recv fiber's steps.
LEMMA RecvKeeps ==
    ASSUME Inv, RecvStep \/ RecvShort
    PROVE  Inv'
<1>1. IsConnection(conn) /\ Same(conn, conn)
  BY DEF Inv, SenderInv, Same
<1>2. UNCHANGED <<peer, queued, read>>
  BY DEF RecvStep, RecvShort, RecvHead, RecvData, RecvNoise, RecvEof, RecvFails, remote
<1>3. CASE RecvHead
  <2>1. \E h : conn' \in HandleHead(conn, h)
    BY <1>3 DEF RecvHead
  <2> QED  BY <1>2, <2>1, HandleHeadFacts
<1>4. CASE RecvData
  <2> DEFINE h == Head(conn.head)
             buffer == ReadFrameData(conn.buffer, Head(in), h.key)
             whole == [conn EXCEPT !.buffer = <<>>, !.head = <<>>, !.opcode = 0, !.dispatched = conn.dispatched + 1]
             part == [conn EXCEPT !.buffer = buffer, !.head = <<>>]
  <2>1. conn' = whole \/ conn' = part
    BY <1>4 DEF RecvData
  <2>2. Same(conn, whole)
    BY <1>1 DEF Same, IsConnection, Fields
  <2>3. Same(conn, part)
    <3> HIDE DEF buffer
    <3> QED  BY <1>1 DEF Same, IsConnection, Fields
  <2> HIDE DEF whole, part
  <2> QED  BY <1>2, <2>1, <2>2, <2>3, SameOrExit
<1>5. CASE RecvNoise
  <2>1. conn' = conn \/ conn' = Exit(conn, "recv")
    BY <1>5 DEF RecvNoise
  <2> QED  BY <1>1, <1>2, <2>1, SameOrExit
<1>6. CASE RecvEof
  <2>1. CASE conn' = Exit(conn, "recv")
    BY <1>1, <1>2, <2>1, SameOrExit
  <2>2. CASE \E opcode \in {CONTINUATION, TEXT, CLOSE, PING} : conn' \in HandleHead(conn, Header(opcode, TRUE, 0, NoKey))
    BY <1>2, <2>2, HandleHeadFacts
  <2> QED  BY <1>6, <2>1, <2>2 DEF RecvEof
<1>7. CASE RecvFails
  BY <1>1, <1>2, <1>7, SameOrExit DEF RecvFails
<1>8. CASE RecvShort
  BY <1>1, <1>2, <1>8, SameOrExit DEF RecvShort
<1> QED  BY <1>3, <1>4, <1>5, <1>6, <1>7, <1>8 DEF RecvStep

\* The peer's, the workers' and the other fibers' steps.
LEMMA OthersKeep ==
    ASSUME Inv, PeerSends \/ PeerCloses \/ HeartbeatEnds \/ ErrorEnds \/ WorkerStep \/ WorkerReturns \/ ProcessEnds
    PROVE  Inv'
<1>1. IsConnection(conn) /\ Same(conn, conn)
  BY DEF Inv, SenderInv, Same
<1>2. (peer' = peer \/ peer' = "closed") /\ UNCHANGED <<queued, read>>
  BY DEF PeerSends, PeerCloses, HeartbeatEnds, ErrorEnds, WorkerStep, WorkerReturns, OnMessage, OnMessageReturns,
         ProcessEnds, remote
<1>3. CASE PeerSends \/ PeerCloses \/ WorkerStep
  <2>1. conn' = conn
    BY <1>3 DEF PeerSends, PeerCloses, WorkerStep, OnMessage
  <2> QED  BY <1>1, <1>2, <2>1, SameOrExit
<1>4. CASE HeartbeatEnds
  <2> DEFINE c == [conn EXCEPT !.heartbeat_chan = conn.heartbeat_chan - 1]
  <2>1. Same(conn, c)
    BY <1>1 DEF Same, IsConnection, Fields
  <2>2. conn' = Exit(c, "heartbeat")
    BY <1>4 DEF HeartbeatEnds
  <2> HIDE DEF c
  <2> QED  BY <1>2, <2>1, <2>2, SameOrExit
<1>5. CASE ErrorEnds
  <2> DEFINE c == [conn EXCEPT !.error_chan = conn.error_chan - 1]
  <2>1. Same(conn, c)
    BY <1>1 DEF Same, IsConnection, Fields
  <2>2. conn' = Exit(c, "error")
    BY <1>5 DEF ErrorEnds
  <2> HIDE DEF c
  <2> QED  BY <1>2, <2>1, <2>2, SameOrExit
<1>6. CASE WorkerReturns
  <2> DEFINE b == Refuse(conn)
             c == [b EXCEPT !.error_chan = b.error_chan + 1]
  <2>1. Same(conn, b)
    BY <1>1 DEF Same, IsConnection, Fields, Refuse
  <2>2. conn' = conn \/ conn' = c
    BY <1>6 DEF WorkerReturns, OnMessageReturns
  <2> HIDE DEF b
  <2>3. Same(conn, c)
    BY <2>1 DEF Same, IsConnection, Fields
  <2> HIDE DEF c
  <2> QED  BY <1>1, <1>2, <2>2, <2>3, SameOrExit
<1>7. CASE ProcessEnds
  <2> DEFINE c == [conn EXCEPT !.exited = TRUE]
  <2>1. Same(conn, c)
    BY <1>1 DEF Same, IsConnection, Fields
  <2>2. conn' = c
    BY <1>7 DEF ProcessEnds
  <2> HIDE DEF c
  <2> QED  BY <1>2, <2>1, <2>2, SameOrExit
<1> QED  BY <1>3, <1>4, <1>5, <1>6, <1>7

\* A task of the application or of the heartbeat.
LEMMA TasksKeep ==
    ASSUME Inv, Heartbeat \/ \E f \in Sends : Send(f)
    PROVE  Inv'
<1>1. IsConnection(conn) /\ Same(conn, conn)
  BY DEF Inv, SenderInv, Same
<1>2. CASE Heartbeat
  <2> DEFINE c == [conn EXCEPT !.pings = conn.pings + 1]
  <2>1. Same(conn, c)
    BY <1>1 DEF Same, IsConnection, Fields
  <2>2. conn' = addTask(c, HeartbeatPing) /\ queued' = Append(queued, HeartbeatPing) /\ UNCHANGED <<peer, read>>
    BY <1>2 DEF Heartbeat, remote
  <2>3. HeartbeatPing \in Frames
    BY DEF Frames
  <2> HIDE DEF c
  <2> QED  BY <2>1, <2>2, <2>3, TaskStep
<1>3. ASSUME NEW f \in Sends, Send(f)
      PROVE  Inv'
  <2>1. f \in Frames
    BY DEF Frames
  <2>2. conn' = addTask(conn, f) /\ queued' = Append(queued, f) /\ UNCHANGED <<peer, read>>
    BY <1>3 DEF Send, remote
  <2> QED  BY <1>1, <2>1, <2>2, TaskStep
<1> QED  BY <1>2, <1>3

\* At first nothing is queued.
LEMMA InitSender ==
    ASSUME Init
    PROVE  Inv
<1>1. PICK buffer : conn = NewConnection(buffer)
  BY DEF Init
<1>2. queued = <<>> /\ read = <<>>
  BY DEF Init
<1>3. /\ IsConnection(conn) /\ conn.open = TRUE /\ conn.closed = FALSE /\ conn.sender_chan = <<>> /\ conn.sending = <<>>
  BY <1>1 DEF NewConnection, IsConnection, Fields
<1>4. SenderInv(conn)
  <2>1. <<>> \in Seq(Tasks) /\ \A i \in 1 .. Len(<<>>) : FALSE
    OBVIOUS
  <2>2. FALSE = ~TRUE
    OBVIOUS
  <2> QED  BY <1>3, <2>1, <2>2 DEF SenderInv
<1>5. ReadInv(queued, read)
  BY <1>2 DEF ReadInv
<1>6. Pending(conn.sending, conn.sender_chan, queued, Len(read))
  BY <1>2, <1>3 DEF Pending, Waiting
<1> QED  BY <1>4, <1>5, <1>6 DEF Inv

\* Every step keeps what is sent.
LEMMA NextSender ==
    ASSUME Inv, [Next]_vars
    PROVE  Inv'
<1>1. CASE UNCHANGED vars
  BY <1>1 DEF vars, Inv
<1>2. CASE SenderStep
  BY <1>2, SendHeaderKeeps, SendPayloadKeeps DEF SenderStep
<1> QED  BY <1>1, <1>2, RecvKeeps, OthersKeep, TasksKeep DEF Next

----------------------------------------------------------------------------
(* What comes from the peer *)

\* Frame i of a script, as the peer sends it.
HeadOf(s, key, i) == Header(s[i].opcode, s[i].fin, s[i].len, key)
BodyOf(s, key, i) == PayloadCell(HeadOf(s, key, i), s[i].data)
CellsOf(s, key, i) == FrameCells(HeadOf(s, key, i), s[i].data)

Cells(s, key) == {Byte(b) : b \in ByteValues} \cup {BodyOf(s, key, i) : i \in 1 .. Len(s)}

\* A script of a peer that follows the protocol.
Conforms(s) ==
    /\ Len(s) \in Nat /\ DOMAIN s = 1 .. Len(s)
    /\ \A i \in 1 .. Len(s) :
         /\ s[i].opcode \in 0 .. 15 /\ s[i].fin \in BOOLEAN /\ s[i].len \in Lengths /\ s[i].data # "stale"
         /\ IF IsData(s[i]) THEN s[i].opcode = CONTINUATION <=> Unfinished(s, i - 1) ELSE s[i].fin

\* Frame i is in w from position from on.
Spelled(w, from, s, key, i) ==
    /\ from + Len(CellsOf(s, key, i)) <= Len(w)
    /\ \A j \in 1 .. Len(CellsOf(s, key, i)) : w[from + j] = CellsOf(s, key, i)[j]

\* The frames after frame p, up to frame n, fill w to its end: at says where each ends.
Marked(w, s, key, at, p, n) ==
    /\ at \in [Nat -> Nat] /\ at[n] = Len(w)
    /\ \A i, j \in p .. n : i <= j => at[i] <= at[j]
    /\ \A i \in p + 1 .. n : at[i] = at[i - 1] + Len(CellsOf(s, key, i)) /\ Spelled(w, at[i - 1], s, key, i)

\* The same, where the first k cells belong to frame p.
MarkedFrom(w, s, key, p, n, k) ==
    \E at \in [Nat -> Nat] : at[p] = k /\ Marked(w, s, key, at, p, n)

\* The headers of the first p frames have been read, the n first have been sent, and w is
\* between; the payload of frame p is the first of it, or has been read.
Incoming(w, s, key, p, n, body) ==
    /\ w \in Seq(Cells(s, key)) /\ p \in 0 .. n
    /\ body => p >= 1 /\ Len(w) >= 1 /\ w[1] = BodyOf(s, key, p)
    /\ MarkedFrom(w, s, key, p, n, IF body THEN 1 ELSE 0)

\* A frame's cells.
LEMMA CellsFacts ==
    ASSUME NEW s, Conforms(s), NEW key \in {Key, NoKey}, NEW i \in 1 .. Len(s)
    PROVE  /\ HeadOf(s, key, i) \in Headers
           /\ HeaderCells(HeadOf(s, key, i)) \in Seq(Cells(s, key)) /\ Len(HeaderCells(HeadOf(s, key, i))) >= 2
           /\ BodyOf(s, key, i) \in Cells(s, key)
           /\ CellsOf(s, key, i) \in Seq(Cells(s, key))
           /\ CellsOf(s, key, i) = HeaderCells(HeadOf(s, key, i)) \o
                                     (IF s[i].len = 0 THEN <<>> ELSE <<BodyOf(s, key, i)>>)
<1> DEFINE h == HeadOf(s, key, i)
           S == Cells(s, key)
           rest == IF s[i].len = 0 THEN <<>> ELSE <<BodyOf(s, key, i)>>
<1>1. key \in Keys
  <2>1. Key \in [1 .. 4 -> ByteValues]
    BY DEF Key, ByteValues
  <2> QED  BY <2>1 DEF Keys
<1>2. h \in Headers
  BY <1>1 DEF HeadOf, Header, Headers, Opcodes, Conforms
<1>3. BodyOf(s, key, i) \in S
  BY DEF Cells
<1>4. rest \in Seq(S)
  <2> DEFINE b == BodyOf(s, key, i)
  <2> HIDE DEF b, S
  <2>1. b \in S
    BY <1>3 DEF b
  <2>2. <<>> \in Seq(S) /\ <<b>> \in Seq(S)
    BY <2>1
  <2> QED  BY <2>2 DEF b
<1>5. HeaderCells(h) \in Seq(S) /\ Len(HeaderCells(h)) >= 2
  <2> DEFINE bytes == make_frame_header(h)
  <2>1. bytes \in Seq(ByteValues) /\ Len(bytes) \in Nat
    BY <1>2, HeaderBytes
  <2>2. Len(bytes) >= 2
    <3>1. Len(bytes) = 2 + LengthBytes(h.len) + Len(h.key)
      BY <1>2, HeaderBytes
    <3>2. LengthBytes(h.len) \in Nat
      BY DEF LengthBytes
    <3>3. Len(h.key) \in Nat
      <4>1. h.key = key
        BY DEF HeadOf, Header
      <4>2. Len(Key) \in Nat /\ Len(NoKey) \in Nat
        BY DEF Key, NoKey
      <4> QED  BY <4>1, <4>2
    <3> HIDE DEF bytes, h
    <3> QED  BY <3>1, <3>2, <3>3
  <2>3. HeaderCells(h) \in [1 .. Len(bytes) -> S]
    BY <2>1 DEF HeaderCells, Cells
  <2> HIDE DEF bytes, h, S
  <2> QED  BY <2>1, <2>2, <2>3, FunctionIsSeq
<1>6. h.len = s[i].len
  BY DEF HeadOf, Header
<1>7. CellsOf(s, key, i) = HeaderCells(h) \o rest
  BY <1>6 DEF CellsOf, FrameCells, BodyOf
<1>8. HeaderCells(h) \o rest \in Seq(S)
  <2> HIDE DEF h, rest, S
  <2> QED  BY <1>4, <1>5
<1> QED  BY <1>2, <1>3, <1>5, <1>7, <1>8

\* v is w without its first c cells.
Dropped(v, w, c) ==
    Len(w) \in Nat /\ Len(v) = Len(w) - c /\ \A i \in 1 .. Len(v) : v[i] = w[c + i]

\* A frame has a length.
LEMMA CellsLen ==
    ASSUME NEW s, Conforms(s), NEW key \in {Key, NoKey}, NEW i \in 1 .. Len(s)
    PROVE  Len(CellsOf(s, key, i)) \in Nat
<1>1. CellsOf(s, key, i) \in Seq(Cells(s, key))
  BY CellsFacts
<1> QED  BY <1>1, LenProperties

\* Positions of a part lie within the whole.
LEMMA Within ==
    ASSUME NEW x \in Nat, NEW l \in Nat, NEW m \in Nat, x + l <= m, NEW j \in 1 .. l
    PROVE  x + j \in 1 .. m /\ \A c \in Nat : c + ((x - c) + j) = x + j
  OBVIOUS

\* A mark is set.
LEMMA Updated ==
    ASSUME NEW at \in [Nat -> Nat], NEW x \in Nat, NEW m \in Nat
    PROVE  /\ [at EXCEPT ![x] = m] \in [Nat -> Nat] /\ [at EXCEPT ![x] = m][x] = m
           /\ \A i \in Nat : i # x => [at EXCEPT ![x] = m][i] = at[i]
  OBVIOUS

\* A sum of numbers is below a larger one.
LEMMA Below ==
    ASSUME NEW x \in Nat, NEW l \in Nat, NEW m \in Nat, x + l <= m, NEW k \in Nat
    PROVE  x + l <= m + k /\ x + l \in Nat /\ x <= m
  OBVIOUS

\* The order of numbers.
LEMMA AtMost ==
    ASSUME NEW x \in Nat, NEW y \in Nat, NEW z \in Nat, x <= y, y <= z
    PROVE  x <= z
  OBVIOUS

\* The first cells are taken away.
LEMMA MarkedDrop ==
    ASSUME NEW s, Conforms(s), NEW key \in {Key, NoKey}, NEW w, NEW p \in Nat, NEW n \in Nat, p <= n, n <= Len(s),
           NEW k \in Nat, MarkedFrom(w, s, key, p, n, k), NEW c \in Nat, c <= k, NEW v, Dropped(v, w, c)
    PROVE  MarkedFrom(v, s, key, p, n, k - c)
<1>a. PICK at : at \in [Nat -> Nat] /\ at[p] = k /\ Marked(w, s, key, at, p, n)
  BY DEF MarkedFrom
<1> DEFINE a == [i \in Nat |-> IF i \in p .. n THEN at[i] - c ELSE 0]
           L(i) == Len(CellsOf(s, key, i))
<1>0. Len(w) \in Nat /\ Len(v) = Len(w) - c /\ Len(s) \in Nat
  BY DEF Dropped, Conforms
<1>1. at \in [Nat -> Nat] /\ at[n] = Len(w) /\ c <= at[p]
  BY <1>a DEF Marked
<1>2. \A i, j \in p .. n : i <= j => at[i] <= at[j]
  BY <1>a DEF Marked
<1>3. \A i \in p .. n : i \in Nat /\ at[i] \in Nat /\ c <= at[i] /\ a[i] = at[i] - c
  <2> TAKE i \in p .. n
  <2>1. i \in Nat /\ p \in p .. n /\ p <= i
    OBVIOUS
  <2>2. at[p] <= at[i] /\ at[p] \in Nat /\ at[i] \in Nat
    BY <1>1, <1>2, <2>1
  <2>3. c <= at[i]
    BY <1>1, <2>2, AtMost
  <2> QED  BY <1>1, <2>1, <2>2, <2>3
<1>4. a \in [Nat -> Nat]
  <2>1. ASSUME NEW i \in Nat
        PROVE  a[i] \in Nat
    <3>1. CASE i \in p .. n
      <4>1. at[i] \in Nat /\ c <= at[i] /\ a[i] = at[i] - c
        BY <1>3, <3>1
      <4> HIDE DEF a
      <4> QED  BY <4>1
    <3>2. CASE i \notin p .. n
      BY <3>2
    <3> QED  BY <3>1, <3>2
  <2>2. a = [i \in Nat |-> a[i]]
    OBVIOUS
  <2> HIDE DEF a
  <2> QED  BY <2>1, <2>2
<1> HIDE DEF a
<1>5. a[n] = Len(v) /\ a[p] = at[p] - c
  <2>1. n \in p .. n /\ p \in p .. n
    OBVIOUS
  <2> QED  BY <1>0, <1>1, <1>3, <2>1
<1>6. \A i, j \in p .. n : i <= j => a[i] <= a[j]
  BY <1>2, <1>3
<1>7. ASSUME NEW i \in p + 1 .. n
      PROVE  a[i] = a[i - 1] + L(i) /\ Spelled(v, a[i - 1], s, key, i)
  <2>1. i \in p .. n /\ i - 1 \in p .. n /\ L(i) \in Nat
    <3>1. i \in p .. n /\ i - 1 \in p .. n /\ i \in 1 .. Len(s)
      BY <1>0
    <3> QED  BY <3>1, CellsLen
  <2>2. at[i] = at[i - 1] + L(i) /\ at[i - 1] + L(i) <= Len(w) /\ \A j \in 1 .. L(i) : w[at[i - 1] + j] = CellsOf(s, key, i)[j]
    BY <1>a DEF Marked, Spelled
  <2>3. a[i] = at[i] - c /\ a[i - 1] = at[i - 1] - c /\ at[i - 1] \in Nat /\ c <= at[i - 1] /\ at[i] \in Nat
    BY <1>3, <2>1
  <2> HIDE DEF L
  <2>4. a[i] = a[i - 1] + L(i) /\ a[i - 1] + L(i) <= Len(v)
    BY <1>0, <2>1, <2>2, <2>3
  <2>5. ASSUME NEW j \in 1 .. L(i)
        PROVE  v[a[i - 1] + j] = CellsOf(s, key, i)[j]
    <3>1. a[i - 1] + j \in 1 .. Len(v) /\ c + (a[i - 1] + j) = at[i - 1] + j
      <4>1. a[i - 1] \in Nat /\ Len(v) \in Nat
        BY <1>0, <2>1, <2>3, <2>4
      <4>2. a[i - 1] + j \in 1 .. Len(v)
        BY <2>1, <2>4, <4>1, Within
      <4> DEFINE x == at[i - 1]
                 y == a[i - 1]
      <4>3. x \in Nat /\ y = x - c
        BY <2>3
      <4> HIDE DEF x, y
      <4>4. j \in Nat => c + (y + j) = x + j
        BY <4>3
      <4>5. j \in Nat
        BY <2>1
      <4> QED  BY <4>2, <4>4, <4>5 DEF x, y
    <3>2. v[a[i - 1] + j] = w[c + (a[i - 1] + j)]
      BY <3>1 DEF Dropped
    <3> QED  BY <2>2, <3>1, <3>2
  <2> QED  BY <2>4, <2>5 DEF Spelled, L
<1>8. a[p] = k - c
  BY <1>5, <1>a
<1> QED  BY <1>4, <1>5, <1>6, <1>7, <1>8 DEF Marked, MarkedFrom

\* The peer sends a frame.
LEMMA IncomingMore ==
    ASSUME NEW s, Conforms(s), NEW key \in {Key, NoKey}, NEW w, NEW p, NEW n \in 0 .. Len(s) - 1, NEW body,
           Incoming(w, s, key, p, n, body)
    PROVE  Incoming(w \o CellsOf(s, key, n + 1), s, key, p, n + 1, body)
<1> DEFINE S == Cells(s, key)
           f == CellsOf(s, key, n + 1)
           v == w \o f
<1>0. Len(s) \in Nat /\ n \in Nat /\ n + 1 \in 1 .. Len(s)
  BY DEF Conforms
<1>1. f \in Seq(S)
  BY <1>0, CellsFacts
<1>2. w \in Seq(S) /\ p \in 0 .. n
  BY DEF Incoming
<1>3. PICK at \in [Nat -> Nat] : at[p] = (IF body THEN 1 ELSE 0) /\ Marked(w, s, key, at, p, n)
  BY DEF Incoming, MarkedFrom
<1> DEFINE a == [at EXCEPT ![n + 1] = Len(v)]
<1> HIDE DEF S, f
<1>4. /\ v \in Seq(S) /\ Len(v) = Len(w) + Len(f) /\ Len(w) \in Nat /\ Len(f) \in Nat
      /\ \A i \in 1 .. Len(w) : v[i] = w[i]
      /\ \A i \in 1 .. Len(f) : v[Len(w) + i] = f[i]
  <2>1. Joined(v, w, f)
    BY <1>1, <1>2, ConcatParts
  <2>2. v \in Seq(S) /\ Len(w) \in Nat /\ Len(f) \in Nat
    BY <1>1, <1>2, ConcatProperties, LenProperties
  <2> QED  BY <2>1, <2>2 DEF Joined
<1> HIDE DEF v
<1>5. a \in [Nat -> Nat] /\ a[n + 1] = Len(v) /\ \A i \in 0 .. n : a[i] = at[i] /\ at[i] \in Nat
  <2>1. Len(v) \in Nat /\ n + 1 \in Nat
    BY <1>0, <1>4
  <2>2. a \in [Nat -> Nat] /\ a[n + 1] = Len(v) /\ \A i \in Nat : i # n + 1 => a[i] = at[i]
    BY <1>3, <2>1, Updated
  <2> HIDE DEF a
  <2>3. \A i \in 0 .. n : i \in Nat /\ i # n + 1
    BY <1>0
  <2> QED  BY <1>3, <2>2, <2>3
<1> HIDE DEF a
<1>6. at[n] = Len(w) /\ \A i, j \in p .. n : i <= j => at[i] <= at[j]
  BY <1>3 DEF Marked
<1>7. \A i, j \in p .. n + 1 : i <= j => a[i] <= a[j]
  <2> TAKE i, j \in p .. n + 1
  <2> SUFFICES ASSUME i <= j PROVE a[i] <= a[j]
    OBVIOUS
  <2>1. CASE j <= n
    <3>1. i \in p .. n /\ j \in p .. n /\ i \in 0 .. n /\ j \in 0 .. n
      BY <1>2, <2>1
    <3> QED  BY <1>5, <1>6, <3>1
  <2>2. CASE j = n + 1 /\ i <= n
    <3>1. i \in p .. n /\ i \in 0 .. n /\ n \in p .. n /\ i <= n
      BY <1>2, <2>2
    <3>2. at[i] <= at[n]
      BY <1>6, <3>1
    <3>3. at[n] <= Len(v) /\ at[i] \in Nat /\ at[n] \in Nat /\ Len(v) \in Nat
      BY <1>4, <1>5, <1>6, <3>1
    <3>4. at[i] <= Len(v)
      BY <3>2, <3>3, AtMost
    <3> QED  BY <1>5, <2>2, <3>1, <3>4
  <2>3. CASE i = n + 1
    <3>1. j = i
      BY <1>2, <2>3
    <3> QED  BY <1>4, <1>5, <2>3, <3>1
  <2> QED  BY <1>2, <2>1, <2>2, <2>3
<1>8. ASSUME NEW i \in p + 1 .. n + 1
      PROVE  a[i] = a[i - 1] + Len(CellsOf(s, key, i)) /\ Spelled(v, a[i - 1], s, key, i)
  <2>1. CASE i = n + 1
    <3>1. i - 1 = n /\ n \in 0 .. n
      BY <1>0, <2>1
    <3>2. a[i - 1] = Len(w) /\ a[i] = Len(v)
      BY <1>5, <1>6, <2>1, <3>1
    <3>3. CellsOf(s, key, i) = f
      BY <2>1 DEF f
    <3> QED  BY <1>4, <3>2, <3>3 DEF Spelled
  <2>2. CASE i # n + 1
    <3> DEFINE L == Len(CellsOf(s, key, i))
    <3>1. i \in p + 1 .. n /\ i \in 0 .. n /\ i - 1 \in 0 .. n /\ i \in 1 .. Len(s)
      BY <1>0, <1>2, <2>2
    <3>2. at[i] = at[i - 1] + L /\ at[i - 1] + L <= Len(w) /\ \A j \in 1 .. L : w[at[i - 1] + j] = CellsOf(s, key, i)[j]
      BY <1>3, <3>1 DEF Marked, Spelled
    <3>3. a[i] = at[i] /\ a[i - 1] = at[i - 1] /\ at[i - 1] \in Nat
      BY <1>5, <3>1
    <3>4. L \in Nat
      <4>1. CellsOf(s, key, i) \in Seq(Cells(s, key))
        BY <3>1, CellsFacts
      <4> QED  BY <4>1
    <3> HIDE DEF L
    <3>5. \A j \in 1 .. L : at[i - 1] + j \in 1 .. Len(w)
      <4>1. Len(w) \in Nat /\ at[i - 1] + L <= Len(w)
        BY <1>4, <3>2
      <4> QED  BY <3>3, <3>4, <4>1, Within
    <3>6. \A j \in 1 .. L : v[a[i - 1] + j] = CellsOf(s, key, i)[j]
      BY <1>4, <3>2, <3>3, <3>5
    <3>7. a[i - 1] + L <= Len(v)
      <4>1. at[i - 1] + L <= Len(w) /\ Len(w) \in Nat /\ Len(v) = Len(w) + Len(f) /\ Len(f) \in Nat
        BY <1>4, <3>2
      <4>2. at[i - 1] + L <= Len(w) + Len(f)
        BY <3>3, <3>4, <4>1, Below
      <4> QED  BY <3>3, <4>1, <4>2
    <3> QED  BY <3>2, <3>3, <3>6, <3>7 DEF Spelled, L
  <2> QED  BY <2>1, <2>2
<1>9. Marked(v, s, key, a, p, n + 1)
  BY <1>5, <1>7, <1>8 DEF Marked
<1>10. a[p] = at[p]
  BY <1>2, <1>5
<1>11. body => p >= 1 /\ Len(v) >= 1 /\ v[1] = BodyOf(s, key, p)
  <2>1. body => p >= 1 /\ Len(w) >= 1 /\ w[1] = BodyOf(s, key, p)
    BY DEF Incoming
  <2>2. ASSUME body PROVE 1 \in 1 .. Len(w) /\ Len(v) >= 1
    <3>1. Len(w) >= 1
      BY <2>1, <2>2
    <3> QED  BY <1>4, <3>1
  <2> QED  BY <1>4, <2>1, <2>2
<1>12. p \in 0 .. n + 1
  BY <1>2
<1> QED  BY <1>3, <1>4, <1>5, <1>9, <1>10, <1>11, <1>12 DEF Incoming, MarkedFrom, v, f, S

\* The frames after the next one.
LEMMA MarkedLess ==
    ASSUME NEW s, NEW key, NEW w, NEW p \in Nat, NEW n \in Nat, NEW at, Marked(w, s, key, at, p, n)
    PROVE  Marked(w, s, key, at, p + 1, n)
<1>1. \A i \in p + 1 .. n : i \in p .. n
  OBVIOUS
<1>2. \A i \in (p + 1) + 1 .. n : i \in p + 1 .. n
  OBVIOUS
<1> QED  BY <1>1, <1>2 DEF Marked

\* A sequence that begins with another one.
LEMMA Split ==
    ASSUME NEW S, NEW w \in Seq(S), NEW u \in Seq(S), Len(u) <= Len(w), \A i \in 1 .. Len(u) : w[i] = u[i]
    PROVE  LET r == SubSeq(w, Len(u) + 1, Len(w))
           IN  r \in Seq(S) /\ w = u \o r /\ Dropped(r, w, Len(u))
  BY DEF Dropped

\* A header is read.
LEMMA IncomingHead ==
    ASSUME NEW s, Conforms(s), NEW key \in {Key, NoKey}, NEW w, NEW p, NEW n \in 0 .. Len(s),
           Incoming(w, s, key, p, n, FALSE), w # <<>>
    PROVE  /\ p + 1 \in 1 .. n /\ p \in Nat
           /\ update_head_2bytes(w) = HeadOf(s, key, p + 1)
           /\ Incoming(AfterHeader(w), s, key, p + 1, n, s[p + 1].len # 0)
<1> DEFINE S == Cells(s, key)
           f == CellsOf(s, key, p + 1)
           h == HeadOf(s, key, p + 1)
           u == HeaderCells(h)
           b == BodyOf(s, key, p + 1)
           rest == IF s[p + 1].len = 0 THEN <<>> ELSE <<b>>
           r == SubSeq(w, Len(u) + 1, Len(w))
<1>0. Len(s) \in Nat /\ n \in Nat
  BY DEF Conforms
<1>1. w \in Seq(S) /\ p \in 0 .. n /\ p \in Nat /\ Len(w) \in Nat
  <2>1. w \in Seq(S) /\ p \in 0 .. n
    BY DEF Incoming
  <2> HIDE DEF S
  <2> QED  BY <1>0, <2>1, LenProperties
<1>2. PICK at : at \in [Nat -> Nat] /\ at[p] = 0 /\ Marked(w, s, key, at, p, n)
  BY DEF Incoming, MarkedFrom
<1>3. p # n
  <2> SUFFICES ASSUME p = n PROVE FALSE
    OBVIOUS
  <2>1. Len(w) = 0
    BY <1>2 DEF Marked
  <2> HIDE DEF S
  <2> QED  BY <1>1, <2>1, EmptySeq
<1>4. p + 1 \in 1 .. n /\ p + 1 \in 1 .. Len(s) /\ p + 1 \in p + 1 .. n /\ (p + 1) - 1 = p /\ p + 1 <= n
  BY <1>0, <1>1, <1>3
<1>5. /\ h \in Headers /\ u \in Seq(S) /\ b \in S /\ f \in Seq(S) /\ f = u \o rest
  BY <1>4, CellsFacts
<1>6. at[p + 1] = Len(f) /\ Len(f) <= Len(w) /\ \A j \in 1 .. Len(f) : w[j] = f[j]
  <2>1. at[p + 1] = at[p] + Len(f) /\ at[p] + Len(f) <= Len(w) /\ \A j \in 1 .. Len(f) : w[at[p] + j] = f[j]
    BY <1>2, <1>4 DEF Marked, Spelled
  <2>2. Len(f) \in Nat /\ at[p] = 0
    BY <1>2, <1>5, LenProperties
  <2> HIDE DEF f
  <2>3. \A j \in 1 .. Len(f) : at[p] + j = j
    BY <2>2
  <2> QED  BY <2>1, <2>2, <2>3
<1> HIDE DEF S, f, h, u, b
<1>7. rest \in Seq(S) /\ Len(rest) = IF s[p + 1].len = 0 THEN 0 ELSE 1
  <2>1. <<>> \in Seq(S) /\ <<b>> \in Seq(S) /\ Len(<<>>) = 0 /\ Len(<<b>>) = 1
    BY <1>5
  <2> QED  BY <2>1
<1>8. Joined(f, u, rest) /\ Len(u) \in Nat /\ Len(rest) \in Nat
  <2> HIDE DEF rest
  <2> QED  BY <1>5, <1>7, ConcatParts, LenProperties
<1>9. Len(f) = Len(u) + Len(rest) /\ (\A i \in 1 .. Len(u) : f[i] = u[i]) /\ \A i \in 1 .. Len(rest) : f[Len(u) + i] = rest[i]
  BY <1>8 DEF Joined
<1>10. r \in Seq(S) /\ w = u \o r /\ Dropped(r, w, Len(u))
  <2>1. Len(u) <= Len(w) /\ \A i \in 1 .. Len(u) : w[i] = u[i]
    <3> HIDE DEF rest
    <3>1. Len(u) <= Len(w) /\ \A i \in 1 .. Len(u) : i \in 1 .. Len(f)
      <4> DEFINE x == Len(u)  y == Len(f)  z == Len(rest)  m == Len(w)
      <4>1. x \in Nat /\ z \in Nat /\ m \in Nat /\ y = x + z /\ y <= m
        BY <1>1, <1>6, <1>8, <1>9
      <4> HIDE DEF x, y, z, m
      <4>2. x <= m /\ \A i \in 1 .. x : i \in 1 .. y
        BY <4>1
      <4> QED  BY <4>2 DEF x, y, m
    <3> QED  BY <1>6, <1>9, <3>1
  <2> QED  BY <1>1, <1>5, <2>1, Split
<1> HIDE DEF r
<1>11. update_head_2bytes(w) = h /\ AfterHeader(w) = r
  BY <1>5, <1>10, HeaderRoundTrip DEF u
<1>12. MarkedFrom(r, s, key, p + 1, n, at[p + 1] - Len(u))
  <2>1. Marked(w, s, key, at, p + 1, n)
    BY <1>0, <1>1, <1>2, MarkedLess
  <2>3. MarkedFrom(w, s, key, p + 1, n, at[p + 1])
    BY <1>2, <2>1 DEF MarkedFrom
  <2>4. at[p + 1] \in Nat
    <3>1. p \in Nat
      BY <1>1
    <3>2. p + 1 \in Nat
      BY <3>1
    <3>3. at \in [Nat -> Nat]
      BY <1>2
    <3> QED  BY <3>2, <3>3
  <2>2. Len(u) <= at[p + 1] /\ p + 1 \in Nat /\ n <= Len(s)
    <3> DEFINE x == Len(u)  z == Len(rest)
    <3>1. x \in Nat /\ z \in Nat /\ at[p + 1] = x + z
      BY <1>6, <1>8, <1>9
    <3> HIDE DEF x, z
    <3>2. x <= at[p + 1]
      BY <3>1
    <3>3. p + 1 \in Nat /\ n <= Len(s)
      BY <1>0, <1>1
    <3> QED  BY <3>2, <3>3 DEF x
  <2> QED  BY <1>0, <1>4, <1>8, <1>10, <2>2, <2>3, <2>4, MarkedDrop
<1>13. at[p + 1] - Len(u) = IF s[p + 1].len # 0 THEN 1 ELSE 0
  <2> DEFINE l == Len(rest)
  <2>1. at[p + 1] = Len(u) + l /\ l \in Nat
    BY <1>6, <1>8, <1>9
  <2>2. l = IF s[p + 1].len = 0 THEN 0 ELSE 1
    BY <1>7
  <2> HIDE DEF l
  <2>3. at[p + 1] - Len(u) = l
    BY <1>8, <2>1
  <2> QED  BY <2>2, <2>3
<1>14. ASSUME s[p + 1].len # 0
       PROVE  Len(r) >= 1 /\ r[1] = b
  <2>1. rest = <<b>>
    BY <1>14
  <2>2. Len(rest) = 1 /\ rest[1] = b
    BY <2>1
  <2> HIDE DEF rest
  <2>3. Len(u) + 1 \in 1 .. Len(f) /\ f[Len(u) + 1] = b /\ Len(f) = Len(u) + 1
    <3> DEFINE x == Len(u)  y == Len(f)  z == Len(rest)
    <3>1. x \in Nat /\ z = 1 /\ y = x + z
      BY <1>8, <1>9, <2>2
    <3>2. 1 \in 1 .. z
      BY <3>1
    <3>3. f[Len(u) + 1] = rest[1]
      BY <1>9, <3>2 DEF z
    <3> HIDE DEF x, y, z
    <3>4. x + 1 \in 1 .. y /\ y = x + 1
      BY <3>1
    <3> QED  BY <2>2, <3>3, <3>4 DEF x, y
  <2>4. w[Len(u) + 1] = b
    BY <1>6, <2>3
  <2>5. Len(r) >= 1
    <3>1. Len(r) = Len(w) - Len(u)
      BY <1>10 DEF Dropped
    <3> QED  BY <1>1, <1>6, <1>8, <2>3, <3>1
  <2>6. r[1] = w[Len(u) + 1]
    <3>1. 1 \in 1 .. Len(r)
      <4>1. Len(r) \in Nat
        BY <1>10, LenProperties
      <4> QED  BY <2>5, <4>1
    <3> QED  BY <1>10, <3>1 DEF Dropped
  <2> QED  BY <2>4, <2>5, <2>6
<1>15. p + 1 \in 0 .. n /\ p + 1 >= 1
  BY <1>1, <1>4
<1>16. Incoming(r, s, key, p + 1, n, s[p + 1].len # 0)
  BY <1>10, <1>12, <1>13, <1>14, <1>15 DEF Incoming, S, b
<1> QED  BY <1>1, <1>4, <1>11, <1>16 DEF h

\* A payload is read.
LEMMA IncomingData ==
    ASSUME NEW s, Conforms(s), NEW key \in {Key, NoKey}, NEW w, NEW p, NEW n \in 0 .. Len(s),
           Incoming(w, s, key, p, n, TRUE)
    PROVE  p \in 1 .. n /\ Head(w) = BodyOf(s, key, p) /\ Incoming(Tail(w), s, key, p, n, FALSE)
<1> DEFINE S == Cells(s, key)
           b == BodyOf(s, key, p)
<1>0. Len(s) \in Nat /\ n \in Nat
  BY DEF Conforms
<1>1. w \in Seq(S) /\ p \in 0 .. n /\ p >= 1 /\ Len(w) >= 1 /\ w[1] = b
  BY DEF Incoming
<1>2. MarkedFrom(w, s, key, p, n, 1)
  BY DEF Incoming
<1> HIDE DEF S, b
<1>3. Tail(w) \in Seq(S) /\ Head(w) = b /\ Dropped(Tail(w), w, 1)
  <2>1. w # <<>> /\ Len(w) \in Nat
    BY <1>1
  <2>2. Tail(w) \in Seq(S) /\ Len(Tail(w)) = Len(w) - 1 /\ \A i \in 1 .. Len(Tail(w)) : Tail(w)[i] = w[i + 1]
    BY <1>1, <2>1, HeadTailProperties
  <2>3. \A i \in 1 .. Len(Tail(w)) : i + 1 = 1 + i
    OBVIOUS
  <2> QED  BY <1>1, <2>1, <2>2, <2>3 DEF Dropped
<1>4. p \in 1 .. n /\ p \in Nat /\ p <= n /\ n <= Len(s)
  <2>1. p \in 0 .. n /\ p >= 1
    BY <1>1
  <2> QED  BY <1>0, <2>1
<1>5. MarkedFrom(Tail(w), s, key, p, n, 0)
  <2>1. 1 \in Nat /\ 1 <= 1 /\ 1 - 1 = 0
    OBVIOUS
  <2>2. MarkedFrom(Tail(w), s, key, p, n, 1 - 1)
    BY <1>0, <1>2, <1>3, <1>4, <2>1, MarkedDrop
  <2> QED  BY <2>1, <2>2
<1> QED  BY <1>1, <1>3, <1>4, <1>5 DEF Incoming, S, b

----------------------------------------------------------------------------
(* The messages of a script *)

StartsOf(s) == {i \in DOMAIN s : s[i].opcode \in {TEXT, BINARY}}
EndsOf(s) == {i \in DOMAIN s : IsData(s[i]) /\ s[i].fin}

\* Counting goes on by one.
LEMMA UpToFacts ==
    ASSUME NEW m \in Nat, NEW S \in SUBSET (1 .. m), NEW q \in Nat
    PROVE  /\ UpTo(S, q) \in Nat
           /\ UpTo(S, q + 1) = IF q + 1 \in S THEN UpTo(S, q) + 1 ELSE UpTo(S, q)
           /\ IsFiniteSet({j \in S : j <= q})
<1> DEFINE A == {j \in S : j <= q}
           B == {j \in S : j <= q + 1}
<1>1. IsFiniteSet(A)
  <2>1. IsFiniteSet(1 .. m)
    BY FS_Interval
  <2>2. A \subseteq 1 .. m
    OBVIOUS
  <2> HIDE DEF A
  <2> QED  BY <2>1, <2>2, FS_Subset
<1>2. Cardinality(A) \in Nat
  BY <1>1, FS_CardinalityType
<1>3. q + 1 \notin A
  OBVIOUS
<1>4. CASE q + 1 \in S
  <2>1. B = A \cup {q + 1}
    <3>1. \A j \in S : j <= q + 1 <=> j <= q \/ j = q + 1
      OBVIOUS
    <3> QED  BY <1>4, <3>1
  <2>2. Cardinality(A \cup {q + 1}) = Cardinality(A) + 1
    <3> HIDE DEF A
    <3> QED  BY <1>1, <1>3, FS_AddElement
  <2> QED  BY <1>1, <1>2, <1>4, <2>1, <2>2 DEF UpTo
<1>5. CASE q + 1 \notin S
  <2>1. B = A
    <3>1. \A j \in S : j <= q + 1 <=> j <= q \/ j = q + 1
      OBVIOUS
    <3> QED  BY <1>5, <3>1
  <2> QED  BY <1>1, <1>2, <1>5, <2>1 DEF UpTo
<1> QED  BY <1>4, <1>5

\* Nothing comes before the first.
LEMMA UpToZero ==
    ASSUME NEW m \in Nat, NEW S \in SUBSET (1 .. m)
    PROVE  UpTo(S, 0) = 0
<1>0. \A j \in S : j \in 1 .. m
  OBVIOUS
<1>1. {j \in S : j <= 0} = {}
  <2>1. \A j \in 1 .. m : ~(j <= 0)
    OBVIOUS
  <2> QED  BY <1>0, <2>1
<1> QED  BY <1>1, FS_EmptySet DEF UpTo

\* A later member has more members up to it.
LEMMA UpToRises ==
    ASSUME NEW m \in Nat, NEW S \in SUBSET (1 .. m), NEW i \in S, NEW j \in S, i < j
    PROVE  UpTo(S, i) < UpTo(S, j)
<1> DEFINE A == {k \in S : k <= i}
           B == {k \in S : k <= j}
<1>1. IsFiniteSet(A) /\ IsFiniteSet(B)
  <2>1. i \in Nat /\ j \in Nat
    OBVIOUS
  <2> QED  BY <2>1, UpToFacts
<1>2. A \cup {j} \subseteq B /\ j \notin A
  <2>0. \A k \in S : k \in Int
    OBVIOUS
  <2>1. \A k \in S : k <= i => k <= j
    BY <2>0
  <2>2. j <= j /\ ~(j <= i)
    BY <2>0
  <2> QED  BY <2>1, <2>2
<1> HIDE DEF A, B
<1>3. Cardinality(A \cup {j}) = Cardinality(A) + 1 /\ Cardinality(A) \in Nat /\ Cardinality(B) \in Nat
  BY <1>1, <1>2, FS_AddElement, FS_CardinalityType
<1>4. Cardinality(A \cup {j}) <= Cardinality(B)
  BY <1>1, <1>2, FS_Subset
<1>5. Cardinality(A) < Cardinality(B)
  BY <1>3, <1>4
<1> QED  BY <1>5 DEF UpTo, A, B

\* The member with k members up to it is the k-th.
LEMMA NthIs ==
    ASSUME NEW m \in Nat, NEW S \in SUBSET (1 .. m), NEW i \in S
    PROVE  Nth(S, UpTo(S, i)) = i
<1> DEFINE j == Nth(S, UpTo(S, i))
<1>1. j \in S /\ UpTo(S, j) = UpTo(S, i)
  BY DEF Nth
<1> HIDE DEF j
<1>2. i \in Nat /\ j \in Nat
  BY <1>1
<1>3. UpTo(S, i) \in Nat /\ UpTo(S, j) \in Nat
  BY <1>2, UpToFacts
<1>4. ~(i < j)
  <2> SUFFICES ASSUME i < j PROVE FALSE
    OBVIOUS
  <2>1. UpTo(S, i) < UpTo(S, j)
    BY <1>1, UpToRises
  <2> QED  BY <1>1, <1>3, <2>1
<1>5. ~(j < i)
  <2> SUFFICES ASSUME j < i PROVE FALSE
    OBVIOUS
  <2>1. UpTo(S, j) < UpTo(S, i)
    BY <1>1, UpToRises
  <2> QED  BY <1>1, <1>3, <2>1
<1>6. i = j
  BY <1>2, <1>4, <1>5
<1> QED  BY <1>6 DEF j

\* The only member, and the second of two.
LEMMA NthOfFew ==
    ASSUME NEW a \in Nat \ {0}
    PROVE  /\ Cardinality({a}) = 1 /\ Nth({a}, 1) = a
           /\ Cardinality({a, a + 1}) = 2 /\ Nth({a, a + 1}, 1) = a /\ Nth({a, a + 1}, 2) = a + 1
<1>1. Cardinality({a}) = 1 /\ IsFiniteSet({a})
  BY FS_Singleton
<1>2. Cardinality({a} \cup {a + 1}) = 2
  <2>1. a + 1 \notin {a}
    OBVIOUS
  <2> QED  BY <1>1, <2>1, FS_AddElement
<1>3. {a} \cup {a + 1} = {a, a + 1}
  OBVIOUS
<1>4. a + 1 \in Nat /\ {a} \in SUBSET (1 .. a + 1) /\ {a, a + 1} \in SUBSET (1 .. a + 1)
  OBVIOUS
<1>5. /\ {j \in {a} : j <= a} = {a} /\ {j \in {a, a + 1} : j <= a} = {a}
      /\ {j \in {a, a + 1} : j <= a + 1} = {a, a + 1}
  OBVIOUS
<1>6. UpTo({a}, a) = 1 /\ UpTo({a, a + 1}, a) = 1 /\ UpTo({a, a + 1}, a + 1) = 2
  BY <1>1, <1>2, <1>3, <1>5 DEF UpTo
<1>7. Nth({a}, UpTo({a}, a)) = a
  BY <1>4, NthIs
<1>8. Nth({a, a + 1}, UpTo({a, a + 1}, a)) = a
  BY <1>4, NthIs
<1>9. Nth({a, a + 1}, UpTo({a, a + 1}, a + 1)) = a + 1
  BY <1>4, NthIs
<1> QED  BY <1>1, <1>2, <1>3, <1>6, <1>7, <1>8, <1>9

\* Whether the frames end inside of a message depends on the last frame with data.
LEMMA UnfinishedNext ==
    ASSUME NEW s, NEW q \in Nat
    PROVE  /\ ~IsData(s[q + 1]) => (Unfinished(s, q + 1) <=> Unfinished(s, q))
           /\ IsData(s[q + 1]) => (Unfinished(s, q + 1) <=> ~s[q + 1].fin)
<1>1. \A j \in 1 .. q + 1 : j \in 1 .. q \/ j = q + 1
  OBVIOUS
<1>2. \A j \in 1 .. q : j \in 1 .. q + 1 /\ q + 1 \in j + 1 .. q + 1
  OBVIOUS
<1>3. \A j \in 1 .. q : \A k \in j + 1 .. q : k \in j + 1 .. q + 1
  OBVIOUS
<1>4. \A j \in 1 .. q : \A k \in j + 1 .. q + 1 : k \in j + 1 .. q \/ k = q + 1
  OBVIOUS
<1>5. q + 1 \in 1 .. q + 1 /\ \A k \in (q + 1) + 1 .. q + 1 : FALSE
  OBVIOUS
<1>6. ASSUME ~IsData(s[q + 1])
      PROVE  Unfinished(s, q + 1) <=> Unfinished(s, q)
  <2>1. ASSUME Unfinished(s, q + 1)
        PROVE  Unfinished(s, q)
    <3>1. PICK j \in 1 .. q + 1 : IsData(s[j]) /\ ~s[j].fin /\ \A k \in j + 1 .. q + 1 : ~IsData(s[k])
      BY <2>1 DEF Unfinished
    <3>2. j \in 1 .. q
      BY <1>1, <1>6, <3>1
    <3> QED  BY <1>3, <3>1, <3>2 DEF Unfinished
  <2>2. ASSUME Unfinished(s, q)
        PROVE  Unfinished(s, q + 1)
    <3>1. PICK j \in 1 .. q : IsData(s[j]) /\ ~s[j].fin /\ \A k \in j + 1 .. q : ~IsData(s[k])
      BY <2>2 DEF Unfinished
    <3>2. \A k \in j + 1 .. q + 1 : ~IsData(s[k])
      BY <1>4, <1>6, <3>1
    <3> QED  BY <1>2, <3>1, <3>2 DEF Unfinished
  <2> QED  BY <2>1, <2>2
<1>7. ASSUME IsData(s[q + 1])
      PROVE  Unfinished(s, q + 1) <=> ~s[q + 1].fin
  <2>1. ASSUME Unfinished(s, q + 1)
        PROVE  ~s[q + 1].fin
    <3>1. PICK j \in 1 .. q + 1 : IsData(s[j]) /\ ~s[j].fin /\ \A k \in j + 1 .. q + 1 : ~IsData(s[k])
      BY <2>1 DEF Unfinished
    <3>2. j = q + 1
      BY <1>1, <1>2, <1>7, <3>1
    <3> QED  BY <3>1, <3>2
  <2>2. ASSUME ~s[q + 1].fin
        PROVE  Unfinished(s, q + 1)
    BY <1>5, <1>7, <2>2 DEF Unfinished
  <2> QED  BY <2>1, <2>2
<1> QED  BY <1>6, <1>7

----------------------------------------------------------------------------
(* The reader's place in a message *)

\* d messages have ended in the first q frames, and d + begun have begun.
Counts(d, s, q, begun) == UpTo(StartsOf(s), q) = d + begun /\ UpTo(EndsOf(s), q) = d

\* Between two messages: the buffer is empty, or as the pool gave it.
Idle(c, s, q) ==
    /\ ~Unfinished(s, q) /\ Counts(c.dispatched, s, q, 0)
    /\ c.buffer = <<>> \/ (c.dispatched = 0 /\ c.buffer = <<Stale>>)

\* After the first fragment of a message, frame q.
Begun(c, s, key, q) ==
    /\ q \in 1 .. Len(s) /\ s[q].opcode \in {TEXT, BINARY} /\ ~s[q].fin /\ c.opcode = s[q].opcode
    /\ Counts(c.dispatched, s, q, 1)
    /\ \/ c.buffer = <<Toggle(BodyOf(s, key, q), key)>>
       \/ c.dispatched = 0 /\ c.buffer = <<Toggle(Stale, key), BodyOf(s, key, q)>>

\* The first q frames have been handled; other frames between the fragments of a message
\* make its end impossible.
Handled(c, s, key, q) ==
    \/ Idle(c, s, q) /\ c.opcode = 0
    \/ Begun(c, s, key, q)
    \/ Unfinished(s, q) /\ c.opcode = 0

\* The header of frame p has been read, and its payload comes.
Announced(c, s, key, p) ==
    /\ p \in 1 .. Len(s) /\ c.head = <<HeadOf(s, key, p)>>
    /\ \/ /\ s[p].opcode \in {TEXT, BINARY} /\ Idle(c, s, p - 1)
          /\ c.opcode = IF s[p].fin THEN 0 ELSE s[p].opcode
       \/ s[p].opcode = CONTINUATION /\ s[p].fin /\ Begun(c, s, key, p - 1)

Standing(c, s, key, p) == IF c.head = <<>> THEN Handled(c, s, key, p) ELSE Announced(c, s, key, p)

\* A message the workers are given: frame a, or frames a and a + 1.
OneFrame(job, s, key, a) ==
    /\ s[a].fin
    /\ \/ job.cells = <<Toggle(BodyOf(s, key, a), key)>>
       \/ job.n = 1 /\ job.cells = <<Toggle(Stale, key), BodyOf(s, key, a)>>

TwoFrames(job, s, key, a, b) ==
    /\ ~s[a].fin /\ b = a + 1 /\ b <= Len(s) /\ s[b].opcode = CONTINUATION /\ s[b].fin
    /\ \/ job.cells = <<Toggle(Toggle(BodyOf(s, key, a), key), key), BodyOf(s, key, b)>>
       \/ job.n = 1 /\ job.cells = <<Toggle(Toggle(Stale, key), key), BodyOf(s, key, a), BodyOf(s, key, b)>>

Delivered(job, s, key) ==
    \E a \in StartsOf(s), b \in EndsOf(s) :
        /\ UpTo(StartsOf(s), a) = job.n /\ UpTo(EndsOf(s), b) = job.n
        /\ job.text = (s[a].opcode = TEXT)
        /\ (a = b /\ OneFrame(job, s, key, a)) \/ TwoFrames(job, s, key, a, b)

\* Frame q + 1 is counted.
LEMMA CountsNext ==
    ASSUME NEW s, Conforms(s), NEW q \in Nat, q + 1 \in 1 .. Len(s), NEW d \in Nat, NEW begun \in {0, 1},
           Counts(d, s, q, begun)
    PROVE  /\ ~IsData(s[q + 1]) => Counts(d, s, q + 1, begun)
           /\ s[q + 1].opcode \in {TEXT, BINARY} /\ begun = 0 =>
                IF s[q + 1].fin THEN Counts(d + 1, s, q + 1, 0) ELSE Counts(d, s, q + 1, 1)
           /\ s[q + 1].opcode = CONTINUATION /\ s[q + 1].fin /\ begun = 1 => Counts(d + 1, s, q + 1, 0)
<1> DEFINE A == StartsOf(s)
           B == EndsOf(s)
<1>1. Len(s) \in Nat /\ DOMAIN s = 1 .. Len(s)
  BY DEF Conforms
<1>2. A \in SUBSET (1 .. Len(s)) /\ B \in SUBSET (1 .. Len(s))
  BY <1>1 DEF StartsOf, EndsOf
<1>3. /\ q + 1 \in A <=> s[q + 1].opcode \in {TEXT, BINARY}
      /\ q + 1 \in B <=> IsData(s[q + 1]) /\ s[q + 1].fin
  BY <1>1 DEF StartsOf, EndsOf
<1> HIDE DEF A, B
<1>4. /\ UpTo(A, q + 1) = IF q + 1 \in A THEN UpTo(A, q) + 1 ELSE UpTo(A, q)
      /\ UpTo(B, q + 1) = IF q + 1 \in B THEN UpTo(B, q) + 1 ELSE UpTo(B, q)
  BY <1>1, <1>2, UpToFacts
<1>5. UpTo(A, q) = d + begun /\ UpTo(B, q) = d
  BY DEF Counts, A, B
<1>6. \A e, x : Counts(e, s, q + 1, x) <=> UpTo(A, q + 1) = e + x /\ UpTo(B, q + 1) = e
  BY DEF Counts, A, B
<1>7. ASSUME ~IsData(s[q + 1])
      PROVE  Counts(d, s, q + 1, begun)
  <2>1. q + 1 \notin A /\ q + 1 \notin B
    BY <1>3, <1>7 DEF IsData
  <2> QED  BY <1>4, <1>5, <1>6, <2>1
<1>8. ASSUME s[q + 1].opcode \in {TEXT, BINARY}, begun = 0
      PROVE  IF s[q + 1].fin THEN Counts(d + 1, s, q + 1, 0) ELSE Counts(d, s, q + 1, 1)
  <2>1. q + 1 \in A /\ IsData(s[q + 1])
    BY <1>3, <1>8 DEF IsData
  <2>2. UpTo(A, q + 1) = d + 1
    BY <1>4, <1>5, <1>8, <2>1
  <2>3. CASE s[q + 1].fin
    <3>1. UpTo(B, q + 1) = d + 1
      BY <1>3, <1>4, <1>5, <2>1, <2>3
    <3>2. d + 1 = (d + 1) + 0
      OBVIOUS
    <3> QED  BY <1>6, <2>2, <2>3, <3>1, <3>2
  <2>4. CASE ~s[q + 1].fin
    <3>1. UpTo(B, q + 1) = d
      BY <1>3, <1>4, <1>5, <2>4
    <3> QED  BY <1>6, <2>2, <2>4, <3>1
  <2> QED  BY <2>3, <2>4
<1>9. ASSUME s[q + 1].opcode = CONTINUATION, s[q + 1].fin, begun = 1
      PROVE  Counts(d + 1, s, q + 1, 0)
  <2>1. q + 1 \notin A /\ q + 1 \in B
    BY <1>3, <1>9 DEF IsData, CONTINUATION, TEXT, BINARY
  <2>2. UpTo(A, q + 1) = d + 1 /\ UpTo(B, q + 1) = d + 1
    BY <1>4, <1>5, <1>9, <2>1
  <2>3. d + 1 = (d + 1) + 0
    OBVIOUS
  <2> QED  BY <1>6, <2>2, <2>3
<1> QED  BY <1>7, <1>8, <1>9

\* What recv_loop() makes of a header.
HeadTaken(c, c2, h) ==
    /\ c2.dispatched = c.dispatched /\ c2.buffer = c.buffer
    /\ \/ /\ Effective(h, c.opcode) \in {PING, PONG} /\ c2.head = c.head
          /\ c2.opcode = IF h.fin THEN 0 ELSE Saved(h, c.opcode)
       \/ /\ Effective(h, c.opcode) \in {TEXT, BINARY} /\ h.len # 0 /\ c2.head = <<h>>
          /\ c2.opcode = Saved(h, c.opcode)

\* A header is read between two frames.
LEMMA StandingHead ==
    ASSUME NEW s, Conforms(s), NEW key \in {Key, NoKey}, NEW q \in Nat, q + 1 \in 1 .. Len(s), NEW c, NEW c2,
           c.head = <<>>, c.dispatched \in Nat, Handled(c, s, key, q), HeadTaken(c, c2, HeadOf(s, key, q + 1)),
           s[q + 1].opcode \in {PING, PONG, CLOSE} => s[q + 1].len = 0
    PROVE  Standing(c2, s, key, q + 1) /\ (c2.head # <<>> <=> s[q + 1].len # 0)
<1> DEFINE f == s[q + 1]
           h == HeadOf(s, key, q + 1)
<1>1. h.opcode = f.opcode /\ h.fin = f.fin /\ h.len = f.len
  BY DEF HeadOf, Header
<1>2. f.opcode \in 0 .. 15 /\ f.fin \in BOOLEAN
  BY DEF Conforms
<1>3. IF IsData(f) THEN f.opcode = CONTINUATION <=> Unfinished(s, q) ELSE f.fin
  <2>1. (q + 1) - 1 = q
    OBVIOUS
  <2> QED  BY <2>1 DEF Conforms
<1>4. c.opcode \in {0, TEXT, BINARY}
  BY DEF Handled, Begun
<1>5. c2.dispatched = c.dispatched /\ c2.buffer = c.buffer
  BY DEF HeadTaken
<1>6. <<h>> # <<>>
  OBVIOUS
<1>7. Begun(c, s, key, q) => Unfinished(s, q)
  <2> SUFFICES ASSUME Begun(c, s, key, q) PROVE Unfinished(s, q)
    OBVIOUS
  <2>1. q \in 1 .. q /\ \A k \in q + 1 .. q : FALSE
    BY DEF Begun
  <2>2. IsData(s[q]) /\ ~s[q].fin
    BY DEF Begun, IsData
  <2> QED  BY <2>1, <2>2 DEF Unfinished
<1>8. /\ ~IsData(f) => (Unfinished(s, q + 1) <=> Unfinished(s, q))
      /\ IsData(f) => (Unfinished(s, q + 1) <=> ~f.fin)
  BY UnfinishedNext
<1>9. CASE Effective(h, c.opcode) \in {PING, PONG}
  <2>1. ~IsData(f) /\ f.opcode \in {PING, PONG} /\ f.fin
    BY <1>1, <1>3, <1>4, <1>9 DEF Effective, IsData, PING, PONG, CONTINUATION, TEXT, BINARY
  <2>2. c2.head = <<>> /\ c2.opcode = 0 /\ f.len = 0
    BY <1>1, <1>9, <2>1 DEF HeadTaken, PING, PONG, TEXT, BINARY
  <2>3. CASE Idle(c, s, q)
    <3>1. Counts(c.dispatched, s, q + 1, 0)
      BY <2>1, <2>3, CountsNext DEF Idle
    <3> QED  BY <1>5, <1>8, <2>1, <2>2, <2>3, <3>1 DEF Idle, Handled, Standing
  <2>4. CASE Unfinished(s, q)
    BY <1>8, <2>1, <2>2, <2>4 DEF Handled, Standing
  <2> QED  BY <1>7, <2>3, <2>4 DEF Handled
<1>10. CASE Effective(h, c.opcode) \in {TEXT, BINARY} /\ f.len # 0
  <2>1. c2.head = <<h>> /\ c2.opcode = Saved(h, c.opcode)
    BY <1>10 DEF HeadTaken, PING, PONG, TEXT, BINARY
  <2>2. (q + 1) - 1 = q
    OBVIOUS
  <2>3. CASE f.opcode = CONTINUATION
    <3>1. f.fin /\ c.opcode \in {TEXT, BINARY}
      BY <1>1, <1>10, <2>3 DEF Effective, CONTINUATION, TEXT, BINARY
    <3>2. Begun(c, s, key, q)
      BY <3>1 DEF Handled, TEXT, BINARY
    <3>3. c2.opcode = c.opcode
      BY <1>1, <2>1, <2>3 DEF Saved
    <3>4. Begun(c2, s, key, q)
      BY <1>5, <3>2, <3>3 DEF Begun
    <3>5. Announced(c2, s, key, q + 1)
      BY <2>1, <2>2, <2>3, <3>1, <3>4 DEF Announced
    <3> QED  BY <1>6, <1>10, <2>1, <3>5 DEF Standing
  <2>4. CASE f.opcode # CONTINUATION
    <3>1. f.opcode \in {TEXT, BINARY} /\ IsData(f)
      BY <1>1, <1>10, <2>4 DEF Effective, IsData
    <3>2. ~Unfinished(s, q)
      BY <1>3, <2>4, <3>1
    <3>3. Idle(c, s, q) /\ c.opcode = 0
      BY <1>7, <3>2 DEF Handled
    <3>4. Idle(c2, s, q)
      BY <1>5, <3>3 DEF Idle
    <3>5. c2.opcode = IF f.fin THEN 0 ELSE f.opcode
      BY <1>1, <2>1, <2>4, <3>3 DEF Saved
    <3>6. Announced(c2, s, key, q + 1)
      BY <2>1, <2>2, <3>1, <3>4, <3>5 DEF Announced
    <3> QED  BY <1>6, <1>10, <2>1, <3>6 DEF Standing
  <2> QED  BY <2>3, <2>4
<1> QED  BY <1>1, <1>9, <1>10 DEF HeadTaken

\* read_frame_data() on a buffer with up to two payloads.
LEMMA ReadDataFacts ==
    ASSUME NEW cell, NEW key, NEW x, NEW y
    PROVE  /\ ReadFrameData(<<>>, cell, key) = <<Toggle(cell, key)>>
           /\ ReadFrameData(<<x>>, cell, key) = <<Toggle(x, key), cell>>
           /\ ReadFrameData(<<x, y>>, cell, key) = <<Toggle(x, key), y, cell>>
<1> DEFINE t == Toggle(x, key)
<1> HIDE DEF t
<1>1. <<x>> # <<>> /\ <<x, y>> # <<>> /\ Head(<<x>>) = x /\ Head(<<x, y>>) = x /\ Tail(<<x>>) = <<>> /\ Tail(<<x, y>>) = <<y>>
  OBVIOUS
<1> DEFINE S == {t, x, y, cell}
<1>2. <<>> \in Seq(S) /\ <<t>> \in Seq(S) /\ <<t, y>> \in Seq(S) /\ y \in S /\ cell \in S
  OBVIOUS
<1>3. <<t>> \o <<>> = <<t>>
  BY <1>2, ConcatEmptySeq
<1>4. Append(<<t>>, cell) = <<t, cell>> /\ Append(<<t>>, y) = <<t, y>> /\ Append(<<t, y>>, cell) = <<t, y, cell>>
  <2>1. ASSUME NEW u, NEW v PROVE Append(<<u>>, v) = <<u, v>>
    <3> DEFINE r == Append(<<u>>, v)
    <3>1. r \in Seq({u, v}) /\ Len(r) = 2 /\ r[1] = u /\ r[2] = v
      OBVIOUS
    <3> HIDE DEF r
    <3>2. r = [i \in 1 .. 2 |-> r[i]]
      BY <3>1
    <3>3. r = <<u, v>>
      BY <3>1, <3>2
    <3> QED  BY <3>3 DEF r
  <2>2. ASSUME NEW u, NEW v, NEW z PROVE Append(<<u, v>>, z) = <<u, v, z>>
    <3> DEFINE r == Append(<<u, v>>, z)
    <3>1. r \in Seq({u, v, z}) /\ Len(r) = 3 /\ r[1] = u /\ r[2] = v /\ r[3] = z
      OBVIOUS
    <3> HIDE DEF r
    <3>2. r = [i \in 1 .. 3 |-> r[i]]
      BY <3>1
    <3>3. r = <<u, v, z>>
      BY <3>1, <3>2
    <3> QED  BY <3>3 DEF r
  <2> QED  BY <2>1, <2>2
<1>5. Append(<<t>>, cell) = <<t>> \o <<cell>> /\ Append(<<t>>, y) = <<t>> \o <<y>> /\ Append(<<t, y>>, cell) = <<t, y>> \o <<cell>>
  <2> HIDE DEF S
  <2> QED  BY <1>2, AppendIsConcat
<1> QED  BY <1>1, <1>3, <1>4, <1>5 DEF ReadFrameData, t

\* A payload is read: a part of a message, or its end.
LEMMA StandingData ==
    ASSUME NEW s, Conforms(s), NEW key \in {Key, NoKey}, NEW p, NEW c, NEW c2,
           c.dispatched \in Nat, Announced(c, s, key, p), c2.head = <<>>,
           IF s[p].fin THEN c2.buffer = <<>> /\ c2.opcode = 0 /\ c2.dispatched = c.dispatched + 1
           ELSE /\ c2.buffer = ReadFrameData(c.buffer, BodyOf(s, key, p), key)
                /\ c2.opcode = c.opcode /\ c2.dispatched = c.dispatched
    PROVE  /\ Standing(c2, s, key, p)
           /\ s[p].fin => Delivered([text |-> Effective(HeadOf(s, key, p), c.opcode) = TEXT,
                                     cells |-> ReadFrameData(c.buffer, BodyOf(s, key, p), key),
                                     n |-> c.dispatched + 1], s, key)
<1> DEFINE d == c.dispatched
           q == p - 1
           cell == BodyOf(s, key, p)
           buf == ReadFrameData(c.buffer, cell, key)
           job == [text |-> Effective(HeadOf(s, key, p), c.opcode) = TEXT, cells |-> buf, n |-> d + 1]
<1>1. p \in 1 .. Len(s) /\ Len(s) \in Nat
  BY DEF Announced, Conforms
<1>2. q \in Nat /\ p = q + 1 /\ p \in Nat
  BY <1>1
<1>3. job.cells = buf /\ job.n = d + 1 /\ job.text = (Effective(HeadOf(s, key, p), c.opcode) = TEXT)
  OBVIOUS
<1>4. HeadOf(s, key, p).fin = s[p].fin /\ HeadOf(s, key, p).opcode = s[p].opcode
  BY DEF HeadOf, Header
<1> HIDE DEF job, q, buf
<1>5. DOMAIN s = 1 .. Len(s)
  BY DEF Conforms
<1>6. CASE s[p].opcode \in {TEXT, BINARY} /\ Idle(c, s, q)
  <2>1. IF s[p].fin THEN Counts(d + 1, s, p, 0) ELSE Counts(d, s, p, 1)
    BY <1>1, <1>2, <1>6, CountsNext DEF Idle
  <2>2. IsData(s[p])
    BY <1>6 DEF IsData
  <2>3. buf = <<Toggle(cell, key)>> \/ (d = 0 /\ buf = <<Toggle(Stale, key), cell>>)
    BY <1>6, ReadDataFacts DEF Idle, buf
  <2>4. CASE s[p].fin
    <3>1. ~Unfinished(s, p)
      BY <1>2, <2>2, <2>4, UnfinishedNext
    <3>2. Handled(c2, s, key, p)
      BY <2>1, <2>4, <3>1 DEF Handled, Idle
    <3>3. p \in StartsOf(s) /\ p \in EndsOf(s)
      BY <1>1, <1>5, <1>6, <2>2, <2>4 DEF StartsOf, EndsOf
    <3>4. UpTo(StartsOf(s), p) = d + 1 /\ UpTo(EndsOf(s), p) = d + 1
      BY <2>1, <2>4 DEF Counts
    <3>5. job.text = (s[p].opcode = TEXT)
      BY <1>3, <1>4, <1>6 DEF Effective, CONTINUATION, TEXT, BINARY
    <3>6. OneFrame(job, s, key, p)
      BY <1>3, <2>3, <2>4 DEF OneFrame
    <3>7. Delivered(job, s, key)
      BY <1>3, <3>3, <3>4, <3>5, <3>6 DEF Delivered
    <3> QED  BY <3>2, <3>7 DEF Standing, job, buf
  <2>5. CASE ~s[p].fin
    <3>1. c.opcode = s[p].opcode
      BY <1>6, <2>5 DEF Announced, CONTINUATION, TEXT, BINARY
    <3>2. Begun(c2, s, key, p)
      BY <1>1, <1>6, <2>1, <2>3, <2>5, <3>1 DEF Begun, buf
    <3> QED  BY <2>5, <3>2 DEF Handled, Standing
  <2> QED  BY <2>4, <2>5
<1>7. CASE s[p].opcode = CONTINUATION /\ s[p].fin /\ Begun(c, s, key, q)
  <2> DEFINE first == BodyOf(s, key, q)
  <2>1. Counts(d, s, q, 1) /\ q \in 1 .. Len(s) /\ s[q].opcode \in {TEXT, BINARY} /\ ~s[q].fin /\ c.opcode = s[q].opcode
    BY <1>7 DEF Begun
  <2>2. Counts(d + 1, s, p, 0)
    BY <1>1, <1>2, <1>7, <2>1, CountsNext
  <2>3. IsData(s[p])
    BY <1>7 DEF IsData
  <2>4. ~Unfinished(s, p)
    BY <1>2, <1>7, <2>3, UnfinishedNext
  <2>5. Handled(c2, s, key, p)
    BY <1>7, <2>2, <2>4 DEF Handled, Idle
  <2>6. \/ buf = <<Toggle(Toggle(first, key), key), cell>>
        \/ d = 0 /\ buf = <<Toggle(Toggle(Stale, key), key), first, cell>>
    BY <1>7, ReadDataFacts DEF Begun, buf
  <2>7. q \in StartsOf(s) /\ p \in EndsOf(s)
    BY <1>1, <1>5, <1>7, <2>1, <2>3 DEF StartsOf, EndsOf
  <2>8. UpTo(StartsOf(s), q) = d + 1 /\ UpTo(EndsOf(s), p) = d + 1
    BY <2>1, <2>2 DEF Counts
  <2>9. job.text = (s[q].opcode = TEXT)
    BY <1>3, <1>4, <1>7, <2>1 DEF Effective
  <2>10. TwoFrames(job, s, key, q, p)
    BY <1>1, <1>2, <1>3, <1>7, <2>1, <2>6 DEF TwoFrames
  <2>11. Delivered(job, s, key)
    BY <1>3, <2>7, <2>8, <2>9, <2>10 DEF Delivered
  <2> QED  BY <1>7, <2>5, <2>11 DEF Standing, job, buf
<1> QED  BY <1>6, <1>7 DEF Announced, q

----------------------------------------------------------------------------
(* What a delivered message is *)

\* The conditions of Intact on one message.
Fresh(job) == IF Head(job.cells).data = "stale" THEN Tail(job.cells) ELSE job.cells

Right(job, frames, fresh) ==
    /\ job.text = (frames[1].opcode = TEXT)
    /\ [j \in DOMAIN fresh |-> fresh[j].data] = [j \in DOMAIN frames |-> frames[j].data]
    /\ job.n > 1 => fresh = job.cells
    /\ fresh = job.cells /\ (Len(frames) = 1 \/ ~server_side) => \A j \in DOMAIN fresh : fresh[j].masks = {}

\* XOR keeps the data, and undoes itself.
LEMMA ToggleFacts ==
    ASSUME NEW s, NEW key, NEW i
    PROVE  LET b == BodyOf(s, key, i)
               t == Toggle(b, key)
           IN  /\ b.data = s[i].data /\ t.data = s[i].data /\ Toggle(t, key).data = s[i].data
               /\ t.masks = {}
               /\ key = NoKey => b.masks = {} /\ Toggle(t, key).masks = {}
               /\ Toggle(Stale, key).data = "stale" /\ Toggle(Toggle(Stale, key), key).data = "stale"
<1> DEFINE Mask(m) == IF key = NoKey THEN m ELSE IF key \in m THEN m \ {key} ELSE m \cup {key}
           IsCell(x) == x = [data |-> x.data, size |-> x.size, masks |-> x.masks]
<1>1. \A x : IsCell(x) => IsCell(Toggle(x, key)) /\ Toggle(x, key).data = x.data /\ Toggle(x, key).masks = Mask(x.masks)
  <2> TAKE x
  <2> SUFFICES ASSUME IsCell(x) PROVE IsCell(Toggle(x, key)) /\ Toggle(x, key).data = x.data /\ Toggle(x, key).masks = Mask(x.masks)
    OBVIOUS
  <2> DEFINE m == Mask(x.masks)
  <2>1. Toggle(x, key) = [x EXCEPT !.masks = m]
    BY DEF Toggle
  <2> HIDE DEF m
  <2>2. [x EXCEPT !.masks = m] = [data |-> x.data, size |-> x.size, masks |-> m]
    OBVIOUS
  <2>3. Toggle(x, key) = [data |-> x.data, size |-> x.size, masks |-> m]
    BY <2>1, <2>2
  <2> QED  BY <2>3 DEF m
<1> DEFINE b == BodyOf(s, key, i)
           t == Toggle(b, key)
<1>2. IsCell(b) /\ b.data = s[i].data /\ b.masks = IF key = NoKey THEN {} ELSE {key}
  BY DEF BodyOf, PayloadCell, Payload, HeadOf, Header
<1>3. IsCell(Stale) /\ Stale.data = "stale"
  BY DEF Stale, Payload
<1> HIDE DEF b, IsCell
<1>4. IsCell(t) /\ t.data = s[i].data /\ t.masks = {}
  BY <1>1, <1>2
<1>5. Toggle(t, key).data = s[i].data /\ Toggle(t, key).masks = Mask(t.masks)
  <2> HIDE DEF t
  <2> QED  BY <1>1, <1>4
<1>6. key = NoKey => b.masks = {} /\ Toggle(t, key).masks = {}
  BY <1>2, <1>4, <1>5
<1>7. Toggle(Stale, key).data = "stale" /\ Toggle(Toggle(Stale, key), key).data = "stale"
  BY <1>1, <1>3
<1> QED  BY <1>2, <1>4, <1>5, <1>6, <1>7 DEF b

\* The frames of a message.
LEMMA FramesAre ==
    ASSUME NEW a, NEW b, NEW n, Conforms(script), a \in Starts, b \in Ends, UpTo(Starts, a) = n, UpTo(Ends, b) = n,
           b = a \/ b = a + 1
    PROVE  /\ b = a => FramesOf(n) = <<script[a]>>
           /\ b = a + 1 => FramesOf(n) = <<script[a], script[b]>>
<1>1. Len(script) \in Nat /\ DOMAIN script = 1 .. Len(script)
  BY DEF Conforms
<1>2. Starts \in SUBSET (1 .. Len(script)) /\ Ends \in SUBSET (1 .. Len(script))
  BY <1>1 DEF Starts, Ends
<1>3. FirstFrame(n) = a /\ LastFrame(n) = b
  BY <1>1, <1>2, NthIs DEF FirstFrame, LastFrame
<1>4. a \in Nat \ {0} /\ IsData(script[a]) /\ IsData(script[b])
  BY <1>1 DEF Starts, Ends, IsData
<1> DEFINE data == {i \in a .. b : IsData(script[i])}
<1>5. FramesOf(n) = [j \in 1 .. Cardinality(data) |-> script[Nth(data, j)]]
  BY <1>3 DEF FramesOf
<1> HIDE DEF data
<1>6. ASSUME b = a
      PROVE  FramesOf(n) = <<script[a]>>
  <2>1. a .. b = {a}
    BY <1>4, <1>6
  <2>2. data = {a}
    BY <1>4, <2>1 DEF data
  <2>3. Cardinality(data) = 1 /\ Nth(data, 1) = a
    BY <1>4, <2>2, NthOfFew
  <2>4. FramesOf(n) = [j \in 1 .. 1 |-> script[a]]
    <3>1. \A j \in 1 .. 1 : j = 1
      OBVIOUS
    <3>2. [j \in 1 .. 1 |-> script[Nth(data, j)]] = [j \in 1 .. 1 |-> script[a]]
      BY <2>3, <3>1
    <3> QED  BY <1>5, <2>3, <3>2
  <2>5. [j \in 1 .. 1 |-> script[a]] = <<script[a]>>
    <3> DEFINE x == script[a]
    <3> HIDE DEF x
    <3>1. [j \in 1 .. 1 |-> x] = <<x>>
      OBVIOUS
    <3> QED  BY <3>1 DEF x
  <2> QED  BY <2>4, <2>5
<1>7. ASSUME b = a + 1
      PROVE  FramesOf(n) = <<script[a], script[b]>>
  <2>1. a .. b = {a, b}
    BY <1>4, <1>7
  <2>2. data = {a, a + 1}
    BY <1>4, <1>7, <2>1 DEF data
  <2>3. Cardinality(data) = 2 /\ Nth(data, 1) = a /\ Nth(data, 2) = b
    BY <1>4, <1>7, <2>2, NthOfFew
  <2> DEFINE x == script[a]
             y == script[b]
  <2>4. FramesOf(n) = [j \in 1 .. 2 |-> IF j = 1 THEN x ELSE y]
    <3>1. \A j \in 1 .. 2 : j = 1 \/ j = 2
      OBVIOUS
    <3>2. \A j \in 1 .. 2 : script[Nth(data, j)] = IF j = 1 THEN x ELSE y
      BY <2>3, <3>1
    <3>3. [j \in 1 .. 2 |-> script[Nth(data, j)]] = [j \in 1 .. 2 |-> IF j = 1 THEN x ELSE y]
      BY <3>2
    <3> QED  BY <1>5, <2>3, <3>3
  <2> HIDE DEF x, y
  <2>5. [j \in 1 .. 2 |-> IF j = 1 THEN x ELSE y] = <<x, y>>
    OBVIOUS
  <2> QED  BY <2>4, <2>5 DEF x, y
<1> QED  BY <1>6, <1>7

\* One and two payloads that hold the data of one and two frames.
LEMMA SameData ==
    ASSUME NEW x, NEW y, NEW f, NEW g, x.data = f.data, y.data = g.data
    PROVE  /\ [j \in DOMAIN <<x>> |-> <<x>>[j].data] = [j \in DOMAIN <<f>> |-> <<f>>[j].data]
           /\ [j \in DOMAIN <<x, y>> |-> <<x, y>>[j].data] = [j \in DOMAIN <<f, g>> |-> <<f, g>>[j].data]
<1>1. DOMAIN <<x>> = 1 .. 1 /\ DOMAIN <<f>> = 1 .. 1 /\ DOMAIN <<x, y>> = 1 .. 2 /\ DOMAIN <<f, g>> = 1 .. 2
  OBVIOUS
<1>2. \A j \in 1 .. 1 : <<x>>[j] = x /\ <<f>>[j] = f
  OBVIOUS
<1>3. <<x, y>>[1] = x /\ <<x, y>>[2] = y /\ <<f, g>>[1] = f /\ <<f, g>>[2] = g /\ \A j \in 1 .. 2 : j = 1 \/ j = 2
  OBVIOUS
<1>4. \A j \in 1 .. 2 : <<x, y>>[j].data = <<f, g>>[j].data
  BY <1>3
<1> QED  BY <1>1, <1>2, <1>4

\* A delivered message is as Intact says.
LEMMA DeliveredRight ==
    ASSUME NEW job, NEW key, key = (IF server_side THEN Key ELSE NoKey), Conforms(script), Delivered(job, script, key)
    PROVE  Right(job, FramesOf(job.n), Fresh(job))
<1>1. StartsOf(script) = Starts /\ EndsOf(script) = Ends
  BY DEF StartsOf, EndsOf, Starts, Ends
<1>2. PICK a \in Starts, b \in Ends :
        /\ UpTo(Starts, a) = job.n /\ UpTo(Ends, b) = job.n
        /\ job.text = (script[a].opcode = TEXT)
        /\ (a = b /\ OneFrame(job, script, key, a)) \/ TwoFrames(job, script, key, a, b)
  BY <1>1 DEF Delivered
<1> DEFINE x == BodyOf(script, key, a)
           y == BodyOf(script, key, b)
           t == Toggle(x, key)
           tt == Toggle(t, key)
           f == script[a]
           g == script[b]
           F == FramesOf(job.n)
           s1 == Toggle(Stale, key)
           s2 == Toggle(s1, key)
<1>3. /\ x.data = f.data /\ t.data = f.data /\ tt.data = f.data /\ t.masks = {}
      /\ key = NoKey => x.masks = {} /\ tt.masks = {}
      /\ s1.data = "stale" /\ s2.data = "stale"
  BY ToggleFacts
<1>4. y.data = g.data /\ (key = NoKey => y.masks = {})
  BY ToggleFacts
<1>5. f.data # "stale" /\ g.data # "stale"
  BY DEF Conforms, Starts, Ends
<1>6. ~server_side => key = NoKey
  OBVIOUS
<1>7. (b = a => F = <<f>>) /\ (b = a + 1 => F = <<f, g>>)
  <2>1. b = a \/ b = a + 1
    BY <1>2 DEF TwoFrames
  <2> QED  BY <1>2, <2>1, FramesAre
<1>8. job.text = (f.opcode = TEXT)
  BY <1>2
<1> HIDE DEF x, y, t, tt, f, g, F, s1, s2
<1>9. CASE a = b /\ OneFrame(job, script, key, a)
  <2>1. F = <<f>> /\ F[1] = f /\ Len(F) = 1
    BY <1>7, <1>9
  <2>2. CASE job.cells = <<t>>
    <3>1. Fresh(job) = <<t>> /\ Fresh(job) = job.cells
      <4>1. Head(<<t>>) = t
        OBVIOUS
      <4> QED  BY <1>3, <1>5, <2>2, <4>1 DEF Fresh
    <3>2. \A j \in DOMAIN <<t>> : <<t>>[j].masks = {}
      <4>1. \A j \in DOMAIN <<t>> : <<t>>[j] = t
        OBVIOUS
      <4> QED  BY <1>3, <4>1
    <3>3. [j \in DOMAIN <<t>> |-> <<t>>[j].data] = [j \in DOMAIN <<f>> |-> <<f>>[j].data]
      BY <1>3, SameData
    <3> QED  BY <1>8, <2>1, <3>1, <3>2, <3>3 DEF Right, F
  <2>3. CASE job.n = 1 /\ job.cells = <<s1, x>>
    <3>1. Fresh(job) = <<x>>
      <4>1. Head(<<s1, x>>) = s1 /\ Tail(<<s1, x>>) = <<x>>
        OBVIOUS
      <4> QED  BY <1>3, <2>3, <4>1 DEF Fresh
    <3>2. <<x>> # <<s1, x>>
      OBVIOUS
    <3>3. [j \in DOMAIN <<x>> |-> <<x>>[j].data] = [j \in DOMAIN <<f>> |-> <<f>>[j].data]
      BY <1>3, SameData
    <3>4. ~(job.n > 1)
      BY <2>3
    <3> QED  BY <1>8, <2>1, <2>3, <3>1, <3>2, <3>3, <3>4 DEF Right, F
  <2> QED  BY <1>9, <2>2, <2>3 DEF OneFrame, x, t, s1
<1>10. CASE TwoFrames(job, script, key, a, b)
  <2>1. F = <<f, g>> /\ F[1] = f /\ Len(F) = 2
    <3>1. F = <<f, g>>
      BY <1>7, <1>10 DEF TwoFrames
    <3> QED  BY <3>1
  <2>2. CASE job.cells = <<tt, y>>
    <3>1. Fresh(job) = <<tt, y>> /\ Fresh(job) = job.cells
      <4>1. Head(<<tt, y>>) = tt
        OBVIOUS
      <4> QED  BY <1>3, <1>5, <2>2, <4>1 DEF Fresh
    <3>2. key = NoKey => \A j \in DOMAIN <<tt, y>> : <<tt, y>>[j].masks = {}
      <4>1. \A j \in DOMAIN <<tt, y>> : <<tt, y>>[j] \in {tt, y}
        OBVIOUS
      <4> QED  BY <1>3, <1>4, <4>1
    <3>3. [j \in DOMAIN <<tt, y>> |-> <<tt, y>>[j].data] = [j \in DOMAIN <<f, g>> |-> <<f, g>>[j].data]
      BY <1>3, <1>4, SameData
    <3>4. ~(Len(F) = 1)
      BY <2>1
    <3> QED  BY <1>6, <1>8, <2>1, <3>1, <3>2, <3>3, <3>4 DEF Right, F
  <2>3. CASE job.n = 1 /\ job.cells = <<s2, x, y>>
    <3>1. Fresh(job) = <<x, y>>
      <4>1. Head(<<s2, x, y>>) = s2 /\ Tail(<<s2, x, y>>) = <<x, y>>
        OBVIOUS
      <4> QED  BY <1>3, <2>3, <4>1 DEF Fresh
    <3>2. <<x, y>> # <<s2, x, y>>
      OBVIOUS
    <3>3. [j \in DOMAIN <<x, y>> |-> <<x, y>>[j].data] = [j \in DOMAIN <<f, g>> |-> <<f, g>>[j].data]
      BY <1>3, <1>4, SameData
    <3>4. ~(job.n > 1)
      BY <2>3
    <3> QED  BY <1>8, <2>1, <2>3, <3>1, <3>2, <3>3, <3>4 DEF Right, F
  <2> QED  BY <1>10, <2>2, <2>3 DEF TwoFrames, x, y, t, tt, s1, s2
<1> QED  BY <1>2, <1>9, <1>10

----------------------------------------------------------------------------
(* The workers' messages *)

JobOK(job, d, s, key) == job = Noise \/ (job.n \in 1 .. d /\ Delivered(job, s, key))

\* The messages that wait, and those that were handed over: each once.
WorkInv(jb, cl, d, s, key) ==
    /\ d \in Nat
    /\ (\E S : jb \in Seq(S)) /\ (\E S : cl \in Seq(S))
    /\ \A i \in 1 .. Len(jb) : JobOK(jb[i], d, s, key)
    /\ \A i \in 1 .. Len(cl) : cl[i].n \in 1 .. d /\ Delivered(cl[i], s, key)
    /\ \A i, j \in 1 .. Len(jb) : i # j /\ jb[i].n = jb[j].n => jb[i].n = 0
    /\ \A i, j \in 1 .. Len(cl) : i # j => cl[i].n # cl[j].n
    /\ \A i \in 1 .. Len(jb), j \in 1 .. Len(cl) : jb[i].n # cl[j].n

\* A sequence with one more element.
Longer(r, x, e) ==
    /\ \E S : r \in Seq(S)
    /\ Len(x) \in Nat /\ Len(r) = Len(x) + 1 /\ r[Len(x) + 1] = e
    /\ \A i \in 1 .. Len(x) : r[i] = x[i]
    /\ \A i \in 1 .. Len(r) : i \in 1 .. Len(x) \/ i = Len(x) + 1

\* Append() adds its element.
LEMMA AppendLonger ==
    ASSUME NEW S, NEW x \in Seq(S), NEW e
    PROVE  Longer(Append(x, e), x, e)
<1> DEFINE T == S \cup {e}
           r == Append(x, e)
<1>1. x \in Seq(T) /\ e \in T
  OBVIOUS
<1> HIDE DEF T
<1>2. /\ r \in Seq(T) /\ Len(x) \in Nat /\ Len(r) = Len(x) + 1 /\ r[Len(x) + 1] = e
      /\ \A i \in 1 .. Len(x) : r[i] = x[i]
  BY <1>1, AppendProperties, LenProperties
<1> HIDE DEF r
<1>3. \A i \in 1 .. Len(r) : i \in 1 .. Len(x) \/ i = Len(x) + 1
  BY <1>2
<1> QED  BY <1>2, <1>3 DEF Longer, r

\* A message is given to the workers.
LEMMA WorkAdds ==
    ASSUME NEW jb, NEW cl, NEW d, NEW s, NEW key, WorkInv(jb, cl, d, s, key), NEW job, job.n = d + 1,
           Delivered(job, s, key)
    PROVE  WorkInv(Append(jb, job), cl, d + 1, s, key)
<1> DEFINE r == Append(jb, job)
<1>1. d \in Nat /\ d + 1 \in Nat /\ (\E S : jb \in Seq(S)) /\ (\E S : cl \in Seq(S))
  BY DEF WorkInv
<1>2. Longer(r, jb, job)
  BY <1>1, AppendLonger
<1> HIDE DEF r
<1>3. \A k \in 1 .. d : k \in 1 .. d + 1 /\ k # d + 1 /\ k # 0
  BY <1>1
<1>4. d + 1 \in 1 .. d + 1 /\ d + 1 # 0
  BY <1>1
<1>5. \A i \in 1 .. Len(jb) : JobOK(jb[i], d + 1, s, key) /\ jb[i].n # d + 1
  <2> TAKE i \in 1 .. Len(jb)
  <2>1. JobOK(jb[i], d, s, key)
    BY DEF WorkInv
  <2>2. Noise.n = 0
    BY DEF Noise
  <2> QED  BY <1>3, <1>4, <2>1, <2>2 DEF JobOK
<1>6. \A i \in 1 .. Len(cl) : cl[i].n \in 1 .. d + 1 /\ Delivered(cl[i], s, key) /\ cl[i].n # d + 1
  BY <1>3 DEF WorkInv
<1>7. \A i \in 1 .. Len(r) : JobOK(r[i], d + 1, s, key)
  BY <1>2, <1>4, <1>5 DEF Longer, JobOK
<1>8. \A i, j \in 1 .. Len(r) : i # j /\ r[i].n = r[j].n => r[i].n = 0
  <2>1. \A i, j \in 1 .. Len(jb) : i # j /\ jb[i].n = jb[j].n => jb[i].n = 0
    BY DEF WorkInv
  <2> QED  BY <1>2, <1>5, <2>1 DEF Longer
<1>9. \A i \in 1 .. Len(r), j \in 1 .. Len(cl) : r[i].n # cl[j].n
  <2>1. \A i \in 1 .. Len(jb), j \in 1 .. Len(cl) : jb[i].n # cl[j].n
    BY DEF WorkInv
  <2> QED  BY <1>2, <1>6, <2>1 DEF Longer
<1>10. \E S : r \in Seq(S)
  BY <1>2 DEF Longer
<1>11. \A i, j \in 1 .. Len(cl) : i # j => cl[i].n # cl[j].n
  BY DEF WorkInv
<1> QED  BY <1>1, <1>6, <1>7, <1>8, <1>9, <1>10, <1>11 DEF WorkInv, r

\* Noise is given to the workers.
LEMMA WorkNoise ==
    ASSUME NEW jb, NEW cl, NEW d, NEW s, NEW key, WorkInv(jb, cl, d, s, key)
    PROVE  WorkInv(<<Noise>>, cl, d, s, key)
<1> DEFINE x == Noise
<1>1. x.n = 0
  BY DEF Noise
<1>2. JobOK(x, d, s, key)
  BY DEF JobOK
<1> HIDE DEF x
<1>3. (\E S : <<x>> \in Seq(S)) /\ Len(<<x>>) = 1 /\ \A i \in 1 .. 1 : <<x>>[i] = x /\ i = 1
  <2>1. <<x>> \in Seq({x})
    OBVIOUS
  <2>2. Len(<<x>>) = 1 /\ <<x>>[1] = x
    OBVIOUS
  <2>3. \A i \in 1 .. 1 : i = 1
    OBVIOUS
  <2> QED  BY <2>1, <2>2, <2>3
<1>4. \A i \in 1 .. Len(cl) : cl[i].n # 0
  <2>1. \A k \in 1 .. d : k # 0
    OBVIOUS
  <2> QED  BY <2>1 DEF WorkInv
<1> DEFINE r == <<x>>
<1> HIDE DEF r
<1>5. (\E S : r \in Seq(S)) /\ Len(r) = 1 /\ \A i \in 1 .. 1 : r[i] = x /\ i = 1
  BY <1>3 DEF r
<1>6. WorkInv(r, cl, d, s, key)
  BY <1>1, <1>2, <1>4, <1>5 DEF WorkInv
<1> QED  BY <1>6 DEF r, x

\* Element i is taken out; from(k) is where the k-th of the others was.
Without(r, x, i) ==
    /\ \E S : r \in Seq(S)
    /\ \A k \in 1 .. Len(r) : r[k] = x[IF k < i THEN k ELSE k + 1]
    /\ \A k \in 1 .. Len(r) : (IF k < i THEN k ELSE k + 1) \in 1 .. Len(x) \ {i}
    /\ \A k, l \in 1 .. Len(r) : k # l => (IF k < i THEN k ELSE k + 1) # (IF l < i THEN l ELSE l + 1)

\* RemoveAt() takes out its element.
LEMMA RemoveAtWithout ==
    ASSUME NEW S, NEW x \in Seq(S), NEW i \in 1 .. Len(x)
    PROVE  Without(RemoveAt(x, i), x, i)
<1> DEFINE u == SubSeq(x, 1, i - 1)
           v == SubSeq(x, i + 1, Len(x))
           r == u \o v
<1>1. Len(x) \in Nat /\ i \in Nat /\ i >= 1 /\ i <= Len(x)
  OBVIOUS
<1>2. u \in Seq(S) /\ Len(u) = i - 1 /\ \A k \in 1 .. i - 1 : u[k] = x[k]
  OBVIOUS
<1>3. v \in Seq(S) /\ Len(v) = Len(x) - i /\ \A k \in 1 .. Len(x) - i : v[k] = x[i + k]
  OBVIOUS
<1> HIDE DEF u, v
<1>4. r \in Seq(S) /\ Joined(r, u, v)
  BY <1>2, <1>3, ConcatParts
<1>5. Len(r) = Len(x) - 1 /\ (\A k \in 1 .. i - 1 : r[k] = u[k]) /\ \A k \in 1 .. Len(x) - i : r[(i - 1) + k] = v[k]
  <2>1. /\ Len(r) = Len(u) + Len(v) /\ (\A k \in 1 .. Len(u) : r[k] = u[k])
        /\ \A k \in 1 .. Len(v) : r[Len(u) + k] = v[k]
    BY <1>4 DEF Joined
  <2> HIDE DEF r
  <2>2. (i - 1) + (Len(x) - i) = Len(x) - 1
    BY <1>1
  <2> QED  BY <1>2, <1>3, <2>1, <2>2
<1> HIDE DEF r
<1>6. ASSUME NEW k \in 1 .. Len(r)
      PROVE  r[k] = x[IF k < i THEN k ELSE k + 1]
  <2>1. CASE k < i
    <3>1. k \in 1 .. i - 1
      BY <1>1, <2>1
    <3> QED  BY <1>2, <1>5, <2>1, <3>1
  <2>2. CASE ~(k < i)
    <3>1. k - (i - 1) \in 1 .. Len(x) - i /\ (i - 1) + (k - (i - 1)) = k /\ i + (k - (i - 1)) = k + 1
      BY <1>1, <1>5, <2>2
    <3>2. r[(i - 1) + (k - (i - 1))] = v[k - (i - 1)] /\ v[k - (i - 1)] = x[i + (k - (i - 1))]
      BY <1>3, <1>5, <3>1
    <3> QED  BY <2>2, <3>1, <3>2
  <2> QED  BY <2>1, <2>2
<1>7. \A k \in 1 .. Len(r) : (IF k < i THEN k ELSE k + 1) \in 1 .. Len(x) \ {i}
  BY <1>1, <1>5
<1>8. \A k, l \in 1 .. Len(r) : k # l => (IF k < i THEN k ELSE k + 1) # (IF l < i THEN l ELSE l + 1)
  BY <1>1, <1>5
<1>9. RemoveAt(x, i) = r
  BY DEF RemoveAt, r, u, v
<1> QED  BY <1>4, <1>6, <1>7, <1>8, <1>9 DEF Without

\* A worker takes a message, and hands it over if it is one.
LEMMA WorkTakes ==
    ASSUME NEW jb, NEW cl, NEW d, NEW s, NEW key, WorkInv(jb, cl, d, s, key), NEW i \in 1 .. Len(jb)
    PROVE  /\ WorkInv(RemoveAt(jb, i), cl, d, s, key)
           /\ jb[i].n # 0 => WorkInv(RemoveAt(jb, i), Append(cl, jb[i]), d, s, key)
<1> DEFINE r == RemoveAt(jb, i)
           e == jb[i]
           l == Append(cl, e)
           At(k) == IF k < i THEN k ELSE k + 1
<1>1. d \in Nat /\ (\E S : jb \in Seq(S)) /\ (\E S : cl \in Seq(S))
  BY DEF WorkInv
<1>2. Without(r, jb, i)
  BY <1>1, RemoveAtWithout
<1>3. Longer(l, cl, e)
  BY <1>1, AppendLonger
<1> HIDE DEF r, l
<1>4. (\E S : r \in Seq(S)) /\ (\E S : l \in Seq(S))
  BY <1>2, <1>3 DEF Without, Longer
<1>5. /\ \A k \in 1 .. Len(r) : r[k] = jb[At(k)] /\ At(k) \in 1 .. Len(jb) /\ At(k) # i
      /\ \A k, m \in 1 .. Len(r) : k # m => At(k) # At(m)
  BY <1>2 DEF Without
<1> HIDE DEF At
<1>6. \A k \in 1 .. Len(jb) : JobOK(jb[k], d, s, key)
  BY DEF WorkInv
<1>7. \A k, m \in 1 .. Len(jb) : k # m /\ jb[k].n = jb[m].n => jb[k].n = 0
  BY DEF WorkInv
<1>8. \A k \in 1 .. Len(jb), m \in 1 .. Len(cl) : jb[k].n # cl[m].n
  BY DEF WorkInv
<1>9. \A k \in 1 .. Len(cl) : cl[k].n \in 1 .. d /\ Delivered(cl[k], s, key)
  BY DEF WorkInv
<1>10. \A k, m \in 1 .. Len(cl) : k # m => cl[k].n # cl[m].n
  BY DEF WorkInv
<1>11. \A k \in 1 .. Len(r) : JobOK(r[k], d, s, key)
  BY <1>5, <1>6
<1>12. \A k, m \in 1 .. Len(r) : k # m /\ r[k].n = r[m].n => r[k].n = 0
  BY <1>5, <1>7
<1>13. \A k \in 1 .. Len(r), m \in 1 .. Len(cl) : r[k].n # cl[m].n
  BY <1>5, <1>8
<1>14. WorkInv(r, cl, d, s, key)
  BY <1>1, <1>4, <1>9, <1>10, <1>11, <1>12, <1>13 DEF WorkInv
<1>15. ASSUME e.n # 0
       PROVE  WorkInv(r, l, d, s, key)
  <2>1. e.n \in 1 .. d /\ Delivered(e, s, key)
    <3>1. Noise.n = 0
      BY DEF Noise
    <3> QED  BY <1>6, <1>15, <3>1 DEF JobOK
  <2>2. \A k \in 1 .. Len(l) : l[k].n \in 1 .. d /\ Delivered(l[k], s, key)
    BY <1>3, <1>9, <2>1 DEF Longer
  <2>3. \A k \in 1 .. Len(cl) : cl[k].n # e.n
    BY <1>8
  <2>4. \A k, m \in 1 .. Len(l) : k # m => l[k].n # l[m].n
    BY <1>3, <1>10, <2>3 DEF Longer
  <2>5. \A k \in 1 .. Len(r) : r[k].n # e.n
    BY <1>5, <1>7, <1>15
  <2>6. \A k \in 1 .. Len(r), m \in 1 .. Len(l) : r[k].n # l[m].n
    BY <1>3, <1>13, <2>5 DEF Longer
  <2> QED  BY <1>1, <1>4, <1>11, <1>12, <2>2, <2>4, <2>6 DEF WorkInv
<1> QED  BY <1>14, <1>15 DEF r, l

----------------------------------------------------------------------------
(* The reader's steps *)

MsgKey == IF server_side THEN Key ELSE NoKey

\* The reader is where the frames say.
Tuned(w, c, s, key, n) ==
    \E p \in Nat : Incoming(w, s, key, p, n, c.head # <<>>) /\ Standing(c, s, key, p)

DataOK(c, s, key, n, w, insync, jb, cl) ==
    /\ Conforms(s) /\ n \in 0 .. Len(s) /\ key \in {Key, NoKey}
    /\ WorkInv(jb, cl, c.dispatched, s, key)
    /\ c.open /\ insync => Tuned(w, c, s, key, n)

DataInv == DataOK(conn, script, MsgKey, sent, in, sync, jobs, calls)

\* The connection c2 has the reader's part of c.
Alike(c, c2) ==
    /\ IsConnection(c2) /\ c2.open = c.open /\ c2.closed = c.closed
    /\ c2.head = c.head /\ c2.buffer = c.buffer /\ c2.opcode = c.opcode /\ c2.dispatched = c.dispatched

\* close_wc_connection() leaves the reader's count alone.
LEMMA ExitReader ==
    ASSUME NEW c, IsConnection(c), c.open \in BOOLEAN, c.closed = ~c.open, NEW fiber
    PROVE  ~Exit(c, fiber).open /\ Exit(c, fiber).dispatched = c.dispatched
<1> DEFINE b == [c EXCEPT !.live = c.live \ {fiber}]
           e == [b EXCEPT !.closed = TRUE, !.open = FALSE, !.sender_chan = Append(b.sender_chan, NULL),
                          !.heartbeat_chan = b.heartbeat_chan + 1, !.error_chan = b.error_chan + 1]
<1>1. Exit(c, fiber) = IF b.closed THEN b ELSE e
  BY DEF Exit, close_wc_connection
<1>2. IsConnection(b) /\ b.open = c.open /\ b.closed = c.closed /\ b.dispatched = c.dispatched
  BY DEF IsConnection, Fields
<1> HIDE DEF b
<1>3. e.open = FALSE /\ e.dispatched = b.dispatched
  BY <1>2 DEF IsConnection, Fields
<1> HIDE DEF e
<1> QED  BY <1>1, <1>2, <1>3

\* Such a connection is read in the same way.
LEMMA AlikeTuned ==
    ASSUME NEW c, NEW c2, Alike(c, c2), NEW w, NEW s, NEW key, NEW n, Tuned(w, c, s, key, n)
    PROVE  Tuned(w, c2, s, key, n)
<1>1. PICK p \in Nat : Incoming(w, s, key, p, n, c.head # <<>>) /\ Standing(c, s, key, p)
  BY DEF Tuned
<1>2. c2.head = c.head /\ c2.buffer = c.buffer /\ c2.opcode = c.opcode /\ c2.dispatched = c.dispatched
  BY DEF Alike
<1>3. \A q : (Idle(c, s, q) => Idle(c2, s, q)) /\ (Begun(c, s, key, q) => Begun(c2, s, key, q))
  BY <1>2 DEF Idle, Begun
<1>4. Standing(c2, s, key, p)
  BY <1>1, <1>2, <1>3 DEF Standing, Handled, Announced
<1> QED  BY <1>1, <1>2, <1>4 DEF Tuned

\* A step that leaves what is read alone, or ends a fiber.
LEMMA ReaderKept ==
    ASSUME Inv, DataInv, NEW c, Alike(conn, c), NEW fiber, conn' = c \/ conn' = Exit(c, fiber),
           UNCHANGED <<server_side, script, sent, jobs, calls>>, conn'.open => UNCHANGED <<in, sync>>
    PROVE  DataInv'
<1>1. conn.open \in BOOLEAN /\ conn.closed = ~conn.open
  BY DEF Inv, SenderInv
<1>2. IsConnection(c) /\ c.open = conn.open /\ c.closed = conn.closed /\ c.dispatched = conn.dispatched
  BY DEF Alike
<1>3. /\ Conforms(script) /\ sent \in 0 .. Len(script) /\ MsgKey \in {Key, NoKey}
      /\ WorkInv(jobs, calls, conn.dispatched, script, MsgKey)
      /\ conn.open /\ sync => Tuned(in, conn, script, MsgKey, sent)
  BY DEF DataInv, DataOK
<1>4. MsgKey' = MsgKey
  BY DEF MsgKey
<1>5. conn'.dispatched = conn.dispatched /\ (conn' = c \/ ~conn'.open)
  BY <1>1, <1>2, ExitReader
<1>6. ASSUME conn'.open, sync'
      PROVE  Tuned(in', conn', script', MsgKey', sent')
  <2>1. conn' = c /\ in' = in /\ sync
    BY <1>5, <1>6
  <2>2. Tuned(in, conn, script, MsgKey, sent)
    BY <1>2, <1>3, <1>6, <2>1
  <2>3. Tuned(in, c, script, MsgKey, sent)
    BY <2>2, AlikeTuned
  <2> QED  BY <1>4, <2>1, <2>3
<1> QED  BY <1>3, <1>4, <1>5, <1>6 DEF DataInv, DataOK

\* What HandleHead() may return.
LEMMA HandleHeadTaken ==
    ASSUME Inv, NEW h, conn' \in HandleHead(conn, h)
    PROVE  conn'.dispatched = conn.dispatched /\ (conn'.open => HeadTaken(conn, conn', h))
<1>1. IsConnection(conn) /\ conn.open \in BOOLEAN /\ conn.closed = ~conn.open
  BY DEF Inv, SenderInv
<1> DEFINE On(x) == [conn EXCEPT !.opcode = x]
           d == On(IF h.fin THEN 0 ELSE Saved(h, conn.opcode))
           e == On(Saved(h, conn.opcode))
           body == [e EXCEPT !.head = <<h>>]
           op == Effective(h, conn.opcode)
<1>2. ASSUME NEW x
      PROVE  /\ IsConnection(On(x)) /\ On(x).open = conn.open /\ On(x).closed = conn.closed
             /\ On(x).head = conn.head /\ On(x).buffer = conn.buffer /\ On(x).dispatched = conn.dispatched
             /\ On(x).opcode = x
             /\ IsConnection(Refuse(On(x))) /\ Refuse(On(x)).open = conn.open /\ Refuse(On(x)).closed = conn.closed
             /\ Refuse(On(x)).dispatched = conn.dispatched
  BY <1>1 DEF IsConnection, Fields, Refuse
<1>3. /\ d.head = conn.head /\ d.buffer = conn.buffer /\ d.dispatched = conn.dispatched
      /\ d.opcode = IF h.fin THEN 0 ELSE Saved(h, conn.opcode)
      /\ IsConnection(d) /\ d.open = conn.open /\ d.closed = conn.closed
  <2> HIDE DEF On
  <2> QED  BY <1>2
<1>4. /\ IsConnection(Refuse(d)) /\ Refuse(d).open = conn.open /\ Refuse(d).closed = conn.closed
      /\ Refuse(d).dispatched = conn.dispatched
  <2> HIDE DEF On
  <2> QED  BY <1>2
<1>5. /\ e.buffer = conn.buffer /\ e.dispatched = conn.dispatched /\ e.opcode = Saved(h, conn.opcode)
      /\ IsConnection(e) /\ e.open = conn.open /\ e.closed = conn.closed
  <2> HIDE DEF On
  <2> QED  BY <1>2
<1>6. HandleHead(conn, h) =
        CASE op \in {PING, PONG} -> {d, Exit(Refuse(d), "recv")}
          [] op = CLOSE -> {Exit(e, "recv")}
          [] op \in {TEXT, BINARY} -> IF h.len = 0 THEN {Exit(e, "recv")} ELSE {body}
          [] OTHER -> {Exit(d, "recv")}
  BY DEF HandleHead, d, e
<1> HIDE DEF d, e
<1>7. /\ body.head = <<h>> /\ body.buffer = conn.buffer /\ body.dispatched = conn.dispatched
      /\ body.opcode = Saved(h, conn.opcode)
  BY <1>5 DEF IsConnection, Fields
<1> HIDE DEF body
<1>8. /\ ~Exit(d, "recv").open /\ Exit(d, "recv").dispatched = conn.dispatched
      /\ ~Exit(Refuse(d), "recv").open /\ Exit(Refuse(d), "recv").dispatched = conn.dispatched
      /\ ~Exit(e, "recv").open /\ Exit(e, "recv").dispatched = conn.dispatched
  <2>1. ~Exit(d, "recv").open /\ Exit(d, "recv").dispatched = conn.dispatched
    BY <1>1, <1>3, ExitReader
  <2>2. ~Exit(Refuse(d), "recv").open /\ Exit(Refuse(d), "recv").dispatched = conn.dispatched
    BY <1>1, <1>4, ExitReader
  <2>3. ~Exit(e, "recv").open /\ Exit(e, "recv").dispatched = conn.dispatched
    BY <1>1, <1>5, ExitReader
  <2> QED  BY <2>1, <2>2, <2>3
<1>9. CASE op \in {PING, PONG}
  <2>1. conn' = d \/ conn' = Exit(Refuse(d), "recv")
    <3> HIDE DEF op
    <3> QED  BY <1>6, <1>9 DEF PING, PONG, CLOSE, TEXT, BINARY
  <2> QED  BY <1>3, <1>8, <1>9, <2>1 DEF HeadTaken
<1>10. CASE op \in {TEXT, BINARY} /\ h.len # 0
  <2>1. conn' = body
    <3> HIDE DEF op
    <3> QED  BY <1>6, <1>10 DEF PING, PONG, CLOSE, TEXT, BINARY
  <2> QED  BY <1>7, <1>10, <2>1 DEF HeadTaken
<1>11. CASE op \notin {PING, PONG} /\ ~(op \in {TEXT, BINARY} /\ h.len # 0)
  <2>1. conn' = Exit(e, "recv") \/ conn' = Exit(d, "recv")
    <3> HIDE DEF op
    <3> QED  BY <1>6, <1>11 DEF PING, PONG, CLOSE, TEXT, BINARY
  <2> QED  BY <1>8, <2>1
<1> QED  BY <1>9, <1>10, <1>11

\* The parts of the invariant.
LEMMA DataParts ==
    ASSUME DataInv
    PROVE  /\ Conforms(script) /\ sent \in 0 .. Len(script) /\ Len(script) \in Nat /\ MsgKey \in {Key, NoKey}
           /\ WorkInv(jobs, calls, conn.dispatched, script, MsgKey) /\ conn.dispatched \in Nat
           /\ conn.open /\ sync => Tuned(in, conn, script, MsgKey, sent)
  BY DEF DataInv, DataOK, WorkInv, Conforms

\* The peer sends a frame.
LEMMA PeerSendsData ==
    ASSUME Inv, DataInv, PeerSends
    PROVE  DataInv'
<1> DEFINE key == MsgKey
<1>1. sent < Len(script) /\ sent' = sent + 1 /\ UNCHANGED <<server_side, conn, script, sync, jobs, calls>>
  BY DEF PeerSends, work
<1>2. in' = in \o CellsOf(script, key, sent + 1)
  BY DEF PeerSends, CellsOf, HeadOf, MsgKey
<1>3. MsgKey' = key
  BY <1>1 DEF MsgKey
<1>4. sent \in 0 .. Len(script) - 1 /\ sent' \in 0 .. Len(script)
  BY <1>1, DataParts
<1>5. key \in {Key, NoKey}
  BY DataParts
<1> HIDE DEF key
<1>6. ASSUME conn.open, sync
      PROVE  Tuned(in', conn, script, key, sent')
  <2>1. PICK p \in Nat : Incoming(in, script, key, p, sent, conn.head # <<>>) /\ Standing(conn, script, key, p)
    BY <1>6, DataParts DEF Tuned, key
  <2>2. Incoming(in \o CellsOf(script, key, sent + 1), script, key, p, sent + 1, conn.head # <<>>)
    BY <1>4, <1>5, <2>1, DataParts, IncomingMore
  <2> QED  BY <1>1, <1>2, <2>1, <2>2 DEF Tuned
<1> QED  BY <1>1, <1>3, <1>4, <1>5, <1>6, DataParts DEF DataInv, DataOK, key

\* The recv fiber reads a header.
LEMMA RecvHeadData ==
    ASSUME Inv, DataInv, RecvHead
    PROVE  DataInv'
<1> DEFINE key == MsgKey
           h == update_head_2bytes(in)
<1>1. /\ conn.open /\ sync /\ conn.head = <<>> /\ in # <<>> /\ UNCHANGED <<server_side, script, sent, jobs, calls>>
      /\ conn' \in HandleHead(conn, h) /\ sync' = (h.opcode \in {PING, PONG, CLOSE} => h.len = 0)
      /\ in' = IF conn'.open THEN AfterHeader(in) ELSE <<>>
  <2>1. HeaderReady(in) => in # <<>>
    BY DEF HeaderReady
  <2> QED  BY <2>1 DEF RecvHead, Receiving, Unread, remote, work
<1>2. MsgKey' = key
  BY <1>1 DEF MsgKey
<1>3. key \in {Key, NoKey}
  BY DataParts
<1>4. conn'.dispatched = conn.dispatched /\ (conn'.open => HeadTaken(conn, conn', h))
  BY <1>1, HandleHeadTaken
<1>5. PICK p \in Nat : Incoming(in, script, key, p, sent, FALSE) /\ Handled(conn, script, key, p)
  <2>1. PICK p \in Nat : Incoming(in, script, key, p, sent, conn.head # <<>>) /\ Standing(conn, script, key, p)
    BY <1>1, DataParts DEF Tuned
  <2>2. (conn.head # <<>>) = FALSE
    BY <1>1
  <2> QED  BY <1>1, <2>1, <2>2 DEF Standing
<1> HIDE DEF key, h
<1>6. /\ p + 1 \in 1 .. sent /\ update_head_2bytes(in) = HeadOf(script, key, p + 1)
      /\ Incoming(AfterHeader(in), script, key, p + 1, sent, script[p + 1].len # 0)
  <2>1. Conforms(script) /\ sent \in 0 .. Len(script)
    BY DataParts
  <2>2. in # <<>>
    BY <1>1
  <2> QED  BY <1>3, <1>5, <2>1, <2>2, IncomingHead
<1>7. h.opcode = script[p + 1].opcode /\ h.len = script[p + 1].len
  BY <1>6 DEF h, HeadOf, Header
<1>8. p + 1 \in 1 .. Len(script) /\ p + 1 \in Nat
  BY <1>6, DataParts
<1>9. ASSUME conn'.open, sync'
      PROVE  Tuned(in', conn', script, key, sent)
  <2>1. HeadTaken(conn, conn', HeadOf(script, key, p + 1))
    BY <1>4, <1>6, <1>9 DEF h
  <2>2. script[p + 1].opcode \in {PING, PONG, CLOSE} => script[p + 1].len = 0
    BY <1>1, <1>7, <1>9
  <2>3. Standing(conn', script, key, p + 1) /\ (conn'.head # <<>> <=> script[p + 1].len # 0)
    BY <1>1, <1>3, <1>5, <1>8, <2>1, <2>2, DataParts, StandingHead
  <2>4. (conn'.head # <<>>) = (script[p + 1].len # 0)
    BY <2>3
  <2> QED  BY <1>1, <1>6, <1>8, <1>9, <2>3, <2>4 DEF Tuned
<1> QED  BY <1>1, <1>2, <1>3, <1>4, <1>9, DataParts DEF DataInv, DataOK, key

\* The recv fiber reads a payload.
LEMMA RecvDataData ==
    ASSUME Inv, DataInv, RecvData
    PROVE  DataInv'
<1> DEFINE key == MsgKey
           h == Head(conn.head)
           buffer == ReadFrameData(conn.buffer, Head(in), h.key)
           job == [text |-> Effective(h, conn.opcode) = TEXT, cells |-> buffer, n |-> conn.dispatched + 1]
           whole == [conn EXCEPT !.buffer = <<>>, !.head = <<>>, !.opcode = 0, !.dispatched = conn.dispatched + 1]
           part == [conn EXCEPT !.buffer = buffer, !.head = <<>>]
<1>1. /\ conn.open /\ sync /\ conn.head # <<>> /\ UNCHANGED <<server_side, script, sent, calls, sync>>
      /\ in' = Tail(in)
  BY DEF RecvData, Receiving, remote
<1>2. IF h.fin THEN jobs' = Append(jobs, job) /\ conn' = whole ELSE conn' = part /\ jobs' = jobs
  BY DEF RecvData, finish
<1>3. MsgKey' = key
  BY <1>1 DEF MsgKey
<1>4. key \in {Key, NoKey}
  BY DataParts
<1>5. IsConnection(conn)
  BY DEF Inv, SenderInv
<1>6. whole.buffer = <<>> /\ whole.head = <<>> /\ whole.opcode = 0 /\ whole.dispatched = conn.dispatched + 1 /\ whole.open = conn.open
  BY <1>5 DEF IsConnection, Fields
<1>7. part.buffer = buffer /\ part.head = <<>> /\ part.opcode = conn.opcode /\ part.dispatched = conn.dispatched /\ part.open = conn.open
  <2> HIDE DEF buffer
  <2> QED  BY <1>5 DEF IsConnection, Fields
<1>8. PICK p \in Nat : Incoming(in, script, key, p, sent, TRUE) /\ Announced(conn, script, key, p)
  <2>1. PICK p \in Nat : Incoming(in, script, key, p, sent, conn.head # <<>>) /\ Standing(conn, script, key, p)
    BY <1>1, DataParts DEF Tuned
  <2>2. (conn.head # <<>>) = TRUE
    BY <1>1
  <2> QED  BY <1>1, <2>1, <2>2 DEF Standing
<1> HIDE DEF key, whole, part
<1>9. p \in 1 .. sent /\ Head(in) = BodyOf(script, key, p) /\ Incoming(Tail(in), script, key, p, sent, FALSE)
  BY <1>4, <1>8, DataParts, IncomingData
<1>10. h = HeadOf(script, key, p)
  <2>1. conn.head = <<HeadOf(script, key, p)>>
    BY <1>8 DEF Announced
  <2> QED  BY <2>1
<1>11. h.fin = script[p].fin /\ h.key = key
  BY <1>10 DEF HeadOf, Header
<1>12. buffer = ReadFrameData(conn.buffer, BodyOf(script, key, p), key)
  BY <1>9, <1>11
<1>13. script[p].fin \in BOOLEAN
  BY <1>9, DataParts DEF Conforms
<1>14. CASE script[p].fin
  <2>1. conn' = whole /\ jobs' = Append(jobs, job)
    BY <1>2, <1>11, <1>14
  <2>2. /\ Standing(whole, script, key, p)
        /\ Delivered([text |-> Effective(HeadOf(script, key, p), conn.opcode) = TEXT,
                      cells |-> ReadFrameData(conn.buffer, BodyOf(script, key, p), key),
                      n |-> conn.dispatched + 1], script, key)
    BY <1>4, <1>6, <1>8, <1>14, DataParts, StandingData
  <2>3. Delivered(job, script, key) /\ job.n = conn.dispatched + 1
    BY <1>10, <1>12, <2>2
  <2> HIDE DEF job
  <2>4. WorkInv(Append(jobs, job), calls, conn.dispatched + 1, script, key)
    BY <2>3, DataParts, WorkAdds DEF key
  <2>5. Tuned(Tail(in), whole, script, key, sent)
    <3>1. (whole.head # <<>>) = FALSE
      BY <1>6
    <3> QED  BY <1>9, <2>2, <3>1 DEF Tuned
  <2> QED  BY <1>1, <1>3, <1>4, <1>6, <2>1, <2>4, <2>5, DataParts DEF DataInv, DataOK, key
<1>15. CASE ~script[p].fin
  <2>1. conn' = part /\ jobs' = jobs
    BY <1>2, <1>11, <1>15
  <2> HIDE DEF buffer, h
  <2>2. Standing(part, script, key, p)
    BY <1>4, <1>7, <1>8, <1>12, <1>15, DataParts, StandingData
  <2>3. Tuned(Tail(in), part, script, key, sent)
    <3>1. (part.head # <<>>) = FALSE
      BY <1>7
    <3> QED  BY <1>9, <2>2, <3>1 DEF Tuned
  <2> QED  BY <1>1, <1>3, <1>4, <1>7, <2>1, <2>3, DataParts DEF DataInv, DataOK, key
<1> QED  BY <1>13, <1>14, <1>15

\* The recv fiber reads the end of the stream.
LEMMA RecvEofData ==
    ASSUME Inv, DataInv, RecvEof
    PROVE  DataInv'
<1> DEFINE key == MsgKey
<1>1. /\ conn.open /\ in = <<>> /\ UNCHANGED <<server_side, script, sent, jobs, calls, sync>>
      /\ in' = <<>>
  BY DEF RecvEof, Receiving, Unread, remote, work
<1>2. Alike(conn, conn)
  BY DEF Inv, SenderInv, Alike
<1>3. CASE conn.head # <<>>
  <2>1. conn' = Exit(conn, "recv")
    BY <1>3 DEF RecvEof
  <2> QED  BY <1>1, <1>2, <2>1, ReaderKept
<1>4. CASE conn.head = <<>>
  <2>1. PICK opcode \in {CONTINUATION, TEXT, CLOSE, PING} : conn' \in HandleHead(conn, Header(opcode, TRUE, 0, NoKey))
    BY <1>4 DEF RecvEof
  <2> DEFINE h == Header(opcode, TRUE, 0, NoKey)
  <2>2. h.opcode = opcode /\ h.fin = TRUE /\ h.len = 0
    BY DEF Header
  <2>3. conn'.dispatched = conn.dispatched /\ (conn'.open => HeadTaken(conn, conn', h))
    BY <2>1, HandleHeadTaken
  <2> HIDE DEF h
  <2>4. MsgKey' = key
    BY <1>1 DEF MsgKey
  <2> HIDE DEF key
  <2>5. ASSUME conn'.open, sync
        PROVE  Tuned(in, conn', script, key, sent)
    <3>1. PICK p \in Nat : Incoming(in, script, key, p, sent, conn.head # <<>>) /\ Handled(conn, script, key, p)
      BY <1>1, <1>4, <2>5, DataParts DEF Tuned, Standing, key
    <3>2. /\ conn'.head = <<>> /\ conn'.buffer = conn.buffer /\ conn'.opcode = 0
      BY <1>4, <2>2, <2>3, <2>5 DEF HeadTaken
    <3>3. CASE Idle(conn, script, p)
      <4>1. Idle(conn', script, p)
        BY <2>3, <3>2, <3>3 DEF Idle
      <4> QED  BY <1>4, <3>1, <3>2, <4>1 DEF Tuned, Standing, Handled
    <3>4. CASE Unfinished(script, p)
      BY <1>4, <3>1, <3>2, <3>4 DEF Tuned, Standing, Handled
    <3>5. CASE Begun(conn, script, key, p)
      <4>1. p \in 1 .. p /\ \A k \in p + 1 .. p : FALSE
        BY <3>5 DEF Begun
      <4>2. IsData(script[p]) /\ ~script[p].fin
        BY <3>5 DEF Begun, IsData
      <4>3. Unfinished(script, p)
        BY <4>1, <4>2 DEF Unfinished
      <4> QED  BY <3>4, <4>3
    <3> QED  BY <3>1, <3>3, <3>4, <3>5 DEF Handled
  <2> QED  BY <1>1, <2>3, <2>4, <2>5, DataParts DEF DataInv, DataOK, key
<1> QED  BY <1>3, <1>4

\* The recv fiber's steps.
LEMMA RecvKeepsData ==
    ASSUME Inv, DataInv, RecvStep \/ RecvShort
    PROVE  DataInv'
<1>1. Alike(conn, conn)
  BY DEF Inv, SenderInv, Alike
<1>2. CASE RecvNoise
  <2>1. /\ ~sync /\ UNCHANGED <<server_side, script, sent, calls, sync>>
        /\ \/ conn' = conn /\ jobs' = jobs
           \/ conn' = conn /\ jobs' = <<Noise>>
           \/ conn' = Exit(conn, "recv") /\ jobs' = jobs
    BY <1>2 DEF RecvNoise, remote
  <2>2. conn'.dispatched = conn.dispatched
    BY <2>1, ExitReader DEF Inv, SenderInv
  <2>3. WorkInv(jobs', calls, conn.dispatched, script, MsgKey)
    <3>1. WorkInv(<<Noise>>, calls, conn.dispatched, script, MsgKey)
      BY DataParts, WorkNoise
    <3> QED  BY <2>1, <3>1, DataParts
  <2>4. MsgKey' = MsgKey
    BY <2>1 DEF MsgKey
  <2> QED  BY <2>1, <2>2, <2>3, <2>4, DataParts DEF DataInv, DataOK
<1>3. CASE RecvFails
  <2>1. conn' = Exit(conn, "recv") /\ UNCHANGED <<server_side, script, sent, jobs, calls, in, sync>>
    BY <1>3 DEF RecvFails, remote, work
  <2> QED  BY <1>1, <2>1, ReaderKept
<1>4. CASE RecvShort
  <2>1. ~sync' /\ UNCHANGED <<server_side, script, sent, jobs, calls, conn>>
    BY <1>4 DEF RecvShort, remote, work
  <2>2. MsgKey' = MsgKey
    BY <2>1 DEF MsgKey
  <2> QED  BY <2>1, <2>2, DataParts DEF DataInv, DataOK
<1> QED  BY <1>2, <1>3, <1>4, RecvHeadData, RecvDataData, RecvEofData DEF RecvStep

\* A worker takes a message.
LEMMA WorkerKeepsData ==
    ASSUME Inv, DataInv, WorkerStep
    PROVE  DataInv'
<1>1. PICK i \in DOMAIN jobs : OnMessage(i)
  BY DEF WorkerStep
<1>2. i \in 1 .. Len(jobs)
  <2>1. \E S : jobs \in Seq(S)
    BY DataParts DEF WorkInv
  <2> QED  BY <2>1, LenProperties
<1>3. /\ UNCHANGED <<server_side, script, sent, conn, in, sync>> /\ jobs' = RemoveAt(jobs, i)
      /\ calls' = calls \/ (jobs[i].n # 0 /\ calls' = Append(calls, jobs[i]))
  BY <1>1 DEF OnMessage, remote
<1>4. /\ WorkInv(RemoveAt(jobs, i), calls, conn.dispatched, script, MsgKey)
      /\ jobs[i].n # 0 => WorkInv(RemoveAt(jobs, i), Append(calls, jobs[i]), conn.dispatched, script, MsgKey)
  BY <1>2, DataParts, WorkTakes
<1>5. WorkInv(jobs', calls', conn.dispatched, script, MsgKey)
  BY <1>3, <1>4
<1>6. MsgKey' = MsgKey
  BY <1>3 DEF MsgKey
<1> QED  BY <1>3, <1>5, <1>6, DataParts DEF DataInv, DataOK

\* The steps that do not read.
LEMMA OthersKeepData ==
    ASSUME Inv, DataInv,
           \/ PeerCloses \/ HeartbeatEnds \/ ErrorEnds \/ WorkerReturns \/ ProcessEnds \/ Heartbeat \/ SenderStep
           \/ \E f \in Sends : Send(f)
    PROVE  DataInv'
<1>1. IsConnection(conn) /\ Alike(conn, conn)
  BY DEF Inv, SenderInv, Alike
<1>2. UNCHANGED <<server_side, script, sent, jobs, calls, in, sync>>
  BY DEF PeerCloses, HeartbeatEnds, ErrorEnds, WorkerReturns, OnMessageReturns, ProcessEnds, Heartbeat, SenderStep,
         SendHeader, SendPayload, Send, remote, work
<1>3. CASE PeerCloses
  BY <1>1, <1>2, <1>3, ReaderKept DEF PeerCloses
<1>4. CASE HeartbeatEnds
  <2> DEFINE c == [conn EXCEPT !.heartbeat_chan = conn.heartbeat_chan - 1]
  <2>1. Alike(conn, c)
    BY <1>1 DEF Alike, IsConnection, Fields
  <2>2. conn' = Exit(c, "heartbeat")
    BY <1>4 DEF HeartbeatEnds
  <2> HIDE DEF c
  <2> QED  BY <1>2, <2>1, <2>2, ReaderKept
<1>5. CASE ErrorEnds
  <2> DEFINE c == [conn EXCEPT !.error_chan = conn.error_chan - 1]
  <2>1. Alike(conn, c)
    BY <1>1 DEF Alike, IsConnection, Fields
  <2>2. conn' = Exit(c, "error")
    BY <1>5 DEF ErrorEnds
  <2> HIDE DEF c
  <2> QED  BY <1>2, <2>1, <2>2, ReaderKept
<1>6. CASE WorkerReturns
  <2> DEFINE b == Refuse(conn)
             c == [b EXCEPT !.error_chan = b.error_chan + 1]
  <2>1. Alike(conn, b)
    BY <1>1 DEF Alike, IsConnection, Fields, Refuse
  <2>2. conn' = conn \/ conn' = c
    BY <1>6 DEF WorkerReturns, OnMessageReturns
  <2> HIDE DEF b
  <2>3. Alike(conn, c)
    BY <2>1 DEF Alike, IsConnection, Fields
  <2> HIDE DEF c
  <2> QED  BY <1>1, <1>2, <2>2, <2>3, ReaderKept
<1>7. CASE ProcessEnds
  <2> DEFINE c == [conn EXCEPT !.exited = TRUE]
  <2>1. Alike(conn, c)
    BY <1>1 DEF Alike, IsConnection, Fields
  <2>2. conn' = c
    BY <1>7 DEF ProcessEnds
  <2> HIDE DEF c
  <2> QED  BY <1>2, <2>1, <2>2, ReaderKept
<1>8. ASSUME NEW b, Alike(conn, b), NEW f, conn' = addTask(b, f)
      PROVE  DataInv'
  <2> DEFINE task == Append(b.sender_chan, [op |-> "frame", f |-> f])
             c == [b EXCEPT !.sender_chan = task]
  <2>1. conn' = c
    BY <1>8 DEF addTask
  <2> HIDE DEF task
  <2>2. Alike(conn, c)
    BY <1>8 DEF Alike, IsConnection, Fields
  <2> HIDE DEF c
  <2> QED  BY <1>2, <2>1, <2>2, ReaderKept
<1>9. CASE Heartbeat
  <2> DEFINE c == [conn EXCEPT !.pings = conn.pings + 1]
  <2>1. Alike(conn, c)
    BY <1>1 DEF Alike, IsConnection, Fields
  <2>2. conn' = addTask(c, HeartbeatPing)
    BY <1>9 DEF Heartbeat
  <2> HIDE DEF c
  <2> QED  BY <1>8, <2>1, <2>2
<1>10. CASE \E f \in Sends : Send(f)
  <2>1. \E f : conn' = addTask(conn, f)
    BY <1>10 DEF Send
  <2> QED  BY <1>1, <1>8, <2>1
<1>11. CASE SendHeader
  <2> DEFINE rest == Tail(conn.sender_chan)
             c == [conn EXCEPT !.sender_chan = rest]
             task == Head(conn.sender_chan)
             hd == Header(task.f.opcode, TRUE, task.f.len, IF Masked(task.f) THEN Key ELSE NoKey)
             cells == FrameCells(hd, task.f.data)
             e == [c EXCEPT !.sending = cells]
  <2>1. conn' = Exit(c, "sender") \/ conn' = c \/ conn' = e
    BY <1>11 DEF SendHeader
  <2> HIDE DEF rest, cells
  <2>2. Alike(conn, c)
    BY <1>1 DEF Alike, IsConnection, Fields
  <2> HIDE DEF c
  <2>3. Alike(conn, e)
    BY <2>2 DEF Alike, IsConnection, Fields
  <2> HIDE DEF e
  <2> QED  BY <1>2, <2>1, <2>2, <2>3, ReaderKept
<1>12. CASE SendPayload
  <2> DEFINE c == [conn EXCEPT !.sending = <<>>]
  <2>1. Alike(conn, c)
    BY <1>1 DEF Alike, IsConnection, Fields
  <2>2. conn' = c
    BY <1>12 DEF SendPayload
  <2> HIDE DEF c
  <2> QED  BY <1>2, <2>1, <2>2, ReaderKept
<1> QED  BY <1>3, <1>4, <1>5, <1>6, <1>7, <1>9, <1>10, <1>11, <1>12 DEF SenderStep

\* At first nothing has been sent, and the buffer is as the pool gave it.
LEMMA InitData ==
    ASSUME Init
    PROVE  DataInv
<1> DEFINE key == MsgKey
<1>1. PICK buffer \in {<<>>, <<Stale>>} : conn = NewConnection(buffer)
  BY DEF Init
<1>2. script \in Scripts /\ sent = 0 /\ in = <<>> /\ jobs = <<>> /\ calls = <<>>
  BY DEF Init
<1>3. conn.head = <<>> /\ conn.buffer = buffer /\ conn.opcode = 0 /\ conn.dispatched = 0
  BY <1>1 DEF NewConnection
<1>4. Conforms(script) /\ Len(script) \in Nat /\ DOMAIN script = 1 .. Len(script)
  BY <1>2, ScriptsAssumption DEF Conforms
<1>5. key \in {Key, NoKey}
  BY DEF MsgKey
<1> HIDE DEF key
<1>6. WorkInv(jobs, calls, 0, script, key)
  <2>1. <<>> \in Seq({}) /\ Len(<<>>) = 0 /\ \A i \in 1 .. 0 : FALSE
    OBVIOUS
  <2> QED  BY <1>2, <2>1 DEF WorkInv
<1>7. Idle(conn, script, 0)
  <2>1. ~Unfinished(script, 0)
    BY DEF Unfinished
  <2>2. UpTo(StartsOf(script), 0) = 0 /\ UpTo(EndsOf(script), 0) = 0
    <3>1. StartsOf(script) \in SUBSET (1 .. Len(script)) /\ EndsOf(script) \in SUBSET (1 .. Len(script))
      BY <1>4 DEF StartsOf, EndsOf
    <3> QED  BY <1>4, <3>1, UpToZero
  <2>3. Counts(0, script, 0, 0)
    BY <2>2 DEF Counts
  <2> QED  BY <1>1, <1>3, <2>1, <2>3 DEF Idle
<1>8. Incoming(in, script, key, 0, sent, FALSE)
  <2> DEFINE at == [i \in Nat |-> 0]
  <2>1. at \in [Nat -> Nat] /\ at[0] = 0
    OBVIOUS
  <2>2. in \in Seq(Cells(script, key)) /\ Len(in) = 0
    BY <1>2
  <2>3. (\A i, j \in 0 .. 0 : at[i] <= at[j]) /\ \A i \in 0 + 1 .. 0 : FALSE
    OBVIOUS
  <2> HIDE DEF at
  <2>4. Marked(in, script, key, at, 0, 0)
    BY <2>1, <2>2, <2>3 DEF Marked
  <2>5. MarkedFrom(in, script, key, 0, 0, 0)
    BY <2>1, <2>4 DEF MarkedFrom
  <2> QED  BY <1>2, <2>2, <2>5 DEF Incoming
<1>9. Tuned(in, conn, script, key, sent)
  <2>1. (conn.head # <<>>) = FALSE
    BY <1>3
  <2>2. Standing(conn, script, key, 0)
    BY <1>3, <1>7 DEF Standing, Handled
  <2> QED  BY <1>8, <2>1, <2>2 DEF Tuned
<1> QED  BY <1>2, <1>3, <1>4, <1>5, <1>6, <1>9 DEF DataInv, DataOK, key

\* Every step keeps what is read.
LEMMA NextData ==
    ASSUME Inv, DataInv, [Next]_vars
    PROVE  DataInv'
<1>1. CASE UNCHANGED vars
  <2>1. UNCHANGED <<conn, script, server_side, sent, in, sync, jobs, calls>>
    BY <1>1 DEF vars
  <2>2. MsgKey' = MsgKey
    BY <2>1 DEF MsgKey
  <2> QED  BY <2>1, <2>2, DataParts DEF DataInv, DataOK
<1> QED  BY <1>1, PeerSendsData, RecvKeepsData, WorkerKeepsData, OthersKeepData DEF Next

\* What is handed over is intact.
LEMMA DataIntact ==
    ASSUME DataInv
    PROVE  Intact
<1>1. /\ \A i \in 1 .. Len(calls) : Delivered(calls[i], script, MsgKey)
      /\ \A i, j \in 1 .. Len(calls) : i # j => calls[i].n # calls[j].n
      /\ \E S : calls \in Seq(S)
  BY DataParts DEF WorkInv
<1>2. DOMAIN calls = 1 .. Len(calls)
  BY <1>1, LenProperties
<1>3. ASSUME NEW i \in DOMAIN calls
      PROVE  Right(calls[i], FramesOf(calls[i].n), Fresh(calls[i]))
  <2>1. Delivered(calls[i], script, MsgKey) /\ Conforms(script)
    BY <1>1, <1>2, DataParts
  <2>2. MsgKey = (IF server_side THEN Key ELSE NoKey)
    BY DEF MsgKey
  <2> QED  BY <2>1, <2>2, DeliveredRight
<1>4. \A i, j \in DOMAIN calls : i # j => calls[i].n # calls[j].n
  BY <1>1, <1>2
<1> QED  BY <1>3, <1>4 DEF Intact, Right, Fresh, Whole

----------------------------------------------------------------------------
(* The theorems *)

\* The peer reads what was given to the sender and nothing else, each frame once, in its
\* turn, with its opcode, its length and its data, unmasked: for any number of senders'
\* calls of any length, and whatever ends the connection.
THEOREM PeerReadsFrames == Spec => []FramesRead
<1>1. Init => Inv
  BY InitSender
<1>2. Inv /\ [Next]_vars => Inv'
  BY NextSender
<1>3. Inv => FramesRead
  <2> SUFFICES ASSUME Inv PROVE FramesRead
    OBVIOUS
  <2>1. read \in Seq({Seen(f) : f \in Frames}) /\ Len(read) <= Len(queued) /\ \A i \in 1 .. Len(read) : read[i] = Seen(queued[i])
    BY DEF Inv, ReadInv
  <2>2. DOMAIN read = 1 .. Len(read)
    BY <2>1, LenProperties
  <2> QED  BY <2>1, <2>2 DEF FramesRead, Seen
<1> QED  BY <1>1, <1>2, <1>3, PTL DEF Spec

\* Every message that OnMessage is given is one the peer sent, of its type, with the data
\* of its frames in their order, and none is given twice: for every script a peer that
\* follows the protocol may send, masked or not, however its frames' cells are cut by the
\* reads and whichever worker runs first. (What the pool left in the buffer precedes the first
\* message only; masked fragments keep their data's names and not their bytes.)
THEOREM MessagesIntact == Spec => []Intact
<1>1. Init => Inv /\ DataInv
  BY InitSender, InitData
<1>2. Inv /\ DataInv /\ [Next]_vars => Inv' /\ DataInv'
  BY NextSender, NextData
<1>3. DataInv => Intact
  BY DataIntact
<1> QED  BY <1>1, <1>2, <1>3, PTL DEF Spec

=============================================================================
