------------------------- MODULE RpcStreamingProofs -------------------------
(***************************************************************************)
(* Proofs about RPC streams (RpcStreaming). What is between the message a  *)
(* side has got last and the one its peer has sent last is a line: cells   *)
(* on their way, a frame whose payload is about to be sent, and the tasks  *)
(* of the sender. Reading the line from the reader's position gives the    *)
(* messages in the order in which they were sent, and a CLOSE only after   *)
(* those that were sent before it.                                         *)
(***************************************************************************)
EXTENDS RpcStreaming, WsFrameProofs, FiniteSetTheorems

----------------------------------------------------------------------------
(* Types *)

Bin(m) == Header(BINARY, TRUE, Size(m), NoKey)
Signal(opcode) == Header(opcode, TRUE, 0, NoKey)

Frames == {Signal(PING), Signal(CLOSE)} \cup {Bin(m) : m \in Messages}
Body(m) == PayloadCell(Bin(m), m)

Cells == {Byte(b) : b \in ByteValues} \cup {Body(m) : m \in Messages}
Tasks == {NULL, Task(PING, NoData), Task(CLOSE, NoData)} \cup {Task(BINARY, m) : m \in Messages}
InboxItems == {NULL} \cup {Inbound(m) : m \in Messages}

Connections ==
    [live : SUBSET Fibers, open : BOOLEAN, sender_chan : Seq(Tasks), sending : {<<>>} \cup {<<Body(m)>> : m \in Messages},
     inbox : Seq(InboxItems), head : {<<>>} \cup {<<Bin(m)>> : m \in Messages},
     heartbeat_chan : 0 .. 1, error_chan : 0 .. 1, exit_signal : 0 .. 1, exited : BOOLEAN,
     opcode : {0}, closed : BOOLEAN, remote_close : BOOLEAN, pings : Nat]

Writers == {"idle", "send", "destroying", "gone"}
Readers == {"waiting", "stopped", "ended"}

TypeInv ==
    /\ conn \in [Sides -> Connections]
    /\ wire \in [Sides -> Seq(Cells)]
    /\ broken \in BOOLEAN
    /\ writer \in [Sides -> Writers] /\ reader \in [Sides -> Readers]
    /\ sent \in [Sides -> Seq(Messages)] /\ received \in [Sides -> Seq(Messages)]
    /\ closeAt \in [Sides -> Int] /\ heard \in [Sides -> BOOLEAN]

----------------------------------------------------------------------------
(* The inductive invariant *)

\* The four fibers of a side, and what close_wc_connection() has pushed for them: each
\* thing once, and nothing before it.
FibersInv(c) ==
    /\ c.closed <=> ~c.open
    /\ c.live # Fibers => c.closed
    /\ "heartbeat" \in c.live <=> "error" \in c.live
    /\ c.heartbeat_chan = c.error_chan
    /\ c.open => c.heartbeat_chan = 0 /\ \A i \in 1 .. Len(c.sender_chan) : c.sender_chan[i] # NULL
    /\ c.exit_signal > 0 => c.exited

\* An inbox holds messages, then nulls, and nulls only once the side has closed.
Ordered(inbox) ==
    /\ Items(inbox) \in 0 .. Len(inbox)
    /\ \A i \in 1 .. Len(inbox) : inbox[i] = NULL <=> i > Items(inbox)

InboxInv(c, r) ==
    /\ Ordered(c.inbox)
    /\ Len(c.inbox) <= Items(c.inbox) + (IF c.open THEN 0 ELSE 2)
    /\ r = "ended" => ~c.open /\ Items(c.inbox) = 0

\* What waits in an inbox are the messages that follow those recv() has returned.
Delivered(rec, inbox, snt) ==
    /\ Len(rec) + Items(inbox) <= Len(snt)
    /\ \A i \in 1 .. Items(inbox) : inbox[i] = Inbound(snt[Len(rec) + i])

\* A position in the line: how many cells are before it, whether a payload comes next, and
\* how many messages are complete there.
Marks == [at : Nat, body : BOOLEAN, level : Nat]

\* A frame whose header may come when k of the messages snt are complete; cl is where the
\* sender has closed, or -1.
FrameAt(h, k, snt, cl) ==
    \/ h = Signal(PING)
    \/ h = Signal(CLOSE) /\ cl \in 0 .. k
    \/ k < Len(snt) /\ h = Bin(snt[k + 1])

\* The cells that lead from one position to the next: a header or a payload.
Leads(m, cells, n, snt, cl) ==
    \/ /\ ~m.body /\ n.level = m.level
       /\ \E h \in Frames : FrameAt(h, m.level, snt, cl) /\ cells = HeaderCells(h) /\ n.body = (h.opcode = BINARY)
    \/ /\ m.body /\ m.level < Len(snt) /\ cells = <<Body(snt[m.level + 1])>>
       /\ ~n.body /\ n.level = m.level + 1

\* The cells are in w from position at on.
Spelled(w, at, cells) ==
    at + Len(cells) <= Len(w) /\ \A i \in 1 .. Len(cells) : w[at + i] = cells[i]

Follows(w, m, n, snt, cl) ==
    \E cells \in Seq(Cells) : Leads(m, cells, n, snt, cl) /\ n.at = m.at + Len(cells) /\ Spelled(w, m.at, cells)

\* From every position but the last, the cells of w lead to another.
Parsed(w, P, last, snt, cl) ==
    /\ P \in SUBSET Marks /\ last \in P /\ last.at = Len(w)
    /\ \A m \in P : m = last \/ \E n \in P : Follows(w, m, n, snt, cl)

\* The reader's position.
Reading(first, head, k, snt) ==
    /\ first.at = 0 /\ first.level = k
    /\ IF first.body THEN k < Len(snt) /\ head = <<Bin(snt[k + 1])>> ELSE head = <<>>

\* A task of the sender that has a messages before it, and b with it.
TaskAt(t, a, b, snt, cl) ==
    \/ t = Task(PING, NoData) /\ b = a
    \/ t = Task(CLOSE, NoData) /\ b = a /\ cl \in 0 .. a
    \/ b = a + 1 /\ b <= Len(snt) /\ t = Task(BINARY, snt[b])

\* The sender's tasks, from its position up to the last message.
Queue(chan, levels, snt, cl) ==
    /\ levels[Len(chan)] = Len(snt)
    /\ \A i \in 1 .. Len(chan) : TaskAt(chan[i], levels[i - 1], levels[i], snt, cl)

Queued(chan, a, snt, cl) ==
    \E levels \in [Nat -> Nat] : levels[0] = a /\ Queue(chan, levels, snt, cl)

Writing(last, sending, chan, snt, cl) ==
    IF last.body
    THEN last.level < Len(snt) /\ sending = <<Body(snt[last.level + 1])>> /\ Queued(chan, last.level + 1, snt, cl)
    ELSE sending = <<>> /\ Queued(chan, last.level, snt, cl)

\* The line to a reader that has got k messages.
Line(w, head, k, up, sending, chan, snt, cl) ==
    \E P \in SUBSET Marks : \E first \in P, last \in P :
        /\ Parsed(w, P, last, snt, cl)
        /\ Reading(first, head, k, snt)
        /\ up => Writing(last, sending, chan, snt, cl)

\* A side's calls and fibers: c is its connection, wr its writer, snt what it has sent and
\* cl where it has closed.
ActsIn(c, wr, snt, cl, script) ==
    /\ FibersInv(c)
    /\ wr = "send" => Len(snt) < Len(script)
    /\ Len(snt) <= Len(script) /\ cl <= Len(snt)

Acts(s) == ActsIn(conn[s], writer[s], sent[s], closeAt[s], Script[s])

\* What a side reads: c is its connection, r its reader, rec what recv() has returned, w
\* the cells on their way to it, d the peer's connection, which has sent snt and has
\* closed at cl.
ReadsIn(c, r, rec, hrd, w, d, snt, cl, brk) ==
    /\ InboxInv(c, r)
    /\ Delivered(rec, c.inbox, snt)
    /\ hrd => cl \in 0 .. Len(rec) + Items(c.inbox)
    /\ c.open /\ ~brk => Line(w, c.head, Len(rec) + Items(c.inbox), d.open, d.sending, d.sender_chan, snt, cl)

Reads(s) ==
    ReadsIn(conn[s], reader[s], received[s], heard[s], wire[s], conn[Peer(s)], sent[Peer(s)], closeAt[Peer(s)], broken)

Inv == TypeInv /\ \A s \in Sides : Acts(s) /\ Reads(s)

----------------------------------------------------------------------------
(* Frames, inboxes and sequences *)

\* The two sides face each other.
LEMMA PeerFacts ==
    /\ \A s \in Sides : Peer(s) \in Sides /\ Peer(Peer(s)) = s /\ Peer(s) # s
    /\ \A s, t \in Sides : t = s \/ t = Peer(s)
  BY DEF Sides, Peer

\* The headers of a stream are headers, and their bytes are cells.
LEMMA FrameFacts ==
    ASSUME NEW h \in Frames
    PROVE  h \in Headers /\ HeaderCells(h) \in Seq(Cells) /\ Len(HeaderCells(h)) \in Nat \ {0}
<1>1. ASSUME NEW opcode \in 0 .. 15, NEW len \in Lengths
      PROVE  Header(opcode, TRUE, len, NoKey) \in Headers
  BY DEF Headers, Header, Keys, Opcodes
<1>2. 0 \in Lengths
  BY DEF Lengths
<1>3. h \in Headers
  <2>1. CASE h \in {Signal(PING), Signal(CLOSE)}
    <3>1. PING \in 0 .. 15 /\ CLOSE \in 0 .. 15
      BY DEF PING, CLOSE
    <3> QED  BY <1>1, <1>2, <2>1, <3>1 DEF Signal
  <2>2. ASSUME NEW m \in Messages, h = Bin(m)
        PROVE  h \in Headers
    <3>1. BINARY \in 0 .. 15
      BY DEF BINARY
    <3>2. Size(m) \in Lengths
      BY SizeAssumption
    <3> QED  BY <1>1, <2>2, <3>1, <3>2 DEF Bin
  <2> QED  BY <2>1, <2>2 DEF Frames
<1> DEFINE bytes == make_frame_header(h)
<1>4. bytes \in Seq(ByteValues)
  BY <1>3, HeaderBytes
<1>5. Len(bytes) = 2 + LengthBytes(h.len) + Len(h.key)
  BY <1>3, HeaderBytes
<1>6. HeaderCells(h) \in [1 .. Len(bytes) -> Cells]
  <2> HIDE DEF bytes
  <2>1. \A i \in 1 .. Len(bytes) : Byte(bytes[i]) \in Cells
    BY <1>4 DEF Cells
  <2>2. DOMAIN bytes = 1 .. Len(bytes)
    BY <1>4
  <2> QED  BY <2>1, <2>2 DEF HeaderCells, bytes
<1>7. Len(bytes) \in Nat \ {0}
  <2>1. PICK n \in Nat : n = h.len
    BY <1>3 DEF Headers, Lengths
  <2>2. LengthBytes(n) \in {0, 2, 8}
    BY LengthFormats
  <2>3. h.key = NoKey
    BY DEF Frames, Signal, Bin, Header
  <2>4. Len(NoKey) = 0
    BY DEF NoKey
  <2> HIDE DEF bytes
  <2>5. Len(bytes) = 2 + LengthBytes(n) + 0
    BY <1>5, <2>1, <2>3, <2>4
  <2> QED  BY <2>2, <2>5
<1>8. HeaderCells(h) \in Seq(Cells) /\ Len(HeaderCells(h)) = Len(bytes)
  <2>1. Len(bytes) \in Nat
    BY <1>7
  <2> HIDE DEF bytes
  <2> QED  BY <1>6, <2>1, FunctionIsSeq
<1> QED  BY <1>3, <1>7, <1>8

\* Where an inbox holds q messages and then nulls, Items and Nulls count them.
LEMMA ItemsAre ==
    ASSUME NEW inbox \in Seq(InboxItems), NEW q \in 0 .. Len(inbox),
           \A i \in 1 .. Len(inbox) : inbox[i] = NULL <=> i > q
    PROVE  Items(inbox) = q /\ Nulls(inbox) = Len(inbox) - q
<1>1. Len(inbox) \in Nat /\ DOMAIN inbox = 1 .. Len(inbox)
  OBVIOUS
<1>2. {i \in DOMAIN inbox : inbox[i] # NULL} = 1 .. q
  <2>1. \A i : i \in DOMAIN inbox /\ inbox[i] # NULL <=> i \in 1 .. q
    BY <1>1
  <2> QED  BY <2>1
<1>3. {i \in DOMAIN inbox : inbox[i] = NULL} = q + 1 .. Len(inbox)
  <2>1. {i \in DOMAIN inbox : inbox[i] = NULL} = {i \in 1 .. Len(inbox) : i > q}
    BY <1>1
  <2>2. ASSUME NEW n \in Nat, q \in Nat
        PROVE  {i \in 1 .. n : i > q} = q + 1 .. n
    BY <2>2
  <2> QED  BY <1>1, <2>1, <2>2
<1>4. Cardinality(1 .. q) = q
  BY FS_Interval
<1>5. Cardinality(q + 1 .. Len(inbox)) = Len(inbox) - q
  <2>0. q + 1 \in Int /\ Len(inbox) \in Int /\ q \in Int
    BY <1>1
  <2>1. PICK a \in Int, b \in Int : a = q + 1 /\ b = Len(inbox)
    BY <2>0, Zenon
  <2>2. Cardinality(a .. b) = IF a > b THEN 0 ELSE b - a + 1
    BY FS_Interval
  <2> QED  BY <1>1, <2>1, <2>2
<1> QED  BY <1>2, <1>3, <1>4, <1>5 DEF Items, Nulls

----------------------------------------------------------------------------
(* The line: what reading and writing do to it *)

\* Cells that are added at the end change nothing before it, and can be read there.
LEMMA SpelledAppend ==
    ASSUME NEW w \in Seq(Cells), NEW more \in Seq(Cells), NEW at \in Nat, NEW cells \in Seq(Cells)
    PROVE  /\ Spelled(w, at, cells) => Spelled(w \o more, at, cells)
           /\ Spelled(w \o more, Len(w), more)
  BY DEF Spelled

\* Cells that have been read are dropped: the others are where they were, less these.
LEMMA SpelledDrop ==
    ASSUME NEW w \in Seq(Cells), NEW k \in Nat, k <= Len(w), NEW at \in Nat, k <= at, NEW cells \in Seq(Cells),
           Spelled(w, at, cells)
    PROVE  Spelled(SubSeq(w, k + 1, Len(w)), at - k, cells)
<1> DEFINE v == SubSeq(w, k + 1, Len(w))
<1>1. v \in Seq(Cells) /\ Len(v) = Len(w) - k /\ \A i \in 1 .. Len(v) : v[i] = w[k + i]
  OBVIOUS
<1>2. Len(cells) \in Nat /\ Len(w) \in Nat
  OBVIOUS
<1> HIDE DEF v
<1>3. at - k + Len(cells) <= Len(v)
  BY <1>1, <1>2 DEF Spelled
<1>4. \A i \in 1 .. Len(cells) : v[at - k + i] = cells[i]
  <2> TAKE i \in 1 .. Len(cells)
  <2>1. at - k + i \in 1 .. Len(v)
    BY <1>1, <1>2, <1>3
  <2>2. v[at - k + i] = w[k + (at - k + i)]
    BY <1>1, <2>1
  <2>3. k + (at - k + i) = at + i
    BY <1>2
  <2> QED  BY <2>2, <2>3 DEF Spelled
<1> QED  BY <1>3, <1>4 DEF Spelled, v

\* What begins at position 0 begins the cells.
LEMMA SpelledFirst ==
    ASSUME NEW w \in Seq(Cells), NEW cells \in Seq(Cells), Spelled(w, 0, cells)
    PROVE  w = cells \o SubSeq(w, Len(cells) + 1, Len(w)) /\ SubSeq(w, Len(cells) + 1, Len(w)) \in Seq(Cells)
  BY DEF Spelled

\* The messages that have been sent, and where a side has closed, only grow.
Grown(snt, cl, snt2, cl2) ==
    /\ Len(snt) <= Len(snt2) /\ \A i \in 1 .. Len(snt) : snt2[i] = snt[i]
    /\ cl >= 0 => cl2 = cl

\* What was a step of the line remains one when more is sent.
LEMMA LeadsGrown ==
    ASSUME NEW snt \in Seq(Messages), NEW snt2 \in Seq(Messages), NEW cl \in Int, NEW cl2 \in Int,
           Grown(snt, cl, snt2, cl2), NEW m \in Marks, NEW n \in Marks, NEW cells, Leads(m, cells, n, snt, cl)
    PROVE  Leads(m, cells, n, snt2, cl2)
<1>1. Len(snt) \in Nat /\ Len(snt2) \in Nat /\ m.level \in Nat
  BY DEF Marks
<1>2. ASSUME m.level < Len(snt)
      PROVE  m.level < Len(snt2) /\ snt2[m.level + 1] = snt[m.level + 1]
  BY <1>1, <1>2 DEF Grown
<1>3. ASSUME NEW h \in Frames, FrameAt(h, m.level, snt, cl)
      PROVE  FrameAt(h, m.level, snt2, cl2)
  <2>1. CASE h = Signal(PING)
    BY <2>1 DEF FrameAt
  <2>2. CASE h = Signal(CLOSE) /\ cl \in 0 .. m.level
    BY <1>1, <2>2 DEF FrameAt, Grown
  <2>3. CASE m.level < Len(snt) /\ h = Bin(snt[m.level + 1])
    BY <1>2, <2>3 DEF FrameAt
  <2> QED  BY <1>3, <2>1, <2>2, <2>3 DEF FrameAt
<1> QED  BY <1>2, <1>3 DEF Leads

\* And so does the line.
LEMMA ParsedGrown ==
    ASSUME NEW snt \in Seq(Messages), NEW snt2 \in Seq(Messages), NEW cl \in Int, NEW cl2 \in Int,
           Grown(snt, cl, snt2, cl2), NEW w, NEW P, NEW last, Parsed(w, P, last, snt, cl)
    PROVE  Parsed(w, P, last, snt2, cl2)
<1>1. ASSUME NEW m \in P, NEW n \in P, Follows(w, m, n, snt, cl)
      PROVE  Follows(w, m, n, snt2, cl2)
  <2>1. m \in Marks /\ n \in Marks
    BY DEF Parsed
  <2> QED  BY <1>1, <2>1, LeadsGrown DEF Follows
<1> QED  BY <1>1 DEF Parsed

\* The sender adds a header or a payload at the end of the line.
LEMMA ParsedAppend ==
    ASSUME NEW snt \in Seq(Messages), NEW cl \in Int, NEW w \in Seq(Cells), NEW P, NEW last,
           Parsed(w, P, last, snt, cl),
           NEW cells \in Seq(Cells), NEW next \in Marks, Leads(last, cells, next, snt, cl), next.at = Len(w) + Len(cells)
    PROVE  Parsed(w \o cells, P \cup {next}, next, snt, cl)
<1>1. P \in SUBSET Marks /\ last \in P /\ last.at = Len(w) /\ last \in Marks
  BY DEF Parsed
<1>2. Len(w \o cells) = Len(w) + Len(cells)
  OBVIOUS
<1>3. ASSUME NEW m \in P, NEW n \in P, Follows(w, m, n, snt, cl)
      PROVE  Follows(w \o cells, m, n, snt, cl)
  <2>1. PICK c \in Seq(Cells) : Leads(m, c, n, snt, cl) /\ n.at = m.at + Len(c) /\ Spelled(w, m.at, c)
    BY <1>3 DEF Follows
  <2>2. m.at \in Nat
    BY <1>1 DEF Marks
  <2>3. Spelled(w \o cells, m.at, c)
    BY <2>1, <2>2, SpelledAppend
  <2> QED  BY <2>1, <2>3 DEF Follows
<1>4. Follows(w \o cells, last, next, snt, cl)
  <2>1. Spelled(w \o cells, Len(w), cells)
    BY SpelledAppend, 0 \in Nat
  <2> QED  BY <1>1, <2>1 DEF Follows
<1>5. ASSUME NEW m \in P \cup {next}
      PROVE  m = next \/ \E n \in P \cup {next} : Follows(w \o cells, m, n, snt, cl)
  <2>1. CASE m = next
    BY <2>1
  <2>2. CASE m = last
    BY <1>4, <2>2
  <2>3. CASE m \in P /\ m # last
    <3>1. PICK n \in P : Follows(w, m, n, snt, cl)
      BY <2>3 DEF Parsed
    <3> QED  BY <1>3, <2>3, <3>1
  <2> QED  BY <1>5, <2>1, <2>2, <2>3
<1>6. P \cup {next} \in SUBSET Marks
  BY <1>1
<1> QED  BY <1>2, <1>5, <1>6 DEF Parsed

\* A position after k cells have been read.
Moved(m, k) == [at |-> m.at - k, body |-> m.body, level |-> m.level]

\* A step of the line is one after the cells before it have been read.
LEMMA FollowsMoved ==
    ASSUME NEW snt \in Seq(Messages), NEW cl \in Int, NEW w \in Seq(Cells), NEW k \in Nat, k <= Len(w),
           NEW m \in Marks, NEW n \in Marks, m.at >= k, Follows(w, m, n, snt, cl)
    PROVE  n.at >= k /\ Follows(SubSeq(w, k + 1, Len(w)), Moved(m, k), Moved(n, k), snt, cl)
<1>1. PICK c \in Seq(Cells) : Leads(m, c, n, snt, cl) /\ n.at = m.at + Len(c) /\ Spelled(w, m.at, c)
  BY DEF Follows
<1>2. m.at \in Nat /\ n.at \in Nat /\ Len(c) \in Nat
  BY DEF Marks
<1>3. Leads(Moved(m, k), c, Moved(n, k), snt, cl)
  BY <1>1 DEF Leads, Moved
<1>4. Moved(n, k).at = Moved(m, k).at + Len(c) /\ Moved(m, k).at = m.at - k
  BY <1>1, <1>2 DEF Moved
<1>5. Spelled(SubSeq(w, k + 1, Len(w)), m.at - k, c)
  BY <1>1, <1>2, SpelledDrop
<1>6. n.at >= k
  BY <1>1, <1>2
<1> QED  BY <1>3, <1>4, <1>5, <1>6 DEF Follows

\* The first cells of the line, and the line without them.
Dropped(w, first, last, snt, cl) ==
    \E cells \in Seq(Cells), rest \in Seq(Cells), Q \in SUBSET Marks : \E next \in Q, end \in Q :
        /\ Leads(first, cells, next, snt, cl) /\ w = cells \o rest /\ rest = SubSeq(w, Len(cells) + 1, Len(w))
        /\ next.at = 0 /\ end.body = last.body /\ end.level = last.level
        /\ Parsed(rest, Q, end, snt, cl)

\* Reading the first cells of the line leaves a line that begins at the next position.
LEMMA ParsedDrop ==
    ASSUME NEW snt \in Seq(Messages), NEW cl \in Int, NEW w \in Seq(Cells), w # <<>>, NEW P, NEW last,
           Parsed(w, P, last, snt, cl), NEW first \in P, first.at = 0
    PROVE  Dropped(w, first, last, snt, cl)
<1>1. P \in SUBSET Marks /\ last \in P /\ last.at = Len(w) /\ last \in Marks /\ first \in Marks
  BY DEF Parsed
<1>2. first # last
  <2>1. Len(w) # 0
    OBVIOUS
  <2> QED  BY <1>1, <2>1
<1>3. PICK n \in P : Follows(w, first, n, snt, cl)
  BY <1>2 DEF Parsed
<1>4. PICK c \in Seq(Cells) : Leads(first, c, n, snt, cl) /\ n.at = first.at + Len(c) /\ Spelled(w, first.at, c)
  BY <1>3 DEF Follows
<1> DEFINE k == Len(c)
           rest == SubSeq(w, k + 1, Len(w))
           Q == {Moved(m, k) : m \in {x \in P : x.at >= k}}
           next == Moved(n, k)
           end == Moved(last, k)
<1>5. k \in Nat /\ Len(w) \in Nat /\ k <= Len(w) /\ n.at = k /\ n \in Marks
  <2>1. k \in Nat /\ Len(w) \in Nat
    OBVIOUS
  <2> HIDE DEF k
  <2> QED  BY <1>1, <1>4, <2>1 DEF Spelled, k
<1>6. w = c \o rest /\ rest \in Seq(Cells) /\ Len(rest) = Len(w) - k
  <2>1. Spelled(w, 0, c)
    BY <1>4
  <2>2. w = c \o rest /\ rest \in Seq(Cells)
    BY <2>1, SpelledFirst
  <2>3. Len(rest) = Len(w) - k
    BY <1>5
  <2> QED  BY <2>2, <2>3
<1> HIDE DEF k
<1>7. Q \in SUBSET Marks
  <2>1. \A m \in Marks : m.at >= k => Moved(m, k) \in Marks
    BY <1>5 DEF Marks, Moved
  <2> QED  BY <1>1, <2>1
<1>8. next \in Q /\ end \in Q
  BY <1>1, <1>5
<1>9. next.at = 0 /\ end.at = Len(rest) /\ end.body = last.body /\ end.level = last.level
  <2> HIDE DEF rest
  <2> QED  BY <1>1, <1>5, <1>6 DEF Moved
<1>10. Leads(first, c, next, snt, cl)
  BY <1>4 DEF Leads, Moved
<1>11. ASSUME NEW q \in Q
       PROVE  q = end \/ \E r \in Q : Follows(rest, q, r, snt, cl)
  <2>1. PICK m \in P : m.at >= k /\ q = Moved(m, k)
    OBVIOUS
  <2>2. CASE m = last
    BY <2>1, <2>2
  <2>3. CASE m # last
    <3>1. PICK r \in P : Follows(w, m, r, snt, cl)
      BY <2>3 DEF Parsed
    <3>2. m \in Marks /\ r \in Marks
      BY <1>1
    <3>3. r.at >= k /\ Follows(rest, Moved(m, k), Moved(r, k), snt, cl)
      BY <1>5, <2>1, <3>1, <3>2, FollowsMoved
    <3>4. Moved(r, k) \in Q
      BY <3>3
    <3> HIDE DEF Q, rest
    <3> QED  BY <2>1, <3>3, <3>4
  <2> QED  BY <2>2, <2>3
<1> HIDE DEF Q, next, end, rest
<1>12. Parsed(rest, Q, end, snt, cl)
  BY <1>7, <1>8, <1>9, <1>11 DEF Parsed
<1>13. rest = SubSeq(w, Len(c) + 1, Len(w))
  BY DEF rest, k
<1> QED  BY <1>6, <1>7, <1>8, <1>9, <1>10, <1>12, <1>13 DEF Dropped

\* The tasks remain in line when more is sent.
LEMMA TaskGrown ==
    ASSUME NEW snt \in Seq(Messages), NEW snt2 \in Seq(Messages), NEW cl \in Int, NEW cl2 \in Int,
           Grown(snt, cl, snt2, cl2), NEW a \in Nat, NEW b \in Nat, NEW t, TaskAt(t, a, b, snt, cl)
    PROVE  TaskAt(t, a, b, snt2, cl2)
<1>1. Len(snt) \in Nat /\ Len(snt2) \in Nat
  OBVIOUS
<1>2. CASE t = Task(CLOSE, NoData) /\ b = a /\ cl \in 0 .. a
  <2>1. cl >= 0
    BY <1>2
  <2>2. cl2 = cl
    BY <2>1 DEF Grown
  <2> QED  BY <1>2, <2>2 DEF TaskAt
<1>3. CASE b = a + 1 /\ b <= Len(snt) /\ t = Task(BINARY, snt[b])
  <2>1. b \in 1 .. Len(snt) /\ b <= Len(snt2)
    BY <1>1, <1>3 DEF Grown
  <2> QED  BY <1>3, <2>1 DEF Grown, TaskAt
<1> QED  BY <1>2, <1>3 DEF TaskAt

\* A task is added to those that wait.
LEMMA QueueAppend ==
    ASSUME NEW snt \in Seq(Messages), NEW snt2 \in Seq(Messages), NEW cl \in Int, NEW cl2 \in Int,
           Grown(snt, cl, snt2, cl2), NEW chan \in Seq(Tasks), NEW a, Queued(chan, a, snt, cl),
           NEW t \in Tasks, TaskAt(t, Len(snt), Len(snt2), snt2, cl2)
    PROVE  Queued(Append(chan, t), a, snt2, cl2)
<1> PICK levels \in [Nat -> Nat] : levels[0] = a /\ Queue(chan, levels, snt, cl)
  BY DEF Queued
<1> DEFINE k == Len(chan)
           more == Append(chan, t)
           levels2 == [levels EXCEPT ![k + 1] = Len(snt2)]
<1>1. k \in Nat /\ Len(snt) \in Nat /\ Len(snt2) \in Nat
  BY LenProperties
<1>2. Len(more) = k + 1 /\ more[k + 1] = t /\ \A i \in 1 .. k : more[i] = chan[i]
  OBVIOUS
<1> HIDE DEF more
<1>3. levels[k] = Len(snt) /\ \A i \in 1 .. k : TaskAt(chan[i], levels[i - 1], levels[i], snt, cl)
  BY DEF Queue
<1> HIDE DEF k
<1>4. levels2 \in [Nat -> Nat] /\ levels2[k + 1] = Len(snt2) /\ \A i \in 0 .. k : levels2[i] = levels[i]
  <2>1. PICK n \in Nat : n = Len(snt2)
    BY <1>1
  <2>2. levels2 = [levels EXCEPT ![k + 1] = n]
    BY <2>1
  <2> HIDE DEF levels2
  <2>3. levels2 \in [Nat -> Nat]
    BY <1>1, <2>2
  <2>4. levels2[k + 1] = n
    BY <1>1, <2>2
  <2>5. \A i \in 0 .. k : levels2[i] = levels[i]
    BY <1>1, <2>2
  <2> QED  BY <2>1, <2>3, <2>4, <2>5
<1> HIDE DEF levels2
<1>5. \A i \in 1 .. k + 1 : TaskAt(more[i], levels2[i - 1], levels2[i], snt2, cl2)
  <2> TAKE i \in 1 .. k + 1
  <2>1. CASE i = k + 1
    <3>1. i - 1 = k /\ k \in 0 .. k
      BY <1>1, <2>1
    <3> QED  BY <1>2, <1>3, <1>4, <2>1, <3>1
  <2>2. CASE i \in 1 .. k
    <3>1. i - 1 \in 0 .. k /\ i \in 0 .. k /\ i - 1 \in Nat /\ i \in Nat
      BY <1>1, <2>2
    <3>2. TaskAt(chan[i], levels[i - 1], levels[i], snt2, cl2)
      <4>1. levels[i - 1] \in Nat /\ levels[i] \in Nat
        BY <3>1
      <4> QED  BY <1>3, <2>2, <4>1, TaskGrown
    <3> QED  BY <1>2, <1>4, <2>2, <3>1, <3>2
  <2> QED  BY <1>1, <2>1, <2>2
<1>6. Queue(more, levels2, snt2, cl2)
  BY <1>2, <1>4, <1>5 DEF Queue
<1>7. levels2[0] = a
  BY <1>1, <1>4
<1> QED  BY <1>4, <1>6, <1>7 DEF more, Queued

\* A task is taken from those that wait.
LEMMA QueueTail ==
    ASSUME NEW snt \in Seq(Messages), NEW cl \in Int, NEW chan \in Seq(Tasks), chan # <<>>,
           NEW a \in Nat, Queued(chan, a, snt, cl)
    PROVE  \E b \in Nat : TaskAt(Head(chan), a, b, snt, cl) /\ Queued(Tail(chan), b, snt, cl)
<1> PICK levels \in [Nat -> Nat] : levels[0] = a /\ Queue(chan, levels, snt, cl)
  BY DEF Queued
<1> DEFINE k == Len(chan)
           less == Tail(chan)
           levels2 == [i \in Nat |-> levels[i + 1]]
<1>1. k \in Nat /\ k >= 1 /\ Len(snt) \in Nat
  OBVIOUS
<1>2. Len(less) = k - 1 /\ Head(chan) = chan[1] /\ \A i \in 1 .. k - 1 : less[i] = chan[i + 1]
  OBVIOUS
<1> HIDE DEF less
<1>3. levels[k] = Len(snt) /\ \A i \in 1 .. k : TaskAt(chan[i], levels[i - 1], levels[i], snt, cl)
  BY DEF Queue
<1> HIDE DEF k
<1>4. levels2 \in [Nat -> Nat] /\ \A i \in Nat : levels2[i] = levels[i + 1]
  OBVIOUS
<1> HIDE DEF levels2
<1>5. TaskAt(Head(chan), levels[0], levels[1], snt, cl)
  <2>1. 1 \in 1 .. k /\ 1 - 1 = 0
    BY <1>1
  <2> QED  BY <1>2, <1>3, <2>1
<1>6. \A i \in 1 .. k - 1 : TaskAt(less[i], levels2[i - 1], levels2[i], snt, cl)
  <2> TAKE i \in 1 .. k - 1
  <2>1. i + 1 \in 1 .. k /\ i - 1 \in Nat /\ i \in Nat /\ (i + 1) - 1 = i /\ (i - 1) + 1 = i
    BY <1>1
  <2>2. TaskAt(chan[i + 1], levels[i], levels[i + 1], snt, cl)
    BY <1>3, <2>1
  <2> QED  BY <1>2, <1>4, <2>1, <2>2
<1>7. levels2[Len(less)] = Len(snt)
  <2>1. k - 1 \in Nat /\ (k - 1) + 1 = k
    BY <1>1
  <2> QED  BY <1>2, <1>3, <1>4, <2>1
<1>8. Queue(less, levels2, snt, cl)
  BY <1>2, <1>6, <1>7 DEF Queue
<1>9. levels2[0] = levels[1]
  BY <1>4
<1>10. Queued(less, levels[1], snt, cl) /\ levels[1] \in Nat
  BY <1>4, <1>8, <1>9 DEF Queued
<1> QED  BY <1>5, <1>10 DEF less

----------------------------------------------------------------------------
(* The inbox *)

\* A null is put behind what waits.
LEMMA InboxNull ==
    ASSUME NEW inbox \in Seq(InboxItems), Ordered(inbox)
    PROVE  /\ Append(inbox, NULL) \in Seq(InboxItems) /\ Ordered(Append(inbox, NULL))
           /\ Items(Append(inbox, NULL)) = Items(inbox) /\ Len(Append(inbox, NULL)) = Len(inbox) + 1
           /\ \A i \in 1 .. Items(inbox) : Append(inbox, NULL)[i] = inbox[i]
<1> DEFINE more == Append(inbox, NULL)
           q == Items(inbox)
<1>1. NULL \in InboxItems
  BY DEF InboxItems
<1>2. more \in Seq(InboxItems) /\ Len(more) = Len(inbox) + 1 /\ more[Len(inbox) + 1] = NULL /\ Len(inbox) \in Nat
      /\ \A i \in 1 .. Len(inbox) : more[i] = inbox[i]
  BY <1>1
<1>3. q \in 0 .. Len(inbox) /\ \A i \in 1 .. Len(inbox) : inbox[i] = NULL <=> i > q
  BY DEF Ordered
<1> HIDE DEF more, q
<1>4. q \in 0 .. Len(more) /\ \A i \in 1 .. Len(more) : more[i] = NULL <=> i > q
  BY <1>2, <1>3
<1>5. Items(more) = q
  BY <1>2, <1>4, ItemsAre
<1>6. Ordered(more)
  BY <1>4, <1>5 DEF Ordered
<1>7. \A i \in 1 .. q : more[i] = inbox[i]
  BY <1>2, <1>3
<1> QED  BY <1>2, <1>5, <1>6, <1>7 DEF more, q

\* A message is put behind messages.
LEMMA InboxMessage ==
    ASSUME NEW inbox \in Seq(InboxItems), Ordered(inbox), Items(inbox) = Len(inbox), NEW m \in Messages
    PROVE  LET more == Append(inbox, Inbound(m))
           IN  /\ more \in Seq(InboxItems) /\ Ordered(more)
               /\ Items(more) = Items(inbox) + 1 /\ Len(more) = Items(more)
               /\ more[Items(inbox) + 1] = Inbound(m)
               /\ \A i \in 1 .. Items(inbox) : more[i] = inbox[i]
<1> DEFINE more == Append(inbox, Inbound(m))
           n == Len(inbox)
<1>1. Inbound(m) \in InboxItems /\ Inbound(m) # NULL
  BY DEF InboxItems, Inbound, NULL
<1>2. more \in Seq(InboxItems) /\ Len(more) = n + 1 /\ more[n + 1] = Inbound(m) /\ n \in Nat
      /\ \A i \in 1 .. n : more[i] = inbox[i]
  BY <1>1
<1>3. \A i \in 1 .. n : inbox[i] # NULL
  <2>1. \A i \in 1 .. n : inbox[i] = NULL <=> i > n
    BY DEF Ordered
  <2> QED  BY <1>2, <2>1
<1> HIDE DEF more, n
<1>4. n + 1 \in 0 .. Len(more) /\ \A i \in 1 .. Len(more) : more[i] = NULL <=> i > n + 1
  BY <1>1, <1>2, <1>3
<1>5. Items(more) = n + 1
  <2>1. PICK q \in 0 .. Len(more) : q = n + 1
    BY <1>4
  <2> QED  BY <1>2, <1>4, <2>1, ItemsAre
<1>6. Ordered(more)
  BY <1>4, <1>5 DEF Ordered
<1> QED  BY <1>2, <1>5, <1>6 DEF more, n

\* recv() takes the first item.
LEMMA InboxTail ==
    ASSUME NEW inbox \in Seq(InboxItems), inbox # <<>>, Ordered(inbox)
    PROVE  /\ Tail(inbox) \in Seq(InboxItems) /\ Ordered(Tail(inbox)) /\ Len(Tail(inbox)) = Len(inbox) - 1
           /\ Head(inbox) = NULL => Items(inbox) = 0 /\ Items(Tail(inbox)) = 0
           /\ Head(inbox) # NULL => /\ Items(inbox) >= 1 /\ Items(Tail(inbox)) = Items(inbox) - 1
                                    /\ Head(inbox) = inbox[1]
                                    /\ \A i \in 1 .. Items(inbox) - 1 : Tail(inbox)[i] = inbox[i + 1]
<1> DEFINE less == Tail(inbox)
           n == Len(inbox)
           q == Items(inbox)
           p == IF q = 0 THEN 0 ELSE q - 1
<1>1. n \in Nat /\ n >= 1 /\ less \in Seq(InboxItems) /\ Len(less) = n - 1 /\ Head(inbox) = inbox[1]
      /\ \A i \in 1 .. n - 1 : less[i] = inbox[i + 1]
  OBVIOUS
<1>2. q \in 0 .. n /\ \A i \in 1 .. n : inbox[i] = NULL <=> i > q
  BY DEF Ordered
<1> HIDE DEF less, n, q
<1>3. p \in 0 .. Len(less) /\ (q = 0 => p = 0) /\ (q # 0 => p = q - 1)
  BY <1>1, <1>2
<1>4. \A i \in 1 .. Len(less) : less[i] = NULL <=> i > p
  <2> TAKE i \in 1 .. Len(less)
  <2>1. i + 1 \in 1 .. n /\ i \in 1 .. n - 1
    BY <1>1
  <2>2. less[i] = NULL <=> i + 1 > q
    BY <1>1, <1>2, <2>1
  <2> QED  BY <1>1, <1>2, <1>3, <2>2
<1> HIDE DEF p
<1>5. Items(less) = p
  BY <1>1, <1>3, <1>4, ItemsAre
<1>6. Ordered(less)
  BY <1>3, <1>4, <1>5 DEF Ordered
<1>7. Head(inbox) = NULL <=> q = 0
  BY <1>1, <1>2
<1>8. ASSUME q # 0
      PROVE  q >= 1 /\ p = q - 1 /\ \A i \in 1 .. q - 1 : less[i] = inbox[i + 1]
  BY <1>1, <1>2, <1>3, <1>8
<1> QED  BY <1>1, <1>3, <1>5, <1>6, <1>7, <1>8 DEF less, n, q

----------------------------------------------------------------------------
(* The connection *)

\* The end of the recv fiber or the sender: everything is pushed once.
LEMMA ExitFacts ==
    ASSUME NEW c \in Connections, FibersInv(c), NEW fiber \in {"recv", "sender"}
    PROVE  LET d == Exit(c, fiber)
           IN  /\ d \in Connections /\ FibersInv(d) /\ ~d.open
               /\ d.inbox = IF c.open THEN Append(c.inbox, NULL) ELSE c.inbox
               /\ d.head = c.head /\ d.sending = c.sending
               /\ ~c.open => d.sender_chan = c.sender_chan
<1> DEFINE b == [c EXCEPT !.live = c.live \ {fiber}]
           d == Exit(c, fiber)
           e == [b EXCEPT !.closed = TRUE, !.remote_close = TRUE, !.inbox = Append(c.inbox, NULL), !.open = FALSE,
                          !.sender_chan = Append(c.sender_chan, NULL), !.heartbeat_chan = c.heartbeat_chan + 1,
                          !.error_chan = c.error_chan + 1]
<1>1. c.closed \in BOOLEAN /\ c.open \in BOOLEAN /\ c.live \in SUBSET Fibers /\ c.inbox \in Seq(InboxItems)
      /\ c.sender_chan \in Seq(Tasks) /\ c.heartbeat_chan \in 0 .. 1 /\ c.error_chan \in 0 .. 1
      /\ c.exit_signal \in 0 .. 1 /\ c.exited \in BOOLEAN
  BY DEF Connections
<1>2. NULL \in InboxItems /\ NULL \in Tasks
  BY DEF InboxItems, Tasks
<1>3. c.live \ {fiber} \in SUBSET Fibers
  BY <1>1
<1>4. b \in Connections
  BY <1>3 DEF Connections
<1>5. "heartbeat" \in c.live \ {fiber} <=> "error" \in c.live \ {fiber}
  BY DEF FibersInv
<1>6. /\ b.live = c.live \ {fiber} /\ b.closed = c.closed /\ b.open = c.open /\ b.inbox = c.inbox /\ b.head = c.head
      /\ b.sending = c.sending /\ b.sender_chan = c.sender_chan /\ b.heartbeat_chan = c.heartbeat_chan
      /\ b.error_chan = c.error_chan /\ b.exit_signal = c.exit_signal /\ b.exited = c.exited
  BY DEF Connections
<1>7. d = IF c.closed THEN b ELSE e
  <2>1. d = IF b.closed THEN b
            ELSE [b EXCEPT !.closed = TRUE, !.remote_close = TRUE, !.inbox = Append(b.inbox, NULL), !.open = FALSE,
                           !.sender_chan = Append(b.sender_chan, NULL), !.heartbeat_chan = b.heartbeat_chan + 1,
                           !.error_chan = b.error_chan + 1]
    BY DEF Exit, close_wc_connection
  <2> HIDE DEF b, d
  <2> QED  BY <1>6, <2>1
<1> HIDE DEF d
<1>8. CASE c.closed
  <2>1. d = b /\ ~c.open
    BY <1>7, <1>8 DEF FibersInv
  <2> HIDE DEF b
  <2>2. FibersInv(b)
    BY <1>1, <1>5, <1>6, <1>8, <2>1 DEF FibersInv
  <2> QED  BY <1>4, <1>6, <2>1, <2>2 DEF d
<1>9. CASE ~c.closed
  <2>1. d = e /\ c.open /\ c.heartbeat_chan = 0 /\ c.error_chan = 0
    BY <1>1, <1>7, <1>9 DEF FibersInv
  <2>2. Append(c.inbox, NULL) \in Seq(InboxItems) /\ Append(c.sender_chan, NULL) \in Seq(Tasks)
    BY <1>1, <1>2, AppendProperties
  <2>3. c.heartbeat_chan + 1 \in 0 .. 1 /\ c.error_chan + 1 \in 0 .. 1
    BY <2>1
  <2> HIDE DEF b
  <2>4. e \in Connections
    BY <1>4, <2>2, <2>3 DEF Connections
  <2>5. /\ e.live = c.live \ {fiber} /\ e.closed = TRUE /\ e.open = FALSE /\ e.inbox = Append(c.inbox, NULL)
        /\ e.head = c.head /\ e.sending = c.sending /\ e.heartbeat_chan = c.heartbeat_chan + 1
        /\ e.error_chan = c.error_chan + 1 /\ e.exit_signal = c.exit_signal /\ e.exited = c.exited
    BY <1>4, <1>6 DEF Connections
  <2> HIDE DEF e
  <2>6. FibersInv(e)
    BY <1>5, <2>1, <2>5 DEF FibersInv
  <2> QED  BY <2>1, <2>4, <2>5, <2>6 DEF d
<1> QED  BY <1>8, <1>9

----------------------------------------------------------------------------
(* Steps of the line *)

\* What a tuple of one cell is not.
LEMMA OneCell ==
    ASSUME NEW x, NEW y
    PROVE  <<x>> # <<>> /\ (<<x>> = <<y>> => x = y)
<1>1. <<x>>[1] = x /\ <<y>>[1] = y /\ Len(<<x>>) = 1 /\ Len(<<>>) = 0
  OBVIOUS
<1> QED  BY <1>1

\* The header the sender makes for a task (as in SendHeader).
HeaderOf(task) == Header(task.opcode, TRUE, IF task.opcode = BINARY THEN Size(task.m) ELSE 0, NoKey)

\* The header of each kind of task.
LEMMA HeadersOfTasks ==
    /\ HeaderOf(Task(PING, NoData)) = Signal(PING) /\ Signal(PING).len = 0 /\ Signal(PING).opcode # BINARY
    /\ HeaderOf(Task(CLOSE, NoData)) = Signal(CLOSE) /\ Signal(CLOSE).len = 0 /\ Signal(CLOSE).opcode # BINARY
    /\ \A m \in Messages : HeaderOf(Task(BINARY, m)) = Bin(m) /\ Bin(m).len # 0 /\ Bin(m).opcode = BINARY
<1>1. PING # BINARY /\ CLOSE # BINARY
  BY DEF PING, CLOSE, BINARY
<1>2. \A m \in Messages : Size(m) # 0
  BY SizeAssumption
<1> QED  BY <1>1, <1>2 DEF HeaderOf, Task, Signal, Bin, Header

\* The sender sends the header of the first task that waits.
LEMMA LineHeader ==
    ASSUME NEW snt \in Seq(Messages), NEW cl \in Int, NEW w \in Seq(Cells), NEW head, NEW k, NEW up, up,
           NEW chan \in Seq(Tasks), chan # <<>>, Line(w, head, k, up, <<>>, chan, snt, cl)
    PROVE  LET task == Head(chan)
               h == HeaderOf(task)
           IN  /\ h \in Frames
               /\ task.opcode = BINARY => task.m \in Messages
               /\ Line(w \o HeaderCells(h), head, k, up, IF h.len = 0 THEN <<>> ELSE <<PayloadCell(h, task.m)>>,
                       Tail(chan), snt, cl)
<1> DEFINE task == Head(chan)
           h == HeaderOf(task)
           sending == IF h.len = 0 THEN <<>> ELSE <<PayloadCell(h, task.m)>>
<1>1. PICK P \in SUBSET Marks : \E first \in P, last \in P :
         Parsed(w, P, last, snt, cl) /\ Reading(first, head, k, snt) /\ Writing(last, <<>>, chan, snt, cl)
  BY DEF Line
<1>2. PICK first \in P, last \in P :
         Parsed(w, P, last, snt, cl) /\ Reading(first, head, k, snt) /\ Writing(last, <<>>, chan, snt, cl)
  BY <1>1
<1>3. ~last.body /\ Queued(chan, last.level, snt, cl)
  BY <1>2, OneCell DEF Writing
<1>4. PICK a \in Nat : a = last.level
  BY <1>2 DEF Marks
<1>5. Queued(chan, a, snt, cl)
  BY <1>3, <1>4
<1>6. PICK b \in Nat : TaskAt(task, a, b, snt, cl) /\ Queued(Tail(chan), b, snt, cl)
  BY <1>5, QueueTail
<1>7. Len(snt) \in Nat /\ Len(w) \in Nat
  BY LenProperties
<1> HIDE DEF task
<1> DEFINE next(body) == [at |-> Len(w) + Len(HeaderCells(h)), body |-> body, level |-> a]
<1>8. ASSUME h \in Frames, FrameAt(h, a, snt, cl), NEW body \in BOOLEAN, body = (h.opcode = BINARY),
             IF body THEN a < Len(snt) /\ sending = <<Body(snt[a + 1])>> /\ b = a + 1 ELSE sending = <<>> /\ b = a
      PROVE  Line(w \o HeaderCells(h), head, k, up, sending, Tail(chan), snt, cl)
  <2> HIDE DEF h, sending
  <2>1. HeaderCells(h) \in Seq(Cells) /\ Len(HeaderCells(h)) \in Nat
    BY <1>8, FrameFacts
  <2>2. next(body) \in Marks
    BY <1>7, <2>1 DEF Marks
  <2>3. Leads(last, HeaderCells(h), next(body), snt, cl)
    BY <1>3, <1>4, <1>8 DEF Leads
  <2>4. next(body).at = Len(w) + Len(HeaderCells(h)) /\ next(body).body = body /\ next(body).level = a
    OBVIOUS
  <2> HIDE DEF next
  <2>5. Parsed(w \o HeaderCells(h), P \cup {next(body)}, next(body), snt, cl)
    BY <1>2, <2>1, <2>2, <2>3, <2>4, ParsedAppend
  <2>6. Writing(next(body), sending, Tail(chan), snt, cl)
    <3>1. CASE body
      BY <1>6, <1>8, <2>4, <3>1 DEF Writing
    <3>2. CASE ~body
      BY <1>6, <1>8, <2>4, <3>2 DEF Writing
    <3> QED  BY <3>1, <3>2
  <2>7. P \cup {next(body)} \in SUBSET Marks /\ first \in P \cup {next(body)} /\ next(body) \in P \cup {next(body)}
    BY <2>2
  <2> QED  BY <1>2, <2>5, <2>6, <2>7 DEF Line
<1>9. CASE task = Task(PING, NoData) /\ b = a
  <2>1. h = Signal(PING) /\ h.len = 0 /\ h.opcode # BINARY
    BY <1>9, HeadersOfTasks
  <2>2. h \in Frames /\ FrameAt(h, a, snt, cl)
    BY <2>1 DEF Frames, FrameAt
  <2>3. task.opcode # BINARY
    BY <1>9 DEF Task, PING, BINARY
  <2>4. sending = <<>>
    BY <2>1
  <2> HIDE DEF h, task, sending
  <2>5. Line(w \o HeaderCells(h), head, k, up, sending, Tail(chan), snt, cl)
    BY <1>8, <1>9, <2>1, <2>2, <2>4
  <2> QED  BY <2>2, <2>3, <2>5 DEF h, task, sending
<1>10. CASE task = Task(CLOSE, NoData) /\ b = a /\ cl \in 0 .. a
  <2>1. h = Signal(CLOSE) /\ h.len = 0 /\ h.opcode # BINARY
    BY <1>10, HeadersOfTasks
  <2>2. h \in Frames /\ FrameAt(h, a, snt, cl)
    BY <1>10, <2>1 DEF Frames, FrameAt
  <2>3. task.opcode # BINARY
    BY <1>10 DEF Task, CLOSE, BINARY
  <2>4. sending = <<>>
    BY <2>1
  <2> HIDE DEF h, task, sending
  <2>5. Line(w \o HeaderCells(h), head, k, up, sending, Tail(chan), snt, cl)
    BY <1>8, <1>10, <2>1, <2>2, <2>4
  <2> QED  BY <2>2, <2>3, <2>5 DEF h, task, sending
<1>11. CASE b = a + 1 /\ b <= Len(snt) /\ task = Task(BINARY, snt[b])
  <2>1. b \in 1 .. Len(snt) /\ a < Len(snt)
    BY <1>7, <1>11
  <2>2. PICK m \in Messages : m = snt[b] /\ m = snt[a + 1]
    <3>1. snt[b] \in Messages
      BY <2>1, ElementOfSeq
    <3> QED  BY <1>11, <3>1
  <2>3. task = Task(BINARY, m)
    BY <1>11, <2>2
  <2>4. h = Bin(m) /\ h.len # 0 /\ h.opcode = BINARY
    BY <2>3, HeadersOfTasks
  <2>5. h \in Frames /\ FrameAt(h, a, snt, cl)
    BY <2>1, <2>2, <2>4 DEF Frames, FrameAt
  <2>6. task.m = m
    BY <2>3 DEF Task
  <2>7. sending = <<Body(m)>>
    <3> HIDE DEF h, task
    <3> QED  BY <2>4, <2>6 DEF Body
  <2> HIDE DEF h, task, sending
  <2>8. Line(w \o HeaderCells(h), head, k, up, sending, Tail(chan), snt, cl)
    BY <1>8, <1>11, <2>1, <2>2, <2>4, <2>5, <2>7
  <2> QED  BY <2>5, <2>6, <2>8 DEF h, task, sending
<1> QED  BY <1>6, <1>9, <1>10, <1>11 DEF TaskAt, task

\* The sender sends the payload that belongs to the last header.
LEMMA LinePayload ==
    ASSUME NEW snt \in Seq(Messages), NEW cl \in Int, NEW w \in Seq(Cells), NEW head, NEW k, NEW up, up,
           NEW chan, NEW m \in Messages, Line(w, head, k, up, <<Body(m)>>, chan, snt, cl)
    PROVE  Line(w \o <<Body(m)>>, head, k, up, <<>>, chan, snt, cl)
<1>1. PICK P \in SUBSET Marks : \E first \in P, last \in P :
         Parsed(w, P, last, snt, cl) /\ Reading(first, head, k, snt) /\ Writing(last, <<Body(m)>>, chan, snt, cl)
  BY DEF Line
<1>2. PICK first \in P, last \in P :
         Parsed(w, P, last, snt, cl) /\ Reading(first, head, k, snt) /\ Writing(last, <<Body(m)>>, chan, snt, cl)
  BY <1>1
<1> DEFINE cells == <<Body(m)>>
<1> HIDE DEF cells
<1>3. /\ last.body /\ last.level < Len(snt) /\ cells = <<Body(snt[last.level + 1])>>
      /\ Queued(chan, last.level + 1, snt, cl)
  <2>1. cells # <<>>
    BY OneCell DEF cells
  <2>2. Writing(last, cells, chan, snt, cl)
    BY <1>2 DEF cells
  <2> QED  BY <2>1, <2>2 DEF Writing
<1>4. PICK a \in Nat : a = last.level
  <2>1. last \in Marks
    BY <1>2
  <2> QED  BY <2>1 DEF Marks
<1>5. cells \in Seq(Cells) /\ Len(cells) = 1
  <2>1. Body(m) \in Cells
    BY DEF Cells
  <2> QED  BY <2>1 DEF cells
<1>6. Len(snt) \in Nat /\ Len(w) \in Nat
  BY LenProperties
<1> DEFINE next == [at |-> Len(w) + 1, body |-> FALSE, level |-> a + 1]
<1>7. next \in Marks /\ next.at = Len(w) + Len(cells) /\ next.body = FALSE /\ next.level = a + 1
  BY <1>5, <1>6 DEF Marks
<1> HIDE DEF next
<1>8. Leads(last, cells, next, snt, cl)
  BY <1>3, <1>4, <1>7 DEF Leads
<1>9. Parsed(w \o cells, P \cup {next}, next, snt, cl)
  BY <1>2, <1>5, <1>7, <1>8, ParsedAppend
<1>10. Writing(next, <<>>, chan, snt, cl)
  BY <1>3, <1>4, <1>7 DEF Writing
<1>11. P \cup {next} \in SUBSET Marks /\ first \in P \cup {next} /\ next \in P \cup {next}
  BY <1>7
<1>12. Line(w \o cells, head, k, up, <<>>, chan, snt, cl)
  BY <1>2, <1>9, <1>10, <1>11 DEF Line
<1> QED  BY <1>12 DEF cells

\* The application or the heartbeat adds a task, and with it perhaps a message or the
\* place where the side closes.
LEMMA LineTask ==
    ASSUME NEW snt \in Seq(Messages), NEW snt2 \in Seq(Messages), NEW cl \in Int, NEW cl2 \in Int,
           Grown(snt, cl, snt2, cl2), NEW w \in Seq(Cells), NEW head, NEW k \in Nat, NEW up, NEW sending,
           NEW chan \in Seq(Tasks), NEW t \in Tasks, up => TaskAt(t, Len(snt), Len(snt2), snt2, cl2),
           Line(w, head, k, up, sending, chan, snt, cl)
    PROVE  Line(w, head, k, up, sending, Append(chan, t), snt2, cl2)
<1>1. PICK P \in SUBSET Marks : \E first \in P, last \in P :
         Parsed(w, P, last, snt, cl) /\ Reading(first, head, k, snt) /\ (up => Writing(last, sending, chan, snt, cl))
  BY DEF Line
<1>2. PICK first \in P, last \in P :
         Parsed(w, P, last, snt, cl) /\ Reading(first, head, k, snt) /\ (up => Writing(last, sending, chan, snt, cl))
  BY <1>1
<1>3. Parsed(w, P, last, snt2, cl2)
  BY <1>2, ParsedGrown
<1>4. Len(snt) \in Nat /\ Len(snt2) \in Nat
  BY LenProperties
<1>5. \A i \in Nat : i < Len(snt) => i < Len(snt2) /\ snt2[i + 1] = snt[i + 1]
  BY <1>4 DEF Grown
<1>6. Reading(first, head, k, snt2)
  BY <1>2, <1>5 DEF Reading
<1>7. ASSUME up
      PROVE  Writing(last, sending, Append(chan, t), snt2, cl2)
  <2>1. last.level \in Nat /\ Writing(last, sending, chan, snt, cl)
    BY <1>2, <1>7 DEF Marks
  <2>2. CASE last.body
    <3>1. last.level < Len(snt) /\ sending = <<Body(snt[last.level + 1])>> /\ Queued(chan, last.level + 1, snt, cl)
      BY <2>1, <2>2 DEF Writing
    <3>2. Queued(Append(chan, t), last.level + 1, snt2, cl2)
      BY <1>7, <3>1, QueueAppend
    <3> QED  BY <1>5, <2>1, <2>2, <3>1, <3>2 DEF Writing
  <2>3. CASE ~last.body
    <3>1. sending = <<>> /\ Queued(chan, last.level, snt, cl)
      BY <2>1, <2>3 DEF Writing
    <3>2. Queued(Append(chan, t), last.level, snt2, cl2)
      BY <1>7, <3>1, QueueAppend
    <3> QED  BY <2>3, <3>1, <3>2 DEF Writing
  <2> QED  BY <2>2, <2>3
<1> QED  BY <1>2, <1>3, <1>6, <1>7 DEF Line

\* The reader reads a header: one that the sender sent, at its place.
LEMMA LineHead ==
    ASSUME NEW snt \in Seq(Messages), NEW cl \in Int, NEW w \in Seq(Cells), HeaderReady(w), NEW k \in Nat,
           NEW up, NEW sending, NEW chan, Line(w, <<>>, k, up, sending, chan, snt, cl)
    PROVE  LET h == update_head_2bytes(w)
               rest == AfterHeader(w)
           IN  /\ h \in Frames /\ FrameAt(h, k, snt, cl) /\ rest \in Seq(Cells)
               /\ Line(rest, IF h.opcode = BINARY THEN <<h>> ELSE <<>>, k, up, sending, chan, snt, cl)
<1>1. PICK P \in SUBSET Marks : \E first \in P, last \in P :
         Parsed(w, P, last, snt, cl) /\ Reading(first, <<>>, k, snt) /\ (up => Writing(last, sending, chan, snt, cl))
  BY DEF Line
<1>2. PICK first \in P, last \in P :
         Parsed(w, P, last, snt, cl) /\ Reading(first, <<>>, k, snt) /\ (up => Writing(last, sending, chan, snt, cl))
  BY <1>1
<1>3. first.at = 0 /\ first.level = k /\ ~first.body
  BY <1>2, OneCell DEF Reading
<1>4. w # <<>>
  <2>1. Len(<<>>) = 0
    OBVIOUS
  <2>2. Len(w) >= 2
    BY DEF HeaderReady
  <2> QED  BY <2>1, <2>2
<1>5. Dropped(w, first, last, snt, cl)
  BY <1>2, <1>3, <1>4, ParsedDrop
<1>6. PICK cells \in Seq(Cells), rest \in Seq(Cells), Q \in SUBSET Marks : \E next \in Q, end \in Q :
             /\ Leads(first, cells, next, snt, cl) /\ w = cells \o rest /\ rest = SubSeq(w, Len(cells) + 1, Len(w))
             /\ next.at = 0 /\ end.body = last.body /\ end.level = last.level
             /\ Parsed(rest, Q, end, snt, cl)
  BY <1>5 DEF Dropped
<1>7. PICK next \in Q, end \in Q :
             /\ Leads(first, cells, next, snt, cl) /\ w = cells \o rest
             /\ next.at = 0 /\ end.body = last.body /\ end.level = last.level
             /\ Parsed(rest, Q, end, snt, cl)
  BY <1>6
<1>8. PICK h \in Frames : FrameAt(h, k, snt, cl) /\ cells = HeaderCells(h) /\ next.body = (h.opcode = BINARY)
                            /\ next.level = k
  BY <1>3, <1>7 DEF Leads
<1>9. update_head_2bytes(w) = h /\ AfterHeader(w) = rest
  <2>1. h \in Headers
    BY FrameFacts
  <2> QED  BY <1>7, <1>8, <2>1, HeaderRoundTrip
<1>10. Reading(next, IF h.opcode = BINARY THEN <<h>> ELSE <<>>, k, snt)
  <2>1. CASE h.opcode = BINARY
    <3>1. k < Len(snt) /\ h = Bin(snt[k + 1])
      BY <1>8, <2>1, HeadersOfTasks DEF FrameAt
    <3> QED  BY <1>7, <1>8, <2>1, <3>1 DEF Reading
  <2>2. CASE h.opcode # BINARY
    BY <1>7, <1>8, <2>2 DEF Reading
  <2> QED  BY <2>1, <2>2
<1>11. up => Writing(end, sending, chan, snt, cl)
  BY <1>2, <1>7 DEF Writing
<1>12. Line(rest, IF h.opcode = BINARY THEN <<h>> ELSE <<>>, k, up, sending, chan, snt, cl)
  BY <1>7, <1>10, <1>11 DEF Line
<1> QED  BY <1>8, <1>9, <1>12

\* The reader reads a payload: that of the next message.
LEMMA LineData ==
    ASSUME NEW snt \in Seq(Messages), NEW cl \in Int, NEW w \in Seq(Cells), w # <<>>, NEW k \in Nat, NEW head, head # <<>>,
           NEW up, NEW sending, NEW chan, Line(w, head, k, up, sending, chan, snt, cl)
    PROVE  /\ k < Len(snt) /\ Head(w) = Body(snt[k + 1]) /\ Tail(w) \in Seq(Cells)
           /\ Line(Tail(w), <<>>, k + 1, up, sending, chan, snt, cl)
<1>1. PICK P \in SUBSET Marks : \E first \in P, last \in P :
         Parsed(w, P, last, snt, cl) /\ Reading(first, head, k, snt) /\ (up => Writing(last, sending, chan, snt, cl))
  BY DEF Line
<1>2. PICK first \in P, last \in P :
         Parsed(w, P, last, snt, cl) /\ Reading(first, head, k, snt) /\ (up => Writing(last, sending, chan, snt, cl))
  BY <1>1
<1>3. first.at = 0 /\ first.level = k /\ first.body
  BY <1>2 DEF Reading
<1>4. Dropped(w, first, last, snt, cl)
  BY <1>2, <1>3, ParsedDrop
<1>5. PICK cells \in Seq(Cells), rest \in Seq(Cells), Q \in SUBSET Marks : \E next \in Q, end \in Q :
             /\ Leads(first, cells, next, snt, cl) /\ w = cells \o rest /\ rest = SubSeq(w, Len(cells) + 1, Len(w))
             /\ next.at = 0 /\ end.body = last.body /\ end.level = last.level
             /\ Parsed(rest, Q, end, snt, cl)
  BY <1>4 DEF Dropped
<1>6. PICK next \in Q, end \in Q :
             /\ Leads(first, cells, next, snt, cl) /\ w = cells \o rest /\ rest = SubSeq(w, Len(cells) + 1, Len(w))
             /\ next.at = 0 /\ end.body = last.body /\ end.level = last.level
             /\ Parsed(rest, Q, end, snt, cl)
  BY <1>5
<1>7. k < Len(snt) /\ cells = <<Body(snt[k + 1])>> /\ ~next.body /\ next.level = k + 1
  BY <1>3, <1>6 DEF Leads
<1>8. Len(cells) = 1 /\ cells[1] = Body(snt[k + 1])
  BY <1>7
<1>9. Head(w) = Body(snt[k + 1]) /\ Tail(w) = rest
  <2>1. Head(w) = w[1] /\ Tail(w) = SubSeq(w, 2, Len(w))
    OBVIOUS
  <2>2. w[1] = cells[1]
    <3>1. Joined(w, cells, rest)
      BY <1>6, ConcatParts
    <3> QED  BY <1>8, <3>1 DEF Joined
  <2>3. rest = SubSeq(w, 2, Len(w))
    BY <1>6, <1>8
  <2> QED  BY <1>8, <2>1, <2>2, <2>3
<1>10. Reading(next, <<>>, k + 1, snt)
  BY <1>6, <1>7 DEF Reading
<1>11. up => Writing(end, sending, chan, snt, cl)
  BY <1>2, <1>6 DEF Writing
<1>12. Line(rest, <<>>, k + 1, up, sending, chan, snt, cl)
  BY <1>6, <1>10, <1>11 DEF Line
<1> QED  BY <1>7, <1>9, <1>12

----------------------------------------------------------------------------
(* What a side reads *)

\* Nothing that it reads has changed, or the line is no longer followed.
LEMMA ReadsKept ==
    ASSUME NEW c, NEW r, NEW rec, NEW hrd, NEW w, NEW d, NEW snt, NEW cl, NEW brk,
           ReadsIn(c, r, rec, hrd, w, d, snt, cl, brk),
           NEW c2, NEW w2, NEW d2, NEW brk2,
           c2.inbox = c.inbox, c2.head = c.head, c2.open = c.open, brk => brk2,
           ~brk2 => w2 = w,
           ~brk2 /\ d2.open => d.open /\ d2.sending = d.sending /\ d2.sender_chan = d.sender_chan
    PROVE  ReadsIn(c2, r, rec, hrd, w2, d2, snt, cl, brk2)
<1> DEFINE k == Len(rec) + Items(c.inbox)
<1>1. InboxInv(c2, r)
  BY DEF ReadsIn, InboxInv
<1>2. ASSUME c2.open, ~brk2
      PROVE  Line(w2, c2.head, k, d2.open, d2.sending, d2.sender_chan, snt, cl)
  <2> HIDE DEF k
  <2>1. Line(w, c.head, k, d.open, d.sending, d.sender_chan, snt, cl)
    BY <1>2 DEF ReadsIn, k
  <2>2. w2 = w
    BY <1>2
  <2>3. PICK P \in SUBSET Marks : \E first \in P, last \in P :
           Parsed(w, P, last, snt, cl) /\ Reading(first, c.head, k, snt)
             /\ (d.open => Writing(last, d.sending, d.sender_chan, snt, cl))
    BY <2>1 DEF Line
  <2>4. PICK first \in P, last \in P :
           Parsed(w, P, last, snt, cl) /\ Reading(first, c.head, k, snt)
             /\ (d.open => Writing(last, d.sending, d.sender_chan, snt, cl))
    BY <2>3
  <2>5. d2.open => Writing(last, d2.sending, d2.sender_chan, snt, cl)
    BY <1>2, <2>4
  <2> QED  BY <2>2, <2>4, <2>5 DEF Line
<1> QED  BY <1>1, <1>2 DEF ReadsIn, k

\* The side closes: one null, or two after a CLOSE, are put in its inbox.
LEMMA ReadsClosed ==
    ASSUME NEW c \in Connections, NEW r, NEW rec, NEW hrd, NEW w, NEW d, NEW snt, NEW cl, NEW brk,
           ReadsIn(c, r, rec, hrd, w, d, snt, cl, brk), c.open,
           NEW c2, NEW w2, NEW hrd2, ~c2.open,
           c2.inbox \in {Append(c.inbox, NULL), Append(Append(c.inbox, NULL), NULL)},
           hrd2 => hrd \/ cl \in 0 .. Len(rec) + Items(c.inbox)
    PROVE  ReadsIn(c2, r, rec, hrd2, w2, d, snt, cl, brk)
<1> DEFINE one == Append(c.inbox, NULL)
           two == Append(one, NULL)
<1>1. c.inbox \in Seq(InboxItems)
  BY DEF Connections
<1>2. Ordered(c.inbox) /\ Len(c.inbox) <= Items(c.inbox) + 0 /\ r # "ended" /\ Delivered(rec, c.inbox, snt)
  BY DEF ReadsIn, InboxInv
<1>3. /\ one \in Seq(InboxItems) /\ Ordered(one)
      /\ Items(one) = Items(c.inbox) /\ Len(one) = Len(c.inbox) + 1
      /\ \A i \in 1 .. Items(c.inbox) : one[i] = c.inbox[i]
  BY <1>1, <1>2, InboxNull
<1> HIDE DEF one
<1>4. /\ two \in Seq(InboxItems) /\ Ordered(two)
      /\ Items(two) = Items(one) /\ Len(two) = Len(one) + 1
      /\ \A i \in 1 .. Items(one) : two[i] = one[i]
  BY <1>3, InboxNull
<1> HIDE DEF two
<1>5. c2.inbox = one \/ c2.inbox = two
  BY DEF one, two
<1>6. Len(c.inbox) \in Nat /\ Items(c.inbox) \in 0 .. Len(c.inbox)
  BY <1>1, <1>2, LenProperties DEF Ordered
<1>7. /\ Ordered(c2.inbox) /\ Items(c2.inbox) = Items(c.inbox) /\ Len(c2.inbox) <= Items(c2.inbox) + 2
      /\ \A i \in 1 .. Items(c.inbox) : c2.inbox[i] = c.inbox[i]
  <2>1. CASE c2.inbox = one
    BY <1>2, <1>3, <1>6, <2>1
  <2>2. CASE c2.inbox = two
    BY <1>2, <1>3, <1>4, <1>6, <2>2
  <2> QED  BY <1>5, <2>1, <2>2
<1>8. InboxInv(c2, r)
  BY <1>2, <1>7 DEF InboxInv
<1>9. Delivered(rec, c2.inbox, snt)
  BY <1>2, <1>7 DEF Delivered
<1>10. hrd2 => cl \in 0 .. Len(rec) + Items(c2.inbox)
  BY <1>7 DEF ReadsIn
<1> QED  BY <1>8, <1>9, <1>10 DEF ReadsIn

\* The peer's application or heartbeat adds a task.
LEMMA ReadsTask ==
    ASSUME NEW c \in Connections, NEW r, NEW rec \in Seq(Messages), NEW hrd, NEW w \in Seq(Cells), NEW d \in Connections,
           NEW snt \in Seq(Messages), NEW cl \in Int, NEW brk, ReadsIn(c, r, rec, hrd, w, d, snt, cl, brk),
           NEW snt2 \in Seq(Messages), NEW cl2 \in Int, Grown(snt, cl, snt2, cl2),
           NEW t \in Tasks, TaskAt(t, Len(snt), Len(snt2), snt2, cl2),
           NEW d2, d2.open = d.open, d2.sending = d.sending, d2.sender_chan = Append(d.sender_chan, t)
    PROVE  ReadsIn(c, r, rec, hrd, w, d2, snt2, cl2, brk)
<1> DEFINE k == Len(rec) + Items(c.inbox)
<1>1. Len(rec) \in Nat /\ Len(snt) \in Nat /\ Len(snt2) \in Nat
  BY LenProperties
<1>2. Items(c.inbox) \in Nat
  <2>1. Len(c.inbox) \in Nat
    BY LenProperties DEF Connections
  <2>2. Items(c.inbox) \in 0 .. Len(c.inbox)
    BY DEF ReadsIn, InboxInv, Ordered
  <2> QED  BY <2>1, <2>2
<1>3. k \in Nat
  BY <1>1, <1>2
<1>4. d.sender_chan \in Seq(Tasks)
  BY DEF Connections
<1> HIDE DEF k
<1>5. ASSUME c.open, ~brk
      PROVE  Line(w, c.head, k, d2.open, d2.sending, d2.sender_chan, snt2, cl2)
  <2>1. Line(w, c.head, k, d.open, d.sending, d.sender_chan, snt, cl)
    BY <1>5 DEF ReadsIn, k
  <2> QED  BY <1>3, <1>4, <2>1, LineTask
<1>6. Delivered(rec, c.inbox, snt2)
  <2>1. Delivered(rec, c.inbox, snt)
    BY DEF ReadsIn
  <2>2. k <= Len(snt) /\ Len(snt) <= Len(snt2)
    BY <2>1 DEF Delivered, k, Grown
  <2>3. k <= Len(snt2)
    BY <1>1, <1>3, <2>2
  <2>4. \A i \in 1 .. Items(c.inbox) : Len(rec) + i \in 1 .. Len(snt)
    BY <1>1, <1>2, <2>2 DEF k
  <2>5. \A i \in 1 .. Items(c.inbox) : snt2[Len(rec) + i] = snt[Len(rec) + i]
    BY <2>4 DEF Grown
  <2> QED  BY <2>1, <2>3, <2>5 DEF Delivered, k
<1>7. hrd => cl2 \in 0 .. Len(rec) + Items(c.inbox)
  <2>1. ASSUME hrd PROVE cl \in 0 .. k
    BY <2>1 DEF ReadsIn, k
  <2>2. ASSUME hrd PROVE cl2 = cl
    <3>1. cl >= 0
      BY <1>3, <2>1, <2>2
    <3> QED  BY <3>1 DEF Grown
  <2> QED  BY <2>1, <2>2 DEF k
<1>8. InboxInv(c, r)
  BY DEF ReadsIn
<1> QED  BY <1>5, <1>6, <1>7, <1>8 DEF ReadsIn, k

----------------------------------------------------------------------------
(* The actions *)

\* What the invariant says of a side.
LEMMA SideFacts ==
    ASSUME Inv, NEW s \in Sides
    PROVE  /\ conn[s] \in Connections /\ wire[s] \in Seq(Cells) /\ broken \in BOOLEAN
           /\ writer[s] \in Writers /\ reader[s] \in Readers
           /\ sent[s] \in Seq(Messages) /\ received[s] \in Seq(Messages) /\ closeAt[s] \in Int /\ heard[s] \in BOOLEAN
           /\ ActsIn(conn[s], writer[s], sent[s], closeAt[s], Script[s])
           /\ ReadsIn(conn[s], reader[s], received[s], heard[s], wire[s], conn[Peer(s)], sent[Peer(s)], closeAt[Peer(s)], broken)
           /\ FibersInv(conn[s])
  BY DEF Inv, TypeInv, Acts, ActsIn, Reads

\* The variables but conn have their types.
OthersTyped ==
    /\ wire \in [Sides -> Seq(Cells)]
    /\ broken \in BOOLEAN
    /\ writer \in [Sides -> Writers] /\ reader \in [Sides -> Readers]
    /\ sent \in [Sides -> Seq(Messages)] /\ received \in [Sides -> Seq(Messages)]
    /\ closeAt \in [Sides -> Int] /\ heard \in [Sides -> BOOLEAN]

\* A step of side s, whose connection becomes c.
LEMMA StepOf ==
    ASSUME Inv, NEW s \in Sides, NEW c \in Connections, conn' = [conn EXCEPT ![s] = c], OthersTyped',
           ActsIn(c, writer'[s], sent'[s], closeAt'[s], Script[s]),
           writer'[Peer(s)] = writer[Peer(s)], sent'[Peer(s)] = sent[Peer(s)], closeAt'[Peer(s)] = closeAt[Peer(s)],
           ReadsIn(c, reader'[s], received'[s], heard'[s], wire'[s], conn[Peer(s)], sent[Peer(s)], closeAt[Peer(s)], broken'),
           ReadsIn(conn[Peer(s)], reader'[Peer(s)], received'[Peer(s)], heard'[Peer(s)], wire'[Peer(s)], c,
                   sent'[s], closeAt'[s], broken')
    PROVE  Inv'
<1>1. conn' \in [Sides -> Connections] /\ conn'[s] = c /\ conn'[Peer(s)] = conn[Peer(s)]
  BY PeerFacts DEF Inv, TypeInv
<1>2. TypeInv'
  BY <1>1 DEF TypeInv, OthersTyped
<1>3. Acts(s)' /\ Reads(s)'
  BY <1>1 DEF Acts, Reads
<1>4. Acts(Peer(s))'
  BY <1>1, PeerFacts DEF Acts, Inv
<1>5. Reads(Peer(s))'
  BY <1>1, PeerFacts DEF Reads
<1>6. \A t \in Sides : (Acts(t) /\ Reads(t))'
  BY <1>3, <1>4, <1>5, PeerFacts
<1> QED  BY <1>2, <1>6 DEF Inv

\* A step of side s that nobody reads anything of.
LEMMA QuietStep ==
    ASSUME Inv, NEW s \in Sides, NEW c \in Connections, conn' = [conn EXCEPT ![s] = c],
           FibersInv(c), c.inbox = conn[s].inbox, c.head = conn[s].head, c.open = conn[s].open,
           Usable(s) => c.sending = conn[s].sending /\ c.sender_chan = conn[s].sender_chan,
           writer' \in [Sides -> Writers], writer'[Peer(s)] = writer[Peer(s)],
           writer'[s] = "send" => Len(sent[s]) < Len(Script[s]),
           UNCHANGED <<wire, broken, reader, sent, received, closeAt, heard>>
    PROVE  Inv'
<1> DEFINE p == Peer(s)
<1>1. p \in Sides /\ Peer(p) = s
  BY PeerFacts
<1>2. ActsIn(c, writer'[s], sent'[s], closeAt'[s], Script[s])
  BY SideFacts DEF ActsIn
<1>3. ReadsIn(c, reader'[s], received'[s], heard'[s], wire'[s], conn[p], sent[p], closeAt[p], broken')
  <2>1. ReadsIn(conn[s], reader[s], received[s], heard[s], wire[s], conn[p], sent[p], closeAt[p], broken)
    BY SideFacts
  <2>2. ReadsIn(c, reader[s], received[s], heard[s], wire[s], conn[p], sent[p], closeAt[p], broken)
    BY <2>1, ReadsKept
  <2> QED  BY <2>2
<1>4. ReadsIn(conn[p], reader'[p], received'[p], heard'[p], wire'[p], c, sent'[s], closeAt'[s], broken')
  <2>1. ReadsIn(conn[p], reader[p], received[p], heard[p], wire[p], conn[s], sent[s], closeAt[s], broken)
    BY <1>1, SideFacts
  <2>2. ~broken /\ c.open => conn[s].open /\ c.sending = conn[s].sending /\ c.sender_chan = conn[s].sender_chan
    BY DEF Usable
  <2>3. ReadsIn(conn[p], reader[p], received[p], heard[p], wire[p], c, sent[s], closeAt[s], broken)
    BY <2>1, <2>2, ReadsKept
  <2> QED  BY <2>3
<1>5. OthersTyped'
  BY DEF Inv, TypeInv, OthersTyped
<1> QED  BY <1>2, <1>3, <1>4, <1>5, StepOf

\* send() begins.
LEMMA SendKeeps ==
    ASSUME Inv, NEW s \in Sides, Send(s)
    PROVE  Inv'
<1>1. conn[s] \in Connections /\ FibersInv(conn[s])
  BY SideFacts
<1>2. conn' = [conn EXCEPT ![s] = conn[s]]
  BY DEF Send, Inv, TypeInv
<1>3. writer' = [writer EXCEPT ![s] = "send"] /\ Len(sent[s]) < Len(Script[s])
      /\ UNCHANGED <<wire, broken, reader, sent, received, closeAt, heard>>
  BY DEF Send
<1>4. writer' \in [Sides -> Writers] /\ writer'[Peer(s)] = writer[Peer(s)]
  BY <1>3, PeerFacts DEF Inv, TypeInv, Writers
<1> QED  BY <1>1, <1>2, <1>3, <1>4, QuietStep

\* The destructor returns.
LEMMA DestroyedKeeps ==
    ASSUME Inv, NEW s \in Sides, Destroyed(s)
    PROVE  Inv'
<1> DEFINE c == [conn[s] EXCEPT !.exit_signal = conn[s].exit_signal - 1]
<1>1. conn[s] \in Connections /\ FibersInv(conn[s])
  BY SideFacts
<1>2. /\ conn' = [conn EXCEPT ![s] = c] /\ conn[s].exit_signal > 0
      /\ writer' = [writer EXCEPT ![s] = "gone"] /\ UNCHANGED <<wire, broken, reader, sent, received, closeAt, heard>>
  BY DEF Destroyed
<1>3. conn[s].exit_signal \in 0 .. 1
  BY <1>1 DEF Connections
<1>4. conn[s].exit_signal - 1 \in 0 .. 1
  BY <1>2, <1>3
<1>5. c \in Connections
  BY <1>1, <1>4 DEF Connections
<1>6. /\ c.live = conn[s].live /\ c.closed = conn[s].closed /\ c.open = conn[s].open /\ c.inbox = conn[s].inbox
      /\ c.head = conn[s].head /\ c.sending = conn[s].sending /\ c.sender_chan = conn[s].sender_chan
      /\ c.heartbeat_chan = conn[s].heartbeat_chan /\ c.error_chan = conn[s].error_chan
      /\ c.exit_signal = conn[s].exit_signal - 1 /\ c.exited = conn[s].exited
  BY <1>1 DEF Connections
<1> HIDE DEF c
<1>7. FibersInv(c)
  BY <1>1, <1>2, <1>3, <1>6 DEF FibersInv
<1>8. writer' \in [Sides -> Writers] /\ writer'[Peer(s)] = writer[Peer(s)] /\ writer'[s] # "send"
  BY <1>2, PeerFacts DEF Inv, TypeInv, Writers
<1> QED  BY <1>2, <1>5, <1>6, <1>7, <1>8, QuietStep

\* wg.wait() returns.
LEMMA ProcessEndsKeeps ==
    ASSUME Inv, NEW s \in Sides, ProcessEnds(s)
    PROVE  Inv'
<1> DEFINE c == [conn[s] EXCEPT !.exited = TRUE, !.exit_signal = conn[s].exit_signal + 1]
<1>1. conn[s] \in Connections /\ FibersInv(conn[s])
  BY SideFacts
<1>2. /\ conn' = [conn EXCEPT ![s] = c] /\ ~conn[s].exited
      /\ UNCHANGED <<writer, wire, broken, reader, sent, received, closeAt, heard>>
  BY DEF ProcessEnds, app
<1>3. conn[s].exit_signal \in 0 .. 1
  BY <1>1 DEF Connections
<1>4. conn[s].exit_signal + 1 \in 0 .. 1
  <2>1. conn[s].exit_signal = 0
    BY <1>1, <1>2, <1>3 DEF FibersInv
  <2> QED  BY <2>1
<1>5. c \in Connections
  BY <1>1, <1>4 DEF Connections
<1>6. /\ c.live = conn[s].live /\ c.closed = conn[s].closed /\ c.open = conn[s].open /\ c.inbox = conn[s].inbox
      /\ c.head = conn[s].head /\ c.sending = conn[s].sending /\ c.sender_chan = conn[s].sender_chan
      /\ c.heartbeat_chan = conn[s].heartbeat_chan /\ c.error_chan = conn[s].error_chan /\ c.exited = TRUE
  BY <1>1 DEF Connections
<1> HIDE DEF c
<1>7. FibersInv(c)
  BY <1>1, <1>6 DEF FibersInv
<1>8. writer' \in [Sides -> Writers] /\ writer'[Peer(s)] = writer[Peer(s)]
  BY <1>2 DEF Inv, TypeInv
<1>9. writer'[s] = "send" => Len(sent[s]) < Len(Script[s])
  BY <1>2, SideFacts DEF ActsIn
<1> QED  BY <1>2, <1>5, <1>6, <1>7, <1>8, <1>9, QuietStep

\* The heartbeat and the error fiber end, once the connection is closed.
LEMMA WaitersEndKeeps ==
    ASSUME Inv, NEW s \in Sides, WaitersEnd(s)
    PROVE  Inv'
<1> DEFINE b == conn[s]
           b1 == [b EXCEPT !.heartbeat_chan = b.heartbeat_chan - 1, !.error_chan = b.error_chan - 1]
           b2 == [b1 EXCEPT !.live = b1.live \ {"heartbeat"}]
           c == [b2 EXCEPT !.live = b2.live \ {"error"}]
<1>1. b \in Connections /\ FibersInv(b)
  BY SideFacts
<1>2. /\ conn' = [conn EXCEPT ![s] = Exit(Exit(b1, "heartbeat"), "error")] /\ b.heartbeat_chan > 0 /\ b.error_chan > 0
      /\ UNCHANGED <<writer, wire, broken, reader, sent, received, closeAt, heard>>
  BY DEF WaitersEnd, app
<1>3. b.heartbeat_chan \in 0 .. 1 /\ b.error_chan \in 0 .. 1 /\ b.live \in SUBSET Fibers
      /\ b.closed \in BOOLEAN /\ b.open \in BOOLEAN
  BY <1>1 DEF Connections
<1>4. b.closed /\ ~b.open
  BY <1>1, <1>2, <1>3 DEF FibersInv
<1> HIDE DEF b
<1>5. b1 \in Connections
  <2>1. b.heartbeat_chan - 1 \in 0 .. 1 /\ b.error_chan - 1 \in 0 .. 1
    BY <1>2, <1>3
  <2> QED  BY <1>1, <2>1 DEF Connections
<1>6. b2 \in Connections /\ c \in Connections
  <2>1. b2 \in Connections
    <3> HIDE DEF b1
    <3>1. b1.live \ {"heartbeat"} \in SUBSET Fibers
      BY <1>5 DEF Connections
    <3> QED  BY <1>5, <3>1 DEF Connections
  <2>2. c \in Connections
    <3> HIDE DEF b1, b2
    <3>1. b2.live \ {"error"} \in SUBSET Fibers
      BY <2>1 DEF Connections
    <3> QED  BY <2>1, <3>1 DEF Connections
  <2> QED  BY <2>1, <2>2
<1>7. /\ b1.closed = b.closed /\ b2.closed = b.closed
      /\ c.live = (b.live \ {"heartbeat"}) \ {"error"} /\ c.closed = b.closed /\ c.open = b.open /\ c.inbox = b.inbox
      /\ c.head = b.head /\ c.sending = b.sending /\ c.sender_chan = b.sender_chan
      /\ c.heartbeat_chan = b.heartbeat_chan - 1 /\ c.error_chan = b.error_chan - 1
      /\ c.exit_signal = b.exit_signal /\ c.exited = b.exited
  BY <1>1 DEF Connections
<1>8. Exit(Exit(b1, "heartbeat"), "error") = c
  <2> HIDE DEF b1
  <2>1. Exit(b1, "heartbeat") = b2
    BY <1>4, <1>7 DEF Exit, close_wc_connection
  <2> HIDE DEF b2
  <2>2. c.closed
    BY <1>4, <1>7
  <2>3. Exit(b2, "error") = c
    BY <2>2 DEF Exit, close_wc_connection
  <2> QED  BY <2>1, <2>3
<1> HIDE DEF c
<1>9. FibersInv(c)
  <2>1. "heartbeat" \notin c.live /\ "error" \notin c.live
    BY <1>7
  <2> QED  BY <1>1, <1>4, <1>7, <2>1 DEF FibersInv
<1>10. writer' \in [Sides -> Writers] /\ writer'[Peer(s)] = writer[Peer(s)]
  BY <1>2 DEF Inv, TypeInv
<1>11. writer'[s] = "send" => Len(sent[s]) < Len(Script[s])
  BY <1>2, SideFacts DEF ActsIn
<1>12. conn' = [conn EXCEPT ![s] = c]
  BY <1>2, <1>8
<1> QED  BY <1>2, <1>6, <1>7, <1>9, <1>10, <1>11, <1>12, QuietStep DEF b

\* A side reads the same when its inbox, its head and its descriptor are the same.
LEMMA ReadsSame ==
    ASSUME NEW c, NEW r, NEW rec, NEW hrd, NEW w, NEW d, NEW snt, NEW cl, NEW brk,
           ReadsIn(c, r, rec, hrd, w, d, snt, cl, brk),
           NEW c2, c2.inbox = c.inbox, c2.head = c.head, c2.open = c.open
    PROVE  ReadsIn(c2, r, rec, hrd, w, d, snt, cl, brk)
  BY DEF ReadsIn, InboxInv

\* A step of side s that adds a task for its sender, and nothing else that is read.
LEMMA TaskStep ==
    ASSUME Inv, NEW s \in Sides, NEW t \in Tasks, t # NULL, NEW c \in Connections, conn' = [conn EXCEPT ![s] = c],
           c.sender_chan = Append(conn[s].sender_chan, t),
           c.live = conn[s].live, c.closed = conn[s].closed, c.open = conn[s].open, c.inbox = conn[s].inbox,
           c.head = conn[s].head, c.sending = conn[s].sending, c.heartbeat_chan = conn[s].heartbeat_chan,
           c.error_chan = conn[s].error_chan, c.exit_signal = conn[s].exit_signal, c.exited = conn[s].exited,
           Grown(sent[s], closeAt[s], sent'[s], closeAt'[s]),
           TaskAt(t, Len(sent[s]), Len(sent'[s]), sent'[s], closeAt'[s]),
           writer' \in [Sides -> Writers], sent' \in [Sides -> Seq(Messages)], closeAt' \in [Sides -> Int],
           writer'[Peer(s)] = writer[Peer(s)], sent'[Peer(s)] = sent[Peer(s)], closeAt'[Peer(s)] = closeAt[Peer(s)],
           writer'[s] = "send" => Len(sent'[s]) < Len(Script[s]),
           Len(sent'[s]) <= Len(Script[s]), closeAt'[s] <= Len(sent'[s]),
           UNCHANGED <<wire, broken, reader, received, heard>>
    PROVE  Inv'
<1> DEFINE p == Peer(s)
<1>1. p \in Sides /\ Peer(p) = s
  BY PeerFacts
<1>2. FibersInv(c)
  <2> DEFINE chan == conn[s].sender_chan
             more == c.sender_chan
  <2>1. FibersInv(conn[s]) /\ chan \in Seq(Tasks)
    BY SideFacts DEF Connections
  <2>2. Len(chan) \in Nat
    BY <2>1, LenProperties
  <2>3. /\ Len(more) = Len(chan) + 1 /\ more[Len(chan) + 1] = t
        /\ \A i \in 1 .. Len(chan) : more[i] = chan[i]
    <3> HIDE DEF chan
    <3>1. more = Append(chan, t)
      BY DEF chan
    <3> HIDE DEF more
    <3> QED  BY <2>1, <3>1, AppendProperties
  <2> HIDE DEF more, chan
  <2>4. ASSUME c.open
        PROVE  c.heartbeat_chan = 0 /\ \A i \in 1 .. Len(more) : more[i] # NULL
    <3>1. conn[s].heartbeat_chan = 0 /\ \A i \in 1 .. Len(chan) : chan[i] # NULL
      BY <2>1, <2>4 DEF FibersInv, chan
    <3>2. \A i \in 1 .. Len(more) : i \in 1 .. Len(chan) \/ i = Len(chan) + 1
      BY <2>2, <2>3
    <3>3. \A i \in 1 .. Len(more) : more[i] # NULL
      BY <2>3, <3>1, <3>2
    <3> QED  BY <3>1, <3>3
  <2> QED  BY <2>1, <2>4 DEF FibersInv, more
<1>3. ActsIn(c, writer'[s], sent'[s], closeAt'[s], Script[s])
  BY <1>2 DEF ActsIn
<1>4. ReadsIn(c, reader'[s], received'[s], heard'[s], wire'[s], conn[p], sent[p], closeAt[p], broken')
  <2>1. ReadsIn(conn[s], reader[s], received[s], heard[s], wire[s], conn[p], sent[p], closeAt[p], broken)
    BY SideFacts
  <2>2. ReadsIn(c, reader[s], received[s], heard[s], wire[s], conn[p], sent[p], closeAt[p], broken)
    BY <2>1, ReadsSame
  <2> QED  BY <2>2
<1>5. ReadsIn(conn[p], reader'[p], received'[p], heard'[p], wire'[p], c, sent'[s], closeAt'[s], broken')
  <2>1. ReadsIn(conn[p], reader[p], received[p], heard[p], wire[p], conn[s], sent[s], closeAt[s], broken)
    BY <1>1, SideFacts
  <2>2. /\ conn[p] \in Connections /\ received[p] \in Seq(Messages) /\ wire[p] \in Seq(Cells)
        /\ conn[s] \in Connections /\ sent[s] \in Seq(Messages) /\ closeAt[s] \in Int
    BY <1>1, SideFacts
  <2>3. sent'[s] \in Seq(Messages) /\ closeAt'[s] \in Int
    OBVIOUS
  <2>4. ReadsIn(conn[p], reader[p], received[p], heard[p], wire[p], c, sent'[s], closeAt'[s], broken)
    BY <2>1, <2>2, <2>3, ReadsTask
  <2> QED  BY <2>4
<1>6. OthersTyped'
  BY DEF Inv, TypeInv, OthersTyped
<1> QED  BY <1>3, <1>4, <1>5, <1>6, StepOf

\* The tasks are tasks, and none of them is the null that ends the sender.
LEMMA TaskFacts ==
    /\ \A opcode \in {PING, CLOSE} : Task(opcode, NoData) \in Tasks /\ Task(opcode, NoData) # NULL
    /\ \A m \in Messages : Task(BINARY, m) \in Tasks /\ Task(BINARY, m) # NULL
  BY DEF Tasks, Task, NULL

\* A task in a connection's channel.
LEMMA AddTaskFacts ==
    ASSUME NEW b \in Connections, NEW t \in Tasks
    PROVE  LET c == addTask(b, t)
           IN  /\ c \in Connections /\ c.sender_chan = Append(b.sender_chan, t)
               /\ c.live = b.live /\ c.closed = b.closed /\ c.open = b.open /\ c.inbox = b.inbox
               /\ c.head = b.head /\ c.sending = b.sending /\ c.heartbeat_chan = b.heartbeat_chan
               /\ c.error_chan = b.error_chan /\ c.exit_signal = b.exit_signal /\ c.exited = b.exited
<1>1. Append(b.sender_chan, t) \in Seq(Tasks)
  BY AppendProperties DEF Connections
<1> QED  BY <1>1 DEF addTask, Connections

\* send() hands its message to the sender.
LEMMA SendTaskKeeps ==
    ASSUME Inv, NEW s \in Sides, SendTask(s)
    PROVE  Inv'
<1> DEFINE n == Len(sent[s])
           m == Script[s][n + 1]
           c == addTask(conn[s], Task(BINARY, m))
<1>1. conn[s] \in Connections /\ sent[s] \in Seq(Messages) /\ closeAt[s] \in Int /\ n \in Nat
  BY SideFacts, LenProperties
<1>2. n < Len(Script[s]) /\ closeAt[s] <= n
  BY SideFacts DEF ActsIn, SendTask
<1>3. m \in Messages
  <2>1. Script[s] \in Seq(Messages)
    BY ScriptAssumption
  <2>2. Len(Script[s]) \in Nat
    BY <2>1, LenProperties
  <2>3. n + 1 \in 1 .. Len(Script[s])
    BY <1>1, <1>2, <2>2
  <2> QED  BY <2>1, <2>3, ElementOfSeq
<1>4. /\ conn' = [conn EXCEPT ![s] = c] /\ sent' = [sent EXCEPT ![s] = Append(sent[s], m)]
      /\ writer' = [writer EXCEPT ![s] = "idle"]
      /\ UNCHANGED <<wire, broken, reader, received, closeAt, heard>>
  BY DEF SendTask
<1>5. Task(BINARY, m) \in Tasks /\ Task(BINARY, m) # NULL
  BY <1>3, TaskFacts
<1> HIDE DEF m
<1>6. /\ c \in Connections /\ c.sender_chan = Append(conn[s].sender_chan, Task(BINARY, m))
      /\ c.live = conn[s].live /\ c.closed = conn[s].closed /\ c.open = conn[s].open /\ c.inbox = conn[s].inbox
      /\ c.head = conn[s].head /\ c.sending = conn[s].sending /\ c.heartbeat_chan = conn[s].heartbeat_chan
      /\ c.error_chan = conn[s].error_chan /\ c.exit_signal = conn[s].exit_signal /\ c.exited = conn[s].exited
  BY <1>1, <1>5, AddTaskFacts
<1>7. Append(sent[s], m) \in Seq(Messages) /\ Len(Append(sent[s], m)) = n + 1 /\ Append(sent[s], m)[n + 1] = m
      /\ \A i \in 1 .. n : Append(sent[s], m)[i] = sent[s][i]
  BY <1>1, <1>3, AppendProperties
<1>8. /\ sent' \in [Sides -> Seq(Messages)] /\ sent'[s] = Append(sent[s], m) /\ sent'[Peer(s)] = sent[Peer(s)]
      /\ writer' \in [Sides -> Writers] /\ writer'[s] = "idle" /\ writer'[Peer(s)] = writer[Peer(s)]
      /\ closeAt' \in [Sides -> Int]
  BY <1>4, <1>7, PeerFacts DEF Inv, TypeInv, Writers
<1> HIDE DEF c
<1>9. Grown(sent[s], closeAt[s], sent'[s], closeAt'[s])
  BY <1>1, <1>4, <1>7, <1>8 DEF Grown
<1>10. TaskAt(Task(BINARY, m), Len(sent[s]), Len(sent'[s]), sent'[s], closeAt'[s])
  <2>1. Len(sent'[s]) = n + 1 /\ sent'[s][n + 1] = m
    BY <1>7, <1>8
  <2> HIDE DEF n
  <2>2. n + 1 <= n + 1
    BY <1>1
  <2> QED  BY <2>1, <2>2 DEF TaskAt, n
<1>11. Len(sent'[s]) <= Len(Script[s]) /\ closeAt'[s] <= Len(sent'[s])
  <2>1. Len(Script[s]) \in Nat
    BY ScriptAssumption, LenProperties
  <2>2. Len(sent'[s]) = n + 1 /\ closeAt'[s] = closeAt[s]
    BY <1>4, <1>7, <1>8
  <2> HIDE DEF n
  <2> QED  BY <1>1, <1>2, <2>1, <2>2
<1> QED  BY <1>4, <1>5, <1>6, <1>8, <1>9, <1>10, <1>11, TaskStep

\* A CLOSE is put in its turn after the messages that were sent.
LEMMA CloseTaskKeeps ==
    ASSUME Inv, NEW s \in Sides, CloseTask(s), writer' \in [Sides -> Writers], writer'[Peer(s)] = writer[Peer(s)],
           writer'[s] # "send", UNCHANGED <<wire, broken, reader, sent, received, heard>>
    PROVE  Inv'
<1> DEFINE n == Len(sent[s])
           at == IF closeAt[s] < 0 THEN n ELSE closeAt[s]
           c == addTask(conn[s], Task(CLOSE, NoData))
<1>1. conn[s] \in Connections /\ sent[s] \in Seq(Messages) /\ closeAt[s] \in Int /\ n \in Nat
  BY SideFacts, LenProperties
<1>2. n <= Len(Script[s]) /\ closeAt[s] <= n
  BY SideFacts DEF ActsIn
<1>3. conn' = [conn EXCEPT ![s] = c] /\ closeAt' = [closeAt EXCEPT ![s] = at]
  BY DEF CloseTask
<1>4. Task(CLOSE, NoData) \in Tasks /\ Task(CLOSE, NoData) # NULL
  BY TaskFacts
<1>5. /\ c \in Connections /\ c.sender_chan = Append(conn[s].sender_chan, Task(CLOSE, NoData))
      /\ c.live = conn[s].live /\ c.closed = conn[s].closed /\ c.open = conn[s].open /\ c.inbox = conn[s].inbox
      /\ c.head = conn[s].head /\ c.sending = conn[s].sending /\ c.heartbeat_chan = conn[s].heartbeat_chan
      /\ c.error_chan = conn[s].error_chan /\ c.exit_signal = conn[s].exit_signal /\ c.exited = conn[s].exited
  BY <1>1, <1>4, AddTaskFacts
<1> HIDE DEF c
<1>6. at \in 0 .. n /\ (closeAt[s] >= 0 => at = closeAt[s]) /\ at \in Int /\ at <= n
  <2> HIDE DEF n
  <2> QED  BY <1>1, <1>2
<1> HIDE DEF at
<1>7. closeAt' \in [Sides -> Int] /\ closeAt'[s] = at /\ closeAt'[Peer(s)] = closeAt[Peer(s)] /\ sent' \in [Sides -> Seq(Messages)]
  BY <1>3, <1>6, PeerFacts DEF Inv, TypeInv
<1>8. Grown(sent[s], closeAt[s], sent'[s], closeAt'[s])
  BY <1>1, <1>6, <1>7 DEF Grown
<1>9. TaskAt(Task(CLOSE, NoData), Len(sent[s]), Len(sent'[s]), sent'[s], closeAt'[s])
  BY <1>6, <1>7 DEF TaskAt
<1> QED  BY <1>2, <1>3, <1>4, <1>5, <1>6, <1>7, <1>8, <1>9, TaskStep

\* close_streaming(), and the destructor's call of it.
LEMMA CloseKeeps ==
    ASSUME Inv, NEW s \in Sides, close_streaming(s) \/ Destroy(s)
    PROVE  Inv'
<1>1. CloseTask(s) /\ UNCHANGED <<wire, broken, reader, sent, received, heard>>
  BY DEF close_streaming, Destroy
<1>2. writer' = writer \/ writer' = [writer EXCEPT ![s] = "destroying"]
  BY DEF close_streaming, Destroy
<1>3. writer' \in [Sides -> Writers] /\ writer'[Peer(s)] = writer[Peer(s)]
  BY <1>2, PeerFacts DEF Inv, TypeInv, Writers
<1>4. writer'[s] # "send"
  BY <1>2, PeerFacts DEF Inv, TypeInv, close_streaming, Destroy
<1> QED  BY <1>1, <1>3, <1>4, CloseTaskKeeps

\* A heartbeat.
LEMMA HeartbeatKeeps ==
    ASSUME Inv, NEW s \in Sides, Heartbeat(s)
    PROVE  Inv'
<1> DEFINE b == [conn[s] EXCEPT !.pings = conn[s].pings + 1]
           c == addTask(b, Task(PING, NoData))
<1>1. conn[s] \in Connections /\ sent[s] \in Seq(Messages) /\ closeAt[s] \in Int
  BY SideFacts
<1>2. /\ conn' = [conn EXCEPT ![s] = c]
      /\ UNCHANGED <<writer, wire, broken, reader, sent, received, closeAt, heard>>
  BY DEF Heartbeat, app
<1>3. b \in Connections
  <2>1. conn[s].pings \in Nat
    BY <1>1 DEF Connections
  <2>2. conn[s].pings + 1 \in Nat
    BY <2>1
  <2> QED  BY <1>1, <2>2 DEF Connections
<1>4. Task(PING, NoData) \in Tasks /\ Task(PING, NoData) # NULL
  BY TaskFacts
<1>5. /\ b.sender_chan = conn[s].sender_chan
      /\ b.live = conn[s].live /\ b.closed = conn[s].closed /\ b.open = conn[s].open /\ b.inbox = conn[s].inbox
      /\ b.head = conn[s].head /\ b.sending = conn[s].sending /\ b.heartbeat_chan = conn[s].heartbeat_chan
      /\ b.error_chan = conn[s].error_chan /\ b.exit_signal = conn[s].exit_signal /\ b.exited = conn[s].exited
  BY <1>1 DEF Connections
<1> HIDE DEF b
<1>6. /\ c \in Connections /\ c.sender_chan = Append(b.sender_chan, Task(PING, NoData))
      /\ c.live = b.live /\ c.closed = b.closed /\ c.open = b.open /\ c.inbox = b.inbox
      /\ c.head = b.head /\ c.sending = b.sending /\ c.heartbeat_chan = b.heartbeat_chan
      /\ c.error_chan = b.error_chan /\ c.exit_signal = b.exit_signal /\ c.exited = b.exited
  BY <1>3, <1>4, AddTaskFacts
<1> HIDE DEF c
<1>7. /\ c.sender_chan = Append(conn[s].sender_chan, Task(PING, NoData))
      /\ c.live = conn[s].live /\ c.closed = conn[s].closed /\ c.open = conn[s].open /\ c.inbox = conn[s].inbox
      /\ c.head = conn[s].head /\ c.sending = conn[s].sending /\ c.heartbeat_chan = conn[s].heartbeat_chan
      /\ c.error_chan = conn[s].error_chan /\ c.exit_signal = conn[s].exit_signal /\ c.exited = conn[s].exited
  BY <1>5, <1>6
<1>8. sent' = sent /\ closeAt' = closeAt /\ writer' = writer /\ writer' \in [Sides -> Writers]
      /\ sent' \in [Sides -> Seq(Messages)] /\ closeAt' \in [Sides -> Int]
  BY <1>2 DEF Inv, TypeInv
<1>9. Grown(sent[s], closeAt[s], sent'[s], closeAt'[s])
  <2>1. Len(sent[s]) \in Nat
    BY <1>1, LenProperties
  <2> QED  BY <1>8, <2>1 DEF Grown
<1>10. TaskAt(Task(PING, NoData), Len(sent[s]), Len(sent'[s]), sent'[s], closeAt'[s])
  BY <1>8 DEF TaskAt
<1>11. /\ writer'[s] = "send" => Len(sent'[s]) < Len(Script[s])
       /\ Len(sent'[s]) <= Len(Script[s]) /\ closeAt'[s] <= Len(sent'[s])
  BY <1>8, SideFacts DEF ActsIn
<1> QED  BY <1>2, <1>4, <1>6, <1>7, <1>8, <1>9, <1>10, <1>11, TaskStep

\* recv() returns the end of the stream.
LEMMA ReadsEnd ==
    ASSUME NEW c \in Connections, NEW r, NEW rec, NEW hrd, NEW w, NEW d, NEW snt, NEW cl, NEW brk,
           ReadsIn(c, r, rec, hrd, w, d, snt, cl, brk), c.inbox # <<>>, Head(c.inbox) = NULL,
           NEW c2, c2.inbox = Tail(c.inbox), c2.head = c.head, c2.open = c.open
    PROVE  ReadsIn(c2, "ended", rec, hrd, w, d, snt, cl, brk)
<1> DEFINE less == Tail(c.inbox)
<1>1. c.inbox \in Seq(InboxItems) /\ c.open \in BOOLEAN
  BY DEF Connections
<1>2. Ordered(c.inbox)
  BY DEF ReadsIn, InboxInv
<1>3. less \in Seq(InboxItems) /\ Ordered(less) /\ Len(less) = Len(c.inbox) - 1 /\ Items(c.inbox) = 0 /\ Items(less) = 0
  BY <1>1, <1>2, InboxTail
<1>4. Len(c.inbox) \in Nat /\ Len(c.inbox) > 0
  BY <1>1, EmptySeq, LenProperties
<1> HIDE DEF less
<1>5. Len(c.inbox) <= 0 + (IF c.open THEN 0 ELSE 2)
  BY <1>3 DEF ReadsIn, InboxInv
<1>6. ~c.open /\ Len(less) <= 2
  BY <1>1, <1>3, <1>4, <1>5
<1>7. c2.inbox = less
  BY DEF less
<1>8. InboxInv(c2, "ended")
  BY <1>3, <1>6, <1>7 DEF InboxInv
<1>9. Delivered(rec, c2.inbox, snt)
  BY <1>3, <1>7 DEF ReadsIn, Delivered
<1>10. hrd => cl \in 0 .. Len(rec) + Items(c2.inbox)
  BY <1>3, <1>7 DEF ReadsIn
<1> QED  BY <1>6, <1>8, <1>9, <1>10 DEF ReadsIn

\* The message recv() returns is the one that follows those it has returned.
LEMMA NextMessage ==
    ASSUME NEW c \in Connections, NEW r, NEW rec \in Seq(Messages), NEW hrd, NEW w, NEW d, NEW snt \in Seq(Messages),
           NEW cl, NEW brk,
           ReadsIn(c, r, rec, hrd, w, d, snt, cl, brk), c.inbox # <<>>, NEW item, item = Head(c.inbox), item # NULL
    PROVE  Len(rec) < Len(snt) /\ item.m = snt[Len(rec) + 1] /\ item.m \in Messages
<1> DEFINE q == Items(c.inbox)
           k == Len(rec)
<1>1. c.inbox \in Seq(InboxItems)
  BY DEF Connections
<1>2. Ordered(c.inbox) /\ Delivered(rec, c.inbox, snt)
  BY DEF ReadsIn, InboxInv
<1>3. q >= 1 /\ Head(c.inbox) = c.inbox[1]
  BY <1>1, <1>2, InboxTail
<1>4. Len(c.inbox) \in Nat /\ k \in Nat /\ Len(snt) \in Nat
  BY <1>1, LenProperties
<1>5. q \in Nat
  <2>1. q \in 0 .. Len(c.inbox)
    BY <1>2 DEF Ordered
  <2> QED  BY <1>4, <2>1
<1> HIDE DEF q, k
<1>6. k + q <= Len(snt)
  BY <1>2 DEF Delivered, q, k
<1>7. c.inbox[1] = Inbound(snt[k + 1])
  <2>1. 1 \in 1 .. q
    BY <1>3, <1>5
  <2> QED  BY <1>2, <2>1 DEF Delivered, q, k
<1>8. item.m = snt[k + 1]
  BY <1>3, <1>7 DEF Inbound
<1>9. k < Len(snt)
  BY <1>3, <1>4, <1>5, <1>6
<1>10. snt[k + 1] \in Messages
  BY <1>4, <1>9, ElementOfSeq
<1> QED  BY <1>8, <1>9, <1>10 DEF k

\* recv() returns a message.
LEMMA ReadsMessage ==
    ASSUME NEW c \in Connections, NEW r, NEW rec \in Seq(Messages), NEW hrd, NEW w, NEW d, NEW snt \in Seq(Messages),
           NEW cl, NEW brk,
           ReadsIn(c, r, rec, hrd, w, d, snt, cl, brk), c.inbox # <<>>, NEW item, item = Head(c.inbox), item # NULL,
           NEW r2, r2 # "ended",
           NEW c2, c2.inbox = Tail(c.inbox), c2.head = c.head, c2.open = c.open
    PROVE  ReadsIn(c2, r2, Append(rec, item.m), hrd, w, d, snt, cl, brk)
<1> DEFINE less == Tail(c.inbox)
           m == item.m
           rec2 == Append(rec, m)
           q == Items(c.inbox)
           k == Len(rec)
<1>1. c.inbox \in Seq(InboxItems) /\ c.open \in BOOLEAN
  BY DEF Connections
<1>2. Ordered(c.inbox) /\ Delivered(rec, c.inbox, snt)
  BY DEF ReadsIn, InboxInv
<1>3. /\ less \in Seq(InboxItems) /\ Ordered(less) /\ Len(less) = Len(c.inbox) - 1
      /\ q >= 1 /\ Items(less) = q - 1
      /\ \A i \in 1 .. q - 1 : less[i] = c.inbox[i + 1]
  BY <1>1, <1>2, InboxTail
<1>4. Len(c.inbox) \in Nat /\ k \in Nat /\ Len(snt) \in Nat
  BY <1>1, LenProperties
<1>5. q \in Nat
  <2>1. q \in 0 .. Len(c.inbox)
    BY <1>2 DEF Ordered
  <2> QED  BY <1>4, <2>1
<1>6. m \in Messages
  BY NextMessage
<1> HIDE DEF less, q, k, m
<1>7. Len(rec2) = k + 1
  BY <1>6, AppendProperties DEF k
<1>8. c2.inbox = less
  BY DEF less
<1>9. Len(rec2) + Items(less) = k + q
  BY <1>3, <1>4, <1>5, <1>7
<1> HIDE DEF rec2
<1>10. Delivered(rec2, c2.inbox, snt)
  <2>1. Len(rec2) + Items(less) <= Len(snt)
    BY <1>2, <1>9 DEF Delivered, q, k
  <2>2. ASSUME NEW i \in 1 .. Items(less)
        PROVE  less[i] = Inbound(snt[Len(rec2) + i])
    <3>1. i \in 1 .. q - 1 /\ i + 1 \in 1 .. q /\ k + (i + 1) = Len(rec2) + i
      BY <1>3, <1>4, <1>5, <1>7
    <3>2. less[i] = c.inbox[i + 1]
      BY <1>3, <3>1
    <3>3. c.inbox[i + 1] = Inbound(snt[k + (i + 1)])
      BY <1>2, <3>1 DEF Delivered, q, k
    <3> QED  BY <3>1, <3>2, <3>3
  <2> QED  BY <1>8, <2>1, <2>2 DEF Delivered
<1>11. InboxInv(c2, r2)
  <2>1. Len(c.inbox) <= q + (IF c.open THEN 0 ELSE 2)
    BY DEF ReadsIn, InboxInv, q
  <2>2. Len(less) <= Items(less) + (IF c.open THEN 0 ELSE 2)
    BY <1>1, <1>3, <1>4, <1>5, <2>1
  <2> QED  BY <1>3, <1>8, <2>2 DEF InboxInv
<1>12. hrd => cl \in 0 .. Len(rec2) + Items(c2.inbox)
  BY <1>8, <1>9 DEF ReadsIn, q, k
<1>13. c2.open /\ ~brk => Line(w, c2.head, Len(rec2) + Items(c2.inbox), d.open, d.sending, d.sender_chan, snt, cl)
  <2>1. c.open /\ ~brk => Line(w, c.head, k + q, d.open, d.sending, d.sender_chan, snt, cl)
    BY DEF ReadsIn, q, k
  <2> QED  BY <1>8, <1>9, <2>1
<1> QED  BY <1>10, <1>11, <1>12, <1>13 DEF ReadsIn, m, rec2

\* What the peer reads is the same when the side's descriptor and its sender are.
LEMMA ReadsSameFrom ==
    ASSUME NEW c, NEW r, NEW rec, NEW hrd, NEW w, NEW d, NEW snt, NEW cl, NEW brk,
           ReadsIn(c, r, rec, hrd, w, d, snt, cl, brk),
           NEW d2, d2.open = d.open, d2.sending = d.sending, d2.sender_chan = d.sender_chan
    PROVE  ReadsIn(c, r, rec, hrd, w, d2, snt, cl, brk)
  BY DEF ReadsIn

\* recv() returns.
LEMMA RecvKeeps ==
    ASSUME Inv, NEW s \in Sides, Recv(s)
    PROVE  Inv'
<1> DEFINE p == Peer(s)
           c == [conn[s] EXCEPT !.inbox = Tail(conn[s].inbox)]
           item == Head(conn[s].inbox)
<1>1. p \in Sides /\ Peer(p) = s /\ p # s
  BY PeerFacts
<1>2. /\ conn[s] \in Connections /\ received[s] \in Seq(Messages) /\ sent[p] \in Seq(Messages) /\ FibersInv(conn[s])
      /\ ActsIn(conn[s], writer[s], sent[s], closeAt[s], Script[s])
      /\ ReadsIn(conn[s], reader[s], received[s], heard[s], wire[s], conn[p], sent[p], closeAt[p], broken)
      /\ ReadsIn(conn[p], reader[p], received[p], heard[p], wire[p], conn[s], sent[s], closeAt[s], broken)
  BY <1>1, SideFacts
<1>3. /\ conn' = [conn EXCEPT ![s] = c] /\ conn[s].inbox # <<>>
      /\ UNCHANGED <<wire, broken, writer, sent, closeAt, heard>>
  BY DEF Recv
<1>4. Tail(conn[s].inbox) \in Seq(InboxItems)
  <2>1. conn[s].inbox \in Seq(InboxItems)
    BY <1>2 DEF Connections
  <2> QED  BY <1>3, <2>1
<1>5. c \in Connections
  BY <1>2, <1>4 DEF Connections
<1>6. /\ c.live = conn[s].live /\ c.closed = conn[s].closed /\ c.open = conn[s].open /\ c.inbox = Tail(conn[s].inbox)
      /\ c.head = conn[s].head /\ c.sending = conn[s].sending /\ c.sender_chan = conn[s].sender_chan
      /\ c.heartbeat_chan = conn[s].heartbeat_chan /\ c.error_chan = conn[s].error_chan
      /\ c.exit_signal = conn[s].exit_signal /\ c.exited = conn[s].exited
  BY <1>2 DEF Connections
<1> HIDE DEF c
<1>7. FibersInv(c)
  BY <1>2, <1>6 DEF FibersInv
<1>8. ActsIn(c, writer'[s], sent'[s], closeAt'[s], Script[s])
  BY <1>2, <1>3, <1>7 DEF ActsIn
<1>9. /\ reader' \in [Sides -> Readers] /\ reader'[p] = reader[p]
      /\ received' \in [Sides -> Seq(Messages)] /\ received'[p] = received[p]
      /\ ReadsIn(c, reader'[s], received'[s], heard[s], wire[s], conn[p], sent[p], closeAt[p], broken)
  <2>1. CASE item = NULL
    <3>1. reader' = [reader EXCEPT ![s] = "ended"] /\ received' = received
      BY <2>1 DEF Recv
    <3>2. reader' \in [Sides -> Readers] /\ reader'[s] = "ended" /\ reader'[p] = reader[p] /\ received' \in [Sides -> Seq(Messages)]
      BY <1>1, <3>1 DEF Inv, TypeInv, Readers
    <3>3. ReadsIn(c, "ended", received[s], heard[s], wire[s], conn[p], sent[p], closeAt[p], broken)
      BY <1>2, <1>3, <1>6, <2>1, ReadsEnd
    <3> QED  BY <3>1, <3>2, <3>3
  <2>2. CASE item # NULL
    <3>1. PICK next \in {"waiting", "stopped"} :
             reader' = [reader EXCEPT ![s] = next] /\ received' = [received EXCEPT ![s] = Append(received[s], item.m)]
      BY <2>2 DEF Recv
    <3>2. /\ item.m \in Messages
          /\ ReadsIn(c, next, Append(received[s], item.m), heard[s], wire[s], conn[p], sent[p], closeAt[p], broken)
      <4>1. next # "ended" /\ item = Head(conn[s].inbox)
        OBVIOUS
      <4> HIDE DEF item, p
      <4>2. conn[s].inbox # <<>> /\ item # NULL /\ c.inbox = Tail(conn[s].inbox) /\ c.head = conn[s].head /\ c.open = conn[s].open
        BY <1>3, <1>6, <2>2
      <4>3. conn[s] \in Connections /\ received[s] \in Seq(Messages) /\ sent[p] \in Seq(Messages)
            /\ ReadsIn(conn[s], reader[s], received[s], heard[s], wire[s], conn[p], sent[p], closeAt[p], broken)
        BY <1>2
      <4>4. item.m \in Messages
        BY <4>1, <4>2, <4>3, NextMessage
      <4>5. ReadsIn(c, next, Append(received[s], item.m), heard[s], wire[s], conn[p], sent[p], closeAt[p], broken)
        BY <4>1, <4>2, <4>3, ReadsMessage
      <4> QED  BY <4>4, <4>5
    <3>3. Append(received[s], item.m) \in Seq(Messages)
      BY <1>2, <3>2, AppendProperties
    <3>4. /\ reader' \in [Sides -> Readers] /\ reader'[s] = next /\ reader'[p] = reader[p]
          /\ received' \in [Sides -> Seq(Messages)] /\ received'[p] = received[p]
          /\ received'[s] = Append(received[s], item.m)
      BY <1>1, <3>1, <3>3 DEF Inv, TypeInv, Readers
    <3> QED  BY <3>2, <3>4
  <2> QED  BY <2>1, <2>2
<1>10. ReadsIn(c, reader'[s], received'[s], heard'[s], wire'[s], conn[p], sent[p], closeAt[p], broken')
  BY <1>3, <1>9
<1>11. ReadsIn(conn[p], reader'[p], received'[p], heard'[p], wire'[p], c, sent'[s], closeAt'[s], broken')
  <2>1. ReadsIn(conn[p], reader[p], received[p], heard[p], wire[p], c, sent[s], closeAt[s], broken)
    BY <1>2, <1>6, ReadsSameFrom
  <2> QED  BY <1>3, <1>9, <2>1
<1>12. OthersTyped'
  BY <1>3, <1>9 DEF Inv, TypeInv, OthersTyped
<1> QED  BY <1>3, <1>5, <1>8, <1>10, <1>11, <1>12, StepOf

\* What the peer reads after the side has sent: what the line says.
LEMMA ReadsSent ==
    ASSUME NEW c, NEW r, NEW rec, NEW hrd, NEW w, NEW d, NEW snt, NEW cl, NEW brk,
           ReadsIn(c, r, rec, hrd, w, d, snt, cl, brk), NEW w2, NEW d2,
           c.open /\ ~brk => Line(w2, c.head, Len(rec) + Items(c.inbox), d2.open, d2.sending, d2.sender_chan, snt, cl)
    PROVE  ReadsIn(c, r, rec, hrd, w2, d2, snt, cl, brk)
  BY DEF ReadsIn

\* A step of the sender of side s, that adds cells to what is on its way to the peer.
LEMMA SenderStepOf ==
    ASSUME Inv, NEW s \in Sides, NEW c \in Connections, conn' = [conn EXCEPT ![s] = c], FibersInv(c),
           c.inbox = conn[s].inbox, c.head = conn[s].head, c.open = conn[s].open,
           NEW cells \in Seq(Cells), Transmit(s, cells),
           UNCHANGED <<broken, writer, reader, sent, received, closeAt, heard>>,
           \A k : LET p == Peer(s)
                  IN  Line(wire[p], conn[p].head, k, conn[s].open, conn[s].sending, conn[s].sender_chan, sent[s], closeAt[s])
                      => Line(wire[p] \o cells, conn[p].head, k, c.open, c.sending, c.sender_chan, sent[s], closeAt[s])
    PROVE  Inv'
<1> DEFINE p == Peer(s)
<1>1. p \in Sides /\ Peer(p) = s /\ p # s
  BY PeerFacts
<1>2. /\ wire[p] \in Seq(Cells)
      /\ ActsIn(conn[s], writer[s], sent[s], closeAt[s], Script[s])
      /\ ReadsIn(conn[s], reader[s], received[s], heard[s], wire[s], conn[p], sent[p], closeAt[p], broken)
      /\ ReadsIn(conn[p], reader[p], received[p], heard[p], wire[p], conn[s], sent[s], closeAt[s], broken)
  BY <1>1, SideFacts
<1>3. /\ wire' \in [Sides -> Seq(Cells)] /\ wire'[s] = wire[s]
      /\ conn[p].open => wire'[p] = wire[p] \o cells
  <2>1. wire[p] \o cells \in Seq(Cells)
    BY <1>2, ConcatProperties
  <2>2. wire \in [Sides -> Seq(Cells)]
    BY DEF Inv, TypeInv
  <2>3. wire' = IF conn[p].open THEN [wire EXCEPT ![p] = wire[p] \o cells] ELSE wire
    BY DEF Transmit
  <2> HIDE DEF p
  <2> QED  BY <1>1, <2>1, <2>2, <2>3
<1>4. ReadsIn(c, reader'[s], received'[s], heard'[s], wire'[s], conn[p], sent[p], closeAt[p], broken')
  <2>1. ReadsIn(c, reader[s], received[s], heard[s], wire[s], conn[p], sent[p], closeAt[p], broken)
    BY <1>2, ReadsSame
  <2> QED  BY <1>3, <2>1
<1>5. ReadsIn(conn[p], reader'[p], received'[p], heard'[p], wire'[p], c, sent'[s], closeAt'[s], broken')
  <2> DEFINE k == Len(received[p]) + Items(conn[p].inbox)
  <2>1. ASSUME conn[p].open, ~broken
        PROVE  Line(wire'[p], conn[p].head, k, c.open, c.sending, c.sender_chan, sent[s], closeAt[s])
    <3>1. Line(wire[p], conn[p].head, k, conn[s].open, conn[s].sending, conn[s].sender_chan, sent[s], closeAt[s])
      BY <1>2, <2>1 DEF ReadsIn
    <3> HIDE DEF k
    <3>2. Line(wire[p] \o cells, conn[p].head, k, c.open, c.sending, c.sender_chan, sent[s], closeAt[s])
      BY <3>1
    <3> QED  BY <1>3, <2>1, <3>2
  <2>2. ReadsIn(conn[p], reader[p], received[p], heard[p], wire'[p], c, sent[s], closeAt[s], broken)
    BY <1>2, <2>1, ReadsSent
  <2> QED  BY <2>2
<1>6. OthersTyped'
  BY <1>3 DEF Inv, TypeInv, OthersTyped
<1>7. ActsIn(c, writer'[s], sent'[s], closeAt'[s], Script[s])
  BY <1>2 DEF ActsIn
<1> QED  BY <1>4, <1>5, <1>6, <1>7, StepOf

\* The sender sends a payload.
LEMMA SendPayloadKeeps ==
    ASSUME Inv, NEW s \in Sides, SendPayload(s)
    PROVE  Inv'
<1> DEFINE c == [conn[s] EXCEPT !.sending = <<>>]
<1>1. conn[s] \in Connections /\ FibersInv(conn[s]) /\ sent[s] \in Seq(Messages) /\ closeAt[s] \in Int /\ wire[Peer(s)] \in Seq(Cells)
  BY SideFacts, PeerFacts
<1>2. /\ conn' = [conn EXCEPT ![s] = c] /\ conn[s].sending # <<>>
      /\ UNCHANGED <<broken, writer, reader, sent, received, closeAt, heard>>
      /\ IF Usable(s) THEN Transmit(s, conn[s].sending) ELSE UNCHANGED wire
  BY DEF SendPayload, app
<1>3. c \in Connections
  BY <1>1 DEF Connections
<1>4. /\ c.live = conn[s].live /\ c.closed = conn[s].closed /\ c.open = conn[s].open /\ c.inbox = conn[s].inbox
      /\ c.head = conn[s].head /\ c.sending = <<>> /\ c.sender_chan = conn[s].sender_chan
      /\ c.heartbeat_chan = conn[s].heartbeat_chan /\ c.error_chan = conn[s].error_chan
      /\ c.exit_signal = conn[s].exit_signal /\ c.exited = conn[s].exited
  BY <1>1 DEF Connections
<1> HIDE DEF c
<1>5. FibersInv(c)
  BY <1>1, <1>4 DEF FibersInv
<1>6. CASE ~Usable(s)
  <2>1. UNCHANGED wire
    BY <1>2, <1>6
  <2>2. writer' = writer /\ writer' \in [Sides -> Writers]
    BY <1>2 DEF Inv, TypeInv
  <2>3. writer'[s] = "send" => Len(sent[s]) < Len(Script[s])
    BY <2>2, SideFacts DEF ActsIn
  <2> QED  BY <1>2, <1>3, <1>4, <1>5, <1>6, <2>1, <2>2, <2>3, QuietStep
<1>7. CASE Usable(s)
  <2>1. PICK m \in Messages : conn[s].sending = <<Body(m)>>
    <3>1. conn[s].sending \in {<<>>} \cup {<<Body(m)>> : m \in Messages}
      BY <1>1 DEF Connections
    <3> QED  BY <1>2, <3>1
  <2>2. <<Body(m)>> \in Seq(Cells)
    <3>1. Body(m) \in Cells
      BY DEF Cells
    <3> QED  BY <3>1
  <2>3. Transmit(s, <<Body(m)>>) /\ conn[s].open
    BY <1>2, <1>7, <2>1 DEF Usable
  <2>4. ASSUME NEW k, Line(wire[Peer(s)], conn[Peer(s)].head, k, conn[s].open, conn[s].sending, conn[s].sender_chan, sent[s], closeAt[s])
        PROVE  Line(wire[Peer(s)] \o <<Body(m)>>, conn[Peer(s)].head, k, c.open, c.sending, c.sender_chan, sent[s], closeAt[s])
    BY <1>1, <1>4, <2>1, <2>3, <2>4, LinePayload
  <2> QED  BY <1>2, <1>3, <1>4, <1>5, <2>2, <2>3, <2>4, SenderStepOf
<1> QED  BY <1>6, <1>7

\* The sender takes a task from its channel.
Taken(b) == [b EXCEPT !.sender_chan = Tail(@)]

\* The first task is a task, and not the null while the connection is open.
LEMMA TakenFacts ==
    ASSUME NEW b \in Connections, FibersInv(b), b.sender_chan # <<>>
    PROVE  /\ Taken(b) \in Connections /\ FibersInv(Taken(b)) /\ Head(b.sender_chan) \in Tasks
           /\ b.open => Head(b.sender_chan) # NULL
           /\ LET c == Taken(b)
              IN  /\ c.open = b.open /\ c.inbox = b.inbox /\ c.head = b.head /\ c.sending = b.sending
                  /\ c.sender_chan = Tail(b.sender_chan)
<1> DEFINE chan == b.sender_chan
           c == Taken(b)
<1>1. chan \in Seq(Tasks)
  BY DEF Connections
<1>2. /\ Tail(chan) \in Seq(Tasks) /\ Head(chan) = chan[1] /\ Head(chan) \in Tasks /\ 1 \in 1 .. Len(chan)
      /\ \A i \in 1 .. Len(Tail(chan)) : i + 1 \in 1 .. Len(chan) /\ Tail(chan)[i] = chan[i + 1]
  <2> HIDE DEF chan
  <2>1. chan # <<>>
    BY DEF chan
  <2> QED  BY <1>1, <2>1
<1>3. c \in Connections
  BY <1>2 DEF Taken, Connections
<1>4. /\ c.live = b.live /\ c.closed = b.closed /\ c.open = b.open /\ c.inbox = b.inbox
      /\ c.head = b.head /\ c.sending = b.sending /\ c.sender_chan = Tail(chan)
      /\ c.heartbeat_chan = b.heartbeat_chan /\ c.error_chan = b.error_chan
      /\ c.exit_signal = b.exit_signal /\ c.exited = b.exited
  BY DEF Taken, Connections
<1> HIDE DEF c
<1>5. b.open => \A i \in 1 .. Len(chan) : chan[i] # NULL
  BY DEF FibersInv
<1> HIDE DEF chan
<1>6. b.open => Head(chan) # NULL /\ \A i \in 1 .. Len(Tail(chan)) : Tail(chan)[i] # NULL
  BY <1>2, <1>5
<1>7. FibersInv(c)
  BY <1>4, <1>6 DEF FibersInv
<1> QED  BY <1>2, <1>3, <1>4, <1>6, <1>7 DEF c, chan

\* What the sender is to send of a task.
LEMMA TaskHeader ==
    ASSUME NEW task \in Tasks, task # NULL
    PROVE  /\ HeaderOf(task) \in Frames
           /\ (IF HeaderOf(task).len = 0 THEN <<>> ELSE <<PayloadCell(HeaderOf(task), task.m)>>)
                \in {<<>>} \cup {<<Body(m)>> : m \in Messages}
<1>1. CASE task \in {Task(PING, NoData), Task(CLOSE, NoData)}
  <2>1. HeaderOf(task) \in {Signal(PING), Signal(CLOSE)} /\ HeaderOf(task).len = 0
    BY <1>1, HeadersOfTasks
  <2> HIDE DEF Signal
  <2> QED  BY <2>1 DEF Frames
<1>2. ASSUME NEW m \in Messages, task = Task(BINARY, m)
      PROVE  /\ HeaderOf(task) \in Frames
             /\ (IF HeaderOf(task).len = 0 THEN <<>> ELSE <<PayloadCell(HeaderOf(task), task.m)>>)
                  \in {<<>>} \cup {<<Body(x)>> : x \in Messages}
  <2>1. HeaderOf(task) = Bin(m) /\ Bin(m).len # 0
    BY <1>2, HeadersOfTasks
  <2>2. task.m = m
    BY <1>2 DEF Task
  <2>3. PayloadCell(HeaderOf(task), task.m) = Body(m)
    BY <2>1, <2>2 DEF Body
  <2> QED  BY <2>1, <2>3 DEF Frames
<1> QED  BY <1>1, <1>2 DEF Tasks

\* The sender takes a task: it ends, drops it, or sends its header.
LEMMA SendHeaderKeeps ==
    ASSUME Inv, NEW s \in Sides, SendHeader(s)
    PROVE  Inv'
<1> DEFINE b == conn[s]
           task == Head(b.sender_chan)
           c == Taken(b)
           h == HeaderOf(task)
           sending == IF h.len = 0 THEN <<>> ELSE <<PayloadCell(h, task.m)>>
<1>1. b \in Connections /\ FibersInv(b) /\ sent[s] \in Seq(Messages) /\ closeAt[s] \in Int /\ wire[Peer(s)] \in Seq(Cells)
  BY SideFacts, PeerFacts
<1>2. /\ b.sending = <<>> /\ b.sender_chan # <<>>
      /\ UNCHANGED <<broken, writer, reader, sent, received, closeAt, heard>>
  BY DEF SendHeader, app
<1>3. /\ c \in Connections /\ FibersInv(c) /\ task \in Tasks /\ (b.open => task # NULL)
      /\ c.open = b.open /\ c.inbox = b.inbox /\ c.head = b.head /\ c.sending = b.sending
      /\ c.sender_chan = Tail(b.sender_chan)
  BY <1>1, <1>2, TakenFacts
<1>4. IF task = NULL
      THEN conn' = [conn EXCEPT ![s] = Exit(c, "sender")] /\ UNCHANGED wire
      ELSE IF ~Usable(s)
      THEN conn' = [conn EXCEPT ![s] = c] /\ UNCHANGED wire
      ELSE Transmit(s, HeaderCells(h)) /\ conn' = [conn EXCEPT ![s] = [c EXCEPT !.sending = sending]]
  BY DEF SendHeader, HeaderOf, Taken
<1>5. writer' = writer /\ writer' \in [Sides -> Writers] /\ (writer'[s] = "send" => Len(sent[s]) < Len(Script[s]))
  BY <1>2, SideFacts DEF Inv, TypeInv, ActsIn
<1> HIDE DEF c
<1>6. CASE task = NULL
  <2> DEFINE d == Exit(c, "sender")
  <2>1. conn' = [conn EXCEPT ![s] = d] /\ UNCHANGED wire
    BY <1>4, <1>6
  <2>2. ~b.open
    BY <1>3, <1>6
  <2>3. d \in Connections /\ FibersInv(d) /\ ~d.open /\ d.inbox = c.inbox /\ d.head = c.head
    BY <1>3, <2>2, ExitFacts
  <2> HIDE DEF d
  <2>4. d.open = b.open
    <3>1. d.open \in BOOLEAN /\ b.open \in BOOLEAN
      BY <1>1, <2>3 DEF Connections
    <3> QED  BY <2>2, <2>3, <3>1
  <2>5. ~Usable(s)
    BY <2>2 DEF Usable
  <2> QED  BY <1>2, <1>3, <1>5, <2>1, <2>3, <2>4, <2>5, QuietStep
<1>7. CASE task # NULL /\ ~Usable(s)
  <2>1. conn' = [conn EXCEPT ![s] = c] /\ UNCHANGED wire
    BY <1>4, <1>7
  <2> QED  BY <1>2, <1>3, <1>5, <1>7, <2>1, QuietStep
<1>8. CASE task # NULL /\ Usable(s)
  <2> DEFINE d == [c EXCEPT !.sending = sending]
             cells == HeaderCells(h)
  <2>1. conn' = [conn EXCEPT ![s] = d] /\ Transmit(s, cells) /\ b.open
    BY <1>4, <1>8 DEF Usable
  <2>2. h \in Frames /\ sending \in {<<>>} \cup {<<Body(m)>> : m \in Messages}
    BY <1>3, <1>8, TaskHeader
  <2>3. cells \in Seq(Cells)
    BY <2>2, FrameFacts
  <2> HIDE DEF cells, sending
  <2>4. d \in Connections
    BY <1>3, <2>2 DEF Connections
  <2>5. /\ d.live = c.live /\ d.closed = c.closed /\ d.open = c.open /\ d.inbox = c.inbox
        /\ d.head = c.head /\ d.sending = sending /\ d.sender_chan = c.sender_chan
        /\ d.heartbeat_chan = c.heartbeat_chan /\ d.error_chan = c.error_chan
        /\ d.exit_signal = c.exit_signal /\ d.exited = c.exited
    BY <1>3 DEF Connections
  <2> HIDE DEF d
  <2>6. FibersInv(d)
    BY <1>3, <2>5 DEF FibersInv
  <2>7. d.open = b.open /\ d.inbox = b.inbox /\ d.head = b.head /\ d.sender_chan = Tail(b.sender_chan)
    BY <1>3, <2>5
  <2>8. ASSUME NEW k, Line(wire[Peer(s)], conn[Peer(s)].head, k, conn[s].open, conn[s].sending, conn[s].sender_chan, sent[s], closeAt[s])
        PROVE  Line(wire[Peer(s)] \o cells, conn[Peer(s)].head, k, d.open, d.sending, d.sender_chan, sent[s], closeAt[s])
    <3>1. Line(wire[Peer(s)], conn[Peer(s)].head, k, b.open, <<>>, b.sender_chan, sent[s], closeAt[s])
      BY <1>2, <2>8
    <3>2. b.sender_chan \in Seq(Tasks)
      BY <1>1 DEF Connections
    <3>3. Line(wire[Peer(s)] \o cells, conn[Peer(s)].head, k, b.open, sending, Tail(b.sender_chan), sent[s], closeAt[s])
      BY <1>1, <1>2, <2>1, <3>1, <3>2, LineHeader DEF cells, sending
    <3> QED  BY <2>5, <2>7, <3>3
  <2> QED  BY <1>2, <2>1, <2>3, <2>4, <2>6, <2>7, <2>8, SenderStepOf
<1> QED  BY <1>6, <1>7, <1>8

\* A side that has read a header or a payload, and goes on at the next position.
LEMMA ReadsOn ==
    ASSUME NEW c, NEW r, NEW rec, NEW hrd, NEW w, NEW d, NEW snt, NEW cl, NEW brk,
           ReadsIn(c, r, rec, hrd, w, d, snt, cl, brk), NEW c2, NEW w2,
           c2.inbox = c.inbox, c2.open = c.open,
           Line(w2, c2.head, Len(rec) + Items(c.inbox), d.open, d.sending, d.sender_chan, snt, cl)
    PROVE  ReadsIn(c2, r, rec, hrd, w2, d, snt, cl, brk)
  BY DEF ReadsIn, InboxInv

\* Nothing is read by a side that has closed.
LEMMA ReadsShut ==
    ASSUME NEW c, NEW r, NEW rec, NEW hrd, NEW w, NEW d, NEW snt, NEW cl, NEW brk,
           ReadsIn(c, r, rec, hrd, w, d, snt, cl, brk), ~c.open, NEW c2, NEW w2, c2.inbox = c.inbox, ~c2.open
    PROVE  ReadsIn(c2, r, rec, hrd, w2, d, snt, cl, brk)
  BY DEF ReadsIn, InboxInv

\* The peer reads the same when the side closes, or has its descriptor and its sender as before.
LEMMA ReadsFrom ==
    ASSUME NEW c, NEW r, NEW rec, NEW hrd, NEW w, NEW d, NEW snt, NEW cl, NEW brk,
           ReadsIn(c, r, rec, hrd, w, d, snt, cl, brk), NEW d2,
           d2.open => d.open /\ d2.sending = d.sending /\ d2.sender_chan = d.sender_chan
    PROVE  ReadsIn(c, r, rec, hrd, w, d2, snt, cl, brk)
  BY ReadsKept

\* A step of the recv fiber of side s.
LEMMA RecvStepOf ==
    ASSUME Inv, NEW s \in Sides, NEW c \in Connections, conn' = [conn EXCEPT ![s] = c], FibersInv(c),
           c.open => conn[s].open /\ c.sending = conn[s].sending /\ c.sender_chan = conn[s].sender_chan,
           wire' \in [Sides -> Seq(Cells)], wire'[Peer(s)] = wire[Peer(s)],
           heard' \in [Sides -> BOOLEAN], heard'[Peer(s)] = heard[Peer(s)],
           UNCHANGED <<broken, writer, reader, sent, received, closeAt>>,
           ReadsIn(c, reader[s], received[s], heard'[s], wire'[s], conn[Peer(s)], sent[Peer(s)], closeAt[Peer(s)], broken)
    PROVE  Inv'
<1> DEFINE p == Peer(s)
<1>1. p \in Sides /\ Peer(p) = s /\ p # s
  BY PeerFacts
<1>2. /\ ActsIn(conn[s], writer[s], sent[s], closeAt[s], Script[s])
      /\ ReadsIn(conn[p], reader[p], received[p], heard[p], wire[p], conn[s], sent[s], closeAt[s], broken)
  BY <1>1, SideFacts
<1>3. ReadsIn(conn[p], reader[p], received[p], heard[p], wire[p], c, sent[s], closeAt[s], broken)
  BY <1>2, ReadsFrom
<1>4. ReadsIn(conn[p], reader'[p], received'[p], heard'[p], wire'[p], c, sent'[s], closeAt'[s], broken')
  BY <1>3
<1>5. ReadsIn(c, reader'[s], received'[s], heard'[s], wire'[s], conn[p], sent[p], closeAt[p], broken')
  OBVIOUS
<1>6. OthersTyped'
  BY DEF Inv, TypeInv, OthersTyped
<1>7. ActsIn(c, writer'[s], sent'[s], closeAt'[s], Script[s])
  BY <1>2 DEF ActsIn
<1> QED  BY <1>4, <1>5, <1>6, <1>7, StepOf

\* What is left for a side after it has read.
LEMMA UnreadFacts ==
    ASSUME Inv, NEW s \in Sides, NEW c, conn' = [conn EXCEPT ![s] = c], NEW cells \in Seq(Cells), Unread(s, cells)
    PROVE  wire' \in [Sides -> Seq(Cells)] /\ wire'[Peer(s)] = wire[Peer(s)] /\ (c.open => wire'[s] = cells)
<1>1. conn'[s] = c
  BY DEF Inv, TypeInv
<1>2. wire' = [wire EXCEPT ![s] = IF c.open THEN cells ELSE <<>>]
  BY <1>1 DEF Unread
<1>3. (IF c.open THEN cells ELSE <<>>) \in Seq(Cells)
  OBVIOUS
<1>4. wire \in [Sides -> Seq(Cells)]
  BY DEF Inv, TypeInv
<1> QED  BY <1>2, <1>3, <1>4, PeerFacts

\* A read fails: the recv fiber ends.
LEMMA RecvFailsKeeps ==
    ASSUME Inv, NEW s \in Sides, RecvFails(s)
    PROVE  Inv'
<1> DEFINE p == Peer(s)
           b == conn[s]
           c == Exit(b, "recv")
<1>1. /\ b \in Connections /\ FibersInv(b) /\ wire[s] \in Seq(Cells)
      /\ ReadsIn(b, reader[s], received[s], heard[s], wire[s], conn[p], sent[p], closeAt[p], broken)
  BY SideFacts
<1>2. /\ conn' = [conn EXCEPT ![s] = c] /\ Unread(s, wire[s])
      /\ UNCHANGED <<broken, heard, writer, reader, sent, received, closeAt>>
  BY DEF RecvFails, app
<1>3. /\ c \in Connections /\ FibersInv(c) /\ ~c.open
      /\ c.inbox = IF b.open THEN Append(b.inbox, NULL) ELSE b.inbox
  BY <1>1, ExitFacts
<1> HIDE DEF c, b
<1>4. wire' \in [Sides -> Seq(Cells)] /\ wire'[p] = wire[p]
  BY <1>1, <1>2, UnreadFacts
<1>5. ReadsIn(c, reader[s], received[s], heard[s], wire'[s], conn[p], sent[p], closeAt[p], broken)
  <2>1. CASE b.open
    <3>1. c.inbox \in {Append(b.inbox, NULL), Append(Append(b.inbox, NULL), NULL)}
      BY <1>3, <2>1
    <3> QED  BY <1>1, <1>3, <2>1, <3>1, ReadsClosed
  <2>2. CASE ~b.open
    BY <1>1, <1>3, <2>2, ReadsShut
  <2> QED  BY <2>1, <2>2
<1>6. heard' \in [Sides -> BOOLEAN] /\ heard' = heard
  BY <1>2 DEF Inv, TypeInv
<1> QED  BY <1>2, <1>3, <1>4, <1>5, <1>6, RecvStepOf

\* A payload is read, and its message goes to the inbox.
LEMMA ReadsPayload ==
    ASSUME NEW c \in Connections, NEW r, NEW rec \in Seq(Messages), NEW hrd, NEW w \in Seq(Cells), NEW d,
           NEW snt \in Seq(Messages), NEW cl \in Int, NEW brk,
           ReadsIn(c, r, rec, hrd, w, d, snt, cl, brk), c.open, ~brk, c.head # <<>>, w # <<>>,
           NEW c2, c2.inbox = Append(c.inbox, Inbound(Head(w).data)), c2.head = <<>>, c2.open = c.open
    PROVE  /\ Head(w).data \in Messages /\ Tail(w) \in Seq(Cells)
           /\ ReadsIn(c2, r, rec, hrd, Tail(w), d, snt, cl, brk)
<1> DEFINE q == Items(c.inbox)
           k == Len(rec) + q
           m == snt[k + 1]
           more == Append(c.inbox, Inbound(m))
<1>1. c.inbox \in Seq(InboxItems)
  BY DEF Connections
<1>2. Ordered(c.inbox) /\ Len(c.inbox) <= q + 0 /\ r # "ended" /\ Delivered(rec, c.inbox, snt)
  BY DEF ReadsIn, InboxInv
<1>3. Len(c.inbox) \in Nat /\ q \in 0 .. Len(c.inbox) /\ Len(rec) \in Nat /\ Len(snt) \in Nat
  BY <1>1, <1>2, LenProperties DEF Ordered
<1>4. q \in Nat /\ k \in Nat /\ q = Len(c.inbox)
  BY <1>2, <1>3
<1>5. Line(w, c.head, k, d.open, d.sending, d.sender_chan, snt, cl)
  BY DEF ReadsIn
<1> HIDE DEF k, q
<1>6. /\ k < Len(snt) /\ Head(w) = Body(m) /\ Tail(w) \in Seq(Cells)
      /\ Line(Tail(w), <<>>, k + 1, d.open, d.sending, d.sender_chan, snt, cl)
  BY <1>4, <1>5, LineData
<1>7. m \in Messages
  BY <1>3, <1>4, <1>6, ElementOfSeq
<1>8. Head(w).data = m
  BY <1>6 DEF Body, PayloadCell, Payload
<1> HIDE DEF m
<1>9. /\ more \in Seq(InboxItems) /\ Ordered(more) /\ Items(more) = q + 1 /\ Len(more) = Items(more)
      /\ more[q + 1] = Inbound(m) /\ \A i \in 1 .. q : more[i] = c.inbox[i]
  BY <1>1, <1>2, <1>4, <1>7, InboxMessage DEF q
<1>10. c2.inbox = more
  BY <1>8
<1> HIDE DEF more
<1>11. Len(rec) + Items(more) = k + 1
  BY <1>3, <1>4, <1>9 DEF k
<1>12. InboxInv(c2, r)
  <2>1. c2.open /\ Len(more) <= Items(more) + 0
    BY <1>4, <1>9
  <2> QED  BY <1>2, <1>9, <1>10, <2>1 DEF InboxInv
<1>13. Delivered(rec, c2.inbox, snt)
  <2>1. Len(rec) + Items(more) <= Len(snt)
    BY <1>3, <1>4, <1>6, <1>11
  <2>2. ASSUME NEW i \in 1 .. Items(more)
        PROVE  more[i] = Inbound(snt[Len(rec) + i])
    <3>1. i \in 1 .. q \/ i = q + 1
      BY <1>4, <1>9
    <3>2. CASE i \in 1 .. q
      BY <1>2, <1>9, <3>2 DEF Delivered, q
    <3>3. CASE i = q + 1
      <4>1. Len(rec) + i = k + 1
        BY <1>3, <1>4, <3>3 DEF k
      <4> QED  BY <1>9, <3>3, <4>1 DEF m
    <3> QED  BY <3>1, <3>2, <3>3
  <2> QED  BY <1>10, <2>1, <2>2 DEF Delivered
<1>14. hrd => cl \in 0 .. Len(rec) + Items(c2.inbox)
  <2>1. hrd => cl \in 0 .. k
    BY DEF ReadsIn, k, q
  <2>2. hrd => cl \in 0 .. k + 1
    BY <1>4, <2>1
  <2> QED  BY <1>10, <1>11, <2>2
<1>15. Line(Tail(w), c2.head, Len(rec) + Items(c2.inbox), d.open, d.sending, d.sender_chan, snt, cl)
  BY <1>6, <1>10, <1>11
<1>16. ReadsIn(c2, r, rec, hrd, Tail(w), d, snt, cl, brk)
  BY <1>12, <1>13, <1>14, <1>15 DEF ReadsIn
<1> QED  BY <1>6, <1>7, <1>8, <1>16

\* read_frame_data() reads a payload.
LEMMA RecvDataKeeps ==
    ASSUME Inv, NEW s \in Sides, RecvData(s)
    PROVE  Inv'
<1> DEFINE p == Peer(s)
           b == conn[s]
           m == Head(wire[s]).data
           c == [b EXCEPT !.inbox = Append(b.inbox, Inbound(m)), !.head = <<>>]
<1>0. p \in Sides /\ p # s
  BY PeerFacts
<1>1. /\ b \in Connections /\ FibersInv(b) /\ wire[s] \in Seq(Cells) /\ received[s] \in Seq(Messages)
      /\ sent[p] \in Seq(Messages) /\ closeAt[p] \in Int
      /\ ReadsIn(b, reader[s], received[s], heard[s], wire[s], conn[p], sent[p], closeAt[p], broken)
  BY <1>0, SideFacts
<1>2. /\ conn' = [conn EXCEPT ![s] = c] /\ wire' = [wire EXCEPT ![s] = Tail(wire[s])]
      /\ b.open /\ ~broken /\ b.head # <<>> /\ wire[s] # <<>>
      /\ UNCHANGED <<broken, heard, writer, reader, sent, received, closeAt>>
  BY DEF RecvData, app, Usable
<1> HIDE DEF m, b, p
<1>3. c.inbox = Append(b.inbox, Inbound(m)) /\ c.head = <<>> /\ c.open = b.open /\ c.live = b.live
      /\ c.closed = b.closed /\ c.sending = b.sending /\ c.sender_chan = b.sender_chan
      /\ c.heartbeat_chan = b.heartbeat_chan /\ c.error_chan = b.error_chan
      /\ c.exit_signal = b.exit_signal /\ c.exited = b.exited
  BY <1>1 DEF Connections
<1>4. /\ m \in Messages /\ Tail(wire[s]) \in Seq(Cells)
      /\ ReadsIn(c, reader[s], received[s], heard[s], Tail(wire[s]), conn[p], sent[p], closeAt[p], broken)
  <2> HIDE DEF c
  <2> QED  BY <1>1, <1>2, <1>3, ReadsPayload DEF m
<1>5. c \in Connections
  <2>1. Inbound(m) \in InboxItems
    BY <1>4 DEF InboxItems
  <2>2. Append(b.inbox, Inbound(m)) \in Seq(InboxItems)
    BY <1>1, <2>1, AppendProperties DEF Connections
  <2> QED  BY <1>1, <2>2 DEF Connections
<1> HIDE DEF c
<1>6. FibersInv(c)
  BY <1>1, <1>3 DEF FibersInv
<1>7. wire' \in [Sides -> Seq(Cells)] /\ wire'[p] = wire[p] /\ wire'[s] = Tail(wire[s])
      /\ heard' \in [Sides -> BOOLEAN] /\ heard' = heard
  BY <1>0, <1>2, <1>4 DEF Inv, TypeInv
<1> QED  BY <1>2, <1>3, <1>4, <1>5, <1>6, <1>7, RecvStepOf DEF b, p

\* The connection is reset.
LEMMA ResetKeeps ==
    ASSUME Inv, Reset
    PROVE  Inv'
<1>1. UNCHANGED <<conn, heard, writer, reader, sent, received, closeAt>> /\ broken' = TRUE
      /\ wire' = [s \in Sides |-> <<>>]
  BY DEF Reset, app
<1>2. TypeInv'
  <2>1. wire' \in [Sides -> Seq(Cells)]
    BY <1>1
  <2> QED  BY <1>1, <2>1 DEF Inv, TypeInv
<1>3. ASSUME NEW s \in Sides
      PROVE  Acts(s)' /\ Reads(s)'
  <2>1. Acts(s)'
    BY <1>1 DEF Inv, Acts
  <2>2. Reads(s)'
    BY <1>1 DEF Inv, Reads, ReadsIn
  <2> QED  BY <2>1, <2>2
<1> QED  BY <1>2, <1>3 DEF Inv

\* What recv_loop() does with a header: a PING changes nothing, a CLOSE is the end, and
\* after the header of a message comes its payload.
LEMMA HandleHeadFacts ==
    ASSUME NEW c \in Connections, FibersInv(c), c.open, NEW h \in Frames
    PROVE  LET d == HandleHead(c, h)
           IN  /\ d \in Connections /\ FibersInv(d)
               /\ h = Signal(CLOSE) => ~d.open /\ d.inbox = Append(Append(c.inbox, NULL), NULL)
               /\ h # Signal(CLOSE) =>
                    /\ h.opcode # CLOSE
                    /\ d.open = c.open /\ d.inbox = c.inbox /\ d.sending = c.sending /\ d.sender_chan = c.sender_chan
                    /\ d.head = IF h.opcode = BINARY THEN <<h>> ELSE c.head
<1> DEFINE d == HandleHead(c, h)
<1>1. c.opcode = 0
  BY DEF Connections
<1>2. [c EXCEPT !.opcode = 0] = c
  BY <1>1 DEF Connections
<1> DEFINE op == Effective(h, c.opcode)
           on == [c EXCEPT !.opcode = IF h.fin THEN 0 ELSE Saved(h, c.opcode)]
           last == Exit([c EXCEPT !.remote_close = TRUE, !.inbox = Append(c.inbox, NULL)], "recv")
           body == [on EXCEPT !.head = <<h>>]
           bad == Exit(on, "recv")
<1>a. d = CASE op \in {PING, PONG} -> on [] op = CLOSE -> last [] op \in {TEXT, BINARY} -> body [] OTHER -> bad
  BY DEF HandleHead
<1>b. /\ op = PING => d = on
      /\ op = CLOSE => d = last
      /\ op = BINARY => d = body
  <2> HIDE DEF d, op, on, last, body, bad
  <2> QED  BY <1>a DEF PING, PONG, CLOSE, TEXT, BINARY
<1>3. CASE h = Signal(PING)
  <2>1. h.opcode = PING /\ h.fin = TRUE /\ h # Signal(CLOSE)
    BY <1>3 DEF Signal, Header, PING, CLOSE
  <2>2. Effective(h, c.opcode) = PING
    BY <2>1 DEF Effective, PING, CONTINUATION
  <2>3. [c EXCEPT !.opcode = IF h.fin THEN 0 ELSE Saved(h, c.opcode)] = c
    BY <1>2, <2>1
  <2>4. d = c
    BY <1>b, <2>2, <2>3
  <2>5. h.opcode # CLOSE /\ h.opcode # BINARY
    BY <2>1 DEF PING, CLOSE, BINARY
  <2> QED  BY <2>1, <2>4, <2>5
<1>4. ASSUME NEW m \in Messages, h = Bin(m)
      PROVE  /\ d \in Connections /\ FibersInv(d) /\ h # Signal(CLOSE) /\ h.opcode # CLOSE
             /\ d.open = c.open /\ d.inbox = c.inbox /\ d.sending = c.sending /\ d.sender_chan = c.sender_chan
             /\ d.head = IF h.opcode = BINARY THEN <<h>> ELSE c.head
  <2>1. h.opcode = BINARY /\ h.fin = TRUE
    BY <1>4 DEF Bin, Header
  <2>2. h # Signal(CLOSE) /\ h.opcode # CLOSE
    BY <2>1 DEF Signal, Header, BINARY, CLOSE
  <2>3. Effective(h, c.opcode) = BINARY
    BY <2>1 DEF Effective, BINARY, CONTINUATION
  <2>4. [c EXCEPT !.opcode = IF h.fin THEN 0 ELSE Saved(h, c.opcode)] = c
    BY <1>2, <2>1
  <2>5. d = [c EXCEPT !.head = <<h>>]
    BY <1>b, <2>3, <2>4
  <2>6. <<h>> \in {<<>>} \cup {<<Bin(x)>> : x \in Messages}
    BY <1>4
  <2> HIDE DEF d
  <2>7. d \in Connections
    BY <2>5, <2>6 DEF Connections
  <2>8. /\ d.live = c.live /\ d.closed = c.closed /\ d.open = c.open /\ d.inbox = c.inbox
        /\ d.head = <<h>> /\ d.sending = c.sending /\ d.sender_chan = c.sender_chan
        /\ d.heartbeat_chan = c.heartbeat_chan /\ d.error_chan = c.error_chan
        /\ d.exit_signal = c.exit_signal /\ d.exited = c.exited
    BY <2>5 DEF Connections
  <2>9. FibersInv(d)
    BY <2>8 DEF FibersInv
  <2> QED  BY <2>1, <2>2, <2>7, <2>8, <2>9
<1>5. CASE h = Signal(CLOSE)
  <2> DEFINE e == [c EXCEPT !.remote_close = TRUE, !.inbox = Append(c.inbox, NULL)]
  <2>1. h.opcode = CLOSE /\ h.fin = TRUE
    BY <1>5 DEF Signal, Header
  <2>2. Effective(h, c.opcode) = CLOSE
    BY <2>1 DEF Effective, CLOSE, CONTINUATION
  <2>3. d = Exit(e, "recv")
    BY <1>b, <2>2
  <2>4. Append(c.inbox, NULL) \in Seq(InboxItems)
    <3>1. NULL \in InboxItems
      BY DEF InboxItems
    <3> QED  BY <3>1, AppendProperties DEF Connections
  <2>5. e \in Connections
    BY <2>4 DEF Connections
  <2>6. /\ e.live = c.live /\ e.closed = c.closed /\ e.open = c.open /\ e.inbox = Append(c.inbox, NULL)
        /\ e.head = c.head /\ e.sending = c.sending /\ e.sender_chan = c.sender_chan
        /\ e.heartbeat_chan = c.heartbeat_chan /\ e.error_chan = c.error_chan
        /\ e.exit_signal = c.exit_signal /\ e.exited = c.exited
    BY DEF Connections
  <2> HIDE DEF e, d
  <2>7. FibersInv(e)
    BY <2>6 DEF FibersInv
  <2>8. d \in Connections /\ FibersInv(d) /\ ~d.open /\ d.inbox = Append(e.inbox, NULL)
    BY <2>3, <2>5, <2>6, <2>7, ExitFacts
  <2>9. d.inbox = Append(Append(c.inbox, NULL), NULL)
    BY <2>6, <2>8
  <2> QED  BY <1>5, <2>8, <2>9 DEF d
<1> QED  BY <1>3, <1>4, <1>5 DEF Frames

\* The recv fiber reads a header.
LEMMA RecvHeadKeeps ==
    ASSUME Inv, NEW s \in Sides, RecvHead(s)
    PROVE  Inv'
<1> DEFINE p == Peer(s)
           b == conn[s]
           w == wire[s]
           h == update_head_2bytes(w)
           rest == AfterHeader(w)
           c == HandleHead(b, h)
           k == Len(received[s]) + Items(b.inbox)
<1>0. p \in Sides /\ p # s
  BY PeerFacts
<1>1. /\ b \in Connections /\ FibersInv(b) /\ w \in Seq(Cells) /\ received[s] \in Seq(Messages)
      /\ sent[p] \in Seq(Messages) /\ closeAt[p] \in Int
      /\ ReadsIn(b, reader[s], received[s], heard[s], w, conn[p], sent[p], closeAt[p], broken)
  BY <1>0, SideFacts
<1>2. /\ conn' = [conn EXCEPT ![s] = c] /\ heard' = [heard EXCEPT ![s] = heard[s] \/ h.opcode = CLOSE]
      /\ b.open /\ ~broken /\ b.head = <<>> /\ HeaderReady(w) /\ Unread(s, rest)
      /\ UNCHANGED <<broken, writer, reader, sent, received, closeAt>>
  BY DEF RecvHead, app, Usable
<1> HIDE DEF p, b, w, h, rest, c, k
<1>3. k \in Nat
  <2>1. Len(b.inbox) \in Nat /\ Len(received[s]) \in Nat
    BY <1>1, LenProperties DEF Connections
  <2>2. Items(b.inbox) \in 0 .. Len(b.inbox)
    BY <1>1 DEF ReadsIn, InboxInv, Ordered
  <2> QED  BY <2>1, <2>2 DEF k
<1>4. Line(w, <<>>, k, conn[p].open, conn[p].sending, conn[p].sender_chan, sent[p], closeAt[p])
  BY <1>1, <1>2 DEF ReadsIn, k
<1>5. /\ h \in Frames /\ FrameAt(h, k, sent[p], closeAt[p]) /\ rest \in Seq(Cells)
      /\ Line(rest, IF h.opcode = BINARY THEN <<h>> ELSE <<>>, k, conn[p].open, conn[p].sending, conn[p].sender_chan,
              sent[p], closeAt[p])
  BY <1>1, <1>2, <1>3, <1>4, LineHead DEF h, rest
<1>6. /\ c \in Connections /\ FibersInv(c)
      /\ h = Signal(CLOSE) => ~c.open /\ c.inbox = Append(Append(b.inbox, NULL), NULL)
      /\ h # Signal(CLOSE) =>
           /\ h.opcode # CLOSE
           /\ c.open = b.open /\ c.inbox = b.inbox /\ c.sending = b.sending /\ c.sender_chan = b.sender_chan
           /\ c.head = IF h.opcode = BINARY THEN <<h>> ELSE b.head
  BY <1>1, <1>2, <1>5, HandleHeadFacts DEF c
<1>7. wire' \in [Sides -> Seq(Cells)] /\ wire'[p] = wire[p] /\ (c.open => wire'[s] = rest)
  BY <1>2, <1>5, UnreadFacts DEF p
<1>8. /\ heard' \in [Sides -> BOOLEAN] /\ heard'[p] = heard[p] /\ heard'[s] = (heard[s] \/ h.opcode = CLOSE)
      /\ heard[s] \in BOOLEAN
  <2>1. heard \in [Sides -> BOOLEAN]
    BY DEF Inv, TypeInv
  <2>2. PICK x \in BOOLEAN : x = (heard[s] \/ h.opcode = CLOSE)
    BY <2>1
  <2>3. heard' = [heard EXCEPT ![s] = x]
    BY <1>2, <2>2
  <2> QED  BY <1>0, <2>1, <2>2, <2>3
<1>9. CASE h = Signal(CLOSE)
  <2>1. closeAt[p] \in 0 .. k
    <3>1. Signal(CLOSE).opcode # Signal(PING).opcode /\ \A m : Signal(CLOSE).opcode # Bin(m).opcode
      BY DEF Signal, Bin, Header, CLOSE, PING, BINARY
    <3> QED  BY <1>5, <1>9, <3>1 DEF FrameAt
  <2>2. c.inbox \in {Append(b.inbox, NULL), Append(Append(b.inbox, NULL), NULL)} /\ ~c.open
    BY <1>6, <1>9
  <2>3. heard'[s] => heard[s] \/ closeAt[p] \in 0 .. Len(received[s]) + Items(b.inbox)
    BY <2>1 DEF k
  <2>4. ReadsIn(c, reader[s], received[s], heard'[s], wire'[s], conn[p], sent[p], closeAt[p], broken)
    BY <1>1, <1>2, <2>2, <2>3, ReadsClosed
  <2> QED  BY <1>2, <1>6, <1>7, <1>8, <2>2, <2>4, RecvStepOf DEF p
<1>10. CASE h # Signal(CLOSE)
  <2>1. /\ h.opcode # CLOSE /\ c.open = b.open /\ c.inbox = b.inbox /\ c.sending = b.sending
        /\ c.sender_chan = b.sender_chan /\ c.head = IF h.opcode = BINARY THEN <<h>> ELSE <<>>
    BY <1>2, <1>6, <1>10
  <2>2. heard'[s] = heard[s] /\ wire'[s] = rest
    BY <1>2, <1>7, <1>8, <2>1
  <2>3. Line(rest, c.head, Len(received[s]) + Items(b.inbox), conn[p].open, conn[p].sending, conn[p].sender_chan,
             sent[p], closeAt[p])
    BY <1>5, <2>1 DEF k
  <2>4. ReadsIn(c, reader[s], received[s], heard[s], rest, conn[p], sent[p], closeAt[p], broken)
    BY <1>1, <2>1, <2>3, ReadsOn
  <2> QED  BY <1>2, <1>6, <1>7, <1>8, <2>1, <2>2, <2>4, RecvStepOf DEF p, b
<1> QED  BY <1>9, <1>10

----------------------------------------------------------------------------
(* The invariant *)

\* An empty line between two new connections.
LEMMA EmptyLine ==
    Line(<<>>, <<>>, 0, TRUE, <<>>, <<>>, <<>>, -1)
<1> DEFINE mark == [at |-> 0, body |-> FALSE, level |-> 0]
           levels == [i \in Nat |-> 0]
<1>1. mark \in Marks /\ {mark} \in SUBSET Marks
  BY DEF Marks
<1>2. Parsed(<<>>, {mark}, mark, <<>>, -1)
  <2>1. mark.at = Len(<<>>)
    OBVIOUS
  <2> QED  BY <1>1, <2>1 DEF Parsed
<1>3. Reading(mark, <<>>, 0, <<>>)
  BY DEF Reading
<1>4. Queued(<<>>, 0, <<>>, -1)
  <2>1. levels \in [Nat -> Nat] /\ levels[0] = 0
    OBVIOUS
  <2>2. Len(<<>>) = 0 /\ \A i : i \notin 1 .. 0
    OBVIOUS
  <2>3. Queue(<<>>, levels, <<>>, -1)
    <3> HIDE DEF levels
    <3>1. levels[Len(<<>>)] = Len(<<>>)
      BY <2>1, <2>2
    <3>2. \A i \in 1 .. Len(<<>>) : FALSE
      BY <2>2
    <3> QED  BY <3>1, <3>2 DEF Queue
  <2> HIDE DEF levels
  <2> QED  BY <2>1, <2>3 DEF Queued
<1>5. Writing(mark, <<>>, <<>>, <<>>, -1)
  BY <1>4 DEF Writing
<1> HIDE DEF mark
<1> QED  BY <1>1, <1>2, <1>3, <1>5 DEF Line

\* The invariant holds when both sides begin.
LEMMA InitInv == Init => Inv
<1> SUFFICES ASSUME Init PROVE Inv
  OBVIOUS
<1> DEFINE n == NewConnection
<1>1. /\ n \in Connections /\ n.live = Fibers /\ n.open = TRUE /\ n.closed = FALSE /\ n.inbox = <<>> /\ n.head = <<>>
      /\ n.sending = <<>> /\ n.sender_chan = <<>> /\ n.heartbeat_chan = 0 /\ n.error_chan = 0 /\ n.exit_signal = 0
  BY DEF NewConnection, Connections
<1> HIDE DEF n
<1>2. TypeInv
  <2>1. conn = [s \in Sides |-> n]
    BY DEF Init, n
  <2>2. conn \in [Sides -> Connections]
    BY <1>1, <2>1
  <2>3. /\ wire \in [Sides -> Seq(Cells)] /\ sent \in [Sides -> Seq(Messages)] /\ received \in [Sides -> Seq(Messages)]
    BY DEF Init
  <2>4. writer \in [Sides -> Writers]
    BY DEF Init, Writers
  <2>5. reader \in [Sides -> Readers]
    BY DEF Init, Readers
  <2>6. closeAt \in [Sides -> Int] /\ heard \in [Sides -> BOOLEAN] /\ broken \in BOOLEAN
    <3>1. closeAt = [s \in Sides |-> -1] /\ -1 \in Int
      BY DEF Init
    <3>2. heard = [s \in Sides |-> FALSE] /\ broken = FALSE
      BY DEF Init
    <3>3. closeAt \in [Sides -> Int]
      BY <3>1
    <3> QED  BY <3>2, <3>3
  <2> QED  BY <2>2, <2>3, <2>4, <2>5, <2>6 DEF TypeInv
<1>3. Items(<<>>) = 0
  <2>1. <<>> \in Seq(InboxItems) /\ Len(<<>>) = 0
    BY EmptySeq
  <2>2. 0 \in 0 .. Len(<<>>) /\ \A i \in 1 .. Len(<<>>) : FALSE
    BY <2>1
  <2> QED  BY <2>1, <2>2, ItemsAre
<1>4. ASSUME NEW s \in Sides
      PROVE  Acts(s) /\ Reads(s)
  <2> DEFINE p == Peer(s)
  <2>1. p \in Sides
    BY PeerFacts
  <2> HIDE DEF p
  <2>2. /\ conn[s] = n /\ conn[p] = n /\ wire[s] = <<>> /\ writer[s] = "idle" /\ reader[s] # "ended"
        /\ sent[s] = <<>> /\ sent[p] = <<>> /\ received[s] = <<>> /\ closeAt[s] = -1 /\ closeAt[p] = -1 /\ heard[s] = FALSE
    BY <2>1 DEF Init, n
  <2>3. FibersInv(n)
    <3>1. \A i \in 1 .. Len(<<>>) : FALSE
      OBVIOUS
    <3> QED  BY <1>1, <3>1 DEF FibersInv, Fibers
  <2>4. Acts(s)
    <3>1. Len(Script[s]) \in Nat
      BY ScriptAssumption, LenProperties
    <3>2. Len(sent[s]) = 0
      BY <2>2
    <3>3. ActsIn(n, "idle", sent[s], -1, Script[s])
      BY <2>3, <3>1, <3>2 DEF ActsIn
    <3> QED  BY <2>2, <3>3 DEF Acts
  <2>5. ReadsIn(n, reader[s], <<>>, FALSE, <<>>, n, <<>>, -1, broken)
    <3>1. Len(<<>>) = 0 /\ \A i \in 1 .. Len(<<>>) : FALSE
      OBVIOUS
    <3>2. Ordered(<<>>)
      BY <1>3, <3>1 DEF Ordered
    <3>3. InboxInv(n, reader[s])
      BY <1>1, <1>3, <2>2, <3>1, <3>2 DEF InboxInv
    <3>4. Delivered(<<>>, <<>>, <<>>)
      BY <1>3, <3>1 DEF Delivered
    <3>5. Len(<<>>) + Items(<<>>) = 0
      BY <1>3, <3>1
    <3> QED  BY <1>1, <3>3, <3>4, <3>5, EmptyLine DEF ReadsIn
  <2>6. Reads(s)
    BY <2>2, <2>5 DEF Reads, p
  <2> QED  BY <2>4, <2>6
<1> QED  BY <1>2, <1>4 DEF Inv

\* Every step keeps the invariant.
LEMMA NextInv == Inv /\ [Next]_vars => Inv'
<1> SUFFICES ASSUME Inv, [Next]_vars PROVE Inv'
  OBVIOUS
<1>1. CASE UNCHANGED vars
  <2>1. UNCHANGED <<conn, wire, broken, writer, reader, sent, received, closeAt, heard>>
    BY <1>1 DEF vars
  <2>2. TypeInv'
    BY <2>1 DEF Inv, TypeInv
  <2>3. ASSUME NEW s \in Sides PROVE Acts(s)' /\ Reads(s)'
    BY <2>1 DEF Inv, Acts, Reads
  <2> QED  BY <2>2, <2>3 DEF Inv
<1>2. ASSUME NEW s \in Sides, Calls(s) \/ Returns(s)
      PROVE  Inv'
  BY <1>2, SendKeeps, CloseKeeps, SendTaskKeeps, DestroyedKeeps, RecvKeeps DEF Calls, Returns
<1>3. ASSUME NEW s \in Sides, SenderStep(s) \/ RecvStep(s)
      PROVE  Inv'
  BY <1>3, SendHeaderKeeps, SendPayloadKeeps, RecvHeadKeeps, RecvDataKeeps, RecvFailsKeeps DEF SenderStep, RecvStep
<1>4. ASSUME NEW s \in Sides, Heartbeat(s) \/ WaitersEnd(s) \/ ProcessEnds(s)
      PROVE  Inv'
  BY <1>4, HeartbeatKeeps, WaitersEndKeeps, ProcessEndsKeeps
<1> QED  BY <1>1, <1>2, <1>3, <1>4, ResetKeeps DEF Next

\* The invariant holds in every state.
LEMMA InvHolds == Spec => []Inv
  BY InitInv, NextInv, PTL DEF Spec

----------------------------------------------------------------------------
(* The theorems *)

\* Each channel of a side is pushed to at most once for the fiber that pops it, no fiber
\* ends before close_wc_connection(), and an inbox gets at most two nulls: the one of
\* recv_loop() after a CLOSE and the one of close_wc_connection().
THEOREM TypeCorrect == Spec => []TypeOK
<1>1. Inv => TypeOK
  <2> SUFFICES ASSUME Inv PROVE TypeOK
    OBVIOUS
  <2>1. ASSUME NEW s \in Sides
        PROVE  /\ conn[s].live \subseteq Fibers
               /\ conn[s].heartbeat_chan \in 0 .. 1 /\ conn[s].error_chan \in 0 .. 1 /\ conn[s].exit_signal \in 0 .. 1
               /\ conn[s].live # Fibers => conn[s].closed
               /\ conn[s].closed <=> ~conn[s].open
               /\ conn[s].opcode = 0
               /\ Nulls(conn[s].inbox) <= 2
    <3> DEFINE inbox == conn[s].inbox
               q == Items(inbox)
    <3>1. conn[s] \in Connections /\ FibersInv(conn[s]) /\ InboxInv(conn[s], reader[s])
      BY SideFacts DEF ReadsIn
    <3>2. inbox \in Seq(InboxItems)
      BY <3>1 DEF Connections
    <3>3. q \in 0 .. Len(inbox) /\ \A i \in 1 .. Len(inbox) : inbox[i] = NULL <=> i > q
      BY <3>1 DEF InboxInv, Ordered
    <3>4. Len(inbox) <= q + (IF conn[s].open THEN 0 ELSE 2)
      BY <3>1 DEF InboxInv
    <3> HIDE DEF q
    <3>5. Nulls(inbox) = Len(inbox) - q
      BY <3>2, <3>3, ItemsAre
    <3>6. Len(inbox) \in Nat
      BY <3>2, LenProperties
    <3>7. Nulls(inbox) <= 2
      BY <3>3, <3>4, <3>5, <3>6
    <3> QED  BY <3>1, <3>7 DEF Connections, FibersInv
  <2>2. broken \in BOOLEAN /\ reader \in [Sides -> {"waiting", "stopped", "ended"}]
    BY DEF Inv, TypeInv, Readers
  <2> QED  BY <2>1, <2>2 DEF TypeOK
<1> QED  BY <1>1, InvHolds, PTL

\* A side that has read a CLOSE has got all its peer sent before it closed, and recv()
\* tells of the end only after all that was read, whatever the two applications, the
\* fibers and a reset do in between.
THEOREM CloseComesLast == Spec => []EndComesLast
<1>1. Inv => EndComesLast
  <2> SUFFICES ASSUME Inv, NEW s \in Sides
               PROVE  /\ heard[s] => Handed(s) >= closeAt[Peer(s)]
                      /\ \A i \in DOMAIN conn[s].inbox :
                           (reader[s] = "ended" \/ \E j \in 1 .. i - 1 : conn[s].inbox[j] = NULL) => conn[s].inbox[i] = NULL
    BY DEF EndComesLast
  <2> DEFINE inbox == conn[s].inbox
             q == Items(inbox)
             k == Len(received[s]) + q
             cl == closeAt[Peer(s)]
  <2>1. /\ conn[s] \in Connections /\ received[s] \in Seq(Messages)
        /\ ReadsIn(conn[s], reader[s], received[s], heard[s], wire[s], conn[Peer(s)], sent[Peer(s)], cl, broken)
    BY SideFacts
  <2>2. inbox \in Seq(InboxItems)
    BY <2>1 DEF Connections
  <2>3. /\ q \in 0 .. Len(inbox) /\ \A i \in 1 .. Len(inbox) : inbox[i] = NULL <=> i > q
        /\ reader[s] = "ended" => q = 0
    BY <2>1 DEF ReadsIn, InboxInv, Ordered
  <2>4. heard[s] => cl \in 0 .. k
    BY <2>1 DEF ReadsIn
  <2>5. Len(inbox) \in Nat /\ DOMAIN inbox = 1 .. Len(inbox) /\ Len(received[s]) \in Nat
    BY <2>1, <2>2, LenProperties
  <2> HIDE DEF q
  <2>6. k \in Nat /\ q \in Nat
    BY <2>3, <2>5
  <2> HIDE DEF k, cl
  <2>7. heard[s] => k >= cl
    BY <2>4, <2>6
  <2>8. heard[s] => Handed(s) >= closeAt[Peer(s)]
    BY <2>7 DEF Handed, k, q, cl
  <2>9. ASSUME NEW i \in 1 .. Len(inbox), reader[s] = "ended" \/ \E j \in 1 .. i - 1 : inbox[j] = NULL
        PROVE  inbox[i] = NULL
    <3>1. CASE reader[s] = "ended"
      BY <2>3, <2>5, <3>1
    <3>2. ASSUME NEW j \in 1 .. i - 1, inbox[j] = NULL
          PROVE  inbox[i] = NULL
      <4>1. j \in 1 .. Len(inbox) /\ j < i
        BY <2>5
      <4>2. j > q
        BY <2>3, <3>2, <4>1
      <4>3. i > q
        BY <2>6, <4>1, <4>2
      <4> QED  BY <2>3, <4>3
    <3> QED  BY <2>9, <3>1, <3>2
  <2> QED  BY <2>5, <2>8, <2>9
<1> QED  BY <1>1, InvHolds, PTL

\* An RPC stream is a reliable channel for every script: what recv() returns is what the
\* peer's send() accepted, whole, in order, once.
THEOREM StreamIsReliable == Spec => ReliableStream
<1>1. Init => Reliable!Init
  BY DEF Init, Reliable!Init
<1>2. Inv /\ [Next]_vars => [Reliable!Next]_<<sent, received>>
  <2> SUFFICES ASSUME Inv, [Next]_vars, ~UNCHANGED <<sent, received>>
               PROVE  Reliable!Next
    OBVIOUS
  <2>1. PICK s \in Sides : SendTask(s) \/ Recv(s)
    BY DEF Next, vars, app, Calls, Returns, SenderStep, RecvStep, Send, close_streaming, Destroy, Destroyed,
           SendHeader, SendPayload, RecvHead, RecvData, RecvFails, Heartbeat, WaitersEnd, ProcessEnds, Reset
  <2>2. CASE SendTask(s)
    <3> DEFINE n == Len(sent[s])
               m == Script[s][n + 1]
    <3>1. sent' = [sent EXCEPT ![s] = Append(sent[s], m)] /\ received' = received
      BY <2>2 DEF SendTask
    <3>2. m \in Messages
      <4>1. n \in Nat /\ n < Len(Script[s])
        BY <2>2, SideFacts, LenProperties DEF SendTask, ActsIn
      <4>2. Script[s] \in Seq(Messages) /\ Len(Script[s]) \in Nat
        BY ScriptAssumption, LenProperties
      <4>3. n + 1 \in 1 .. Len(Script[s])
        BY <4>1, <4>2
      <4> QED  BY <4>2, <4>3, ElementOfSeq
    <3> HIDE DEF m
    <3>3. Reliable!Send(s, m)
      BY <3>1 DEF Reliable!Send
    <3> QED  BY <3>2, <3>3 DEF Reliable!Next
  <2>3. CASE Recv(s)
    <3> DEFINE item == Head(conn[s].inbox)
               p == Peer(s)
    <3>1. conn[s].inbox # <<>> /\ sent' = sent
      BY <2>3 DEF Recv
    <3>2. item # NULL /\ received' = [received EXCEPT ![s] = Append(received[s], item.m)]
      BY <2>3, <3>1 DEF Recv
    <3>3. /\ conn[s] \in Connections /\ received[s] \in Seq(Messages) /\ sent[p] \in Seq(Messages)
          /\ ReadsIn(conn[s], reader[s], received[s], heard[s], wire[s], conn[p], sent[p], closeAt[p], broken)
      BY PeerFacts, SideFacts
    <3>4. Len(received[s]) < Len(sent[p]) /\ item.m = sent[p][Len(received[s]) + 1]
      <4>1. item = Head(conn[s].inbox)
        OBVIOUS
      <4> HIDE DEF item, p
      <4> QED  BY <3>1, <3>2, <3>3, <4>1, NextMessage
    <3> HIDE DEF item
    <3>5. Reliable!Receive(s)
      BY <3>1, <3>2, <3>4 DEF Reliable!Receive
    <3> QED  BY <3>5 DEF Reliable!Next
  <2> QED  BY <2>1, <2>2, <2>3
<1> QED  BY <1>1, <1>2, InvHolds, PTL DEF Spec, ReliableStream, Reliable!Spec

=============================================================================
