------------------------------ MODULE UdpStream ------------------------------
(***************************************************************************)
(* Two UDPSocketStreams (src/udp/udp_socket_stream.cpp, .h), the one        *)
(* UDPSocketClient::connect() creates and the one UDPSocketServer's accept  *)
(* loop creates for it, each on a KCP control block, joined by a network    *)
(* that loses, repeats and reorders datagrams.                              *)
(*                                                                          *)
(* The client reads its own socket in recv(). The server has one socket for *)
(* all clients: accept_loop() appends a datagram to the stream's recv_buf_  *)
(* and puts a token in recv_chn_; recv() takes a token and feeds everything *)
(* that has gathered in recv_buf_ to KCP. Each side also has the timer      *)
(* fiber its constructor started. All fibers of a side share one thread and *)
(* switch only when they block, so each action is one run of a fiber from   *)
(* one blocking call to the next.                                           *)
(***************************************************************************)
EXTENDS Kcp

CONSTANTS
    Sizes,      \* sizes of messages, in full segments
    MaxSend,    \* bound: messages each side sends
    MaxNet,     \* bound: datagrams in flight towards a side
    MaxInbox,   \* bound: datagrams that wait in the server's recv_buf_
    MaxAcks     \* bound: acknowledgements that wait for a flush

ASSUME UdpAssumption ==
    /\ Sizes \subseteq Nat \ {0}
    /\ {MaxSend, MaxNet} \subseteq [{"client", "server"} -> Nat]
    /\ {MaxInbox, MaxAcks} \subseteq Nat \ {0}

\* The network may keep a datagram for as long as it likes: a connection is over before its
\* numbers have come half round, so that no old one is taken for a new one. (A message has
\* less than RcvWnd fragments.)
ASSUME NumbersAssumption ==
    \A e \in {"client", "server"} : MaxSend[e] * (RcvWnd - 1) + RcvWnd <= SnMod \div 2

Sides == {"client", "server"}
Peer(e) == IF e = "client" THEN "server" ELSE "client"

VARIABLES
    kcp,        \* the control block of each side
    conv,       \* the conversation id of the server's stream: "none" before accept_loop()
                \* creates it, "same" as the client's or "swapped" byte for byte
    net,        \* datagrams under way to each side
    recv_buf,   \* what accept_loop() has appended to the server stream's recv_buf_
    recv_chn,   \* tokens in the server stream's recv_chn_
    sent,       \* history: the messages each side's send() accepted
    received    \* history: the messages each side's recv() returned

vars == <<kcp, conv, net, recv_buf, recv_chn, sent, received>>

\* The datagram connect() sends before the client has a stream: the id alone.
Hello == [cmd |-> "HELLO"]

Init ==
    /\ kcp = [e \in Sides |-> AfterFlush(ikcp_create, <<>>)]
    /\ conv = "none"
    /\ net = [e \in Sides |-> IF e = "server" THEN <<<<Hello>>>> ELSE <<>>]
    /\ recv_buf = <<>>
    /\ recv_chn = 0
    /\ sent = [e \in Sides |-> <<>>]
    /\ received = [e \in Sides |-> <<>>]

Exists(e) == e = "client" \/ conv # "none"

----------------------------------------------------------------------------
(* Sending *)

\* kcp_output(): sendto() hands each datagram to the network, which delivers those in
\* kept, as long as there is room under MaxNet.
kcp_output(e, out, kept) ==
    LET through == FlattenSeq([i \in DOMAIN out |-> IF i \in kept THEN <<out[i]>> ELSE <<>>])
    IN  /\ Len(net[Peer(e)]) + Len(through) <= MaxNet[Peer(e)]
        /\ net' = [net EXCEPT ![Peer(e)] = @ \o through]

Numbers(buf) == {buf[i].sn : i \in DOMAIN buf}

\* ikcp_flush() on the control block k of side e. late and probeLate are the timers that
\* have run out; lossy says whether the network may lose what goes out.
ikcp_flush(e, k, late, probeLate, lossy) ==
    \E full \in {FillWindow(ProbeWindow(k, probeLate))} :
    \E reason \in {SendReasons(full.snd_buf, late)} :
    \E out \in {Datagrams(ControlSegments(full), DataSegments(full, reason))} :
        /\ kcp' = [kcp EXCEPT ![e] = AfterFlush(full, reason)]
        /\ \E kept \in IF lossy THEN SUBSET DOMAIN out ELSE {DOMAIN out} :
             kcp_output(e, out, kept)

\* ikcp_update(): a flush, when the interval has passed since the last one.
ikcp_update(e, k) ==
    \E late \in SUBSET Numbers(k.snd_buf), probeLate \in BOOLEAN :
        ikcp_flush(e, k, late, probeLate, TRUE)

\* send(): ikcp_send() and ikcp_update().
Send(e, n) ==
    /\ Exists(e)
    /\ Len(sent[e]) < MaxSend[e]
    /\ CanSend(n)
    /\ LET k == ikcp_send(kcp[e], Len(sent[e]) + 1, n)
       IN  \/ ikcp_update(e, k)
           \/ kcp' = [kcp EXCEPT ![e] = k] /\ UNCHANGED net
    /\ sent' = [sent EXCEPT ![e] = Append(@, Fragments(Len(@) + 1, n))]
    /\ UNCHANGED <<conv, recv_buf, recv_chn, received>>

\* The timer fiber wakes and calls ikcp_update().
Timer(e) ==
    /\ Exists(e)
    /\ ikcp_update(e, kcp[e])
    /\ UNCHANGED <<conv, recv_buf, recv_chn, sent, received>>

\* The same wake-up when the network and the clock are good: every timer has run out
\* and nothing is lost.
GoodTimer(e) ==
    /\ Exists(e)
    /\ ikcp_flush(e, kcp[e], Numbers(kcp[e].snd_buf), TRUE, FALSE)
    /\ UNCHANGED <<conv, recv_buf, recv_chn, sent, received>>

----------------------------------------------------------------------------
(* Receiving *)

\* recv() returns a complete message when KCP has one.
Recv(e) ==
    /\ Exists(e)
    /\ ikcp_peeksize(kcp[e]) > 0
    /\ kcp' = [kcp EXCEPT ![e] = ikcp_recv(@)]
    /\ received' = [received EXCEPT ![e] = Append(@, Message(kcp[e]))]
    /\ UNCHANGED <<conv, net, recv_buf, recv_chn, sent>>

\* The network hands over its i-th datagram; keep says that a copy stays.
Arrive(e, i, keep) ==
    /\ i \in DOMAIN net[e]
    /\ Len(kcp[e].acklist) < MaxAcks
    /\ net' = IF keep THEN net ELSE [net EXCEPT ![e] = RemoveAt(@, i)]

\* What ikcp_input() makes of some bytes: it stops at the id of connect(), whose four
\* bytes are no header (an error unless they are the last).
Feed(k, items) ==
    LET hello == SelectInSeq(items, LAMBDA s : s = Hello)
    IN  IF hello = 0 THEN ikcp_input(k, items, TRUE)
        ELSE ikcp_input(k, SubSeq(items, 1, hello - 1), hello = Len(items) /\ hello > 1)

\* The client's recv() has no message and takes a datagram from its socket. A
\* conversation id that is not its own makes ikcp_input() return at once.
ClientInput(i, keep) ==
    /\ ikcp_peeksize(kcp["client"]) = 0
    /\ Arrive("client", i, keep)
    /\ kcp' = IF conv = "same" THEN [kcp EXCEPT !["client"] = Feed(@, net["client"][i])] ELSE kcp
    /\ UNCHANGED <<conv, recv_buf, recv_chn, sent, received>>

\* accept_loop() meets an unknown address: the first four bytes become the id of a new
\* stream, and the datagram is dropped. connect() wrote its id with AppendUInt32(),
\* which PeekUInt32() reverses; KCP's header holds it in the machine's own order.
Accept(i, keep) ==
    /\ conv = "none"
    /\ Arrive("server", i, keep)
    /\ conv' = IF net["server"][i][1] = Hello THEN "same" ELSE "swapped"
    /\ UNCHANGED <<kcp, recv_buf, recv_chn, sent, received>>

\* accept_loop() knows the address: recv_done() appends the datagram to recv_buf_.
RecvDone(i, keep) ==
    /\ conv # "none"
    /\ recv_chn < MaxInbox
    /\ Arrive("server", i, keep)
    /\ recv_buf' = recv_buf \o net["server"][i]
    /\ recv_chn' = recv_chn + 1
    /\ UNCHANGED <<kcp, conv, sent, received>>

\* The server's recv() has no message and takes a token: everything in recv_buf_ is fed
\* to KCP.
ServerInput ==
    /\ conv # "none"
    /\ ikcp_peeksize(kcp["server"]) = 0
    /\ recv_chn > 0
    /\ recv_chn' = recv_chn - 1
    /\ kcp' = IF conv = "same" THEN [kcp EXCEPT !["server"] = Feed(@, recv_buf)] ELSE kcp
    /\ recv_buf' = <<>>
    /\ UNCHANGED <<conv, net, sent, received>>

Network(e, i, keep) ==
    IF e = "client" THEN ClientInput(i, keep) ELSE Accept(i, keep) \/ RecvDone(i, keep)

Next ==
    \/ \E e \in Sides, n \in Sizes : Send(e, n)
    \/ \E e \in Sides : Timer(e) \/ Recv(e)
    \/ \E e \in Sides, keep \in BOOLEAN : \E i \in DOMAIN net[e] : Network(e, i, keep)
    \/ ServerInput

Spec == Init /\ [][Next]_vars

\* Fairness: an application that keeps calling recv(), timer fibers that keep running,
\* and a network that does not lose for ever and hands over its oldest datagram in the
\* end. The steps are named by their effect, which only the action in question has.
Reads(e) ==
    /\ Exists(e) /\ ikcp_peeksize(kcp[e]) > 0
    /\ received' = [received EXCEPT ![e] = Append(@, Message(kcp[e]))]
TakesToken ==
    /\ conv # "none" /\ ikcp_peeksize(kcp["server"]) = 0 /\ recv_chn > 0
    /\ recv_chn' = recv_chn - 1
HandsOver(e) ==
    /\ net[e] # <<>>
    /\ Len(kcp[e].acklist) < MaxAcks
    /\ IF e = "client" THEN ikcp_peeksize(kcp[e]) = 0 ELSE recv_chn < MaxInbox
    /\ net' = [net EXCEPT ![e] = Tail(@)]

Fairness ==
    /\ \A e \in Sides : WF_received(Reads(e)) /\ SF_vars(GoodTimer(e)) /\ SF_net(HandsOver(e))
    /\ WF_recv_chn(TakesToken)

FairSpec == Spec /\ Fairness

----------------------------------------------------------------------------
(* Properties *)

Contents(q) == {Fragment(q[i].id, q[i].frg) : i \in DOMAIN q}

\* The whole stack implements a reliable channel: whatever the network does, each side
\* reads the messages the other sent, whole, in order and once. ikcp_recv() joins the
\* fragments, ikcp_parse_data() orders them and drops repeats, also across the wrap of
\* the sequence numbers.
Channel == INSTANCE ReliableChannel
             WITH Messages <- UNION {{Fragments(id, n) : id \in 1 .. MaxSend[e], n \in Sizes} : e \in Sides}
Reliable == Channel!Spec

\* A fragment leaves the sender only when the receiver has it: each fragment send()
\* accepted is queued, in flight, or held by (or already read on) the other side. An
\* acknowledgement of something not received, by number or through una, would lose it.
NothingLost ==
    \A e \in Sides : \A m \in DOMAIN sent[e] :
        Contents(sent[e][m]) \subseteq
            Contents(kcp[e].snd_queue) \cup Contents(kcp[e].snd_buf)
            \cup Contents(kcp[Peer(e)].rcv_queue) \cup Contents(kcp[Peer(e)].rcv_buf)
            \cup UNION {Contents(received[Peer(e)][j]) : j \in DOMAIN received[Peer(e)]}

\* The two ends of a direction stay aligned: the receiver has all that is before the
\* sender's first unacknowledged number (what it has not put in its queue yet is in
\* rcv_buf) and expects none beyond the sender's next, no more than a window is in flight,
\* and rcv_buf holds distinct numbers of the window in order, the expected one only while
\* the queue in front of it is full; numbers stay within their width.
WindowsAligned ==
    \A e \in Sides :
        LET s == kcp[e]
            r == kcp[Peer(e)]
        IN  /\ {s.snd_una, s.snd_nxt, r.rcv_nxt} \subseteq 0 .. SnMod - 1
            /\ \A i \in 0 .. itimediff(s.snd_una, r.rcv_nxt) - 1 : (r.rcv_nxt + i) % SnMod \in Numbers(r.rcv_buf)
            /\ itimediff(s.snd_nxt, r.rcv_nxt) >= 0
            /\ itimediff(s.snd_nxt, s.snd_una) <= SndWnd
            /\ Len(r.rcv_queue) <= RcvWnd
            /\ \A i, j \in DOMAIN r.rcv_buf :
                 i < j => itimediff(r.rcv_buf[i].sn, r.rcv_buf[j].sn) < 0
            /\ \A i \in DOMAIN r.rcv_buf :
                 LET ahead == itimediff(r.rcv_buf[i].sn, r.rcv_nxt)
                 IN  /\ ahead \in 0 .. RcvWnd - 1
                     /\ ahead = 0 => Len(r.rcv_queue) = RcvWnd

\* Every message send() accepted is read in the end, through lost data, lost
\* acknowledgements and a receive window that closes and whose reopening is not heard of
\* - provided the first datagram to reach accept_loop() was the one of connect().
EventuallyRead ==
    \A e \in Sides : \A n \in 1 .. MaxSend[e] :
        (Len(sent[e]) >= n) ~> (conv = "swapped" \/ Len(received[Peer(e)]) >= n)

=============================================================================
