-------------------------------- MODULE Kcp --------------------------------
(***************************************************************************)
(* The KCP control block (src/udp/ikcp.c, ikcp.h) as a record, and the     *)
(* functions of ikcp.c that the UDP stream calls as operators from one     *)
(* control block to the next. Nothing here has state of its own: UdpStream *)
(* keeps one control block per side.                                       *)
(*                                                                         *)
(* Time is abstracted to what ikcp.c decides with it: whether the          *)
(* retransmission timer of a segment, and the window-probe timer, has run  *)
(* out when ikcp_flush() looks. Round-trip estimation only moves these     *)
(* moments and is left out. The options keep the values ikcp_create()      *)
(* gives them (stream = 0, nodelay = 0), except fastresend.                *)
(***************************************************************************)
EXTENDS Integers, Sequences, SequencesExt, FiniteSets, FiniteSetsExt

CONSTANTS
    SnMod,        \* sequence numbers are taken modulo SnMod (2^32 in the code)
    StartSn,      \* the number both directions start from
    SndWnd,       \* IKCP_WND_SND
    RcvWnd,       \* IKCP_WND_RCV
    Mss,          \* bytes of data in a full segment
    Overhead,     \* IKCP_OVERHEAD, the header of a segment
    FastResend,   \* duplicate acks that trigger a fast resend; 0 for never
    FastLimit,    \* IKCP_FASTACK_LIMIT
    DeadLink      \* IKCP_DEADLINK

ASSUME KcpAssumption ==
    /\ {SnMod, SndWnd, RcvWnd, Mss, Overhead, DeadLink} \subseteq Nat \ {0}
    /\ {FastResend, FastLimit} \subseteq Nat
    /\ StartSn \in 0 .. SnMod - 1
    /\ SnMod > 2 * (SndWnd + RcvWnd)

ThreshMin == 2
Mtu == Mss + Overhead
\* A segment's count of transmissions matters up to here.
XmitCap == Max({DeadLink, FastLimit + 1})

\* _itimediff(): the signed distance from earlier to later on the number circle.
itimediff(later, earlier) ==
    LET d == (later - earlier) % SnMod
    IN  IF d < SnMod \div 2 THEN d ELSE d - SnMod

\* A fragment of message id, with the number of fragments that follow it.
Fragment(id, frg) == [id |-> id, frg |-> frg]

ikcp_create ==
    [snd_una   |-> StartSn, snd_nxt |-> StartSn, rcv_nxt |-> StartSn,
     snd_queue |-> <<>>, snd_buf |-> <<>>, rcv_queue |-> <<>>, rcv_buf |-> <<>>,
     acklist   |-> <<>>, rmt_wnd |-> RcvWnd, cwnd |-> 0, incr |-> 0,
     ssthresh  |-> ThreshMin, ask_send |-> FALSE, ask_tell |-> FALSE,
     probing   |-> FALSE, dead |-> FALSE]

----------------------------------------------------------------------------
(* The application's calls *)

\* ikcp_send() accepts a message of n fragments unless it could never fit the
\* window of the receiver.
CanSend(n) == n < RcvWnd

Fragments(id, n) == [i \in 1 .. n |-> Fragment(id, n - i)]

ikcp_send(k, id, n) == [k EXCEPT !.snd_queue = @ \o Fragments(id, n)]

\* Mutant: everything queued counts as one message.
PeekAll(k) == Len(k.rcv_queue)

\* ikcp_peeksize(): how many segments the first complete message takes, 0 if there
\* is none.
ikcp_peeksize(k) ==
    LET q == k.rcv_queue
    IN  IF q = <<>> \/ Len(q) < q[1].frg + 1
        THEN 0
        ELSE SelectInSeq(q, LAMBDA s : s.frg = 0)

\* rcv_buf -> rcv_queue, as far as numbers are consecutive and there is room.
MoveAvailable(k) ==
    LET n == Max({j \in 0 .. Len(k.rcv_buf) :
                    /\ Len(k.rcv_queue) + j <= RcvWnd
                    /\ \A i \in 1 .. j : k.rcv_buf[i].sn = (k.rcv_nxt + i - 1) % SnMod})
    IN  [k EXCEPT !.rcv_queue = @ \o SubSeq(k.rcv_buf, 1, n),
                  !.rcv_buf   = SubSeq(@, n + 1, Len(@)),
                  !.rcv_nxt   = (@ + n) % SnMod]

\* The message ikcp_recv() returns, and the control block it leaves behind.
Message(k) == [i \in 1 .. ikcp_peeksize(k) |-> Fragment(k.rcv_queue[i].id, k.rcv_queue[i].frg)]

ikcp_recv(k) ==
    LET taken == MoveAvailable([k EXCEPT !.rcv_queue = SubSeq(@, ikcp_peeksize(k) + 1, Len(@))])
    IN  [taken EXCEPT !.ask_tell = @ \/ /\ Len(k.rcv_queue) >= RcvWnd
                                        /\ Len(taken.rcv_queue) < RcvWnd]

----------------------------------------------------------------------------
(* A datagram has arrived *)

ikcp_shrink_buf(k) ==
    [k EXCEPT !.snd_una = IF k.snd_buf = <<>> THEN k.snd_nxt ELSE k.snd_buf[1].sn]

\* Mutant: una itself is taken for acknowledged.
ParseUnaInclusive(k, una) ==
    LET first == SelectInSeq(k.snd_buf, LAMBDA s : itimediff(una, s.sn) < 0)
    IN  [k EXCEPT !.snd_buf = IF first = 0 THEN <<>> ELSE SubSeq(@, first, Len(@))]

\* Every segment before una is acknowledged.
ikcp_parse_una(k, una) ==
    LET first == SelectInSeq(k.snd_buf, LAMBDA s : itimediff(una, s.sn) <= 0)
    IN  [k EXCEPT !.snd_buf = IF first = 0 THEN <<>> ELSE SubSeq(@, first, Len(@))]

InFlight(k, sn) == itimediff(sn, k.snd_una) >= 0 /\ itimediff(sn, k.snd_nxt) < 0

\* Segment sn alone is acknowledged.
ikcp_parse_ack(k, sn) ==
    IF InFlight(k, sn)
    THEN [k EXCEPT !.snd_buf = RemoveFirstMatch(@, LAMBDA s : s.sn = sn)]
    ELSE k

\* Segments in front of an acknowledged one have been overtaken. The count is only
\* compared with FastResend and stays there.
ikcp_parse_fastack(k, sn) ==
    LET overtake(s) == IF itimediff(sn, s.sn) > 0 /\ s.fastack < FastResend
                       THEN [s EXCEPT !.fastack = @ + 1] ELSE s
    IN  IF InFlight(k, sn)
        THEN [k EXCEPT !.snd_buf = [i \in DOMAIN @ |-> overtake(@[i])]]
        ELSE k

\* Every data segment in front of the window's end is acknowledged, a repeated one too.
ikcp_ack_push(k, sn) == [k EXCEPT !.acklist = Append(@, sn)]

\* Mutant: a segment already in rcv_buf is put in again.
ParseDataTwice(k, seg) ==
    LET at == Max({0} \cup {i \in DOMAIN k.rcv_buf : itimediff(seg.sn, k.rcv_buf[i].sn) >= 0})
    IN  IF itimediff(seg.sn, k.rcv_nxt + RcvWnd) >= 0 \/ itimediff(seg.sn, k.rcv_nxt) < 0
        THEN k
        ELSE MoveAvailable([k EXCEPT !.rcv_buf = InsertAt(@, at + 1, seg)])

\* A data segment goes to its place in rcv_buf, unless it is there already or
\* outside the window.
ikcp_parse_data(k, seg) ==
    LET at == Max({0} \cup {i \in DOMAIN k.rcv_buf : itimediff(seg.sn, k.rcv_buf[i].sn) >= 0})
        repeat == at > 0 /\ k.rcv_buf[at].sn = seg.sn
    IN  IF itimediff(seg.sn, k.rcv_nxt + RcvWnd) >= 0 \/ itimediff(seg.sn, k.rcv_nxt) < 0
        THEN k
        ELSE MoveAvailable(IF repeat THEN k
                           ELSE [k EXCEPT !.rcv_buf = InsertAt(@, at + 1, seg)])

\* One segment of a datagram.
input_segment(k, s) ==
    LET heard == ikcp_shrink_buf(ikcp_parse_una([k EXCEPT !.rmt_wnd = s.wnd], s.una))
    IN  CASE s.cmd = "ACK"  -> ikcp_shrink_buf(ikcp_parse_ack(heard, s.sn))
          [] s.cmd = "PUSH" -> IF itimediff(s.sn, heard.rcv_nxt + RcvWnd) < 0
                               THEN ikcp_parse_data(ikcp_ack_push(heard, s.sn),
                                                    [sn |-> s.sn, id |-> s.id, frg |-> s.frg])
                               ELSE heard
          [] s.cmd = "WASK" -> [heard EXCEPT !.ask_tell = TRUE]
          [] s.cmd = "WINS" -> heard

\* The congestion window opens when a datagram has acknowledged something.
open_cwnd(k) ==
    LET base == Max({k.incr, Mss})
        incr == base + (Mss * Mss) \div base + Mss \div 16
        slow == [k EXCEPT !.cwnd = @ + 1, !.incr = @ + Mss]
        avoid == [k EXCEPT !.incr = incr,
                           !.cwnd = IF (@ + 1) * Mss <= incr THEN (incr + Mss - 1) \div Mss ELSE @]
        grown == IF k.cwnd < k.ssthresh THEN slow ELSE avoid
    IN  IF k.cwnd >= k.rmt_wnd THEN k
        ELSE IF grown.cwnd > k.rmt_wnd THEN [grown EXCEPT !.cwnd = k.rmt_wnd, !.incr = k.rmt_wnd * Mss]
        ELSE grown

\* ikcp_input() of a whole datagram. An error in the middle of it (whole = FALSE)
\* returns after the segments in front have been applied.
ikcp_input(k, segs, whole) ==
    LET done == FoldLeft(input_segment, k, segs)
        acks == {segs[i].sn : i \in {j \in DOMAIN segs : segs[j].cmd = "ACK"}}
        maxack == CHOOSE sn \in acks : \A t \in acks : itimediff(sn, t) >= 0
        fast == IF acks = {} THEN done ELSE ikcp_parse_fastack(done, maxack)
    IN  IF ~whole THEN done
        ELSE IF itimediff(fast.snd_una, k.snd_una) > 0 THEN open_cwnd(fast) ELSE fast

----------------------------------------------------------------------------
(* ikcp_flush(): what is due goes out *)

ikcp_wnd_unused(k) == Max({0, RcvWnd - Len(k.rcv_queue)})

\* Mutant: the probe timer is armed and never asks.
ProbeNever(k, late) == [k EXCEPT !.probing = (k.rmt_wnd = 0)]

\* rmt_wnd = 0 arms the probe timer; when it has run out (late) the window is asked for.
ProbeWindow(k, late) ==
    [k EXCEPT !.probing = (k.rmt_wnd = 0),
              !.ask_send = @ \/ (k.rmt_wnd = 0 /\ k.probing /\ late)]

\* The window the flush works with.
SendWindow(k) == Min({SndWnd, k.rmt_wnd, k.cwnd})

\* snd_queue -> snd_buf, as far as the window allows; numbers are given out here.
FillWindow(k) ==
    LET n == Max({0, Min({Len(k.snd_queue),
                          itimediff(k.snd_una + SendWindow(k), k.snd_nxt)})})
        fresh == [i \in 1 .. n |->
                    [sn |-> (k.snd_nxt + i - 1) % SnMod, id |-> k.snd_queue[i].id,
                     frg |-> k.snd_queue[i].frg, xmit |-> 0, fastack |-> 0]]
    IN  [k EXCEPT !.snd_buf   = @ \o fresh,
                  !.snd_queue = SubSeq(@, n + 1, Len(@)),
                  !.snd_nxt   = (@ + n) % SnMod]

\* Why each segment of snd_buf is sent in this flush; late is the set of numbers whose
\* retransmission timer has run out.
SendReasons(buf, late) ==
    [i \in DOMAIN buf |->
        CASE buf[i].xmit = 0 -> "first"
          [] buf[i].xmit # 0 /\ buf[i].sn \in late -> "lost"
          [] /\ buf[i].xmit # 0 /\ buf[i].sn \notin late
             /\ FastResend > 0 /\ buf[i].fastack >= FastResend
             /\ (buf[i].xmit <= FastLimit \/ FastLimit = 0) -> "fast"
          [] OTHER -> "none"]

\* A segment that has been sent for reason r.
Transmitted(s, r) ==
    [s EXCEPT !.xmit = IF r = "none" THEN @ ELSE Min({@ + 1, XmitCap}),
              !.fastack = IF r = "fast" THEN 0 ELSE @]

\* The congestion window after a flush that resent for some reason: window is what the
\* flush worked with, inflight the segments not acknowledged.
Thresh(n) == Max({ThreshMin, n \div 2})
CloseWindow(k, reasons, window, inflight) ==
    LET faster == IF "fast" \in reasons
                  THEN [k EXCEPT !.ssthresh = Thresh(inflight), !.cwnd = Thresh(inflight) + FastResend,
                                 !.incr = (Thresh(inflight) + FastResend) * Mss]
                  ELSE k
    IN  IF "lost" \in reasons
        THEN [k EXCEPT !.ssthresh = Thresh(window), !.cwnd = 1, !.incr = Mss]
        ELSE IF faster.cwnd < 1 THEN [faster EXCEPT !.cwnd = 1, !.incr = Mss] ELSE faster

\* The control block after the flush. k has its window filled and reason says which
\* segments go out.
AfterFlush(k, reason) ==
    LET after == [i \in DOMAIN reason |-> Transmitted(k.snd_buf[i], reason[i])]
    IN  CloseWindow([k EXCEPT !.snd_buf = after, !.acklist = <<>>,
                              !.ask_send = FALSE, !.ask_tell = FALSE,
                              !.dead = @ \/ \E i \in DOMAIN reason :
                                              reason[i] # "none" /\ after[i].xmit >= DeadLink],
                    Range(reason), SendWindow(k), itimediff(k.snd_nxt, k.snd_una))

\* What it puts out: acknowledgements, window probes, then data, each with the free
\* window and the number expected next.
Header(k, cmd, sn) == [cmd |-> cmd, sn |-> sn, wnd |-> ikcp_wnd_unused(k), una |-> k.rcv_nxt]
ControlSegments(k) ==
    [i \in DOMAIN k.acklist |-> Header(k, "ACK", k.acklist[i])]
    \o (IF k.ask_send THEN <<Header(k, "WASK", 0)>> ELSE <<>>)
    \o (IF k.ask_tell THEN <<Header(k, "WINS", 0)>> ELSE <<>>)
DataSegments(k, reason) ==
    LET Push(s) == [cmd |-> "PUSH", sn |-> s.sn, wnd |-> ikcp_wnd_unused(k), una |-> k.rcv_nxt,
                    id |-> s.id, frg |-> s.frg]
    IN  FlattenSeq([i \in DOMAIN reason |-> IF reason[i] = "none" THEN <<>> ELSE <<Push(k.snd_buf[i])>>])

\* ikcp_output() whenever the next segment would pass the mtu: control segments share
\* a datagram, a full data segment has one to itself.
PerDatagram == Mtu \div Overhead
Datagrams(control, data) ==
    [j \in 1 .. (Len(control) + PerDatagram - 1) \div PerDatagram |->
        SubSeq(control, (j - 1) * PerDatagram + 1, Min({j * PerDatagram, Len(control)}))]
    \o [j \in DOMAIN data |-> <<data[j]>>]

=============================================================================
