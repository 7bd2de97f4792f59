--------------------------- MODULE UdpStreamProofs ---------------------------
(***************************************************************************)
(* Proofs about two UDP streams over KCP (UdpStream, Kcp). The fragments a *)
(* side has been given are counted from 0, and the number of a segment is  *)
(* read as the place of its fragment: the window of the receiver, the      *)
(* buffers of both ends and all segments in the network agree on what is   *)
(* at which place, whatever is lost, repeated or overtaken.                *)
(***************************************************************************)
EXTENDS UdpStream, SequenceTheorems, WellFoundedInduction, TLAPS

----------------------------------------------------------------------------
(* The inductive invariant *)

Sns == 0 .. SnMod - 1

\* The place of the segment with number sn.
Pos(sn) == (sn - StartSn) % SnMod

\* off[m] fragments belong to the first m messages of ms.
Marked(off, ms) ==
    /\ off \in [Nat -> Nat] /\ off[0] = 0
    /\ \A m \in 1 .. Len(ms) :
         off[m] - off[m - 1] \in 1 .. RcvWnd - 1 /\ ms[m] = Fragments(m, off[m] - off[m - 1])
    /\ \A m \in 0 .. Len(ms) : off[m] <= m * (RcvWnd - 1)
    /\ \A i, j \in 0 .. Len(ms) : i < j => off[i] < off[j]

\* x holds the fragment at place p.
At(off, ms, x, p) ==
    x.id \in 1 .. Len(ms) /\ x.frg \in 0 .. off[x.id] - off[x.id - 1] - 1 /\ p = off[x.id] - 1 - x.frg

\* The sender's queue follows what has a number, and what it has not heard of is in its
\* buffer, in order.
Sending(k, off, ms) ==
    LET n == Pos(k.snd_nxt)
    IN  /\ n + Len(k.snd_queue) = off[Len(ms)]
        /\ \A i \in 1 .. Len(k.snd_queue) : At(off, ms, k.snd_queue[i], n + i - 1)
        /\ Pos(k.snd_una) <= n /\ n - Pos(k.snd_una) <= SndWnd
        /\ k.snd_una = IF k.snd_buf = <<>> THEN k.snd_nxt ELSE k.snd_buf[1].sn
        /\ \A i \in 1 .. Len(k.snd_buf) : Pos(k.snd_buf[i].sn) < n /\ At(off, ms, k.snd_buf[i], Pos(k.snd_buf[i].sn))
        /\ \A i, j \in 1 .. Len(k.snd_buf) : i < j => Pos(k.snd_buf[i].sn) < Pos(k.snd_buf[j].sn)

\* The receiver's queue follows the messages rs that were read, and its buffer holds
\* segments of the window in order, the next one only while the queue is full.
Holding(k, off, ms, rs) ==
    LET x == Pos(k.rcv_nxt)
    IN  /\ Len(rs) <= Len(ms) /\ \A m \in 1 .. Len(rs) : rs[m] = ms[m]
        /\ off[Len(rs)] + Len(k.rcv_queue) = x /\ Len(k.rcv_queue) <= RcvWnd
        /\ \A i \in 1 .. Len(k.rcv_queue) : At(off, ms, k.rcv_queue[i], off[Len(rs)] + i - 1)
        /\ \A i \in 1 .. Len(k.rcv_buf) :
             /\ Pos(k.rcv_buf[i].sn) \in x .. x + RcvWnd - 1
             /\ At(off, ms, k.rcv_buf[i], Pos(k.rcv_buf[i].sn))
        /\ \A i, j \in 1 .. Len(k.rcv_buf) : i < j => Pos(k.rcv_buf[i].sn) < Pos(k.rcv_buf[j].sn)

Receiving(k, off, ms, rs) ==
    /\ Holding(k, off, ms, rs)
    /\ \A i \in 1 .. Len(k.rcv_buf) : k.rcv_buf[i].sn = k.rcv_nxt => Len(k.rcv_queue) = RcvWnd

InBuf(buf, p) == \E i \in 1 .. Len(buf) : Pos(buf[i].sn) = p
Has(k, p) == p < Pos(k.rcv_nxt) \/ InBuf(k.rcv_buf, p)

\* The receiver j has no more than k has sent, and what k has dropped j has.
Between(k, j) ==
    /\ Pos(j.rcv_nxt) <= Pos(k.snd_nxt)
    /\ \A i \in 1 .. Len(j.rcv_buf) : Pos(j.rcv_buf[i].sn) < Pos(k.snd_nxt)
    /\ \A p \in 0 .. Pos(k.snd_nxt) - 1 : Has(j, p) \/ InBuf(k.snd_buf, p)

\* A segment that k, whose messages are ms, has sent is true.
Told(s, k, off, ms) ==
    s # Hello =>
        /\ Pos(s.una) <= Pos(k.rcv_nxt)
        /\ s.cmd = "ACK" => Has(k, Pos(s.sn))
        /\ s.cmd = "PUSH" => Pos(s.sn) < Pos(k.snd_nxt) /\ At(off, ms, s, Pos(s.sn))

Frags == [id : Nat, frg : Nat]
SendSegs == [sn : Sns, id : Nat, frg : Nat, xmit : Nat, fastack : Nat]
RecvSegs == [sn : Sns, id : Nat, frg : Nat]
Controls == [cmd : {"ACK", "WASK", "WINS"}, sn : Sns, wnd : Nat, una : Sns]
Pushes == [cmd : {"PUSH"}, sn : Sns, wnd : Nat, una : Sns, id : Nat, frg : Nat]
Segments == {Hello} \cup Controls \cup Pushes

Blocks ==
    [snd_una : Sns, snd_nxt : Sns, rcv_nxt : Sns, snd_queue : Seq(Frags), snd_buf : Seq(SendSegs),
     rcv_queue : Seq(RecvSegs), rcv_buf : Seq(RecvSegs), acklist : Seq(Sns), rmt_wnd : Nat, cwnd : Nat, incr : Nat,
     ssthresh : Nat, ask_send : BOOLEAN, ask_tell : BOOLEAN, probing : BOOLEAN, dead : BOOLEAN]

TypeInv ==
    /\ kcp \in [Sides -> Blocks]
    /\ net \in [Sides -> Seq(Seq(Segments))]
    /\ recv_chn \in Nat
    /\ sent \in [Sides -> Seq(Seq(Frags))] /\ received \in [Sides -> Seq(Seq(Frags))]

Truths(k, off, ms) == {s \in Segments : Told(s, k, off, ms)}

\* All that is under way to the peer of e, and what e is about to tell.
NetTold(e, off) ==
    /\ net[Peer(e)] \in Seq(Seq(Truths(kcp[e], off, sent[e])))
    /\ e = "client" => recv_buf \in Seq(Truths(kcp[e], off, sent[e]))
    /\ \A i \in 1 .. Len(kcp[e].acklist) : Has(kcp[e], Pos(kcp[e].acklist[i]))

Direction(e, off) ==
    /\ Marked(off, sent[e]) /\ Len(sent[e]) <= MaxSend[e]
    /\ Sending(kcp[e], off, sent[e])
    /\ Receiving(kcp[Peer(e)], off, sent[e], received[Peer(e)])
    /\ Between(kcp[e], kcp[Peer(e)])
    /\ NetTold(e, off)

Inv == TypeInv /\ \A e \in Sides : \E off \in [Nat -> Nat] : Direction(e, off)

----------------------------------------------------------------------------
(* Numbers *)

\* A set of naturals has a least element.
LEMMA LeastNatural ==
    ASSUME NEW T, T \subseteq Nat, T # {}
    PROVE  \E x \in T : \A y \in T : x <= y
<1> DEFINE R == {ss \in Nat \X Nat : ss[1] < ss[2]}
<1>1. IsWellFoundedOn(R, Nat)
  BY NatLessThanWellFounded, Zenon DEF OpToRel
<1> HIDE DEF R
<1>2. PICK x \in T : \A y \in T : ~ (<<y, x>> \in R)
  BY <1>1, WFMin, Zenon
<1>3. \A y \in T : ~ (y < x)
  BY <1>2 DEF R
<1>4. \A y \in T : y \in Nat /\ x \in Nat
  OBVIOUS
<1>5. \A y \in T : x <= y
  BY <1>3, <1>4
<1> QED  BY <1>5

\* Induction: a set of naturals with 0 and each successor holds all of them.
LEMMA Induction ==
    ASSUME NEW T, 0 \in T, \A n \in Nat : n \in T => n + 1 \in T
    PROVE  Nat \subseteq T
<1> SUFFICES ASSUME Nat \ T # {} PROVE FALSE
  OBVIOUS
<1>1. PICK x \in Nat \ T : \A y \in Nat \ T : x <= y
  BY LeastNatural
<1>2. x # 0 /\ x \in Nat
  OBVIOUS
<1>3. x - 1 \in Nat /\ ~(x <= x - 1)
  BY <1>2
<1>4. x - 1 \in T
  BY <1>1, <1>3
<1>5. (x - 1) + 1 \in T
  BY <1>3, <1>4
<1> QED  BY <1>2, <1>5

\* The smallest of a set of naturals, and the largest of a set of integers with a bound.
LEMMA MinOf ==
    ASSUME NEW T, T \subseteq Nat, T # {}
    PROVE  Min(T) \in T /\ \A y \in T : Min(T) <= y
<1>1. \E x \in T : \A y \in T : x <= y
  BY LeastNatural
<1> QED  BY <1>1 DEF Min

\* A bounded set of integers has a greatest element.
LEMMA MaxOf ==
    ASSUME NEW T, T \subseteq Int, T # {}, NEW b \in Int, \A x \in T : x <= b
    PROVE  Max(T) \in T /\ \A y \in T : y <= Max(T)
<1> DEFINE D == {n \in Nat : \E x \in T : n = b - x}
<1>1. \A x \in T : x \in Int /\ b - x \in Nat /\ b - x \in D
  OBVIOUS
<1>2. D # {} /\ D \subseteq Nat
  BY <1>1
<1>3. PICK n \in D : \A m \in D : n <= m
  BY <1>2, LeastNatural
<1>4. PICK x \in T : n = b - x
  OBVIOUS
<1>5. \A y \in T : n <= b - y
  BY <1>1, <1>3
<1>6. \A y \in T : x >= y
  BY <1>1, <1>4, <1>5
<1>7. \E z \in T : \A y \in T : z >= y
  BY <1>6
<1>8. Max(T) \in T /\ \A y \in T : Max(T) >= y
  BY <1>7 DEF Max
<1>9. \A y \in T : y \in Int /\ Max(T) \in Int
  BY <1>8
<1> QED  BY <1>8, <1>9

\* The remainder of a number, given as a multiple and a rest.
LEMMA Remainder ==
    ASSUME NEW M \in Nat \ {0}, NEW q \in Int, NEW r \in 0 .. M - 1
    PROVE  (q * M + r) % M = r
<1> DEFINE x == q * M + r
           d == x % M
           p == x \div M
<1>1. x \in Int /\ M \in Int /\ M > 0 /\ r \in Int
  OBVIOUS
<1> HIDE DEF x
<1>2. d \in 0 .. M - 1 /\ p \in Int /\ x = M * p + d
  BY <1>1
<1> HIDE DEF d, p
<1>3. M * p + d = q * M + r
  BY <1>2 DEF x
<1>4. ~(p < q)
  <2> SUFFICES ASSUME p < q PROVE FALSE
    OBVIOUS
  <2>1. M * (q - p) = d - r
    BY <1>1, <1>2, <1>3
  <2>2. q - p >= 1 /\ d - r < M
    BY <1>1, <1>2
  <2>3. M * (q - p) >= M
    BY <1>1, <1>2, <2>2
  <2> QED  BY <1>1, <1>2, <2>1, <2>2, <2>3
<1>5. ~(q < p)
  <2> SUFFICES ASSUME q < p PROVE FALSE
    OBVIOUS
  <2>1. M * (p - q) = r - d
    BY <1>1, <1>2, <1>3
  <2>2. p - q >= 1 /\ r - d < M
    BY <1>1, <1>2
  <2>3. M * (p - q) >= M
    BY <1>1, <1>2, <2>2
  <2> QED  BY <1>1, <1>2, <2>1, <2>2, <2>3
<1>6. p = q
  BY <1>2, <1>4, <1>5
<1>7. d = r
  BY <1>1, <1>2, <1>3, <1>6
<1> QED  BY <1>7 DEF d, x

\* Half of the circle.
Half == SnMod \div 2

\* The sizes of windows and numbers.
LEMMA KcpSizes ==
    /\ SnMod \in Nat \ {0} /\ SndWnd \in Nat \ {0} /\ RcvWnd \in Nat \ {0} /\ StartSn \in Sns
    /\ Half \in Nat /\ 2 * Half <= SnMod /\ SnMod <= 2 * Half + 1 /\ SndWnd + RcvWnd <= Half
  BY KcpAssumption DEF Half, Sns

\* Division with remainder.
LEMMA DivMod ==
    ASSUME NEW x \in Int, NEW M \in Nat \ {0}
    PROVE  x % M \in 0 .. M - 1 /\ x \div M \in Int /\ x = M * (x \div M) + (x % M)
  OBVIOUS

\* A number is its place on some round.
LEMMA PosFacts ==
    ASSUME NEW sn \in Int
    PROVE  Pos(sn) \in Sns /\ Pos(sn) \in Nat /\ \E q \in Int : sn - StartSn = q * SnMod + Pos(sn)
<1> DEFINE x == sn - StartSn
<1>1. x \in Int /\ SnMod \in Int /\ SnMod > 0
  BY KcpSizes DEF Sns
<1> HIDE DEF x
<1>2. x % SnMod \in 0 .. SnMod - 1 /\ x \div SnMod \in Int /\ x = SnMod * (x \div SnMod) + (x % SnMod)
  BY <1>1, DivMod, KcpSizes
<1> DEFINE r == x % SnMod
           q == x \div SnMod
<1> HIDE DEF r, q
<1>3. r \in 0 .. SnMod - 1 /\ q \in Int /\ x = q * SnMod + r
  BY <1>1, <1>2 DEF r, q
<1>4. Pos(sn) = r
  BY DEF Pos, r, x
<1>5. r \in Nat
  BY <1>1, <1>3
<1> QED  BY <1>3, <1>4, <1>5 DEF Sns, x

\* ... and only its place on some round.
LEMMA PosOf ==
    ASSUME NEW sn \in Int, NEW q \in Int, NEW p \in Sns, sn - StartSn = q * SnMod + p
    PROVE  Pos(sn) = p
<1>1. SnMod \in Nat \ {0} /\ p \in 0 .. SnMod - 1
  BY KcpSizes DEF Sns
<1>2. (q * SnMod + p) % SnMod = p
  BY <1>1, Remainder
<1> QED  BY <1>2 DEF Pos

\* Numbers are given out in the order of their places.
LEMMA Advance ==
    ASSUME NEW sn \in Int, NEW n \in Nat, Pos(sn) + n < SnMod
    PROVE  (sn + n) % SnMod \in Sns /\ Pos((sn + n) % SnMod) = Pos(sn) + n
<1>1. SnMod \in Int /\ SnMod > 0 /\ StartSn \in Int
  BY KcpSizes DEF Sns
<1> DEFINE x == sn + n
           d == x % SnMod
           u == x \div SnMod
<1>2. x \in Int
  OBVIOUS
<1> HIDE DEF x
<1>3. d \in 0 .. SnMod - 1 /\ u \in Int /\ x = SnMod * u + d
  BY <1>2, DivMod, KcpSizes
<1> HIDE DEF d, u
<1>4. PICK q \in Int : sn - StartSn = q * SnMod + Pos(sn)
  BY PosFacts
<1>5. Pos(sn) \in Nat /\ Pos(sn) + n \in Sns
  <2>1. Pos(sn) \in Nat
    BY PosFacts
  <2> QED  BY <1>1, <2>1 DEF Sns
<1>6. d - StartSn = (q - u) * SnMod + (Pos(sn) + n)
  <2>1. d = sn + n - SnMod * u
    BY <1>1, <1>3 DEF x
  <2>2. (q - u) * SnMod = q * SnMod - SnMod * u
    BY <1>1, <1>3, <1>4
  <2>3. q * SnMod \in Int /\ SnMod * u \in Int
    BY <1>1, <1>3, <1>4
  <2> QED  BY <1>1, <1>3, <1>4, <1>5, <2>1, <2>2, <2>3
<1>7. Pos(d) = Pos(sn) + n
  BY <1>3, <1>4, <1>5, <1>6, PosOf
<1> QED  BY <1>3, <1>7 DEF d, x, Sns

\* Different numbers are at different places.
LEMMA SamePos ==
    ASSUME NEW a \in Sns, NEW b \in Sns, Pos(a) = Pos(b)
    PROVE  a = b
<1>1. a \in Int /\ b \in Int /\ StartSn \in Int /\ SnMod \in Int /\ SnMod > 0 /\ a - b < SnMod /\ b - a < SnMod
  BY KcpSizes DEF Sns
<1>2. PICK q \in Int : a - StartSn = q * SnMod + Pos(a)
  BY <1>1, PosFacts
<1>3. PICK p \in Int : b - StartSn = p * SnMod + Pos(b)
  BY <1>1, PosFacts
<1>4. Pos(a) \in Nat /\ Pos(b) \in Nat
  BY <1>1, PosFacts
<1>5. a - b = (q - p) * SnMod
  <2>1. (q - p) * SnMod = q * SnMod - p * SnMod /\ q * SnMod \in Int /\ p * SnMod \in Int
    BY <1>1
  <2> QED  BY <1>1, <1>2, <1>3, <1>4, <2>1
<1> DEFINE m == q - p
<1>6. m \in Int /\ a - b = m * SnMod
  BY <1>5
<1> HIDE DEF m
<1>7. m = 0
  <2>1. m >= 1 => m * SnMod >= SnMod
    BY <1>1, <1>6
  <2>2. m <= -1 => m * SnMod <= -SnMod
    BY <1>1, <1>6
  <2> QED  BY <1>1, <1>6, <2>1, <2>2
<1> QED  BY <1>1, <1>6, <1>7

\* _itimediff() is the distance of numbers less than half a round apart.
LEMMA Distance ==
    ASSUME NEW a \in Int, NEW b \in Int, NEW d \in Int, NEW q \in Int, a - b = q * SnMod + d,
           -Half <= d, d < Half
    PROVE  itimediff(a, b) = d
<1>1. SnMod \in Nat \ {0} /\ Half \in Nat /\ 2 * Half <= SnMod
  BY KcpSizes
<1>2. CASE d >= 0
  <2>1. d \in 0 .. SnMod - 1
    BY <1>1, <1>2
  <2>2. (q * SnMod + d) % SnMod = d
    BY <1>1, <2>1, Remainder
  <2> QED  BY <2>2 DEF itimediff, Half
<1>3. CASE d < 0
  <2>1. d + SnMod \in 0 .. SnMod - 1 /\ q - 1 \in Int
    BY <1>1, <1>3
  <2>2. ((q - 1) * SnMod + (d + SnMod)) % SnMod = d + SnMod
    BY <1>1, <2>1, Remainder
  <2>3. (q - 1) * SnMod + (d + SnMod) = q * SnMod + d
    <3>1. (q - 1) * SnMod = q * SnMod - SnMod /\ q * SnMod \in Int
      BY <1>1
    <3> QED  BY <1>1, <3>1
  <2>4. (a - b) % SnMod = d + SnMod
    BY <2>2, <2>3
  <2>5. ~(d + SnMod < Half)
    BY <1>1
  <2> QED  BY <1>1, <2>4, <2>5 DEF itimediff, Half
<1> QED  BY <1>2, <1>3

\* So it compares places.
LEMMA ComparePlaces ==
    ASSUME NEW a \in Int, NEW b \in Int, NEW c \in Int, NEW e \in Int,
           -Half <= Pos(a) + c - Pos(b) - e, Pos(a) + c - Pos(b) - e < Half
    PROVE  itimediff(a + c, b + e) = Pos(a) + c - Pos(b) - e
<1>1. PICK q \in Int : a - StartSn = q * SnMod + Pos(a)
  BY PosFacts
<1>2. PICK p \in Int : b - StartSn = p * SnMod + Pos(b)
  BY PosFacts
<1>3. Pos(a) \in Nat /\ Pos(b) \in Nat /\ SnMod \in Int /\ StartSn \in Int
  BY PosFacts, KcpSizes DEF Sns
<1>4. (a + c) - (b + e) = (q - p) * SnMod + (Pos(a) + c - Pos(b) - e)
  <2>1. (q - p) * SnMod = q * SnMod - p * SnMod /\ q * SnMod \in Int /\ p * SnMod \in Int
    BY <1>3
  <2> QED  BY <1>1, <1>2, <1>3, <2>1
<1>5. a + c \in Int /\ b + e \in Int /\ q - p \in Int /\ Pos(a) + c - Pos(b) - e \in Int
  BY <1>3
<1> QED  BY <1>4, <1>5, Distance

\* With numbers whose places are less than half a round.
LEMMA Compare ==
    ASSUME NEW a \in Int, NEW b \in Int, Pos(a) < Half, Pos(b) < Half
    PROVE  itimediff(a, b) = Pos(a) - Pos(b)
<1>1. Pos(a) \in Nat /\ Pos(b) \in Nat /\ Half \in Nat
  BY PosFacts, KcpSizes
<1>2. -Half <= Pos(a) + 0 - Pos(b) - 0 /\ Pos(a) + 0 - Pos(b) - 0 < Half
  BY <1>1
<1>3. 0 \in Int
  OBVIOUS
<1>4. itimediff(a + 0, b + 0) = Pos(a) + 0 - Pos(b) - 0
  BY <1>2, <1>3, ComparePlaces, Zenon
<1>5. a + 0 = a /\ b + 0 = b
  OBVIOUS
<1> QED  BY <1>1, <1>4, <1>5

----------------------------------------------------------------------------
(* Sequences *)

\* A part of a sequence.
LEMMA SubFacts ==
    ASSUME NEW S, NEW s \in Seq(S), NEW a \in 1 .. Len(s) + 1, NEW b \in a - 1 .. Len(s)
    PROVE  /\ SubSeq(s, a, b) \in Seq(S) /\ Len(SubSeq(s, a, b)) = b - a + 1
           /\ \A i \in 1 .. b - a + 1 : SubSeq(s, a, b)[i] = s[a + i - 1]
  BY SubSeqProperties, LenProperties

\* The first d elements, and the rest.
LEMMA PrefixFacts ==
    ASSUME NEW S, NEW s \in Seq(S), NEW d \in 0 .. Len(s)
    PROVE  /\ SubSeq(s, 1, d) \in Seq(S) /\ Len(SubSeq(s, 1, d)) = d
           /\ \A i \in 1 .. d : SubSeq(s, 1, d)[i] = s[i]
  BY SubSeqProperties, LenProperties

\* What is left without the first d elements.
LEMMA SuffixFacts ==
    ASSUME NEW S, NEW s \in Seq(S), NEW d \in 0 .. Len(s)
    PROVE  /\ SubSeq(s, d + 1, Len(s)) \in Seq(S) /\ Len(SubSeq(s, d + 1, Len(s))) = Len(s) - d
           /\ \A i \in 1 .. Len(s) - d : SubSeq(s, d + 1, Len(s))[i] = s[d + i]
  BY SubSeqProperties, LenProperties

\* Two sequences, one after the other.
LEMMA ConcatFacts ==
    ASSUME NEW S, NEW s \in Seq(S), NEW t \in Seq(S)
    PROVE  /\ s \o t \in Seq(S) /\ Len(s \o t) = Len(s) + Len(t)
           /\ \A i \in 1 .. Len(s) : (s \o t)[i] = s[i]
           /\ \A i \in 1 .. Len(t) : (s \o t)[Len(s) + i] = t[i]
  BY ConcatProperties, LenProperties

\* A function on 1 .. n is a sequence.
LEMMA IsSeq ==
    ASSUME NEW S, NEW n \in Nat, NEW f \in [1 .. n -> S]
    PROVE  f \in Seq(S) /\ Len(f) = n
  OBVIOUS

\* The elements of a sequence.
LEMMA Elements ==
    ASSUME NEW S, NEW s \in Seq(S)
    PROVE  Len(s) \in Nat /\ DOMAIN s = 1 .. Len(s) /\ s \in [1 .. Len(s) -> S] /\ \A i \in 1 .. Len(s) : s[i] \in S
  OBVIOUS

\* The parts of a sequence of sequences, joined.
LEMMA FlattenFacts ==
    ASSUME NEW S, NEW ss \in Seq(Seq(S))
    PROVE  FlattenSeq(ss) \in Seq(S)
<1>1. Len(ss) \in Nat /\ \A i \in 1 .. Len(ss) : ss[i] \in Seq(S)
  OBVIOUS
<1>2. CASE Len(ss) = 0
  <2>1. ss = <<>>
    BY <1>2, EmptySeq
  <2>2. FlattenSeq(ss) = ss
    BY <1>2 DEF FlattenSeq
  <2> QED  BY <2>1, <2>2, EmptySeq
<1>3. CASE Len(ss) # 0
  <2> DEFINE n == Len(ss)
             G(g, i) == IF i = 1 THEN ss[i] ELSE g[i - 1] \o ss[i]
             Joins(g, m) == g \in [1 .. m -> Seq(S)] /\ \A i \in 1 .. m : g[i] = G(g, i)
             T == {m \in Nat : m <= n => \E g : Joins(g, m)}
  <2>0. n \in Nat /\ n >= 1
    BY <1>1, <1>3
  <2>1. 0 \in T
    <3>1. Joins(<<>>, 0)
      OBVIOUS
    <3> QED  BY <3>1
  <2>2. \A m \in Nat : m \in T => m + 1 \in T
    <3> HIDE DEF Joins
    <3>0. \A m \in Nat : m + 1 \in Nat
      OBVIOUS
    <3> SUFFICES ASSUME NEW m \in Nat, m <= n => \E g : Joins(g, m), m + 1 <= n
                 PROVE  \E g : Joins(g, m + 1)
      BY <3>0, Zenon
    <3>1. m <= n
      BY <2>0
    <3>2. PICK g : Joins(g, m)
      BY <3>1
    <3> USE DEF Joins
    <3> DEFINE h == [i \in 1 .. m + 1 |-> G(g, i)]
    <3>3. \A i \in 1 .. m : h[i] = g[i]
      <4> SUFFICES ASSUME NEW i \in 1 .. m PROVE h[i] = g[i]
        OBVIOUS
      <4>1. g[i] = G(g, i)
        BY <3>2, Zenon
      <4>2. i \in 1 .. m + 1
        OBVIOUS
      <4>3. h[i] = G(g, i)
        BY <4>2, Zenon
      <4> QED  BY <4>1, <4>3, Zenon
    <3>4. \A i \in 1 .. m + 1 : h[i] = G(h, i)
      <4> SUFFICES ASSUME NEW i \in 1 .. m + 1 PROVE h[i] = G(h, i)
        OBVIOUS
      <4>1. i # 1 => i - 1 \in 1 .. m
        OBVIOUS
      <4>2. i # 1 => h[i - 1] = g[i - 1]
        BY <3>3, <4>1
      <4> QED  BY <4>2
    <3>5. \A i \in 1 .. m + 1 : h[i] \in Seq(S)
      <4> SUFFICES ASSUME NEW i \in 1 .. m + 1 PROVE G(g, i) \in Seq(S)
        OBVIOUS
      <4>1. ss[i] \in Seq(S)
        BY <1>1, <2>0
      <4>2. i # 1 => g[i - 1] \in Seq(S)
        BY <3>2
      <4>3. i # 1 => g[i - 1] \o ss[i] \in Seq(S)
        BY <4>1, <4>2, ConcatProperties
      <4> QED  BY <4>1, <4>3
    <3>6. Joins(h, m + 1)
      BY <3>4, <3>5
    <3> QED  BY <3>6
  <2>3. n \in T
    BY <2>0, <2>1, <2>2, Induction
  <2>4. PICK g : Joins(g, n)
    BY <2>0, <2>3
  <2>5. g = [i \in 1 .. n |-> G(g, i)]
    BY <2>4
  <2> DEFINE f == CHOOSE f : f = [i \in 1 .. n |-> G(f, i)]
  <2>6. f = [i \in 1 .. n |-> G(f, i)]
    BY <2>5
  <2>7. FlattenSeq(ss) = f[n]
    BY <1>3 DEF FlattenSeq
  <2> HIDE DEF f
  <2> DEFINE U == {m \in Nat : m \in 1 .. n => f[m] \in Seq(S)}
  <2>8. 0 \in U
    OBVIOUS
  <2>9. \A m \in Nat : m \in U => m + 1 \in U
    <3>0. \A m \in Nat : m + 1 \in Nat
      OBVIOUS
    <3> SUFFICES ASSUME NEW m \in Nat, m \in 1 .. n => f[m] \in Seq(S), m + 1 \in 1 .. n
                 PROVE  f[m + 1] \in Seq(S)
      BY <3>0, Zenon
    <3>1. f[m + 1] = G(f, m + 1)
      BY <2>6
    <3>2. ss[m + 1] \in Seq(S)
      BY <1>1
    <3>3. m + 1 # 1 => m \in 1 .. n /\ (m + 1) - 1 = m
      BY <2>0
    <3>4. m + 1 # 1 => f[m] \o ss[m + 1] \in Seq(S)
      BY <3>2, <3>3, ConcatProperties
    <3> QED  BY <3>1, <3>2, <3>3, <3>4
  <2>10. n \in U
    BY <2>0, <2>8, <2>9, Induction
  <2> QED  BY <2>0, <2>7, <2>10
<1> QED  BY <1>2, <1>3

\* The segments of a datagram are applied one after the other: what each of them keeps, all
\* of them keep.
LEMMA FoldFacts ==
    ASSUME NEW B, NEW S, \A b \in B, s \in S : input_segment(b, s) \in B,
           NEW k \in B, NEW segs \in Seq(S)
    PROVE  FoldLeft(input_segment, k, segs) \in B
<1> DEFINE n == Len(segs)
           G(g, s) == IF s = {} THEN k ELSE input_segment(g[s \ {Max(s)}], segs[Max(s)])
           Folds(g, m) == g = [s \in SUBSET (1 .. m) |-> G(g, s)]
           T == {m \in Nat : \E g : Folds(g, m)}
<1>0. n \in Nat /\ DOMAIN segs = 1 .. n /\ \A i \in 1 .. n : segs[i] \in S
  OBVIOUS
<1>1. \A m \in Nat : \A s \in SUBSET (1 .. m) : s # {} => Max(s) \in s /\ \A y \in s : y <= Max(s)
  <2> SUFFICES ASSUME NEW m \in Nat, NEW s \in SUBSET (1 .. m), s # {}
               PROVE  Max(s) \in s /\ \A y \in s : y <= Max(s)
    OBVIOUS
  <2>1. s \subseteq Int /\ m \in Int /\ \A x \in s : x <= m
    OBVIOUS
  <2> QED  BY <2>1, MaxOf
<1>2. 0 \in T
  <2> DEFINE g == [s \in SUBSET (1 .. 0) |-> k]
  <2>1. \A s \in SUBSET (1 .. 0) : s = {}
    OBVIOUS
  <2>2. \A s \in SUBSET (1 .. 0) : G(g, s) = k
    BY <2>1, Zenon
  <2>3. Folds(g, 0)
    BY <2>2, Zenon
  <2> QED  BY <2>3
<1>3. \A m \in Nat : m \in T => m + 1 \in T
  <2>0. \A m \in Nat : m + 1 \in Nat
    OBVIOUS
  <2> SUFFICES ASSUME NEW m \in Nat, NEW g, Folds(g, m)
               PROVE  \E h : Folds(h, m + 1)
    BY <2>0, Zenon
  <2> DEFINE h == [s \in SUBSET (1 .. m + 1) |->
                    IF m + 1 \in s THEN input_segment(g[s \ {m + 1}], segs[m + 1]) ELSE g[s]]
  <2>1. \A s \in SUBSET (1 .. m) : s \in SUBSET (1 .. m + 1) /\ m + 1 \notin s
    OBVIOUS
  <2>2. \A s \in SUBSET (1 .. m) : h[s] = g[s]
    BY <2>1, Zenon
  <2>3. \A s \in SUBSET (1 .. m + 1) : h[s] = G(h, s)
    <3> SUFFICES ASSUME NEW s \in SUBSET (1 .. m + 1) PROVE h[s] = G(h, s)
      BY Zenon
    <3>1. CASE m + 1 \in s
      <4>1. Max(s) \in s /\ \A y \in s : y <= Max(s)
        BY <1>1, <2>0, <3>1, Zenon
      <4>2. Max(s) = m + 1
        <5>1. Max(s) \in 1 .. m + 1 /\ m + 1 <= Max(s)
          BY <3>1, <4>1
        <5> QED  BY <5>1
      <4>3. s \ {m + 1} \in SUBSET (1 .. m)
        OBVIOUS
      <4>4. h[s] = input_segment(g[s \ {m + 1}], segs[m + 1])
        BY <3>1, Zenon
      <4>5. h[s \ {m + 1}] = g[s \ {m + 1}]
        BY <2>2, <4>3, Zenon
      <4>6. h[s] = input_segment(h[s \ {Max(s)}], segs[Max(s)])
        BY <4>2, <4>4, <4>5, Zenon
      <4> QED  BY <3>1, <4>6, Zenon
    <3>2. CASE m + 1 \notin s
      <4>1. s \in SUBSET (1 .. m)
        BY <3>2
      <4>2. h[s] = G(g, s)
        <5>1. h[s] = g[s]
          BY <2>2, <4>1, Zenon
        <5>2. g[s] = [t \in SUBSET (1 .. m) |-> G(g, t)][s]
          BY Zenon
        <5>3. g[s] = G(g, s)
          BY <4>1, <5>2, Zenon
        <5> QED  BY <5>1, <5>3, Zenon
      <4>3. s # {} => h[s \ {Max(s)}] = g[s \ {Max(s)}]
        BY <2>2, <4>1, Zenon
      <4> QED  BY <4>2, <4>3, Zenon
    <3> QED  BY <3>1, <3>2, Zenon
  <2>4. Folds(h, m + 1)
    <3>1. h = [s \in SUBSET (1 .. m + 1) |-> h[s]]
      BY Zenon
    <3> HIDE DEF h
    <3> QED  BY <2>3, <3>1
  <2> QED  BY <2>4
<1>4. n \in T
  BY <1>0, <1>2, <1>3, Induction
<1> DEFINE f == CHOOSE f : Folds(f, n)
<1>5. Folds(f, n)
  <2>1. \E g : Folds(g, n)
    BY <1>4, Zenon
  <2> QED  BY <2>1, Zenon
<1>6. FoldLeft(input_segment, k, segs) = f[1 .. n]
  BY <1>0 DEF FoldLeft, MapThenFoldSet
<1> HIDE DEF f
<1> DEFINE U == {m \in Nat : m <= n => f[1 .. m] \in B}
<1>7. \A s \in SUBSET (1 .. n) : f[s] = G(f, s)
  BY <1>5, Zenon
<1>8. 0 \in U
  <2>1. 1 .. 0 = {} /\ 1 .. 0 \in SUBSET (1 .. n)
    OBVIOUS
  <2>2. f[1 .. 0] = k
    BY <1>7, <2>1, Zenon
  <2> QED  BY <2>2
<1>9. \A m \in Nat : m \in U => m + 1 \in U
  <2>0. \A m \in Nat : m + 1 \in Nat
    OBVIOUS
  <2> SUFFICES ASSUME NEW m \in Nat, m <= n => f[1 .. m] \in B, m + 1 <= n
               PROVE  f[1 .. m + 1] \in B
    BY <2>0, Zenon
  <2>1. m <= n /\ m + 1 \in 1 .. n /\ 1 .. m + 1 \in SUBSET (1 .. n) /\ m + 1 \in 1 .. m + 1
    BY <1>0
  <2>2. Max(1 .. m + 1) \in 1 .. m + 1 /\ \A y \in 1 .. m + 1 : y <= Max(1 .. m + 1)
    <3>1. 1 .. m + 1 # {} /\ 1 .. m + 1 \in SUBSET (1 .. n)
      BY <2>1
    <3> QED  BY <1>0, <1>1, <3>1, Zenon
  <2>3. Max(1 .. m + 1) = m + 1
    BY <2>1, <2>2
  <2>4. (1 .. m + 1) \ {m + 1} = 1 .. m /\ 1 .. m + 1 # {}
    <3>1. \A x \in 1 .. m + 1 : x # m + 1 => x \in 1 .. m
      OBVIOUS
    <3>2. \A x \in 1 .. m : x \in 1 .. m + 1 /\ x # m + 1
      OBVIOUS
    <3> QED  BY <2>1, <3>1, <3>2, Zenon
  <2>5. f[1 .. m + 1] = input_segment(f[1 .. m], segs[m + 1])
    BY <1>7, <2>1, <2>3, <2>4, Zenon
  <2>6. f[1 .. m] \in B /\ segs[m + 1] \in S
    BY <1>0, <2>1
  <2> HIDE DEF n
  <2> QED  BY <2>5, <2>6
<1>10. n \in U
  BY <1>0, <1>8, <1>9, Induction
<1> QED  BY <1>0, <1>6, <1>10

\* A sequence without its i-th element.
LEMMA RemoveFacts ==
    ASSUME NEW S, NEW s \in Seq(S), NEW i \in 1 .. Len(s)
    PROVE  /\ RemoveAt(s, i) \in Seq(S) /\ Len(RemoveAt(s, i)) = Len(s) - 1
           /\ \A j \in 1 .. Len(s) - 1 : RemoveAt(s, i)[j] = s[IF j < i THEN j ELSE j + 1]
<1> DEFINE a == SubSeq(s, 1, i - 1)
           b == SubSeq(s, i + 1, Len(s))
<1>1. Len(s) \in Nat
  OBVIOUS
<1>2. a \in Seq(S) /\ Len(a) = i - 1 /\ \A j \in 1 .. i - 1 : a[j] = s[j]
  BY <1>1, SubFacts
<1>3. b \in Seq(S) /\ Len(b) = Len(s) - i /\ \A j \in 1 .. Len(s) - i : b[j] = s[i + j]
  BY <1>1, SubFacts
<1> HIDE DEF a, b
<1> DEFINE c == a \o b
<1>0. a \in Seq(S) /\ b \in Seq(S)
  BY <1>2, <1>3
<1>4. /\ c \in Seq(S) /\ Len(c) = Len(a) + Len(b)
      /\ \A j \in 1 .. Len(a) : c[j] = a[j]
      /\ \A j \in 1 .. Len(b) : c[Len(a) + j] = b[j]
  BY <1>0, ConcatFacts
<1> HIDE DEF c
<1>5. RemoveAt(s, i) = c
  BY DEF RemoveAt, a, b, c
<1>6. \A j \in 1 .. Len(s) - 1 : c[j] = s[IF j < i THEN j ELSE j + 1]
  <2> SUFFICES ASSUME NEW j \in 1 .. Len(s) - 1 PROVE c[j] = s[IF j < i THEN j ELSE j + 1]
    OBVIOUS
  <2>1. CASE j < i
    BY <1>2, <1>4, <2>1
  <2>2. CASE ~(j < i)
    <3>1. j - (i - 1) \in 1 .. Len(b) /\ j = Len(a) + (j - (i - 1)) /\ i + (j - (i - 1)) = j + 1
      BY <1>1, <1>2, <1>3, <2>2
    <3>2. c[Len(a) + (j - (i - 1))] = s[i + (j - (i - 1))]
      BY <1>3, <1>4, <3>1
    <3> QED  BY <2>2, <3>1, <3>2
  <2> QED  BY <2>1, <2>2
<1>7. Len(c) = Len(s) - 1 /\ c \in Seq(S)
  BY <1>1, <1>2, <1>3, <1>4
<1> QED  BY <1>5, <1>6, <1>7, Zenon

\* A sequence with e put in at the i-th place.
LEMMA InsertFacts ==
    ASSUME NEW S, NEW s \in Seq(S), NEW i \in 1 .. Len(s) + 1, NEW e \in S
    PROVE  /\ InsertAt(s, i, e) \in Seq(S) /\ Len(InsertAt(s, i, e)) = Len(s) + 1
           /\ InsertAt(s, i, e)[i] = e
           /\ \A j \in 1 .. i - 1 : InsertAt(s, i, e)[j] = s[j]
           /\ \A j \in i + 1 .. Len(s) + 1 : InsertAt(s, i, e)[j] = s[j - 1]
<1> DEFINE a == SubSeq(s, 1, i - 1)
           b == SubSeq(s, i, Len(s))
           c == <<e>>
           d == a \o c
<1>1. Len(s) \in Nat
  OBVIOUS
<1>2. a \in Seq(S) /\ Len(a) = i - 1 /\ \A j \in 1 .. i - 1 : a[j] = s[j]
  BY <1>1, SubFacts
<1>3. b \in Seq(S) /\ Len(b) = Len(s) - i + 1 /\ \A j \in 1 .. Len(s) - i + 1 : b[j] = s[i + j - 1]
  BY <1>1, SubFacts
<1>4. c \in Seq(S) /\ Len(c) = 1 /\ c[1] = e
  OBVIOUS
<1> HIDE DEF a, b, c
<1>41. a \in Seq(S) /\ c \in Seq(S)
  BY <1>2, <1>4
<1>5. /\ d \in Seq(S) /\ Len(d) = Len(a) + Len(c)
      /\ \A j \in 1 .. Len(a) : d[j] = a[j]
      /\ \A j \in 1 .. Len(c) : d[Len(a) + j] = c[j]
  BY <1>41, ConcatFacts
<1>6. Len(d) = i /\ d[i] = e /\ \A j \in 1 .. i - 1 : d[j] = s[j]
  <2>1. 1 \in 1 .. Len(c) /\ Len(a) + 1 = i
    BY <1>1, <1>2, <1>4
  <2>2. d[Len(a) + 1] = c[1]
    BY <1>5, <2>1
  <2> QED  BY <1>1, <1>2, <1>4, <1>5, <2>1, <2>2
<1> HIDE DEF d
<1> DEFINE r == d \o b
<1>61. d \in Seq(S) /\ b \in Seq(S)
  BY <1>3, <1>5
<1>7. /\ r \in Seq(S) /\ Len(r) = Len(d) + Len(b)
      /\ \A j \in 1 .. Len(d) : r[j] = d[j]
      /\ \A j \in 1 .. Len(b) : r[Len(d) + j] = b[j]
  BY <1>61, ConcatFacts
<1> HIDE DEF r
<1>8. InsertAt(s, i, e) = r
  BY DEF InsertAt, a, b, c, d, r
<1>9. \A j \in i + 1 .. Len(s) + 1 : r[j] = s[j - 1]
  <2> SUFFICES ASSUME NEW j \in i + 1 .. Len(s) + 1 PROVE r[j] = s[j - 1]
    OBVIOUS
  <2>1. j - i \in 1 .. Len(b) /\ Len(d) + (j - i) = j /\ i + (j - i) - 1 = j - 1
    BY <1>1, <1>3, <1>6
  <2>2. r[Len(d) + (j - i)] = s[i + (j - i) - 1]
    BY <1>3, <1>7, <2>1
  <2> QED  BY <2>1, <2>2
<1>10. r[i] = e /\ \A j \in 1 .. i - 1 : r[j] = s[j]
  <2>1. i \in 1 .. Len(d) /\ \A j \in 1 .. i - 1 : j \in 1 .. Len(d)
    BY <1>1, <1>6
  <2> QED  BY <1>6, <1>7, <2>1
<1>11. Len(r) = Len(s) + 1
  BY <1>1, <1>3, <1>6, <1>7
<1> QED  BY <1>7, <1>8, <1>9, <1>10, <1>11

----------------------------------------------------------------------------
(* Places *)

\* The messages ms fit the numbers.
Fits(off, ms) == ms \in Seq(Seq(Frags)) /\ Marked(off, ms) /\ off[Len(ms)] + RcvWnd <= Half

\* A direction's messages fit, whatever is sent.
LEMMA DirectionFits ==
    ASSUME NEW e \in Sides, NEW off, NEW ms \in Seq(Seq(Frags)), Marked(off, ms), Len(ms) <= MaxSend[e]
    PROVE  Fits(off, ms)
<1> DEFINE l == Len(ms)
           w == RcvWnd - 1
           m == MaxSend[e]
<1>1. l \in Nat /\ w \in Nat /\ m \in Nat /\ l <= m
  BY KcpSizes, UdpAssumption DEF Sides
<1>2. m * w + RcvWnd <= Half
  BY NumbersAssumption DEF Half, Sides
<1>3. off[l] <= l * w /\ off[l] \in Nat
  BY <1>1 DEF Marked
<1> HIDE DEF l, w, m
<1>4. l * w <= m * w /\ l * w \in Nat /\ m * w \in Nat
  BY <1>1
<1>5. off[l] + RcvWnd <= Half
  BY <1>2, <1>3, <1>4, KcpSizes
<1> QED  BY <1>5 DEF Fits, l

\* Places grow.
LEMMA OffFacts ==
    ASSUME NEW off, NEW ms, Fits(off, ms)
    PROVE  /\ Len(ms) \in Nat /\ off \in [Nat -> Nat] /\ off[0] = 0 /\ off[Len(ms)] \in Nat
           /\ off[Len(ms)] + RcvWnd <= Half
           /\ \A m \in 0 .. Len(ms) : m \in Nat /\ off[m] \in Nat /\ off[m] <= off[Len(ms)]
           /\ \A i, j \in 0 .. Len(ms) : i < j => off[i] < off[j]
<1> DEFINE l == Len(ms)
<1>1. l \in Nat
  BY DEF Fits
<1>2. off \in [Nat -> Nat] /\ off[0] = 0
  BY DEF Fits, Marked
<1>3. \A i, j \in 0 .. l : i < j => off[i] < off[j]
  BY DEF Fits, Marked
<1>4. off[l] + RcvWnd <= Half
  BY DEF Fits
<1> HIDE DEF l
<1>5. \A m \in 0 .. l : m \in Nat /\ off[m] \in Nat /\ off[m] <= off[l]
  <2> SUFFICES ASSUME NEW m \in 0 .. l PROVE m \in Nat /\ off[m] \in Nat /\ off[m] <= off[l]
    OBVIOUS
  <2>1. off[m] \in Nat /\ off[l] \in Nat
    BY <1>1, <1>2
  <2>2. CASE m = l
    BY <2>1, <2>2
  <2>3. CASE m < l
    BY <1>1, <1>3, <2>1, <2>3
  <2> QED  BY <1>1, <2>1, <2>2, <2>3
<1>6. off[l] \in Nat
  BY <1>1, <1>2
<1> QED  BY <1>1, <1>2, <1>3, <1>4, <1>5, <1>6 DEF l

\* What a place can be.
LEMMA PlaceFacts ==
    ASSUME NEW off, NEW ms, Fits(off, ms), NEW x, NEW p, At(off, ms, x, p)
    PROVE  /\ p \in Nat /\ p < off[Len(ms)] /\ p < Half
           /\ x.id \in 1 .. Len(ms) /\ p \in off[x.id - 1] .. off[x.id] - 1
<1> DEFINE l == Len(ms)
           d == x.id
           f == x.frg
<1>1. l \in Nat /\ off[l] \in Nat /\ off[l] + RcvWnd <= Half
  BY OffFacts
<1>2. \A m \in 0 .. l : m \in Nat /\ off[m] \in Nat /\ off[m] <= off[l]
  BY OffFacts
<1>3. d \in 1 .. l
  BY DEF At
<1>4. f \in 0 .. off[d] - off[d - 1] - 1 /\ p = off[d] - 1 - f
  BY DEF At
<1> HIDE DEF l, d, f
<1>5. d - 1 \in 0 .. l /\ d \in 0 .. l
  BY <1>1, <1>3
<1>6. off[d] \in Nat /\ off[d - 1] \in Nat /\ off[d] <= off[l]
  BY <1>2, <1>5
<1>7. p \in Nat /\ p < off[l] /\ p < Half /\ p \in off[d - 1] .. off[d] - 1
  BY <1>1, <1>4, <1>6, KcpSizes
<1> QED  BY <1>3, <1>7 DEF l, d

\* What is at a place of message m + 1.
LEMMA WhichFragment ==
    ASSUME NEW off, NEW ms, Fits(off, ms), NEW x, NEW m \in 0 .. Len(ms) - 1, NEW p \in off[m] .. off[m + 1] - 1,
           At(off, ms, x, p)
    PROVE  x.id = m + 1 /\ x.frg = off[m + 1] - 1 - p
<1> DEFINE l == Len(ms)
           d == x.id
           f == x.frg
<1>1. l \in Nat
  BY OffFacts
<1>2. \A i \in 0 .. l : i \in Nat /\ off[i] \in Nat
  BY OffFacts
<1>3. \A i, j \in 0 .. l : i < j => off[i] < off[j]
  BY OffFacts
<1>4. d \in 1 .. l
  BY DEF At
<1>5. f \in 0 .. off[d] - off[d - 1] - 1 /\ p = off[d] - 1 - f
  BY DEF At
<1>6. p \in Nat /\ p \in off[d - 1] .. off[d] - 1
  BY PlaceFacts
<1>7. m \in 0 .. l - 1
  OBVIOUS
<1> HIDE DEF l, d, f
<1>8. d - 1 \in 0 .. l /\ d \in 0 .. l /\ m \in 0 .. l /\ m + 1 \in 0 .. l
  BY <1>1, <1>4, <1>7
<1>9. off[d] \in Nat /\ off[d - 1] \in Nat /\ off[m] \in Nat /\ off[m + 1] \in Nat
  BY <1>2, <1>8
<1>10. ~(d < m + 1)
  <2> SUFFICES ASSUME d < m + 1 PROVE FALSE
    OBVIOUS
  <2>1. d = m \/ d < m
    BY <1>8
  <2>2. d = m \/ off[d] < off[m]
    BY <1>3, <1>8, <2>1
  <2> QED  BY <1>6, <1>9, <2>2
<1>11. ~(d > m + 1)
  <2> SUFFICES ASSUME d > m + 1 PROVE FALSE
    OBVIOUS
  <2>1. d - 1 = m + 1 \/ m + 1 < d - 1
    BY <1>8
  <2>2. d - 1 = m + 1 \/ off[m + 1] < off[d - 1]
    BY <1>3, <1>8, <2>1
  <2> QED  BY <1>6, <1>9, <2>2
<1>12. d = m + 1
  BY <1>8, <1>10, <1>11
<1>13. f = off[m + 1] - 1 - p
  <2>1. f \in Int
    BY <1>5, <1>9
  <2> QED  BY <1>5, <1>9, <1>12, <2>1
<1> QED  BY <1>12, <1>13 DEF d, f

----------------------------------------------------------------------------
(* The sender *)

\* The fields of a control block.
LEMMA BlockFacts ==
    ASSUME NEW k \in Blocks
    PROVE  /\ k.snd_una \in Sns /\ k.snd_nxt \in Sns /\ k.rcv_nxt \in Sns
           /\ k.snd_queue \in Seq(Frags) /\ k.snd_buf \in Seq(SendSegs)
           /\ k.rcv_queue \in Seq(RecvSegs) /\ k.rcv_buf \in Seq(RecvSegs) /\ k.acklist \in Seq(Sns)
           /\ k.rmt_wnd \in Nat /\ k.cwnd \in Nat /\ k.incr \in Nat /\ k.ssthresh \in Nat
           /\ k.ask_send \in BOOLEAN /\ k.ask_tell \in BOOLEAN /\ k.probing \in BOOLEAN /\ k.dead \in BOOLEAN
  BY DEF Blocks

\* Numbers are integers, and have places.
LEMMA SnFacts ==
    ASSUME NEW sn \in Sns
    PROVE  sn \in Int /\ Pos(sn) \in Nat /\ Pos(sn) \in Sns
<1>1. sn \in Int
  BY KcpSizes DEF Sns
<1> QED  BY <1>1, PosFacts

\* The places of what has a number.
LEMMA SentFacts ==
    ASSUME NEW off, NEW ms, Fits(off, ms), NEW k \in Blocks, Sending(k, off, ms)
    PROVE  /\ Pos(k.snd_nxt) \in Nat /\ Pos(k.snd_una) \in Nat /\ Pos(k.snd_una) <= Pos(k.snd_nxt)
           /\ Pos(k.snd_nxt) - Pos(k.snd_una) <= SndWnd
           /\ Pos(k.snd_nxt) <= off[Len(ms)] /\ Pos(k.snd_nxt) + RcvWnd <= Half
           /\ \A i \in 1 .. Len(k.snd_buf) :
                /\ k.snd_buf[i].sn \in Sns /\ Pos(k.snd_buf[i].sn) \in Nat
                /\ Pos(k.snd_buf[i].sn) < Pos(k.snd_nxt) /\ Pos(k.snd_una) <= Pos(k.snd_buf[i].sn)
<1> DEFINE n == Pos(k.snd_nxt)
           u == Pos(k.snd_una)
           b == k.snd_buf
<1>1. n \in Nat /\ u \in Nat /\ b \in Seq(SendSegs) /\ k.snd_queue \in Seq(Frags)
  BY BlockFacts, SnFacts
<1>2. n + Len(k.snd_queue) = off[Len(ms)] /\ u <= n /\ n - u <= SndWnd
  BY DEF Sending
<1>3. n <= off[Len(ms)] /\ n + RcvWnd <= Half
  <2>1. Len(k.snd_queue) \in Nat /\ off[Len(ms)] \in Nat /\ off[Len(ms)] + RcvWnd <= Half
    BY <1>1, OffFacts
  <2> QED  BY <1>1, <1>2, <2>1, KcpSizes
<1>4. ASSUME NEW i \in 1 .. Len(b)
      PROVE  b[i].sn \in Sns /\ Pos(b[i].sn) \in Nat /\ Pos(b[i].sn) < n /\ u <= Pos(b[i].sn)
  <2>1. b[i] \in SendSegs /\ b[1] \in SendSegs /\ 1 \in 1 .. Len(b) /\ b # <<>>
    BY <1>1
  <2>2. b[i].sn \in Sns /\ b[1].sn \in Sns
    BY <2>1 DEF SendSegs
  <2>3. Pos(b[i].sn) \in Nat /\ Pos(b[1].sn) \in Nat
    BY <2>2, SnFacts
  <2>4. Pos(b[i].sn) < n /\ u = Pos(b[1].sn)
    BY <2>1 DEF Sending
  <2>5. i = 1 \/ Pos(b[1].sn) < Pos(b[i].sn)
    <3>1. i = 1 \/ 1 < i
      OBVIOUS
    <3> QED  BY <2>1, <3>1 DEF Sending
  <2> QED  BY <1>1, <2>2, <2>3, <2>4, <2>5
<1> QED  BY <1>1, <1>2, <1>3, <1>4

\* Some of the buffer is acknowledged.
LEMMA Thinned ==
    ASSUME NEW off, NEW ms, Fits(off, ms), NEW k \in Blocks, Sending(k, off, ms), NEW h \in Blocks,
           NEW f \in [1 .. Len(h.snd_buf) -> 1 .. Len(k.snd_buf)],
           \A i, j \in 1 .. Len(h.snd_buf) : i < j => f[i] < f[j],
           \A i \in 1 .. Len(h.snd_buf) : /\ h.snd_buf[i].sn = k.snd_buf[f[i]].sn
                                          /\ h.snd_buf[i].id = k.snd_buf[f[i]].id
                                          /\ h.snd_buf[i].frg = k.snd_buf[f[i]].frg,
           h.snd_nxt = k.snd_nxt, h.snd_queue = k.snd_queue,
           h.snd_una = IF h.snd_buf = <<>> THEN h.snd_nxt ELSE h.snd_buf[1].sn
    PROVE  Sending(h, off, ms)
<1> DEFINE n == Pos(k.snd_nxt)
           b == k.snd_buf
           c == h.snd_buf
<1>1. b \in Seq(SendSegs) /\ c \in Seq(SendSegs) /\ n \in Nat /\ Pos(k.snd_una) \in Nat
  BY BlockFacts, SnFacts
<1>2. \A i \in 1 .. Len(c) : f[i] \in 1 .. Len(b)
  OBVIOUS
<1>3. n + Len(h.snd_queue) = off[Len(ms)] /\ \A i \in 1 .. Len(h.snd_queue) : At(off, ms, h.snd_queue[i], n + i - 1)
  BY DEF Sending
<1>4. \A i \in 1 .. Len(c) : Pos(c[i].sn) < n /\ At(off, ms, c[i], Pos(c[i].sn))
  <2> SUFFICES ASSUME NEW i \in 1 .. Len(c) PROVE Pos(c[i].sn) < n /\ At(off, ms, c[i], Pos(c[i].sn))
    OBVIOUS
  <2>1. Pos(b[f[i]].sn) < n /\ At(off, ms, b[f[i]], Pos(b[f[i]].sn))
    BY <1>2 DEF Sending
  <2>2. c[i].sn = b[f[i]].sn /\ c[i].id = b[f[i]].id /\ c[i].frg = b[f[i]].frg
    OBVIOUS
  <2> QED  BY <2>1, <2>2 DEF At
<1>5. \A i, j \in 1 .. Len(c) : i < j => Pos(c[i].sn) < Pos(c[j].sn)
  <2> SUFFICES ASSUME NEW i \in 1 .. Len(c), NEW j \in 1 .. Len(c), i < j PROVE Pos(c[i].sn) < Pos(c[j].sn)
    OBVIOUS
  <2>1. Pos(b[f[i]].sn) < Pos(b[f[j]].sn)
    BY <1>2 DEF Sending
  <2>2. c[i].sn = b[f[i]].sn /\ c[j].sn = b[f[j]].sn
    OBVIOUS
  <2> QED  BY <2>1, <2>2
<1>6. Pos(h.snd_una) <= n /\ n - Pos(h.snd_una) <= SndWnd
  <2>1. CASE c = <<>>
    BY <1>1, <2>1, KcpSizes
  <2>2. CASE c # <<>>
    <3>1. 1 \in 1 .. Len(c) /\ f[1] \in 1 .. Len(b)
      BY <1>1, <1>2, <2>2
    <3>2. h.snd_una = b[f[1]].sn
      BY <2>2, <3>1
    <3>3. /\ Pos(b[f[1]].sn) \in Nat /\ Pos(b[f[1]].sn) < n /\ Pos(k.snd_una) <= Pos(b[f[1]].sn)
          /\ n - Pos(k.snd_una) <= SndWnd
      BY <3>1, SentFacts
    <3> QED  BY <1>1, <3>2, <3>3, KcpSizes
  <2> QED  BY <2>1, <2>2
<1> QED  BY <1>3, <1>4, <1>5, <1>6 DEF Sending

\* What is acknowledged has been received.
LEMMA Dropped ==
    ASSUME NEW k \in Blocks, NEW h \in Blocks, NEW j, Between(k, j),
           NEW f \in [1 .. Len(h.snd_buf) -> 1 .. Len(k.snd_buf)],
           \A i \in 1 .. Len(h.snd_buf) : h.snd_buf[i].sn = k.snd_buf[f[i]].sn,
           \A i \in 1 .. Len(k.snd_buf) : Has(j, Pos(k.snd_buf[i].sn)) \/ \E g \in 1 .. Len(h.snd_buf) : f[g] = i,
           h.snd_nxt = k.snd_nxt
    PROVE  Between(h, j)
<1> SUFFICES ASSUME NEW p \in 0 .. Pos(k.snd_nxt) - 1, ~Has(j, p) PROVE InBuf(h.snd_buf, p)
  BY DEF Between
<1>1. PICK i \in 1 .. Len(k.snd_buf) : Pos(k.snd_buf[i].sn) = p
  BY DEF Between, InBuf
<1>2. PICK g \in 1 .. Len(h.snd_buf) : f[g] = i
  BY <1>1
<1>3. Pos(h.snd_buf[g].sn) = p
  BY <1>1, <1>2
<1> QED  BY <1>3 DEF InBuf

\* Everything in front of una is acknowledged, and una only as far as the peer has received.
LEMMA UnaHeard ==
    ASSUME NEW off, NEW ms, Fits(off, ms), NEW k \in Blocks, Sending(k, off, ms), NEW j \in Blocks, Between(k, j),
           NEW una \in Sns, Pos(una) <= Pos(j.rcv_nxt), NEW w \in Nat,
           NEW h, h = ikcp_shrink_buf(ikcp_parse_una([k EXCEPT !.rmt_wnd = w], una))
    PROVE  /\ h \in Blocks /\ Sending(h, off, ms) /\ Between(h, j)
           /\ h.snd_nxt = k.snd_nxt /\ h.rcv_nxt = k.rcv_nxt /\ h.rcv_queue = k.rcv_queue
           /\ h.rcv_buf = k.rcv_buf /\ h.acklist = k.acklist
<1> DEFINE b == k.snd_buf
           I == {i \in 1 .. Len(b) : itimediff(una, b[i].sn) <= 0}
           c == IF I = {} THEN <<>> ELSE SubSeq(b, Min(I), Len(b))
<1>1. b \in Seq(SendSegs) /\ Len(b) \in Nat /\ k.snd_nxt \in Sns
  BY BlockFacts
<1>2. Pos(una) < Half /\ Pos(una) \in Nat
  <2>1. Pos(j.rcv_nxt) <= Pos(k.snd_nxt) /\ Pos(j.rcv_nxt) \in Nat /\ Pos(k.snd_nxt) \in Nat /\ Pos(una) \in Nat
    BY BlockFacts, SnFacts DEF Between
  <2>2. Pos(k.snd_nxt) + RcvWnd <= Half
    BY SentFacts
  <2> QED  BY <2>1, <2>2, KcpSizes
<1>3. \A i \in 1 .. Len(b) : itimediff(una, b[i].sn) <= 0 <=> Pos(una) <= Pos(b[i].sn)
  <2> SUFFICES ASSUME NEW i \in 1 .. Len(b) PROVE itimediff(una, b[i].sn) <= 0 <=> Pos(una) <= Pos(b[i].sn)
    OBVIOUS
  <2>1. b[i].sn \in Sns /\ Pos(b[i].sn) \in Nat /\ Pos(b[i].sn) < Pos(k.snd_nxt) /\ Pos(k.snd_nxt) \in Nat /\ Pos(k.snd_nxt) + RcvWnd <= Half
    BY SentFacts
  <2>2. Pos(b[i].sn) < Half
    BY <2>1, KcpSizes
  <2>3. itimediff(una, b[i].sn) = Pos(una) - Pos(b[i].sn)
    BY <1>2, <2>1, <2>2, SnFacts, Compare
  <2> QED  BY <1>2, <2>1, <2>3
<1> DEFINE Cut(d) == /\ c \in Seq(SendSegs) /\ Len(c) = Len(b) - d /\ \A i \in 1 .. Len(c) : c[i] = b[d + i]
                     /\ \A i \in 1 .. d : Pos(b[i].sn) < Pos(una)
<1>4. PICK d \in 0 .. Len(b) : Cut(d)
  <2>1. CASE I = {}
    <3>1. \A i \in 1 .. Len(b) : Pos(b[i].sn) < Pos(una)
      <4> SUFFICES ASSUME NEW i \in 1 .. Len(b) PROVE Pos(b[i].sn) < Pos(una)
        OBVIOUS
      <4>1. ~(Pos(una) <= Pos(b[i].sn)) /\ Pos(b[i].sn) \in Nat
        BY <1>3, <2>1, SentFacts
      <4> QED  BY <1>2, <4>1
    <3>2. c = <<>>
      BY <2>1
    <3> HIDE DEF c
    <3>3. c \in Seq(SendSegs) /\ Len(c) = 0
      BY <3>2
    <3>4. Len(c) = Len(b) - Len(b) /\ \A i \in 1 .. Len(c) : c[i] = b[Len(b) + i]
      BY <1>1, <3>3
    <3>5. Cut(Len(b)) /\ Len(b) \in 0 .. Len(b)
      BY <1>1, <3>1, <3>3, <3>4
    <3> QED  BY <3>5
  <2>2. CASE I # {}
    <3>1. I \subseteq Nat
      OBVIOUS
    <3> DEFINE m == Min(I) - 1
    <3>2. Min(I) \in I /\ \A y \in I : Min(I) <= y
      BY <2>2, <3>1, MinOf
    <3>3. m \in 0 .. Len(b) /\ m + 1 = Min(I)
      BY <1>1, <3>2
    <3>4. \A i \in 1 .. m : Pos(b[i].sn) < Pos(una)
      <4> SUFFICES ASSUME NEW i \in 1 .. m PROVE Pos(b[i].sn) < Pos(una)
        OBVIOUS
      <4>1. i \in 1 .. Len(b) /\ ~(Min(I) <= i)
        BY <1>1, <3>3
      <4>2. i \notin I
        BY <3>2, <4>1
      <4>3. ~(Pos(una) <= Pos(b[i].sn)) /\ Pos(b[i].sn) \in Nat
        BY <1>3, <4>1, <4>2, SentFacts
      <4> QED  BY <1>2, <4>3
    <3>5. c = SubSeq(b, m + 1, Len(b))
      BY <2>2, <3>3
    <3> HIDE DEF m, I, c
    <3>6. c \in Seq(SendSegs) /\ Len(c) = Len(b) - m /\ \A i \in 1 .. Len(b) - m : c[i] = b[m + i]
      BY <1>1, <3>3, <3>5, SuffixFacts
    <3>7. Cut(m)
      BY <3>4, <3>6
    <3> QED  BY <3>3, <3>7
  <2> QED  BY <2>1, <2>2
<1>5. ikcp_parse_una([k EXCEPT !.rmt_wnd = w], una) = [k EXCEPT !.rmt_wnd = w, !.snd_buf = c]
  <2> DEFINE m == [k EXCEPT !.rmt_wnd = w]
  <2>1. m.snd_buf = b
    BY DEF Blocks
  <2>2. [m EXCEPT !.snd_buf = c] = [k EXCEPT !.rmt_wnd = w, !.snd_buf = c]
    BY DEF Blocks
  <2> HIDE DEF m
  <2>3. SelectInSeq(m.snd_buf, LAMBDA s : itimediff(una, s.sn) <= 0) = IF I = {} THEN 0 ELSE Min(I)
    BY <2>1 DEF SelectInSeq
  <2>4. I # {} => Min(I) # 0
    <3>1. I \subseteq Nat
      OBVIOUS
    <3>2. I # {} => Min(I) \in I
      BY <3>1, MinOf
    <3> QED  BY <3>2
  <2>5. ikcp_parse_una(m, una) = [m EXCEPT !.snd_buf = c]
    BY <2>1, <2>3, <2>4 DEF ikcp_parse_una
  <2> QED  BY <2>2, <2>5 DEF m
<1> HIDE DEF c, I
<1>6. h = [k EXCEPT !.rmt_wnd = w, !.snd_buf = c, !.snd_una = IF c = <<>> THEN k.snd_nxt ELSE c[1].sn]
  BY <1>5 DEF ikcp_shrink_buf, Blocks
<1>7. c # <<>> => c[1].sn \in Sns
  <2> SUFFICES ASSUME c # <<>> PROVE c[1].sn \in Sns
    OBVIOUS
  <2>1. c[1] \in SendSegs
    BY <1>4
  <2> QED  BY <2>1 DEF SendSegs
<1>8. h \in Blocks /\ h.snd_buf = c
  BY <1>1, <1>4, <1>6, <1>7 DEF Blocks
<1>9. /\ h.snd_nxt = k.snd_nxt /\ h.rcv_nxt = k.rcv_nxt /\ h.rcv_queue = k.rcv_queue /\ h.snd_queue = k.snd_queue
      /\ h.rcv_buf = k.rcv_buf /\ h.acklist = k.acklist /\ h.snd_una = IF c = <<>> THEN k.snd_nxt ELSE c[1].sn
  BY <1>6 DEF Blocks
<1> DEFINE f == [i \in 1 .. Len(c) |-> d + i]
<1>10. f \in [1 .. Len(c) -> 1 .. Len(b)] /\ \A i \in 1 .. Len(c) : f[i] = d + i
  BY <1>1, <1>4
<1> HIDE DEF f
<1>11. \A i, g \in 1 .. Len(c) : i < g => f[i] < f[g]
  BY <1>4, <1>10
<1>12. \A i \in 1 .. Len(c) : c[i] = b[f[i]]
  BY <1>4, <1>10
<1>13. Sending(h, off, ms)
  BY <1>8, <1>9, <1>10, <1>11, <1>12, Thinned
<1>14. \A i \in 1 .. Len(b) : Has(j, Pos(b[i].sn)) \/ \E g \in 1 .. Len(c) : f[g] = i
  <2> SUFFICES ASSUME NEW i \in 1 .. Len(b) PROVE Has(j, Pos(b[i].sn)) \/ \E g \in 1 .. Len(c) : f[g] = i
    OBVIOUS
  <2>1. CASE i <= d
    <3>1. Pos(b[i].sn) < Pos(una)
      BY <1>4, <2>1
    <3>2. Pos(b[i].sn) \in Nat /\ Pos(j.rcv_nxt) \in Nat
      BY SentFacts, BlockFacts, SnFacts
    <3> QED  BY <1>2, <3>1, <3>2 DEF Has
  <2>2. CASE i > d
    <3>1. i - d \in 1 .. Len(c) /\ d + (i - d) = i
      BY <1>1, <1>4, <2>2
    <3>2. f[i - d] = i
      BY <1>10, <3>1
    <3> QED  BY <3>1, <3>2
  <2> QED  BY <2>1, <2>2
<1>15. Between(h, j)
  <2>1. \A i \in 1 .. Len(c) : c[i].sn = b[f[i]].sn
    BY <1>12
  <2> QED  BY <1>8, <1>9, <1>10, <1>14, <2>1, Dropped
<1> QED  BY <1>8, <1>9, <1>13, <1>15

\* One number is acknowledged, which the peer has received.
LEMMA AckHeard ==
    ASSUME NEW off, NEW ms, Fits(off, ms), NEW k \in Blocks, Sending(k, off, ms), NEW j \in Blocks, Between(k, j),
           NEW sn \in Sns, Has(j, Pos(sn)),
           NEW h, h = ikcp_shrink_buf(ikcp_parse_ack(k, sn))
    PROVE  /\ h \in Blocks /\ Sending(h, off, ms) /\ Between(h, j)
           /\ h.snd_nxt = k.snd_nxt /\ h.rcv_nxt = k.rcv_nxt /\ h.rcv_queue = k.rcv_queue
           /\ h.rcv_buf = k.rcv_buf /\ h.acklist = k.acklist
<1> DEFINE b == k.snd_buf
           c == ikcp_parse_ack(k, sn).snd_buf
           I == {i \in 1 .. Len(b) : b[i].sn = sn}
           Thins(f) == /\ c \in Seq(SendSegs) /\ f \in [1 .. Len(c) -> 1 .. Len(b)]
                       /\ \A i, g \in 1 .. Len(c) : i < g => f[i] < f[g]
                       /\ \A i \in 1 .. Len(c) : c[i] = b[f[i]]
                       /\ \A i \in 1 .. Len(b) : b[i].sn = sn \/ \E g \in 1 .. Len(c) : f[g] = i
<1>1. b \in Seq(SendSegs) /\ Len(b) \in Nat /\ k.snd_nxt \in Sns
  BY BlockFacts
<1>2. ikcp_parse_ack(k, sn) = [k EXCEPT !.snd_buf = c]
  BY DEF ikcp_parse_ack, Blocks
<1>3. \E f : Thins(f)
  <2>1. CASE c = b
    <3> HIDE DEF c
    <3> DEFINE f == [i \in 1 .. Len(b) |-> i]
    <3>1. Thins(f)
      BY <1>1, <2>1
    <3> QED  BY <3>1
  <2>2. CASE c # b
    <3>1. c = RemoveFirstMatch(b, LAMBDA s : s.sn = sn)
      BY <2>2 DEF ikcp_parse_ack, Blocks
    <3>2. I # {} /\ c = RemoveAt(b, SelectInSeq(b, LAMBDA s : s.sn = sn))
      BY <2>2, <3>1 DEF RemoveFirstMatch
    <3> DEFINE d == Min(I)
    <3>3. c = RemoveAt(b, d)
      BY <3>2 DEF SelectInSeq
    <3>4. I \subseteq Nat
      OBVIOUS
    <3>5. d \in I
      BY <3>2, <3>4, MinOf
    <3>6. d \in 1 .. Len(b) /\ b[d].sn = sn
      BY <3>5
    <3> HIDE DEF c, d, I
    <3>7. /\ c \in Seq(SendSegs) /\ Len(c) = Len(b) - 1
          /\ \A i \in 1 .. Len(b) - 1 : c[i] = b[IF i < d THEN i ELSE i + 1]
      BY <1>1, <3>3, <3>6, RemoveFacts
    <3> DEFINE f == [i \in 1 .. Len(c) |-> IF i < d THEN i ELSE i + 1]
    <3>8. f \in [1 .. Len(c) -> 1 .. Len(b)] /\ \A i \in 1 .. Len(c) : f[i] = IF i < d THEN i ELSE i + 1
      BY <1>1, <3>6, <3>7
    <3> HIDE DEF f
    <3>9. \A i, g \in 1 .. Len(c) : i < g => f[i] < f[g]
      BY <1>1, <3>6, <3>7, <3>8
    <3>10. \A i \in 1 .. Len(c) : c[i] = b[f[i]]
      BY <3>7, <3>8
    <3>11. \A i \in 1 .. Len(b) : b[i].sn = sn \/ \E g \in 1 .. Len(c) : f[g] = i
      <4> SUFFICES ASSUME NEW i \in 1 .. Len(b), i # d PROVE \E g \in 1 .. Len(c) : f[g] = i
        BY <3>6
      <4>1. CASE i < d
        <5>1. i \in 1 .. Len(c) /\ f[i] = i
          BY <1>1, <3>6, <3>7, <3>8, <4>1
        <5> QED  BY <5>1
      <4>2. CASE i > d
        <5>1. i - 1 \in 1 .. Len(c) /\ ~(i - 1 < d) /\ (i - 1) + 1 = i
          BY <1>1, <3>6, <3>7, <4>2
        <5>2. f[i - 1] = i
          BY <3>8, <5>1
        <5> QED  BY <5>1, <5>2
      <4> QED  BY <3>6, <4>1, <4>2
    <3>12. Thins(f)
      BY <3>7, <3>8, <3>9, <3>10, <3>11
    <3> QED  BY <3>12
  <2> QED  BY <2>1, <2>2
<1>4. PICK f : Thins(f)
  BY <1>3
<1> HIDE DEF c, I
<1>5. h = [k EXCEPT !.snd_buf = c, !.snd_una = IF c = <<>> THEN k.snd_nxt ELSE c[1].sn]
  BY <1>2 DEF ikcp_shrink_buf, Blocks
<1>6. c # <<>> => c[1].sn \in Sns
  <2> SUFFICES ASSUME c # <<>> PROVE c[1].sn \in Sns
    OBVIOUS
  <2>1. c[1] \in SendSegs
    BY <1>4
  <2> QED  BY <2>1 DEF SendSegs
<1>7. h \in Blocks /\ h.snd_buf = c
  BY <1>1, <1>4, <1>5, <1>6 DEF Blocks
<1>8. /\ h.snd_nxt = k.snd_nxt /\ h.rcv_nxt = k.rcv_nxt /\ h.rcv_queue = k.rcv_queue /\ h.snd_queue = k.snd_queue
      /\ h.rcv_buf = k.rcv_buf /\ h.acklist = k.acklist /\ h.snd_una = IF c = <<>> THEN k.snd_nxt ELSE c[1].sn
  BY <1>5 DEF Blocks
<1>9. f \in [1 .. Len(c) -> 1 .. Len(b)] /\ (\A i, g \in 1 .. Len(c) : i < g => f[i] < f[g]) /\ \A i \in 1 .. Len(c) : c[i] = b[f[i]]
  BY <1>4
<1>10. Sending(h, off, ms)
  BY <1>7, <1>8, <1>9, Thinned
<1>11. \A i \in 1 .. Len(b) : Has(j, Pos(b[i].sn)) \/ \E g \in 1 .. Len(c) : f[g] = i
  BY <1>4
<1>12. Between(h, j)
  <2>1. \A i \in 1 .. Len(c) : c[i].sn = b[f[i]].sn
    BY <1>9
  <2> QED  BY <1>7, <1>8, <1>9, <1>11, <2>1, Dropped
<1> QED  BY <1>7, <1>8, <1>10, <1>12

\* The sequence of segments changes in nothing but its counters.
LEMMA Recounted ==
    ASSUME NEW off, NEW ms, Fits(off, ms), NEW k \in Blocks, Sending(k, off, ms), NEW h \in Blocks,
           Len(h.snd_buf) = Len(k.snd_buf),
           \A i \in 1 .. Len(k.snd_buf) : /\ h.snd_buf[i].sn = k.snd_buf[i].sn
                                          /\ h.snd_buf[i].id = k.snd_buf[i].id
                                          /\ h.snd_buf[i].frg = k.snd_buf[i].frg,
           h.snd_nxt = k.snd_nxt, h.snd_queue = k.snd_queue, h.snd_una = k.snd_una
    PROVE  Sending(h, off, ms) /\ \A j : Between(k, j) => Between(h, j)
<1> DEFINE b == k.snd_buf
           c == h.snd_buf
<1>1. b \in Seq(SendSegs) /\ c \in Seq(SendSegs) /\ Len(b) \in Nat
  BY BlockFacts
<1>2. k.snd_una = IF b = <<>> THEN k.snd_nxt ELSE b[1].sn
  BY DEF Sending
<1>3. h.snd_una = IF c = <<>> THEN h.snd_nxt ELSE c[1].sn
  <2>1. c = <<>> <=> b = <<>>
    BY <1>1
  <2>2. c # <<>> => 1 \in 1 .. Len(b)
    BY <1>1
  <2> QED  BY <1>2, <2>1, <2>2
<1> DEFINE f == [i \in 1 .. Len(c) |-> i]
<1>4. f \in [1 .. Len(c) -> 1 .. Len(b)] /\ \A i \in 1 .. Len(c) : f[i] = i
  BY <1>1
<1> HIDE DEF f
<1>5. /\ \A i, g \in 1 .. Len(c) : i < g => f[i] < f[g]
      /\ \A i \in 1 .. Len(c) : c[i].sn = b[f[i]].sn /\ c[i].id = b[f[i]].id /\ c[i].frg = b[f[i]].frg
  BY <1>1, <1>4
<1>6. Sending(h, off, ms)
  BY <1>3, <1>4, <1>5, Thinned
<1>7. ASSUME NEW j, Between(k, j) PROVE Between(h, j)
  <2>1. \A i \in 1 .. Len(b) : Has(j, Pos(b[i].sn)) \/ \E g \in 1 .. Len(c) : f[g] = i
    BY <1>1, <1>4
  <2>2. \A i \in 1 .. Len(c) : c[i].sn = b[f[i]].sn
    BY <1>5
  <2> QED  BY <1>4, <1>7, <2>1, <2>2, Dropped
<1> QED  BY <1>6, <1>7

\* Overtaken segments are counted.
LEMMA FastHeard ==
    ASSUME NEW off, NEW ms, Fits(off, ms), NEW k \in Blocks, Sending(k, off, ms), NEW j, Between(k, j),
           NEW sn, NEW h, h = ikcp_parse_fastack(k, sn)
    PROVE  /\ h \in Blocks /\ Sending(h, off, ms) /\ Between(h, j)
           /\ h.snd_nxt = k.snd_nxt /\ h.rcv_nxt = k.rcv_nxt /\ h.rcv_queue = k.rcv_queue
           /\ h.rcv_buf = k.rcv_buf /\ h.acklist = k.acklist
<1>1. CASE ~InFlight(k, sn)
  BY <1>1 DEF ikcp_parse_fastack
<1>2. CASE InFlight(k, sn)
  <2> DEFINE b == k.snd_buf
             o(s) == IF itimediff(sn, s.sn) > 0 /\ s.fastack < FastResend THEN [s EXCEPT !.fastack = @ + 1] ELSE s
             c == [i \in DOMAIN b |-> o(b[i])]
  <2>1. b \in Seq(SendSegs) /\ Len(b) \in Nat /\ DOMAIN b = 1 .. Len(b) /\ \A i \in 1 .. Len(b) : b[i] \in SendSegs
    BY BlockFacts
  <2>2. h = [k EXCEPT !.snd_buf = c]
    BY <1>2 DEF ikcp_parse_fastack
  <2>3. \A s \in SendSegs : o(s) \in SendSegs /\ o(s).sn = s.sn /\ o(s).id = s.id /\ o(s).frg = s.frg
    BY DEF SendSegs
  <2> HIDE DEF o
  <2>4. c \in [1 .. Len(b) -> SendSegs] /\ \A i \in 1 .. Len(b) : c[i] = o(b[i])
    BY <2>1, <2>3
  <2> HIDE DEF c
  <2>5. c \in Seq(SendSegs) /\ Len(c) = Len(b)
    BY <2>1, <2>4, IsSeq
  <2>6. h \in Blocks /\ h.snd_buf = c
    BY <2>2, <2>5 DEF Blocks
  <2>7. /\ h.snd_nxt = k.snd_nxt /\ h.rcv_nxt = k.rcv_nxt /\ h.rcv_queue = k.rcv_queue /\ h.snd_queue = k.snd_queue
        /\ h.rcv_buf = k.rcv_buf /\ h.acklist = k.acklist /\ h.snd_una = k.snd_una
    BY <2>2 DEF Blocks
  <2>8. \A i \in 1 .. Len(b) : c[i].sn = b[i].sn /\ c[i].id = b[i].id /\ c[i].frg = b[i].frg
    BY <2>1, <2>3, <2>4
  <2>9. Sending(h, off, ms) /\ \A g : Between(k, g) => Between(h, g)
    BY <2>5, <2>6, <2>7, <2>8, Recounted
  <2> QED  BY <2>6, <2>7, <2>9
<1> QED  BY <1>1, <1>2

\* The fields that places are about.
Core(k) == <<k.snd_una, k.snd_nxt, k.snd_queue, k.snd_buf, k.rcv_nxt, k.rcv_queue, k.rcv_buf>>

\* ... are equal when their record is.
LEMMA SameCore ==
    ASSUME NEW k, NEW h, Core(h) = Core(k)
    PROVE  /\ h.snd_una = k.snd_una /\ h.snd_nxt = k.snd_nxt /\ h.snd_queue = k.snd_queue /\ h.snd_buf = k.snd_buf
           /\ h.rcv_nxt = k.rcv_nxt /\ h.rcv_queue = k.rcv_queue /\ h.rcv_buf = k.rcv_buf
  BY DEF Core

\* The larger, and the smaller, of two or three.
LEMMA MaxTwo ==
    ASSUME NEW x \in Int, NEW y \in Int
    PROVE  Max({x, y}) = IF x <= y THEN y ELSE x
<1> DEFINE T == {x, y}
           b == IF x <= y THEN y ELSE x
<1>1. T \subseteq Int /\ T # {} /\ b \in Int /\ \A z \in T : z <= b
  OBVIOUS
<1>2. Max(T) \in T /\ \A z \in T : z <= Max(T)
  BY <1>1, MaxOf
<1>3. Max(T) \in Int /\ x <= Max(T) /\ y <= Max(T) /\ Max(T) \in {x, y}
  BY <1>1, <1>2
<1> QED  BY <1>3

\* The least of three, of two.
LEMMA MinThree ==
    ASSUME NEW x \in Nat, NEW y \in Nat, NEW z \in Nat
    PROVE  Min({x, y, z}) \in Nat /\ Min({x, y, z}) <= x
<1> DEFINE T == {x, y, z}
<1>1. T \subseteq Nat /\ T # {}
  OBVIOUS
<1>2. Min(T) \in T /\ \A w \in T : Min(T) <= w
  BY <1>1, MinOf
<1> QED  BY <1>1, <1>2

\* The lesser of two.
LEMMA MinTwo ==
    ASSUME NEW x \in Int, NEW y \in Int
    PROVE  Min({x, y}) = IF x <= y THEN x ELSE y
<1> DEFINE T == {x, y}
           a == IF x <= y THEN x ELSE y
<1>1. a \in T /\ \A z \in T : a <= z
  OBVIOUS
<1>2. \E w \in T : \A z \in T : w <= z
  BY <1>1
<1>3. Min(T) \in T /\ \A z \in T : Min(T) <= z
  BY <1>2 DEF Min
<1>4. Min(T) \in {x, y} /\ Min(T) <= x /\ Min(T) <= y
  BY <1>3
<1> QED  BY <1>4

\* The congestion window may open.
LEMMA CwndOpened ==
    ASSUME NEW k \in Blocks, NEW h, h = open_cwnd(k)
    PROVE  h \in Blocks /\ Core(h) = Core(k) /\ h.acklist = k.acklist
<1> DEFINE base == Max({k.incr, Mss})
           incr == base + (Mss * Mss) \div base + Mss \div 16
           wide == (incr + Mss - 1) \div Mss
<1>1. Mss \in Nat \ {0} /\ k.incr \in Nat /\ k.cwnd \in Nat /\ k.rmt_wnd \in Nat
  BY KcpAssumption, BlockFacts
<1>2. base \in Nat \ {0}
  <2>1. base = IF k.incr <= Mss THEN Mss ELSE k.incr
    BY <1>1, MaxTwo
  <2> QED  BY <1>1, <2>1
<1>3. incr \in Nat
  <2> HIDE DEF base
  <2> DEFINE q == Mss * Mss
  <2>1. q \in Nat
    BY <1>1
  <2> HIDE DEF q
  <2>2. q \div base \in Nat
    BY <1>2, <2>1
  <2>3. Mss \div 16 \in Nat
    BY <1>1
  <2> QED  BY <1>2, <2>2, <2>3 DEF q
<1>4. wide \in Nat
  <2> HIDE DEF incr
  <2> DEFINE q == incr + Mss - 1
  <2>1. q \in Nat
    BY <1>1, <1>3
  <2> HIDE DEF q
  <2>2. q \div Mss \in Nat
    BY <1>1, <2>1
  <2> QED  BY <2>2 DEF q
<1> DEFINE slow == [k EXCEPT !.cwnd = @ + 1, !.incr = @ + Mss]
           avoid == [k EXCEPT !.incr = incr, !.cwnd = IF (@ + 1) * Mss <= incr THEN wide ELSE @]
           grown == IF k.cwnd < k.ssthresh THEN slow ELSE avoid
           capped == [grown EXCEPT !.cwnd = k.rmt_wnd, !.incr = k.rmt_wnd * Mss]
<1>5. h = IF k.cwnd >= k.rmt_wnd THEN k ELSE IF grown.cwnd > k.rmt_wnd THEN capped ELSE grown
  BY <1>1 DEF open_cwnd
<1> HIDE DEF base, incr, wide
<1>6. slow \in Blocks /\ Core(slow) = Core(k) /\ slow.acklist = k.acklist
  <2> DEFINE a == k.cwnd + 1
             c == k.incr + Mss
  <2>1. a \in Nat /\ c \in Nat
    BY <1>1
  <2>2. slow = [k EXCEPT !.cwnd = a, !.incr = c]
    BY DEF Blocks
  <2> HIDE DEF a, c, slow
  <2> QED  BY <2>1, <2>2 DEF Blocks, Core
<1>7. avoid \in Blocks /\ Core(avoid) = Core(k) /\ avoid.acklist = k.acklist
  BY <1>1, <1>3, <1>4 DEF Blocks, Core
<1>8. grown \in Blocks /\ Core(grown) = Core(k) /\ grown.acklist = k.acklist
  BY <1>6, <1>7
<1> HIDE DEF grown
<1>9. k.rmt_wnd * Mss \in Nat
  BY <1>1
<1>10. capped \in Blocks /\ Core(capped) = Core(grown) /\ capped.acklist = grown.acklist
  BY <1>1, <1>8, <1>9 DEF Blocks, Core
<1> QED  BY <1>5, <1>8, <1>10

----------------------------------------------------------------------------
(* The receiver *)

\* The places of what is received.
LEMMA HeldFacts ==
    ASSUME NEW off, NEW ms, Fits(off, ms), NEW k \in Blocks, NEW rs \in Seq(Seq(Frags)), Holding(k, off, ms, rs)
    PROVE  /\ Pos(k.rcv_nxt) \in Nat /\ Len(k.rcv_queue) \in Nat /\ Len(k.rcv_queue) <= RcvWnd
           /\ Len(rs) \in 0 .. Len(ms) /\ off[Len(rs)] \in Nat /\ off[Len(rs)] + Len(k.rcv_queue) = Pos(k.rcv_nxt)
           /\ Pos(k.rcv_nxt) <= off[Len(ms)] /\ Pos(k.rcv_nxt) + RcvWnd <= Half
           /\ \A i \in 1 .. Len(k.rcv_buf) :
                /\ k.rcv_buf[i] \in RecvSegs /\ k.rcv_buf[i].sn \in Sns /\ Pos(k.rcv_buf[i].sn) \in Nat
                /\ Pos(k.rcv_nxt) <= Pos(k.rcv_buf[i].sn) /\ Pos(k.rcv_buf[i].sn) < Pos(k.rcv_nxt) + RcvWnd
                /\ Pos(k.rcv_buf[i].sn) < Half
<1> DEFINE x == Pos(k.rcv_nxt)
           q == Len(k.rcv_queue)
           l == Len(ms)
           r == Len(rs)
           o == off[r]
<1>1. x \in Nat /\ q \in Nat /\ l \in Nat /\ r \in Nat /\ r \in 0 .. l /\ q <= RcvWnd
  <2>1. x \in Nat /\ k.rcv_queue \in Seq(RecvSegs)
    BY BlockFacts, SnFacts
  <2>2. l \in Nat
    BY OffFacts
  <2>3. r <= l /\ q <= RcvWnd
    BY DEF Holding
  <2> QED  BY <2>1, <2>2, <2>3
<1>2. o \in Nat /\ o <= off[l] /\ off[l] \in Nat /\ off[l] + RcvWnd <= Half
  BY <1>1, OffFacts
<1>3. o + q = x
  BY DEF Holding
<1>4. x <= off[l]
  <2>1. CASE q = 0
    BY <1>1, <1>2, <1>3, <2>1
  <2>2. CASE q # 0
    <3>1. q \in 1 .. q
      BY <1>1, <2>2
    <3>2. At(off, ms, k.rcv_queue[q], o + q - 1)
      BY <3>1 DEF Holding
    <3>3. o + q - 1 < off[l]
      BY <3>2, PlaceFacts
    <3> QED  BY <1>1, <1>2, <1>3, <3>3
  <2> QED  BY <2>1, <2>2
<1>5. ASSUME NEW i \in 1 .. Len(k.rcv_buf)
      PROVE  /\ k.rcv_buf[i] \in RecvSegs /\ k.rcv_buf[i].sn \in Sns /\ Pos(k.rcv_buf[i].sn) \in Nat
             /\ x <= Pos(k.rcv_buf[i].sn) /\ Pos(k.rcv_buf[i].sn) < x + RcvWnd /\ Pos(k.rcv_buf[i].sn) < Half
  <2>1. k.rcv_buf[i] \in RecvSegs
    BY BlockFacts
  <2>2. k.rcv_buf[i].sn \in Sns
    BY <2>1 DEF RecvSegs
  <2>3. Pos(k.rcv_buf[i].sn) \in Nat
    BY <2>2, SnFacts
  <2>4. Pos(k.rcv_buf[i].sn) \in x .. x + RcvWnd - 1 /\ At(off, ms, k.rcv_buf[i], Pos(k.rcv_buf[i].sn))
    BY DEF Holding
  <2>5. Pos(k.rcv_buf[i].sn) < Half
    BY <2>4, PlaceFacts
  <2> QED  BY <1>1, <2>1, <2>2, <2>3, <2>4, <2>5, KcpSizes
<1>6. x + RcvWnd <= Half
  BY <1>1, <1>2, <1>4, KcpSizes
<1> QED  BY <1>1, <1>2, <1>3, <1>4, <1>5, <1>6

\* What comes next in the buffer goes to the queue, as far as there is room.
LEMMA Moved ==
    ASSUME NEW off, NEW ms, Fits(off, ms), NEW k \in Blocks, NEW rs \in Seq(Seq(Frags)), Holding(k, off, ms, rs),
           NEW h, h = MoveAvailable(k)
    PROVE  /\ h \in Blocks /\ Receiving(h, off, ms, rs) /\ Pos(k.rcv_nxt) <= Pos(h.rcv_nxt)
           /\ \A p \in Nat : Has(h, p) <=> Has(k, p)
           /\ \A i \in 1 .. Len(h.rcv_buf) : \E g \in 1 .. Len(k.rcv_buf) : h.rcv_buf[i].sn = k.rcv_buf[g].sn
           /\ \/ Pos(h.rcv_nxt) = Pos(k.rcv_nxt)
              \/ \E g \in 1 .. Len(k.rcv_buf) : Pos(h.rcv_nxt) = Pos(k.rcv_buf[g].sn) + 1
           /\ h.snd_nxt = k.snd_nxt /\ h.snd_una = k.snd_una /\ h.snd_queue = k.snd_queue /\ h.snd_buf = k.snd_buf
           /\ h.acklist = k.acklist
<1> DEFINE x == Pos(k.rcv_nxt)
           q == Len(k.rcv_queue)
           b == k.rcv_buf
           T == {j \in 0 .. Len(b) : /\ q + j <= RcvWnd
                                     /\ \A i \in 1 .. j : b[i].sn = (k.rcv_nxt + i - 1) % SnMod}
           n == Max(T)
<1>1. /\ x \in Nat /\ q \in Nat /\ q <= RcvWnd /\ x + RcvWnd <= Half /\ b \in Seq(RecvSegs) /\ Len(b) \in Nat
      /\ k.rcv_nxt \in Sns /\ k.rcv_nxt \in Int /\ k.rcv_queue \in Seq(RecvSegs)
  BY HeldFacts, BlockFacts, SnFacts
<1>2. n \in T /\ \A j \in T : j <= n
  <2>1. 0 \in T
    BY <1>1
  <2>2. T \subseteq Int /\ T # {} /\ Len(b) \in Int /\ \A j \in T : j <= Len(b)
    BY <1>1, <2>1
  <2> HIDE DEF T
  <2> QED  BY <2>2, MaxOf
<1> HIDE DEF n
<1>3. n \in 0 .. Len(b) /\ n \in Nat /\ q + n <= RcvWnd /\ \A i \in 1 .. n : b[i].sn = (k.rcv_nxt + i - 1) % SnMod
  BY <1>1, <1>2
<1>31. n \in Nat /\ q \in Nat /\ RcvWnd \in Nat
  BY <1>1, <1>3, KcpSizes
<1>32. ~(q + (n + 1) <= RcvWnd) => q + n + 1 > RcvWnd
  <2> HIDE DEF q, T
  <2> QED  BY <1>31
<1>4. n + 1 \in 0 .. Len(b) /\ (\A i \in 1 .. n + 1 : b[i].sn = (k.rcv_nxt + i - 1) % SnMod) => q + n + 1 > RcvWnd
  <2> SUFFICES ASSUME n + 1 \in 0 .. Len(b), \A i \in 1 .. n + 1 : b[i].sn = (k.rcv_nxt + i - 1) % SnMod
               PROVE  q + n + 1 > RcvWnd
    OBVIOUS
  <2>1. n + 1 \notin T
    <3> HIDE DEF T
    <3> QED  BY <1>2, <1>3
  <2>2. ~(q + (n + 1) <= RcvWnd)
    BY <2>1
  <2> QED  BY <1>32, <2>2
<1> DEFINE moved == SubSeq(b, 1, n)
           rest == SubSeq(b, n + 1, Len(b))
           nxt == (k.rcv_nxt + n) % SnMod
<1>5. h = [k EXCEPT !.rcv_queue = @ \o moved, !.rcv_buf = rest, !.rcv_nxt = nxt]
  BY DEF MoveAvailable, Blocks, n
<1> HIDE DEF T
<1>6. moved \in Seq(RecvSegs) /\ Len(moved) = n /\ \A i \in 1 .. n : moved[i] = b[i]
  BY <1>1, <1>3, PrefixFacts
<1>7. rest \in Seq(RecvSegs) /\ Len(rest) = Len(b) - n /\ \A i \in 1 .. Len(b) - n : rest[i] = b[n + i]
  BY <1>1, <1>3, SuffixFacts
<1>8. nxt \in Sns /\ Pos(nxt) = x + n
  <2>1. x + n < SnMod
    BY <1>1, <1>3, KcpSizes
  <2> QED  BY <1>1, <1>3, <2>1, Advance
<1> HIDE DEF moved, rest, nxt
<1> DEFINE w == k.rcv_queue \o moved
<1>9. moved \in Seq(RecvSegs)
  BY <1>6
<1>10. /\ w \in Seq(RecvSegs) /\ Len(w) = q + Len(moved) /\ (\A i \in 1 .. q : w[i] = k.rcv_queue[i])
       /\ \A i \in 1 .. Len(moved) : w[q + i] = moved[i]
  BY <1>1, <1>9, ConcatFacts
<1>11. h = [k EXCEPT !.rcv_queue = w, !.rcv_buf = rest, !.rcv_nxt = nxt]
  BY <1>5
<1> HIDE DEF w
<1>12. h \in Blocks /\ h.rcv_queue = w /\ h.rcv_buf = rest /\ h.rcv_nxt = nxt
  BY <1>7, <1>8, <1>10, <1>11 DEF Blocks
<1>13. /\ h.snd_nxt = k.snd_nxt /\ h.snd_una = k.snd_una /\ h.snd_queue = k.snd_queue /\ h.snd_buf = k.snd_buf
       /\ h.acklist = k.acklist
  BY <1>11 DEF Blocks
<1>14. Len(w) = q + n /\ Len(w) <= RcvWnd
  BY <1>1, <1>3, <1>6, <1>10
<1>15. \A i \in 1 .. n : Pos(b[i].sn) = x + i - 1
  <2> SUFFICES ASSUME NEW i \in 1 .. n PROVE Pos(b[i].sn) = x + i - 1
    OBVIOUS
  <2>1. i - 1 \in Nat /\ x + (i - 1) < SnMod
    BY <1>1, <1>3, KcpSizes
  <2>2. Pos((k.rcv_nxt + (i - 1)) % SnMod) = x + (i - 1)
    BY <1>1, <2>1, Advance
  <2>3. k.rcv_nxt + i - 1 = k.rcv_nxt + (i - 1) /\ x + i - 1 = x + (i - 1)
    BY <1>1, <1>3
  <2> QED  BY <1>3, <2>2, <2>3
<1>16. \A i \in 1 .. Len(b) : Pos(b[i].sn) \in Nat /\ Pos(b[i].sn) >= x /\ Pos(b[i].sn) < x + RcvWnd /\ b[i].sn \in Sns
  BY <1>1, HeldFacts
<1>17. \A i, g \in 1 .. Len(b) : i < g => Pos(b[i].sn) < Pos(b[g].sn)
  BY DEF Holding
<1>18. \A i \in n + 1 .. Len(b) : Pos(b[i].sn) >= x + n
  <2> SUFFICES ASSUME NEW i \in n + 1 .. Len(b) PROVE Pos(b[i].sn) >= x + n
    OBVIOUS
  <2>1. i \in 1 .. Len(b) /\ n < i
    BY <1>1, <1>3
  <2>2. CASE n = 0
    BY <1>1, <1>16, <2>1, <2>2
  <2>3. CASE n # 0
    <3>1. n \in 1 .. n /\ n \in 1 .. Len(b)
      BY <1>1, <1>3, <2>3
    <3>2. Pos(b[n].sn) = x + n - 1 /\ Pos(b[n].sn) < Pos(b[i].sn)
      BY <1>15, <1>17, <2>1, <3>1
    <3> QED  BY <1>1, <1>3, <1>16, <2>1, <3>2
  <2> QED  BY <2>2, <2>3
<1>19. \A i \in 1 .. Len(rest) : n + i \in n + 1 .. Len(b) /\ n + i \in 1 .. Len(b) /\ rest[i] = b[n + i]
  BY <1>1, <1>3, <1>7
<1>20. off[Len(rs)] + q = x /\ off[Len(rs)] \in Nat
  BY HeldFacts
<1>21. \A i \in 1 .. Len(w) : At(off, ms, w[i], off[Len(rs)] + i - 1)
  <2> SUFFICES ASSUME NEW i \in 1 .. Len(w) PROVE At(off, ms, w[i], off[Len(rs)] + i - 1)
    OBVIOUS
  <2>1. CASE i <= q
    <3>1. i \in 1 .. q
      BY <1>1, <2>1
    <3>2. At(off, ms, k.rcv_queue[i], off[Len(rs)] + i - 1)
      BY <3>1 DEF Holding
    <3> QED  BY <1>10, <3>1, <3>2
  <2>2. CASE i > q
    <3> DEFINE g == i - q
    <3>1. g \in 1 .. n /\ q + g = i /\ g \in 1 .. Len(moved) /\ g \in 1 .. Len(b)
      BY <1>1, <1>3, <1>6, <1>14, <2>2
    <3>2. off[Len(rs)] + i - 1 = x + g - 1
      BY <1>1, <1>20, <3>1
    <3> HIDE DEF g
    <3>3. w[i] = b[g]
      BY <1>6, <1>10, <3>1
    <3>4. At(off, ms, b[g], Pos(b[g].sn)) /\ Pos(b[g].sn) = x + g - 1
      BY <1>15, <3>1 DEF Holding
    <3> QED  BY <3>2, <3>3, <3>4
  <2> QED  BY <1>1, <2>1, <2>2
<1>22. \A i \in 1 .. Len(rest) : Pos(rest[i].sn) \in (x + n) .. (x + n) + RcvWnd - 1 /\ At(off, ms, rest[i], Pos(rest[i].sn))
  <2> SUFFICES ASSUME NEW i \in 1 .. Len(rest)
               PROVE  Pos(rest[i].sn) \in (x + n) .. (x + n) + RcvWnd - 1 /\ At(off, ms, rest[i], Pos(rest[i].sn))
    OBVIOUS
  <2>1. rest[i] = b[n + i] /\ n + i \in 1 .. Len(b) /\ n + i \in n + 1 .. Len(b)
    BY <1>19
  <2>2. At(off, ms, b[n + i], Pos(b[n + i].sn))
    BY <2>1 DEF Holding
  <2>3. Pos(b[n + i].sn) \in Nat /\ Pos(b[n + i].sn) >= x + n /\ Pos(b[n + i].sn) < x + RcvWnd
    BY <1>16, <1>18, <2>1
  <2> QED  BY <1>1, <1>3, <2>1, <2>2, <2>3, KcpSizes
<1>23. \A i, g \in 1 .. Len(rest) : i < g => Pos(rest[i].sn) < Pos(rest[g].sn)
  <2> SUFFICES ASSUME NEW i \in 1 .. Len(rest), NEW g \in 1 .. Len(rest), i < g PROVE Pos(rest[i].sn) < Pos(rest[g].sn)
    OBVIOUS
  <2>1. n + i < n + g
    BY <1>3
  <2> QED  BY <1>17, <1>19, <2>1
<1>24. Holding(h, off, ms, rs)
  <2>1. Len(rs) <= Len(ms) /\ \A m \in 1 .. Len(rs) : rs[m] = ms[m]
    BY DEF Holding
  <2>2. off[Len(rs)] + Len(w) = x + n
    BY <1>1, <1>3, <1>14, <1>20
  <2> QED  BY <1>8, <1>12, <1>14, <1>21, <1>22, <1>23, <2>1, <2>2 DEF Holding
<1>25. ASSUME NEW i \in 1 .. Len(rest), rest[i].sn = nxt PROVE Len(w) = RcvWnd
  <2>1. Pos(b[n + i].sn) = x + n /\ n + i \in 1 .. Len(b)
    BY <1>8, <1>19, <1>25
  <2>2. i = 1
    <3> SUFFICES ASSUME i # 1 PROVE FALSE
      OBVIOUS
    <3>1. n + 1 \in n + 1 .. Len(b) /\ n + 1 \in 1 .. Len(b) /\ n + 1 < n + i
      BY <1>1, <1>3, <1>7, <2>1
    <3>2. Pos(b[n + 1].sn) < Pos(b[n + i].sn) /\ Pos(b[n + 1].sn) >= x + n /\ Pos(b[n + 1].sn) \in Nat
      BY <1>16, <1>17, <1>18, <2>1, <3>1
    <3> QED  BY <1>1, <1>3, <2>1, <3>2
  <2>3. b[n + 1].sn = nxt /\ n + 1 \in 0 .. Len(b)
    BY <1>3, <1>19, <1>25, <2>1, <2>2
  <2>4. \A g \in 1 .. n + 1 : b[g].sn = (k.rcv_nxt + g - 1) % SnMod
    <3> SUFFICES ASSUME NEW g \in 1 .. n + 1 PROVE b[g].sn = (k.rcv_nxt + g - 1) % SnMod
      OBVIOUS
    <3>1. CASE g = n + 1
      <4>1. k.rcv_nxt + g - 1 = k.rcv_nxt + n
        BY <1>1, <1>3, <3>1
      <4> QED  BY <2>3, <3>1, <4>1 DEF nxt
    <3>2. CASE g # n + 1
      <4>1. g \in 1 .. n
        BY <1>3, <3>2
      <4> QED  BY <1>3, <4>1
    <3> QED  BY <3>1, <3>2
  <2>5. q + n + 1 > RcvWnd
    BY <1>4, <2>3, <2>4
  <2> QED  BY <1>1, <1>3, <1>14, <2>5, KcpSizes
<1>26. Receiving(h, off, ms, rs)
  BY <1>12, <1>24, <1>25 DEF Receiving
<1>27. ASSUME NEW p \in Nat PROVE Has(h, p) <=> Has(k, p)
  <2>1. ASSUME p < x + n PROVE Has(k, p)
    <3>1. CASE p < x
      BY <3>1 DEF Has
    <3>2. CASE p >= x
      <4> DEFINE g == p - x + 1
      <4>1. g \in 1 .. n /\ g \in 1 .. Len(b) /\ x + g - 1 = p
        BY <1>1, <1>3, <2>1, <3>2
      <4> HIDE DEF g
      <4>2. Pos(b[g].sn) = p
        BY <1>15, <4>1
      <4> QED  BY <4>1, <4>2 DEF Has, InBuf
    <3> QED  BY <1>1, <3>1, <3>2
  <2>2. ASSUME NEW i \in 1 .. Len(rest), Pos(rest[i].sn) = p PROVE Has(k, p)
    BY <1>19, <2>2 DEF Has, InBuf
  <2>3. ASSUME p < x PROVE Has(h, p)
    <3>1. p < x + n
      BY <1>1, <1>3, <2>3
    <3> QED  BY <1>8, <1>12, <3>1 DEF Has
  <2>4. ASSUME NEW i \in 1 .. Len(b), Pos(b[i].sn) = p PROVE Has(h, p)
    <3>1. CASE i <= n
      <4>1. i \in 1 .. n
        BY <1>3, <3>1
      <4>2. p = x + i - 1 /\ p < x + n
        BY <1>1, <1>3, <1>15, <2>4, <4>1
      <4> QED  BY <1>8, <1>12, <4>2 DEF Has
    <3>2. CASE i > n
      <4>1. i - n \in 1 .. Len(rest) /\ n + (i - n) = i
        BY <1>1, <1>3, <1>7, <3>2
      <4>2. Pos(rest[i - n].sn) = p
        BY <1>19, <2>4, <4>1
      <4> QED  BY <1>12, <4>1, <4>2 DEF Has, InBuf
    <3> QED  BY <1>3, <3>1, <3>2
  <2> QED  BY <1>8, <1>12, <2>1, <2>2, <2>3, <2>4 DEF Has, InBuf
<1>28. Pos(h.rcv_nxt) = x \/ \E g \in 1 .. Len(b) : Pos(h.rcv_nxt) = Pos(b[g].sn) + 1
  <2>1. CASE n = 0
    BY <1>1, <1>8, <1>12, <2>1
  <2>2. CASE n # 0
    <3>1. n \in 1 .. n /\ n \in 1 .. Len(b)
      BY <1>1, <1>3, <2>2
    <3>2. Pos(b[n].sn) = x + n - 1
      BY <1>15, <3>1
    <3>3. Pos(b[n].sn) + 1 = x + n
      BY <1>1, <1>3, <3>2
    <3> QED  BY <1>8, <1>12, <3>1, <3>3
  <2> QED  BY <2>1, <2>2
<1>29. \A i \in 1 .. Len(h.rcv_buf) : \E g \in 1 .. Len(b) : h.rcv_buf[i].sn = b[g].sn
  BY <1>12, <1>19
<1>30. x <= Pos(h.rcv_nxt)
  BY <1>1, <1>3, <1>8, <1>12
<1> QED  BY <1>12, <1>13, <1>26, <1>27, <1>28, <1>29, <1>30

\* What moves to the queue was sent.
LEMMA MovedBetween ==
    ASSUME NEW off, NEW ms, Fits(off, ms), NEW k \in Blocks, NEW rs \in Seq(Seq(Frags)), Holding(k, off, ms, rs),
           NEW j \in Blocks, Between(j, k)
    PROVE  Between(j, MoveAvailable(k))
<1> DEFINE h == MoveAvailable(k)
           n == Pos(j.snd_nxt)
<1>1. n \in Nat /\ Pos(k.rcv_nxt) \in Nat
  BY BlockFacts, SnFacts
<1>2. Pos(k.rcv_nxt) <= n /\ \A i \in 1 .. Len(k.rcv_buf) : Pos(k.rcv_buf[i].sn) < n
  BY DEF Between
<1>3. \A i \in 1 .. Len(k.rcv_buf) : Pos(k.rcv_buf[i].sn) \in Nat
  BY HeldFacts
<1>4. \A i \in 1 .. Len(h.rcv_buf) : \E g \in 1 .. Len(k.rcv_buf) : h.rcv_buf[i].sn = k.rcv_buf[g].sn
  BY Moved
<1>5. Pos(h.rcv_nxt) = Pos(k.rcv_nxt) \/ \E g \in 1 .. Len(k.rcv_buf) : Pos(h.rcv_nxt) = Pos(k.rcv_buf[g].sn) + 1
  BY Moved
<1>6. \A p \in Nat : Has(h, p) <=> Has(k, p)
  BY Moved
<1> HIDE DEF h
<1>7. Pos(h.rcv_nxt) <= n
  BY <1>1, <1>2, <1>3, <1>5
<1>8. \A i \in 1 .. Len(h.rcv_buf) : Pos(h.rcv_buf[i].sn) < n
  BY <1>2, <1>4
<1>9. \A p \in 0 .. n - 1 : Has(h, p) \/ InBuf(j.snd_buf, p)
  <2> SUFFICES ASSUME NEW p \in 0 .. n - 1 PROVE Has(h, p) \/ InBuf(j.snd_buf, p)
    OBVIOUS
  <2>1. p \in Nat
    BY <1>1
  <2>2. Has(k, p) \/ InBuf(j.snd_buf, p)
    BY DEF Between
  <2> QED  BY <1>6, <2>1, <2>2
<1> QED  BY <1>7, <1>8, <1>9 DEF Between, h

\* A data segment that the peer sent.
LEMMA DataHeard ==
    ASSUME NEW off, NEW ms, Fits(off, ms), NEW k \in Blocks, NEW rs \in Seq(Seq(Frags)), Receiving(k, off, ms, rs),
           NEW j \in Blocks, Sending(j, off, ms), Between(j, k),
           NEW seg \in RecvSegs, Pos(seg.sn) < Pos(j.snd_nxt), At(off, ms, seg, Pos(seg.sn)),
           NEW h, h = ikcp_parse_data(k, seg)
    PROVE  /\ h \in Blocks /\ Receiving(h, off, ms, rs) /\ Between(j, h) /\ Pos(k.rcv_nxt) <= Pos(h.rcv_nxt)
           /\ \A p \in Nat : Has(k, p) => Has(h, p)
           /\ itimediff(seg.sn, k.rcv_nxt + RcvWnd) < 0 => Has(h, Pos(seg.sn))
           /\ h.snd_nxt = k.snd_nxt /\ h.snd_una = k.snd_una /\ h.snd_queue = k.snd_queue /\ h.snd_buf = k.snd_buf
           /\ h.acklist = k.acklist
<1> DEFINE x == Pos(k.rcv_nxt)
           p == Pos(seg.sn)
           b == k.rcv_buf
<1>0. Holding(k, off, ms, rs)
  BY DEF Receiving
<1>1. /\ x \in Nat /\ x + RcvWnd <= Half /\ b \in Seq(RecvSegs) /\ Len(b) \in Nat /\ k.rcv_nxt \in Sns /\ k.rcv_nxt \in Int
      /\ seg.sn \in Sns /\ seg.sn \in Int /\ p \in Nat /\ p < Half
  <2>1. seg.sn \in Sns
    BY DEF RecvSegs
  <2> QED  BY <1>0, <2>1, HeldFacts, BlockFacts, SnFacts, PlaceFacts
<1>2. itimediff(seg.sn, k.rcv_nxt + RcvWnd) = p - x - RcvWnd
  <2>1. -Half <= p + 0 - x - RcvWnd /\ p + 0 - x - RcvWnd < Half /\ RcvWnd \in Int /\ 0 \in Int
    BY <1>1, KcpSizes
  <2>2. itimediff(seg.sn + 0, k.rcv_nxt + RcvWnd) = p + 0 - x - RcvWnd
    BY <1>1, <2>1, ComparePlaces
  <2> QED  BY <1>1, <2>2, KcpSizes
<1>3. itimediff(seg.sn, k.rcv_nxt) = p - x
  <2>1. x < Half
    BY <1>1, KcpSizes
  <2> QED  BY <1>1, <2>1, Compare
<1>4. CASE p >= x + RcvWnd \/ p < x
  <2>1. itimediff(seg.sn, k.rcv_nxt + RcvWnd) >= 0 \/ itimediff(seg.sn, k.rcv_nxt) < 0
    BY <1>1, <1>2, <1>3, <1>4, KcpSizes
  <2>2. h = k
    BY <2>1 DEF ikcp_parse_data
  <2>3. itimediff(seg.sn, k.rcv_nxt + RcvWnd) < 0 => p < x
    BY <1>1, <1>2, <1>4, KcpSizes
  <2> QED  BY <1>1, <2>2, <2>3 DEF Has
<1>5. CASE p < x + RcvWnd /\ p >= x
  <2> DEFINE A == {0} \cup {i \in DOMAIN b : itimediff(seg.sn, b[i].sn) >= 0}
             at == Max(A)
             m == IF at > 0 /\ b[at].sn = seg.sn THEN k ELSE [k EXCEPT !.rcv_buf = InsertAt(b, at + 1, seg)]
  <2>1. ~(itimediff(seg.sn, k.rcv_nxt + RcvWnd) >= 0 \/ itimediff(seg.sn, k.rcv_nxt) < 0)
    BY <1>1, <1>2, <1>3, <1>5, KcpSizes
  <2>2. h = MoveAvailable(m)
    BY <2>1 DEF ikcp_parse_data, Blocks
  <2>3. \A i \in 1 .. Len(b) : /\ itimediff(seg.sn, b[i].sn) = p - Pos(b[i].sn)
                               /\ Pos(b[i].sn) \in Nat /\ Pos(b[i].sn) >= x /\ Pos(b[i].sn) < x + RcvWnd /\ b[i].sn \in Sns
    <3> SUFFICES ASSUME NEW i \in 1 .. Len(b)
                 PROVE  /\ itimediff(seg.sn, b[i].sn) = p - Pos(b[i].sn)
                        /\ Pos(b[i].sn) \in Nat /\ Pos(b[i].sn) >= x /\ Pos(b[i].sn) < x + RcvWnd /\ b[i].sn \in Sns
      OBVIOUS
    <3>1. b[i].sn \in Sns /\ Pos(b[i].sn) \in Nat /\ x <= Pos(b[i].sn) /\ Pos(b[i].sn) < x + RcvWnd /\ Pos(b[i].sn) < Half
      BY <1>0, HeldFacts
    <3>2. itimediff(seg.sn, b[i].sn) = p - Pos(b[i].sn)
      BY <1>1, <3>1, SnFacts, Compare
    <3> QED  BY <1>1, <3>1, <3>2
  <2>4. at \in A /\ \A y \in A : y <= at
    <3>1. DOMAIN b = 1 .. Len(b)
      BY <1>1
    <3>2. A \subseteq Int /\ A # {} /\ Len(b) \in Int /\ \A y \in A : y <= Len(b)
      BY <1>1, <3>1
    <3> HIDE DEF A
    <3> QED  BY <3>2, MaxOf
  <2> HIDE DEF at
  <2>5. /\ at \in 0 .. Len(b) /\ (at > 0 => Pos(b[at].sn) <= p)
        /\ \A i \in at + 1 .. Len(b) : p < Pos(b[i].sn)
    <3>1. DOMAIN b = 1 .. Len(b)
      BY <1>1
    <3>2. at \in 0 .. Len(b)
      BY <1>1, <2>4, <3>1
    <3>3. ASSUME at > 0 PROVE Pos(b[at].sn) <= p
      <4>1. at \in 1 .. Len(b) /\ itimediff(seg.sn, b[at].sn) >= 0
        BY <2>4, <3>1, <3>2, <3>3
      <4>2. p - Pos(b[at].sn) >= 0 /\ Pos(b[at].sn) \in Nat
        BY <2>3, <4>1
      <4> QED  BY <1>1, <4>2
    <3>4. ASSUME NEW i \in at + 1 .. Len(b) PROVE p < Pos(b[i].sn)
      <4>1. i \in 1 .. Len(b) /\ ~(i <= at)
        BY <1>1, <3>2
      <4>2. i \notin A
        BY <2>4, <4>1
      <4>3. ~(itimediff(seg.sn, b[i].sn) >= 0)
        BY <3>1, <4>1, <4>2
      <4>4. itimediff(seg.sn, b[i].sn) = p - Pos(b[i].sn) /\ Pos(b[i].sn) \in Nat
        BY <2>3, <4>1
      <4>5. ~(p - Pos(b[i].sn) >= 0)
        BY <4>3, <4>4
      <4> QED  BY <1>1, <4>4, <4>5
    <3> QED  BY <3>2, <3>3, <3>4
  <2> HIDE DEF A
  <2>6. /\ m \in Blocks /\ Holding(m, off, ms, rs) /\ Between(j, m) /\ InBuf(m.rcv_buf, p) /\ m.rcv_nxt = k.rcv_nxt
        /\ \A y \in Nat : Has(k, y) => Has(m, y)
        /\ m.snd_nxt = k.snd_nxt /\ m.snd_una = k.snd_una /\ m.snd_queue = k.snd_queue /\ m.snd_buf = k.snd_buf
        /\ m.acklist = k.acklist
    <3>1. CASE at > 0 /\ b[at].sn = seg.sn
      <4>1. m = k
        BY <3>1
      <4>2. at \in 1 .. Len(b) /\ Pos(b[at].sn) = p
        BY <1>1, <2>5, <3>1
      <4>3. InBuf(b, p)
        BY <4>2 DEF InBuf
      <4> QED  BY <1>0, <4>1, <4>3
    <3>2. CASE ~(at > 0 /\ b[at].sn = seg.sn)
      <4> DEFINE t == at + 1
                 c == InsertAt(b, t, seg)
      <4>1. m = [k EXCEPT !.rcv_buf = c]
        BY <3>2
      <4>2. t \in 1 .. Len(b) + 1 /\ t \in Nat /\ at \in Nat
        BY <1>1, <2>5
      <4> HIDE DEF t
      <4>3. /\ c \in Seq(RecvSegs) /\ Len(c) = Len(b) + 1 /\ c[t] = seg
            /\ \A i \in 1 .. t - 1 : c[i] = b[i]
            /\ \A i \in t + 1 .. Len(b) + 1 : c[i] = b[i - 1]
        <5>1. b \in Seq(RecvSegs) /\ t \in 1 .. Len(b) + 1
          BY <1>1, <4>2
        <5>2. seg \in RecvSegs
          OBVIOUS
        <5> HIDE DEF b
        <5>3. c \in Seq(RecvSegs) /\ Len(c) = Len(b) + 1 /\ c[t] = seg
          BY <5>1, <5>2, InsertFacts
        <5>4. (\A i \in 1 .. t - 1 : c[i] = b[i]) /\ \A i \in t + 1 .. Len(b) + 1 : c[i] = b[i - 1]
          BY <5>1, <5>2, InsertFacts
        <5> QED  BY <5>3, <5>4
      <4> HIDE DEF c
      <4>4. (\A i \in 1 .. at : c[i] = b[i]) /\ (\A i \in at + 2 .. Len(b) + 1 : c[i] = b[i - 1]) /\ c[at + 1] = seg
        <5>1. \A i \in 1 .. at : i \in 1 .. t - 1
          BY <4>2 DEF t
        <5>2. \A i \in at + 2 .. Len(b) + 1 : i \in t + 1 .. Len(b) + 1
          BY <1>1, <4>2 DEF t
        <5>3. at + 1 = t
          BY DEF t
        <5> QED  BY <4>3, <5>1, <5>2, <5>3
      <4>5. m \in Blocks /\ m.rcv_buf = c
        BY <4>1, <4>3 DEF Blocks
      <4>6. /\ m.snd_nxt = k.snd_nxt /\ m.snd_una = k.snd_una /\ m.snd_queue = k.snd_queue /\ m.snd_buf = k.snd_buf
            /\ m.acklist = k.acklist /\ m.rcv_nxt = k.rcv_nxt /\ m.rcv_queue = k.rcv_queue
        BY <4>1 DEF Blocks
      <4>7. \A i, g \in 1 .. Len(b) : i < g => Pos(b[i].sn) < Pos(b[g].sn)
        BY <1>0 DEF Holding
      <4>8. \A i \in 1 .. at : Pos(b[i].sn) < p
        <5> SUFFICES ASSUME NEW i \in 1 .. at PROVE Pos(b[i].sn) < p
          OBVIOUS
        <5>1. i \in 1 .. Len(b) /\ at \in 1 .. Len(b) /\ at > 0
          BY <1>1, <2>5, <4>2
        <5>2. Pos(b[at].sn) # p
          BY <1>1, <2>3, <3>2, <5>1, SamePos
        <5>3. Pos(b[at].sn) < p /\ Pos(b[at].sn) \in Nat /\ Pos(b[i].sn) \in Nat
          BY <1>1, <2>3, <2>5, <5>1, <5>2
        <5>4. i = at \/ Pos(b[i].sn) < Pos(b[at].sn)
          BY <4>2, <4>7, <5>1
        <5> QED  BY <1>1, <5>3, <5>4
      <4>9. \A i \in 1 .. Len(c) : \/ i \in 1 .. at /\ i \in 1 .. Len(b) /\ c[i] = b[i]
                                   \/ i = at + 1 /\ c[i] = seg
                                   \/ i \in at + 2 .. Len(c) /\ i - 1 \in at + 1 .. Len(b) /\ i - 1 \in 1 .. Len(b) /\ c[i] = b[i - 1]
        <5> SUFFICES ASSUME NEW i \in 1 .. Len(c)
                     PROVE  \/ i \in 1 .. at /\ i \in 1 .. Len(b) /\ c[i] = b[i]
                            \/ i = at + 1 /\ c[i] = seg
                            \/ i \in at + 2 .. Len(c) /\ i - 1 \in at + 1 .. Len(b) /\ i - 1 \in 1 .. Len(b) /\ c[i] = b[i - 1]
          OBVIOUS
        <5>1. Len(c) = Len(b) + 1 /\ c[at + 1] = seg
          BY <4>3, <4>4
        <5>2. at \in Nat /\ at <= Len(b)
          BY <2>5, <4>2
        <5>3. CASE i <= at
          BY <1>1, <4>4, <5>1, <5>2, <5>3
        <5>4. CASE i = at + 1
          BY <5>1, <5>4
        <5>5. CASE i > at + 1
          <6>1. i \in at + 2 .. Len(b) + 1 /\ i - 1 \in at + 1 .. Len(b) /\ i - 1 \in 1 .. Len(b)
            BY <1>1, <5>1, <5>2, <5>5
          <6> QED  BY <4>4, <5>1, <6>1
        <5> QED  BY <5>2, <5>3, <5>4, <5>5
      <4>10. \A i \in 1 .. Len(c) : /\ Pos(c[i].sn) \in x .. x + RcvWnd - 1 /\ At(off, ms, c[i], Pos(c[i].sn))
                                    /\ Pos(c[i].sn) < Pos(j.snd_nxt)
        <5> SUFFICES ASSUME NEW i \in 1 .. Len(c)
                     PROVE  /\ Pos(c[i].sn) \in x .. x + RcvWnd - 1 /\ At(off, ms, c[i], Pos(c[i].sn))
                            /\ Pos(c[i].sn) < Pos(j.snd_nxt)
          OBVIOUS
        <5>1. \A g \in 1 .. Len(b) : Pos(b[g].sn) \in x .. x + RcvWnd - 1 /\ At(off, ms, b[g], Pos(b[g].sn)) /\ Pos(b[g].sn) < Pos(j.snd_nxt)
          BY <1>0 DEF Holding, Between
        <5>2. p \in x .. x + RcvWnd - 1
          BY <1>1, <1>5, KcpSizes
        <5> QED  BY <4>9, <5>1, <5>2
      <4>11. \A i, g \in 1 .. Len(c) : i < g => Pos(c[i].sn) < Pos(c[g].sn)
        <5> SUFFICES ASSUME NEW i \in 1 .. Len(c), NEW g \in 1 .. Len(c), i < g PROVE Pos(c[i].sn) < Pos(c[g].sn)
          OBVIOUS
        <5>1. CASE i \in 1 .. at /\ i \in 1 .. Len(b) /\ c[i] = b[i]
          <6>1. CASE g \in 1 .. at /\ g \in 1 .. Len(b) /\ c[g] = b[g]
            BY <4>7, <5>1, <6>1
          <6>2. CASE g = at + 1 /\ c[g] = seg
            BY <4>8, <5>1, <6>2
          <6>3. CASE g \in at + 2 .. Len(c) /\ g - 1 \in at + 1 .. Len(b) /\ g - 1 \in 1 .. Len(b) /\ c[g] = b[g - 1]
            <7>1. i < g - 1
              BY <4>2, <5>1, <6>3
            <7> QED  BY <4>7, <5>1, <6>3, <7>1
          <6> QED  BY <4>9, <6>1, <6>2, <6>3
        <5>2. CASE i = at + 1 /\ c[i] = seg
          <6>1. g \in at + 2 .. Len(c) /\ g - 1 \in at + 1 .. Len(b) /\ c[g] = b[g - 1]
            BY <4>2, <4>9, <5>2
          <6> QED  BY <2>5, <5>2, <6>1
        <5>3. CASE i \in at + 2 .. Len(c) /\ i - 1 \in at + 1 .. Len(b) /\ i - 1 \in 1 .. Len(b) /\ c[i] = b[i - 1]
          <6>1. g \in at + 2 .. Len(c) /\ g - 1 \in 1 .. Len(b) /\ c[g] = b[g - 1]
            BY <4>2, <4>9, <5>3
          <6>2. i - 1 < g - 1
            OBVIOUS
          <6> QED  BY <4>7, <5>3, <6>1, <6>2
        <5> QED  BY <4>9, <5>1, <5>2, <5>3
      <4>12. Holding(m, off, ms, rs)
        BY <1>0, <4>5, <4>6, <4>10, <4>11 DEF Holding
      <4>13. InBuf(c, p)
        <5>1. at + 1 \in 1 .. Len(c)
          BY <2>5, <4>2, <4>3
        <5> QED  BY <4>4, <5>1 DEF InBuf
      <4>14. ASSUME NEW y \in Nat, Has(k, y) PROVE Has(m, y)
        <5>1. CASE y < x
          BY <4>6, <5>1 DEF Has
        <5>2. CASE InBuf(b, y)
          <6>1. PICK i \in 1 .. Len(b) : Pos(b[i].sn) = y
            BY <5>2 DEF InBuf
          <6>2. CASE i <= at
            <7>1. i \in 1 .. at /\ i \in 1 .. Len(c)
              BY <1>1, <4>2, <4>3, <6>2
            <7>2. Pos(c[i].sn) = y
              BY <4>4, <6>1, <7>1
            <7> QED  BY <4>5, <7>1, <7>2 DEF Has, InBuf
          <6>3. CASE i > at
            <7>1. i + 1 \in at + 2 .. Len(b) + 1 /\ i + 1 \in 1 .. Len(c) /\ (i + 1) - 1 = i
              BY <1>1, <4>2, <4>3, <6>3
            <7>2. Pos(c[i + 1].sn) = y
              BY <4>4, <6>1, <7>1
            <7> QED  BY <4>5, <7>1, <7>2 DEF Has, InBuf
          <6> QED  BY <4>2, <6>2, <6>3
        <5> QED  BY <4>14, <5>1, <5>2 DEF Has
      <4>15. Between(j, m)
        <5>1. Pos(j.snd_nxt) \in Nat
          BY BlockFacts, SnFacts
        <5>2. \A y \in 0 .. Pos(j.snd_nxt) - 1 : Has(m, y) \/ InBuf(j.snd_buf, y)
          <6> SUFFICES ASSUME NEW y \in 0 .. Pos(j.snd_nxt) - 1 PROVE Has(m, y) \/ InBuf(j.snd_buf, y)
            OBVIOUS
          <6>1. y \in Nat
            BY <5>1
          <6>2. Has(k, y) \/ InBuf(j.snd_buf, y)
            BY DEF Between
          <6> QED  BY <4>14, <6>1, <6>2
        <5>3. Pos(k.rcv_nxt) <= Pos(j.snd_nxt)
          BY DEF Between
        <5> QED  BY <4>5, <4>6, <4>10, <5>2, <5>3 DEF Between
      <4> QED  BY <4>5, <4>6, <4>12, <4>13, <4>14, <4>15
    <3> QED  BY <3>1, <3>2
  <2> HIDE DEF m
  <2>7. Between(j, h)
    BY <2>2, <2>6, MovedBetween
  <2>8. /\ h \in Blocks /\ Receiving(h, off, ms, rs) /\ Pos(m.rcv_nxt) <= Pos(h.rcv_nxt)
        /\ \A y \in Nat : Has(h, y) <=> Has(m, y)
        /\ h.snd_nxt = m.snd_nxt /\ h.snd_una = m.snd_una /\ h.snd_queue = m.snd_queue /\ h.snd_buf = m.snd_buf
        /\ h.acklist = m.acklist
    BY <2>2, <2>6, Moved
  <2>9. Has(m, p)
    BY <2>6 DEF Has
  <2> QED  BY <1>1, <2>6, <2>7, <2>8, <2>9
<1> QED  BY <1>1, <1>4, <1>5, KcpSizes

----------------------------------------------------------------------------
(* A datagram *)

\* What sending, and what receiving, depend on.
LEMMA SameSend ==
    ASSUME NEW k, NEW h, h.snd_una = k.snd_una, h.snd_nxt = k.snd_nxt, h.snd_queue = k.snd_queue, h.snd_buf = k.snd_buf
    PROVE  /\ \A off, ms : Sending(k, off, ms) => Sending(h, off, ms)
           /\ \A j : Between(k, j) => Between(h, j)
  BY DEF Sending, Between

\* ... and the same for what has been received.
LEMMA SameReceive ==
    ASSUME NEW k, NEW h, h.rcv_nxt = k.rcv_nxt, h.rcv_queue = k.rcv_queue, h.rcv_buf = k.rcv_buf
    PROVE  /\ \A off, ms, rs : Receiving(k, off, ms, rs) => Receiving(h, off, ms, rs)
           /\ \A j : Between(j, k) => Between(j, h)
           /\ \A p : Has(k, p) <=> Has(h, p)
<1>1. \A p : Has(k, p) <=> Has(h, p)
  BY DEF Has
<1>2. \A j : Between(j, k) => Between(j, h)
  BY <1>1 DEF Between
<1>3. \A off, ms, rs : Receiving(k, off, ms, rs) => Receiving(h, off, ms, rs)
  BY DEF Receiving, Holding
<1> QED  BY <1>1, <1>2, <1>3

\* k, whose messages are ms, faces j, whose messages are msj, and has read rs.
Linked(k, j, off, ms, offj, msj, rs) ==
    /\ k \in Blocks /\ Sending(k, off, ms) /\ Receiving(k, offj, msj, rs)
    /\ Between(k, j) /\ Between(j, k)
    /\ \A i \in 1 .. Len(k.acklist) : Has(k, Pos(k.acklist[i]))

\* From k to h more is received, and no more sent.
Grown(k, h) ==
    h.snd_nxt = k.snd_nxt /\ Pos(k.rcv_nxt) <= Pos(h.rcv_nxt) /\ \A p \in Nat : Has(k, p) => Has(h, p)

\* Nothing that places are about changes.
LEMMA LinkedStays ==
    ASSUME NEW k, NEW h \in Blocks, NEW j, NEW off, NEW ms, NEW offj, NEW msj, NEW rs, Linked(k, j, off, ms, offj, msj, rs),
           Core(h) = Core(k), h.acklist = k.acklist
    PROVE  Linked(h, j, off, ms, offj, msj, rs) /\ Grown(k, h)
<1>1. /\ h.snd_una = k.snd_una /\ h.snd_nxt = k.snd_nxt /\ h.snd_queue = k.snd_queue /\ h.snd_buf = k.snd_buf
      /\ h.rcv_nxt = k.rcv_nxt /\ h.rcv_queue = k.rcv_queue /\ h.rcv_buf = k.rcv_buf
  BY SameCore
<1>2. Sending(h, off, ms) /\ Between(h, j)
  BY <1>1, SameSend DEF Linked
<1>3. Receiving(h, offj, msj, rs) /\ Between(j, h) /\ \A p : Has(k, p) <=> Has(h, p)
  BY <1>1, SameReceive DEF Linked
<1>4. Pos(k.rcv_nxt) \in Nat
  BY BlockFacts, SnFacts DEF Linked
<1> QED  BY <1>1, <1>2, <1>3, <1>4 DEF Linked, Grown

\* Growth adds up.
LEMMA GrownTwice ==
    ASSUME NEW a \in Blocks, NEW b \in Blocks, NEW c \in Blocks, Grown(a, b), Grown(b, c)
    PROVE  Grown(a, c)
<1>1. Pos(a.rcv_nxt) \in Nat /\ Pos(b.rcv_nxt) \in Nat /\ Pos(c.rcv_nxt) \in Nat
  BY BlockFacts, SnFacts
<1> QED  BY <1>1 DEF Grown

\* One segment.
LEMMA SegmentHeard ==
    ASSUME NEW off, NEW ms, Fits(off, ms), NEW offj, NEW msj, Fits(offj, msj), NEW j \in Blocks, Sending(j, offj, msj),
           NEW rs \in Seq(Seq(Frags)), NEW k \in Blocks, Linked(k, j, off, ms, offj, msj, rs),
           NEW s \in Truths(j, offj, msj), s # Hello, NEW h, h = input_segment(k, s)
    PROVE  h \in Blocks /\ Linked(h, j, off, ms, offj, msj, rs) /\ Grown(k, h)
<1>1. s \in Controls \cup Pushes /\ Told(s, j, offj, msj)
  BY DEF Truths, Segments
<1>2. s.una \in Sns /\ s.sn \in Sns /\ s.wnd \in Nat /\ s.cmd \in {"ACK", "WASK", "WINS", "PUSH"}
  BY <1>1 DEF Controls, Pushes
<1>3. /\ Pos(s.una) <= Pos(j.rcv_nxt) /\ (s.cmd = "ACK" => Has(j, Pos(s.sn)))
      /\ s.cmd = "PUSH" => Pos(s.sn) < Pos(j.snd_nxt) /\ At(offj, msj, s, Pos(s.sn))
  BY <1>1 DEF Told
<1> DEFINE a == ikcp_shrink_buf(ikcp_parse_una([k EXCEPT !.rmt_wnd = s.wnd], s.una))
<1>4. Sending(k, off, ms) /\ Between(k, j) /\ Receiving(k, offj, msj, rs) /\ Between(j, k)
  BY DEF Linked
<1>5. /\ a \in Blocks /\ Sending(a, off, ms) /\ Between(a, j)
      /\ a.snd_nxt = k.snd_nxt /\ a.rcv_nxt = k.rcv_nxt /\ a.rcv_queue = k.rcv_queue
      /\ a.rcv_buf = k.rcv_buf /\ a.acklist = k.acklist
  BY <1>2, <1>3, <1>4, UnaHeard
<1>6. h = CASE s.cmd = "ACK"  -> ikcp_shrink_buf(ikcp_parse_ack(a, s.sn))
            [] s.cmd = "PUSH" -> IF itimediff(s.sn, a.rcv_nxt + RcvWnd) < 0
                                 THEN ikcp_parse_data(ikcp_ack_push(a, s.sn), [sn |-> s.sn, id |-> s.id, frg |-> s.frg])
                                 ELSE a
            [] s.cmd = "WASK" -> [a EXCEPT !.ask_tell = TRUE]
            [] s.cmd = "WINS" -> a
  BY DEF input_segment
<1> HIDE DEF a
<1>7. Receiving(a, offj, msj, rs) /\ Between(j, a) /\ \A p : Has(k, p) <=> Has(a, p)
  BY <1>4, <1>5, SameReceive
<1>8. Linked(a, j, off, ms, offj, msj, rs) /\ Grown(k, a)
  <2>1. Pos(k.rcv_nxt) \in Nat
    BY BlockFacts, SnFacts
  <2> QED  BY <1>5, <1>7, <2>1 DEF Linked, Grown
<1>9. CASE s.cmd = "ACK"
  <2>1. h = ikcp_shrink_buf(ikcp_parse_ack(a, s.sn))
    BY <1>6, <1>9
  <2>2. /\ h \in Blocks /\ Sending(h, off, ms) /\ Between(h, j)
        /\ h.snd_nxt = a.snd_nxt /\ h.rcv_nxt = a.rcv_nxt /\ h.rcv_queue = a.rcv_queue
        /\ h.rcv_buf = a.rcv_buf /\ h.acklist = a.acklist
    BY <1>2, <1>3, <1>5, <1>9, <2>1, AckHeard
  <2>3. Receiving(h, offj, msj, rs) /\ Between(j, h) /\ \A p : Has(a, p) <=> Has(h, p)
    BY <1>7, <2>2, SameReceive
  <2>4. Linked(h, j, off, ms, offj, msj, rs) /\ Grown(k, h)
    BY <1>8, <2>2, <2>3 DEF Linked, Grown
  <2> QED  BY <2>2, <2>4
<1>10. CASE s.cmd = "PUSH"
  <2>1. CASE ~(itimediff(s.sn, a.rcv_nxt + RcvWnd) < 0)
    <3>1. h = a
      BY <1>6, <1>10, <2>1
    <3> QED  BY <1>5, <1>8, <3>1
  <2>2. CASE itimediff(s.sn, a.rcv_nxt + RcvWnd) < 0
    <3> DEFINE m == ikcp_ack_push(a, s.sn)
               g == [sn |-> s.sn, id |-> s.id, frg |-> s.frg]
               l == Append(a.acklist, s.sn)
    <3>1. h = ikcp_parse_data(m, g)
      BY <1>6, <1>10, <2>2
    <3>2. s.id \in Nat /\ s.frg \in Nat
      BY <1>1, <1>10 DEF Controls, Pushes
    <3>3. g \in RecvSegs /\ g.sn = s.sn
      BY <1>2, <3>2 DEF RecvSegs
    <3>4. At(offj, msj, g, Pos(g.sn)) /\ Pos(g.sn) < Pos(j.snd_nxt)
      BY <1>3, <1>10 DEF At
    <3> HIDE DEF g
    <3>5. a.acklist \in Seq(Sns)
      BY <1>5, BlockFacts
    <3>6. l \in Seq(Sns) /\ Len(l) = Len(a.acklist) + 1 /\ Len(a.acklist) \in Nat
      BY <1>2, <3>5
    <3>7. \A i \in 1 .. Len(l) : l[i] = s.sn \/ \E y \in 1 .. Len(a.acklist) : l[i] = a.acklist[y]
      <4> SUFFICES ASSUME NEW i \in 1 .. Len(l) PROVE l[i] = s.sn \/ \E y \in 1 .. Len(a.acklist) : l[i] = a.acklist[y]
        OBVIOUS
      <4>1. CASE i = Len(a.acklist) + 1
        BY <3>5, <4>1
      <4>2. CASE i # Len(a.acklist) + 1
        <5>1. i \in 1 .. Len(a.acklist)
          BY <3>6, <4>2
        <5>2. l[i] = a.acklist[i]
          BY <3>5, <5>1
        <5> QED  BY <5>1, <5>2
      <4> QED  BY <4>1, <4>2
    <3> HIDE DEF l
    <3>8. m = [a EXCEPT !.acklist = l]
      BY DEF ikcp_ack_push, l
    <3> HIDE DEF m
    <3>9. m \in Blocks /\ m.acklist = l
      BY <1>5, <3>6, <3>8 DEF Blocks
    <3>10. /\ m.snd_una = a.snd_una /\ m.snd_nxt = a.snd_nxt /\ m.snd_queue = a.snd_queue /\ m.snd_buf = a.snd_buf
           /\ m.rcv_nxt = a.rcv_nxt /\ m.rcv_queue = a.rcv_queue /\ m.rcv_buf = a.rcv_buf
      BY <1>5, <3>8 DEF Blocks
    <3>11. Receiving(m, offj, msj, rs) /\ Between(j, m) /\ \A p : Has(a, p) <=> Has(m, p)
      BY <1>7, <3>10, SameReceive
    <3>12. /\ h \in Blocks /\ Receiving(h, offj, msj, rs) /\ Between(j, h) /\ Pos(m.rcv_nxt) <= Pos(h.rcv_nxt)
           /\ \A p \in Nat : Has(m, p) => Has(h, p)
           /\ itimediff(g.sn, m.rcv_nxt + RcvWnd) < 0 => Has(h, Pos(g.sn))
           /\ h.snd_nxt = m.snd_nxt /\ h.snd_una = m.snd_una /\ h.snd_queue = m.snd_queue /\ h.snd_buf = m.snd_buf
           /\ h.acklist = m.acklist
      BY <3>1, <3>3, <3>4, <3>9, <3>11, DataHeard
    <3>13. Has(h, Pos(s.sn))
      BY <2>2, <3>3, <3>10, <3>12
    <3>14. Sending(h, off, ms) /\ Between(h, j)
      BY <1>5, <3>10, <3>12, SameSend
    <3>15. \A i \in 1 .. Len(h.acklist) : Has(h, Pos(h.acklist[i]))
      <4> SUFFICES ASSUME NEW i \in 1 .. Len(l) PROVE Has(h, Pos(l[i]))
        BY <3>9, <3>12
      <4>1. CASE l[i] = s.sn
        BY <3>13, <4>1
      <4>2. CASE l[i] # s.sn
        <5>1. PICK y \in 1 .. Len(a.acklist) : l[i] = a.acklist[y]
          BY <3>7, <4>2
        <5>2. Has(a, Pos(a.acklist[y]))
          BY <1>8 DEF Linked
        <5>3. a.acklist[y] \in Sns
          BY <3>5
        <5>4. Pos(a.acklist[y]) \in Nat
          BY <5>3, SnFacts
        <5> QED  BY <3>11, <3>12, <5>1, <5>2, <5>4
      <4> QED  BY <4>1, <4>2
    <3>16. Linked(h, j, off, ms, offj, msj, rs)
      BY <3>12, <3>14, <3>15 DEF Linked
    <3>17. Grown(a, h)
      BY <3>10, <3>11, <3>12 DEF Grown
    <3> QED  BY <1>5, <1>8, <3>12, <3>16, <3>17, GrownTwice
  <2> QED  BY <2>1, <2>2
<1>11. CASE s.cmd = "WASK"
  <2>1. h = [a EXCEPT !.ask_tell = TRUE]
    BY <1>6, <1>11
  <2>2. h \in Blocks /\ Core(h) = Core(a) /\ h.acklist = a.acklist
    BY <1>5, <2>1 DEF Blocks, Core
  <2>3. Linked(h, j, off, ms, offj, msj, rs) /\ Grown(a, h)
    BY <1>8, <2>2, LinkedStays
  <2> QED  BY <1>5, <1>8, <2>2, <2>3, GrownTwice
<1>12. CASE s.cmd = "WINS"
  <2>1. h = a
    BY <1>6, <1>12
  <2> QED  BY <1>5, <1>8, <2>1
<1> QED  BY <1>2, <1>9, <1>10, <1>11, <1>12

\* All the segments of a datagram, and the windows they move.
LEMMA InputHeard ==
    ASSUME NEW off, NEW ms, Fits(off, ms), NEW offj, NEW msj, Fits(offj, msj), NEW j \in Blocks, Sending(j, offj, msj),
           NEW rs \in Seq(Seq(Frags)), NEW k \in Blocks, Linked(k, j, off, ms, offj, msj, rs),
           NEW segs \in Seq(Truths(j, offj, msj) \ {Hello}), NEW whole \in BOOLEAN
    PROVE  /\ ikcp_input(k, segs, whole) \in Blocks /\ Linked(ikcp_input(k, segs, whole), j, off, ms, offj, msj, rs)
           /\ Grown(k, ikcp_input(k, segs, whole))
<1> DEFINE S == Truths(j, offj, msj) \ {Hello}
           B == {b \in Blocks : Linked(b, j, off, ms, offj, msj, rs) /\ Grown(k, b)}
           done == FoldLeft(input_segment, k, segs)
           acks == {segs[i].sn : i \in {g \in DOMAIN segs : segs[g].cmd = "ACK"}}
           maxack == CHOOSE sn \in acks : \A t \in acks : itimediff(sn, t) >= 0
           fast == IF acks = {} THEN done ELSE ikcp_parse_fastack(done, maxack)
           h == IF ~whole THEN done ELSE IF itimediff(fast.snd_una, k.snd_una) > 0 THEN open_cwnd(fast) ELSE fast
<1>1. \A b \in B, s \in S : input_segment(b, s) \in B
  <2> SUFFICES ASSUME NEW b \in Blocks, Linked(b, j, off, ms, offj, msj, rs), Grown(k, b), NEW s \in Truths(j, offj, msj), s # Hello
               PROVE  input_segment(b, s) \in B
    BY Zenon
  <2>1. /\ input_segment(b, s) \in Blocks /\ Linked(input_segment(b, s), j, off, ms, offj, msj, rs)
        /\ Grown(b, input_segment(b, s))
    BY SegmentHeard, Zenon
  <2>2. Grown(k, input_segment(b, s))
    BY <2>1, GrownTwice, Zenon
  <2> QED  BY <2>1, <2>2, Zenon
<1>2. k \in B
  <2>1. Pos(k.rcv_nxt) \in Nat
    BY BlockFacts, SnFacts
  <2>2. Grown(k, k)
    BY <2>1 DEF Grown
  <2> QED  BY <2>2
<1>3. done \in B
  <2> HIDE DEF B, S
  <2>1. segs \in Seq(S)
    BY DEF S
  <2> QED  BY <1>1, <1>2, <2>1, FoldFacts, Zenon
<1>4. ikcp_input(k, segs, whole) = h
  BY DEF ikcp_input
<1> HIDE DEF done, acks, maxack
<1>5. fast \in B
  <2>1. CASE acks = {}
    BY <1>3, <2>1
  <2>2. CASE acks # {}
    <3>1. fast = ikcp_parse_fastack(done, maxack)
      BY <2>2
    <3> HIDE DEF fast
    <3>2. done \in Blocks /\ Linked(done, j, off, ms, offj, msj, rs) /\ Grown(k, done)
      BY <1>3
    <3>3. /\ fast \in Blocks /\ Sending(fast, off, ms) /\ Between(fast, j)
          /\ fast.snd_nxt = done.snd_nxt /\ fast.rcv_nxt = done.rcv_nxt /\ fast.rcv_queue = done.rcv_queue
          /\ fast.rcv_buf = done.rcv_buf /\ fast.acklist = done.acklist
      BY <3>1, <3>2, FastHeard DEF Linked
    <3>4. Receiving(fast, offj, msj, rs) /\ Between(j, fast) /\ \A p : Has(done, p) <=> Has(fast, p)
      BY <3>2, <3>3, SameReceive DEF Linked
    <3>5. Linked(fast, j, off, ms, offj, msj, rs) /\ Grown(k, fast)
      BY <3>2, <3>3, <3>4 DEF Linked, Grown
    <3> QED  BY <3>3, <3>5
  <2> QED  BY <2>1, <2>2
<1> HIDE DEF fast
<1>6. open_cwnd(fast) \in B
  <2>1. fast \in Blocks /\ Linked(fast, j, off, ms, offj, msj, rs) /\ Grown(k, fast)
    BY <1>5
  <2>2. open_cwnd(fast) \in Blocks /\ Core(open_cwnd(fast)) = Core(fast) /\ open_cwnd(fast).acklist = fast.acklist
    BY <2>1, CwndOpened
  <2>3. Linked(open_cwnd(fast), j, off, ms, offj, msj, rs) /\ Grown(fast, open_cwnd(fast))
    BY <2>1, <2>2, LinkedStays
  <2>4. Grown(k, open_cwnd(fast))
    BY <2>1, <2>2, <2>3, GrownTwice
  <2> QED  BY <2>2, <2>3, <2>4
<1>7. h \in B
  BY <1>3, <1>5, <1>6
<1> HIDE DEF h
<1> QED  BY <1>4, <1>7

\* Whatever bytes the peer's datagrams bring.
LEMMA FeedHeard ==
    ASSUME NEW off, NEW ms, Fits(off, ms), NEW offj, NEW msj, Fits(offj, msj), NEW j \in Blocks, Sending(j, offj, msj),
           NEW rs \in Seq(Seq(Frags)), NEW k \in Blocks, Linked(k, j, off, ms, offj, msj, rs),
           NEW items \in Seq(Truths(j, offj, msj))
    PROVE  Feed(k, items) \in Blocks /\ Linked(Feed(k, items), j, off, ms, offj, msj, rs) /\ Grown(k, Feed(k, items))
<1> DEFINE S == Truths(j, offj, msj)
           I == {i \in 1 .. Len(items) : items[i] = Hello}
           hello == IF I # {} THEN Min(I) ELSE 0
           front == SubSeq(items, 1, hello - 1)
<1>1. Feed(k, items) = IF hello = 0 THEN ikcp_input(k, items, TRUE) ELSE ikcp_input(k, front, hello = Len(items) /\ hello > 1)
  BY DEF Feed, SelectInSeq
<1>2. Len(items) \in Nat /\ \A i \in 1 .. Len(items) : items[i] \in S
  OBVIOUS
<1>3. CASE I = {}
  <2>1. Feed(k, items) = ikcp_input(k, items, TRUE)
    BY <1>1, <1>3
  <2>2. \A i \in 1 .. Len(items) : items[i] \in S \ {Hello}
    BY <1>2, <1>3
  <2>3. items \in [1 .. Len(items) -> S \ {Hello}]
    <3> HIDE DEF S
    <3> QED  BY <2>2 DEF S
  <2>4. items \in Seq(S \ {Hello})
    <3> HIDE DEF S
    <3> QED  BY <1>2, <2>3, IsSeq
  <2>5. /\ ikcp_input(k, items, TRUE) \in Blocks /\ Linked(ikcp_input(k, items, TRUE), j, off, ms, offj, msj, rs)
        /\ Grown(k, ikcp_input(k, items, TRUE))
    BY <2>4, InputHeard, Zenon
  <2> QED  BY <2>1, <2>5, Zenon
<1>4. CASE I # {}
  <2>1. I \subseteq Nat
    OBVIOUS
  <2>2. Min(I) \in I /\ \A y \in I : Min(I) <= y
    BY <1>4, <2>1, MinOf
  <2>3. hello = Min(I)
    BY <1>4
  <2>4. hello \in 1 .. Len(items) /\ \A y \in I : hello <= y
    BY <2>2, <2>3
  <2> HIDE DEF hello
  <2>5. hello # 0 /\ hello - 1 \in 0 .. Len(items)
    BY <1>2, <2>4
  <2>6. front \in Seq(S) /\ Len(front) = hello - 1 /\ \A i \in 1 .. hello - 1 : front[i] = items[i]
    <3> HIDE DEF S
    <3>1. items \in Seq(S)
      BY DEF S
    <3> QED  BY <2>5, <3>1, PrefixFacts
  <2> HIDE DEF front
  <2>7. \A i \in 1 .. Len(front) : front[i] \in S \ {Hello}
    <3> SUFFICES ASSUME NEW i \in 1 .. Len(front) PROVE front[i] \in S \ {Hello}
      OBVIOUS
    <3>1. i \in 1 .. Len(items) /\ ~(hello <= i) /\ i \in 1 .. hello - 1
      BY <1>2, <2>4, <2>5, <2>6
    <3>2. i \notin I
      BY <2>4, <3>1
    <3>3. items[i] # Hello
      BY <3>1, <3>2
    <3> HIDE DEF S
    <3> QED  BY <1>2, <2>6, <3>1, <3>3
  <2>8. front \in Seq(S \ {Hello})
    <3> HIDE DEF S
    <3>1. front \in [1 .. Len(front) -> S \ {Hello}] /\ Len(front) \in Nat
      BY <2>6, <2>7
    <3> QED  BY <3>1, IsSeq
  <2> DEFINE w == hello = Len(items) /\ hello > 1
  <2>9. Feed(k, items) = ikcp_input(k, front, w)
    BY <1>1, <2>5
  <2>10. w \in BOOLEAN
    OBVIOUS
  <2> HIDE DEF w
  <2>11. /\ ikcp_input(k, front, w) \in Blocks /\ Linked(ikcp_input(k, front, w), j, off, ms, offj, msj, rs)
         /\ Grown(k, ikcp_input(k, front, w))
    BY <2>8, <2>10, InputHeard, Zenon
  <2> QED  BY <2>9, <2>11, Zenon
<1> QED  BY <1>3, <1>4

----------------------------------------------------------------------------
(* Reading *)

\* The first complete message in the queue is the next one that was sent.
LEMMA Peeked ==
    ASSUME NEW off, NEW ms, Fits(off, ms), NEW k \in Blocks, NEW rs \in Seq(Seq(Frags)), Holding(k, off, ms, rs),
           ikcp_peeksize(k) > 0
    PROVE  /\ Len(rs) + 1 \in 1 .. Len(ms) /\ ikcp_peeksize(k) = off[Len(rs) + 1] - off[Len(rs)]
           /\ ikcp_peeksize(k) \in 1 .. Len(k.rcv_queue) /\ Message(k) = ms[Len(rs) + 1]
<1> DEFINE q == k.rcv_queue
           r == Len(rs)
           o == off[r]
           I == {i \in 1 .. Len(q) : q[i].frg = 0}
<1>1. q \in Seq(RecvSegs) /\ Len(q) \in Nat /\ r \in Nat /\ r \in 0 .. Len(ms) /\ o \in Nat
  BY BlockFacts, HeldFacts
<1>2. \A i \in 1 .. Len(q) : At(off, ms, q[i], o + i - 1)
  BY DEF Holding
<1>3. q # <<>> /\ ~(Len(q) < q[1].frg + 1) /\ ikcp_peeksize(k) = IF I # {} THEN Min(I) ELSE 0
  BY DEF ikcp_peeksize, SelectInSeq
<1>4. 1 \in 1 .. Len(q)
  BY <1>1, <1>3
<1>5. At(off, ms, q[1], o)
  <2>1. At(off, ms, q[1], o + 1 - 1)
    BY <1>2, <1>4
  <2>2. o + 1 - 1 = o
    BY <1>1
  <2> QED  BY <2>1, <2>2
<1>6. r + 1 \in 1 .. Len(ms) /\ r \in 0 .. Len(ms) - 1
  <2>1. o < off[Len(ms)] /\ Len(ms) \in Nat
    BY <1>5, PlaceFacts, OffFacts
  <2>2. r # Len(ms)
    BY <1>1, <2>1
  <2> QED  BY <1>1, <2>1, <2>2
<1> DEFINE p == off[r + 1]
           n == p - o
<1>7. p \in Nat /\ o < p /\ n \in Nat /\ n >= 1
  <2>0. Len(ms) \in Nat
    BY OffFacts
  <2>1. r + 1 \in 0 .. Len(ms) /\ r < r + 1 /\ r \in 0 .. Len(ms)
    BY <1>1, <1>6, <2>0
  <2>2. p \in Nat /\ o < p
    BY <2>1, OffFacts
  <2> QED  BY <1>1, <2>2
<1>8. \A i \in 1 .. n : i \in 1 .. Len(q) => q[i].id = r + 1 /\ q[i].frg = n - i
  <2> SUFFICES ASSUME NEW i \in 1 .. n, i \in 1 .. Len(q) PROVE q[i].id = r + 1 /\ q[i].frg = n - i
    OBVIOUS
  <2>1. At(off, ms, q[i], o + i - 1)
    BY <1>2
  <2>2. o + i - 1 \in o .. p - 1
    BY <1>1, <1>7
  <2>3. q[i].id = r + 1 /\ q[i].frg = p - 1 - (o + i - 1)
    BY <1>6, <2>1, <2>2, WhichFragment
  <2>4. p - 1 - (o + i - 1) = n - i
    <3> HIDE DEF p, o
    <3> QED  BY <1>1, <1>7
  <2> QED  BY <2>3, <2>4
<1> HIDE DEF p
<1>9. n \in 1 .. Len(q) /\ n \in I
  <2>1. 1 \in 1 .. n
    BY <1>7
  <2>2. q[1].frg = n - 1
    BY <1>4, <1>8, <2>1
  <2>3. n <= Len(q)
    BY <1>1, <1>3, <1>7, <2>2
  <2>4. n \in 1 .. Len(q) /\ n \in 1 .. n
    BY <1>1, <1>7, <2>3
  <2>5. q[n].frg = n - n
    BY <1>8, <2>4
  <2> QED  BY <1>7, <2>4, <2>5
<1>10. \A i \in I : n <= i
  <2> SUFFICES ASSUME NEW i \in I, i < n PROVE FALSE
    BY <1>7
  <2>1. i \in 1 .. n /\ i \in 1 .. Len(q) /\ q[i].frg = 0
    BY <1>7
  <2>2. q[i].frg = n - i
    BY <1>8, <2>1
  <2> QED  BY <1>7, <2>1, <2>2
<1>11. Min(I) = n
  <2>1. I \subseteq Nat /\ I # {}
    BY <1>9
  <2>2. Min(I) \in I /\ \A y \in I : Min(I) <= y
    BY <2>1, MinOf
  <2>3. Min(I) \in Nat /\ Min(I) <= n /\ n <= Min(I)
    BY <1>9, <1>10, <2>1, <2>2
  <2> QED  BY <1>7, <2>3
<1>12. ikcp_peeksize(k) = n
  BY <1>3, <1>9, <1>11
<1> HIDE DEF I, n
<1>13. Message(k) = Fragments(r + 1, n)
  <2>1. \A i \in 1 .. n : Fragment(q[i].id, q[i].frg) = Fragment(r + 1, n - i)
    <3> SUFFICES ASSUME NEW i \in 1 .. n PROVE Fragment(q[i].id, q[i].frg) = Fragment(r + 1, n - i)
      OBVIOUS
    <3>1. i \in 1 .. Len(q)
      BY <1>1, <1>9
    <3> QED  BY <1>8, <3>1
  <2>2. Message(k) = [i \in 1 .. n |-> Fragment(q[i].id, q[i].frg)]
    BY <1>12 DEF Message
  <2> QED  BY <2>1, <2>2 DEF Fragments
<1>14. ms[r + 1] = Fragments(r + 1, n)
  <2>1. ms[r + 1] = Fragments(r + 1, off[r + 1] - off[(r + 1) - 1])
    BY <1>6 DEF Fits, Marked
  <2>2. (r + 1) - 1 = r
    BY <1>1
  <2> QED  BY <2>1, <2>2 DEF n, p
<1> QED  BY <1>6, <1>9, <1>12, <1>13, <1>14 DEF n, p

\* h has received what k has, and sends what k does.
SameStanding(k, h) ==
    /\ Pos(k.rcv_nxt) <= Pos(h.rcv_nxt) /\ \A p \in Nat : Has(h, p) <=> Has(k, p)
    /\ h.snd_nxt = k.snd_nxt /\ h.snd_una = k.snd_una /\ h.snd_queue = k.snd_queue /\ h.snd_buf = k.snd_buf
    /\ h.acklist = k.acklist

\* recv() reads it.
LEMMA Read ==
    ASSUME NEW off, NEW ms, Fits(off, ms), NEW k \in Blocks, NEW rs \in Seq(Seq(Frags)), Receiving(k, off, ms, rs),
           NEW j \in Blocks, Between(j, k), ikcp_peeksize(k) > 0, NEW h, h = ikcp_recv(k)
    PROVE  /\ h \in Blocks /\ Receiving(h, off, ms, Append(rs, Message(k))) /\ Between(j, h)
           /\ Message(k) \in Seq(Frags) /\ Append(rs, Message(k)) \in Seq(Seq(Frags))
           /\ SameStanding(k, h)
<1> DEFINE q == k.rcv_queue
           r == Len(rs)
           n == ikcp_peeksize(k)
           w == SubSeq(q, n + 1, Len(q))
           m == [k EXCEPT !.rcv_queue = w]
           t == MoveAvailable(m)
           ss == Append(rs, Message(k))
<1>0. Holding(k, off, ms, rs)
  BY DEF Receiving
<1>1. /\ r + 1 \in 1 .. Len(ms) /\ n = off[r + 1] - off[r] /\ n \in 1 .. Len(q) /\ Message(k) = ms[r + 1]
  BY <1>0, Peeked
<1>2. /\ q \in Seq(RecvSegs) /\ Len(q) \in Nat /\ r \in Nat /\ off[r] \in Nat /\ off[r] + Len(q) = Pos(k.rcv_nxt)
      /\ Len(q) <= RcvWnd /\ Pos(k.rcv_nxt) \in Nat
  BY <1>0, BlockFacts, HeldFacts
<1>3. off[r + 1] \in Nat /\ ms \in Seq(Seq(Frags)) /\ Len(ms) \in Nat
  <2>1. ms \in Seq(Seq(Frags)) /\ Len(ms) \in Nat /\ r + 1 \in 0 .. Len(ms)
    BY <1>1 DEF Fits
  <2> QED  BY <2>1, OffFacts
<1>4. ms[r + 1] \in Seq(Frags)
  BY <1>1, <1>3
<1>5. ss \in Seq(Seq(Frags)) /\ Len(ss) = r + 1 /\ (\A i \in 1 .. r : ss[i] = rs[i]) /\ ss[r + 1] = ms[r + 1]
  <2>1. Message(k) \in Seq(Frags) /\ rs \in Seq(Seq(Frags))
    BY <1>1, <1>4
  <2> DEFINE y == Message(k)
  <2> HIDE DEF y
  <2>2. Append(rs, y) \in Seq(Seq(Frags)) /\ Len(Append(rs, y)) = r + 1 /\ (\A i \in 1 .. r : Append(rs, y)[i] = rs[i]) /\ Append(rs, y)[r + 1] = y
    BY <2>1 DEF y
  <2> QED  BY <1>1, <2>2 DEF y
<1>6. w \in Seq(RecvSegs) /\ Len(w) = Len(q) - n /\ \A i \in 1 .. Len(q) - n : w[i] = q[n + i]
  <2> HIDE DEF n
  <2>1. n \in 0 .. Len(q)
    BY <1>1, <1>2
  <2> QED  BY <1>2, <2>1, SuffixFacts
<1>7. h = [t EXCEPT !.ask_tell = @ \/ (Len(q) >= RcvWnd /\ Len(t.rcv_queue) < RcvWnd)]
  BY DEF ikcp_recv, Blocks
<1> HIDE DEF w, n, ss
<1>8. m \in Blocks /\ m.rcv_queue = w /\ m.rcv_buf = k.rcv_buf /\ m.rcv_nxt = k.rcv_nxt
  BY <1>6 DEF Blocks
<1>9. m.snd_nxt = k.snd_nxt /\ m.snd_una = k.snd_una /\ m.snd_queue = k.snd_queue /\ m.snd_buf = k.snd_buf /\ m.acklist = k.acklist
  BY DEF Blocks
<1> HIDE DEF m
<1>10. Holding(m, off, ms, ss)
  <2>1. Len(ss) <= Len(ms) /\ \A i \in 1 .. Len(ss) : ss[i] = ms[i]
    <3>1. \A i \in 1 .. r : rs[i] = ms[i]
      BY <1>0 DEF Holding
    <3>2. \A i \in 1 .. Len(ss) : i \in 1 .. r \/ i = r + 1
      BY <1>2, <1>5
    <3>3. Len(ss) <= Len(ms)
      <4>1. Len(ss) = r + 1 /\ r + 1 \in 1 .. Len(ms)
        BY <1>1, <1>5
      <4> QED  BY <1>2, <1>3, <4>1
    <3>4. \A i \in 1 .. r : ss[i] = ms[i]
      BY <1>5, <3>1
    <3> QED  BY <1>5, <3>2, <3>3, <3>4
  <2> DEFINE a == off[r]
             b == off[r + 1]
             l == Len(w)
             y == Len(q)
             x == Pos(k.rcv_nxt)
  <2>4. a \in Nat /\ b \in Nat /\ n = b - a /\ l = y - n /\ y \in Nat /\ a + y = x /\ y <= RcvWnd /\ n \in 1 .. y
    BY <1>1, <1>2, <1>3, <1>6
  <2>5. off[Len(ss)] = b
    BY <1>5
  <2> HIDE DEF a, b, l, y, x
  <2>6. RcvWnd \in Nat
    BY KcpSizes
  <2>7. b + l = x /\ l <= RcvWnd
    BY <2>4, <2>6
  <2>8. \A i \in 1 .. l : n + i \in 1 .. y /\ b + i - 1 = a + (n + i) - 1 /\ i \in 1 .. y - n
    BY <2>4
  <2>2. off[Len(ss)] + Len(w) = Pos(k.rcv_nxt) /\ Len(w) <= RcvWnd
    BY <2>5, <2>7 DEF l, x
  <2>3. \A i \in 1 .. Len(w) : At(off, ms, w[i], off[Len(ss)] + i - 1)
    <3> SUFFICES ASSUME NEW i \in 1 .. Len(w) PROVE At(off, ms, w[i], off[Len(ss)] + i - 1)
      OBVIOUS
    <3>1. n + i \in 1 .. Len(q) /\ off[Len(ss)] + i - 1 = off[r] + (n + i) - 1 /\ i \in 1 .. Len(q) - n
      BY <2>5, <2>8 DEF a, l, y
    <3>2. At(off, ms, q[n + i], off[r] + (n + i) - 1)
      BY <1>0, <3>1 DEF Holding
    <3> QED  BY <1>6, <3>1, <3>2
  <2> QED  BY <1>0, <1>8, <2>1, <2>2, <2>3 DEF Holding
<1>11. /\ t \in Blocks /\ Receiving(t, off, ms, ss) /\ Pos(m.rcv_nxt) <= Pos(t.rcv_nxt)
       /\ \A p \in Nat : Has(t, p) <=> Has(m, p)
       /\ t.snd_nxt = m.snd_nxt /\ t.snd_una = m.snd_una /\ t.snd_queue = m.snd_queue /\ t.snd_buf = m.snd_buf
       /\ t.acklist = m.acklist
  BY <1>5, <1>8, <1>10, Moved
<1>12. Between(j, t)
  <2>1. Between(j, m)
    <3>1. \A p : Has(k, p) <=> Has(m, p)
      BY <1>8 DEF Has
    <3> QED  BY <1>8, <3>1 DEF Between
  <2> QED  BY <1>5, <1>8, <1>10, <2>1, MovedBetween
<1> HIDE DEF t
<1>13. h \in Blocks
  BY <1>7, <1>11 DEF Blocks
<1>14. /\ h.snd_nxt = t.snd_nxt /\ h.snd_una = t.snd_una /\ h.snd_queue = t.snd_queue /\ h.snd_buf = t.snd_buf
       /\ h.acklist = t.acklist /\ h.rcv_nxt = t.rcv_nxt /\ h.rcv_queue = t.rcv_queue /\ h.rcv_buf = t.rcv_buf
  BY <1>7, <1>11 DEF Blocks
<1>15. Receiving(h, off, ms, ss) /\ Between(j, h) /\ \A p : Has(t, p) <=> Has(h, p)
  BY <1>11, <1>12, <1>14, SameReceive
<1>16. \A p : Has(k, p) <=> Has(m, p)
  BY <1>8 DEF Has
<1>17. SameStanding(k, h)
  BY <1>1, <1>4, <1>5, <1>8, <1>9, <1>11, <1>13, <1>14, <1>15, <1>16 DEF SameStanding
<1> QED  BY <1>1, <1>4, <1>5, <1>8, <1>9, <1>11, <1>13, <1>14, <1>15, <1>16, <1>17 DEF ss

----------------------------------------------------------------------------
(* ikcp_flush() *)

\* How many segments get a number: no more than the window has room for.
FillCount(k) == Max({0, Min({Len(k.snd_queue), itimediff(k.snd_una + SendWindow(k), k.snd_nxt)})})

\* The window has room for that many.
LEMMA CountFacts ==
    ASSUME NEW off, NEW ms, Fits(off, ms), NEW k \in Blocks, Sending(k, off, ms)
    PROVE  /\ FillCount(k) \in 0 .. Len(k.snd_queue)
           /\ FillCount(k) = 0 \/ Pos(k.snd_nxt) + FillCount(k) - Pos(k.snd_una) <= SndWnd
<1> DEFINE n == Pos(k.snd_nxt)
           u == Pos(k.snd_una)
           w == SendWindow(k)
           l == Len(k.snd_queue)
           d == itimediff(k.snd_una + w, k.snd_nxt)
           m == Min({l, d})
<1>1. n \in Nat /\ u \in Nat /\ u <= n /\ n - u <= SndWnd /\ k.snd_nxt \in Int /\ k.snd_una \in Int /\ l \in Nat
  BY SentFacts, BlockFacts, SnFacts
<1>2. SndWnd \in Nat /\ Half \in Nat /\ SndWnd < Half
  BY KcpSizes
<1>3. w \in Nat /\ w <= SndWnd
  BY <1>2, BlockFacts, MinThree DEF SendWindow
<1> HIDE DEF w
<1>4. d = u + w - n
  <2>1. -Half <= u + w - n - 0 /\ u + w - n - 0 < Half /\ w \in Int /\ 0 \in Int
    BY <1>1, <1>2, <1>3
  <2>2. itimediff(k.snd_una + w, k.snd_nxt + 0) = u + w - n - 0
    BY <1>1, <2>1, ComparePlaces
  <2>3. k.snd_nxt + 0 = k.snd_nxt /\ u + w - n - 0 = u + w - n
    BY <1>1, <1>3
  <2> QED  BY <2>2, <2>3
<1> HIDE DEF n, u, d, l
<1>5. d \in Int /\ d <= u + SndWnd - n
  BY <1>1, <1>2, <1>3, <1>4
<1>6. m = IF l <= d THEN l ELSE d
  BY <1>1, <1>5, MinTwo
<1> HIDE DEF m
<1>7. m \in Int /\ m <= l /\ m <= d
  BY <1>1, <1>5, <1>6
<1>8. Max({0, m}) = IF 0 <= m THEN m ELSE 0
  BY <1>7, MaxTwo
<1>9. FillCount(k) = Max({0, m})
  BY DEF FillCount, m, l, d, w
<1>10. FillCount(k) \in 0 .. l /\ (FillCount(k) = 0 \/ FillCount(k) <= d)
  BY <1>1, <1>7, <1>8, <1>9
<1>11. FillCount(k) = 0 \/ n + FillCount(k) - u <= SndWnd
  BY <1>1, <1>2, <1>5, <1>10
<1> QED  BY <1>10, <1>11 DEF n, u, l

\* Segments get their numbers in the order of the queue.
LEMMA Filled ==
    ASSUME NEW off, NEW ms, Fits(off, ms), NEW k \in Blocks, Sending(k, off, ms), NEW j \in Blocks, Between(k, j),
           NEW h, h = FillWindow(k)
    PROVE  /\ h \in Blocks /\ Sending(h, off, ms) /\ Between(h, j) /\ Pos(k.snd_nxt) <= Pos(h.snd_nxt)
           /\ h.rcv_nxt = k.rcv_nxt /\ h.rcv_queue = k.rcv_queue /\ h.rcv_buf = k.rcv_buf /\ h.acklist = k.acklist
<1> DEFINE n == Pos(k.snd_nxt)
           b == k.snd_buf
           q == k.snd_queue
           c == FillCount(k)
           seg(i) == [sn |-> (k.snd_nxt + i - 1) % SnMod, id |-> q[i].id, frg |-> q[i].frg, xmit |-> 0, fastack |-> 0]
           fresh == [i \in 1 .. c |-> seg(i)]
           rest == SubSeq(q, c + 1, Len(q))
           nxt == (k.snd_nxt + c) % SnMod
           buf == b \o fresh
<1>1. h = [k EXCEPT !.snd_buf = buf, !.snd_queue = rest, !.snd_nxt = nxt]
  BY DEF FillWindow, FillCount
<1>2. /\ n \in Nat /\ b \in Seq(SendSegs) /\ q \in Seq(Frags) /\ Len(b) \in Nat /\ Len(q) \in Nat /\ k.snd_nxt \in Sns
      /\ k.snd_nxt \in Int /\ n <= off[Len(ms)] /\ off[Len(ms)] \in Nat /\ off[Len(ms)] < SnMod
      /\ n + Len(q) = off[Len(ms)]
  <2>1. off[Len(ms)] \in Nat /\ off[Len(ms)] + RcvWnd <= Half
    BY OffFacts
  <2>2. off[Len(ms)] < SnMod
    BY <2>1, KcpSizes
  <2>3. n + Len(q) = off[Len(ms)]
    BY DEF Sending
  <2> QED  BY <2>1, <2>2, <2>3, BlockFacts, SnFacts, SentFacts
<1>3. c \in 0 .. Len(q) /\ (c = 0 \/ n + c - Pos(k.snd_una) <= SndWnd)
  BY CountFacts
<1> HIDE DEF c
<1>4. \A i \in 0 .. c : (k.snd_nxt + i) % SnMod \in Sns /\ Pos((k.snd_nxt + i) % SnMod) = n + i
  <2> SUFFICES ASSUME NEW i \in 0 .. c PROVE (k.snd_nxt + i) % SnMod \in Sns /\ Pos((k.snd_nxt + i) % SnMod) = n + i
    OBVIOUS
  <2>1. i \in Nat /\ n + i < SnMod
    BY <1>2, <1>3, KcpSizes
  <2> QED  BY <1>2, <2>1, Advance
<1>5. \A i \in 1 .. c : /\ seg(i) \in SendSegs /\ Pos(seg(i).sn) = n + i - 1
                        /\ At(off, ms, seg(i), n + i - 1)
  <2> SUFFICES ASSUME NEW i \in 1 .. c PROVE seg(i) \in SendSegs /\ Pos(seg(i).sn) = n + i - 1 /\ At(off, ms, seg(i), n + i - 1)
    OBVIOUS
  <2>1. i - 1 \in 0 .. c /\ k.snd_nxt + i - 1 = k.snd_nxt + (i - 1) /\ n + i - 1 = n + (i - 1) /\ i \in 1 .. Len(q)
    BY <1>2, <1>3
  <2>2. (k.snd_nxt + i - 1) % SnMod \in Sns /\ Pos((k.snd_nxt + i - 1) % SnMod) = n + i - 1
    BY <1>4, <2>1
  <2>3. q[i] \in Frags /\ At(off, ms, q[i], n + i - 1)
    BY <1>2, <2>1 DEF Sending
  <2>4. q[i].id \in Nat /\ q[i].frg \in Nat
    BY <2>3 DEF Frags
  <2>5. seg(i) \in SendSegs
    BY <2>2, <2>4 DEF SendSegs
  <2>6. seg(i).sn = (k.snd_nxt + i - 1) % SnMod /\ seg(i).id = q[i].id /\ seg(i).frg = q[i].frg
    OBVIOUS
  <2> HIDE DEF seg
  <2> QED  BY <2>2, <2>3, <2>5, <2>6 DEF At
<1>6. nxt \in Sns /\ Pos(nxt) = n + c
  BY <1>3, <1>4
<1> HIDE DEF nxt, seg
<1>7. fresh \in [1 .. c -> SendSegs] /\ \A i \in 1 .. c : fresh[i] = seg(i)
  BY <1>5
<1> HIDE DEF fresh
<1>8. c \in Nat
  BY <1>2, <1>3
<1>9. fresh \in Seq(SendSegs) /\ Len(fresh) = c
  BY <1>7, <1>8, IsSeq
<1>10. /\ buf \in Seq(SendSegs) /\ Len(buf) = Len(b) + Len(fresh) /\ (\A i \in 1 .. Len(b) : buf[i] = b[i])
       /\ \A i \in 1 .. Len(fresh) : buf[Len(b) + i] = fresh[i]
  <2>1. b \in Seq(SendSegs) /\ fresh \in Seq(SendSegs)
    BY <1>2, <1>9
  <2> HIDE DEF b
  <2> QED  BY <2>1, ConcatFacts
<1>11. rest \in Seq(Frags) /\ Len(rest) = Len(q) - c /\ \A i \in 1 .. Len(q) - c : rest[i] = q[c + i]
  <2>1. q \in Seq(Frags) /\ c \in 0 .. Len(q)
    BY <1>2, <1>3
  <2> HIDE DEF q
  <2> QED  BY <2>1, SuffixFacts
<1> HIDE DEF rest, buf
<1>12. h \in Blocks /\ h.snd_buf = buf /\ h.snd_queue = rest /\ h.snd_nxt = nxt
  BY <1>1, <1>6, <1>10, <1>11 DEF Blocks
<1>13. /\ h.rcv_nxt = k.rcv_nxt /\ h.rcv_queue = k.rcv_queue /\ h.rcv_buf = k.rcv_buf /\ h.acklist = k.acklist
       /\ h.snd_una = k.snd_una
  BY <1>1 DEF Blocks
<1>14. \A i \in 1 .. Len(buf) :
         \/ i \in 1 .. Len(b) /\ buf[i] = b[i]
         \/ i - Len(b) \in 1 .. c /\ buf[i] = seg(i - Len(b))
  <2> SUFFICES ASSUME NEW i \in 1 .. Len(buf)
               PROVE  (i \in 1 .. Len(b) /\ buf[i] = b[i]) \/ (i - Len(b) \in 1 .. c /\ buf[i] = seg(i - Len(b)))
    OBVIOUS
  <2>1. Len(buf) = Len(b) + c
    BY <1>9, <1>10
  <2>2. CASE i <= Len(b)
    <3>1. i \in 1 .. Len(b)
      BY <1>2, <2>2
    <3>2. buf[i] = b[i]
      BY <1>10, <3>1
    <3> QED  BY <3>1, <3>2
  <2>3. CASE i > Len(b)
    <3>1. i - Len(b) \in 1 .. c /\ Len(b) + (i - Len(b)) = i
      BY <1>2, <1>8, <2>1, <2>3
    <3>2. buf[Len(b) + (i - Len(b))] = fresh[i - Len(b)]
      BY <1>9, <1>10, <3>1
    <3>3. fresh[i - Len(b)] = seg(i - Len(b))
      BY <1>7, <3>1
    <3>4. buf[i] = seg(i - Len(b))
      BY <3>1, <3>2, <3>3
    <3> QED  BY <3>1, <3>4
  <2> QED  BY <1>2, <2>2, <2>3
<1>15. \A i \in 1 .. Len(buf) : Pos(buf[i].sn) < n + c /\ At(off, ms, buf[i], Pos(buf[i].sn))
  <2> SUFFICES ASSUME NEW i \in 1 .. Len(buf) PROVE Pos(buf[i].sn) < n + c /\ At(off, ms, buf[i], Pos(buf[i].sn))
    OBVIOUS
  <2>1. CASE i \in 1 .. Len(b) /\ buf[i] = b[i]
    <3>1. Pos(b[i].sn) < n /\ Pos(b[i].sn) \in Nat /\ At(off, ms, b[i], Pos(b[i].sn))
      BY <2>1, SentFacts DEF Sending
    <3> QED  BY <1>2, <1>8, <2>1, <3>1
  <2>2. CASE i - Len(b) \in 1 .. c /\ buf[i] = seg(i - Len(b))
    <3> DEFINE g == i - Len(b)
    <3>1. Pos(seg(g).sn) = n + g - 1 /\ At(off, ms, seg(g), n + g - 1) /\ g \in 1 .. c
      BY <1>5, <2>2
    <3> HIDE DEF g
    <3>2. n + g - 1 < n + c
      BY <1>2, <1>8, <3>1
    <3> QED  BY <2>2, <3>1, <3>2 DEF g
  <2> QED  BY <1>14, <2>1, <2>2
<1>16. \A i, g \in 1 .. Len(buf) : i < g => Pos(buf[i].sn) < Pos(buf[g].sn)
  <2> SUFFICES ASSUME NEW i \in 1 .. Len(buf), NEW g \in 1 .. Len(buf), i < g PROVE Pos(buf[i].sn) < Pos(buf[g].sn)
    OBVIOUS
  <2>1. CASE g \in 1 .. Len(b) /\ buf[g] = b[g]
    <3>1. i \in 1 .. Len(b)
      BY <1>2, <2>1
    <3>2. buf[i] = b[i]
      BY <1>10, <3>1
    <3> QED  BY <2>1, <3>1, <3>2 DEF Sending
  <2>2. CASE g - Len(b) \in 1 .. c /\ buf[g] = seg(g - Len(b))
    <3>1. Pos(buf[g].sn) = n + (g - Len(b)) - 1
      BY <1>5, <2>2
    <3>2. CASE i \in 1 .. Len(b) /\ buf[i] = b[i]
      <4>1. Pos(b[i].sn) < n /\ Pos(b[i].sn) \in Nat
        BY <3>2, SentFacts
      <4>2. n <= n + (g - Len(b)) - 1
        BY <1>2, <2>2
      <4> QED  BY <1>2, <2>2, <3>1, <3>2, <4>1, <4>2
    <3>3. CASE i - Len(b) \in 1 .. c /\ buf[i] = seg(i - Len(b))
      <4>1. Pos(buf[i].sn) = n + (i - Len(b)) - 1
        BY <1>5, <3>3
      <4>2. n + (i - Len(b)) - 1 < n + (g - Len(b)) - 1
        BY <1>2
      <4> QED  BY <3>1, <4>1, <4>2
    <3> QED  BY <1>14, <3>2, <3>3
  <2> QED  BY <1>14, <2>1, <2>2
<1>17. \A i \in 1 .. Len(rest) : At(off, ms, rest[i], (n + c) + i - 1)
  <2> SUFFICES ASSUME NEW i \in 1 .. Len(rest) PROVE At(off, ms, rest[i], (n + c) + i - 1)
    OBVIOUS
  <2>1. i \in 1 .. Len(q) - c /\ c + i \in 1 .. Len(q) /\ (n + c) + i - 1 = n + (c + i) - 1
    BY <1>2, <1>3, <1>8, <1>11
  <2>2. At(off, ms, q[c + i], n + (c + i) - 1)
    BY <2>1 DEF Sending
  <2> QED  BY <1>11, <2>1, <2>2
<1>18. (n + c) + Len(rest) = off[Len(ms)]
  BY <1>2, <1>8, <1>11
<1>19. Pos(k.snd_una) <= n + c /\ (n + c) - Pos(k.snd_una) <= SndWnd
  <2>1. Pos(k.snd_una) \in Nat /\ Pos(k.snd_una) <= n /\ n - Pos(k.snd_una) <= SndWnd /\ SndWnd \in Nat
    BY SentFacts, KcpSizes
  <2>2. CASE c = 0
    BY <1>2, <2>1, <2>2
  <2>3. CASE c # 0
    BY <1>2, <1>3, <1>8, <2>1, <2>3
  <2> QED  BY <2>2, <2>3
<1>20. k.snd_una = IF buf = <<>> THEN nxt ELSE buf[1].sn
  <2>1. k.snd_una = IF b = <<>> THEN k.snd_nxt ELSE b[1].sn
    BY DEF Sending
  <2>2. Len(buf) = Len(b) + c
    BY <1>9, <1>10
  <2>3. CASE b # <<>>
    <3>1. 1 \in 1 .. Len(b) /\ buf # <<>>
      BY <1>2, <1>8, <1>10, <2>2, <2>3
    <3>2. buf[1] = b[1]
      BY <1>10, <3>1
    <3> QED  BY <2>1, <2>3, <3>1, <3>2
  <2>4. CASE b = <<>> /\ c # 0
    <3>1. Len(b) = 0 /\ 1 \in 1 .. Len(buf) /\ buf # <<>>
      BY <1>2, <1>8, <1>10, <2>2, <2>4
    <3>2. buf[1] = seg(1) /\ 1 \in 1 .. c
      BY <1>8, <1>14, <2>4, <3>1
    <3>3. Pos(seg(1).sn) = n + 1 - 1 /\ seg(1) \in SendSegs
      BY <1>5, <3>2
    <3>4. seg(1).sn \in Sns /\ Pos(seg(1).sn) = n
      BY <1>2, <3>3 DEF SendSegs
    <3>5. seg(1).sn = k.snd_nxt
      BY <1>2, <3>4, SamePos
    <3> QED  BY <2>1, <2>4, <3>1, <3>2, <3>5
  <2>5. CASE b = <<>> /\ c = 0
    <3>1. buf = <<>>
      BY <1>2, <1>10, <2>2, <2>5
    <3>2. Pos(nxt) = n
      BY <1>2, <1>6, <2>5
    <3>3. nxt = k.snd_nxt
      BY <1>2, <1>6, <3>2, SamePos
    <3> QED  BY <2>1, <2>5, <3>1, <3>3
  <2> QED  BY <2>3, <2>4, <2>5
<1>21. Sending(h, off, ms)
  BY <1>6, <1>12, <1>13, <1>15, <1>16, <1>17, <1>18, <1>19, <1>20 DEF Sending
<1>22. n <= n + c
  BY <1>2, <1>8
<1>23. Between(h, j)
  <2>1. Pos(j.rcv_nxt) <= n /\ Pos(j.rcv_nxt) \in Nat
    BY BlockFacts, SnFacts DEF Between
  <2>2. \A i \in 1 .. Len(j.rcv_buf) : Pos(j.rcv_buf[i].sn) < n + c
    <3> SUFFICES ASSUME NEW i \in 1 .. Len(j.rcv_buf) PROVE Pos(j.rcv_buf[i].sn) < n + c
      OBVIOUS
    <3>1. j.rcv_buf[i] \in RecvSegs
      BY BlockFacts
    <3>2. j.rcv_buf[i].sn \in Sns
      BY <3>1 DEF RecvSegs
    <3>3. Pos(j.rcv_buf[i].sn) < n /\ Pos(j.rcv_buf[i].sn) \in Nat
      BY <3>2, SnFacts DEF Between
    <3> QED  BY <1>2, <1>8, <3>3
  <2>3. ASSUME NEW p \in 0 .. (n + c) - 1 PROVE Has(j, p) \/ InBuf(buf, p)
    <3>1. CASE p < n
      <4>1. p \in 0 .. n - 1
        BY <1>2, <3>1
      <4>2. Has(j, p) \/ InBuf(b, p)
        BY <4>1 DEF Between
      <4>3. ASSUME NEW i \in 1 .. Len(b), Pos(b[i].sn) = p PROVE InBuf(buf, p)
        <5>1. i \in 1 .. Len(buf) /\ buf[i] = b[i]
          BY <1>2, <1>8, <1>9, <1>10
        <5> QED  BY <4>3, <5>1 DEF InBuf
      <4> QED  BY <4>2, <4>3 DEF InBuf
    <3>2. CASE p >= n
      <4> DEFINE i == p - n + 1
      <4>1. i \in 1 .. c /\ n + i - 1 = p
        BY <1>2, <1>8, <3>2
      <4> HIDE DEF i
      <4>2. buf[Len(b) + i] = seg(i) /\ Len(b) + i \in 1 .. Len(buf)
        BY <1>2, <1>7, <1>8, <1>9, <1>10, <4>1
      <4>3. Pos(seg(i).sn) = p
        BY <1>5, <4>1
      <4> QED  BY <4>2, <4>3 DEF InBuf
    <3> QED  BY <1>2, <3>1, <3>2
  <2>4. Pos(j.rcv_nxt) <= n + c
    BY <1>2, <1>8, <2>1
  <2> QED  BY <1>6, <1>12, <2>2, <2>3, <2>4 DEF Between
<1> QED  BY <1>6, <1>12, <1>13, <1>21, <1>22, <1>23

\* The probe timer.
LEMMA Probed ==
    ASSUME NEW k \in Blocks, NEW late \in BOOLEAN, NEW h, h = ProbeWindow(k, late)
    PROVE  h \in Blocks /\ Core(h) = Core(k) /\ h.acklist = k.acklist
<1>1. (k.rmt_wnd = 0) \in BOOLEAN /\ (k.ask_send \/ (k.rmt_wnd = 0 /\ k.probing /\ late)) \in BOOLEAN
  OBVIOUS
<1> DEFINE x == (k.rmt_wnd = 0)
           y == (k.ask_send \/ (k.rmt_wnd = 0 /\ k.probing /\ late))
<1>2. h = [k EXCEPT !.probing = x, !.ask_send = y]
  BY DEF ProbeWindow, Blocks
<1> HIDE DEF x, y
<1>3. x \in BOOLEAN /\ y \in BOOLEAN
  BY <1>1 DEF x, y
<1> QED  BY <1>2, <1>3 DEF Blocks, Core

\* Half of what was in flight.
LEMMA ThreshFacts ==
    ASSUME NEW n \in Int
    PROVE  Thresh(n) \in Nat
<1> DEFINE d == n \div 2
<1>1. d \in Int
  OBVIOUS
<1> HIDE DEF d
<1>2. Max({2, d}) = IF 2 <= d THEN d ELSE 2
  BY <1>1, MaxTwo
<1> QED  BY <1>1, <1>2 DEF Thresh, ThreshMin, d

\* The congestion window closes.
LEMMA Closed ==
    ASSUME NEW k \in Blocks, NEW reasons, NEW window \in Int, NEW inflight \in Int,
           NEW h, h = CloseWindow(k, reasons, window, inflight)
    PROVE  h \in Blocks /\ Core(h) = Core(k) /\ h.acklist = k.acklist
<1> DEFINE t == Thresh(inflight)
           c == t + FastResend
           i == c * Mss
           u == Thresh(window)
           faster == IF "fast" \in reasons THEN [k EXCEPT !.ssthresh = t, !.cwnd = c, !.incr = i] ELSE k
           lost == [k EXCEPT !.ssthresh = u, !.cwnd = 1, !.incr = Mss]
           one == [faster EXCEPT !.cwnd = 1, !.incr = Mss]
<1>1. h = IF "lost" \in reasons THEN lost ELSE IF faster.cwnd < 1 THEN one ELSE faster
  BY DEF CloseWindow
<1>2. t \in Nat /\ u \in Nat /\ Mss \in Nat /\ FastResend \in Nat
  BY ThreshFacts, KcpAssumption
<1> HIDE DEF t, u
<1>3. c \in Nat
  BY <1>2
<1> HIDE DEF c
<1>4. i \in Nat
  BY <1>2, <1>3
<1> HIDE DEF i
<1>5. faster \in Blocks /\ Core(faster) = Core(k) /\ faster.acklist = k.acklist
  <2>1. CASE "fast" \in reasons
    <3>1. faster = [k EXCEPT !.ssthresh = t, !.cwnd = c, !.incr = i]
      BY <2>1
    <3> HIDE DEF faster
    <3> QED  BY <1>2, <1>3, <1>4, <3>1 DEF Blocks, Core
  <2>2. CASE "fast" \notin reasons
    BY <2>2
  <2> QED  BY <2>1, <2>2
<1>6. lost \in Blocks /\ Core(lost) = Core(k) /\ lost.acklist = k.acklist
  BY <1>2 DEF Blocks, Core
<1> HIDE DEF faster, lost
<1>7. one \in Blocks /\ Core(one) = Core(faster) /\ one.acklist = faster.acklist
  BY <1>2, <1>5 DEF Blocks, Core
<1> HIDE DEF one
<1> QED  BY <1>1, <1>5, <1>6, <1>7

\* A segment that goes out stays what it is.
LEMMA TransmittedFacts ==
    ASSUME NEW s \in SendSegs, NEW r
    PROVE  /\ Transmitted(s, r) \in SendSegs
           /\ Transmitted(s, r).sn = s.sn /\ Transmitted(s, r).id = s.id /\ Transmitted(s, r).frg = s.frg
<1>1. DeadLink \in Nat /\ FastLimit + 1 \in Nat
  BY KcpAssumption
<1>2. XmitCap \in Nat
  <2> DEFINE d == FastLimit + 1
  <2> HIDE DEF d
  <2>1. d \in Nat
    BY <1>1 DEF d
  <2>2. Max({DeadLink, d}) = IF DeadLink <= d THEN d ELSE DeadLink
    BY <1>1, <2>1, MaxTwo
  <2> QED  BY <1>1, <2>1, <2>2 DEF XmitCap, d
<1>3. s.xmit \in Nat /\ s.fastack \in Nat
  BY DEF SendSegs
<1> DEFINE x == s.xmit + 1
           m == Min({x, XmitCap})
           a == IF r = "none" THEN s.xmit ELSE m
           f == IF r = "fast" THEN 0 ELSE s.fastack
<1>4. x \in Nat
  BY <1>3
<1> HIDE DEF x
<1>5. m = IF x <= XmitCap THEN x ELSE XmitCap
  BY <1>2, <1>4, MinTwo
<1>6. a \in Nat /\ f \in Nat
  BY <1>2, <1>3, <1>4, <1>5
<1>7. Transmitted(s, r) = [s EXCEPT !.xmit = a, !.fastack = f]
  BY DEF Transmitted, SendSegs, x
<1> HIDE DEF a, f
<1> QED  BY <1>6, <1>7 DEF SendSegs

\* The control block after the flush.
LEMMA Flushed ==
    ASSUME NEW off, NEW ms, Fits(off, ms), NEW k \in Blocks, Sending(k, off, ms), NEW j, Between(k, j),
           NEW reason, DOMAIN reason = DOMAIN k.snd_buf, NEW h, h = AfterFlush(k, reason)
    PROVE  /\ h \in Blocks /\ Sending(h, off, ms) /\ Between(h, j) /\ h.acklist = <<>> /\ h.snd_nxt = k.snd_nxt
           /\ h.rcv_nxt = k.rcv_nxt /\ h.rcv_queue = k.rcv_queue /\ h.rcv_buf = k.rcv_buf
<1> DEFINE b == k.snd_buf
           after == [i \in DOMAIN reason |-> Transmitted(b[i], reason[i])]
           d == k.dead \/ \E i \in DOMAIN reason : reason[i] # "none" /\ after[i].xmit >= DeadLink
           m == [k EXCEPT !.snd_buf = after, !.acklist = <<>>, !.ask_send = FALSE, !.ask_tell = FALSE, !.dead = d]
           z == itimediff(k.snd_nxt, k.snd_una)
<1>1. h = CloseWindow(m, Range(reason), SendWindow(k), z)
  BY DEF AfterFlush
<1>2. b \in Seq(SendSegs) /\ Len(b) \in Nat /\ DOMAIN reason = 1 .. Len(b) /\ \A i \in 1 .. Len(b) : b[i] \in SendSegs
  BY BlockFacts
<1>3. SendWindow(k) \in Int /\ z \in Int
  <2>1. SendWindow(k) \in Nat
    BY BlockFacts, MinThree, KcpSizes DEF SendWindow
  <2>2. k.snd_nxt \in Int /\ k.snd_una \in Int
    BY BlockFacts, SnFacts
  <2> DEFINE x == k.snd_nxt - k.snd_una
  <2>3. x \in Int /\ SnMod \in Nat \ {0}
    BY <2>2, KcpSizes
  <2> HIDE DEF x
  <2>4. x % SnMod \in Int
    <3>1. x % SnMod \in 0 .. SnMod - 1
      BY <2>3, DivMod
    <3> QED  BY <2>3, <3>1
  <2> DEFINE y == x % SnMod
  <2>5. z = IF y < SnMod \div 2 THEN y ELSE y - SnMod
    BY DEF itimediff, x
  <2> HIDE DEF y
  <2>6. y \in Int /\ y - SnMod \in Int
    BY <2>3, <2>4 DEF y
  <2> QED  BY <2>1, <2>5, <2>6
<1> HIDE DEF z
<1>4. after \in [1 .. Len(b) -> SendSegs] /\ \A i \in 1 .. Len(b) : after[i] = Transmitted(b[i], reason[i])
  <2>1. \A i \in 1 .. Len(b) : Transmitted(b[i], reason[i]) \in SendSegs
    BY <1>2, TransmittedFacts
  <2> QED  BY <1>2, <2>1
<1>5. d \in BOOLEAN
  OBVIOUS
<1> HIDE DEF after, d
<1>6. after \in Seq(SendSegs) /\ Len(after) = Len(b)
  BY <1>2, <1>4, IsSeq
<1>7. m \in Blocks /\ m.snd_buf = after /\ m.acklist = <<>>
  <2> DEFINE e == <<>>
             f == FALSE
  <2>1. e \in Seq(Sns) /\ f \in BOOLEAN
    OBVIOUS
  <2>2. m = [k EXCEPT !.snd_buf = after, !.acklist = e, !.ask_send = f, !.ask_tell = f, !.dead = d]
    OBVIOUS
  <2>3. after \in Seq(SendSegs)
    BY <1>6
  <2> HIDE DEF m, e, f, b
  <2>4. m \in Blocks /\ m.snd_buf = after /\ m.acklist = e
    BY <1>5, <2>1, <2>2, <2>3 DEF Blocks
  <2> QED  BY <2>4 DEF e
<1>8. /\ m.snd_una = k.snd_una /\ m.snd_nxt = k.snd_nxt /\ m.snd_queue = k.snd_queue
      /\ m.rcv_nxt = k.rcv_nxt /\ m.rcv_queue = k.rcv_queue /\ m.rcv_buf = k.rcv_buf
  BY DEF Blocks
<1> HIDE DEF m
<1>9. \A i \in 1 .. Len(b) : after[i].sn = b[i].sn /\ after[i].id = b[i].id /\ after[i].frg = b[i].frg
  BY <1>2, <1>4, TransmittedFacts
<1>10. Sending(m, off, ms) /\ Between(m, j)
  BY <1>6, <1>7, <1>8, <1>9, Recounted
<1>11. h \in Blocks /\ Core(h) = Core(m) /\ h.acklist = m.acklist
  BY <1>1, <1>3, <1>7, Closed
<1>12. /\ h.snd_una = m.snd_una /\ h.snd_nxt = m.snd_nxt /\ h.snd_queue = m.snd_queue /\ h.snd_buf = m.snd_buf
       /\ h.rcv_nxt = m.rcv_nxt /\ h.rcv_queue = m.rcv_queue /\ h.rcv_buf = m.rcv_buf
  BY <1>11, SameCore
<1>13. Sending(h, off, ms) /\ Between(h, j)
  BY <1>10, <1>12, SameSend
<1> QED  BY <1>7, <1>8, <1>11, <1>12, <1>13

----------------------------------------------------------------------------
(* What a flush puts out *)

\* Sequences over a smaller set are sequences over a larger one.
LEMMA SeqGrows ==
    ASSUME NEW S, NEW T, S \subseteq T
    PROVE  Seq(S) \subseteq Seq(T) /\ Seq(Seq(S)) \subseteq Seq(Seq(T))
<1>1. \A U, V : U \subseteq V => Seq(U) \subseteq Seq(V)
  <2> SUFFICES ASSUME NEW U, NEW V, U \subseteq V, NEW s \in Seq(U) PROVE s \in Seq(V)
    OBVIOUS
  <2>1. Len(s) \in Nat /\ s \in [1 .. Len(s) -> U] /\ \A i \in 1 .. Len(s) : s[i] \in U
    BY Elements
  <2>2. s \in [1 .. Len(s) -> V]
    BY <2>1
  <2> QED  BY <2>1, <2>2, IsSeq
<1>2. Seq(S) \subseteq Seq(T)
  BY <1>1
<1> QED  BY <1>1, <1>2

\* What was true of a side stays true while it receives and sends more.
LEMMA TruthsGrow ==
    ASSUME NEW k \in Blocks, NEW h \in Blocks, Pos(k.rcv_nxt) <= Pos(h.rcv_nxt), Pos(k.snd_nxt) <= Pos(h.snd_nxt),
           \A p \in Nat : Has(k, p) => Has(h, p),
           NEW off, NEW ms, NEW offh, NEW msh, \A x, p : At(off, ms, x, p) => At(offh, msh, x, p)
    PROVE  Truths(k, off, ms) \subseteq Truths(h, offh, msh)
<1> SUFFICES ASSUME NEW s \in Segments, Told(s, k, off, ms), s # Hello PROVE Told(s, h, offh, msh)
  BY DEF Truths, Told
<1>1. s.sn \in Sns /\ s.una \in Sns
  BY DEF Segments, Controls, Pushes
<1>2. /\ Pos(s.una) <= Pos(k.rcv_nxt)
      /\ s.cmd = "ACK" => Has(k, Pos(s.sn))
      /\ s.cmd = "PUSH" => Pos(s.sn) < Pos(k.snd_nxt) /\ At(off, ms, s, Pos(s.sn))
  BY DEF Told
<1>3. /\ Pos(s.una) \in Nat /\ Pos(s.sn) \in Nat /\ Pos(k.rcv_nxt) \in Nat /\ Pos(h.rcv_nxt) \in Nat
      /\ Pos(k.snd_nxt) \in Nat /\ Pos(h.snd_nxt) \in Nat
  BY <1>1, BlockFacts, SnFacts
<1>4. Pos(s.una) <= Pos(h.rcv_nxt)
  BY <1>2, <1>3
<1>5. s.cmd = "ACK" => Has(h, Pos(s.sn))
  BY <1>2, <1>3
<1>6. s.cmd = "PUSH" => Pos(s.sn) < Pos(h.snd_nxt)
  BY <1>2, <1>3
<1>7. s.cmd = "PUSH" => At(offh, msh, s, Pos(s.sn))
  BY <1>2
<1> QED  BY <1>4, <1>5, <1>6, <1>7 DEF Told

\* The free window is a number.
LEMMA Unused ==
    ASSUME NEW k \in Blocks
    PROVE  ikcp_wnd_unused(k) \in Nat
<1> DEFINE d == RcvWnd - Len(k.rcv_queue)
<1>1. d \in Int
  BY BlockFacts, KcpSizes
<1> HIDE DEF d
<1>2. Max({0, d}) = IF 0 <= d THEN d ELSE 0
  BY <1>1, MaxTwo
<1> QED  BY <1>1, <1>2 DEF ikcp_wnd_unused, d

\* The control segments tell what has been received.
LEMMA ControlTold ==
    ASSUME NEW k \in Blocks, NEW off, NEW ms, \A i \in 1 .. Len(k.acklist) : Has(k, Pos(k.acklist[i]))
    PROVE  ControlSegments(k) \in Seq(Truths(k, off, ms))
<1> DEFINE T == Truths(k, off, ms)
           a == k.acklist
           acks == [i \in DOMAIN a |-> Header(k, "ACK", a[i])]
           ask == IF k.ask_send THEN <<Header(k, "WASK", 0)>> ELSE <<>>
           tell == IF k.ask_tell THEN <<Header(k, "WINS", 0)>> ELSE <<>>
<1>1. k.rcv_nxt \in Sns /\ Pos(k.rcv_nxt) \in Nat /\ ikcp_wnd_unused(k) \in Nat /\ 0 \in Sns
  <2>1. 0 \in Sns
    BY KcpSizes DEF Sns
  <2> QED  BY <2>1, BlockFacts, SnFacts, Unused
<1>2. \A c \in {"ACK", "WASK", "WINS"}, sn \in Sns : (c = "ACK" => Has(k, Pos(sn))) => Header(k, c, sn) \in T
  <2> SUFFICES ASSUME NEW c \in {"ACK", "WASK", "WINS"}, NEW sn \in Sns, c = "ACK" => Has(k, Pos(sn))
               PROVE  Header(k, c, sn) \in Segments /\ Told(Header(k, c, sn), k, off, ms)
    BY DEF Truths
  <2> DEFINE w == ikcp_wnd_unused(k)
             s == Header(k, c, sn)
  <2>1. s = [cmd |-> c, sn |-> sn, wnd |-> w, una |-> k.rcv_nxt]
    BY DEF Header
  <2>2. w \in Nat
    BY <1>1
  <2> HIDE DEF w, s
  <2>3. s \in Controls /\ s.cmd = c /\ s.sn = sn /\ s.una = k.rcv_nxt
    BY <1>1, <2>1, <2>2 DEF Controls
  <2>4. s \in Segments
    BY <2>3 DEF Segments
  <2>5. Told(s, k, off, ms)
    BY <1>1, <2>3 DEF Told
  <2> QED  BY <2>4, <2>5 DEF s
<1>3. acks \in Seq(T)
  <2>1. Len(a) \in Nat /\ DOMAIN a = 1 .. Len(a) /\ \A i \in 1 .. Len(a) : a[i] \in Sns
    BY BlockFacts, Elements
  <2>2. \A i \in 1 .. Len(a) : Header(k, "ACK", a[i]) \in T
    BY <1>2, <2>1
  <2>3. acks \in [1 .. Len(a) -> T]
    BY <2>1, <2>2
  <2> HIDE DEF acks
  <2> QED  BY <2>1, <2>3, IsSeq
<1>4. ask \in Seq(T) /\ tell \in Seq(T)
  <2>1. Header(k, "WASK", 0) \in T /\ Header(k, "WINS", 0) \in T
    BY <1>1, <1>2
  <2> HIDE DEF T
  <2> QED  BY <2>1
<1>5. ControlSegments(k) = (acks \o ask) \o tell
  BY DEF ControlSegments
<1> HIDE DEF acks, ask, tell, T
<1>6. acks \o ask \in Seq(T)
  BY <1>3, <1>4, ConcatFacts
<1>7. (acks \o ask) \o tell \in Seq(T)
  BY <1>4, <1>6, ConcatFacts
<1> QED  BY <1>5, <1>7 DEF T

\* The data segments are what is in snd_buf.
LEMMA DataTold ==
    ASSUME NEW off, NEW ms, Fits(off, ms), NEW k \in Blocks, Sending(k, off, ms), NEW reason, DOMAIN reason = DOMAIN k.snd_buf
    PROVE  DataSegments(k, reason) \in Seq(Truths(k, off, ms))
<1> DEFINE T == Truths(k, off, ms)
           b == k.snd_buf
           w == ikcp_wnd_unused(k)
           push(s) == [cmd |-> "PUSH", sn |-> s.sn, wnd |-> w, una |-> k.rcv_nxt, id |-> s.id, frg |-> s.frg]
           part(i) == IF reason[i] = "none" THEN <<>> ELSE <<push(b[i])>>
           parts == [i \in DOMAIN reason |-> part(i)]
<1>1. DataSegments(k, reason) = FlattenSeq(parts)
  BY DEF DataSegments
<1>2. k.rcv_nxt \in Sns /\ Pos(k.rcv_nxt) \in Nat /\ w \in Nat
  BY BlockFacts, SnFacts, Unused
<1>3. Len(b) \in Nat /\ DOMAIN reason = 1 .. Len(b) /\ \A i \in 1 .. Len(b) : b[i] \in SendSegs
  BY BlockFacts
<1> HIDE DEF w
<1>4. \A i \in 1 .. Len(b) : push(b[i]) \in T
  <2> SUFFICES ASSUME NEW i \in 1 .. Len(b) PROVE push(b[i]) \in Segments /\ Told(push(b[i]), k, off, ms)
    BY DEF Truths
  <2> DEFINE x == b[i]
             s == push(x)
  <2>1. x.sn \in Sns /\ x.id \in Nat /\ x.frg \in Nat
    BY <1>3 DEF SendSegs
  <2>2. Pos(x.sn) < Pos(k.snd_nxt) /\ At(off, ms, x, Pos(x.sn))
    BY DEF Sending
  <2> HIDE DEF x
  <2>3. /\ s \in Pushes /\ s.cmd = "PUSH" /\ s.sn = x.sn /\ s.una = k.rcv_nxt /\ s.id = x.id /\ s.frg = x.frg
    BY <1>2, <2>1 DEF Pushes
  <2> HIDE DEF s
  <2>4. At(off, ms, s, Pos(s.sn))
    BY <2>2, <2>3 DEF At
  <2>5. Told(s, k, off, ms)
    BY <1>2, <2>2, <2>3, <2>4 DEF Told
  <2> QED  BY <2>3, <2>5 DEF Segments, s, x
<1> HIDE DEF T, push, b
<1>5. \A i \in 1 .. Len(b) : part(i) \in Seq(T)
  BY <1>4
<1> HIDE DEF part
<1>6. parts \in [1 .. Len(b) -> Seq(T)]
  BY <1>3, <1>5
<1> HIDE DEF parts
<1>7. parts \in Seq(Seq(T))
  BY <1>3, <1>6, IsSeq
<1> QED  BY <1>1, <1>7, FlattenFacts DEF T

\* Every datagram holds some of the segments.
LEMMA DatagramFacts ==
    ASSUME NEW T, NEW control \in Seq(T), NEW data \in Seq(T)
    PROVE  Datagrams(control, data) \in Seq(Seq(T))
<1> DEFINE P == PerDatagram
           l == Len(control)
           n == (l + P - 1) \div P
           part(j) == SubSeq(control, (j - 1) * P + 1, Min({j * P, l}))
           first == [j \in 1 .. n |-> part(j)]
           second == [j \in DOMAIN data |-> <<data[j]>>]
<1>1. Datagrams(control, data) = first \o second
  BY DEF Datagrams
<1>2. P \in Nat \ {0}
  <2> DEFINE M == Mss
             V == Overhead
             q == (M + V) \div V
  <2>1. M \in Nat \ {0} /\ V \in Nat \ {0}
    BY KcpAssumption
  <2>2. P = q
    BY DEF PerDatagram, Mtu
  <2> DEFINE m == M + V
             r == m % V
  <2>3. m \in Int /\ q = m \div V
    BY <2>1
  <2> HIDE DEF m, q, M, V
  <2>r. q \in Int /\ r \in 0 .. V - 1 /\ m = V * q + r
    BY <2>1, <2>3, DivMod
  <2>4. q \in Int /\ r \in Int
    BY <2>1, <2>r
  <2> HIDE DEF r
  <2>5. q > 0
    <3> SUFFICES ASSUME q <= 0 PROVE FALSE
      BY <2>4
    <3>1. V * q <= 0
      BY <2>1, <2>4
    <3> DEFINE z == V * q
    <3>2. z \in Int /\ z <= 0 /\ M + V = z + r
      BY <2>1, <2>4, <2>r, <3>1 DEF m
    <3> HIDE DEF z
    <3> QED  BY <2>1, <2>r, <3>2
  <2> QED  BY <2>2, <2>4, <2>5
<1>3. l \in Nat /\ DOMAIN data = 1 .. Len(data) /\ Len(data) \in Nat /\ DOMAIN control = 1 .. l
  BY Elements
<1> HIDE DEF P
<1>4. n \in Int
  BY <1>2, <1>3
<1> DEFINE N == IF n >= 0 THEN n ELSE 0
<1>5. N \in Nat /\ 1 .. n = 1 .. N
  BY <1>4
<1> HIDE DEF n, N
<1>6. \A j \in 1 .. n : part(j) \in Seq(T)
  <2> SUFFICES ASSUME NEW j \in 1 .. n PROVE part(j) \in Seq(T)
    OBVIOUS
  <2> DEFINE a == (j - 1) * P + 1
             c == j * P
             d == Min({c, l})
  <2>1. j \in Nat /\ 1 <= j
    BY <1>4
  <2>2. a \in Nat /\ 1 <= a /\ c \in Nat
    BY <1>2, <2>1
  <2> HIDE DEF a, c
  <2>3. d = IF c <= l THEN c ELSE l
    BY <1>3, <2>2, MinTwo
  <2>L. l \in Nat
    BY <1>3
  <2> HIDE DEF d, l
  <2>4. d \in Nat /\ d <= l
    BY <2>L, <2>2, <2>3
  <2>5. \A i \in a .. d : control[i] \in T
    <3> SUFFICES ASSUME NEW i \in a .. d PROVE control[i] \in T
      OBVIOUS
    <3>1. i \in 1 .. l
      BY <2>L, <2>2, <2>4
    <3> QED  BY <3>1, Elements DEF l
  <2>6. SubSeq(control, a, d) \in Seq(T)
    BY <2>2, <2>4, <2>5, SubSeqProperties
  <2> QED  BY <2>6 DEF a, d, c, l
<1> HIDE DEF part, l
<1>7. first \in [1 .. N -> Seq(T)]
  BY <1>5, <1>6
<1>8. second \in [1 .. Len(data) -> Seq(T)]
  <2>1. \A j \in 1 .. Len(data) : <<data[j]>> \in Seq(T)
    BY <1>3
  <2> QED  BY <1>3, <2>1
<1> HIDE DEF first, second
<1>9. first \in Seq(Seq(T)) /\ second \in Seq(Seq(T))
  BY <1>3, <1>5, <1>7, <1>8, IsSeq
<1> QED  BY <1>1, <1>9, ConcatFacts

\* What the network takes of a flush.
LEMMA Through ==
    ASSUME NEW T, NEW out \in Seq(T), NEW kept
    PROVE  FlattenSeq([i \in DOMAIN out |-> IF i \in kept THEN <<out[i]>> ELSE <<>>]) \in Seq(T)
<1> DEFINE part(i) == IF i \in kept THEN <<out[i]>> ELSE <<>>
           parts == [i \in DOMAIN out |-> part(i)]
<1>1. Len(out) \in Nat /\ DOMAIN out = 1 .. Len(out) /\ \A i \in 1 .. Len(out) : out[i] \in T
  BY Elements
<1>2. \A i \in 1 .. Len(out) : part(i) \in Seq(T)
  BY <1>1
<1> HIDE DEF part
<1>3. parts \in [1 .. Len(out) -> Seq(T)]
  BY <1>1, <1>2
<1>4. FlattenSeq(parts) = FlattenSeq([i \in DOMAIN out |-> IF i \in kept THEN <<out[i]>> ELSE <<>>])
  BY DEF part
<1> HIDE DEF parts
<1>5. parts \in Seq(Seq(T))
  BY <1>1, <1>3, IsSeq
<1> QED  BY <1>4, <1>5, FlattenFacts

\* k, which faces j, can be flushed.
Ready(k, j, off, ms) ==
    /\ Fits(off, ms) /\ k \in Blocks /\ Sending(k, off, ms) /\ j \in Blocks /\ Between(k, j)
    /\ \A i \in 1 .. Len(k.acklist) : Has(k, Pos(k.acklist[i]))

\* h is what a flush leaves of k.
Leaves(k, h, j, off, ms) ==
    /\ h \in Blocks /\ Sending(h, off, ms) /\ Between(h, j) /\ h.acklist = <<>>
    /\ h.rcv_nxt = k.rcv_nxt /\ h.rcv_queue = k.rcv_queue /\ h.rcv_buf = k.rcv_buf
    /\ Truths(k, off, ms) \subseteq Truths(h, off, ms)

\* A whole ikcp_flush() of one side (m is k after ProbeWindow): what it leaves behind, and
\* what it puts out.
LEMMA FlushFacts ==
    ASSUME NEW k, NEW j, NEW off, NEW ms, Ready(k, j, off, ms),
           NEW m \in Blocks, Core(m) = Core(k), m.acklist = k.acklist, NEW full, full = FillWindow(m),
           NEW reason, DOMAIN reason = DOMAIN full.snd_buf, NEW h, h = AfterFlush(full, reason)
    PROVE  /\ Leaves(k, h, j, off, ms)
           /\ Datagrams(ControlSegments(full), DataSegments(full, reason)) \in Seq(Seq(Truths(h, off, ms)))
<1>0. /\ Fits(off, ms) /\ k \in Blocks /\ Sending(k, off, ms) /\ j \in Blocks /\ Between(k, j)
      /\ \A i \in 1 .. Len(k.acklist) : Has(k, Pos(k.acklist[i]))
  BY DEF Ready
<1>1. m \in Blocks /\ Core(m) = Core(k) /\ m.acklist = k.acklist
  OBVIOUS
<1>2. full = FillWindow(m)
  OBVIOUS
<1>3. /\ m.snd_una = k.snd_una /\ m.snd_nxt = k.snd_nxt /\ m.snd_queue = k.snd_queue /\ m.snd_buf = k.snd_buf
      /\ m.rcv_nxt = k.rcv_nxt /\ m.rcv_queue = k.rcv_queue /\ m.rcv_buf = k.rcv_buf
  BY <1>1, SameCore
<1>4. Sending(m, off, ms) /\ Between(m, j)
  BY <1>0, <1>3, SameSend
<1>5. /\ full \in Blocks /\ Sending(full, off, ms) /\ Between(full, j) /\ Pos(m.snd_nxt) <= Pos(full.snd_nxt)
      /\ full.rcv_nxt = m.rcv_nxt /\ full.rcv_queue = m.rcv_queue /\ full.rcv_buf = m.rcv_buf /\ full.acklist = m.acklist
  BY <1>0, <1>1, <1>2, <1>4, Filled
<1>6. DOMAIN reason = DOMAIN full.snd_buf
  OBVIOUS
<1>7. /\ h \in Blocks /\ Sending(h, off, ms) /\ Between(h, j) /\ h.acklist = <<>> /\ h.snd_nxt = full.snd_nxt
      /\ h.rcv_nxt = full.rcv_nxt /\ h.rcv_queue = full.rcv_queue /\ h.rcv_buf = full.rcv_buf
  BY <1>0, <1>5, <1>6, Flushed
<1>8. full.rcv_nxt = k.rcv_nxt /\ full.rcv_queue = k.rcv_queue /\ full.rcv_buf = k.rcv_buf /\ full.acklist = k.acklist
  BY <1>1, <1>3, <1>5
<1>9. \A i \in 1 .. Len(full.acklist) : Has(full, Pos(full.acklist[i]))
  BY <1>0, <1>8 DEF Has
<1> DEFINE T == Truths(full, off, ms)
           U == Truths(h, off, ms)
<1>10. ControlSegments(full) \in Seq(T)
  BY <1>5, <1>9, ControlTold
<1>11. DataSegments(full, reason) \in Seq(T)
  BY <1>0, <1>5, <1>6, DataTold
<1> DEFINE c == ControlSegments(full)
           d == DataSegments(full, reason)
<1> HIDE DEF c, d
<1>12. T \subseteq U
  <2>1. \A p \in Nat : Has(full, p) => Has(h, p)
    BY <1>7 DEF Has
  <2>2. Pos(full.rcv_nxt) <= Pos(h.rcv_nxt) /\ Pos(full.snd_nxt) <= Pos(h.snd_nxt)
    BY <1>5, <1>7, BlockFacts, SnFacts
  <2>3. \A x, p : At(off, ms, x, p) => At(off, ms, x, p)
    OBVIOUS
  <2> QED  BY <1>5, <1>7, <2>1, <2>2, <2>3, TruthsGrow
<1> HIDE DEF T, U
<1>13. Datagrams(c, d) \in Seq(Seq(T))
  BY <1>10, <1>11, DatagramFacts DEF c, d
<1>14. Datagrams(c, d) \in Seq(Seq(U))
  BY <1>12, <1>13, SeqGrows
<1>15. Truths(k, off, ms) \subseteq U
  <2>1. \A p \in Nat : Has(k, p) => Has(h, p)
    BY <1>7, <1>8 DEF Has
  <2>2. Pos(k.rcv_nxt) <= Pos(h.rcv_nxt)
    BY <1>0, <1>7, <1>8, BlockFacts, SnFacts
  <2>3. Pos(k.snd_nxt) <= Pos(h.snd_nxt)
    BY <1>3, <1>5, <1>7
  <2>4. \A x, p : At(off, ms, x, p) => At(off, ms, x, p)
    OBVIOUS
  <2> QED  BY <1>0, <1>7, <2>1, <2>2, <2>3, <2>4, TruthsGrow DEF U
<1>16. Leaves(k, h, j, off, ms)
  BY <1>7, <1>8, <1>15 DEF Leaves, U
<1> QED  BY <1>14, <1>16 DEF U, c, d

\* more is ms and a message of n fragments, and on says where they are.
More(off, ms, n, on, more) ==
    more = Append(ms, Fragments(Len(ms) + 1, n)) /\ on = [off EXCEPT ![Len(ms) + 1] = off[Len(ms)] + n]

\* One more message: where its fragments are.
LEMMA MarkedMore ==
    ASSUME NEW off, NEW ms \in Seq(Seq(Frags)), Marked(off, ms), NEW n \in 1 .. RcvWnd - 1,
           NEW on, NEW more, More(off, ms, n, on, more)
    PROVE  /\ more \in Seq(Seq(Frags)) /\ Len(more) = Len(ms) + 1 /\ \A m \in 1 .. Len(ms) : more[m] = ms[m]
           /\ Marked(on, more) /\ on[Len(ms) + 1] = off[Len(ms)] + n
           /\ \A i \in 0 .. Len(ms) : on[i] = off[i]
           /\ \A x, p : At(off, ms, x, p) => At(on, more, x, p)
<1> DEFINE L == Len(ms)
           w == RcvWnd - 1
           o == off[L]
           f == Fragments(L + 1, n)
<1>1. L \in Nat /\ RcvWnd \in Nat \ {0} /\ w \in Nat
  BY KcpSizes, Elements
<1>2. /\ off \in [Nat -> Nat] /\ off[0] = 0
      /\ \A m \in 1 .. L : off[m] - off[m - 1] \in 1 .. RcvWnd - 1 /\ ms[m] = Fragments(m, off[m] - off[m - 1])
      /\ \A m \in 0 .. L : off[m] <= m * w
      /\ \A i, j \in 0 .. L : i < j => off[i] < off[j]
  BY DEF Marked
<1>3. n \in Nat /\ 1 <= n /\ n <= w
  BY <1>1
<1>4. f \in Seq(Frags)
  <2>1. \A i \in 1 .. n : Fragment(L + 1, n - i) \in Frags
    BY <1>1, <1>3 DEF Fragment, Frags
  <2>2. f \in [1 .. n -> Frags]
    BY <2>1 DEF Fragments
  <2> HIDE DEF f
  <2> QED  BY <1>3, <2>2, IsSeq
<1> HIDE DEF w, f
<1>5. more \in Seq(Seq(Frags)) /\ Len(more) = L + 1 /\ (\A m \in 1 .. L : more[m] = ms[m]) /\ more[L + 1] = f
  BY <1>4, AppendProperties DEF f, More
<1>6. o \in Nat
  BY <1>1, <1>2
<1>7. on = [off EXCEPT ![L + 1] = o + n]
  BY DEF More
<1>8. L + 1 \in Nat /\ o + n \in Nat
  BY <1>1, <1>3, <1>6
<1>w. w = RcvWnd - 1
  BY DEF w
<1>l. L = Len(ms)
  OBVIOUS
<1>o. o = off[L]
  OBVIOUS
<1> HIDE DEF L, o
<1>9. on \in [Nat -> Nat] /\ on[L + 1] = o + n /\ \A i \in Nat : i # L + 1 => on[i] = off[i]
  BY <1>2, <1>7, <1>8
<1>10. \A i \in 0 .. L : i \in Nat /\ on[i] = off[i] /\ off[i] \in Nat
  <2> SUFFICES ASSUME NEW i \in 0 .. L PROVE i \in Nat /\ on[i] = off[i] /\ off[i] \in Nat
    OBVIOUS
  <2>1. i \in Nat /\ i # L + 1
    BY <1>1
  <2> QED  BY <1>2, <1>9, <2>1
<1>11. Marked(on, more)
  <2>1. on[0] = 0
    BY <1>1, <1>2, <1>10
  <2>2. \A m \in 1 .. L + 1 : on[m] - on[m - 1] \in 1 .. RcvWnd - 1 /\ more[m] = Fragments(m, on[m] - on[m - 1])
    <3> SUFFICES ASSUME NEW m \in 1 .. L + 1
                 PROVE  on[m] - on[m - 1] \in 1 .. RcvWnd - 1 /\ more[m] = Fragments(m, on[m] - on[m - 1])
      OBVIOUS
    <3>1. CASE m \in 1 .. L
      <4>1. m \in 0 .. L /\ m - 1 \in 0 .. L
        BY <1>1, <3>1
      <4>2. on[m] = off[m] /\ on[m - 1] = off[m - 1] /\ more[m] = ms[m]
        BY <1>5, <1>10, <3>1, <4>1
      <4> QED  BY <1>2, <3>1, <4>2
    <3>2. CASE m = L + 1
      <4>1. m - 1 = L /\ L \in 0 .. L
        BY <1>1, <3>2
      <4>2. on[m] = o + n /\ on[m - 1] = o
        BY <1>9, <1>10, <1>o, <3>2, <4>1
      <4>3. on[m] - on[m - 1] = n
        BY <1>3, <1>6, <4>2
      <4>4. more[m] = Fragments(m, n)
        BY <1>5, <1>l, <3>2 DEF f
      <4> QED  BY <4>3, <4>4
    <3>3. m \in 1 .. L \/ m = L + 1
      BY <1>1
    <3> QED  BY <3>1, <3>2, <3>3
  <2>3. \A m \in 0 .. L + 1 : on[m] <= m * w
    <3> SUFFICES ASSUME NEW m \in 0 .. L + 1 PROVE on[m] <= m * w
      OBVIOUS
    <3>1. CASE m \in 0 .. L
      BY <1>2, <1>10, <3>1
    <3>2. CASE m = L + 1
      <4>1. o <= L * w
        BY <1>1, <1>2, <1>o
      <4> DEFINE z == L * w
      <4>2. z \in Nat /\ (L + 1) * w = z + w
        BY <1>1
      <4> HIDE DEF z
      <4>3. o + n <= z + w
        BY <1>1, <1>3, <1>6, <4>1, <4>2 DEF z
      <4> QED  BY <1>9, <3>2, <4>2, <4>3
    <3> QED  BY <1>1, <3>1, <3>2
  <2>4. \A i, j \in 0 .. L + 1 : i < j => on[i] < on[j]
    <3> SUFFICES ASSUME NEW i \in 0 .. L + 1, NEW j \in 0 .. L + 1, i < j PROVE on[i] < on[j]
      OBVIOUS
    <3>1. i \in 0 .. L /\ L \in 0 .. L
      BY <1>1
    <3>2. CASE j \in 0 .. L
      BY <1>2, <1>10, <3>1, <3>2
    <3>3. CASE j = L + 1
      <4>1. off[i] <= off[L]
        <5>1. CASE i = L
          BY <1>10, <3>1, <5>1
        <5>2. CASE i < L
          <6>1. off[i] < off[L] /\ off[i] \in Nat /\ off[L] \in Nat
            BY <1>2, <1>10, <3>1, <5>2
          <6> QED  BY <6>1
        <5>3. i = L \/ i < L
          BY <1>1, <3>1
        <5> QED  BY <5>1, <5>2, <5>3
      <4>2. on[i] = off[i] /\ off[i] \in Nat /\ on[j] = o + n
        BY <1>9, <1>10, <3>1, <3>3
      <4> QED  BY <1>3, <1>6, <1>o, <4>1, <4>2
    <3> QED  BY <1>1, <3>2, <3>3
  <2> QED  BY <1>5, <1>9, <1>w, <2>1, <2>2, <2>3, <2>4 DEF Marked
<1>12. \A x, p : At(off, ms, x, p) => At(on, more, x, p)
  <2> SUFFICES ASSUME NEW x, NEW p, At(off, ms, x, p) PROVE At(on, more, x, p)
    OBVIOUS
  <2> DEFINE d == x.id
  <2>1. d \in 1 .. L /\ x.frg \in 0 .. off[d] - off[d - 1] - 1 /\ p = off[d] - 1 - x.frg
    BY <1>l DEF At
  <2> HIDE DEF d
  <2>2. d \in 0 .. L /\ d - 1 \in 0 .. L /\ d \in 1 .. L + 1
    BY <1>1, <2>1
  <2>3. on[d] = off[d] /\ on[d - 1] = off[d - 1]
    BY <1>10, <2>2
  <2>4. d \in 1 .. Len(more)
    BY <1>5, <2>2
  <2>5. x.frg \in 0 .. on[d] - on[d - 1] - 1 /\ p = on[d] - 1 - x.frg
    BY <2>1, <2>3
  <2> QED  BY <2>4, <2>5 DEF At, d
<1> QED  BY <1>5, <1>9, <1>10, <1>11, <1>12, <1>l, <1>o

\* h is k but for its queue of what is to be sent.
Queued(k, h) ==
    /\ h.snd_nxt = k.snd_nxt /\ h.snd_una = k.snd_una /\ h.snd_buf = k.snd_buf
    /\ h.rcv_nxt = k.rcv_nxt /\ h.rcv_queue = k.rcv_queue /\ h.rcv_buf = k.rcv_buf /\ h.acklist = k.acklist

\* ikcp_send() on the sender's side.
LEMMA SendingMore ==
    ASSUME NEW off, NEW ms \in Seq(Seq(Frags)), Marked(off, ms), NEW n \in 1 .. RcvWnd - 1,
           NEW on, NEW more, More(off, ms, n, on, more),
           NEW k \in Blocks, Sending(k, off, ms), NEW h, h = ikcp_send(k, Len(ms) + 1, n)
    PROVE  h \in Blocks /\ Sending(h, on, more) /\ Queued(k, h)
<1>0. /\ more \in Seq(Seq(Frags)) /\ Len(more) = Len(ms) + 1 /\ \A m \in 1 .. Len(ms) : more[m] = ms[m]
      /\ Marked(on, more) /\ on[Len(ms) + 1] = off[Len(ms)] + n
      /\ \A i \in 0 .. Len(ms) : on[i] = off[i]
      /\ \A x, p : At(off, ms, x, p) => At(on, more, x, p)
  BY MarkedMore
<1> DEFINE L == Len(ms)
           o == off[L]
           f == Fragments(L + 1, n)
           q == k.snd_queue
           w == q \o f
           N == Pos(k.snd_nxt)
           Q == Len(q)
<1>1. L \in Nat /\ n \in Nat /\ 1 <= n /\ o \in Nat
  <2>0. L \in Nat /\ off \in [Nat -> Nat]
    BY Elements DEF Marked
  <2>n. n \in Nat /\ 1 <= n
    BY KcpSizes
  <2>1. L \in Nat /\ n \in Nat /\ 1 <= n /\ off \in [Nat -> Nat]
    BY <2>0, <2>n
  <2> HIDE DEF L
  <2> QED  BY <2>1
<1>2. f \in Seq(Frags) /\ Len(f) = n /\ \A i \in 1 .. n : f[i] = Fragment(L + 1, n - i)
  <2>1. \A i \in 1 .. n : Fragment(L + 1, n - i) \in Frags
    BY <1>1 DEF Fragment, Frags
  <2>2. f \in [1 .. n -> Frags] /\ \A i \in 1 .. n : f[i] = Fragment(L + 1, n - i)
    BY <2>1 DEF Fragments
  <2> HIDE DEF f
  <2> QED  BY <1>1, <2>2, IsSeq
<1>3. q \in Seq(Frags) /\ Q \in Nat
  BY BlockFacts
<1>4. h = [k EXCEPT !.snd_queue = w]
  BY DEF ikcp_send
<1>q. q = k.snd_queue /\ Q = Len(q)
  OBVIOUS
<1> HIDE DEF f, q
<1>5. w \in Seq(Frags) /\ Len(w) = Q + n /\ (\A i \in 1 .. Q : w[i] = q[i]) /\ \A i \in 1 .. n : w[Q + i] = f[i]
  <2>1. f \in Seq(Frags) /\ q \in Seq(Frags)
    BY <1>2, <1>3
  <2>2. /\ w \in Seq(Frags) /\ Len(w) = Len(q) + Len(f) /\ (\A i \in 1 .. Len(q) : w[i] = q[i])
        /\ \A i \in 1 .. Len(f) : w[Len(q) + i] = f[i]
    BY <2>1, ConcatFacts
  <2> QED  BY <1>2, <2>2
<1> HIDE DEF w
<1>6. /\ h \in Blocks /\ h.snd_queue = w /\ h.snd_nxt = k.snd_nxt /\ h.snd_una = k.snd_una
      /\ h.snd_buf = k.snd_buf /\ h.rcv_nxt = k.rcv_nxt /\ h.rcv_queue = k.rcv_queue /\ h.rcv_buf = k.rcv_buf
      /\ h.acklist = k.acklist
  BY <1>4, <1>5 DEF Blocks
<1>7. /\ Len(more) = L + 1 /\ on[L + 1] = o + n /\ (\A i \in 0 .. L : on[i] = off[i])
      /\ \A x, p : At(off, ms, x, p) => At(on, more, x, p)
  BY <1>0, Zenon
<1>8. /\ N + Q = o
      /\ \A i \in 1 .. Q : At(off, ms, q[i], N + i - 1)
      /\ Pos(k.snd_una) <= N /\ N - Pos(k.snd_una) <= SndWnd
      /\ k.snd_una = IF k.snd_buf = <<>> THEN k.snd_nxt ELSE k.snd_buf[1].sn
      /\ \A i \in 1 .. Len(k.snd_buf) : Pos(k.snd_buf[i].sn) < N /\ At(off, ms, k.snd_buf[i], Pos(k.snd_buf[i].sn))
      /\ \A i, j \in 1 .. Len(k.snd_buf) : i < j => Pos(k.snd_buf[i].sn) < Pos(k.snd_buf[j].sn)
  BY DEF Sending, q
<1>9. N \in Nat
  BY BlockFacts, SnFacts
<1>n. N = Pos(h.snd_nxt)
  BY <1>6
<1> DEFINE l == L + 1
<1>10. l \in Nat /\ l >= 1 /\ Len(more) = l /\ on[l] = o + n /\ l - 1 = L /\ on[L] = o
  BY <1>1, <1>7
<1>11. \A i \in 1 .. n : f[i] = Fragment(l, n - i)
  BY <1>2
<1> HIDE DEF N, L, Q, o, l
<1>12. N + Len(w) = on[Len(more)]
  <2>1. on[Len(more)] = o + n
    BY <1>10
  <2>2. Len(w) = Q + n /\ N + Q = o
    BY <1>5, <1>8
  <2> DEFINE a == on[Len(more)]
             c == Len(w)
  <2> HIDE DEF a, c
  <2>3. a = o + n /\ c = Q + n
    BY <2>1, <2>2 DEF a, c
  <2>4. N + c = a
    BY <1>1, <1>3, <1>9, <2>2, <2>3
  <2> QED  BY <2>4 DEF a, c
<1>13. \A i \in 1 .. Len(w) : At(on, more, w[i], N + i - 1)
  <2> SUFFICES ASSUME NEW i \in 1 .. Len(w) PROVE At(on, more, w[i], N + i - 1)
    OBVIOUS
  <2>1. CASE i \in 1 .. Q
    BY <1>5, <1>7, <1>8, <2>1
  <2>2. CASE i \in Q + 1 .. Q + n
    <3> DEFINE t == i - Q
    <3>1. t \in 1 .. n /\ i = Q + t
      BY <1>1, <1>3, <2>2
    <3> HIDE DEF t
    <3>2. w[i] = Fragment(l, n - t)
      BY <1>5, <1>11, <3>1
    <3>3. w[i].id = l /\ w[i].frg = n - t
      BY <3>2 DEF Fragment
    <3>4. l \in 1 .. Len(more) /\ n - t \in 0 .. on[l] - on[l - 1] - 1
      BY <1>1, <1>10, <3>1
    <3>5. N + i - 1 = on[l] - 1 - (n - t)
      BY <1>1, <1>3, <1>8, <1>9, <1>10, <3>1
    <3> QED  BY <3>3, <3>4, <3>5 DEF At
  <2>3. i \in 1 .. Q \/ i \in Q + 1 .. Q + n
    BY <1>1, <1>3, <1>5
  <2> QED  BY <2>1, <2>2, <2>3
<1>14. \A i \in 1 .. Len(k.snd_buf) : Pos(k.snd_buf[i].sn) < N /\ At(on, more, k.snd_buf[i], Pos(k.snd_buf[i].sn))
  BY <1>7, <1>8
<1>15. Sending(h, on, more)
  BY <1>6, <1>8, <1>12, <1>13, <1>14, <1>n DEF Sending
<1> QED  BY <1>6, <1>15 DEF Queued

\* ... and on the receiver's, whose messages are still those of the sender.
LEMMA ReceivingMore ==
    ASSUME NEW off, NEW ms \in Seq(Seq(Frags)), Marked(off, ms), NEW n \in 1 .. RcvWnd - 1,
           NEW on, NEW more, More(off, ms, n, on, more),
           NEW j \in Blocks, NEW rs \in Seq(Seq(Frags)), Receiving(j, off, ms, rs)
    PROVE  Receiving(j, on, more, rs)
<1>0. /\ more \in Seq(Seq(Frags)) /\ Len(more) = Len(ms) + 1 /\ \A m \in 1 .. Len(ms) : more[m] = ms[m]
      /\ Marked(on, more) /\ on[Len(ms) + 1] = off[Len(ms)] + n
      /\ \A i \in 0 .. Len(ms) : on[i] = off[i]
      /\ \A x, p : At(off, ms, x, p) => At(on, more, x, p)
  BY MarkedMore
<1> DEFINE L == Len(ms)
           R == Len(rs)
<1>1. L \in Nat /\ R \in Nat
  BY Elements
<1>2. /\ Len(more) = L + 1 /\ (\A m \in 1 .. L : more[m] = ms[m]) /\ (\A i \in 0 .. L : on[i] = off[i])
      /\ \A x, p : At(off, ms, x, p) => At(on, more, x, p)
  BY <1>0, Zenon
<1>3. /\ R <= L /\ \A m \in 1 .. R : rs[m] = ms[m]
      /\ off[R] + Len(j.rcv_queue) = Pos(j.rcv_nxt)
      /\ \A i \in 1 .. Len(j.rcv_queue) : At(off, ms, j.rcv_queue[i], off[R] + i - 1)
      /\ \A i \in 1 .. Len(j.rcv_buf) : At(off, ms, j.rcv_buf[i], Pos(j.rcv_buf[i].sn))
  BY DEF Receiving, Holding
<1> HIDE DEF L, R
<1>4. R <= L + 1 /\ on[R] = off[R]
  BY <1>1, <1>2, <1>3
<1>5. \A m \in 1 .. R : rs[m] = more[m]
  BY <1>1, <1>2, <1>3
<1>6. \A i \in 1 .. Len(j.rcv_queue) : At(on, more, j.rcv_queue[i], on[R] + i - 1)
  BY <1>2, <1>3, <1>4
<1>7. \A i \in 1 .. Len(j.rcv_buf) : At(on, more, j.rcv_buf[i], Pos(j.rcv_buf[i].sn))
  BY <1>2, <1>3
<1>8. R = Len(rs)
  BY DEF R
<1>9. Holding(j, on, more, rs)
  <2>1. Len(rs) <= Len(more) /\ \A m \in 1 .. Len(rs) : rs[m] = more[m]
    BY <1>2, <1>4, <1>5, <1>8
  <2>2. on[Len(rs)] + Len(j.rcv_queue) = Pos(j.rcv_nxt) /\ Len(j.rcv_queue) <= RcvWnd
    BY <1>3, <1>4, <1>8 DEF Receiving, Holding
  <2>3. \A i \in 1 .. Len(j.rcv_queue) : At(on, more, j.rcv_queue[i], on[Len(rs)] + i - 1)
    BY <1>6, <1>8
  <2>4. \A i \in 1 .. Len(j.rcv_buf) : Pos(j.rcv_buf[i].sn) \in Pos(j.rcv_nxt) .. Pos(j.rcv_nxt) + RcvWnd - 1
    BY DEF Receiving, Holding
  <2>5. \A i, g \in 1 .. Len(j.rcv_buf) : i < g => Pos(j.rcv_buf[i].sn) < Pos(j.rcv_buf[g].sn)
    BY DEF Receiving, Holding
  <2> QED  BY <1>7, <2>1, <2>2, <2>3, <2>4, <2>5 DEF Holding
<1> QED  BY <1>9 DEF Receiving

----------------------------------------------------------------------------
(* Steps *)

\* There are two sides, which face each other.
LEMMA Opposite ==
    ASSUME NEW e \in Sides
    PROVE  Peer(e) \in Sides /\ Peer(e) # e /\ Peer(Peer(e)) = e /\ \A s \in Sides : s = e \/ s = Peer(e)
  BY DEF Sides, Peer

\* What the invariant says of a side and the one it faces.
LEMMA Both ==
    ASSUME TypeInv, NEW e \in Sides, NEW p, p = Peer(e), NEW off, Direction(e, off), NEW offp, Direction(p, offp)
    PROVE  /\ p \in Sides /\ Peer(p) = e
           /\ kcp[e] \in Blocks /\ kcp[p] \in Blocks /\ sent[e] \in Seq(Seq(Frags)) /\ sent[p] \in Seq(Seq(Frags))
           /\ received[e] \in Seq(Seq(Frags)) /\ received[p] \in Seq(Seq(Frags))
           /\ Fits(off, sent[e]) /\ Fits(offp, sent[p]) /\ Marked(off, sent[e]) /\ Marked(offp, sent[p])
           /\ Sending(kcp[e], off, sent[e]) /\ Sending(kcp[p], offp, sent[p])
           /\ Receiving(kcp[p], off, sent[e], received[p])
           /\ Linked(kcp[e], kcp[p], off, sent[e], offp, sent[p], received[e])
<1>1. p \in Sides /\ Peer(p) = e
  BY Opposite
<1>2. /\ kcp[e] \in Blocks /\ kcp[p] \in Blocks /\ sent[e] \in Seq(Seq(Frags)) /\ sent[p] \in Seq(Seq(Frags))
      /\ received[e] \in Seq(Seq(Frags)) /\ received[p] \in Seq(Seq(Frags))
  BY <1>1 DEF TypeInv
<1>3. /\ Marked(off, sent[e]) /\ Len(sent[e]) <= MaxSend[e] /\ Sending(kcp[e], off, sent[e])
      /\ Receiving(kcp[p], off, sent[e], received[p]) /\ Between(kcp[e], kcp[p])
      /\ \A i \in 1 .. Len(kcp[e].acklist) : Has(kcp[e], Pos(kcp[e].acklist[i]))
  BY DEF Direction, NetTold
<1>4. /\ Marked(offp, sent[p]) /\ Len(sent[p]) <= MaxSend[p] /\ Sending(kcp[p], offp, sent[p])
      /\ Receiving(kcp[e], offp, sent[p], received[e]) /\ Between(kcp[p], kcp[e])
  BY <1>1 DEF Direction
<1>5. Fits(off, sent[e]) /\ Fits(offp, sent[p])
  BY <1>1, <1>2, <1>3, <1>4, DirectionFits
<1>6. Linked(kcp[e], kcp[p], off, sent[e], offp, sent[p], received[e])
  BY <1>2, <1>3, <1>4 DEF Linked
<1> QED  BY <1>1, <1>2, <1>3, <1>4, <1>5, <1>6

\* Truths are segments.
LEMMA TruthsAreSegments ==
    ASSUME NEW k, NEW off, NEW ms
    PROVE  Seq(Truths(k, off, ms)) \subseteq Seq(Segments) /\ Seq(Seq(Truths(k, off, ms))) \subseteq Seq(Seq(Segments))
<1>1. Truths(k, off, ms) \subseteq Segments
  BY DEF Truths
<1> QED  BY <1>1, SeqGrows

\* A step of side e keeps the invariant if both directions keep their parts of it.
LEMMA Stepped ==
    ASSUME TypeInv, NEW e \in Sides, NEW p, p = Peer(e), NEW on, NEW offp, Direction(p, offp), NEW h \in Blocks,
           kcp' = [kcp EXCEPT ![e] = h],
           sent' \in [Sides -> Seq(Seq(Frags))], received' \in [Sides -> Seq(Seq(Frags))], recv_chn' \in Nat,
           net' = [s \in Sides |-> net'[s]], sent'[p] = sent[p], received'[p] = received[p],
           Marked(on, sent'[e]), Len(sent'[e]) <= MaxSend[e], Sending(h, on, sent'[e]),
           Receiving(kcp[p], on, sent'[e], received[p]), Between(h, kcp[p]),
           net'[p] \in Seq(Seq(Truths(h, on, sent'[e]))), e = "client" => recv_buf' \in Seq(Truths(h, on, sent'[e])),
           \A i \in 1 .. Len(h.acklist) : Has(h, Pos(h.acklist[i])),
           Receiving(h, offp, sent[p], received'[e]), Between(kcp[p], h),
           net'[e] \in Seq(Seq(Truths(kcp[p], offp, sent[p]))),
           p = "client" => recv_buf' \in Seq(Truths(kcp[p], offp, sent[p]))
    PROVE  Inv'
<1>1. p \in Sides /\ Peer(p) = e /\ p # e /\ \A s \in Sides : s = e \/ s = p
  BY Opposite
<1>2. kcp \in [Sides -> Blocks]
  BY DEF TypeInv
<1>3. kcp' \in [Sides -> Blocks] /\ kcp'[e] = h /\ kcp'[p] = kcp[p]
  BY <1>1, <1>2
<1>4. net' \in [Sides -> Seq(Seq(Segments))]
  <2>1. net'[e] \in Seq(Seq(Segments)) /\ net'[p] \in Seq(Seq(Segments))
    BY TruthsAreSegments
  <2>2. \A s \in Sides : net'[s] \in Seq(Seq(Segments))
    BY <1>1, <2>1
  <2> QED  BY <2>2
<1>5. TypeInv'
  BY <1>3, <1>4 DEF TypeInv
<1>6. Direction(e, on)'
  BY <1>3 DEF Direction, NetTold
<1>7. Direction(p, offp)'
  <2>1. /\ Marked(offp, sent[p]) /\ Len(sent[p]) <= MaxSend[p] /\ Sending(kcp[p], offp, sent[p])
        /\ \A i \in 1 .. Len(kcp[p].acklist) : Has(kcp[p], Pos(kcp[p].acklist[i]))
    BY DEF Direction, NetTold
  <2> QED  BY <1>1, <1>3, <2>1 DEF Direction, NetTold
<1>8. on \in [Nat -> Nat] /\ offp \in [Nat -> Nat]
  BY DEF Marked, Direction
<1>9. \A s \in Sides : \E off \in [Nat -> Nat] : Direction(s, off)'
  BY <1>1, <1>6, <1>7, <1>8
<1> QED  BY <1>5, <1>9 DEF Inv

\* The truths a side has told stay true when it receives more.
LEMMA StillTrue ==
    ASSUME NEW k \in Blocks, NEW h \in Blocks, Grown(k, h), NEW off, NEW ms
    PROVE  /\ Seq(Truths(k, off, ms)) \subseteq Seq(Truths(h, off, ms))
           /\ Seq(Seq(Truths(k, off, ms))) \subseteq Seq(Seq(Truths(h, off, ms)))
<1>1. /\ Pos(k.rcv_nxt) <= Pos(h.rcv_nxt) /\ Pos(k.snd_nxt) <= Pos(h.snd_nxt)
      /\ \A p \in Nat : Has(k, p) => Has(h, p)
  BY BlockFacts, SnFacts DEF Grown
<1>2. \A x, p : At(off, ms, x, p) => At(off, ms, x, p)
  OBVIOUS
<1>3. Truths(k, off, ms) \subseteq Truths(h, off, ms)
  BY <1>1, <1>2, TruthsGrow
<1> QED  BY <1>3, SeqGrows

\* ikcp_update() as a step: the control block and the network.
LEMMA UpdateStep ==
    ASSUME NEW e \in Sides, NEW p, p = Peer(e), NEW off, NEW ms, NEW k, Ready(k, kcp[p], off, ms),
           net \in [Sides -> Seq(Seq(Segments))], net[p] \in Seq(Seq(Truths(k, off, ms))), ikcp_update(e, k)
    PROVE  \E h : /\ Leaves(k, h, kcp[p], off, ms) /\ kcp' = [kcp EXCEPT ![e] = h]
                  /\ net' = [s \in Sides |-> net'[s]] /\ net'[e] = net[e]
                  /\ net'[p] \in Seq(Seq(Truths(h, off, ms)))
<1>u. PICK late \in SUBSET Numbers(k.snd_buf), probeLate \in BOOLEAN : ikcp_flush(e, k, late, probeLate, TRUE)
  BY DEF ikcp_update
<1>0. PICK full \in {FillWindow(ProbeWindow(k, probeLate))} :
        \E reason \in {SendReasons(full.snd_buf, late)} :
        \E out \in {Datagrams(ControlSegments(full), DataSegments(full, reason))} :
            /\ kcp' = [kcp EXCEPT ![e] = AfterFlush(full, reason)]
            /\ \E kept \in SUBSET DOMAIN out : kcp_output(e, out, kept)
  BY <1>u DEF ikcp_flush
<1>1. PICK reason \in {SendReasons(full.snd_buf, late)} :
        \E out \in {Datagrams(ControlSegments(full), DataSegments(full, reason))} :
            /\ kcp' = [kcp EXCEPT ![e] = AfterFlush(full, reason)]
            /\ \E kept \in SUBSET DOMAIN out : kcp_output(e, out, kept)
  BY <1>0
<1>2. PICK out \in {Datagrams(ControlSegments(full), DataSegments(full, reason))} :
            /\ kcp' = [kcp EXCEPT ![e] = AfterFlush(full, reason)]
            /\ \E kept \in SUBSET DOMAIN out : kcp_output(e, out, kept)
  BY <1>1
<1>3. PICK kept \in SUBSET DOMAIN out : kcp_output(e, out, kept)
  BY <1>2
<1> DEFINE m == ProbeWindow(k, probeLate)
           h == AfterFlush(full, reason)
           T == Truths(h, off, ms)
           through == FlattenSeq([i \in DOMAIN out |-> IF i \in kept THEN <<out[i]>> ELSE <<>>])
<1>b. k \in Blocks
  BY DEF Ready
<1>m. m \in Blocks /\ Core(m) = Core(k) /\ m.acklist = k.acklist
  BY <1>b, Probed
<1>4. /\ full = FillWindow(m) /\ reason = SendReasons(full.snd_buf, late)
      /\ out = Datagrams(ControlSegments(full), DataSegments(full, reason))
  OBVIOUS
<1>5. net' = [net EXCEPT ![p] = net[p] \o through]
  BY <1>3 DEF kcp_output
<1>h. h = AfterFlush(full, reason)
  OBVIOUS
<1> HIDE DEF h, m
<1>6. Leaves(k, h, kcp[p], off, ms) /\ out \in Seq(Seq(T))
  <2>1. DOMAIN reason = DOMAIN full.snd_buf
    BY <1>4 DEF SendReasons
  <2>2. /\ Leaves(k, h, kcp[p], off, ms)
        /\ Datagrams(ControlSegments(full), DataSegments(full, reason)) \in Seq(Seq(T))
    BY <1>4, <1>h, <1>m, <2>1, FlushFacts
  <2> QED  BY <1>4, <2>2
<1>7. Truths(k, off, ms) \subseteq T
  BY <1>6 DEF Leaves
<1> HIDE DEF T
<1>8. through \in Seq(Seq(T))
  BY <1>6, Through
<1> HIDE DEF through
<1>9. net[p] \in Seq(Seq(T))
  BY <1>7, SeqGrows
<1>10. net[p] \o through \in Seq(Seq(T))
  BY <1>8, <1>9, ConcatFacts
<1>11. p \in Sides /\ p # e
  BY Opposite
<1>12. net' = [s \in Sides |-> net'[s]] /\ net'[e] = net[e] /\ net'[p] = net[p] \o through
  BY <1>5, <1>11
<1>13. kcp' = [kcp EXCEPT ![e] = h]
  BY <1>2, <1>h
<1>14. net'[p] \in Seq(Seq(Truths(h, off, ms)))
  BY <1>10, <1>12 DEF T
<1>15. Leaves(k, h, kcp[p], off, ms)
  BY <1>6
<1> QED  BY <1>12, <1>13, <1>14, <1>15

\* A step of side e whose last part is ikcp_update() on the control block k.
LEMMA Updated ==
    ASSUME TypeInv, NEW e \in Sides, NEW p, p = Peer(e), NEW on, NEW offp, Direction(p, offp), NEW k \in Blocks,
           sent' \in [Sides -> Seq(Seq(Frags))], received' = received, recv_chn' = recv_chn, recv_buf' = recv_buf,
           sent'[p] = sent[p], Marked(on, sent'[e]), Len(sent'[e]) <= MaxSend[e], Sending(k, on, sent'[e]),
           Receiving(kcp[p], on, sent'[e], received[p]), Between(k, kcp[p]),
           k.rcv_nxt = kcp[e].rcv_nxt, k.rcv_queue = kcp[e].rcv_queue, k.rcv_buf = kcp[e].rcv_buf,
           net[p] \in Seq(Seq(Truths(k, on, sent'[e]))), e = "client" => recv_buf \in Seq(Truths(k, on, sent'[e])),
           \A i \in 1 .. Len(k.acklist) : Has(k, Pos(k.acklist[i])),
           ikcp_update(e, k)
    PROVE  Inv'
<1> DEFINE ms == sent'[e]
<1>2. p \in Sides /\ Peer(p) = e
  BY Opposite
<1>3. /\ kcp[p] \in Blocks /\ net \in [Sides -> Seq(Seq(Segments))] /\ ms \in Seq(Seq(Frags))
      /\ received \in [Sides -> Seq(Seq(Frags))] /\ recv_chn \in Nat
  BY <1>2 DEF TypeInv
<1>4. Fits(on, ms)
  BY <1>3, DirectionFits
<1> HIDE DEF ms
<1>m. ms = sent'[e]
  BY DEF ms
<1>r. Ready(k, kcp[p], on, ms)
  BY <1>3, <1>4, <1>m DEF Ready
<1>n. net[p] \in Seq(Seq(Truths(k, on, ms)))
  BY <1>m
<1>q. PICK h : /\ Leaves(k, h, kcp[p], on, ms) /\ kcp' = [kcp EXCEPT ![e] = h]
               /\ net' = [s \in Sides |-> net'[s]] /\ net'[e] = net[e]
               /\ net'[p] \in Seq(Seq(Truths(h, on, ms)))
  BY <1>3, <1>r, <1>n, UpdateStep
<1>5. /\ h \in Blocks /\ kcp' = [kcp EXCEPT ![e] = h]
      /\ Sending(h, on, ms) /\ Between(h, kcp[p]) /\ h.acklist = <<>>
      /\ h.rcv_nxt = k.rcv_nxt /\ h.rcv_queue = k.rcv_queue /\ h.rcv_buf = k.rcv_buf
      /\ Truths(k, on, ms) \subseteq Truths(h, on, ms)
      /\ net' = [s \in Sides |-> net'[s]] /\ net'[e] = net[e]
      /\ net'[p] \in Seq(Seq(Truths(h, on, ms)))
  BY <1>q DEF Leaves
<1>6. /\ Receiving(kcp[e], offp, sent[p], received[e]) /\ Between(kcp[p], kcp[e])
      /\ net[e] \in Seq(Seq(Truths(kcp[p], offp, sent[p]))) /\ (p = "client" => recv_buf \in Seq(Truths(kcp[p], offp, sent[p])))
  BY <1>2 DEF Direction, NetTold
<1>7. Receiving(h, offp, sent[p], received[e]) /\ Between(kcp[p], h)
  <2>1. h.rcv_nxt = kcp[e].rcv_nxt /\ h.rcv_queue = kcp[e].rcv_queue /\ h.rcv_buf = kcp[e].rcv_buf
    BY <1>5
  <2> QED  BY <1>6, <2>1, SameReceive
<1>8. e = "client" => recv_buf' \in Seq(Truths(h, on, ms))
  BY <1>5, <1>m, SeqGrows
<1>9. \A i \in 1 .. Len(h.acklist) : Has(h, Pos(h.acklist[i]))
  BY <1>5
<1>10. received'[p] = received[p] /\ received'[e] = received[e] /\ received' \in [Sides -> Seq(Seq(Frags))] /\ recv_chn' \in Nat
  BY <1>3
<1>11. net'[e] \in Seq(Seq(Truths(kcp[p], offp, sent[p])))
  BY <1>5, <1>6
<1>12. p = "client" => recv_buf' \in Seq(Truths(kcp[p], offp, sent[p]))
  BY <1>6
<1>13. Receiving(h, offp, sent[p], received'[e])
  BY <1>7, <1>10
<1> QED  BY <1>5, <1>7, <1>8, <1>9, <1>10, <1>11, <1>12, <1>13, <1>m, Stepped

\* The timer fiber.
LEMMA TimerStep ==
    ASSUME Inv, NEW e \in Sides, Timer(e)
    PROVE  Inv'
<1> DEFINE p == Peer(e)
<1>1. p \in Sides
  BY Opposite
<1>2. PICK off \in [Nat -> Nat] : Direction(e, off)
  BY DEF Inv
<1>3. PICK offp \in [Nat -> Nat] : Direction(p, offp)
  BY <1>1 DEF Inv
<1>p. p = Peer(e)
  OBVIOUS
<1> HIDE DEF p
<1>4. TypeInv
  BY DEF Inv
<1>5. /\ kcp[e] \in Blocks /\ Marked(off, sent[e]) /\ Sending(kcp[e], off, sent[e])
      /\ Receiving(kcp[p], off, sent[e], received[p])
      /\ Linked(kcp[e], kcp[p], off, sent[e], offp, sent[p], received[e])
  BY <1>2, <1>3, <1>4, <1>p, Both
<1>6. Between(kcp[e], kcp[p]) /\ \A i \in 1 .. Len(kcp[e].acklist) : Has(kcp[e], Pos(kcp[e].acklist[i]))
  BY <1>5 DEF Linked
<1>7. /\ ikcp_update(e, kcp[e]) /\ received' = received /\ recv_chn' = recv_chn /\ recv_buf' = recv_buf /\ sent' = sent
  BY DEF Timer
<1>8. /\ sent' \in [Sides -> Seq(Seq(Frags))] /\ sent'[p] = sent[p] /\ sent'[e] = sent[e]
  BY <1>4, <1>7 DEF TypeInv
<1>9. /\ net[p] \in Seq(Seq(Truths(kcp[e], off, sent[e]))) /\ (e = "client" => recv_buf \in Seq(Truths(kcp[e], off, sent[e])))
      /\ Len(sent[e]) <= MaxSend[e]
  BY <1>2, <1>p DEF Direction, NetTold
<1> DEFINE k == kcp[e]
<1>10. k \in Blocks /\ k.rcv_nxt = kcp[e].rcv_nxt /\ k.rcv_queue = kcp[e].rcv_queue /\ k.rcv_buf = kcp[e].rcv_buf
  BY <1>5
<1>11. /\ Marked(off, sent'[e]) /\ Len(sent'[e]) <= MaxSend[e] /\ Sending(k, off, sent'[e])
       /\ Receiving(kcp[p], off, sent'[e], received[p]) /\ Between(k, kcp[p])
       /\ net[p] \in Seq(Seq(Truths(k, off, sent'[e]))) /\ (e = "client" => recv_buf \in Seq(Truths(k, off, sent'[e])))
       /\ (\A i \in 1 .. Len(k.acklist) : Has(k, Pos(k.acklist[i]))) /\ ikcp_update(e, k)
  BY <1>5, <1>6, <1>7, <1>8, <1>9
<1> HIDE DEF k
<1> QED  BY <1>3, <1>4, <1>7, <1>8, <1>10, <1>11, <1>p, Updated

\* send(), whether or not it flushes.
LEMMA SendStep ==
    ASSUME Inv, NEW e \in Sides, NEW n \in Sizes, Send(e, n)
    PROVE  Inv'
<1> DEFINE p == Peer(e)
           ms == sent[e]
           L == Len(ms)
           more == Append(ms, Fragments(L + 1, n))
           k == ikcp_send(kcp[e], L + 1, n)
<1>1. p \in Sides
  BY Opposite
<1>2. PICK off \in [Nat -> Nat] : Direction(e, off)
  BY DEF Inv
<1>3. PICK offp \in [Nat -> Nat] : Direction(p, offp)
  BY <1>1 DEF Inv
<1>p. p = Peer(e) /\ p # e
  BY Opposite
<1> HIDE DEF p
<1>4. TypeInv
  BY DEF Inv
<1>5. /\ kcp[e] \in Blocks /\ kcp[p] \in Blocks /\ Marked(off, ms) /\ Sending(kcp[e], off, ms) /\ Receiving(kcp[p], off, ms, received[p])
      /\ Linked(kcp[e], kcp[p], off, ms, offp, sent[p], received[e])
      /\ ms \in Seq(Seq(Frags)) /\ received[p] \in Seq(Seq(Frags))
  BY <1>2, <1>3, <1>4, <1>p, Both
<1>6. Between(kcp[e], kcp[p]) /\ \A i \in 1 .. Len(kcp[e].acklist) : Has(kcp[e], Pos(kcp[e].acklist[i]))
  BY <1>5 DEF Linked
<1>7. /\ received' = received /\ recv_chn' = recv_chn /\ recv_buf' = recv_buf /\ sent' = [sent EXCEPT ![e] = more]
      /\ L < MaxSend[e] /\ n < RcvWnd /\ (ikcp_update(e, k) \/ (kcp' = [kcp EXCEPT ![e] = k] /\ net' = net))
  BY DEF Send, CanSend
<1>8. n \in 1 .. RcvWnd - 1
  BY <1>7, UdpAssumption, KcpSizes
<1> DEFINE on == [off EXCEPT ![L + 1] = off[L] + n]
<1>9. More(off, ms, n, on, more)
  BY DEF More
<1> DEFINE g == kcp[e]
<1>g. g = kcp[e] /\ k = ikcp_send(g, Len(ms) + 1, n)
  OBVIOUS
<1>l. L = Len(ms)
  OBVIOUS
<1>s. ms = sent[e]
  OBVIOUS
<1> HIDE DEF on, more, k, g, L, ms
<1>b. g \in Blocks /\ Sending(g, off, ms)
  BY <1>5, <1>g
<1>10. /\ more \in Seq(Seq(Frags)) /\ Len(more) = Len(ms) + 1 /\ Marked(on, more)
       /\ \A x, q : At(off, ms, x, q) => At(on, more, x, q)
  BY <1>5, <1>8, <1>9, MarkedMore
<1>11. Receiving(kcp[p], on, more, received[p])
  BY <1>5, <1>8, <1>9, ReceivingMore
<1>12. /\ k \in Blocks /\ Sending(k, on, more) /\ k.snd_nxt = g.snd_nxt /\ k.snd_una = g.snd_una
       /\ k.snd_buf = g.snd_buf /\ k.rcv_nxt = g.rcv_nxt /\ k.rcv_queue = g.rcv_queue /\ k.rcv_buf = g.rcv_buf
       /\ k.acklist = g.acklist
  <2>1. k = ikcp_send(g, Len(ms) + 1, n)
    BY <1>g
  <2>2. ms \in Seq(Seq(Frags)) /\ Marked(off, ms)
    BY <1>5
  <2>3. k \in Blocks /\ Sending(k, on, more) /\ Queued(g, k)
    BY <1>8, <1>9, <1>b, <2>1, <2>2, SendingMore
  <2> QED  BY <2>3 DEF Queued
<1>13. Between(k, kcp[p])
  BY <1>6, <1>12, <1>g DEF Between
<1>14. \A i \in 1 .. Len(k.acklist) : Has(k, Pos(k.acklist[i]))
  BY <1>6, <1>12, <1>g DEF Has
<1>15. Truths(g, off, ms) \subseteq Truths(k, on, more)
  <2>1. Pos(g.rcv_nxt) <= Pos(k.rcv_nxt) /\ Pos(g.snd_nxt) <= Pos(k.snd_nxt)
    <3>1. /\ Pos(g.rcv_nxt) \in Nat /\ Pos(g.snd_nxt) \in Nat
      BY <1>b, BlockFacts, SnFacts
    <3> QED  BY <1>12, <3>1
  <2>2. \A q \in Nat : Has(g, q) => Has(k, q)
    BY <1>12 DEF Has
  <2> QED  BY <1>b, <1>10, <1>12, <2>1, <2>2, TruthsGrow
<1>16. sent' \in [Sides -> Seq(Seq(Frags))] /\ sent'[e] = more /\ sent'[p] = sent[p]
  BY <1>4, <1>7, <1>10, <1>p DEF TypeInv
<1>17. Len(more) <= MaxSend[e]
  <2>1. L \in Nat /\ MaxSend[e] \in Nat
    <3>1. L \in Nat
      BY <1>5, <1>l, Elements
    <3>2. MaxSend[e] \in Nat
      BY UdpAssumption DEF Sides
    <3> QED  BY <3>1, <3>2
  <2> DEFINE M == MaxSend[e]
             l == Len(more)
  <2>2. M \in Nat /\ L < M /\ l = L + 1
    BY <1>7, <1>10, <1>l, <2>1
  <2> HIDE DEF M, l
  <2>3. l <= M
    BY <2>1, <2>2
  <2> QED  BY <2>3 DEF M, l
<1>18. net[p] \in Seq(Seq(Truths(k, on, more))) /\ (e = "client" => recv_buf \in Seq(Truths(k, on, more)))
  <2>1. net[p] \in Seq(Seq(Truths(g, off, ms))) /\ (e = "client" => recv_buf \in Seq(Truths(g, off, ms)))
    BY <1>2, <1>g, <1>s, <1>p DEF Direction, NetTold
  <2> QED  BY <1>15, <2>1, SeqGrows
<1>19. CASE ikcp_update(e, k)
  <2>1. /\ Marked(on, sent'[e]) /\ Len(sent'[e]) <= MaxSend[e] /\ Sending(k, on, sent'[e])
        /\ Receiving(kcp[p], on, sent'[e], received[p])
        /\ net[p] \in Seq(Seq(Truths(k, on, sent'[e]))) /\ (e = "client" => recv_buf \in Seq(Truths(k, on, sent'[e])))
    BY <1>10, <1>11, <1>12, <1>16, <1>17, <1>18
  <2>2. k.rcv_nxt = kcp[e].rcv_nxt /\ k.rcv_queue = kcp[e].rcv_queue /\ k.rcv_buf = kcp[e].rcv_buf
    BY <1>12, <1>g
  <2> QED  BY <1>3, <1>4, <1>7, <1>12, <1>13, <1>14, <1>16, <1>19, <1>p, <2>1, <2>2, Updated
<1>20. CASE kcp' = [kcp EXCEPT ![e] = k] /\ net' = net
  <2>1. /\ Marked(on, sent'[e]) /\ Len(sent'[e]) <= MaxSend[e] /\ Sending(k, on, sent'[e])
        /\ Receiving(kcp[p], on, sent'[e], received[p])
        /\ net'[p] \in Seq(Seq(Truths(k, on, sent'[e]))) /\ (e = "client" => recv_buf' \in Seq(Truths(k, on, sent'[e])))
    BY <1>7, <1>10, <1>11, <1>12, <1>16, <1>17, <1>18, <1>20
  <2>2. /\ Receiving(g, offp, sent[p], received[e]) /\ Between(kcp[p], g)
        /\ net[e] \in Seq(Seq(Truths(kcp[p], offp, sent[p])))
        /\ (p = "client" => recv_buf \in Seq(Truths(kcp[p], offp, sent[p])))
    <3>1. Peer(p) = e
      BY <1>p, Opposite
    <3> QED  BY <1>3, <1>g, <3>1 DEF Direction, NetTold
  <2>3. Receiving(k, offp, sent[p], received[e]) /\ Between(kcp[p], k)
    BY <1>12, <2>2, SameReceive
  <2>4. /\ received' \in [Sides -> Seq(Seq(Frags))] /\ recv_chn' \in Nat /\ net' = [s \in Sides |-> net'[s]]
        /\ received'[p] = received[p] /\ received'[e] = received[e]
    BY <1>4, <1>7, <1>20 DEF TypeInv
  <2>5. /\ Receiving(k, offp, sent[p], received'[e]) /\ net'[e] \in Seq(Seq(Truths(kcp[p], offp, sent[p])))
        /\ (p = "client" => recv_buf' \in Seq(Truths(kcp[p], offp, sent[p])))
    BY <1>7, <1>20, <2>2, <2>3, <2>4
  <2> QED  BY <1>3, <1>4, <1>12, <1>13, <1>14, <1>16, <1>20, <1>p, <2>1, <2>3, <2>4, <2>5, Stepped
<1> QED  BY <1>7, <1>19, <1>20

\* recv() returns a message.
LEMMA RecvStep ==
    ASSUME Inv, NEW e \in Sides, Recv(e)
    PROVE  Inv'
<1> DEFINE p == Peer(e)
           k == kcp[e]
           h == ikcp_recv(k)
           rs == received[e]
           more == Append(rs, Message(k))
<1>1. p \in Sides
  BY Opposite
<1>2. PICK off \in [Nat -> Nat] : Direction(e, off)
  BY DEF Inv
<1>3. PICK offp \in [Nat -> Nat] : Direction(p, offp)
  BY <1>1 DEF Inv
<1>p. p = Peer(e) /\ p # e
  BY Opposite
<1> HIDE DEF p
<1>4. TypeInv
  BY DEF Inv
<1>5. /\ kcp[e] \in Blocks /\ kcp[p] \in Blocks /\ Marked(off, sent[e]) /\ Receiving(kcp[p], off, sent[e], received[p])
      /\ Linked(kcp[e], kcp[p], off, sent[e], offp, sent[p], received[e])
      /\ Fits(offp, sent[p]) /\ received[e] \in Seq(Seq(Frags))
  BY <1>2, <1>3, <1>4, <1>p, Both
<1>6. /\ kcp' = [kcp EXCEPT ![e] = h] /\ received' = [received EXCEPT ![e] = more] /\ ikcp_peeksize(k) > 0
      /\ net' = net /\ recv_buf' = recv_buf /\ recv_chn' = recv_chn /\ sent' = sent
  BY DEF Recv
<1>7. /\ k \in Blocks /\ rs \in Seq(Seq(Frags)) /\ Sending(k, off, sent[e]) /\ Receiving(k, offp, sent[p], rs)
      /\ Between(k, kcp[p]) /\ Between(kcp[p], k) /\ \A i \in 1 .. Len(k.acklist) : Has(k, Pos(k.acklist[i]))
  BY <1>5 DEF Linked
<1>k. k = kcp[e] /\ h = ikcp_recv(k) /\ rs = received[e] /\ more = Append(rs, Message(k))
  OBVIOUS
<1> HIDE DEF k, h, rs, more
<1>8. /\ h \in Blocks /\ Receiving(h, offp, sent[p], more) /\ Between(kcp[p], h)
      /\ more \in Seq(Seq(Frags))
      /\ Pos(k.rcv_nxt) <= Pos(h.rcv_nxt) /\ \A q \in Nat : Has(h, q) <=> Has(k, q)
      /\ h.snd_nxt = k.snd_nxt /\ h.snd_una = k.snd_una /\ h.snd_queue = k.snd_queue /\ h.snd_buf = k.snd_buf
      /\ h.acklist = k.acklist
  <2> DEFINE j == kcp[p]
             ms == sent[p]
  <2>1. j \in Blocks /\ Between(j, k) /\ Fits(offp, ms) /\ Receiving(k, offp, ms, rs) /\ ikcp_peeksize(k) > 0 /\ h = ikcp_recv(k)
    BY <1>5, <1>6, <1>7, <1>k
  <2> HIDE DEF j, ms
  <2>2. /\ h \in Blocks /\ Receiving(h, offp, ms, Append(rs, Message(k))) /\ Between(j, h)
        /\ Append(rs, Message(k)) \in Seq(Seq(Frags)) /\ SameStanding(k, h)
    BY <1>7, <2>1, Read
  <2> QED  BY <1>k, <2>2 DEF j, ms, SameStanding
<1>9. Sending(h, off, sent[e]) /\ Between(h, kcp[p])
  BY <1>7, <1>8, SameSend
<1>10. \A i \in 1 .. Len(h.acklist) : Has(h, Pos(h.acklist[i]))
  <2> SUFFICES ASSUME NEW i \in 1 .. Len(k.acklist) PROVE Has(h, Pos(k.acklist[i]))
    BY <1>8
  <2>0. k.acklist \in Seq(Sns)
    BY <1>7, BlockFacts
  <2>1. k.acklist[i] \in Sns
    BY <2>0, Elements
  <2>2. Pos(k.acklist[i]) \in Nat
    BY <2>1, SnFacts
  <2> QED  BY <1>7, <1>8, <2>2
<1>11. Grown(k, h)
  BY <1>8 DEF Grown
<1>12. net[p] \in Seq(Seq(Truths(h, off, sent[e]))) /\ (e = "client" => recv_buf \in Seq(Truths(h, off, sent[e])))
  <2>1. net[p] \in Seq(Seq(Truths(k, off, sent[e]))) /\ (e = "client" => recv_buf \in Seq(Truths(k, off, sent[e])))
    BY <1>2, <1>k, <1>p DEF Direction, NetTold
  <2> QED  BY <1>7, <1>8, <1>11, <2>1, StillTrue
<1>13. /\ net[e] \in Seq(Seq(Truths(kcp[p], offp, sent[p])))
       /\ (p = "client" => recv_buf \in Seq(Truths(kcp[p], offp, sent[p]))) /\ Len(sent[e]) <= MaxSend[e]
  <2>1. Peer(p) = e
    BY <1>p, Opposite
  <2> QED  BY <1>2, <1>3, <2>1 DEF Direction, NetTold
<1>14. /\ sent' \in [Sides -> Seq(Seq(Frags))] /\ recv_chn' \in Nat /\ net' = [s \in Sides |-> net'[s]]
       /\ sent'[p] = sent[p] /\ sent'[e] = sent[e] /\ net'[p] = net[p] /\ net'[e] = net[e]
  BY <1>4, <1>6 DEF TypeInv
<1>15. received' \in [Sides -> Seq(Seq(Frags))] /\ received'[p] = received[p] /\ received'[e] = more
  BY <1>4, <1>6, <1>8, <1>p DEF TypeInv
<1>16. /\ Marked(off, sent'[e]) /\ Len(sent'[e]) <= MaxSend[e] /\ Sending(h, off, sent'[e])
       /\ Receiving(kcp[p], off, sent'[e], received[p])
       /\ net'[p] \in Seq(Seq(Truths(h, off, sent'[e]))) /\ (e = "client" => recv_buf' \in Seq(Truths(h, off, sent'[e])))
  BY <1>5, <1>6, <1>9, <1>12, <1>13, <1>14
<1>17. /\ Receiving(h, offp, sent[p], received'[e]) /\ net'[e] \in Seq(Seq(Truths(kcp[p], offp, sent[p])))
       /\ (p = "client" => recv_buf' \in Seq(Truths(kcp[p], offp, sent[p])))
  BY <1>6, <1>8, <1>13, <1>14, <1>15
<1> QED  BY <1>3, <1>4, <1>6, <1>8, <1>9, <1>10, <1>14, <1>15, <1>16, <1>17, <1>p, Stepped

\* Side e has heard something, or nothing: its control block is h.
LEMMA HeardStep ==
    ASSUME TypeInv, NEW e \in Sides, NEW p, p = Peer(e), NEW off, Direction(e, off), NEW offp, Direction(p, offp), NEW h,
           Linked(h, kcp[p], off, sent[e], offp, sent[p], received[e]), Grown(kcp[e], h), kcp' = [kcp EXCEPT ![e] = h],
           sent' = sent, received' = received, recv_chn' \in Nat, net' = [s \in Sides |-> net'[s]], net'[p] = net[p],
           net'[e] \in Seq(Seq(Truths(kcp[p], offp, sent[p]))), e = "client" => recv_buf' = recv_buf,
           p = "client" => recv_buf' \in Seq(Truths(kcp[p], offp, sent[p]))
    PROVE  Inv'
<1>1. /\ h \in Blocks /\ Sending(h, off, sent[e]) /\ Receiving(h, offp, sent[p], received[e])
      /\ Between(h, kcp[p]) /\ Between(kcp[p], h) /\ \A i \in 1 .. Len(h.acklist) : Has(h, Pos(h.acklist[i]))
  BY DEF Linked
<1>2. kcp[e] \in Blocks
  BY DEF TypeInv
<1>3. /\ Marked(off, sent[e]) /\ Len(sent[e]) <= MaxSend[e] /\ Receiving(kcp[p], off, sent[e], received[p])
      /\ net[p] \in Seq(Seq(Truths(kcp[e], off, sent[e]))) /\ (e = "client" => recv_buf \in Seq(Truths(kcp[e], off, sent[e])))
  BY DEF Direction, NetTold
<1> DEFINE k == kcp[e]
           ms == sent[e]
<1>4. /\ Seq(Truths(k, off, ms)) \subseteq Seq(Truths(h, off, ms))
      /\ Seq(Seq(Truths(k, off, ms))) \subseteq Seq(Seq(Truths(h, off, ms)))
  <2>1. k \in Blocks /\ Grown(k, h)
    BY <1>2
  <2> HIDE DEF k, ms
  <2> QED  BY <1>1, <2>1, StillTrue
<1>5. /\ sent' \in [Sides -> Seq(Seq(Frags))] /\ sent'[p] = sent[p] /\ sent'[e] = sent[e]
      /\ received' \in [Sides -> Seq(Seq(Frags))] /\ received'[p] = received[p] /\ received'[e] = received[e]
  BY DEF TypeInv
<1>6. net'[p] \in Seq(Seq(Truths(h, off, sent'[e])))
  BY <1>3, <1>4, <1>5
<1>7. e = "client" => recv_buf' \in Seq(Truths(h, off, sent'[e]))
  BY <1>3, <1>4, <1>5
<1>8. /\ Marked(off, sent'[e]) /\ Len(sent'[e]) <= MaxSend[e] /\ Sending(h, off, sent'[e])
      /\ Receiving(kcp[p], off, sent'[e], received[p]) /\ Receiving(h, offp, sent[p], received'[e])
  BY <1>1, <1>3, <1>5
<1> QED  BY <1>1, <1>5, <1>6, <1>7, <1>8, Stepped

\* The network hands a datagram over.
LEMMA Arrived ==
    ASSUME NEW e \in Sides, NEW i, NEW keep, Arrive(e, i, keep), NEW T, net[e] \in Seq(Seq(T)),
           net \in [Sides -> Seq(Seq(Segments))]
    PROVE  /\ net' = [s \in Sides |-> net'[s]] /\ net'[Peer(e)] = net[Peer(e)]
           /\ net'[e] \in Seq(Seq(T)) /\ net[e][i] \in Seq(T)
<1> DEFINE n == net[e]
<1>1. i \in 1 .. Len(n) /\ n[i] \in Seq(T)
  <2>1. i \in DOMAIN n
    BY DEF Arrive
  <2>2. n \in Seq(Seq(T))
    OBVIOUS
  <2> HIDE DEF n
  <2> QED  BY <2>1, <2>2, Elements
<1>2. RemoveAt(n, i) \in Seq(Seq(T))
  <2>1. n \in Seq(Seq(T))
    OBVIOUS
  <2> HIDE DEF n
  <2> QED  BY <1>1, <2>1, RemoveFacts
<1>3. net' = net \/ net' = [net EXCEPT ![e] = RemoveAt(n, i)]
  BY DEF Arrive
<1>4. Peer(e) \in Sides /\ Peer(e) # e
  BY Opposite
<1> DEFINE r == RemoveAt(n, i)
<1>r. r \in Seq(Seq(T))
  BY <1>2
<1> HIDE DEF r
<1>5. net' = net \/ net' = [net EXCEPT ![e] = r]
  BY <1>3 DEF r
<1>6. net' = [s \in Sides |-> net'[s]] /\ net'[Peer(e)] = net[Peer(e)] /\ (net'[e] = n \/ net'[e] = r)
  BY <1>4, <1>5
<1> QED  BY <1>1, <1>r, <1>6

\* Feed() changes a control block by what is true, or nothing does.
LEMMA FedStep ==
    ASSUME TypeInv, NEW e \in Sides, NEW p, p = Peer(e), NEW off, Direction(e, off), NEW offp, Direction(p, offp),
           NEW items \in Seq(Truths(kcp[p], offp, sent[p])),
           kcp' = kcp \/ kcp' = [kcp EXCEPT ![e] = Feed(kcp[e], items)],
           sent' = sent, received' = received, recv_chn' \in Nat, net' = [s \in Sides |-> net'[s]], net'[p] = net[p],
           net'[e] \in Seq(Seq(Truths(kcp[p], offp, sent[p]))), e = "client" => recv_buf' = recv_buf,
           p = "client" => recv_buf' \in Seq(Truths(kcp[p], offp, sent[p]))
    PROVE  Inv'
<1> DEFINE k == kcp[e]
           j == kcp[p]
           ms == sent[e]
           msj == sent[p]
           rs == received[e]
<1>1. /\ k \in Blocks /\ j \in Blocks /\ Fits(off, ms) /\ Fits(offp, msj) /\ Sending(j, offp, msj)
      /\ rs \in Seq(Seq(Frags)) /\ Linked(k, j, off, ms, offp, msj, rs)
  BY Both
<1>2. CASE kcp' = kcp
  <2>1. kcp' = [kcp EXCEPT ![e] = k]
    BY <1>2 DEF TypeInv
  <2>2. Grown(k, k)
    BY <1>1, BlockFacts, SnFacts DEF Grown
  <2> HIDE DEF k
  <2>3. Grown(kcp[e], k) /\ Linked(k, kcp[p], off, sent[e], offp, sent[p], received[e])
    BY <1>1, <2>2 DEF k
  <2> QED  BY <2>1, <2>3, HeardStep
<1>3. CASE kcp' = [kcp EXCEPT ![e] = Feed(kcp[e], items)]
  <2> DEFINE h == Feed(k, items)
  <2>1. items \in Seq(Truths(j, offp, msj))
    OBVIOUS
  <2>2. kcp' = [kcp EXCEPT ![e] = h]
    BY <1>3
  <2>3. Linked(h, j, off, ms, offp, msj, rs) /\ Grown(k, h)
    <3> HIDE DEF k, j, ms, msj, rs
    <3> QED  BY <1>1, <2>1, FeedHeard
  <2> HIDE DEF h
  <2>4. Linked(h, kcp[p], off, sent[e], offp, sent[p], received[e]) /\ Grown(kcp[e], h)
    BY <2>3
  <2> HIDE DEF k, j, ms, msj, rs
  <2> QED  BY <2>2, <2>4, HeardStep
<1> QED  BY <1>2, <1>3

\* The client's recv() takes a datagram from its socket.
LEMMA ClientInputStep ==
    ASSUME Inv, NEW i, NEW keep, ClientInput(i, keep)
    PROVE  Inv'
<1> DEFINE e == "client"
           p == "server"
<1>0. e \in Sides /\ p \in Sides /\ p = Peer(e) /\ Peer(p) = e
  BY DEF Sides, Peer
<1>1. TypeInv
  BY DEF Inv
<1>2. PICK off \in [Nat -> Nat] : Direction(e, off)
  BY <1>0 DEF Inv
<1>3. PICK offp \in [Nat -> Nat] : Direction(p, offp)
  BY <1>0 DEF Inv
<1>4. /\ Arrive(e, i, keep) /\ (kcp' = kcp \/ kcp' = [kcp EXCEPT ![e] = Feed(kcp[e], net[e][i])])
      /\ recv_buf' = recv_buf /\ recv_chn' = recv_chn /\ sent' = sent /\ received' = received
  BY DEF ClientInput
<1>d. p # "client"
  OBVIOUS
<1> HIDE DEF e, p
<1> DEFINE T == Truths(kcp[p], offp, sent[p])
           items == net[e][i]
<1>5. net[e] \in Seq(Seq(T)) /\ net \in [Sides -> Seq(Seq(Segments))] /\ recv_chn' \in Nat
  BY <1>0, <1>1, <1>3, <1>4 DEF Direction, NetTold, TypeInv
<1> HIDE DEF T
<1>6. net' = [s \in Sides |-> net'[s]] /\ net'[p] = net[p] /\ net'[e] \in Seq(Seq(T)) /\ items \in Seq(T)
  BY <1>0, <1>4, <1>5, Arrived
<1>7. kcp' = kcp \/ kcp' = [kcp EXCEPT ![e] = Feed(kcp[e], items)]
  BY <1>4
<1>8. e = "client" => recv_buf' = recv_buf
  BY <1>4
<1> HIDE DEF items
<1>9. net'[e] \in Seq(Seq(Truths(kcp[p], offp, sent[p]))) /\ items \in Seq(Truths(kcp[p], offp, sent[p]))
  BY <1>6 DEF T
<1> QED  BY <1>0, <1>1, <1>2, <1>3, <1>4, <1>5, <1>6, <1>7, <1>8, <1>9, <1>d, FedStep

\* The server's recv() feeds KCP what has gathered, or the accept loop takes a datagram.
LEMMA ServerStep ==
    ASSUME Inv, NEW i, NEW keep, Accept(i, keep) \/ RecvDone(i, keep) \/ ServerInput
    PROVE  Inv'
<1> DEFINE e == "server"
           p == "client"
<1>0. e \in Sides /\ p \in Sides /\ p = Peer(e) /\ Peer(p) = e /\ e # "client"
  BY DEF Sides, Peer
<1>1. TypeInv
  BY DEF Inv
<1>2. PICK off \in [Nat -> Nat] : Direction(e, off)
  BY <1>0 DEF Inv
<1>3. PICK offp \in [Nat -> Nat] : Direction(p, offp)
  BY <1>0 DEF Inv
<1> DEFINE T == Truths(kcp[p], offp, sent[p])
<1>4. net[e] \in Seq(Seq(T)) /\ net \in [Sides -> Seq(Seq(Segments))] /\ recv_chn \in Nat /\ recv_buf \in Seq(T)
  BY <1>0, <1>1, <1>3 DEF Direction, NetTold, TypeInv
<1>t. T = Truths(kcp[p], offp, sent[p])
  OBVIOUS
<1> DEFINE none == <<>>
<1>n. none \in Seq(T)
  OBVIOUS
<1> HIDE DEF T, none
<1>5. CASE Accept(i, keep)
  <2>1. Arrive(e, i, keep) /\ kcp' = kcp /\ recv_buf' = recv_buf /\ recv_chn' = recv_chn /\ sent' = sent /\ received' = received
    BY <1>5 DEF Accept
  <2> HIDE DEF e, p
  <2>2. net' = [s \in Sides |-> net'[s]] /\ net'[p] = net[p] /\ net'[e] \in Seq(Seq(T))
    BY <1>0, <1>4, <2>1, Arrived
  <2>3. recv_chn' \in Nat /\ recv_buf' \in Seq(T)
    BY <1>4, <2>1
  <2> QED  BY <1>0, <1>1, <1>2, <1>3, <1>n, <1>t, <2>1, <2>2, <2>3, FedStep
<1>6. CASE RecvDone(i, keep)
  <2>1. /\ Arrive(e, i, keep) /\ kcp' = kcp /\ recv_buf' = recv_buf \o net[e][i] /\ recv_chn' = recv_chn + 1
        /\ sent' = sent /\ received' = received
    BY <1>6 DEF RecvDone
  <2> HIDE DEF e, p
  <2>2. net' = [s \in Sides |-> net'[s]] /\ net'[p] = net[p] /\ net'[e] \in Seq(Seq(T)) /\ net[e][i] \in Seq(T)
    BY <1>0, <1>4, <2>1, Arrived
  <2>3. recv_chn' \in Nat
    BY <1>4, <2>1
  <2>4. recv_buf' \in Seq(T)
    BY <1>4, <2>1, <2>2, ConcatFacts
  <2> QED  BY <1>0, <1>1, <1>2, <1>3, <1>n, <1>t, <2>1, <2>2, <2>3, <2>4, FedStep
<1>7. CASE ServerInput
  <2>1. /\ recv_chn > 0 /\ recv_chn' = recv_chn - 1 /\ recv_buf' = <<>> /\ net' = net /\ sent' = sent /\ received' = received
        /\ (kcp' = kcp \/ kcp' = [kcp EXCEPT ![e] = Feed(kcp[e], recv_buf)])
    BY <1>7 DEF ServerInput
  <2> HIDE DEF e, p
  <2>2. recv_chn' \in Nat
    BY <1>4, <2>1
  <2>3. recv_buf' \in Seq(T)
    BY <1>n, <2>1 DEF none
  <2>4. net' = [s \in Sides |-> net'[s]] /\ net'[p] = net[p] /\ net'[e] \in Seq(Seq(T))
    BY <1>0, <1>4, <2>1
  <2> DEFINE items == recv_buf
  <2>5. items \in Seq(Truths(kcp[p], offp, sent[p])) /\ (kcp' = kcp \/ kcp' = [kcp EXCEPT ![e] = Feed(kcp[e], items)])
    BY <1>4, <1>t, <2>1
  <2> QED  BY <1>0, <1>1, <1>2, <1>3, <1>t, <2>1, <2>2, <2>3, <2>4, <2>5, FedStep
<1> QED  BY <1>5, <1>6, <1>7

----------------------------------------------------------------------------
(* The invariant holds *)

\* The first control block.
LEMMA Created ==
    ASSUME NEW h, h = AfterFlush(ikcp_create, <<>>), NEW off, off = [n \in Nat |-> 0], NEW ms, ms = <<>>
    PROVE  /\ Marked(off, ms) /\ h \in Blocks /\ h.acklist = <<>> /\ Sending(h, off, ms) /\ Receiving(h, off, ms, ms)
           /\ Between(h, h) /\ Hello \in Truths(h, off, ms)
<1> DEFINE k == ikcp_create
<1>1. StartSn \in Sns /\ RcvWnd \in Nat /\ SnMod \in Nat \ {0} /\ Half \in Nat /\ RcvWnd <= Half
  BY KcpSizes
<1>2. Pos(StartSn) = 0
  <2>1. StartSn \in Int /\ 0 \in Sns /\ 0 \in Int /\ StartSn - StartSn = 0 * SnMod + 0
    BY <1>1, SnFacts DEF Sns
  <2> QED  BY <2>1, PosOf
<1>3. k \in Blocks
  BY <1>1 DEF ikcp_create, Blocks, ThreshMin
<1>4. /\ k.snd_una = StartSn /\ k.snd_nxt = StartSn /\ k.rcv_nxt = StartSn
      /\ k.snd_queue = <<>> /\ k.snd_buf = <<>> /\ k.rcv_queue = <<>> /\ k.rcv_buf = <<>>
  BY DEF ikcp_create
<1> HIDE DEF k
<1>5. off \in [Nat -> Nat] /\ off[0] = 0 /\ Len(ms) = 0 /\ Len(<<>>) = 0
  OBVIOUS
<1>6. Marked(off, ms)
  <2>1. \A m \in 0 .. 0 : off[m] <= m * (RcvWnd - 1)
    BY <1>1, <1>5
  <2>2. \A i, j \in 0 .. 0 : i < j => off[i] < off[j]
    OBVIOUS
  <2> HIDE DEF k
  <2> QED  BY <1>5, <2>1, <2>2 DEF Marked
<1>7. Fits(off, ms)
  BY <1>1, <1>5, <1>6 DEF Fits
<1>8. Sending(k, off, ms)
  BY <1>1, <1>2, <1>4, <1>5, KcpSizes DEF Sending
<1>9. Between(k, k)
  BY <1>2, <1>4 DEF Between
<1>10. Receiving(k, off, ms, ms)
  <2>1. Holding(k, off, ms, ms)
    BY <1>1, <1>2, <1>4, <1>5 DEF Holding
  <2> QED  BY <1>4, <2>1 DEF Receiving
<1> DEFINE r == <<>>
<1>11. DOMAIN r = DOMAIN k.snd_buf /\ h = AfterFlush(k, r)
  BY <1>4 DEF k
<1> HIDE DEF r
<1>12. /\ h \in Blocks /\ Sending(h, off, ms) /\ Between(h, k) /\ h.acklist = <<>>
       /\ h.rcv_nxt = k.rcv_nxt /\ h.rcv_queue = k.rcv_queue /\ h.rcv_buf = k.rcv_buf
  BY <1>3, <1>7, <1>8, <1>9, <1>11, Flushed
<1>13. Receiving(h, off, ms, ms) /\ Between(h, h)
  BY <1>10, <1>12, SameReceive
<1>14. Hello \in Truths(h, off, ms)
  BY DEF Truths, Told, Segments
<1> QED  BY <1>6, <1>12, <1>13, <1>14

\* The invariant holds at first.
LEMMA InitInv ==
    ASSUME Init
    PROVE  Inv
<1> DEFINE h == AfterFlush(ikcp_create, <<>>)
           off == [n \in Nat |-> 0]
           ms == <<>>
           T == Truths(h, off, ms)
<1>1. /\ Marked(off, ms) /\ h \in Blocks /\ h.acklist = <<>> /\ Sending(h, off, ms) /\ Receiving(h, off, ms, ms)
      /\ Between(h, h) /\ Hello \in T
  BY Created
<1>2. \A e \in Sides : Peer(e) \in Sides
  BY Opposite
<1>3. /\ kcp = [e \in Sides |-> h] /\ sent = [e \in Sides |-> ms] /\ received = [e \in Sides |-> ms]
      /\ net = [e \in Sides |-> IF e = "server" THEN <<<<Hello>>>> ELSE ms] /\ recv_buf = ms /\ recv_chn = 0
  BY DEF Init
<1>e. ms \in Seq(Seq(Frags)) /\ ms \in Seq(T) /\ Len(ms) = 0 /\ off \in [Nat -> Nat]
  OBVIOUS
<1>s. ms \in Seq(Seq(T)) /\ <<<<Hello>>>> \in Seq(Seq(T))
  <2> HIDE DEF T
  <2>1. <<Hello>> \in Seq(T)
    BY <1>1
  <2> QED  BY <2>1
<1>h. \A i \in 1 .. Len(h.acklist) : Has(h, Pos(h.acklist[i]))
  BY <1>1
<1>4. net \in [Sides -> Seq(Seq(T))]
  <2> HIDE DEF ms, T
  <2> QED  BY <1>3, <1>s
<1> HIDE DEF h, off, ms, T
<1>5. net \in [Sides -> Seq(Seq(Segments))]
  BY <1>4, TruthsAreSegments DEF T
<1>6. TypeInv
  BY <1>1, <1>3, <1>5, <1>e DEF TypeInv
<1>7. \A e \in Sides : Direction(e, off)
  <2> SUFFICES ASSUME NEW e \in Sides PROVE Direction(e, off)
    OBVIOUS
  <2>1. kcp[e] = h /\ kcp[Peer(e)] = h /\ sent[e] = ms /\ received[Peer(e)] = ms
    BY <1>2, <1>3
  <2>2. MaxSend[e] \in Nat
    BY UdpAssumption DEF Sides
  <2>3. Len(sent[e]) <= MaxSend[e]
    BY <1>e, <2>1, <2>2
  <2>4. NetTold(e, off)
    BY <1>2, <1>3, <1>4, <1>e, <1>h, <2>1 DEF NetTold, T
  <2> QED  BY <1>1, <2>1, <2>3, <2>4 DEF Direction
<1> QED  BY <1>6, <1>7, <1>e DEF Inv

\* Every step keeps it.
LEMMA StepInv ==
    ASSUME Inv, [Next]_vars
    PROVE  Inv'
<1>1. CASE \E e \in Sides, n \in Sizes : Send(e, n)
  BY <1>1, SendStep
<1>2. CASE \E e \in Sides : Timer(e) \/ Recv(e)
  BY <1>2, TimerStep, RecvStep
<1>3. CASE \E e \in Sides, keep \in BOOLEAN : \E i \in DOMAIN net[e] : Network(e, i, keep)
  <2>1. PICK e \in Sides, keep \in BOOLEAN : \E i \in DOMAIN net[e] : Network(e, i, keep)
    BY <1>3
  <2>2. PICK i \in DOMAIN net[e] : Network(e, i, keep)
    BY <2>1
  <2>3. ClientInput(i, keep) \/ Accept(i, keep) \/ RecvDone(i, keep)
    BY <2>2 DEF Network
  <2>4. CASE ClientInput(i, keep)
    BY <2>4, ClientInputStep
  <2>5. CASE Accept(i, keep) \/ RecvDone(i, keep)
    BY <2>5, ServerStep
  <2> QED  BY <2>3, <2>4, <2>5
<1>4. CASE ServerInput
  BY <1>4, ServerStep
<1>5. CASE UNCHANGED vars
  BY <1>5 DEF vars, Inv, TypeInv, Direction, NetTold
<1> QED  BY <1>1, <1>2, <1>3, <1>4, <1>5 DEF Next

----------------------------------------------------------------------------
(* What follows from it *)

\* What has a number and is not in the sender's buffer, the receiver has; the rest waits.
LEMMA FragmentSomewhere ==
    ASSUME NEW off, NEW ms, Fits(off, ms), NEW k \in Blocks, Sending(k, off, ms), NEW j \in Blocks, Between(k, j),
           NEW rs \in Seq(Seq(Frags)), Holding(j, off, ms, rs), NEW a \in Nat, off[Len(rs)] <= a, a < off[Len(ms)]
    PROVE  \/ \E i \in 1 .. Len(k.snd_queue) : At(off, ms, k.snd_queue[i], a)
           \/ \E i \in 1 .. Len(k.snd_buf) : At(off, ms, k.snd_buf[i], a)
           \/ \E i \in 1 .. Len(j.rcv_queue) : At(off, ms, j.rcv_queue[i], a)
           \/ \E i \in 1 .. Len(j.rcv_buf) : At(off, ms, j.rcv_buf[i], a)
<1> DEFINE N == Pos(k.snd_nxt)
           X == Pos(j.rcv_nxt)
           o == off[Len(rs)]
           t == off[Len(ms)]
           Q == Len(k.snd_queue)
           R == Len(j.rcv_queue)
<1>1. N \in Nat /\ X \in Nat /\ o \in Nat /\ t \in Nat /\ Q \in Nat /\ R \in Nat
  <2>1. N \in Nat /\ k.snd_queue \in Seq(Frags)
    BY BlockFacts, SnFacts
  <2>2. X \in Nat /\ o \in Nat /\ R \in Nat
    BY HeldFacts
  <2>3. t \in Nat
    BY OffFacts
  <2>4. Q \in Nat
    BY <2>1, Elements
  <2> QED  BY <2>1, <2>2, <2>3, <2>4
<1>2. N + Q = t /\ \A i \in 1 .. Q : At(off, ms, k.snd_queue[i], N + i - 1)
  BY DEF Sending
<1>3. o + R = X /\ \A i \in 1 .. R : At(off, ms, j.rcv_queue[i], o + i - 1)
  BY DEF Holding
<1>4. /\ \A i \in 1 .. Len(k.snd_buf) : At(off, ms, k.snd_buf[i], Pos(k.snd_buf[i].sn))
      /\ \A i \in 1 .. Len(j.rcv_buf) : At(off, ms, j.rcv_buf[i], Pos(j.rcv_buf[i].sn))
  BY DEF Sending, Holding
<1>5. \A q \in 0 .. N - 1 : q < X \/ InBuf(j.rcv_buf, q) \/ InBuf(k.snd_buf, q)
  BY DEF Between, Has
<1>6. o <= a /\ a < t
  OBVIOUS
<1> HIDE DEF N, X, o, t, Q, R
<1>7. CASE a >= N
  <2> DEFINE i == a - N + 1
  <2>1. i \in 1 .. Q /\ N + i - 1 = a
    BY <1>1, <1>2, <1>6, <1>7
  <2> HIDE DEF i
  <2>2. At(off, ms, k.snd_queue[i], a)
    BY <1>2, <2>1
  <2> QED  BY <2>1, <2>2 DEF Q
<1>8. CASE a < N
  <2>1. a \in 0 .. N - 1
    BY <1>1, <1>8
  <2>2. CASE a < X
    <3> DEFINE i == a - o + 1
    <3>1. i \in 1 .. R /\ o + i - 1 = a
      BY <1>1, <1>3, <1>6, <2>2
    <3> HIDE DEF i
    <3>2. At(off, ms, j.rcv_queue[i], a)
      BY <1>3, <3>1
    <3> QED  BY <3>1, <3>2 DEF R
  <2>3. CASE InBuf(j.rcv_buf, a)
    BY <1>4, <2>3 DEF InBuf
  <2>4. CASE InBuf(k.snd_buf, a)
    BY <1>4, <2>4 DEF InBuf
  <2> QED  BY <1>5, <2>1, <2>2, <2>3, <2>4
<1> QED  BY <1>1, <1>7, <1>8

\* Nothing is lost between the two ends of a direction.
LEMMA InvNothingLost ==
    ASSUME Inv
    PROVE  NothingLost
<1> SUFFICES ASSUME NEW e \in Sides, NEW m \in DOMAIN sent[e], NEW f \in Contents(sent[e][m])
             PROVE  f \in Contents(kcp[e].snd_queue) \cup Contents(kcp[e].snd_buf)
                          \cup Contents(kcp[Peer(e)].rcv_queue) \cup Contents(kcp[Peer(e)].rcv_buf)
                          \cup UNION {Contents(received[Peer(e)][j]) : j \in DOMAIN received[Peer(e)]}
  BY DEF NothingLost
<1> DEFINE p == Peer(e)
           ms == sent[e]
           rs == received[p]
           k == kcp[e]
           j == kcp[p]
<1>1. TypeInv
  BY DEF Inv
<1>2. PICK off \in [Nat -> Nat] : Direction(e, off)
  BY DEF Inv
<1>3. PICK offp \in [Nat -> Nat] : Direction(p, offp)
  BY Opposite DEF Inv
<1>4. /\ k \in Blocks /\ j \in Blocks /\ ms \in Seq(Seq(Frags)) /\ rs \in Seq(Seq(Frags)) /\ Fits(off, ms) /\ Marked(off, ms)
      /\ Sending(k, off, ms) /\ Receiving(j, off, ms, rs) /\ Linked(k, j, off, ms, offp, sent[p], received[e])
  BY <1>1, <1>2, <1>3, Both
<1>5. Between(k, j) /\ Holding(j, off, ms, rs)
  BY <1>4 DEF Linked, Receiving
<1>6. m \in 1 .. Len(ms) /\ Len(ms) \in Nat /\ Len(rs) \in Nat /\ DOMAIN rs = 1 .. Len(rs)
  <2>1. m \in DOMAIN ms
    OBVIOUS
  <2> HIDE DEF ms, rs
  <2> QED  BY <1>4, <2>1, Elements
<1>7. f \in Contents(ms[m])
  OBVIOUS
<1>8. SUFFICES f \in Contents(k.snd_queue) \/ f \in Contents(k.snd_buf) \/ f \in Contents(j.rcv_queue)
               \/ f \in Contents(j.rcv_buf) \/ \E i \in DOMAIN rs : f \in Contents(rs[i])
  OBVIOUS
<1> HIDE DEF p, ms, rs, k, j
<1>9. CASE m <= Len(rs)
  <2>1. m \in 1 .. Len(rs)
    BY <1>6, <1>9
  <2>2. rs[m] = ms[m]
    BY <1>5, <2>1 DEF Holding
  <2> QED  BY <1>6, <1>7, <2>1, <2>2
<1>10. CASE m > Len(rs)
  <2> DEFINE u == off[m - 1]
             v == off[m]
             n == v - u
  <2>1. n \in 1 .. RcvWnd - 1 /\ ms[m] = Fragments(m, n)
    <3>1. \A g \in 1 .. Len(ms) : off[g] - off[g - 1] \in 1 .. RcvWnd - 1 /\ ms[g] = Fragments(g, off[g] - off[g - 1])
      BY <1>4 DEF Marked
    <3> QED  BY <1>6, <3>1
  <2>2. m \in Nat /\ m - 1 \in Nat /\ m - 1 \in 0 .. Len(ms) - 1 /\ m \in 0 .. Len(ms) /\ m - 1 \in 0 .. Len(ms)
        /\ Len(rs) \in 0 .. Len(ms)
    <3> DEFINE M == Len(ms)
               R == Len(rs)
    <3>1. m \in 1 .. M /\ M \in Nat /\ R \in Nat /\ m > R
      BY <1>6, <1>10
    <3> HIDE DEF M, R
    <3>2. /\ m \in Nat /\ m - 1 \in Nat /\ m - 1 \in 0 .. M - 1 /\ m \in 0 .. M /\ m - 1 \in 0 .. M
          /\ R \in 0 .. M
      BY <3>1
    <3> QED  BY <3>2 DEF M, R
  <2>3. u \in Nat /\ v \in Nat /\ n \in Nat
    <3>1. u \in Nat /\ v \in Nat
      BY <1>4, <2>2, OffFacts
    <3>2. n \in Nat
      BY <2>1, KcpSizes
    <3> QED  BY <3>1, <3>2
  <2> HIDE DEF n
  <2>4. PICK i \in 1 .. n : f = Fragment(m, n - i)
    <3>1. DOMAIN Fragments(m, n) = 1 .. n
      BY DEF Fragments
    <3>2. PICK i \in 1 .. n : f = Fragment(Fragments(m, n)[i].id, Fragments(m, n)[i].frg)
      BY <1>7, <2>1, <3>1 DEF Contents
    <3>3. Fragments(m, n)[i] = Fragment(m, n - i)
      BY DEF Fragments
    <3> QED  BY <3>2, <3>3 DEF Fragment
  <2> DEFINE a == u + i - 1
  <2>5. a \in Nat /\ u <= a /\ a <= v - 1 /\ v - 1 - a = n - i
    BY <2>3, <2>4 DEF n
  <2>6. off[Len(rs)] <= u
    <3> DEFINE l == Len(rs)
               w == m - 1
    <3>1. l <= w /\ l \in 0 .. Len(ms) /\ w \in 0 .. Len(ms) /\ l \in Int /\ w \in Int
      BY <1>6, <1>10, <2>2
    <3>2. off[l] \in Nat /\ off[w] \in Nat /\ (l < w => off[l] < off[w])
      BY <1>4, <3>1, OffFacts
    <3> HIDE DEF l, w
    <3>3. off[l] <= off[w]
      <4>1. CASE l = w
        BY <3>2, <4>1
      <4>2. CASE l < w
        BY <3>2, <4>2
      <4> QED  BY <3>1, <4>1, <4>2
    <3> QED  BY <3>3 DEF l, w
  <2>7. v <= off[Len(ms)] /\ off[Len(ms)] \in Nat /\ off[Len(rs)] \in Nat
    BY <1>4, <2>2, OffFacts
  <2> DEFINE y == off[Len(ms)]
             z == off[Len(rs)]
  <2>8. y \in Nat /\ z \in Nat /\ v <= y /\ z <= u
    BY <2>6, <2>7
  <2>v. v = off[(m - 1) + 1] /\ u = off[m - 1]
    BY <2>2
  <2> HIDE DEF a, u, v, y, z
  <2>9. z <= a /\ a < y
    BY <2>3, <2>5, <2>8
  <2>10. \/ \E g \in 1 .. Len(k.snd_queue) : At(off, ms, k.snd_queue[g], a)
         \/ \E g \in 1 .. Len(k.snd_buf) : At(off, ms, k.snd_buf[g], a)
         \/ \E g \in 1 .. Len(j.rcv_queue) : At(off, ms, j.rcv_queue[g], a)
         \/ \E g \in 1 .. Len(j.rcv_buf) : At(off, ms, j.rcv_buf[g], a)
    BY <1>4, <1>5, <2>5, <2>9, FragmentSomewhere DEF y, z
  <2>11. \A x : At(off, ms, x, a) => f = Fragment(x.id, x.frg)
    <3> SUFFICES ASSUME NEW x, At(off, ms, x, a) PROVE f = Fragment(x.id, x.frg)
      OBVIOUS
    <3> DEFINE w == m - 1
    <3>1. w \in 0 .. Len(ms) - 1 /\ w + 1 = m
      BY <2>2
    <3>2. a \in off[w] .. off[w + 1] - 1
      BY <2>3, <2>5, <2>v
    <3>3. off[w + 1] = v
      BY <2>v
    <3> HIDE DEF w
    <3>4. x.id = w + 1 /\ x.frg = off[w + 1] - 1 - a
      BY <1>4, <3>1, <3>2, WhichFragment
    <3>5. x.id = m /\ x.frg = n - i
      BY <2>5, <3>1, <3>3, <3>4
    <3> QED  BY <2>4, <3>5
  <2>12. /\ DOMAIN k.snd_queue = 1 .. Len(k.snd_queue) /\ DOMAIN k.snd_buf = 1 .. Len(k.snd_buf)
         /\ DOMAIN j.rcv_queue = 1 .. Len(j.rcv_queue) /\ DOMAIN j.rcv_buf = 1 .. Len(j.rcv_buf)
    BY <1>4, BlockFacts, Elements
  <2> QED  BY <2>10, <2>11, <2>12 DEF Contents
<1> QED  BY <1>6, <1>9, <1>10

\* The distances that the code compares, in places.
LEMMA InvWindowsAligned ==
    ASSUME Inv
    PROVE  WindowsAligned
<1> SUFFICES ASSUME NEW e \in Sides, NEW s, s = kcp[e], NEW r, r = kcp[Peer(e)]
             PROVE  /\ {s.snd_una, s.snd_nxt, r.rcv_nxt} \subseteq 0 .. SnMod - 1
                    /\ \A i \in 0 .. itimediff(s.snd_una, r.rcv_nxt) - 1 : (r.rcv_nxt + i) % SnMod \in Numbers(r.rcv_buf)
                    /\ itimediff(s.snd_nxt, r.rcv_nxt) >= 0
                    /\ itimediff(s.snd_nxt, s.snd_una) <= SndWnd
                    /\ Len(r.rcv_queue) <= RcvWnd
                    /\ \A i, j \in DOMAIN r.rcv_buf : i < j => itimediff(r.rcv_buf[i].sn, r.rcv_buf[j].sn) < 0
                    /\ \A i \in DOMAIN r.rcv_buf :
                         /\ itimediff(r.rcv_buf[i].sn, r.rcv_nxt) \in 0 .. RcvWnd - 1
                         /\ itimediff(r.rcv_buf[i].sn, r.rcv_nxt) = 0 => Len(r.rcv_queue) = RcvWnd
  BY DEF WindowsAligned
<1> DEFINE p == Peer(e)
           ms == sent[e]
           rs == received[p]
           b == r.rcv_buf
<1>1. TypeInv
  BY DEF Inv
<1>2. PICK off \in [Nat -> Nat] : Direction(e, off)
  BY DEF Inv
<1>3. PICK offp \in [Nat -> Nat] : Direction(p, offp)
  BY Opposite DEF Inv
<1>4. /\ s \in Blocks /\ r \in Blocks /\ rs \in Seq(Seq(Frags)) /\ Fits(off, ms)
      /\ Sending(s, off, ms) /\ Receiving(r, off, ms, rs) /\ Linked(s, r, off, ms, offp, sent[p], received[e])
  BY <1>1, <1>2, <1>3, Both
<1>5. Between(s, r) /\ Holding(r, off, ms, rs)
  BY <1>4 DEF Linked, Receiving
<1> HIDE DEF p, ms, rs
<1> DEFINE U == Pos(s.snd_una)
           N == Pos(s.snd_nxt)
           X == Pos(r.rcv_nxt)
<1>6. /\ s.snd_una \in Sns /\ s.snd_nxt \in Sns /\ r.rcv_nxt \in Sns /\ s.snd_una \in Int /\ s.snd_nxt \in Int /\ r.rcv_nxt \in Int
      /\ b \in Seq(RecvSegs)
  BY <1>4, BlockFacts, SnFacts
<1>7. U \in Nat /\ N \in Nat /\ U <= N /\ N - U <= SndWnd /\ N + RcvWnd <= Half
      /\ \A i \in 1 .. Len(s.snd_buf) : Pos(s.snd_buf[i].sn) \in Nat /\ U <= Pos(s.snd_buf[i].sn)
  BY <1>4, SentFacts
<1>8. /\ X \in Nat /\ X + RcvWnd <= Half /\ Len(r.rcv_queue) <= RcvWnd
      /\ \A i \in 1 .. Len(b) : /\ b[i].sn \in Sns /\ Pos(b[i].sn) \in Nat /\ X <= Pos(b[i].sn) /\ Pos(b[i].sn) < X + RcvWnd
                                /\ Pos(b[i].sn) < Half
  BY <1>4, <1>5, HeldFacts
<1>9. X <= N /\ \A q \in 0 .. N - 1 : q < X \/ InBuf(b, q) \/ InBuf(s.snd_buf, q)
  BY <1>5 DEF Between, Has
<1>w. RcvWnd \in Nat \ {0} /\ Half \in Nat /\ SnMod \in Nat /\ 2 * Half <= SnMod
  BY KcpSizes
<1>10. U < Half /\ N < Half /\ X < Half
  <2>1. U \in Nat /\ N \in Nat /\ X \in Nat /\ U <= N /\ N + RcvWnd <= Half /\ X + RcvWnd <= Half
    BY <1>7, <1>8
  <2> HIDE DEF U, N, X
  <2> QED  BY <1>w, <2>1
<1>11. DOMAIN b = 1 .. Len(b)
  <2> HIDE DEF b
  <2> QED  BY <1>6, Elements
<1>12. /\ itimediff(s.snd_una, r.rcv_nxt) = U - X /\ itimediff(s.snd_nxt, r.rcv_nxt) = N - X
       /\ itimediff(s.snd_nxt, s.snd_una) = N - U
  BY <1>6, <1>10, Compare
<1>13. /\ \A i, j \in 1 .. Len(b) : itimediff(b[i].sn, b[j].sn) = Pos(b[i].sn) - Pos(b[j].sn)
       /\ \A i \in 1 .. Len(b) : itimediff(b[i].sn, r.rcv_nxt) = Pos(b[i].sn) - X
  <2>1. \A i \in 1 .. Len(b) : b[i].sn \in Int /\ Pos(b[i].sn) < Half
    BY <1>8, SnFacts
  <2> QED  BY <1>6, <1>10, <2>1, Compare
<1>14. \A i, j \in 1 .. Len(b) : i < j => Pos(b[i].sn) < Pos(b[j].sn)
  BY <1>5 DEF Holding
<1>15. \A i \in 1 .. Len(b) : b[i].sn = r.rcv_nxt => Len(r.rcv_queue) = RcvWnd
  BY <1>4 DEF Receiving
<1>u. U = Pos(s.snd_una) /\ N = Pos(s.snd_nxt) /\ X = Pos(r.rcv_nxt)
  OBVIOUS
<1> HIDE DEF U, N, X, b
<1>16. {s.snd_una, s.snd_nxt, r.rcv_nxt} \subseteq 0 .. SnMod - 1
  BY <1>6 DEF Sns
<1>17. \A i \in 0 .. (U - X) - 1 : (r.rcv_nxt + i) % SnMod \in Numbers(b)
  <2> SUFFICES ASSUME NEW i \in 0 .. (U - X) - 1 PROVE (r.rcv_nxt + i) % SnMod \in Numbers(b)
    OBVIOUS
  <2> DEFINE q == X + i
  <2>1. i \in Nat /\ q \in Nat /\ q < U /\ q \in 0 .. N - 1 /\ ~(q < X) /\ q < SnMod
    BY <1>7, <1>8, <1>10, <1>w
  <2>2. q = Pos(r.rcv_nxt) + i
    BY <1>u
  <2> HIDE DEF q
  <2>3. ~InBuf(s.snd_buf, q)
    <3> SUFFICES ASSUME NEW g \in 1 .. Len(s.snd_buf), Pos(s.snd_buf[g].sn) = q PROVE FALSE
      BY DEF InBuf
    <3>1. U <= q
      BY <1>7
    <3> QED  BY <1>7, <2>1, <3>1
  <2>4. InBuf(b, q)
    BY <1>9, <2>1, <2>3
  <2>5. PICK g \in 1 .. Len(b) : Pos(b[g].sn) = q
    BY <2>4 DEF InBuf
  <2> DEFINE y == (r.rcv_nxt + i) % SnMod
  <2>6. y \in Sns /\ Pos(y) = q
    BY <1>6, <2>1, <2>2, Advance
  <2> HIDE DEF y
  <2>7. y = b[g].sn
    BY <1>8, <2>5, <2>6, SamePos
  <2> QED  BY <1>11, <2>7 DEF Numbers, y
<1>18. N - X >= 0 /\ N - U <= SndWnd
  BY <1>7, <1>8, <1>9
<1>19. \A i, j \in 1 .. Len(b) : i < j => itimediff(b[i].sn, b[j].sn) < 0
  <2> SUFFICES ASSUME NEW i \in 1 .. Len(b), NEW j \in 1 .. Len(b), i < j PROVE itimediff(b[i].sn, b[j].sn) < 0
    OBVIOUS
  <2> DEFINE x == Pos(b[i].sn)
             y == Pos(b[j].sn)
  <2>1. x \in Nat /\ y \in Nat /\ x < y /\ itimediff(b[i].sn, b[j].sn) = x - y
    BY <1>8, <1>13, <1>14
  <2> HIDE DEF x, y
  <2> QED  BY <2>1
<1>20. \A i \in 1 .. Len(b) : /\ itimediff(b[i].sn, r.rcv_nxt) \in 0 .. RcvWnd - 1
                              /\ itimediff(b[i].sn, r.rcv_nxt) = 0 => Len(r.rcv_queue) = RcvWnd
  <2> SUFFICES ASSUME NEW i \in 1 .. Len(b)
               PROVE  /\ itimediff(b[i].sn, r.rcv_nxt) \in 0 .. RcvWnd - 1
                      /\ itimediff(b[i].sn, r.rcv_nxt) = 0 => Len(r.rcv_queue) = RcvWnd
    OBVIOUS
  <2> DEFINE x == Pos(b[i].sn)
             d == itimediff(b[i].sn, r.rcv_nxt)
  <2>1. x \in Nat /\ X <= x /\ x < X + RcvWnd /\ d = x - X /\ b[i].sn \in Sns
    BY <1>8, <1>13
  <2>x. x = Pos(b[i].sn)
    OBVIOUS
  <2> HIDE DEF x, d
  <2>2. d \in 0 .. RcvWnd - 1 /\ (d = 0 => x = X)
    BY <1>8, <1>w, <2>1
  <2>3. d = 0 => b[i].sn = r.rcv_nxt
    BY <1>6, <1>u, <2>1, <2>2, <2>x, SamePos
  <2> QED  BY <1>15, <2>2, <2>3 DEF d
<1> QED  BY <1>8, <1>11, <1>12, <1>16, <1>17, <1>18, <1>19, <1>20 DEF b

\* A send() is a Send of the channel, a recv() that returns a Receive; nothing else shows.
LEMMA ChannelStep ==
    ASSUME Inv, [Next]_vars
    PROVE  [Channel!Next]_<<sent, received>>
<1>1. ASSUME NEW e \in Sides, NEW n \in Sizes, Send(e, n) PROVE Channel!Next
  <2> DEFINE L == Len(sent[e])
             m == Fragments(L + 1, n)
  <2>1. L + 1 \in 1 .. MaxSend[e]
    <3>1. sent[e] \in Seq(Seq(Frags)) /\ MaxSend[e] \in Nat
      BY UdpAssumption DEF Sides, Inv, TypeInv
    <3>2. L \in Nat /\ L < MaxSend[e]
      BY <1>1, <3>1 DEF Send
    <3> DEFINE M == MaxSend[e]
    <3>3. M \in Nat /\ L < M
      BY <3>1, <3>2
    <3> HIDE DEF L, M
    <3>4. L + 1 \in 1 .. M
      BY <3>2, <3>3
    <3> QED  BY <3>4 DEF M
  <2>2. m \in UNION {{Fragments(id, x) : id \in 1 .. MaxSend[s], x \in Sizes} : s \in Sides}
    <3> HIDE DEF L
    <3> QED  BY <2>1
  <2>3. sent' = [sent EXCEPT ![e] = Append(sent[e], m)] /\ received' = received
    BY <1>1 DEF Send
  <2> HIDE DEF m
  <2>4. Channel!Send(e, m)
    BY <2>3 DEF Channel!Send
  <2> QED  BY <2>2, <2>4 DEF Channel!Next
<1>2. ASSUME NEW e \in Sides, Recv(e) PROVE Channel!Next
  <2> DEFINE p == Peer(e)
             k == kcp[e]
             ms == sent[p]
             rs == received[e]
  <2>1. PICK off \in [Nat -> Nat] : Direction(e, off)
    BY DEF Inv
  <2>2. PICK offp \in [Nat -> Nat] : Direction(p, offp)
    BY Opposite DEF Inv
  <2>3. /\ k \in Blocks /\ rs \in Seq(Seq(Frags)) /\ Fits(offp, ms)
        /\ Linked(k, kcp[p], off, sent[e], offp, ms, rs)
    BY <2>1, <2>2, Both DEF Inv
  <2>4. Holding(k, offp, ms, rs) /\ ikcp_peeksize(k) > 0
    BY <1>2, <2>3 DEF Linked, Receiving, Recv
  <2>5. Len(rs) + 1 \in 1 .. Len(ms) /\ Message(k) = ms[Len(rs) + 1]
    <3> HIDE DEF p, k, ms, rs
    <3> QED  BY <2>3, <2>4, Peeked
  <2>6. Len(rs) < Len(ms)
    <3>1. Len(rs) \in Nat /\ Len(ms) \in Nat
      <4> HIDE DEF p, k, ms, rs
      <4> QED  BY <2>3, OffFacts, Elements
    <3> DEFINE x == Len(rs)
               y == Len(ms)
    <3>2. x \in Nat /\ y \in Nat /\ x + 1 \in 1 .. y
      BY <2>5, <3>1
    <3> HIDE DEF x, y
    <3>3. x < y
      BY <3>2
    <3> QED  BY <3>3 DEF x, y
  <2>7. received' = [received EXCEPT ![e] = Append(rs, ms[Len(rs) + 1])] /\ sent' = sent
    BY <1>2, <2>5 DEF Recv
  <2>8. Channel!Receive(e)
    BY <2>6, <2>7 DEF Channel!Receive
  <2> QED  BY <2>8 DEF Channel!Next
<1>3. ASSUME NEW e \in Sides, Timer(e) PROVE UNCHANGED <<sent, received>>
  BY <1>3 DEF Timer
<1>4. ASSUME NEW e, NEW i, NEW keep, Network(e, i, keep) PROVE UNCHANGED <<sent, received>>
  BY <1>4 DEF Network, ClientInput, Accept, RecvDone
<1>5. ASSUME ServerInput PROVE UNCHANGED <<sent, received>>
  BY <1>5 DEF ServerInput
<1>6. ASSUME UNCHANGED vars PROVE UNCHANGED <<sent, received>>
  BY <1>6 DEF vars
<1> QED  BY <1>1, <1>2, <1>3, <1>4, <1>5, <1>6 DEF Next

----------------------------------------------------------------------------
(* Theorems *)

\* The invariant holds throughout: the two ends and the network agree on which fragment
\* is at which place.
THEOREM Invariance == Spec => []Inv
  BY InitInv, StepInv, PTL DEF Spec

\* NothingLost, for all windows and bounds: ikcp_parse_ack() and ikcp_parse_una() only drop
\* a segment from snd_buf when the other side has it, whatever the network loses, repeats
\* or delays.
THEOREM NothingIsLost == Spec => []NothingLost
  BY Invariance, InvNothingLost, PTL

\* WindowsAligned, for all windows and bounds: what _itimediff() computes from the numbers
\* in snd_una, snd_nxt, rcv_nxt and rcv_buf is right across their wrap.
THEOREM WindowsStayAligned == Spec => []WindowsAligned
  BY Invariance, InvWindowsAligned, PTL

\* Reliable, for all windows and bounds: two UDP streams implement ReliableChannel. Each
\* recv() returns the next message the other side's send() took, whole.
THEOREM UdpIsReliable == Spec => Reliable
<1>1. Init => Channel!Init
  BY DEF Init, Channel!Init
<1> QED  BY <1>1, Invariance, ChannelStep, PTL DEF Spec, Reliable, Channel!Spec

=============================================================================
