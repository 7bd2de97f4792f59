--------------------------- MODULE MuxOrderProofs ---------------------------
(***************************************************************************)
(* Proofs about what the reader of a stream gets in MuxSession.  Where one *)
(* endpoint opens no stream, only the send fiber of the other one writes   *)
(* to the connection: every payload then follows its header, chunks arrive *)
(* in order, and a FIN arrives after all of them.                          *)
(*                                                                         *)
(* r is an endpoint that opens no stream and w its peer.                   *)
(***************************************************************************)
EXTENDS MuxSessionProofs

\* Places of the recv fiber with a frame in hand, and those before its end.
Holding == {"handle", "locked", "body"}
Reading == {"head", "accept"} \cup Holding

\* The frames a recv fiber has before it: the one in its hands, then the wire.
Held(place, h, frames) == IF place \in Holding THEN <<h>> \o frames ELSE frames
Ahead(r) == Held(recv[r], hdr[r], wire[Other(r)])

Chunk(f, id)  == f.type = "data" /\ f.id = id
Begins(f, id) == Opening(f) /\ f.id = id
Ends(f, id)   == f.flag = "FIN" /\ f.id = id

\* b is the payload that the header f announces; the send fiber is about to
\* write that payload, or has ended and writes nothing any more.
BodyOf(b, f) == b.type = "body" /\ b.id = f.id /\ b.len = f.len /\ b.n = f.n
Due(place, task, f) ==
    place = "exit" \/ (place = "body" /\ task.id = f.id /\ task.len = f.len /\ task.n = f.n)

-----------------------------------------------------------------------------
(* The inductive invariant.                                                *)

\* A header of data is followed by its payload.
Framed(v, place, task) ==
    \A i \in 1..Len(v) :
        v[i].type = "data" =>
            /\ v[i].flag = "none"
            /\ i < Len(v) => BodyOf(v[i + 1], v[i])
            /\ i = Len(v) => Due(place, task, v[i])

\* The chunks of a stream are those from g + 1 to t, in order.
Above(v, id, g, t) ==
    \A i \in 1..Len(v) : Chunk(v[i], id) => g < v[i].n /\ v[i].n <= t
Gapless(v, id, g) ==
    \A i \in 1..Len(v) :
        Chunk(v[i], id) =>
            \/ v[i].n = g + 1
            \/ \E j \in 1..Len(v) : j < i /\ Chunk(v[j], id) /\ v[j].n = v[i].n - 1
Rising(v, id) ==
    \A i, j \in 1..Len(v) :
        i < j /\ Chunk(v[i], id) /\ Chunk(v[j], id) => v[i].n < v[j].n
Complete(v, id, g, t) ==
    t = g \/ \E i \in 1..Len(v) : Chunk(v[i], id) /\ v[i].n = t
Numbered(v, id, g, t) ==
    Above(v, id, g, t) /\ Gapless(v, id, g) /\ Rising(v, id) /\ Complete(v, id, g, t)

NoChunk(v, id) == \A i \in 1..Len(v) : ~Chunk(v[i], id)
NoFin(v, id) == \A i \in 1..Len(v) : ~Ends(v[i], id)
NoSyn(v, id) == \A i \in 1..Len(v) : ~Begins(v[i], id)

\* Chunks come after the SYN and before the FIN of their stream.
SynFirst(v, id) ==
    \A i, j \in 1..Len(v) : Chunk(v[i], id) /\ Begins(v[j], id) => j < i
FinLast(v, id) ==
    \A i, j \in 1..Len(v) : Chunk(v[i], id) /\ Ends(v[j], id) => i < j

\* The streams in the map of r, and the one incoming_stream() is about to add.
Entered(r) == streams[r] \cup (IF recv[r] = "accept" THEN {hdr[r].id} ELSE {})

\* r has the stream or may still get it: its SYN is on the way or not yet
\* written.  Chunks of any other stream are discarded.
Live(r, id) ==
    \/ id \in Entered(r)
    \/ ~NoSyn(Ahead(r), id)
    \/ next_stream_id[Other(r)] < id

\* p will not write to the stream any more.
Over(p, id) == Rank(state[p][id]) >= 3

\* What a stream's frames before the recv fiber are.
Flow(r, id) ==
    /\ Live(r, id) => Numbered(Ahead(r), id, got[r][id], sent[Other(r)][id])
    /\ SynFirst(Ahead(r), id) /\ FinLast(Ahead(r), id)
    /\ next_stream_id[Other(r)] < id => NoChunk(Ahead(r), id)
    /\ Over(Other(r), id) \/ NoFin(Ahead(r), id)
    /\ state[r][id] = "RemoteClose" => NoChunk(Ahead(r), id)

\* The frame in the hands of the recv fiber is of a stream.
HandsOK(r) ==
    /\ recv[r] \in Holding => hdr[r].type \in StreamTypes
    /\ recv[r] = "body" => hdr[r].type = "data"

\* All that was sent on a half-closed stream has arrived.
HalfClosed(r, id) ==
    state[r][id] = "RemoteClose" => got[r][id] = sent[Other(r)][id] /\ Over(Other(r), id)

Flowing(r) ==
    /\ opens[r] = 0 /\ sender[r] # "emplace"
    /\ \A id \in OwnIds(Other(r)) : HalfClosed(r, id)
    /\ recv[r] \in Reading =>
          /\ Framed(Ahead(r), sender[Other(r)], cur[Other(r)])
          /\ HandsOK(r)
          /\ \A id \in OwnIds(Other(r)) : Flow(r, id)

OrderInv == \A r \in Peers : r \notin Openers => Flowing(r)

-----------------------------------------------------------------------------
(* Sequences of frames that lose their first or get another last frame.    *)

\* Frames have numbers.
LEMMA Numbers ==
    ASSUME NEW v \in Seq(Frames), NEW i \in 1..Len(v)
    PROVE  v[i] \in Frames /\ v[i].n \in Nat /\ Len(v) \in Nat
<1>1. v[i] \in Frames /\ Len(v) \in Nat
  BY ElementOfSeq, LenProperties
<1>. QED BY <1>1 DEF Frames

\* Without its first frame a sequence keeps what says no frame stands in the
\* wrong place.
LEMMA RestOrdered ==
    ASSUME NEW v \in Seq(Frames), v # <<>>, NEW id
    PROVE  /\ SynFirst(v, id) => SynFirst(Tail(v), id)
           /\ FinLast(v, id) => FinLast(Tail(v), id)
           /\ NoChunk(v, id) => NoChunk(Tail(v), id)
           /\ NoFin(v, id) => NoFin(Tail(v), id)
           /\ NoSyn(v, id) => NoSyn(Tail(v), id)
<1>. DEFINE u == Tail(v)
<1>1. \A i \in 1..Len(u) : i \in Nat /\ i + 1 \in 1..Len(v) /\ u[i] = v[i + 1]
  BY TailFacts
<1>. HIDE DEF u
<1>2. \A i, j \in 1..Len(u) : i + 1 < j + 1 => i < j
  BY <1>1
<1>. QED BY <1>1, <1>2 DEF SynFirst, FinLast, NoChunk, NoFin, NoSyn, u

\* Without its first frame a sequence is still framed.
LEMMA RestFramed ==
    ASSUME NEW v \in Seq(Frames), v # <<>>, NEW place, NEW task, Framed(v, place, task)
    PROVE  Framed(Tail(v), place, task)
<1>. DEFINE u == Tail(v)
<1>1. /\ Len(v) \in Nat /\ Len(u) = Len(v) - 1
      /\ \A i \in 1..Len(u) : i + 1 \in 1..Len(v) /\ u[i] = v[i + 1]
  BY TailFacts
<1>. HIDE DEF u
<1>2. ASSUME NEW i \in 1..Len(u), u[i].type = "data"
      PROVE  /\ u[i].flag = "none"
             /\ i < Len(u) => BodyOf(u[i + 1], u[i])
             /\ i = Len(u) => Due(place, task, u[i])
  <2>1. /\ i + 1 \in 1..Len(v) /\ u[i] = v[i + 1]
        /\ i < Len(u) => i + 1 \in 1..Len(u) /\ u[i + 1] = v[(i + 1) + 1] /\ i + 1 < Len(v)
        /\ i = Len(u) => i + 1 = Len(v)
    BY <1>1
  <2>. QED BY <1>2, <2>1 DEF Framed
<1>. QED BY <1>2 DEF Framed, u

\* The first frame is no chunk of the stream: the rest are the same chunks.
LEMMA RestNumbered ==
    ASSUME NEW v \in Seq(Frames), v # <<>>, NEW id, NEW g \in Nat, NEW t \in Nat,
           Numbered(v, id, g, t), ~Chunk(v[1], id)
    PROVE  Numbered(Tail(v), id, g, t)
<1>. DEFINE u == Tail(v)
<1>1. /\ Len(v) \in Nat /\ Len(u) = Len(v) - 1
      /\ \A i \in 1..Len(u) : i + 1 \in 1..Len(v) /\ u[i] = v[i + 1]
  BY TailFacts
<1>. HIDE DEF u
<1>2. ASSUME NEW k \in 1..Len(v), Chunk(v[k], id)
      PROVE  k - 1 \in 1..Len(u) /\ u[k - 1] = v[k]
  <2>1. k # 1
    BY <1>2
  <2>2. k - 1 \in 1..Len(u) /\ (k - 1) + 1 = k
    BY <1>1, <2>1
  <2>. QED BY <1>1, <2>2
<1>3. Above(u, id, g, t)
  BY <1>1 DEF Numbered, Above
<1>4. ASSUME NEW i \in 1..Len(u), Chunk(u[i], id), u[i].n # g + 1
      PROVE  \E j \in 1..Len(u) : j < i /\ Chunk(u[j], id) /\ u[j].n = u[i].n - 1
  <2>1. i + 1 \in 1..Len(v) /\ u[i] = v[i + 1]
    BY <1>1
  <2>2. PICK k \in 1..Len(v) : k < i + 1 /\ Chunk(v[k], id) /\ v[k].n = v[i + 1].n - 1
    BY <1>4, <2>1 DEF Numbered, Gapless
  <2>3. k - 1 \in 1..Len(u) /\ u[k - 1] = v[k] /\ k - 1 < i
    <3>1. k - 1 \in 1..Len(u) /\ u[k - 1] = v[k]
      BY <1>2, <2>2
    <3>. QED BY <1>1, <2>2, <3>1
  <2>. QED BY <2>1, <2>2, <2>3
<1>5. Rising(u, id)
  <2>1. \A i, j \in 1..Len(u) : i < j => i + 1 < j + 1
    BY <1>1
  <2>. QED BY <1>1, <2>1 DEF Numbered, Rising
<1>6. Complete(u, id, g, t)
  BY <1>2 DEF Numbered, Complete
<1>. QED BY <1>3, <1>4, <1>5, <1>6 DEF Numbered, Gapless, u

\* The first frame is a chunk: it is the next one, and the rest follow it.
LEMMA ChunkTaken ==
    ASSUME NEW v \in Seq(Frames), v # <<>>, NEW id, NEW g \in Nat, NEW t \in Nat,
           Numbered(v, id, g, t), Chunk(v[1], id)
    PROVE  v[1].n = g + 1 /\ Numbered(Tail(v), id, g + 1, t)
<1>. DEFINE u == Tail(v)
<1>1. /\ Len(v) \in Nat /\ Len(u) = Len(v) - 1 /\ 1 \in 1..Len(v)
      /\ \A i \in 1..Len(u) : i + 1 \in 1..Len(v) /\ u[i] = v[i + 1]
  BY TailFacts
<1>. HIDE DEF u
<1>2. v[1].n = g + 1
  BY <1>1 DEF Numbered, Gapless
<1>3. ASSUME NEW k \in 1..Len(v), Chunk(v[k], id), k # 1
      PROVE  k - 1 \in 1..Len(u) /\ u[k - 1] = v[k]
  <2>1. k - 1 \in 1..Len(u) /\ (k - 1) + 1 = k
    BY <1>1, <1>3
  <2>. QED BY <1>1, <2>1
<1>4. ASSUME NEW i \in 1..Len(u), Chunk(u[i], id)
      PROVE  g + 1 < u[i].n /\ u[i].n <= t
  <2>1. i + 1 \in 1..Len(v) /\ u[i] = v[i + 1] /\ 1 < i + 1
    BY <1>1
  <2>2. v[1].n < v[i + 1].n
    BY <1>1, <1>4, <2>1 DEF Numbered, Rising
  <2>. QED BY <1>2, <1>4, <2>1, <2>2 DEF Numbered, Above
<1>5. ASSUME NEW i \in 1..Len(u), Chunk(u[i], id), u[i].n # (g + 1) + 1
      PROVE  \E j \in 1..Len(u) : j < i /\ Chunk(u[j], id) /\ u[j].n = u[i].n - 1
  <2>1. i + 1 \in 1..Len(v) /\ u[i] = v[i + 1]
    BY <1>1
  <2>2. u[i].n \in Nat /\ u[i].n # g + 1
    BY <1>4, <1>5, <2>1, Numbers
  <2>3. PICK k \in 1..Len(v) : k < i + 1 /\ Chunk(v[k], id) /\ v[k].n = v[i + 1].n - 1
    BY <1>5, <2>1, <2>2 DEF Numbered, Gapless
  <2>4. k # 1
    BY <1>2, <1>5, <2>1, <2>2, <2>3
  <2>5. k - 1 \in 1..Len(u) /\ u[k - 1] = v[k] /\ k - 1 < i
    BY <1>3, <2>3, <2>4
  <2>. QED BY <2>1, <2>3, <2>5
<1>6. Rising(u, id)
  <2>1. \A i, j \in 1..Len(u) : i < j => i + 1 < j + 1
    BY <1>1
  <2>. QED BY <1>1, <2>1 DEF Numbered, Rising
<1>7. Complete(u, id, g + 1, t)
  <2>1. t # g
    BY <1>1, <1>2 DEF Numbered, Above
  <2>2. PICK k \in 1..Len(v) : Chunk(v[k], id) /\ v[k].n = t
    BY <2>1 DEF Numbered, Complete
  <2>. QED BY <1>2, <1>3, <2>2 DEF Complete
<1>. QED BY <1>2, <1>4, <1>5, <1>6, <1>7 DEF Numbered, Above, Gapless, u

\* A frame that is no chunk, no SYN and no FIN of the stream disturbs nothing;
\* a FIN may follow any frame, a SYN only where there are no chunks yet.
LEMMA MoreOrdered ==
    ASSUME NEW v \in Seq(Frames), NEW f \in Frames, NEW id
    PROVE  /\ SynFirst(v, id) /\ (~Begins(f, id) \/ NoChunk(v, id)) /\ ~(Chunk(f, id) /\ Begins(f, id))
                 => SynFirst(Append(v, f), id)
           /\ FinLast(v, id) /\ (~Chunk(f, id) \/ (NoFin(v, id) /\ ~Ends(f, id)))
                 => FinLast(Append(v, f), id)
           /\ NoChunk(v, id) /\ ~Chunk(f, id) => NoChunk(Append(v, f), id)
           /\ NoFin(v, id) /\ ~Ends(f, id) => NoFin(Append(v, f), id)
           /\ NoSyn(v, id) /\ ~Begins(f, id) => NoSyn(Append(v, f), id)
<1>. DEFINE u == Append(v, f)
<1>1. /\ Len(v) \in Nat /\ Len(u) = Len(v) + 1
      /\ \A i \in 1..Len(v) : u[i] = v[i]
      /\ u[Len(v) + 1] = f
  BY AppendFacts
<1>. HIDE DEF u
<1>2. \A i \in 1..Len(u) : (i \in 1..Len(v) /\ u[i] = v[i]) \/ (i = Len(v) + 1 /\ u[i] = f)
  BY <1>1
<1>3. ASSUME SynFirst(v, id), ~Begins(f, id) \/ NoChunk(v, id), ~(Chunk(f, id) /\ Begins(f, id))
      PROVE  SynFirst(u, id)
  <2>. SUFFICES ASSUME NEW i \in 1..Len(u), NEW j \in 1..Len(u), Chunk(u[i], id), Begins(u[j], id)
                PROVE  j < i
    BY DEF SynFirst
  <2>1. CASE i \in 1..Len(v) /\ u[i] = v[i] /\ j \in 1..Len(v) /\ u[j] = v[j]
    BY <1>3, <2>1 DEF SynFirst
  <2>2. CASE i = Len(v) + 1 /\ u[i] = f /\ j \in 1..Len(v)
    BY <1>1, <2>2
  <2>3. CASE j = Len(v) + 1 /\ u[j] = f
    BY <1>2, <1>3, <2>3 DEF NoChunk
  <2>. QED BY <1>2, <2>1, <2>2, <2>3
<1>4. ASSUME FinLast(v, id), ~Chunk(f, id) \/ (NoFin(v, id) /\ ~Ends(f, id))
      PROVE  FinLast(u, id)
  <2>. SUFFICES ASSUME NEW i \in 1..Len(u), NEW j \in 1..Len(u), Chunk(u[i], id), Ends(u[j], id)
                PROVE  i < j
    BY DEF FinLast
  <2>1. CASE i \in 1..Len(v) /\ u[i] = v[i] /\ j \in 1..Len(v) /\ u[j] = v[j]
    BY <1>4, <2>1 DEF FinLast
  <2>2. CASE i \in 1..Len(v) /\ j = Len(v) + 1
    BY <1>1, <2>2
  <2>3. CASE i = Len(v) + 1 /\ u[i] = f
    BY <1>2, <1>4, <2>3 DEF NoFin
  <2>. QED BY <1>2, <2>1, <2>2, <2>3
<1>5. NoChunk(v, id) /\ ~Chunk(f, id) => NoChunk(u, id)
  BY <1>2 DEF NoChunk
<1>6. NoFin(v, id) /\ ~Ends(f, id) => NoFin(u, id)
  BY <1>2 DEF NoFin
<1>7. NoSyn(v, id) /\ ~Begins(f, id) => NoSyn(u, id)
  BY <1>2 DEF NoSyn
<1>. QED BY <1>3, <1>4, <1>5, <1>6, <1>7 DEF u

\* A frame can follow unless a payload is due; the frame that is due can follow.
LEMMA MoreFramed ==
    ASSUME NEW v \in Seq(Frames), NEW f \in Frames, NEW place, NEW task, NEW place2, NEW task2,
           Framed(v, place, task),
           \A h \in Frames : Due(place, task, h) => BodyOf(f, h),
           f.type = "data" => f.flag = "none" /\ Due(place2, task2, f)
    PROVE  Framed(Append(v, f), place2, task2)
<1>. DEFINE u == Append(v, f)
<1>1. /\ Len(v) \in Nat /\ Len(u) = Len(v) + 1
      /\ \A i \in 1..Len(v) : u[i] = v[i]
      /\ u[Len(v) + 1] = f
  BY AppendFacts
<1>. HIDE DEF u
<1>2. ASSUME NEW i \in 1..Len(u), u[i].type = "data"
      PROVE  /\ u[i].flag = "none"
             /\ i < Len(u) => BodyOf(u[i + 1], u[i])
             /\ i = Len(u) => Due(place2, task2, u[i])
  <2>1. CASE i \in 1..Len(v) /\ i < Len(v)
    <3>1. i + 1 \in 1..Len(v) /\ i # Len(u)
      BY <1>1, <2>1
    <3>. QED BY <1>1, <1>2, <2>1, <3>1 DEF Framed
  <2>2. CASE i = Len(v) /\ i \in 1..Len(v)
    <3>1. v[i] \in Frames /\ u[i] = v[i] /\ u[i + 1] = f /\ i # Len(u)
      BY <1>1, <2>2, Numbers
    <3>. QED BY <1>2, <2>2, <3>1 DEF Framed
  <2>3. CASE i = Len(v) + 1
    BY <1>1, <1>2, <2>3
  <2>. QED BY <1>1, <2>1, <2>2, <2>3
<1>. QED BY <1>2 DEF Framed, u

\* A frame that is no chunk of the stream changes none of its numbers.
LEMMA MoreNumbered ==
    ASSUME NEW v \in Seq(Frames), NEW f \in Frames, NEW id, NEW g \in Nat, NEW t \in Nat,
           Numbered(v, id, g, t), ~Chunk(f, id)
    PROVE  Numbered(Append(v, f), id, g, t)
<1>. DEFINE u == Append(v, f)
<1>1. /\ Len(v) \in Nat /\ Len(u) = Len(v) + 1
      /\ \A i \in 1..Len(v) : u[i] = v[i]
      /\ u[Len(v) + 1] = f
  BY AppendFacts
<1>. HIDE DEF u
<1>2. \A i \in 1..Len(u) : Chunk(u[i], id) => i \in 1..Len(v) /\ u[i] = v[i]
  BY <1>1
<1>3. \A i \in 1..Len(v) : i \in 1..Len(u) /\ u[i] = v[i]
  BY <1>1
<1>4. Above(u, id, g, t)
  BY <1>2 DEF Numbered, Above
<1>5. Gapless(u, id, g)
  BY <1>2, <1>3 DEF Numbered, Gapless
<1>6. Rising(u, id)
  BY <1>2 DEF Numbered, Rising
<1>7. Complete(u, id, g, t)
  BY <1>3 DEF Numbered, Complete
<1>. QED BY <1>4, <1>5, <1>6, <1>7 DEF Numbered, u

\* The next chunk follows all the others.
LEMMA ChunkAdded ==
    ASSUME NEW v \in Seq(Frames), NEW f \in Frames, NEW id, NEW g \in Nat, NEW t \in Nat,
           Numbered(v, id, g, t), Chunk(f, id), f.n = t + 1, g <= t
    PROVE  Numbered(Append(v, f), id, g, t + 1)
<1>. DEFINE u == Append(v, f)
<1>1. /\ Len(v) \in Nat /\ Len(u) = Len(v) + 1
      /\ \A i \in 1..Len(v) : u[i] = v[i]
      /\ u[Len(v) + 1] = f
  BY AppendFacts
<1>. HIDE DEF u
<1>2. \A i \in 1..Len(u) : (i \in 1..Len(v) /\ u[i] = v[i]) \/ (i = Len(v) + 1 /\ u[i] = f)
  BY <1>1
<1>3. \A i \in 1..Len(v) : i \in 1..Len(u) /\ u[i] = v[i] /\ v[i].n \in Nat /\ i < Len(v) + 1
  BY <1>1, Numbers
<1>4. Above(u, id, g, t + 1)
  BY <1>2, <1>3 DEF Numbered, Above
<1>5. ASSUME NEW i \in 1..Len(u), Chunk(u[i], id), u[i].n # g + 1
      PROVE  \E j \in 1..Len(u) : j < i /\ Chunk(u[j], id) /\ u[j].n = u[i].n - 1
  <2>1. CASE i \in 1..Len(v) /\ u[i] = v[i]
    BY <1>3, <1>5, <2>1 DEF Numbered, Gapless
  <2>2. CASE i = Len(v) + 1 /\ u[i] = f
    <3>1. t # g /\ f.n - 1 = t
      BY <1>5, <2>2
    <3>2. PICK j \in 1..Len(v) : Chunk(v[j], id) /\ v[j].n = t
      BY <3>1 DEF Numbered, Complete
    <3>. QED BY <1>3, <2>2, <3>1, <3>2
  <2>. QED BY <1>2, <2>1, <2>2
<1>6. ASSUME NEW i \in 1..Len(u), NEW j \in 1..Len(u), i < j, Chunk(u[i], id), Chunk(u[j], id)
      PROVE  u[i].n < u[j].n
  <2>1. i \in 1..Len(v) /\ u[i] = v[i]
    BY <1>1, <1>2, <1>6
  <2>2. CASE j \in 1..Len(v) /\ u[j] = v[j]
    BY <1>6, <2>1, <2>2 DEF Numbered, Rising
  <2>3. CASE u[j] = f
    BY <1>3, <1>6, <2>1, <2>3 DEF Numbered, Above
  <2>. QED BY <1>2, <2>2, <2>3
<1>7. Complete(u, id, g, t + 1)
  <2>1. Len(v) + 1 \in 1..Len(u)
    BY <1>1
  <2>. QED BY <1>1, <2>1 DEF Complete
<1>. QED BY <1>4, <1>5, <1>6, <1>7 DEF Numbered, Gapless, Rising, u

\* Not more has been read than written.
LEMMA NotMore ==
    ASSUME NEW v \in Seq(Frames), NEW id, NEW g \in Nat, NEW t \in Nat, Numbered(v, id, g, t)
    PROVE  g <= t
<1>1. CASE t = g
  BY <1>1
<1>2. ASSUME NEW i \in 1..Len(v), Chunk(v[i], id), v[i].n = t PROVE g <= t
  BY <1>2 DEF Numbered, Above
<1>. QED BY <1>1, <1>2 DEF Numbered, Complete

-----------------------------------------------------------------------------
(* What is before a recv fiber, after a step.                              *)

\* A frame in hand comes first.
LEMMA HeldFacts ==
    ASSUME NEW place, NEW h \in Frames, NEW s \in Seq(Frames)
    PROVE  /\ Held(place, h, s) \in Seq(Frames)
           /\ place \in Holding => /\ Held(place, h, s) # <<>> /\ Held(place, h, s)[1] = h
                                   /\ Tail(Held(place, h, s)) = s
           /\ place \notin Holding => Held(place, h, s) = s
<1>1. <<h>> \in Seq(Frames) /\ Len(<<h>>) = 1 /\ <<h>>[1] = h
  OBVIOUS
<1>2. /\ <<h>> \o s \in Seq(Frames) /\ Len(<<h>> \o s) = 1 + Len(s) /\ Len(s) \in Nat
      /\ \A i \in 1..Len(<<h>> \o s) : (<<h>> \o s)[i] = IF i <= 1 THEN h ELSE s[i - 1]
  BY <1>1, ConcatProperties, LenProperties
<1>3. (<<h>> \o s)[1] = h /\ <<h>> \o s # <<>>
  BY <1>2, EmptySeq
<1>4. Tail(<<h>> \o s) = s
  <2>1. /\ Tail(<<h>> \o s) \in Seq(Frames) /\ Len(Tail(<<h>> \o s)) = Len(s)
        /\ \A i \in 1..Len(s) : Tail(<<h>> \o s)[i] = (<<h>> \o s)[i + 1] /\ i + 1 \in 1..Len(<<h>> \o s)
    BY <1>2, <1>3, TailFacts
  <2>2. \A i \in 1..Len(s) : Tail(<<h>> \o s)[i] = s[i]
    BY <1>2, <2>1
  <2>. QED BY <2>1, <2>2, SeqEqual
<1>. QED BY <1>2, <1>3, <1>4 DEF Held

\* A frame that is written comes last.
LEMMA HeldMore ==
    ASSUME NEW place, NEW h \in Frames, NEW s \in Seq(Frames), NEW f \in Frames
    PROVE  Held(place, h, Append(s, f)) = Append(Held(place, h, s), f)
<1>1. <<h>> \in Seq(Frames)
  OBVIOUS
<1>2. <<h>> \o Append(s, f) = Append(<<h>> \o s, f)
  BY <1>1
<1>. QED BY <1>2 DEF Held

\* The frames before a recv fiber are frames, and chunks are counted.
LEMMA AheadTyped ==
    ASSUME TypeInv, NEW r \in Peers
    PROVE  /\ Ahead(r) \in Seq(Frames) /\ hdr[r] \in Frames /\ wire[Other(r)] \in Seq(Frames)
           /\ recv[r] \in Reading \cup {"exit", "abort"}
           /\ next_stream_id[r] \in Nat /\ next_stream_id[Other(r)] \in Nat
           /\ \A id \in Ids : got[r][id] \in Nat /\ sent[Other(r)][id] \in Nat
           /\ \A id \in OwnIds(Other(r)) : id \in Ids /\ id \in Nat
<1>1. Other(r) \in Peers
  BY OtherPeer
<1>2. hdr[r] \in Frames /\ wire[Other(r)] \in Seq(Frames)
  BY <1>1 DEF TypeInv, TypeOK
<1>3. recv[r] \in Reading \cup {"exit", "abort"}
  BY DEF TypeInv, TypeOK, Reading, Holding
<1>4. \A id \in Ids : got[r][id] \in Nat /\ sent[Other(r)][id] \in Nat
  BY <1>1 DEF TypeInv, TypeOK
<1>5. next_stream_id[r] \in Nat /\ next_stream_id[Other(r)] \in Nat
  BY <1>1 DEF TypeInv, TypeOK
<1>6. \A id \in OwnIds(Other(r)) : id \in Ids /\ id \in Nat
  BY <1>1, OwnIdsDisjoint, IdsAreNat
<1>. QED BY <1>2, <1>3, <1>4, <1>5, <1>6, HeldFacts DEF Ahead

\* Ranks are numbers.
LEMMA RankIsNat == \A s : Rank(s) \in Nat
BY DEF Rank

\* An endpoint that will not write to a stream never will again.
LEMMA OverKept ==
    ASSUME Risen, NEW p \in Peers, NEW id \in Ids, Over(p, id)
    PROVE  Over(p, id)'
<1>1. Rank(state[p][id]) \in Nat /\ Rank(state'[p][id]) \in Nat
  BY RankIsNat
<1>2. state'[p][id] # state[p][id] => Rank(state'[p][id]) > Rank(state[p][id])
  BY DEF Risen
<1>. QED BY <1>1, <1>2 DEF Over

\* What every step of either endpoint leaves true.
Onward(r) ==
    /\ opens'[r] = 0 /\ sender'[r] # "emplace"
    /\ \A id \in OwnIds(Other(r)) : Over(Other(r), id) => Over(Other(r), id)'

\* No stream is half-closed by a step.
NoneHalfClosed(r) ==
    \A id \in OwnIds(Other(r)) : state'[r][id] = "RemoteClose" => state[r][id] = "RemoteClose"

\* A step after which the recv fiber has ended.
LEMMA StoppedStep ==
    ASSUME NEW r \in Peers, Flowing(r), Onward(r), NoneHalfClosed(r), recv'[r] \notin Reading,
           got'[r] = got[r], sent'[Other(r)] = sent[Other(r)]
    PROVE  Flowing(r)'
<1>1. \A id \in OwnIds(Other(r)) : HalfClosed(r, id)'
  BY DEF HalfClosed, Flowing, Onward, NoneHalfClosed
<1>. QED BY <1>1 DEF Flowing, Onward

\* A step that neither adds nor takes a frame.
LEMMA AheadSame ==
    ASSUME TypeInv, NEW r \in Peers, Flowing(r), Onward(r), NoneHalfClosed(r), recv[r] \in Reading,
           HandsOK(r)', Ahead(r)' = Ahead(r), Entered(r)' \subseteq Entered(r),
           got'[r] = got[r], sent'[Other(r)] = sent[Other(r)],
           \/ next_stream_id'[Other(r)] = next_stream_id[Other(r)]
           \/ next_stream_id'[Other(r)] = next_stream_id[Other(r)] + IdStep,
           \/ sender'[Other(r)] = sender[Other(r)] /\ cur'[Other(r)] = cur[Other(r)]
           \/ sender'[Other(r)] = "exit"
           \/ sender[Other(r)] \notin {"body", "exit"}
    PROVE  Flowing(r)'
<1>. DEFINE w == Other(r)
<1>1. \A id \in OwnIds(w) : HalfClosed(r, id)'
  BY DEF HalfClosed, Flowing, Onward, NoneHalfClosed
<1>2. Framed(Ahead(r)', sender'[w], cur'[w])
  <2>1. Framed(Ahead(r), sender[w], cur[w])
    BY DEF Flowing
  <2>. QED BY <2>1 DEF Framed, Due
<1>3. ASSUME NEW id \in OwnIds(w) PROVE Flow(r, id)'
  <2>1. Flow(r, id)
    BY DEF Flowing
  <2>2. next_stream_id'[w] < id => next_stream_id[w] < id
    BY AheadTyped DEF IdStep
  <2>3. Live(r, id)' => Live(r, id)
    BY <2>2 DEF Live
  <2>4. Over(w, id) => Over(w, id)'
    BY DEF Onward
  <2>5. state'[r][id] = "RemoteClose" => state[r][id] = "RemoteClose"
    BY DEF NoneHalfClosed
  <2>. HIDE DEF w
  <2>. QED BY <2>1, <2>2, <2>3, <2>4, <2>5 DEF Flow, w
<1>. QED BY <1>1, <1>2, <1>3 DEF Flowing, Onward

\* A frame that the peer writes and that is no chunk of the stream.
LEMMA FlowMore ==
    ASSUME TypeInv, NEW r \in Peers, NEW id \in OwnIds(Other(r)), NEW f \in Frames, Flow(r, id),
           Ahead(r)' = Append(Ahead(r), f), Entered(r)' = Entered(r),
           got'[r] = got[r], sent'[Other(r)][id] = sent[Other(r)][id],
           next_stream_id'[Other(r)] < id => next_stream_id[Other(r)] < id,
           Over(Other(r), id) => Over(Other(r), id)',
           state'[r][id] = "RemoteClose" => state[r][id] = "RemoteClose",
           ~Chunk(f, id),
           Begins(f, id) => next_stream_id[Other(r)] < id,
           Ends(f, id) => Over(Other(r), id)'
    PROVE  Flow(r, id)'
<1>. DEFINE w == Other(r)
            v == Ahead(r)
            u == Append(v, f)
<1>0. v \in Seq(Frames) /\ got[r][id] \in Nat /\ sent[w][id] \in Nat
  BY AheadTyped
<1>. HIDE DEF w, v
<1>1. Flow(r, id) /\ Ahead(r)' = u
  BY DEF v
<1>2. Begins(f, id) => NoChunk(v, id)
  BY <1>1 DEF Flow, v, w
<1>3. SynFirst(u, id) /\ FinLast(u, id)
  BY <1>0, <1>1, <1>2, MoreOrdered DEF Flow, v
<1>4. NoChunk(v, id) => NoChunk(u, id)
  BY <1>0, MoreOrdered
<1>5. Over(w, id)' \/ NoFin(u, id)
  BY <1>0, <1>1, MoreOrdered DEF Flow, v, w
<1>6. Live(r, id)' => Live(r, id)
  <2>1. NoSyn(v, id) /\ ~Begins(f, id) => NoSyn(u, id)
    BY <1>0, MoreOrdered
  <2>. QED BY <1>1, <2>1 DEF Live, v
<1>7. Live(r, id)' => Numbered(u, id, got[r][id], sent[w][id])
  <2>1. Live(r, id) => Numbered(v, id, got[r][id], sent[w][id])
    BY <1>1 DEF Flow, v, w
  <2>. QED BY <1>0, <1>6, <2>1, MoreNumbered
<1>. HIDE DEF u
<1>. QED BY <1>1, <1>3, <1>4, <1>5, <1>7 DEF Flow, v, w

\* The next chunk of a stream that may be written to.
LEMMA FlowChunk ==
    ASSUME TypeInv, NEW r \in Peers, NEW id \in OwnIds(Other(r)), NEW f \in Frames, Flow(r, id),
           Ahead(r)' = Append(Ahead(r), f), Entered(r)' = Entered(r),
           got'[r] = got[r], sent'[Other(r)][id] = sent[Other(r)][id] + 1,
           next_stream_id'[Other(r)] = next_stream_id[Other(r)], ~(next_stream_id[Other(r)] < id),
           ~Over(Other(r), id), state'[r][id] # "RemoteClose",
           Chunk(f, id), f.n = sent[Other(r)][id] + 1, f.flag = "none"
    PROVE  Flow(r, id)'
<1>. DEFINE w == Other(r)
            v == Ahead(r)
            u == Append(v, f)
<1>0. v \in Seq(Frames) /\ got[r][id] \in Nat /\ sent[w][id] \in Nat
  BY AheadTyped
<1>. HIDE DEF w, v
<1>1. Flow(r, id) /\ Ahead(r)' = u /\ ~Ends(f, id) /\ ~Begins(f, id)
  BY DEF v, Ends, Begins, Opening
<1>2. NoFin(v, id)
  BY <1>1 DEF Flow, v, w
<1>3. SynFirst(u, id) /\ FinLast(u, id)
  BY <1>0, <1>1, <1>2, MoreOrdered DEF Flow, v
<1>4. NoFin(u, id)
  BY <1>0, <1>1, <1>2, MoreOrdered
<1>5. Live(r, id)' => Live(r, id)
  <2>1. NoSyn(v, id) => NoSyn(u, id)
    BY <1>0, <1>1, MoreOrdered
  <2>. QED BY <1>1, <2>1 DEF Live, v
<1>6. Live(r, id)' => Numbered(u, id, got[r][id], sent[w][id] + 1)
  <2>1. Live(r, id) => Numbered(v, id, got[r][id], sent[w][id])
    BY <1>1 DEF Flow, v, w
  <2>. QED BY <1>0, <1>5, <2>1, ChunkAdded, NotMore DEF w
<1>. HIDE DEF u
<1>. QED BY <1>1, <1>3, <1>4, <1>6 DEF Flow, v, w

\* The recv fiber is done with a frame that is no chunk of a live stream.
LEMMA FlowRest ==
    ASSUME TypeInv, NEW r \in Peers, NEW id \in OwnIds(Other(r)), Flow(r, id), Ahead(r) # <<>>,
           Ahead(r)' = Tail(Ahead(r)), got'[r] = got[r], sent'[Other(r)] = sent[Other(r)],
           next_stream_id'[Other(r)] = next_stream_id[Other(r)],
           Over(Other(r), id) => Over(Other(r), id)',
           state'[r][id] = "RemoteClose" => NoChunk(Ahead(r), id),
           ~Chunk(Ahead(r)[1], id) \/ ~Live(r, id),
           id \in Entered(r)' => id \in Entered(r) \/ Begins(Ahead(r)[1], id)
    PROVE  Flow(r, id)'
<1>. DEFINE w == Other(r)
            v == Ahead(r)
            u == Tail(v)
<1>0. v \in Seq(Frames) /\ v # <<>> /\ got[r][id] \in Nat /\ sent[w][id] \in Nat
  BY AheadTyped
<1>. HIDE DEF w, v
<1>1. Flow(r, id) /\ Ahead(r)' = u
  BY DEF v
<1>3. SynFirst(u, id) /\ FinLast(u, id)
  BY <1>0, <1>1, RestOrdered DEF Flow, v
<1>4. (NoChunk(v, id) => NoChunk(u, id)) /\ (NoFin(v, id) => NoFin(u, id)) /\ (NoSyn(v, id) => NoSyn(u, id))
  BY <1>0, RestOrdered
<1>5. Live(r, id)' => Live(r, id)
  <2>1. Begins(v[1], id) => ~NoSyn(v, id)
    <3>1. 1 \in 1..Len(v)
      BY <1>0, TailFacts
    <3>. QED BY <3>1 DEF NoSyn
  <2>. QED BY <1>1, <1>4, <2>1 DEF Live, v
<1>6. Live(r, id)' => Numbered(u, id, got[r][id], sent[w][id])
  <2>1. Live(r, id) => Numbered(v, id, got[r][id], sent[w][id]) /\ ~Chunk(v[1], id)
    BY <1>1 DEF Flow, v, w
  <2>. QED BY <1>0, <1>5, <2>1, RestNumbered
<1>. HIDE DEF u
<1>. QED BY <1>1, <1>3, <1>4, <1>6 DEF Flow, v, w

-----------------------------------------------------------------------------
(* An endpoint that opens no stream.                                       *)

\* It has given no id away, runs no open task, and its peer never answers a SYN;
\* every stream there is, is the peer's.
LEMMA NoOpener ==
    ASSUME TypeInv, IdInv, NEW r \in Peers, opens[r] = 0
    PROVE  /\ send_chan[r] # <<>> => Head(send_chan[r]).kind \notin OpenKinds
           /\ ~InHand(Other(r))
           /\ \A id \in Ids : state[r][id] # "None" \/ state[Other(r)][id] # "None"
                                 => id \in OwnIds(Other(r))
<1>1. next_stream_id[r] = FirstId(r) /\ FirstId(r) \in Nat
  BY DEF TypeInv, IdsOK, FirstId, IdStep
<1>2. \A id \in OwnIds(r) : id \in Nat /\ FirstId(r) < id
  BY <1>1, ConstantsAssumption DEF OwnIds, IdStep
<1>3. send_chan[r] # <<>> => Head(send_chan[r]).kind \notin OpenKinds
  <2>. SUFFICES ASSUME send_chan[r] # <<>>, Head(send_chan[r]).kind \in OpenKinds PROVE FALSE
    OBVIOUS
  <2>1. Head(send_chan[r]) \in Tasks /\ Head(send_chan[r]).n <= 0
        /\ FirstId(r) < FirstId(r) + IdStep * Head(send_chan[r]).n
    BY <1>1, HeadTask
  <2>2. PICK n \in Nat : n = Head(send_chan[r]).n
    BY <2>1 DEF Tasks
  <2>. QED BY <1>1, <2>1, <2>2 DEF IdStep
<1>4. ~InHand(Other(r))
  <2>. SUFFICES ASSUME InHand(Other(r)) PROVE FALSE
    OBVIOUS
  <2>1. Unseen(r, hdr[Other(r)].id)
    BY OtherPeer DEF IdInv, SynsUnseen
  <2>. QED BY <1>1, <1>2, <2>1 DEF Unseen
<1>5. \A id \in OwnIds(r) : state[r][id] = "None" /\ state[Other(r)][id] = "None"
  BY <1>1, <1>2 DEF IdInv, FreshIds
<1>6. \A id \in Ids : id \in OwnIds(r) \/ id \in OwnIds(Other(r))
  BY DEF Ids, Other, Peers
<1>. QED BY <1>3, <1>4, <1>5, <1>6

\* It stays one that opens nothing, and streams that are over stay over.
LEMMA OnwardStep ==
    ASSUME TypeInv, IdInv, NEW r \in Peers, r \notin Openers, Flowing(r), [Next]_vars
    PROVE  Onward(r)
<1>. USE DEF sessionVars, streamVars, sendVars, recvVars, kaVars, histVars
<1>0. /\ opens[r] = 0 /\ sender[r] # "emplace"
      /\ opens \in [Peers -> 0..MaxStreams]
      /\ sender \in [Peers -> {"pop", "emplace", "body", "stuck", "exit"}]
  BY DEF Flowing, TypeInv, TypeOK
<1>1. \A id \in OwnIds(Other(r)) : Over(Other(r), id) => Over(Other(r), id)'
  BY NextRises, OverKept, AheadTyped, OtherPeer
<1>2. ASSUME UNCHANGED opens, UNCHANGED sender PROVE opens'[r] = 0 /\ sender'[r] # "emplace"
  BY <1>0, <1>2
<1>3. ASSUME NEW p \in Peers, Application(p) PROVE opens'[r] = 0 /\ sender'[r] # "emplace"
  <2>1. CASE OpenStream(p)
    BY <1>0, <2>1 DEF OpenStream
  <2>2. CASE OpenTimeout(p)
    BY <1>2, <2>2 DEF OpenTimeout
  <2>. QED BY <1>2, <1>3, <2>1, <2>2
       DEF Application, CloseSession, Ping, SendData, CloseStream, CloseHalfClosed
<1>4. ASSUME NEW p \in Peers, SendFiber(p) PROVE opens'[r] = 0 /\ sender'[r] # "emplace"
  <2>1. opens' = opens
    BY <1>4 DEF SendFiber, SenderStop, RunOpenRefused, RunOpen, RunOpenFails, OpenEmplace,
                RunDataDropped, RunData, RunFails, SendBody, SendBodyFails, RunControl
  <2>2. CASE RunOpen(p)
    <3>1. p # r
      BY <1>0, <2>2, NoOpener DEF RunOpen, NextTask, OpenKinds
    <3>. QED BY <1>0, <2>1, <2>2, <3>1 DEF RunOpen
  <2>3. CASE ~RunOpen(p)
    <3>1. \/ sender' = sender
          \/ \E s \in {"pop", "body", "stuck", "exit"} : sender' = [sender EXCEPT ![p] = s]
      BY <1>4, <2>3
      DEF SendFiber, SenderStop, RunOpenRefused, RunOpenFails, OpenEmplace, SenderExits,
          RunDataDropped, RunData, RunFails, SendBody, SendBodyFails, RunControl
    <3>. QED BY <1>0, <2>1, <3>1
  <2>. QED BY <2>2, <2>3
<1>5. ASSUME NEW p \in Peers, RecvFiber(p) PROVE opens'[r] = 0 /\ sender'[r] # "emplace"
  BY <1>2, <1>5
  DEF RecvFiber, RecvHeader, RecvIncoming, RecvRefused, RecvAccept, RecvLock, RecvUnmapped, RecvFlags,
      RecvProtocolError, RecvBody, RecvDesync, RecvEof, RecvBodyEof, RecvBodyReset
<1>6. ASSUME NEW p \in Peers, KeepAliveFiber(p) \/ Closing(p)
      PROVE  opens'[r] = 0 /\ sender'[r] # "emplace"
  BY <1>2, <1>6
  DEF KeepAliveFiber, PingTimeout, KeepAliveStop, Closing, CloserLock, CloserFinish,
      CloserDone, EraseStream, CloserMark
<1>7. ASSUME UNCHANGED vars PROVE opens'[r] = 0 /\ sender'[r] # "emplace"
  BY <1>2, <1>7 DEF vars
<1>8. opens'[r] = 0 /\ sender'[r] # "emplace"
  BY <1>3, <1>4, <1>5, <1>6, <1>7 DEF Next, Step
<1>. QED BY <1>1, <1>8 DEF Onward

-----------------------------------------------------------------------------
(* Steps that leave the frames before the recv fiber alone.                *)

\* A step that r's recv fiber has no part in and that writes nothing to it.
Idle(r) ==
    /\ wire'[Other(r)] = wire[Other(r)] /\ sent'[Other(r)] = sent[Other(r)]
    /\ recv'[r] = recv[r] /\ hdr'[r] = hdr[r] /\ got'[r] = got[r]
    /\ streams'[r] \subseteq streams[r]
    /\ NoneHalfClosed(r)
    /\ \/ next_stream_id'[Other(r)] = next_stream_id[Other(r)]
       \/ next_stream_id'[Other(r)] = next_stream_id[Other(r)] + IdStep
    /\ \/ sender'[Other(r)] = sender[Other(r)] /\ cur'[Other(r)] = cur[Other(r)]
       \/ sender'[Other(r)] = "exit"
       \/ sender[Other(r)] \notin {"body", "exit"}

\* Such a step keeps the order.
LEMMA IdleStep ==
    ASSUME TypeInv, NEW r \in Peers, Flowing(r), Onward(r), Idle(r)
    PROVE  Flowing(r)'
<1>1. CASE recv[r] \in Reading
  <2>1. Ahead(r)' = Ahead(r)
    BY DEF Ahead, Idle
  <2>2. Entered(r)' \subseteq Entered(r)
    BY DEF Entered, Idle
  <2>3. HandsOK(r)'
    BY <1>1 DEF Flowing, HandsOK, Idle
  <2>. QED BY <1>1, <2>1, <2>2, <2>3, AheadSame DEF Idle
<1>2. CASE recv[r] \notin Reading
  BY <1>2, StoppedStep DEF Idle
<1>. QED BY <1>1, <1>2

\* The parts of the state that are kept per endpoint.
LEMMA PerPeer ==
    ASSUME TypeInv
    PROVE  /\ wire \in [Peers -> Seq(Frames)] /\ hdr \in [Peers -> Frames]
           /\ recv \in [Peers -> {"head", "handle", "accept", "locked", "body", "exit", "abort"}]
           /\ got \in [Peers -> [Ids -> Nat]] /\ sent \in [Peers -> [Ids -> Nat]]
           /\ streams \in [Peers -> SUBSET Ids] /\ state \in [Peers -> [Ids -> StreamStates]]
           /\ sender \in [Peers -> {"pop", "emplace", "body", "stuck", "exit"}]
           /\ next_stream_id \in [Peers -> Nat]
           /\ cur \in [Peers -> Tasks] /\ send_chan \in [Peers -> Seq(Tasks)]
BY DEF TypeInv, TypeOK

\* The application, the keep-alive fiber and close(), of either endpoint.
LEMMA IdleApplication ==
    ASSUME TypeInv, NEW r \in Peers, NEW p \in Peers,
           Application(p) \/ KeepAliveFiber(p) \/ Closing(p)
    PROVE  Idle(r)
<1>. USE DEF sessionVars, streamVars, sendVars, recvVars, kaVars, histVars
<1>0. Other(r) \in Peers
  BY OtherPeer
<1>1. UNCHANGED <<wire, sent, recv, hdr, got, next_stream_id, sender, cur>>
  BY DEF Application, OpenStream, CloseSession, Ping, OpenTimeout, SendData, CloseStream, CloseHalfClosed,
         KeepAliveFiber, PingTimeout, KeepAliveStop, Closing, CloserLock, CloserFinish,
         CloserDone, EraseStream, CloserMark
<1>2. streams'[r] \subseteq streams[r]
  <2>1. UNCHANGED streams \/ \E id \in Ids : streams' = [streams EXCEPT ![p] = @ \ {id}]
    BY DEF Application, OpenStream, CloseSession, Ping, OpenTimeout, SendData, CloseStream, CloseHalfClosed,
           KeepAliveFiber, PingTimeout, KeepAliveStop, Closing, CloserLock, CloserFinish,
           CloserDone, EraseStream, CloserMark
  <2>. QED BY <2>1, PerPeer
<1>3. NoneHalfClosed(r)
  <2>1. \/ UNCHANGED state
        \/ \E id \in Ids, s \in {"LocalClose", "Closed"} : state' = [state EXCEPT ![p][id] = s]
    BY DEF Application, OpenStream, CloseSession, Ping, OpenTimeout, SendData, CloseStream, CloseHalfClosed,
           KeepAliveFiber, PingTimeout, KeepAliveStop, Closing, CloserLock, CloserFinish,
           CloserDone, EraseStream, CloserMark
  <2>2. \A id \in OwnIds(Other(r)) : id \in Ids
    BY AheadTyped
  <2>3. ASSUME NEW id \in Ids, NEW s \in {"LocalClose", "Closed"}, state' = [state EXCEPT ![p][id] = s]
        PROVE  NoneHalfClosed(r)
    BY <2>2, <2>3, PerPeer DEF NoneHalfClosed
  <2>. QED BY <2>1, <2>3 DEF NoneHalfClosed
<1>. QED BY <1>1, <1>2, <1>3 DEF Idle

\* What a task does to the states of streams: a FIN task closes one.
LEMMA EffectsClose ==
    ASSUME TypeInv, NEW r \in Peers, NEW p \in Peers, NEW t, TaskEffects(p, t)
    PROVE  NoneHalfClosed(r)
<1>0. \A id \in OwnIds(Other(r)) : id \in Ids
  BY AheadTyped
<1>1. CASE t.kind = "fin"
  <2>1. state' = [state EXCEPT ![p][t.id] = "Closed"]
    BY <1>1 DEF TaskEffects
  <2>. QED BY <1>0, <2>1, PerPeer DEF NoneHalfClosed
<1>2. CASE t.kind # "fin"
  BY <1>2 DEF TaskEffects, NoneHalfClosed
<1>. QED BY <1>1, <1>2

\* r's own send fiber.
LEMMA IdleOwnSender ==
    ASSUME TypeInv, IdInv, NEW r \in Peers, Flowing(r), SendFiber(r)
    PROVE  Idle(r)
<1>. USE DEF sessionVars, streamVars, sendVars, recvVars, kaVars, histVars
<1>0. /\ Other(r) \in Peers /\ Other(r) # r /\ opens[r] = 0 /\ sender[r] # "emplace"
      /\ send_chan[r] # <<>> => Head(send_chan[r]).kind \notin OpenKinds
  BY OtherPeer, NoOpener DEF Flowing
<1>1. ~RunOpen(r) /\ ~RunOpenFails(r) /\ ~OpenEmplace(r)
  BY <1>0 DEF RunOpen, RunOpenFails, OpenEmplace, NextTask, OpenKinds
<1>2. UNCHANGED <<recv, hdr, got, streams, next_stream_id>>
  BY <1>1 DEF SendFiber, SenderStop, RunOpenRefused, RunDataDropped, RunData, RunFails, SendBody,
              SendBodyFails, RunControl
<1>3. wire'[Other(r)] = wire[Other(r)]
  <2>1. UNCHANGED wire \/ \E f : wire' = [wire EXCEPT ![r] = Append(wire[r], f)]
    BY <1>1 DEF SendFiber, SenderStop, RunOpenRefused, RunDataDropped, RunData, RunFails, SendBody,
                SendBodyFails, RunControl, Write
  <2>. QED BY <1>0, <2>1, PerPeer
<1>4. sent'[Other(r)] = sent[Other(r)]
  <2>1. UNCHANGED sent \/ \E id, n : sent' = [sent EXCEPT ![r][id] = n]
    BY <1>1 DEF SendFiber, SenderStop, RunOpenRefused, RunDataDropped, RunData, RunFails, SendBody,
                SendBodyFails, RunControl
  <2>. QED BY <1>0, <2>1, PerPeer
<1>5. sender'[Other(r)] = sender[Other(r)] /\ cur'[Other(r)] = cur[Other(r)]
  <2>1. UNCHANGED sender \/ \E s : sender' = [sender EXCEPT ![r] = s]
    BY <1>1 DEF SendFiber, SenderStop, RunOpenRefused, RunDataDropped, RunData, RunFails, SendBody,
                SendBodyFails, RunControl, SenderExits
  <2>2. UNCHANGED cur \/ \E t : cur' = [cur EXCEPT ![r] = t]
    BY <1>1 DEF SendFiber, SenderStop, RunOpenRefused, RunDataDropped, RunData, RunFails, SendBody,
                SendBodyFails, RunControl
  <2>. QED BY <1>0, <2>1, <2>2, PerPeer
<1>6. NoneHalfClosed(r)
  <2>1. UNCHANGED state \/ \E t : TaskEffects(r, t)
    BY <1>1 DEF SendFiber, SenderStop, RunOpenRefused, RunDataDropped, RunData, RunFails, SendBody,
                SendBodyFails, RunControl
  <2>. QED BY <2>1, EffectsClose DEF NoneHalfClosed
<1>. QED BY <1>2, <1>3, <1>4, <1>5, <1>6 DEF Idle

\* Steps of the peer's send fiber that write nothing.
LEMMA IdlePeerSender ==
    ASSUME TypeInv, NEW r \in Peers, NEW p \in Peers, p = Other(r),
           \/ SenderStop(p) \/ RunOpenRefused(p) \/ RunOpenFails(p) \/ OpenEmplace(p)
           \/ RunDataDropped(p) \/ RunFails(p) \/ SendBodyFails(p)
    PROVE  Idle(r)
<1>. USE DEF sessionVars, streamVars, sendVars, recvVars, kaVars, histVars
<1>0. p # r /\ \A id \in OwnIds(Other(r)) : id \in Ids
  BY OtherPeer, AheadTyped
<1>1. UNCHANGED <<wire, sent, recv, hdr, got>>
  BY DEF SenderStop, RunOpenRefused, RunOpenFails, OpenEmplace, RunDataDropped, RunFails, SendBodyFails
<1>2. streams'[r] = streams[r]
  <2>1. UNCHANGED streams \/ \E s : streams' = [streams EXCEPT ![p] = s]
    BY DEF SenderStop, RunOpenRefused, RunOpenFails, OpenEmplace, RunDataDropped, RunFails, SendBodyFails
  <2>. QED BY <1>0, <2>1, PerPeer
<1>3. NoneHalfClosed(r)
  <2>1. \/ UNCHANGED state
        \/ state' = [state EXCEPT ![p][NewId(p)] = "LocalClose"]
        \/ \E t : TaskEffects(p, t)
    BY DEF SenderStop, RunOpenRefused, RunOpenFails, OpenEmplace, RunDataDropped, RunFails, SendBodyFails
  <2>2. CASE state' = [state EXCEPT ![p][NewId(p)] = "LocalClose"]
    BY <1>0, <2>2, PerPeer DEF NoneHalfClosed
  <2>. QED BY <2>1, <2>2, EffectsClose DEF NoneHalfClosed
<1>4. next_stream_id'[p] = next_stream_id[p] \/ next_stream_id'[p] = next_stream_id[p] + IdStep
  <2>1. UNCHANGED next_stream_id \/ next_stream_id' = [next_stream_id EXCEPT ![p] = NewId(p)]
    BY DEF SenderStop, RunOpenRefused, RunOpenFails, OpenEmplace, RunDataDropped, RunFails, SendBodyFails
  <2>. QED BY <2>1, PerPeer DEF NewId
<1>5. \/ sender'[p] = sender[p] /\ cur'[p] = cur[p]
      \/ sender'[p] = "exit"
      \/ sender[p] \notin {"body", "exit"}
  <2>1. \/ UNCHANGED <<sender, cur>>
        \/ sender' = [sender EXCEPT ![p] = "exit"]
        \/ sender[p] \in {"pop", "emplace"}
    BY DEF SenderStop, RunOpenRefused, RunOpenFails, OpenEmplace, RunDataDropped, RunFails, SendBodyFails,
           SenderExits, NextTask
  <2>. QED BY <2>1, PerPeer
<1>. QED BY <1>1, <1>2, <1>3, <1>4, <1>5 DEF Idle

\* The peer's recv fiber: it writes nothing, for it is never sent a SYN.
LEMMA IdlePeerReceiver ==
    ASSUME TypeInv, IdInv, NEW r \in Peers, opens[r] = 0, NEW p \in Peers, p = Other(r), RecvFiber(p)
    PROVE  Idle(r)
<1>. USE DEF sessionVars, streamVars, sendVars, recvVars, kaVars, histVars
<1>0. p # r /\ Other(p) = r /\ \A id \in OwnIds(Other(r)) : id \in Ids
  BY OtherPeer, AheadTyped
<1>1. ~RecvIncoming(p)
  BY NoOpener DEF RecvIncoming, HandlesSyn, InHand
<1>2. UNCHANGED <<sent, sender, cur, next_stream_id>>
  BY <1>1 DEF RecvFiber, RecvHeader, RecvRefused, RecvAccept, RecvLock, RecvUnmapped, RecvFlags,
      RecvProtocolError, RecvBody, RecvDesync, RecvEof, RecvBodyEof, RecvBodyReset
<1>3. wire'[p] = wire[p]
  <2>1. UNCHANGED wire \/ Consume(p)
    BY <1>1 DEF RecvFiber, RecvHeader, RecvRefused, RecvAccept, RecvLock, RecvUnmapped, RecvFlags,
        RecvProtocolError, RecvBody, RecvDesync, RecvEof, RecvBodyEof, RecvBodyReset
  <2>. QED BY <1>0, <2>1, PerPeer DEF Consume
<1>4. recv'[r] = recv[r]
  <2>1. ASSUME NEW s, recv' = [recv EXCEPT ![p] = s] PROVE recv'[r] = recv[r]
    BY <1>0, <2>1, PerPeer
  <2>2. CASE RecvHeader(p) \/ RecvUnmapped(p) \/ RecvFlags(p) \/ RecvBodyReset(p)
    BY <1>0, <2>2, PerPeer DEF RecvHeader, RecvUnmapped, RecvFlags, RecvBodyReset
  <2>3. CASE RecvRefused(p) \/ RecvProtocolError(p) \/ RecvDesync(p) \/ RecvEof(p) \/ RecvBodyEof(p)
    BY <2>1, <2>3 DEF RecvRefused, RecvProtocolError, RecvDesync, RecvEof, RecvBodyEof, RecvExits
  <2>4. CASE RecvAccept(p) \/ RecvLock(p) \/ RecvBody(p)
    BY <2>1, <2>4 DEF RecvAccept, RecvLock, RecvBody
  <2>. QED BY <1>1, <2>2, <2>3, <2>4 DEF RecvFiber
<1>5. hdr'[r] = hdr[r]
  <2>1. UNCHANGED hdr \/ \E f : hdr' = [hdr EXCEPT ![p] = f]
    BY <1>1 DEF RecvFiber, RecvHeader, RecvRefused, RecvAccept, RecvLock, RecvUnmapped, RecvFlags,
        RecvProtocolError, RecvBody, RecvDesync, RecvEof, RecvBodyEof, RecvBodyReset
  <2>. QED BY <1>0, <2>1, PerPeer
<1>6. got'[r] = got[r]
  <2>1. CASE RecvBody(p)
    BY <1>0, <2>1, PerPeer DEF RecvBody
  <2>2. CASE ~RecvBody(p)
    BY <1>1, <2>2
    DEF RecvFiber, RecvHeader, RecvRefused, RecvAccept, RecvLock, RecvUnmapped, RecvFlags,
        RecvProtocolError, RecvDesync, RecvEof, RecvBodyEof, RecvBodyReset
  <2>. QED BY <2>1, <2>2
<1>7. streams'[r] = streams[r]
  <2>1. UNCHANGED streams \/ \E s : streams' = [streams EXCEPT ![p] = s]
    BY <1>1 DEF RecvFiber, RecvHeader, RecvRefused, RecvAccept, RecvLock, RecvUnmapped, RecvFlags,
        RecvProtocolError, RecvBody, RecvDesync, RecvEof, RecvBodyEof, RecvBodyReset
  <2>. QED BY <1>0, <2>1, PerPeer
<1>8. state'[r] = state[r]
  <2>1. CASE RecvFlags(p)
    BY <1>0, <2>1, PerPeer DEF RecvFlags
  <2>2. CASE ~RecvFlags(p)
    BY <1>1, <2>2
    DEF RecvFiber, RecvHeader, RecvRefused, RecvAccept, RecvLock, RecvUnmapped,
        RecvProtocolError, RecvBody, RecvDesync, RecvEof, RecvBodyEof, RecvBodyReset
  <2>. QED BY <2>1, <2>2
<1>. QED BY <1>2, <1>3, <1>4, <1>5, <1>6, <1>7, <1>8 DEF Idle, NoneHalfClosed

-----------------------------------------------------------------------------
(* What the peer writes.                                                   *)

\* A write of the peer is the last frame before the recv fiber.
LEMMA Written ==
    ASSUME TypeInv, NEW r \in Peers, NEW f \in Frames, Write(Other(r), f), UNCHANGED <<recv, hdr>>
    PROVE  Ahead(r)' = Append(Ahead(r), f)
<1>1. Other(r) \in Peers
  BY OtherPeer
<1>2. wire'[Other(r)] = Append(wire[Other(r)], f)
  BY <1>1, PerPeer DEF Write
<1>3. Ahead(r)' = Held(recv[r], hdr[r], Append(wire[Other(r)], f))
  BY <1>2 DEF Ahead
<1>4. hdr[r] \in Frames /\ wire[Other(r)] \in Seq(Frames)
  BY AheadTyped
<1>5. Held(recv[r], hdr[r], Append(wire[Other(r)], f)) = Append(Held(recv[r], hdr[r], wire[Other(r)]), f)
  BY <1>4, HeldMore
<1>. QED BY <1>3, <1>5 DEF Ahead

\* A step of the peer that writes f, which is no chunk.
LEMMA WriteStep ==
    ASSUME TypeInv, NEW r \in Peers, Flowing(r), Onward(r), NEW f \in Frames, Write(Other(r), f),
           UNCHANGED <<recv, hdr, got, sent>>, streams'[r] = streams[r], state'[r] = state[r],
           \A h \in Frames : Due(sender[Other(r)], cur[Other(r)], h) => BodyOf(f, h),
           f.type # "data",
           \A id \in OwnIds(Other(r)) :
              /\ next_stream_id'[Other(r)] < id => next_stream_id[Other(r)] < id
              /\ Begins(f, id) => next_stream_id[Other(r)] < id
              /\ Ends(f, id) => Over(Other(r), id)'
    PROVE  Flowing(r)'
<1>1. Ahead(r)' = Append(Ahead(r), f) /\ Ahead(r) \in Seq(Frames)
  BY Written, AheadTyped
<1>2. \A id \in OwnIds(Other(r)) : HalfClosed(r, id)'
  BY DEF HalfClosed, Flowing, Onward
<1>3. CASE recv[r] \in Reading
  <2>1. Framed(Ahead(r)', sender'[Other(r)], cur'[Other(r)])
    <3>1. Framed(Ahead(r), sender[Other(r)], cur[Other(r)])
      BY <1>3 DEF Flowing
    <3>. QED BY <1>1, <3>1, MoreFramed
  <2>2. HandsOK(r)'
    BY <1>3 DEF Flowing, HandsOK
  <2>3. ASSUME NEW id \in OwnIds(Other(r)) PROVE Flow(r, id)'
    <3>1. Flow(r, id) /\ ~Chunk(f, id) /\ (Over(Other(r), id) => Over(Other(r), id)')
      BY <1>3 DEF Flowing, Chunk, Onward
    <3>2. Entered(r)' = Entered(r)
      BY DEF Entered
    <3>. QED BY <1>1, <3>1, <3>2, FlowMore
  <2>. QED BY <1>2, <2>1, <2>2, <2>3 DEF Flowing, Onward
<1>4. CASE recv[r] \notin Reading
  BY <1>2, <1>4 DEF Flowing, Onward
<1>. QED BY <1>3, <1>4

\* The payload of the header written last.
LEMMA BodyWritten ==
    ASSUME TypeInv, NEW r \in Peers, Flowing(r), Onward(r), SendBody(Other(r))
    PROVE  Flowing(r)'
<1>. USE DEF sessionVars, streamVars, sendVars, recvVars, kaVars, histVars
<1>. DEFINE p == Other(r)
            f == Frame("body", "none", cur[p].id, cur[p].len, cur[p].n)
<1>1. p \in Peers
  BY OtherPeer
<1>2. cur[p] \in Tasks
  BY <1>1, PerPeer
<1>. HIDE DEF p
<1>3. f \in Frames /\ f.type = "body" /\ f.flag = "none" /\ f.id = cur[p].id /\ f.len = cur[p].len /\ f.n = cur[p].n
  BY <1>2 DEF Tasks, Frame, Frames, FrameTypes, Flags
<1>4. sender[p] = "body" /\ Write(p, f) /\ UNCHANGED <<recv, hdr, got, sent, streams, state, next_stream_id>>
  BY DEF SendBody, p
<1>. HIDE DEF f
<1>5. \A h \in Frames : Due(sender[p], cur[p], h) => BodyOf(f, h)
  BY <1>3, <1>4 DEF Due, BodyOf
<1>6. f.type # "data" /\ \A id : ~Begins(f, id) /\ ~Ends(f, id)
  BY <1>3 DEF Begins, Opening, Ends
<1>. QED BY <1>3, <1>4, <1>5, <1>6, WriteStep DEF p

\* The SYN of a stream that is opened.
LEMMA SynWritten ==
    ASSUME TypeInv, NEW r \in Peers, Flowing(r), Onward(r), RunOpen(Other(r))
    PROVE  Flowing(r)'
<1>. USE DEF sessionVars, streamVars, sendVars, recvVars, kaVars, histVars
<1>. DEFINE p == Other(r)
            f == Frame("wupdate", "SYN", NewId(p), 0, 0)
<1>1. p \in Peers /\ p # r
  BY OtherPeer
<1>2. next_stream_id[p] \in Nat /\ NewId(p) = next_stream_id[p] + 2 /\ NewId(p) \in Nat
  BY <1>1, PerPeer DEF NewId, IdStep
<1>. HIDE DEF p
<1>3. f \in Frames /\ f.type = "wupdate" /\ f.flag = "SYN" /\ f.id = NewId(p)
  BY <1>2 DEF Frame, Frames, FrameTypes, Flags
<1>4. /\ sender[p] = "pop" /\ Write(p, f) /\ UNCHANGED <<recv, hdr, got, sent, streams>>
      /\ next_stream_id' = [next_stream_id EXCEPT ![p] = NewId(p)]
      /\ state' = [state EXCEPT ![p][NewId(p)] = AfterSendFlags("Init")]
  BY DEF RunOpen, NextTask, p
<1>. HIDE DEF f
<1>5. state'[r] = state[r] /\ next_stream_id'[p] = next_stream_id[p] + 2
  BY <1>1, <1>2, <1>4, PerPeer
<1>6. \A h : ~Due(sender[p], cur[p], h)
  BY <1>4 DEF Due
<1>7. ASSUME NEW id \in OwnIds(p)
      PROVE  /\ next_stream_id'[p] < id => next_stream_id[p] < id
             /\ Begins(f, id) => next_stream_id[p] < id
             /\ ~Ends(f, id)
  <2>1. id \in Nat
    BY AheadTyped DEF p
  <2>. QED BY <1>2, <1>3, <1>5, <2>1 DEF Begins, Ends
<1>. QED BY <1>3, <1>4, <1>5, <1>6, <1>7, WriteStep DEF p

\* The frame of a control task; a FIN goes with the end of its stream.
LEMMA ControlWritten ==
    ASSUME TypeInv, NEW r \in Peers, Flowing(r), Onward(r), RunControl(Other(r))
    PROVE  Flowing(r)'
<1>. USE DEF sessionVars, streamVars, sendVars, recvVars, kaVars, histVars
<1>. DEFINE p == Other(r)
            t == Head(send_chan[p])
            f == ControlFrame(p, t)
<1>1. p \in Peers /\ p # r
  BY OtherPeer
<1>2. /\ sender[p] = "pop" /\ send_chan[p] # <<>> /\ t.kind \in ControlKinds
      /\ Write(p, f) /\ TaskEffects(p, t) /\ UNCHANGED <<recv, hdr, got, sent, streams, next_stream_id>>
  BY DEF RunControl, NextTask
<1>3. t \in Tasks /\ hdr[p] \in Frames /\ (t.kind = "fin" => t.id \in Ids)
  BY <1>1, <1>2, HeadTask, PerPeer DEF TaskOK, StreamKinds
<1>. HIDE DEF p, t
<1>4. /\ f \in Frames /\ f.type \in {"wupdate", "ping", "goaway"}
      /\ f.flag = "SYN" => f.type = "ping"
      /\ f.flag = "FIN" => t.kind = "fin" /\ f.id = t.id
  BY <1>2, <1>3 DEF ControlFrame, ControlKinds, Tasks, Frame, Frames, FrameTypes, Flags
<1>. HIDE DEF f
<1>5. state'[r] = state[r]
  <2>1. UNCHANGED state \/ state' = [state EXCEPT ![p][t.id] = "Closed"]
    BY <1>2 DEF TaskEffects
  <2>. QED BY <1>1, <2>1, PerPeer
<1>6. \A h : ~Due(sender[p], cur[p], h)
  BY <1>2 DEF Due
<1>7. ASSUME NEW id \in OwnIds(p), Ends(f, id) PROVE Over(p, id)'
  <2>1. t.kind = "fin" /\ t.id = id /\ id \in Ids
    BY <1>3, <1>4, <1>7 DEF Ends
  <2>2. state' = [state EXCEPT ![p][id] = "Closed"]
    BY <1>2, <2>1 DEF TaskEffects
  <2>3. state'[p][id] = "Closed"
    BY <1>1, <2>1, <2>2, PerPeer
  <2>. QED BY <2>3 DEF Over, Rank
<1>8. f.type # "data" /\ \A id : ~Begins(f, id)
  BY <1>4 DEF Begins, Opening, StreamTypes
<1>. QED BY <1>2, <1>4, <1>5, <1>6, <1>7, <1>8, WriteStep DEF p

\* A chunk of a stream that is open.
LEMMA ChunkWritten ==
    ASSUME TypeInv, IdInv, NEW r \in Peers, Flowing(r), Onward(r), RunData(Other(r))
    PROVE  Flowing(r)'
<1>. USE DEF sessionVars, streamVars, sendVars, recvVars, kaVars, histVars
<1>. DEFINE p == Other(r)
            t == Head(send_chan[p])
            f == Frame("data", "none", t.id, t.len, sent[p][t.id] + 1)
<1>1. p \in Peers /\ p # r
  BY OtherPeer
<1>2. /\ sender[p] = "pop" /\ send_chan[p] # <<>> /\ t.kind = "data" /\ state[p][t.id] \in OpenStates
      /\ Write(p, f) /\ UNCHANGED <<recv, hdr, got, streams, state, next_stream_id>>
      /\ cur' = [cur EXCEPT ![p] = [t EXCEPT !.n = sent[p][t.id] + 1]]
      /\ sent' = [sent EXCEPT ![p][t.id] = sent[p][t.id] + 1]
      /\ sender' = [sender EXCEPT ![p] = "body"]
  BY DEF RunData, NextTask, Sendable
<1>3. t \in Tasks /\ t.id \in Ids
  BY <1>1, <1>2, HeadTask DEF TaskOK, StreamKinds
<1>. HIDE DEF p, t
<1>4. sent[p][t.id] \in Nat
  BY <1>1, <1>3, PerPeer
<1>5. /\ f \in Frames /\ f.type = "data" /\ f.flag = "none" /\ f.id = t.id /\ f.len = t.len
      /\ f.n = sent[p][t.id] + 1
  BY <1>3, <1>4 DEF Tasks, Frame, Frames, FrameTypes, Flags
<1>6. Due(sender'[p], cur'[p], f)
  <2>1. sender'[p] = "body" /\ cur'[p] = [t EXCEPT !.n = sent[p][t.id] + 1]
    BY <1>1, <1>2, PerPeer
  <2>. QED BY <1>3, <1>5, <2>1 DEF Tasks, Due
<1>. HIDE DEF f
<1>7. Ahead(r)' = Append(Ahead(r), f) /\ Ahead(r) \in Seq(Frames)
  BY <1>2, <1>5, Written, AheadTyped DEF p
<1>8. t.id \in OwnIds(p) /\ ~Over(p, t.id) /\ ~(next_stream_id[p] < t.id)
  <2>1. opens[r] = 0 /\ state[p][t.id] # "None"
    BY <1>2 DEF Flowing, OpenStates
  <2>2. t.id \in OwnIds(p)
    BY <1>3, <2>1, NoOpener DEF p
  <2>3. ~(next_stream_id[p] < t.id)
    BY <1>1, <2>1, <2>2 DEF IdInv, FreshIds
  <2>. QED BY <1>2, <2>2, <2>3 DEF Over, OpenStates, Rank
<1>9. \A id \in OwnIds(p) : id \in Ids /\ sent'[p][id] = IF id = t.id THEN sent[p][id] + 1 ELSE sent[p][id]
  BY <1>1, <1>2, PerPeer, AheadTyped DEF p
<1>10. ASSUME NEW id \in OwnIds(p) PROVE HalfClosed(r, id)'
  <2>1. HalfClosed(r, id) /\ (Over(p, id) => Over(p, id)')
    BY DEF Flowing, Onward, p
  <2>2. state'[r][id] = "RemoteClose" => sent'[p][id] = sent[p][id]
    BY <1>2, <1>8, <1>9, <2>1 DEF HalfClosed, p
  <2>. QED BY <1>2, <2>1, <2>2 DEF HalfClosed, p
<1>11. CASE recv[r] \in Reading
  <2>1. Framed(Ahead(r)', sender'[p], cur'[p])
    <3>1. Framed(Ahead(r), sender[p], cur[p])
      BY <1>11 DEF Flowing, p
    <3>2. \A h : ~Due(sender[p], cur[p], h)
      BY <1>2 DEF Due
    <3>. QED BY <1>5, <1>6, <1>7, <3>1, <3>2, MoreFramed
  <2>2. HandsOK(r)'
    BY <1>2, <1>11 DEF Flowing, HandsOK
  <2>3. Entered(r)' = Entered(r)
    BY <1>2 DEF Entered
  <2>4. ASSUME NEW id \in OwnIds(p) PROVE Flow(r, id)'
    <3>1. Flow(r, id) /\ (Over(p, id) => Over(p, id)')
      BY <1>11 DEF Flowing, Onward, p
    <3>2. CASE id = t.id
      <4>1. state'[r][id] # "RemoteClose"
        BY <1>2, <1>8, <3>2 DEF Flowing, HalfClosed, p
      <4>2. Chunk(f, id)
        BY <1>5, <3>2 DEF Chunk
      <4>. QED BY <1>2, <1>5, <1>7, <1>8, <1>9, <2>3, <3>1, <3>2, <4>1, <4>2, FlowChunk DEF p
    <3>3. CASE id # t.id
      <4>1. ~Chunk(f, id) /\ ~Begins(f, id) /\ ~Ends(f, id)
        BY <1>5, <3>3 DEF Chunk, Begins, Ends
      <4>. QED BY <1>2, <1>5, <1>7, <1>9, <2>3, <3>1, <3>3, <4>1, FlowMore DEF p
    <3>. QED BY <3>2, <3>3
  <2>. QED BY <1>10, <2>1, <2>2, <2>4 DEF Flowing, Onward, p
<1>12. CASE recv[r] \notin Reading
  BY <1>2, <1>10, <1>12 DEF Flowing, Onward, p
<1>. QED BY <1>11, <1>12

-----------------------------------------------------------------------------
(* What the recv fiber does.                                               *)

\* The frames before it, by its place.
LEMMA InHands ==
    ASSUME TypeInv, NEW r \in Peers
    PROVE  /\ recv[r] \in Holding => /\ Ahead(r) # <<>> /\ Ahead(r)[1] = hdr[r]
                                     /\ Tail(Ahead(r)) = wire[Other(r)]
           /\ recv[r] \notin Holding => Ahead(r) = wire[Other(r)]
           /\ recv'[r] \notin Holding => Ahead(r)' = wire'[Other(r)]
           /\ recv[r] \in Holding /\ recv'[r] \in Holding
                 /\ hdr'[r] = hdr[r] /\ wire'[Other(r)] = wire[Other(r)] => Ahead(r)' = Ahead(r)
<1>1. hdr[r] \in Frames /\ wire[Other(r)] \in Seq(Frames)
  BY AheadTyped
<1>2. /\ recv[r] \in Holding => /\ Ahead(r) # <<>> /\ Ahead(r)[1] = hdr[r]
                                /\ Tail(Ahead(r)) = wire[Other(r)]
      /\ recv[r] \notin Holding => Ahead(r) = wire[Other(r)]
  BY <1>1, HeldFacts DEF Ahead
<1>3. recv'[r] \notin Holding => Ahead(r)' = wire'[Other(r)]
  BY DEF Ahead, Held
<1>4. recv[r] \in Holding /\ recv'[r] \in Holding
         /\ hdr'[r] = hdr[r] /\ wire'[Other(r)] = wire[Other(r)] => Ahead(r)' = Ahead(r)
  BY DEF Ahead, Held
<1>. QED BY <1>2, <1>3, <1>4

\* A step that is done with one frame.
LEMMA RestStep ==
    ASSUME TypeInv, NEW r \in Peers, Flowing(r), Onward(r), recv[r] \in Reading, Ahead(r) # <<>>,
           Ahead(r)' = Tail(Ahead(r)), recv'[r] \notin Holding, got'[r] = got[r],
           UNCHANGED <<sent, next_stream_id, sender, cur>>,
           \A id \in OwnIds(Other(r)) :
              /\ HalfClosed(r, id)'
              /\ state'[r][id] = "RemoteClose" => NoChunk(Ahead(r), id)
              /\ ~Chunk(Ahead(r)[1], id) \/ ~Live(r, id)
              /\ id \in Entered(r)' => id \in Entered(r) \/ Begins(Ahead(r)[1], id)
    PROVE  Flowing(r)'
<1>1. Framed(Ahead(r)', sender'[Other(r)], cur'[Other(r)])
  <2>1. Framed(Ahead(r), sender[Other(r)], cur[Other(r)]) /\ Ahead(r) \in Seq(Frames)
    BY AheadTyped DEF Flowing
  <2>. QED BY <2>1, RestFramed
<1>2. HandsOK(r)'
  BY DEF HandsOK, Holding
<1>3. ASSUME NEW id \in OwnIds(Other(r)) PROVE Flow(r, id)'
  <2>1. Flow(r, id) /\ (Over(Other(r), id) => Over(Other(r), id)')
    BY DEF Flowing, Onward
  <2>. QED BY <2>1, FlowRest
<1>. QED BY <1>1, <1>2, <1>3 DEF Flowing, Onward

\* Half-closed streams stay as they are when no chunk is read or written.
LEMMA HalfClosedKept ==
    ASSUME NEW r \in Peers, Flowing(r), Onward(r), NoneHalfClosed(r), got'[r] = got[r],
           sent'[Other(r)] = sent[Other(r)], NEW id \in OwnIds(Other(r))
    PROVE  HalfClosed(r, id)'
BY DEF HalfClosed, Flowing, Onward, NoneHalfClosed

\* A chunk that is discarded is of a stream that r will never have again.
LEMMA DiscardedNotLive ==
    ASSUME TypeInv, NEW r \in Peers, Flowing(r), recv[r] = "body", ~Mapped(r),
           NEW id \in OwnIds(Other(r)), Chunk(hdr[r], id)
    PROVE  ~Live(r, id)
<1>1. Ahead(r) # <<>> /\ Ahead(r)[1] = hdr[r] /\ Ahead(r) \in Seq(Frames) /\ Flow(r, id)
  BY InHands, AheadTyped DEF Flowing, Reading, Holding
<1>2. 1 \in 1..Len(Ahead(r)) /\ Len(Ahead(r)) \in Nat
  BY <1>1, TailFacts
<1>3. NoSyn(Ahead(r), id)
  BY <1>1, <1>2 DEF Flow, SynFirst, NoSyn
<1>4. ~(next_stream_id[Other(r)] < id)
  BY <1>1, <1>2 DEF Flow, NoChunk
<1>5. id \notin Entered(r)
  BY DEF Entered, Mapped, Chunk
<1>. QED BY <1>3, <1>4, <1>5 DEF Live

\* A header is read.
LEMMA HeaderRead ==
    ASSUME TypeInv, NEW r \in Peers, Flowing(r), Onward(r), RecvHeader(r)
    PROVE  Flowing(r)'
<1>. USE DEF sessionVars, streamVars, sendVars, recvVars, kaVars, histVars
<1>. DEFINE s == wire[Other(r)]
            f == Head(s)
<1>1. /\ recv[r] = "head" /\ s # <<>> /\ UNCHANGED <<state, streams, got, sent, next_stream_id, sender, cur>>
      /\ wire' = [wire EXCEPT ![Other(r)] = Tail(@)]
      /\ hdr' = [hdr EXCEPT ![r] = f]
      /\ recv' = [recv EXCEPT ![r] = IF shut_down[r] \/ GoAwayError(f) THEN "exit"
                                     ELSE IF f.type \in {"ping", "goaway"} THEN "head"
                                     ELSE "handle"]
  BY DEF RecvHeader, Incoming, Consume
<1>2. Other(r) \in Peers /\ s \in Seq(Frames) /\ Ahead(r) = s /\ recv[r] \in Reading
  BY <1>1, OtherPeer, AheadTyped, InHands DEF Holding, Reading
<1>3. /\ wire'[Other(r)] = Tail(s) /\ hdr'[r] = f
      /\ recv'[r] = IF shut_down[r] \/ GoAwayError(f) THEN "exit"
                    ELSE IF f.type \in {"ping", "goaway"} THEN "head" ELSE "handle"
  BY <1>1, <1>2, PerPeer
<1>4. f = s[1] /\ f \in Frames /\ Tail(s) \in Seq(Frames)
  BY <1>1, <1>2, TailFacts
<1>. HIDE DEF f, s
<1>5. NoneHalfClosed(r)
  BY <1>1 DEF NoneHalfClosed
<1>6. Entered(r) = streams[r]
  BY <1>1 DEF Entered
<1>7. CASE recv'[r] = "exit"
  BY <1>1, <1>5, <1>7, StoppedStep DEF Reading, Holding
<1>8. CASE recv'[r] = "head" /\ f.type \in {"ping", "goaway"}
  <2>1. Ahead(r)' = Tail(Ahead(r)) /\ recv'[r] \notin Holding
    BY <1>2, <1>3, <1>8, InHands DEF Holding
  <2>2. Entered(r)' = Entered(r)
    BY <1>1, <1>6, <1>8 DEF Entered
  <2>3. ASSUME NEW id \in OwnIds(Other(r))
        PROVE  /\ HalfClosed(r, id)'
               /\ state'[r][id] = "RemoteClose" => NoChunk(Ahead(r), id)
               /\ ~Chunk(Ahead(r)[1], id)
    <3>1. HalfClosed(r, id)'
      BY <1>1, <1>5, HalfClosedKept
    <3>2. state'[r][id] = "RemoteClose" => NoChunk(Ahead(r), id)
      BY <1>1, <1>2 DEF Flowing, Flow
    <3>3. ~Chunk(Ahead(r)[1], id)
      BY <1>2, <1>4, <1>8 DEF Chunk
    <3>. QED BY <3>1, <3>2, <3>3
  <2>. QED BY <1>1, <1>2, <2>1, <2>2, <2>3, RestStep
<1>9. CASE recv'[r] = "handle" /\ f.type \notin {"ping", "goaway"}
  <2>1. Ahead(r)' = Ahead(r)
    <3>1. Ahead(r)' = <<f>> \o Tail(s)
      BY <1>3, <1>9 DEF Ahead, Held, Holding
    <3>2. <<f>> \o Tail(s) = s
      <4>1. /\ <<f>> \in Seq(Frames) /\ Len(<<f>>) = 1 /\ <<f>>[1] = f
        BY <1>4
      <4>2. /\ <<f>> \o Tail(s) \in Seq(Frames) /\ Len(<<f>> \o Tail(s)) = 1 + Len(Tail(s))
            /\ \A i \in 1..Len(<<f>> \o Tail(s)) :
                  (<<f>> \o Tail(s))[i] = IF i <= 1 THEN f ELSE Tail(s)[i - 1]
        BY <1>4, <4>1, ConcatProperties
      <4>3. /\ Len(s) \in Nat /\ Len(Tail(s)) = Len(s) - 1
            /\ \A i \in 1..Len(Tail(s)) : Tail(s)[i] = s[i + 1]
        BY <1>1, <1>2, TailFacts
      <4>4. \A i \in 1..Len(s) : (<<f>> \o Tail(s))[i] = s[i]
        BY <1>4, <4>2, <4>3
      <4>5. Len(<<f>> \o Tail(s)) = Len(s)
        BY <4>2, <4>3
      <4>. QED BY <1>2, <4>2, <4>4, <4>5, SeqEqual
    <3>. QED BY <1>2, <3>1, <3>2
  <2>2. HandsOK(r)'
    BY <1>3, <1>4, <1>9 DEF HandsOK, Frames, FrameTypes, StreamTypes
  <2>3. Entered(r)' \subseteq Entered(r)
    BY <1>1, <1>6, <1>9 DEF Entered
  <2>. QED BY <1>1, <1>2, <1>5, <2>1, <2>2, <2>3, AheadSame
<1>. QED BY <1>3, <1>7, <1>8, <1>9

\* A SYN is answered.
LEMMA SynAnswered ==
    ASSUME TypeInv, IdInv, NEW r \in Peers, Flowing(r), Onward(r), RecvIncoming(r)
    PROVE  Flowing(r)'
<1>. USE DEF sessionVars, streamVars, sendVars, recvVars, kaVars, histVars
<1>1. /\ recv[r] = "handle" /\ hdr[r].flag = "SYN"
      /\ UNCHANGED <<streams, got, sent, next_stream_id, sender, cur, hdr>>
      /\ state' = [state EXCEPT ![r][hdr[r].id] = "Established"]
      /\ recv' = [recv EXCEPT ![r] = "accept"]
      /\ \E f : wire' = [wire EXCEPT ![r] = Append(@, f)]
  BY DEF RecvIncoming, HandlesSyn, AfterSendFlags, Write
<1>2. Other(r) \in Peers /\ Other(r) # r
  BY OtherPeer
<1>3. recv[r] \in Reading /\ recv[r] \in Holding /\ recv'[r] = "accept" /\ recv'[r] \notin Holding
  BY <1>1, PerPeer DEF Reading, Holding
<1>4. wire'[Other(r)] = wire[Other(r)]
  BY <1>1, <1>2, PerPeer
<1>5. Ahead(r) # <<>> /\ Ahead(r)[1] = hdr[r] /\ Ahead(r)' = Tail(Ahead(r))
  BY <1>3, <1>4, InHands
<1>6. NoneHalfClosed(r)
  <2>1. \A id \in OwnIds(Other(r)) : id \in Ids
    BY AheadTyped
  <2>. QED BY <1>1, <2>1, PerPeer DEF NoneHalfClosed
<1>7. hdr[r].type \in StreamTypes
  BY <1>3 DEF Flowing, HandsOK
<1>8. ASSUME NEW id \in OwnIds(Other(r))
      PROVE  /\ HalfClosed(r, id)'
             /\ state'[r][id] = "RemoteClose" => NoChunk(Ahead(r), id)
             /\ ~Chunk(Ahead(r)[1], id)
             /\ id \in Entered(r)' => id \in Entered(r) \/ Begins(Ahead(r)[1], id)
  <2>1. HalfClosed(r, id)'
    BY <1>1, <1>6, HalfClosedKept
  <2>2. state'[r][id] = "RemoteClose" => NoChunk(Ahead(r), id)
    BY <1>3, <1>6 DEF NoneHalfClosed, Flowing, Flow
  <2>3. ~Chunk(Ahead(r)[1], id)
    <3>1. Framed(Ahead(r), sender[Other(r)], cur[Other(r)]) /\ Ahead(r) \in Seq(Frames)
      BY <1>3, AheadTyped DEF Flowing
    <3>2. 1 \in 1..Len(Ahead(r))
      BY <1>5, <3>1, TailFacts
    <3>. QED BY <1>1, <1>5, <3>1, <3>2 DEF Framed, Chunk
  <2>4. id \in Entered(r)' => id \in Entered(r) \/ Begins(Ahead(r)[1], id)
    BY <1>1, <1>5, <1>7 DEF Entered, Begins, Opening
  <2>. QED BY <2>1, <2>2, <2>3, <2>4
<1>. QED BY <1>1, <1>3, <1>5, <1>8, RestStep

\* Steps inside the handling of a frame, and those that end recv_loop.
LEMMA HandlingStep ==
    ASSUME TypeInv, IdInv, NEW r \in Peers, Flowing(r), Onward(r),
           \/ RecvRefused(r) \/ RecvAccept(r) \/ RecvLock(r) \/ RecvProtocolError(r)
           \/ RecvDesync(r) \/ RecvEof(r)
    PROVE  Flowing(r)'
<1>. USE DEF sessionVars, streamVars, sendVars, recvVars, kaVars, histVars
<1>0. UNCHANGED <<state, got, sent, next_stream_id, sender, cur, hdr, wire>>
  BY DEF RecvRefused, RecvAccept, RecvLock, RecvProtocolError, RecvDesync, RecvEof
<1>1. NoneHalfClosed(r)
  BY <1>0 DEF NoneHalfClosed
<1>2. CASE RecvRefused(r) \/ RecvProtocolError(r) \/ RecvDesync(r) \/ RecvEof(r)
  <2>1. recv' = [recv EXCEPT ![r] = "exit"]
    <3>1. CASE RecvRefused(r)
      <4>1. ~local_goaway[r]
        BY <3>1 DEF RecvRefused, HandlesSyn, IdInv, TasksTrue
      <4>. QED BY <3>1, <4>1 DEF RecvRefused, RecvExits
    <3>. QED BY <1>2, <3>1 DEF RecvProtocolError, RecvDesync, RecvEof, RecvExits
  <2>2. recv'[r] \notin Reading
    BY <2>1, PerPeer DEF Reading, Holding
  <2>. QED BY <1>0, <1>1, <2>2, StoppedStep
<1>3. CASE RecvAccept(r)
  <2>1. /\ recv[r] = "accept" /\ recv' = [recv EXCEPT ![r] = "head"]
        /\ streams' = [streams EXCEPT ![r] = @ \cup {hdr[r].id}]
    BY <1>3 DEF RecvAccept
  <2>2. recv'[r] = "head" /\ streams'[r] = streams[r] \cup {hdr[r].id}
    BY <2>1, PerPeer
  <2>3. Ahead(r)' = Ahead(r)
    BY <1>0, <2>1, <2>2, InHands DEF Holding
  <2>4. Entered(r)' \subseteq Entered(r)
    BY <1>0, <2>1, <2>2 DEF Entered
  <2>5. HandsOK(r)' /\ recv[r] \in Reading
    BY <2>1, <2>2 DEF HandsOK, Holding, Reading
  <2>. QED BY <1>0, <1>1, <2>3, <2>4, <2>5, AheadSame
<1>4. CASE RecvLock(r)
  <2>1. recv[r] = "handle" /\ recv' = [recv EXCEPT ![r] = "locked"] /\ UNCHANGED streams
    BY <1>4 DEF RecvLock
  <2>2. recv'[r] = "locked"
    BY <2>1, PerPeer
  <2>3. Ahead(r)' = Ahead(r) /\ recv[r] \in Reading
    BY <1>0, <2>1, <2>2, InHands DEF Holding, Reading
  <2>4. Entered(r)' \subseteq Entered(r)
    BY <1>0, <2>1, <2>2 DEF Entered
  <2>5. HandsOK(r)'
    BY <1>0, <2>1, <2>2, <2>3 DEF HandsOK, Holding, Flowing
  <2>. QED BY <1>0, <1>1, <2>3, <2>4, <2>5, AheadSame
<1>. QED BY <1>2, <1>3, <1>4

\* A frame of a stream that is not in the map.
LEMMA UnmappedStep ==
    ASSUME TypeInv, NEW r \in Peers, Flowing(r), Onward(r), RecvUnmapped(r)
    PROVE  Flowing(r)'
<1>. USE DEF sessionVars, streamVars, sendVars, recvVars, kaVars, histVars
<1>1. /\ recv[r] = "locked" /\ recv' = [recv EXCEPT ![r] = AfterHeader(hdr[r])]
      /\ UNCHANGED <<state, streams, got, sent, next_stream_id, sender, cur, hdr, wire>>
  BY DEF RecvUnmapped
<1>2. recv'[r] = AfterHeader(hdr[r]) /\ recv[r] \in Reading /\ recv[r] \in Holding
  BY <1>1, PerPeer DEF Reading, Holding
<1>3. NoneHalfClosed(r)
  BY <1>1 DEF NoneHalfClosed
<1>4. Entered(r)' = Entered(r)
  BY <1>1, <1>2 DEF Entered, AfterHeader
<1>5. CASE hdr[r].type = "data"
  <2>1. recv'[r] = "body"
    BY <1>2, <1>5 DEF AfterHeader
  <2>2. Ahead(r)' = Ahead(r) /\ HandsOK(r)'
    BY <1>1, <1>2, <1>5, <2>1, InHands DEF HandsOK, Holding, StreamTypes
  <2>. QED BY <1>1, <1>2, <1>3, <1>4, <2>2, AheadSame
<1>6. CASE hdr[r].type # "data"
  <2>1. recv'[r] \notin Holding
    BY <1>2, <1>6 DEF AfterHeader, Holding
  <2>2. Ahead(r) # <<>> /\ Ahead(r)[1] = hdr[r] /\ Ahead(r)' = Tail(Ahead(r))
    BY <1>1, <1>2, <2>1, InHands
  <2>3. ASSUME NEW id \in OwnIds(Other(r))
        PROVE  /\ HalfClosed(r, id)'
               /\ state'[r][id] = "RemoteClose" => NoChunk(Ahead(r), id)
               /\ ~Chunk(Ahead(r)[1], id)
    <3>1. HalfClosed(r, id)'
      BY <1>1, <1>3, HalfClosedKept
    <3>2. state'[r][id] = "RemoteClose" => NoChunk(Ahead(r), id)
      BY <1>1, <1>2 DEF Flowing, Flow
    <3>. QED BY <1>6, <2>2, <3>1, <3>2 DEF Chunk
  <2>. QED BY <1>1, <1>2, <1>4, <2>1, <2>2, <2>3, RestStep
<1>. QED BY <1>5, <1>6

\* The flags of a frame: a FIN half-closes the stream when all its chunks are read.
LEMMA FlagsStep ==
    ASSUME TypeInv, IdInv, NEW r \in Peers, Flowing(r), Onward(r), RecvFlags(r)
    PROVE  Flowing(r)'
<1>. USE DEF sessionVars, streamVars, sendVars, recvVars, kaVars, histVars
<1>. DEFINE h == hdr[r]
            new == NextState(state[r][h.id], h.flag)
<1>1. /\ recv[r] = "locked" /\ h.id \in streams[r] /\ recv' = [recv EXCEPT ![r] = AfterHeader(h)]
      /\ UNCHANGED <<streams, got, sent, next_stream_id, sender, cur, hdr, wire>>
      /\ state' = [state EXCEPT ![r][h.id] = NextState(@, h.flag)]
  BY DEF RecvFlags, StateLocked, Mapped
<1>2. recv'[r] = AfterHeader(h) /\ recv[r] \in Reading /\ recv[r] \in Holding /\ h \in Frames
  BY <1>1, PerPeer DEF Reading, Holding
<1>3. h.id \in Ids /\ \A id \in Ids : state'[r][id] = IF id = h.id THEN new ELSE state[r][id]
  <2>1. h.id \in Ids
    BY <1>1, PerPeer
  <2>. QED BY <1>1, <2>1, PerPeer
<1>4. /\ new = "RemoteClose" /\ state[r][h.id] # "RemoteClose" => h.flag = "FIN"
  BY DEF NextState
<1>. HIDE DEF new, h
<1>5. Entered(r)' = Entered(r)
  BY <1>1, <1>2 DEF Entered, AfterHeader
<1>6. Ahead(r) # <<>> /\ Ahead(r)[1] = h /\ Ahead(r) \in Seq(Frames)
      /\ 1 \in 1..Len(Ahead(r)) /\ Len(Ahead(r)) \in Nat
  <2>1. Ahead(r) # <<>> /\ Ahead(r)[1] = h /\ Ahead(r) \in Seq(Frames)
    BY <1>2, InHands, AheadTyped DEF h
  <2>. QED BY <2>1, TailFacts
<1>7. h.type = "data" => h.flag = "none"
  BY <1>2, <1>6 DEF Flowing, Framed
<1>8. \A id \in OwnIds(Other(r)) : id \in Ids
  BY AheadTyped
<1>9. CASE h.type = "data"
  <2>1. recv'[r] = "body"
    BY <1>2, <1>9 DEF AfterHeader
  <2>2. Ahead(r)' = Ahead(r) /\ HandsOK(r)'
    BY <1>1, <1>2, <1>9, <2>1, InHands DEF HandsOK, Holding, StreamTypes, h
  <2>3. NoneHalfClosed(r)
    BY <1>3, <1>4, <1>7, <1>8, <1>9 DEF NoneHalfClosed
  <2>. QED BY <1>1, <1>2, <1>5, <2>2, <2>3, AheadSame
<1>10. CASE h.type # "data"
  <2>1. recv'[r] \notin Holding
    BY <1>2, <1>10 DEF AfterHeader, Holding
  <2>2. Ahead(r)' = Tail(Ahead(r))
    BY <1>1, <1>2, <2>1, InHands
  <2>3. ASSUME NEW id \in OwnIds(Other(r))
        PROVE  /\ HalfClosed(r, id)'
               /\ state'[r][id] = "RemoteClose" => NoChunk(Ahead(r), id)
               /\ ~Chunk(Ahead(r)[1], id)
    <3>1. Flow(r, id) /\ HalfClosed(r, id) /\ (Over(Other(r), id) => Over(Other(r), id)')
      BY <1>2 DEF Flowing, Onward
    <3>2. ~Chunk(Ahead(r)[1], id)
      BY <1>6, <1>10 DEF Chunk
    <3>3. CASE state'[r][id] = "RemoteClose" /\ state[r][id] # "RemoteClose"
      <4>1. id = h.id /\ h.flag = "FIN"
        BY <1>3, <1>4, <1>8, <3>3
      <4>2. Ends(Ahead(r)[1], id)
        BY <1>6, <4>1 DEF Ends
      <4>3. NoChunk(Ahead(r), id)
        BY <1>6, <3>1, <4>2 DEF Flow, FinLast, NoChunk
      <4>4. Over(Other(r), id)
        BY <1>6, <3>1, <4>2 DEF Flow, NoFin
      <4>5. Live(r, id)
        BY <1>1, <4>1 DEF Live, Entered
      <4>6. got[r][id] = sent[Other(r)][id]
        BY <3>1, <4>3, <4>5 DEF Flow, Numbered, Complete, NoChunk
      <4>. QED BY <1>1, <3>1, <3>2, <4>3, <4>4, <4>6 DEF HalfClosed
    <3>4. CASE ~(state'[r][id] = "RemoteClose" /\ state[r][id] # "RemoteClose")
      BY <1>1, <3>1, <3>2, <3>4 DEF HalfClosed, Flow
    <3>. QED BY <3>3, <3>4
  <2>. QED BY <1>1, <1>2, <1>5, <1>6, <2>1, <2>2, <2>3, RestStep
<1>. QED BY <1>9, <1>10

\* The end of the connection inside a payload.
LEMMA BodyLost ==
    ASSUME TypeInv, NEW r \in Peers, Flowing(r), Onward(r), RecvBodyEof(r) \/ RecvBodyReset(r)
    PROVE  Flowing(r)'
<1>. USE DEF sessionVars, streamVars, sendVars, recvVars, kaVars, histVars
<1>1. /\ recv[r] = "body"
      /\ UNCHANGED <<state, streams, got, sent, next_stream_id, sender, cur, hdr, wire>>
      /\ IF Mapped(r) THEN \E s \in {"exit", "abort"} : recv' = [recv EXCEPT ![r] = s]
                      ELSE recv' = [recv EXCEPT ![r] = "head"]
  BY DEF RecvBodyEof, RecvBodyReset, RecvExits
<1>2. NoneHalfClosed(r)
  BY <1>1 DEF NoneHalfClosed
<1>3. recv[r] \in Reading /\ recv[r] \in Holding
  BY <1>1 DEF Reading, Holding
<1>4. CASE Mapped(r)
  <2>1. recv'[r] \notin Reading
    BY <1>1, <1>4, PerPeer DEF Reading, Holding
  <2>. QED BY <1>1, <1>2, <2>1, StoppedStep
<1>5. CASE ~Mapped(r)
  <2>1. recv'[r] = "head" /\ recv'[r] \notin Holding
    BY <1>1, <1>5, PerPeer DEF Holding
  <2>2. Ahead(r) # <<>> /\ Ahead(r)[1] = hdr[r] /\ Ahead(r)' = Tail(Ahead(r))
    BY <1>1, <1>3, <2>1, InHands
  <2>3. Entered(r)' = Entered(r)
    BY <1>1, <2>1 DEF Entered
  <2>4. ASSUME NEW id \in OwnIds(Other(r))
        PROVE  /\ HalfClosed(r, id)'
               /\ state'[r][id] = "RemoteClose" => NoChunk(Ahead(r), id)
               /\ ~Chunk(Ahead(r)[1], id) \/ ~Live(r, id)
    <3>1. HalfClosed(r, id)'
      BY <1>1, <1>2, HalfClosedKept
    <3>2. state'[r][id] = "RemoteClose" => NoChunk(Ahead(r), id)
      BY <1>1, <1>3 DEF Flowing, Flow
    <3>3. Chunk(Ahead(r)[1], id) => ~Live(r, id)
      BY <1>1, <1>5, <2>2, DiscardedNotLive
    <3>. QED BY <3>1, <3>2, <3>3
  <2>. QED BY <1>1, <1>3, <2>1, <2>2, <2>3, <2>4, RestStep
<1>. QED BY <1>4, <1>5

\* A payload is read: the next chunk of its stream, or one to discard.
LEMMA BodyRead ==
    ASSUME TypeInv, NEW r \in Peers, Flowing(r), Onward(r), RecvBody(r)
    PROVE  Flowing(r)'
<1>. USE DEF sessionVars, streamVars, sendVars, recvVars, kaVars, histVars
<1>. DEFINE w == Other(r)
            h == hdr[r]
            v == Ahead(r)
            u == wire[w]
<1>1. /\ recv[r] = "body" /\ u # <<>> /\ Head(u).type = "body"
      /\ UNCHANGED <<state, streams, sent, next_stream_id, sender, cur, hdr>>
      /\ wire' = [wire EXCEPT ![w] = Tail(@)] /\ recv' = [recv EXCEPT ![r] = "head"]
      /\ IF Mapped(r) THEN got' = [got EXCEPT ![r][h.id] = @ + 1] ELSE UNCHANGED got
  BY DEF RecvBody, Incoming, Consume
<1>2. w \in Peers /\ u \in Seq(Frames) /\ v \in Seq(Frames) /\ recv[r] \in Reading /\ recv[r] \in Holding
  BY <1>1, OtherPeer, AheadTyped DEF Reading, Holding
<1>3. wire'[w] = Tail(u) /\ recv'[r] = "head" /\ recv'[r] \notin Holding
  BY <1>1, <1>2, PerPeer DEF Holding
<1>4. v # <<>> /\ v[1] = h /\ Tail(v) = u /\ Ahead(r)' = Tail(u)
  BY <1>2, <1>3, InHands
<1>5. u[1].type = "body" /\ Tail(u) \in Seq(Frames) /\ 1 \in 1..Len(v)
  BY <1>1, <1>2, <1>4, TailFacts
<1>6. h.type = "data"
  BY <1>1, <1>2 DEF Flowing, HandsOK
<1>7. ASSUME NEW id \in OwnIds(w)
      PROVE  /\ Flow(r, id) /\ HalfClosed(r, id) /\ (Over(w, id) => Over(w, id)')
             /\ id \in Ids /\ got[r][id] \in Nat /\ sent[w][id] \in Nat
             /\ got'[r][id] = IF Mapped(r) /\ id = h.id THEN got[r][id] + 1 ELSE got[r][id]
  <2>1. id \in Ids /\ got[r][id] \in Nat /\ sent[w][id] \in Nat
    BY AheadTyped
  <2>2. got'[r][id] = IF Mapped(r) /\ id = h.id THEN got[r][id] + 1 ELSE got[r][id]
    <3>1. got \in [Peers -> [Ids -> Nat]]
      BY PerPeer
    <3>2. CASE Mapped(r)
      <4>1. got' = [got EXCEPT ![r] = [got[r] EXCEPT ![h.id] = got[r][h.id] + 1]]
        BY <1>1, <3>2
      <4>2. got'[r] = [got[r] EXCEPT ![h.id] = got[r][h.id] + 1] /\ got[r] \in [Ids -> Nat]
        BY <3>1, <4>1
      <4>. HIDE DEF h
      <4>. QED BY <2>1, <3>2, <4>2
    <3>3. CASE ~Mapped(r)
      BY <1>1, <3>3
    <3>. QED BY <3>2, <3>3
  <2>. QED BY <1>2, <2>1, <2>2 DEF Flowing, Onward
<1>8. Entered(r)' = Entered(r)
  BY <1>1, <1>3 DEF Entered
<1>9. Framed(Ahead(r)', sender'[w], cur'[w])
  <2>1. Framed(v, sender[w], cur[w])
    BY <1>2 DEF Flowing
  <2>2. Framed(u, sender[w], cur[w])
    BY <1>2, <1>4, <2>1, RestFramed
  <2>. HIDE DEF u
  <2>. QED BY <1>1, <1>2, <1>4, <2>2, RestFramed
<1>10. HandsOK(r)'
  BY <1>3 DEF HandsOK, Holding
<1>11. ASSUME NEW id \in OwnIds(w) PROVE HalfClosed(r, id)'
  <2>1. state[r][id] = "RemoteClose" => id # h.id
    BY <1>4, <1>5, <1>6, <1>7 DEF Flow, NoChunk, Chunk
  <2>2. state[r][id] = "RemoteClose" => got'[r][id] = got[r][id]
    BY <1>7, <2>1
  <2>. QED BY <1>1, <1>7, <2>2 DEF HalfClosed
<1>12. ASSUME NEW id \in OwnIds(w) PROVE Flow(r, id)'
  <2>. HIDE DEF u, v, h, w
  <2>1. Flow(r, id) /\ Ahead(r)' = Tail(u) /\ (Over(w, id) => Over(w, id)')
    BY <1>4, <1>7
  <2>2. SynFirst(v, id) /\ FinLast(v, id)
    BY <2>1 DEF Flow, v
  <2>3. SynFirst(u, id) /\ FinLast(u, id)
    BY <1>2, <1>4, <2>2, RestOrdered
  <2>4. SynFirst(Tail(u), id) /\ FinLast(Tail(u), id)
    BY <1>1, <1>2, <2>3, RestOrdered
  <2>5. (NoChunk(v, id) => NoChunk(u, id)) /\ (NoFin(v, id) => NoFin(u, id)) /\ (NoSyn(v, id) => NoSyn(u, id))
    BY <1>2, <1>4, RestOrdered
  <2>6. (NoChunk(u, id) => NoChunk(Tail(u), id)) /\ (NoFin(u, id) => NoFin(Tail(u), id))
        /\ (NoSyn(u, id) => NoSyn(Tail(u), id))
    BY <1>1, <1>2, RestOrdered
  <2>7. Live(r, id)' => Live(r, id)
    BY <1>1, <1>8, <2>1, <2>5, <2>6 DEF Live, v
  <2>8. ASSUME Live(r, id) PROVE Numbered(u, id, got'[r][id], sent[w][id])
    <3>1. Numbered(v, id, got[r][id], sent[w][id])
      BY <2>1, <2>8 DEF Flow, v, w
    <3>2. CASE id = h.id
      <4>1. Chunk(h, id)
        BY <1>6, <3>2 DEF Chunk
      <4>2. Mapped(r)
        BY <1>1, <2>8, <4>1, DiscardedNotLive DEF h, w
      <4>3. Numbered(u, id, got[r][id] + 1, sent[w][id])
        BY <1>2, <1>4, <1>7, <3>1, <4>1, ChunkTaken
      <4>. QED BY <1>7, <3>2, <4>2, <4>3
    <3>3. CASE id # h.id
      <4>1. ~Chunk(v[1], id)
        BY <1>4, <3>3 DEF Chunk
      <4>2. Numbered(u, id, got[r][id], sent[w][id])
        BY <1>2, <1>4, <1>7, <3>1, <4>1, RestNumbered
      <4>. QED BY <1>7, <3>3, <4>2
    <3>. QED BY <3>2, <3>3
  <2>9. Live(r, id)' => Numbered(Tail(u), id, got'[r][id], sent[w][id])
    <3>1. ~Chunk(u[1], id)
      BY <1>5 DEF Chunk
    <3>2. got'[r][id] \in Nat /\ sent[w][id] \in Nat
      BY <1>7
    <3>. QED BY <1>1, <1>2, <2>7, <2>8, <3>1, <3>2, RestNumbered
  <2>. QED BY <1>1, <2>1, <2>4, <2>5, <2>6, <2>9 DEF Flow, v, w
<1>. QED BY <1>9, <1>10, <1>11, <1>12 DEF Flowing, Onward

-----------------------------------------------------------------------------
(* The theorems.                                                           *)

\* The invariant holds at first.
LEMMA InitOrderInv == Init => OrderInv
<1>. SUFFICES ASSUME Init, NEW r \in Peers PROVE Flowing(r)
  BY DEF OrderInv
<1>1. Other(r) \in Peers
  BY OtherPeer
<1>2. recv[r] = "head" /\ wire[Other(r)] = <<>> /\ opens[r] = 0 /\ sender[r] = "pop"
  BY <1>1 DEF Init
<1>3. Ahead(r) = <<>> /\ HandsOK(r)
  BY <1>2 DEF Ahead, Held, Holding, HandsOK
<1>4. Framed(<<>>, sender[Other(r)], cur[Other(r)])
  BY DEF Framed
<1>5. ASSUME NEW id \in OwnIds(Other(r)) PROVE HalfClosed(r, id) /\ Flow(r, id)
  <2>1. id \in Ids
    BY <1>1, OwnIdsDisjoint
  <2>2. state[r][id] = "None" /\ got[r][id] = 0 /\ sent[Other(r)][id] = 0
    BY <1>1, <2>1 DEF Init
  <2>3. Numbered(<<>>, id, 0, 0) /\ SynFirst(<<>>, id) /\ FinLast(<<>>, id) /\ NoChunk(<<>>, id)
        /\ NoFin(<<>>, id)
    BY DEF Numbered, Above, Gapless, Rising, Complete, SynFirst, FinLast, NoChunk, NoFin
  <2>. QED BY <1>3, <2>2, <2>3 DEF HalfClosed, Flow
<1>. QED BY <1>2, <1>3, <1>4, <1>5 DEF Flowing

\* Every step keeps it.
LEMMA NextOrderInv == TypeInv /\ IdInv /\ OrderInv /\ [Next]_vars => OrderInv'
<1>. SUFFICES ASSUME TypeInv, IdInv, OrderInv, [Next]_vars, NEW r \in Peers, r \notin Openers
              PROVE  Flowing(r)'
  BY DEF OrderInv
<1>1. Flowing(r) /\ Onward(r) /\ opens[r] = 0
  BY OnwardStep DEF OrderInv, Flowing
<1>2. \A p \in Peers : p = r \/ p = Other(r)
  BY OtherPeer
<1>3. ASSUME Idle(r) PROVE Flowing(r)'
  BY <1>1, <1>3, IdleStep
<1>4. ASSUME NEW p \in Peers, Application(p) \/ KeepAliveFiber(p) \/ Closing(p) PROVE Flowing(r)'
  BY <1>3, <1>4, IdleApplication
<1>5. CASE SendFiber(r)
  BY <1>1, <1>3, <1>5, IdleOwnSender
<1>6. CASE SendFiber(Other(r))
  <2>1. Other(r) \in Peers
    BY OtherPeer
  <2>. QED BY <1>1, <1>3, <1>6, <2>1, IdlePeerSender, BodyWritten, SynWritten, ControlWritten, ChunkWritten
       DEF SendFiber
<1>7. CASE RecvFiber(r)
  BY <1>1, <1>7, HeaderRead, SynAnswered, HandlingStep, UnmappedStep, FlagsStep, BodyLost, BodyRead
  DEF RecvFiber
<1>8. CASE RecvFiber(Other(r))
  BY <1>1, <1>3, <1>8, IdlePeerReceiver, OtherPeer
<1>9. CASE UNCHANGED vars
  <2>1. UNCHANGED <<wire, sent, recv, hdr, got, streams, state, next_stream_id, sender, cur>>
    BY <1>9 DEF vars, streamVars, sendVars, recvVars, histVars
  <2>. QED BY <1>3, <2>1 DEF Idle, NoneHalfClosed
<1>. QED BY <1>2, <1>4, <1>5, <1>6, <1>7, <1>8, <1>9 DEF Next, Step

\* The invariant holds in every reachable state.
LEMMA OrderInvHolds == Spec => []OrderInv
<1>. QED BY TypeInvHolds, IdInvHolds, InitOrderInv, NextOrderInv, PTL DEF Spec

\* For every number of streams, chunks and pings, every window and whatever is
\* closed, timed out or reset: where r's peer is the only one to open streams,
\* the payload that read_data() takes is the one its header announced, and the
\* chunks of a stream are put in recv_buff_ in the order send() queued them,
\* none missing and none twice.
THEOREM ChunksInOrder == Spec => []InOrderDelivery
<1>1. TypeInv /\ IdInv /\ OrderInv => InOrderDelivery
  <2>. SUFFICES ASSUME TypeInv, IdInv, OrderInv, NEW r \in Peers, SoleWriter(Other(r)),
                       recv[r] = "body", Mapped(r), wire[Other(r)] # <<>>
                PROVE  LET f == Incoming(r)
                       IN  /\ f.type = "body" /\ f.id = hdr[r].id /\ f.len = hdr[r].len
                           /\ f.n = got[r][f.id] + 1
    BY DEF InOrderDelivery
  <2>. DEFINE v == Ahead(r)
              u == wire[Other(r)]
              h == hdr[r]
  <2>1. Flowing(r) /\ recv[r] \in Reading /\ recv[r] \in Holding
    BY OtherPeer DEF OrderInv, SoleWriter, Reading, Holding
  <2>2. v # <<>> /\ v[1] = h /\ Tail(v) = u /\ v \in Seq(Frames) /\ u \in Seq(Frames)
    BY <2>1, InHands, AheadTyped
  <2>3. h.id \in OwnIds(Other(r)) /\ h.id \in Ids
    <3>1. h.id \in streams[r] /\ h.id \in Ids
      BY PerPeer DEF Mapped
    <3>2. state[r][h.id] # "None" /\ opens[r] = 0
      BY <2>1, <3>1 DEF IdInv, StreamsLive, Flowing
    <3>. QED BY <3>1, <3>2, NoOpener
  <2>4. Flow(r, h.id) /\ Live(r, h.id) /\ Framed(v, sender[Other(r)], cur[Other(r)]) /\ Chunk(h, h.id)
    <3>1. Flow(r, h.id) /\ Framed(v, sender[Other(r)], cur[Other(r)]) /\ HandsOK(r)
      BY <2>1, <2>3 DEF Flowing
    <3>2. Live(r, h.id)
      BY DEF Live, Entered, Mapped
    <3>3. Chunk(h, h.id)
      BY <3>1 DEF HandsOK, Chunk
    <3>. QED BY <3>1, <3>2, <3>3
  <2>5. got[r][h.id] \in Nat /\ sent[Other(r)][h.id] \in Nat
    BY <2>3, AheadTyped
  <2>6. Numbered(v, h.id, got[r][h.id], sent[Other(r)][h.id])
    BY <2>4 DEF Flow
  <2>. HIDE DEF v, u, h
  <2>7. h.n = got[r][h.id] + 1
    BY <2>2, <2>4, <2>5, <2>6, ChunkTaken
  <2>8. BodyOf(u[1], h)
    <3>1. Len(v) \in Nat /\ 1 \in 1..Len(v) /\ Len(u) = Len(v) - 1 /\ Len(u) \in Nat /\ Len(u) >= 1
      BY <2>2, TailFacts DEF u
    <3>2. u[1] = v[1 + 1] /\ 1 < Len(v)
      <4>1. \A i \in 1..Len(Tail(v)) : Tail(v)[i] = v[i + 1]
        BY <2>2, TailFacts
      <4>. QED BY <2>2, <3>1, <4>1
    <3>. QED BY <2>2, <2>4, <3>1, <3>2 DEF Framed, Chunk
  <2>9. Incoming(r) = u[1]
    BY <2>2, TailFacts DEF Incoming, u
  <2>. QED BY <2>7, <2>8, <2>9 DEF BodyOf, h
<1>. QED BY <1>1, TypeInvHolds, IdInvHolds, OrderInvHolds, PTL

\* A half-close loses no data: when the acceptor of a stream has seen the FIN of
\* a peer that alone opens streams, it has read every chunk that peer ever
\* wrote to the stream, for all parameters and interleavings.
THEOREM FinComesLast == Spec => []FinAfterAllData
<1>1. OrderInv => FinAfterAllData
  BY OtherPeer DEF OrderInv, FinAfterAllData, SoleWriter, Flowing, HalfClosed
<1>. QED BY <1>1, OrderInvHolds, PTL
=============================================================================
