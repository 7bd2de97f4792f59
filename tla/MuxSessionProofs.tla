-------------------------- MODULE MuxSessionProofs --------------------------
(***************************************************************************)
(* Proofs about MuxSession for every number of streams, chunks and pings,  *)
(* every window and every set of opening, writing and closing endpoints.   *)
(***************************************************************************)
EXTENDS MuxSession, SequenceTheorems, TLAPS

-----------------------------------------------------------------------------
(* The inductive invariant behind TypeOK.                                  *)

StreamKinds == {"data", "fin", "rst"}
OpenKinds   == {"open", "expired"}
StreamTypes == {"data", "wupdate", "body"}
InHandler   == {"handle", "accept", "locked", "body"}

TaskOK(t) == t.kind \in StreamKinds => t.id \in Ids
FrameOK(f) == f.type \in StreamTypes => f.id \in Ids

\* Tasks of a stream name a stream; the numbers of queued open_stream() calls
\* grow along the queue and lie above the ids already taken.
QueueOK ==
    /\ send_chan \in [Peers -> Seq(Tasks)]
    /\ \A p \in Peers :
          /\ \A i \in 1..Len(send_chan[p]) :
                /\ TaskOK(send_chan[p][i])
                /\ send_chan[p][i].kind \in OpenKinds =>
                      /\ send_chan[p][i].n <= opens[p]
                      /\ next_stream_id[p] < FirstId(p) + IdStep * send_chan[p][i].n
          /\ \A i, j \in 1..Len(send_chan[p]) :
                /\ i < j
                /\ send_chan[p][i].kind \in OpenKinds
                /\ send_chan[p][j].kind \in OpenKinds
                => send_chan[p][i].n < send_chan[p][j].n

\* Frames of a stream name a stream.
WireOK ==
    /\ wire \in [Peers -> Seq(Frames)]
    /\ \A p \in Peers : \A i \in 1..Len(wire[p]) : FrameOK(wire[p][i])

\* next_stream_id_ moved from its first value by whole steps, and what the
\* fibers hold in their hands names a stream.
IdsOK ==
    \A p \in Peers :
        /\ \E k \in 0..opens[p] : next_stream_id[p] = FirstId(p) + IdStep * k
        /\ sender[p] \in {"emplace", "body"} => cur[p].id \in Ids
        /\ recv[p] \in InHandler => hdr[p].id \in Ids

\* While the recv fiber holds the mutex, the window it has checked stays the
\* one it is about to reduce.
WindowOK ==
    \A p \in Peers :
        recv[p] = "body" /\ hdr[p].id \in streams[p]
            => hdr[p].len <= recv_window[p][hdr[p].id]

TypeInv == TypeOK /\ QueueOK /\ WireOK /\ IdsOK /\ WindowOK

-----------------------------------------------------------------------------
(* Queues and wires: what one append or one removal preserves.             *)

\* Head and tail of a sequence that is not empty.
LEMMA TailFacts ==
    ASSUME NEW S, NEW s \in Seq(S), s # <<>>
    PROVE  /\ Len(s) \in Nat /\ Len(s) >= 1
           /\ Head(s) \in S /\ Head(s) = s[1]
           /\ Tail(s) \in Seq(S)
           /\ Len(Tail(s)) = Len(s) - 1
           /\ \A i \in 1..Len(Tail(s)) : i + 1 \in 1..Len(s) /\ Tail(s)[i] = s[i + 1]
BY EmptySeq, HeadTailProperties

\* A sequence with an element appended.
LEMMA AppendFacts ==
    ASSUME NEW S, NEW s \in Seq(S), NEW e \in S
    PROVE  /\ Append(s, e) \in Seq(S)
           /\ Len(s) \in Nat
           /\ Len(Append(s, e)) = Len(s) + 1
           /\ \A i \in 1..Len(s) : Append(s, e)[i] = s[i]
           /\ Append(s, e)[Len(s) + 1] = e
BY AppendProperties, LenProperties

\* An element of a queue of tasks is a task.
LEMMA TaskAt ==
    ASSUME NEW s \in Seq(Tasks), NEW i \in 1..Len(s)
    PROVE  s[i] \in Tasks /\ s[i].n \in Nat /\ Len(s) \in Nat
<1>1. s[i] \in Tasks /\ Len(s) \in Nat
  BY ElementOfSeq, LenProperties
<1>. QED BY <1>1 DEF Tasks

\* The task the send fiber would pop.
LEMMA HeadTask ==
    ASSUME TypeInv, NEW p \in Peers, send_chan[p] # <<>>
    PROVE  /\ Head(send_chan[p]) \in Tasks
           /\ TaskOK(Head(send_chan[p]))
           /\ Head(send_chan[p]).kind \in OpenKinds =>
                 /\ Head(send_chan[p]).n <= opens[p]
                 /\ next_stream_id[p] < FirstId(p) + IdStep * Head(send_chan[p]).n
<1>1. send_chan[p] \in Seq(Tasks)
  BY DEF TypeInv, QueueOK
<1>2. 1 \in 1..Len(send_chan[p]) /\ Head(send_chan[p]) = send_chan[p][1]
  BY <1>1, TailFacts
<1>. QED BY <1>1, <1>2, TailFacts DEF TypeInv, QueueOK

\* The frame the peer would read.
LEMMA HeadFrame ==
    ASSUME TypeInv, NEW p \in Peers, wire[p] # <<>>
    PROVE  Head(wire[p]) \in Frames /\ FrameOK(Head(wire[p]))
<1>1. wire[p] \in Seq(Frames)
  BY DEF TypeInv, WireOK
<1>2. 1 \in 1..Len(wire[p]) /\ Head(wire[p]) = wire[p][1]
  BY <1>1, TailFacts
<1>. QED BY <1>1, <1>2, TailFacts DEF TypeInv, WireOK

\* The queue after a step: old tasks, shifted by d, and tasks that open no
\* stream or are a new open at its end.
LEMMA QueueKept ==
    ASSUME TypeInv, NEW p \in Peers, NEW s \in Seq(Tasks), NEW d \in {0, 1},
           send_chan' = [send_chan EXCEPT ![p] = s],
           \A q \in Peers : opens'[q] \in Nat /\ opens[q] <= opens'[q],
           \A q \in Peers \ {p} : next_stream_id'[q] = next_stream_id[q],
           \A i \in 1..Len(s) : TaskOK(s[i]),
           \A i \in 1..Len(s) :
              s[i].kind \in OpenKinds =>
                 /\ next_stream_id'[p] < FirstId(p) + IdStep * s[i].n
                 /\ \/ /\ i + d \in 1..Len(send_chan[p])
                       /\ send_chan[p][i + d].kind \in OpenKinds
                       /\ s[i].n = send_chan[p][i + d].n
                    \/ i = Len(s) /\ opens[p] < s[i].n /\ s[i].n <= opens'[p]
    PROVE  QueueOK' /\ send_chan' \in [Peers -> Seq(Tasks)]
<1>. USE DEF TypeInv
<1>1. send_chan' \in [Peers -> Seq(Tasks)] /\ send_chan'[p] = s
  BY DEF QueueOK
<1>2. \A q \in Peers \ {p} : send_chan'[q] = send_chan[q]
  BY DEF QueueOK
<1>3. \A q \in Peers : opens[q] \in Nat
  BY DEF TypeOK
<1>4. ASSUME NEW q \in Peers, NEW i \in 1..Len(send_chan'[q])
      PROVE  /\ TaskOK(send_chan'[q][i])
             /\ send_chan'[q][i].kind \in OpenKinds =>
                   /\ send_chan'[q][i].n <= opens'[q]
                   /\ next_stream_id'[q] < FirstId(q) + IdStep * send_chan'[q][i].n
  <2>1. CASE q = p
    <3>1. s[i] \in Tasks /\ s[i].n \in Nat
      BY <1>1, <2>1, TaskAt
    <3>. QED BY <1>1, <1>3, <2>1, <3>1 DEF QueueOK
  <2>2. CASE q # p
    <3>1. i \in 1..Len(send_chan[q]) /\ send_chan[q] \in Seq(Tasks)
      BY <1>2, <2>2 DEF QueueOK
    <3>2. send_chan[q][i].n \in Nat
      BY <3>1, TaskAt
    <3>. QED BY <1>2, <1>3, <2>2, <3>1, <3>2 DEF QueueOK
  <2>. QED BY <2>1, <2>2
<1>5. ASSUME NEW q \in Peers, NEW i \in 1..Len(send_chan'[q]), NEW j \in 1..Len(send_chan'[q]),
             i < j, send_chan'[q][i].kind \in OpenKinds, send_chan'[q][j].kind \in OpenKinds
      PROVE  send_chan'[q][i].n < send_chan'[q][j].n
  <2>1. CASE q = p
    <3>1. s[i].n \in Nat /\ s[j].n \in Nat /\ Len(s) \in Nat
      BY <1>1, <2>1, TaskAt
    <3>2. /\ i + d \in 1..Len(send_chan[p])
          /\ send_chan[p][i + d].kind \in OpenKinds
          /\ s[i].n = send_chan[p][i + d].n
      BY <1>1, <1>5, <2>1, <3>1
    <3>3. CASE /\ j + d \in 1..Len(send_chan[p])
               /\ send_chan[p][j + d].kind \in OpenKinds
               /\ s[j].n = send_chan[p][j + d].n
      <4>1. i + d < j + d
        BY <1>1, <1>5, <2>1, <3>1
      <4>. QED BY <1>1, <2>1, <3>2, <3>3, <4>1 DEF QueueOK
    <3>4. CASE opens[p] < s[j].n
      <4>1. s[i].n <= opens[p]
        BY <3>2 DEF QueueOK
      <4>. QED BY <1>1, <1>3, <2>1, <3>1, <3>4, <4>1
    <3>. QED BY <1>1, <1>5, <2>1, <3>3, <3>4
  <2>2. CASE q # p
    BY <2>2, <1>2, <1>5 DEF QueueOK
  <2>. QED BY <2>1, <2>2
<1>. QED BY <1>1, <1>4, <1>5 DEF QueueOK, TaskOK

\* add_send_task().
LEMMA PushKeepsQueue ==
    ASSUME TypeInv, NEW p \in Peers, NEW t \in Tasks, TaskOK(t), Push(p, t),
           \A q \in Peers : opens'[q] \in Nat /\ opens[q] <= opens'[q],
           UNCHANGED next_stream_id,
           t.kind \in OpenKinds => /\ opens[p] < t.n /\ t.n <= opens'[p]
                                   /\ next_stream_id[p] < FirstId(p) + IdStep * t.n
    PROVE  QueueOK' /\ send_chan' \in [Peers -> Seq(Tasks)]
<1>. DEFINE s == Append(send_chan[p], t)
<1>1. send_chan[p] \in Seq(Tasks)
  BY DEF TypeInv, QueueOK
<1>2. /\ s \in Seq(Tasks)
      /\ \A i \in 1..Len(s) :
            \/ i = Len(s) /\ s[i] = t
            \/ i + 0 \in 1..Len(send_chan[p]) /\ s[i] = send_chan[p][i + 0]
  BY <1>1, AppendFacts
<1>3. \A i \in 1..Len(send_chan[p]) :
        /\ TaskOK(send_chan[p][i])
        /\ send_chan[p][i].kind \in OpenKinds =>
              next_stream_id[p] < FirstId(p) + IdStep * send_chan[p][i].n
  BY DEF TypeInv, QueueOK
<1>4. send_chan' = [send_chan EXCEPT ![p] = s]
  BY DEF Push
<1>. HIDE DEF s
<1>. QED BY <1>2, <1>3, <1>4, QueueKept

\* add_send_task() of anything but an open.
LEMMA PushOther ==
    ASSUME TypeInv, NEW p \in Peers, NEW t \in Tasks, TaskOK(t), Push(p, t),
           t.kind \notin OpenKinds, UNCHANGED <<opens, next_stream_id>>
    PROVE  QueueOK' /\ send_chan' \in [Peers -> Seq(Tasks)]
<1>1. \A q \in Peers : opens'[q] \in Nat /\ opens[q] <= opens'[q]
  BY DEF TypeInv, TypeOK
<1>. QED BY <1>1, PushKeepsQueue

\* send_chan_.pop().
LEMMA PopKeepsQueue ==
    ASSUME TypeInv, NEW p \in Peers, send_chan[p] # <<>>, Popped(p),
           UNCHANGED <<opens, next_stream_id>>
    PROVE  QueueOK' /\ send_chan' \in [Peers -> Seq(Tasks)]
<1>. DEFINE s == Tail(send_chan[p])
<1>1. send_chan[p] \in Seq(Tasks)
  BY DEF TypeInv, QueueOK
<1>2. /\ s \in Seq(Tasks)
      /\ \A i \in 1..Len(s) : i + 1 \in 1..Len(send_chan[p]) /\ s[i] = send_chan[p][i + 1]
  BY <1>1, TailFacts
<1>3. \A i \in 1..Len(send_chan[p]) :
        /\ TaskOK(send_chan[p][i])
        /\ send_chan[p][i].kind \in OpenKinds =>
              next_stream_id[p] < FirstId(p) + IdStep * send_chan[p][i].n
  BY DEF TypeInv, QueueOK
<1>4. send_chan' = [send_chan EXCEPT ![p] = s] /\ \A q \in Peers : opens[q] \in Nat
  BY DEF Popped, TypeInv, TypeOK
<1>. HIDE DEF s
<1>5. \A i \in 1..Len(s) :
        s[i].kind \in OpenKinds =>
           /\ next_stream_id'[p] < FirstId(p) + IdStep * s[i].n
           /\ i + 1 \in 1..Len(send_chan[p])
           /\ send_chan[p][i + 1].kind \in OpenKinds
           /\ s[i].n = send_chan[p][i + 1].n
  BY <1>2, <1>3
<1>6. /\ \A i \in 1..Len(s) : TaskOK(s[i])
      /\ \A q \in Peers : opens'[q] \in Nat /\ opens[q] <= opens'[q]
  BY <1>2, <1>3, <1>4
<1>. QED BY <1>2, <1>4, <1>5, <1>6, QueueKept

\* A write of a typed frame keeps the wire typed.
LEMMA WriteKeepsWire ==
    ASSUME TypeInv, NEW p \in Peers, NEW f \in Frames, FrameOK(f), Write(p, f)
    PROVE  WireOK' /\ wire' \in [Peers -> Seq(Frames)]
<1>1. wire[p] \in Seq(Frames)
  BY DEF TypeInv, WireOK
<1>2. wire' \in [Peers -> Seq(Frames)]
  BY <1>1, AppendFacts DEF TypeInv, WireOK, Write
<1>3. \A i \in 1..Len(wire'[p]) :
        wire'[p][i] = f \/ (i \in 1..Len(wire[p]) /\ wire'[p][i] = wire[p][i])
  BY <1>1, AppendFacts DEF TypeInv, WireOK, Write
<1>4. \A q \in Peers \ {p} : wire'[q] = wire[q]
  BY DEF TypeInv, WireOK, Write
<1>. QED BY <1>2, <1>3, <1>4 DEF TypeInv, WireOK, FrameOK

\* Reading a frame keeps the wire typed.
LEMMA ConsumeKeepsWire ==
    ASSUME TypeInv, NEW p \in Peers, wire[Other(p)] # <<>>, Consume(p)
    PROVE  WireOK' /\ wire' \in [Peers -> Seq(Frames)]
<1>1. Other(p) \in Peers /\ wire[Other(p)] \in Seq(Frames)
  BY DEF TypeInv, WireOK, Other, Peers
<1>2. wire' \in [Peers -> Seq(Frames)]
  BY <1>1, TailFacts DEF TypeInv, WireOK, Consume
<1>3. \A i \in 1..Len(wire'[Other(p)]) :
        i + 1 \in 1..Len(wire[Other(p)]) /\ wire'[Other(p)][i] = wire[Other(p)][i + 1]
  BY <1>1, TailFacts DEF TypeInv, WireOK, Consume
<1>4. \A q \in Peers \ {Other(p)} : wire'[q] = wire[q]
  BY DEF TypeInv, WireOK, Consume
<1>5. \A i \in 1..Len(wire'[Other(p)]) : FrameOK(wire'[Other(p)][i])
  BY <1>1, <1>3 DEF TypeInv, WireOK
<1>6. \A q \in Peers \ {Other(p)} : \A i \in 1..Len(wire'[q]) : FrameOK(wire'[q][i])
  BY <1>4 DEF TypeInv, WireOK
<1>. QED BY <1>2, <1>5, <1>6 DEF WireOK, FrameOK

\* A new session is well typed.
LEMMA InitTypeInv == Init => TypeInv
<1>. SUFFICES ASSUME Init PROVE TypeInv
  OBVIOUS
<1>. USE ConstantsAssumption DEF Init
<1>1. TypeOK
  BY DEF TypeOK, Causes, StreamStates, Peers, FirstId, Frames, Frame, Tasks, NullTask, Task,
         FrameTypes, Flags, Kinds, ControlKinds
<1>2. QueueOK
  BY EmptySeq DEF QueueOK, Peers
<1>3. WireOK
  BY EmptySeq DEF WireOK, Peers
<1>4. IdsOK
  <2>1. \A p \in Peers : next_stream_id[p] = FirstId(p) + IdStep * 0
    BY DEF FirstId, IdStep
  <2>2. \A p \in Peers : 0 \in 0..opens[p]
    OBVIOUS
  <2>. QED BY <2>1, <2>2 DEF IdsOK, InHandler
<1>5. WindowOK
  BY DEF WindowOK, Peers
<1>. QED BY <1>1, <1>2, <1>3, <1>4, <1>5 DEF TypeInv

-----------------------------------------------------------------------------
(* Every step keeps TypeInv, one lemma per fiber.                          *)

\* Calls of the application keep the types.
LEMMA ApplicationStep ==
    ASSUME TypeInv, NEW p \in Peers, Application(p)
    PROVE  TypeInv'
<1>. USE ConstantsAssumption
     DEF sessionVars, streamVars, sendVars, recvVars, kaVars, histVars, TypeInv
<1>1. CASE OpenStream(p)
  <2>. USE <1>1 DEF OpenStream
  <2>. DEFINE t == Task("open", 0, 0, opens[p] + 1)
  <2>1. t \in Tasks /\ t.kind = "open" /\ t.n = opens[p] + 1
    BY DEF TypeOK, Task, Tasks, Kinds
  <2>2. /\ opens' \in [Peers -> 0..MaxStreams] /\ opens'[p] = opens[p] + 1
        /\ \A q \in Peers : opens[q] \in Nat /\ opens[q] <= opens'[q]
    BY DEF TypeOK
  <2>3. next_stream_id[p] < FirstId(p) + IdStep * t.n
    BY <2>1, <2>2 DEF IdsOK, FirstId, IdStep
  <2>4. QueueOK' /\ send_chan' \in [Peers -> Seq(Tasks)]
    BY <2>1, <2>2, <2>3, PushKeepsQueue DEF TaskOK, StreamKinds
  <2>5. TypeOK'
    BY <2>2, <2>4 DEF TypeOK
  <2>6. IdsOK'
    BY <2>2 DEF IdsOK
  <2>. QED BY <2>4, <2>5, <2>6 DEF WireOK, WindowOK
<1>2. CASE OpenTimeout(p)
  <2>. USE DEF OpenTimeout
  <2>1. PICK i \in 1..Len(send_chan[p]) :
           /\ send_chan[p][i].kind = "open"
           /\ send_chan' = [send_chan EXCEPT ![p][i].kind = "expired"]
    BY <1>2
  <2>. DEFINE s == [send_chan[p] EXCEPT ![i].kind = "expired"]
  <2>2. send_chan[p] \in Seq(Tasks) /\ send_chan[p][i] \in Tasks
    BY TaskAt DEF QueueOK
  <2>3. [send_chan[p][i] EXCEPT !.kind = "expired"] \in Tasks
    BY <2>2 DEF Tasks, Kinds
  <2>4. /\ s \in Seq(Tasks) /\ Len(s) = Len(send_chan[p])
        /\ \A j \in 1..Len(s) : j # i => s[j] = send_chan[p][j]
        /\ s[i] = [send_chan[p][i] EXCEPT !.kind = "expired"]
    BY <2>2, <2>3, ExceptSeq
  <2>5. s[i].kind = "expired" /\ s[i].n = send_chan[p][i].n
    BY <2>2, <2>4 DEF Tasks
  <2>6. send_chan' = [send_chan EXCEPT ![p] = s]
    BY <2>1
  <2>. HIDE DEF s
  <2>7. \A j \in 1..Len(s) : TaskOK(s[j])
    BY <2>4, <2>5 DEF QueueOK, TaskOK, StreamKinds
  <2>8. \A j \in 1..Len(s) :
          s[j].kind \in OpenKinds =>
             /\ next_stream_id'[p] < FirstId(p) + IdStep * s[j].n
             /\ j + 0 \in 1..Len(send_chan[p])
             /\ send_chan[p][j + 0].kind \in OpenKinds
             /\ s[j].n = send_chan[p][j + 0].n
    <3>1. next_stream_id' = next_stream_id
      BY <1>2
    <3>2. \A j \in 1..Len(s) : j + 0 = j
      OBVIOUS
    <3>3. \A j \in 1..Len(s) :
            s[j].kind \in OpenKinds => send_chan[p][j].kind \in OpenKinds
      BY <2>1, <2>4 DEF OpenKinds
    <3>4. \A j \in 1..Len(s) : s[j].n = send_chan[p][j].n
      BY <2>4, <2>5
    <3>. QED BY <2>4, <3>1, <3>2, <3>3, <3>4 DEF QueueOK
  <2>9. \A q \in Peers : opens'[q] \in Nat /\ opens[q] <= opens'[q]
    BY <1>2 DEF TypeOK
  <2>10. QueueOK' /\ send_chan' \in [Peers -> Seq(Tasks)]
    BY <1>2, <2>4, <2>6, <2>7, <2>8, <2>9, QueueKept
  <2>11. TypeOK'
    BY <1>2, <2>10 DEF TypeOK
  <2>. QED BY <1>2, <2>10, <2>11 DEF WireOK, IdsOK, WindowOK
<1>3. CASE CloseSession(p)
  <2>1. TypeOK'
    BY <1>3 DEF TypeOK, CloseSession, Shut, Causes
  <2>. QED BY <1>3, <2>1 DEF CloseSession, QueueOK, WireOK, IdsOK, WindowOK
<1>4. CASE Ping(p)
  <2>. USE <1>4 DEF Ping
  <2>. DEFINE t == Task("ping", 0, ping_id[p], 0)
  <2>1. t \in Tasks /\ t.kind = "ping"
    BY DEF TypeOK, Task, Tasks, Kinds, ControlKinds
  <2>2. QueueOK' /\ send_chan' \in [Peers -> Seq(Tasks)]
    BY <2>1, PushOther DEF TaskOK, StreamKinds, OpenKinds
  <2>3. TypeOK'
    <3>1. ping_id' \in [Peers -> 0..MaxPings]
      BY DEF TypeOK
    <3>2. ka' \in [Peers -> {"idle", "ping", "exit"}]
      BY DEF TypeOK
    <3>. QED BY <2>2, <3>1, <3>2 DEF TypeOK
  <2>. QED BY <2>2, <2>3 DEF WireOK, IdsOK, WindowOK
<1>5. ASSUME NEW id \in Ids, NEW len \in Lens, SendData(p, id, len)
      PROVE  TypeInv'
  <2>. USE <1>5 DEF SendData
  <2>. DEFINE t == Task("data", id, len, 0)
  <2>1. id \in Nat
    BY DEF Ids, OwnIds, FirstId, IdStep
  <2>2. t \in Tasks /\ t.kind = "data" /\ t.id = id
    BY <2>1 DEF Task, Tasks, Kinds
  <2>3. QueueOK' /\ send_chan' \in [Peers -> Seq(Tasks)]
    BY <2>2, PushOther DEF TaskOK, StreamKinds, OpenKinds
  <2>4. TypeOK'
    <3>1. pushed' \in [Peers -> [Ids -> Nat]]
      BY DEF TypeOK
    <3>. QED BY <2>3, <3>1 DEF TypeOK
  <2>. QED BY <2>3, <2>4 DEF WireOK, IdsOK, WindowOK
<1>6. ASSUME NEW id \in Ids, CloseStream(p, id)
      PROVE  TypeInv'
  <2>. USE <1>6 DEF CloseStream
  <2>. DEFINE t == Task("fin", id, 0, 0)
  <2>1. id \in Nat
    BY DEF Ids, OwnIds, FirstId, IdStep
  <2>2. t \in Tasks /\ t.kind = "fin" /\ t.id = id
    BY <2>1 DEF Task, Tasks, Kinds, ControlKinds
  <2>3. QueueOK' /\ send_chan' \in [Peers -> Seq(Tasks)]
    BY <2>2, PushOther DEF TaskOK, StreamKinds, OpenKinds
  <2>4. TypeOK'
    BY <2>3 DEF TypeOK, StreamStates
  <2>. QED BY <2>3, <2>4 DEF WireOK, IdsOK, WindowOK
<1>7. ASSUME NEW id \in Ids, CloseHalfClosed(p, id)
      PROVE  TypeInv'
  <2>1. TypeOK'
    BY <1>7 DEF CloseHalfClosed, TypeOK, StreamStates
  <2>. QED BY <1>7, <2>1 DEF CloseHalfClosed, QueueOK, WireOK, IdsOK, WindowOK
<1>. QED BY <1>1, <1>2, <1>3, <1>4, <1>5, <1>6, <1>7 DEF Application

\* Stream ids are naturals.
LEMMA IdsAreNat == Ids \subseteq Nat
BY ConstantsAssumption DEF Ids, OwnIds, FirstId, IdStep

\* An open task finds an id left: it is one of at most MaxStreams calls.
LEMMA NewIdInIds ==
    ASSUME TypeInv, NEW p \in Peers, send_chan[p] # <<>>,
           Head(send_chan[p]).kind \in OpenKinds
    PROVE  /\ NewId(p) \in OwnIds(p) /\ NewId(p) \in Ids
           /\ \E k \in 0..opens[p] : NewId(p) = FirstId(p) + IdStep * k
           /\ NewId(p) <= FirstId(p) + IdStep * Head(send_chan[p]).n
<1>. DEFINE n == Head(send_chan[p]).n
<1>1. n \in Nat /\ n <= opens[p] /\ next_stream_id[p] < FirstId(p) + IdStep * n
  BY HeadTask DEF Tasks
<1>2. PICK k \in 0..opens[p] : next_stream_id[p] = FirstId(p) + IdStep * k
  BY DEF TypeInv, IdsOK
<1>3. opens[p] \in 0..MaxStreams /\ MaxStreams \in Nat
  BY ConstantsAssumption DEF TypeInv, TypeOK
<1>. HIDE DEF n
<1>4. /\ k + 1 <= n /\ k + 1 \in 1..MaxStreams /\ k + 1 \in 0..opens[p]
      /\ NewId(p) = FirstId(p) + IdStep * (k + 1)
  BY <1>1, <1>2, <1>3 DEF NewId, FirstId, IdStep
<1>5. NewId(p) \in OwnIds(p) /\ NewId(p) \in Ids
  BY <1>4 DEF OwnIds, Ids, Peers
<1>6. NewId(p) <= FirstId(p) + IdStep * n
  BY <1>1, <1>4 DEF FirstId, IdStep
<1>. QED BY <1>4, <1>5, <1>6 DEF n

\* A later open call has room for a larger id.
LEMMA LaterCall ==
    ASSUME NEW p \in Peers, NEW m \in Nat, NEW n \in Nat, m < n,
           NEW id \in Nat, id <= FirstId(p) + IdStep * m
    PROVE  id < FirstId(p) + IdStep * n
BY DEF FirstId, IdStep

\* close() up to its first lock.
LEMMA ShutTyped ==
    ASSUME TypeOK, NEW p \in Peers, NEW c \in Causes, Shut(p, c)
    PROVE  /\ shut_down' \in [Peers -> BOOLEAN]
           /\ closer' \in [Peers -> {"none", "lock", "mark", "wait", "done"}]
           /\ why' \in [Peers -> Causes]
<1>1. CASE shut_down[p]
  BY <1>1 DEF Shut, TypeOK
<1>2. CASE ~shut_down[p]
  <2>1. shut_down' = [shut_down EXCEPT ![p] = TRUE] /\ closer' = [closer EXCEPT ![p] = "lock"]
        /\ why' = [why EXCEPT ![p] = c]
    BY <1>2 DEF Shut
  <2>. QED BY <2>1 DEF TypeOK
<1>. QED BY <1>1, <1>2

\* What a control task does besides writing its frame is typed.
LEMMA EffectsTyped ==
    ASSUME TypeOK, NEW p \in Peers, NEW t \in Tasks, TaskOK(t), TaskEffects(p, t)
    PROVE  /\ state' \in [Peers -> [Ids -> StreamStates]]
           /\ erasing' \in [Peers -> SUBSET Ids]
           /\ local_goaway' \in [Peers -> BOOLEAN]
<1>1. CASE t.kind = "fin"
  <2>1. t.id \in Ids
    BY <1>1 DEF TaskOK, StreamKinds
  <2>2. state' = [state EXCEPT ![p][t.id] = "Closed"] /\ erasing' = [erasing EXCEPT ![p] = @ \cup {t.id}]
    BY <1>1 DEF TaskEffects
  <2>. QED BY <2>1, <2>2 DEF TaskEffects, TypeOK, StreamStates
<1>2. CASE t.kind # "fin"
  BY <1>2 DEF TaskEffects, TypeOK
<1>. QED BY <1>1, <1>2

\* Steps of the send fiber keep the types.
LEMMA SendFiberStep ==
    ASSUME TypeInv, NEW p \in Peers, SendFiber(p)
    PROVE  TypeInv'
<1>. USE ConstantsAssumption
     DEF sessionVars, streamVars, sendVars, recvVars, kaVars, histVars, TypeInv
<1>1. CASE SenderStop(p)
  <2>1. QueueOK' /\ send_chan' \in [Peers -> Seq(Tasks)]
    BY <1>1, PopKeepsQueue DEF SenderStop, NextTask
  <2>2. TypeOK'
    BY <1>1, <2>1 DEF SenderStop, TypeOK
  <2>. QED BY <1>1, <2>1, <2>2 DEF SenderStop, WireOK, IdsOK, WindowOK
<1>2. CASE RunOpenRefused(p)
  <2>1. QueueOK' /\ send_chan' \in [Peers -> Seq(Tasks)]
    BY <1>2, PopKeepsQueue DEF RunOpenRefused, NextTask
  <2>2. TypeOK'
    <3>1. /\ shut_down' \in [Peers -> BOOLEAN] /\ why' \in [Peers -> Causes]
          /\ closer' \in [Peers -> {"none", "lock", "mark", "wait", "done"}]
      BY <1>2, ShutTyped DEF RunOpenRefused, SenderExits, Causes
    <3>. QED BY <1>2, <2>1, <3>1 DEF RunOpenRefused, SenderExits, TypeOK
  <2>. QED BY <1>2, <2>1, <2>2 DEF RunOpenRefused, SenderExits, WireOK, IdsOK, WindowOK
<1>3. CASE RunOpen(p)
  <2>. USE <1>3 DEF RunOpen
  <2>1. send_chan[p] # <<>> /\ Head(send_chan[p]).kind \in OpenKinds
    BY DEF NextTask, OpenKinds
  <2>2. NewId(p) \in Ids /\ NewId(p) \in Nat
    BY <2>1, NewIdInIds, IdsAreNat
  <2>3. QueueOK' /\ send_chan' \in [Peers -> Seq(Tasks)]
    <3>. DEFINE s == Tail(send_chan[p])
    <3>1. send_chan[p] \in Seq(Tasks)
      BY DEF QueueOK
    <3>2. /\ s \in Seq(Tasks)
          /\ \A i \in 1..Len(s) : i + 1 \in 1..Len(send_chan[p]) /\ s[i] = send_chan[p][i + 1]
          /\ 1 \in 1..Len(send_chan[p]) /\ Head(send_chan[p]) = send_chan[p][1]
      BY <2>1, <3>1, TailFacts
    <3>3. send_chan' = [send_chan EXCEPT ![p] = s]
      BY DEF Popped
    <3>. HIDE DEF s
    <3>4. \A i \in 1..Len(s) : TaskOK(s[i])
      BY <3>2 DEF QueueOK
    <3>5. ASSUME NEW i \in 1..Len(s), s[i].kind \in OpenKinds
          PROVE  Head(send_chan[p]).n < s[i].n /\ Head(send_chan[p]).n \in Nat /\ s[i].n \in Nat
      <4>1. 1 < i + 1
        BY <3>2, LenProperties
      <4>2. Head(send_chan[p]).n < s[i].n
        BY <2>1, <3>2, <3>5, <4>1 DEF QueueOK
      <4>. QED BY <2>1, <3>2, <4>2, HeadTask, TaskAt DEF Tasks
    <3>6. next_stream_id'[p] = NewId(p) /\ \A q \in Peers \ {p} : next_stream_id'[q] = next_stream_id[q]
      BY DEF TypeOK
    <3>7. \A i \in 1..Len(s) :
            s[i].kind \in OpenKinds =>
               /\ next_stream_id'[p] < FirstId(p) + IdStep * s[i].n
               /\ i + 1 \in 1..Len(send_chan[p])
               /\ send_chan[p][i + 1].kind \in OpenKinds
               /\ s[i].n = send_chan[p][i + 1].n
      <4>. SUFFICES ASSUME NEW i \in 1..Len(s), s[i].kind \in OpenKinds
                    PROVE  /\ next_stream_id'[p] < FirstId(p) + IdStep * s[i].n
                           /\ i + 1 \in 1..Len(send_chan[p])
                           /\ send_chan[p][i + 1].kind \in OpenKinds
                           /\ s[i].n = send_chan[p][i + 1].n
        OBVIOUS
      <4>1. NewId(p) <= FirstId(p) + IdStep * Head(send_chan[p]).n
        BY <2>1, NewIdInIds
      <4>2. Head(send_chan[p]).n < s[i].n /\ Head(send_chan[p]).n \in Nat /\ s[i].n \in Nat
        BY <3>5
      <4>3. next_stream_id'[p] < FirstId(p) + IdStep * s[i].n
        BY <2>2, <3>6, <4>1, <4>2, LaterCall
      <4>. QED BY <3>2, <4>3
    <3>8. \A q \in Peers : opens'[q] \in Nat /\ opens[q] <= opens'[q]
      BY DEF TypeOK
    <3>. QED BY <3>2, <3>3, <3>4, <3>6, <3>7, <3>8, QueueKept
  <2>4. WireOK' /\ wire' \in [Peers -> Seq(Frames)]
    <3>1. Frame("wupdate", "SYN", NewId(p), 0, 0) \in Frames
      BY <2>2 DEF Frame, Frames, FrameTypes, Flags
    <3>. QED BY <2>2, <3>1, WriteKeepsWire DEF FrameOK, Frame
  <2>5. TypeOK'
    <3>1. Task("open", NewId(p), 0, 0) \in Tasks
      BY <2>2 DEF Task, Tasks, Kinds
    <3>2. state' \in [Peers -> [Ids -> StreamStates]]
      BY <2>2 DEF TypeOK, StreamStates, AfterSendFlags
    <3>. QED BY <2>2, <2>3, <2>4, <3>1, <3>2 DEF TypeOK
  <2>6. IdsOK'
    <3>1. cur'[p].id \in Ids
      BY <2>2 DEF TypeOK, Task
    <3>2. \A q \in Peers : \E k \in 0..opens'[q] : next_stream_id'[q] = FirstId(q) + IdStep * k
      BY <2>1, NewIdInIds DEF TypeOK, IdsOK
    <3>3. \A q \in Peers \ {p} : sender'[q] = sender[q] /\ cur'[q] = cur[q]
      BY DEF TypeOK
    <3>. QED BY <3>1, <3>2, <3>3 DEF IdsOK
  <2>. QED BY <2>3, <2>4, <2>5, <2>6 DEF WindowOK
<1>4. CASE RunOpenFails(p)
  <2>. USE <1>4 DEF RunOpenFails
  <2>1. send_chan[p] # <<>> /\ Head(send_chan[p]).kind \in OpenKinds
    BY DEF NextTask, OpenKinds
  <2>2. NewId(p) \in Ids /\ NewId(p) \in Nat
    BY <2>1, NewIdInIds, IdsAreNat
  <2>3. QueueOK' /\ send_chan' \in [Peers -> Seq(Tasks)]
    <3>. DEFINE t == Task("fin", NewId(p), 0, 0)
                s == Append(Tail(send_chan[p]), t)
    <3>1. send_chan[p] \in Seq(Tasks) /\ t \in Tasks /\ t.kind = "fin" /\ t.id = NewId(p)
      BY <2>2 DEF QueueOK, Task, Tasks, Kinds, ControlKinds
    <3>2. /\ Tail(send_chan[p]) \in Seq(Tasks)
          /\ \A i \in 1..Len(Tail(send_chan[p])) :
                i + 1 \in 1..Len(send_chan[p]) /\ Tail(send_chan[p])[i] = send_chan[p][i + 1]
          /\ 1 \in 1..Len(send_chan[p]) /\ Head(send_chan[p]) = send_chan[p][1]
      BY <2>1, <3>1, TailFacts
    <3>3. /\ s \in Seq(Tasks)
          /\ \A i \in 1..Len(s) :
                \/ s[i] = t
                \/ i + 1 \in 1..Len(send_chan[p]) /\ s[i] = send_chan[p][i + 1]
      BY <3>1, <3>2, AppendFacts
    <3>4. send_chan' = [send_chan EXCEPT ![p] = s]
      OBVIOUS
    <3>. HIDE DEF s, t
    <3>5. \A i \in 1..Len(s) : TaskOK(s[i])
      BY <2>2, <3>1, <3>3 DEF QueueOK, TaskOK
    <3>6. ASSUME NEW i \in 1..Len(s), s[i].kind \in OpenKinds
          PROVE  /\ i + 1 \in 1..Len(send_chan[p]) /\ s[i] = send_chan[p][i + 1]
                 /\ Head(send_chan[p]).n < s[i].n
                 /\ Head(send_chan[p]).n \in Nat /\ s[i].n \in Nat
      <4>1. 1 < i + 1 /\ i + 1 \in 1..Len(send_chan[p]) /\ s[i] = send_chan[p][i + 1]
        BY <3>1, <3>3, <3>6, LenProperties DEF OpenKinds
      <4>2. Head(send_chan[p]).n < s[i].n
        BY <2>1, <3>2, <3>6, <4>1 DEF QueueOK
      <4>. QED BY <2>1, <3>3, <4>1, <4>2, HeadTask, TaskAt DEF Tasks
    <3>7. next_stream_id'[p] = NewId(p) /\ \A q \in Peers \ {p} : next_stream_id'[q] = next_stream_id[q]
      BY DEF TypeOK
    <3>8. \A i \in 1..Len(s) :
            s[i].kind \in OpenKinds =>
               /\ next_stream_id'[p] < FirstId(p) + IdStep * s[i].n
               /\ i + 1 \in 1..Len(send_chan[p])
               /\ send_chan[p][i + 1].kind \in OpenKinds
               /\ s[i].n = send_chan[p][i + 1].n
      <4>. SUFFICES ASSUME NEW i \in 1..Len(s), s[i].kind \in OpenKinds
                    PROVE  /\ next_stream_id'[p] < FirstId(p) + IdStep * s[i].n
                           /\ i + 1 \in 1..Len(send_chan[p])
                           /\ send_chan[p][i + 1].kind \in OpenKinds
                           /\ s[i].n = send_chan[p][i + 1].n
        OBVIOUS
      <4>1. NewId(p) <= FirstId(p) + IdStep * Head(send_chan[p]).n
        BY <2>1, NewIdInIds
      <4>2. Head(send_chan[p]).n < s[i].n /\ Head(send_chan[p]).n \in Nat /\ s[i].n \in Nat
        BY <3>6
      <4>3. next_stream_id'[p] < FirstId(p) + IdStep * s[i].n
        BY <2>2, <3>7, <4>1, <4>2, LaterCall
      <4>. QED BY <3>6, <4>3
    <3>9. \A q \in Peers : opens'[q] \in Nat /\ opens[q] <= opens'[q]
      BY DEF TypeOK
    <3>. QED BY <3>3, <3>4, <3>5, <3>7, <3>8, <3>9, QueueKept
  <2>4. TypeOK'
    BY <2>2, <2>3 DEF TypeOK, StreamStates
  <2>5. IdsOK'
    <3>1. \A q \in Peers : \E k \in 0..opens'[q] : next_stream_id'[q] = FirstId(q) + IdStep * k
      BY <2>1, NewIdInIds DEF TypeOK, IdsOK
    <3>. QED BY <3>1 DEF IdsOK, TypeOK
  <2>. QED BY <2>3, <2>4, <2>5 DEF WireOK, WindowOK
<1>5. CASE OpenEmplace(p)
  <2>1. TypeOK'
    BY <1>5 DEF OpenEmplace, TypeOK, IdsOK
  <2>2. WindowOK'
    BY <1>5 DEF OpenEmplace, MutexHeld, WindowOK, TypeOK
  <2>. QED BY <1>5, <2>1, <2>2 DEF OpenEmplace, QueueOK, WireOK, IdsOK
<1>6. CASE RunDataDropped(p)
  <2>1. QueueOK' /\ send_chan' \in [Peers -> Seq(Tasks)]
    BY <1>6, PopKeepsQueue DEF RunDataDropped, NextTask
  <2>2. TypeOK'
    BY <1>6, <2>1 DEF RunDataDropped, TypeOK
  <2>. QED BY <1>6, <2>1, <2>2 DEF RunDataDropped, WireOK, IdsOK, WindowOK
<1>7. CASE RunData(p)
  <2>. USE <1>7 DEF RunData
  <2>. DEFINE t == Head(send_chan[p])
              n == sent[p][t.id] + 1
  <2>1. t \in Tasks /\ t.id \in Ids /\ t.id \in Nat /\ t.len \in Nat
    BY HeadTask, IdsAreNat DEF NextTask, TaskOK, StreamKinds, Tasks
  <2>2. n \in Nat
    <3>1. sent[p][t.id] \in Nat
      BY <2>1 DEF TypeOK
    <3>. QED BY <3>1
  <2>3. QueueOK' /\ send_chan' \in [Peers -> Seq(Tasks)]
    BY PopKeepsQueue DEF NextTask
  <2>4. WireOK' /\ wire' \in [Peers -> Seq(Frames)]
    <3>1. Frame("data", "none", t.id, t.len, n) \in Frames
      BY <2>1, <2>2 DEF Frame, Frames, FrameTypes, Flags
    <3>2. FrameOK(Frame("data", "none", t.id, t.len, n))
      BY <2>1 DEF FrameOK, Frame
    <3>. QED BY <3>1, <3>2, WriteKeepsWire
  <2>. DEFINE u == [t EXCEPT !.n = n]
  <2>5. u \in Tasks /\ u.id \in Ids
    BY <2>1, <2>2 DEF Tasks
  <2>6. cur' = [cur EXCEPT ![p] = u] /\ sent' = [sent EXCEPT ![p][t.id] = n]
    OBVIOUS
  <2>. HIDE DEF t, n, u
  <2>7. TypeOK'
    <3>1. sent' \in [Peers -> [Ids -> Nat]]
      <4>1. sent \in [Peers -> [Ids -> Nat]]
        BY DEF TypeOK
      <4>. HIDE <1>7
      <4>. QED BY <2>1, <2>2, <2>6, <4>1
    <3>2. cur' \in [Peers -> Tasks]
      <4>1. cur \in [Peers -> Tasks]
        BY DEF TypeOK
      <4>. HIDE <1>7
      <4>. QED BY <2>5, <2>6, <4>1
    <3>3. sender' \in [Peers -> {"pop", "emplace", "body", "stuck", "exit"}]
      BY DEF TypeOK
    <3>4. UNCHANGED <<sessionVars, streamVars, recvVars, kaVars, pushed, got>>
      OBVIOUS
    <3>. HIDE <1>7
    <3>. QED BY <2>3, <2>4, <3>1, <3>2, <3>3, <3>4 DEF TypeOK
  <2>8. IdsOK'
    BY <2>5, <2>6 DEF IdsOK, TypeOK
  <2>. QED BY <2>3, <2>4, <2>7, <2>8 DEF WindowOK
<1>8. CASE RunFails(p)
  <2>. USE <1>8 DEF RunFails
  <2>1. QueueOK' /\ send_chan' \in [Peers -> Seq(Tasks)]
    BY PopKeepsQueue DEF NextTask
  <2>2. Head(send_chan[p]) \in Tasks /\ TaskOK(Head(send_chan[p]))
    BY HeadTask DEF NextTask
  <2>3. TypeOK'
    <3>1. /\ state' \in [Peers -> [Ids -> StreamStates]] /\ erasing' \in [Peers -> SUBSET Ids]
          /\ local_goaway' \in [Peers -> BOOLEAN]
      BY <2>2, EffectsTyped
    <3>2. /\ shut_down' \in [Peers -> BOOLEAN] /\ why' \in [Peers -> Causes]
          /\ closer' \in [Peers -> {"none", "lock", "mark", "wait", "done"}]
      BY ShutTyped DEF SenderExits, Causes
    <3>3. sender' \in [Peers -> {"pop", "emplace", "body", "stuck", "exit"}]
      BY DEF SenderExits, TypeOK
    <3>. QED BY <2>1, <3>1, <3>2, <3>3 DEF TypeOK
  <2>4. sender' = [sender EXCEPT ![p] = "exit"]
    BY DEF SenderExits
  <2>5. IdsOK'
    BY <2>4 DEF IdsOK, TypeOK
  <2>6. WireOK' /\ WindowOK'
    BY DEF WireOK, WindowOK
  <2>. QED BY <2>1, <2>3, <2>5, <2>6
<1>9. CASE SendBody(p)
  <2>. USE <1>9 DEF SendBody
  <2>1. WireOK' /\ wire' \in [Peers -> Seq(Frames)]
    <3>. DEFINE f == Frame("body", "none", cur[p].id, cur[p].len, cur[p].n)
    <3>1. cur[p] \in Tasks /\ cur[p].id \in Ids
      BY DEF TypeOK, IdsOK
    <3>2. f \in Frames /\ FrameOK(f)
      BY <3>1 DEF Frame, Frames, FrameTypes, Flags, Tasks, FrameOK
    <3>. QED BY <3>2, WriteKeepsWire
  <2>2. TypeOK'
    BY <2>1 DEF TypeOK
  <2>3. IdsOK'
    BY DEF IdsOK, TypeOK
  <2>4. QueueOK' /\ WindowOK'
    BY DEF QueueOK, WindowOK
  <2>. QED BY <2>1, <2>2, <2>3, <2>4
<1>10. CASE SendBodyFails(p)
  <2>1. TypeOK'
    <3>1. /\ shut_down' \in [Peers -> BOOLEAN] /\ why' \in [Peers -> Causes]
          /\ closer' \in [Peers -> {"none", "lock", "mark", "wait", "done"}]
      BY <1>10, ShutTyped DEF SendBodyFails, SenderExits, Causes
    <3>. QED BY <1>10, <3>1 DEF SendBodyFails, SenderExits, TypeOK
  <2>2. QueueOK' /\ WireOK' /\ WindowOK'
    BY <1>10 DEF SendBodyFails, QueueOK, WireOK, WindowOK
  <2>3. IdsOK'
    BY <1>10 DEF SendBodyFails, SenderExits, IdsOK, TypeOK
  <2>. QED BY <2>1, <2>2, <2>3
<1>11. CASE RunControl(p)
  <2>. USE <1>11 DEF RunControl
  <2>. DEFINE t == Head(send_chan[p])
  <2>1. QueueOK' /\ send_chan' \in [Peers -> Seq(Tasks)]
    BY PopKeepsQueue DEF NextTask
  <2>2. t \in Tasks /\ TaskOK(t) /\ t.kind \in ControlKinds
    BY HeadTask DEF NextTask
  <2>3. WireOK' /\ wire' \in [Peers -> Seq(Frames)]
    <3>1. hdr[p] \in Frames
      BY DEF TypeOK
    <3>2. ControlFrame(p, t) \in Frames
      BY <2>2, <3>1 DEF ControlFrame, Frame, Frames, FrameTypes, Flags, Tasks
    <3>3. FrameOK(ControlFrame(p, t))
      BY <2>2 DEF ControlFrame, Frame, FrameOK, StreamTypes, TaskOK, StreamKinds, ControlKinds
    <3>. QED BY <3>2, <3>3, WriteKeepsWire
  <2>4. TypeOK'
    <3>1. /\ state' \in [Peers -> [Ids -> StreamStates]] /\ erasing' \in [Peers -> SUBSET Ids]
          /\ local_goaway' \in [Peers -> BOOLEAN]
      BY <2>2, EffectsTyped
    <3>. QED BY <2>1, <2>3, <3>1 DEF TypeOK
  <2>. QED BY <2>1, <2>3, <2>4 DEF IdsOK, WindowOK
<1>. QED BY <1>1, <1>2, <1>3, <1>4, <1>5, <1>6, <1>7, <1>8, <1>9, <1>10, <1>11 DEF SendFiber


\* Steps of the recv fiber keep the types, the receive window above all.
LEMMA RecvFiberStep ==
    ASSUME TypeInv, NEW p \in Peers, RecvFiber(p)
    PROVE  TypeInv'
<1>. USE ConstantsAssumption
     DEF sessionVars, streamVars, sendVars, recvVars, kaVars, histVars, TypeInv
<1>. DEFINE RecvStates == {"head", "handle", "accept", "locked", "body", "exit", "abort"}
<1>0. Other(p) \in Peers /\ hdr[p] \in Frames /\ (recv[p] \in InHandler => hdr[p].id \in Ids)
  BY DEF Other, Peers, TypeOK, IdsOK
<1>g. Task("goaway", 0, 1, 0) \in Tasks /\ TaskOK(Task("goaway", 0, 1, 0))
      /\ Task("goaway", 0, 1, 0).kind \notin OpenKinds
  BY DEF Task, Tasks, Kinds, ControlKinds, TaskOK, StreamKinds, OpenKinds
<1>1. CASE RecvHeader(p)
  <2>. USE <1>1 DEF RecvHeader
  <2>. DEFINE f == Incoming(p)
              t == Task("pong", 0, 0, f.len)
  <2>1. f \in Frames /\ FrameOK(f) /\ f.len \in Nat
    BY <1>0, HeadFrame DEF Incoming, Frames
  <2>2. WireOK' /\ wire' \in [Peers -> Seq(Frames)]
    BY ConsumeKeepsWire
  <2>3. QueueOK' /\ send_chan' \in [Peers -> Seq(Tasks)]
    <3>1. CASE ~shut_down[p] /\ Ponged(p, f)
      <4>1. t \in Tasks /\ TaskOK(t) /\ t.kind \notin OpenKinds
        BY <2>1 DEF Task, Tasks, Kinds, ControlKinds, TaskOK, StreamKinds, OpenKinds
      <4>2. Push(p, t)
        BY <3>1 DEF Push
      <4>. QED BY <4>1, <4>2, PushOther
    <3>2. CASE ~(~shut_down[p] /\ Ponged(p, f))
      <4>1. send_chan' = send_chan
        BY <3>2 DEF TypeOK
      <4>. QED BY <4>1 DEF QueueOK
    <3>. QED BY <3>1, <3>2
  <2>4. hdr' = [hdr EXCEPT ![p] = f]
    OBVIOUS
  <2>5. /\ recv' \in [Peers -> RecvStates]
        /\ recv'[p] \in InHandler => f.type \notin {"ping", "goaway"}
        /\ recv'[p] # "body"
        /\ \A q \in Peers \ {p} : recv'[q] = recv[q]
    BY DEF TypeOK, InHandler
  <2>6. ka' \in [Peers -> {"idle", "ping", "exit"}]
    BY DEF TypeOK
  <2>7. remote_goaway' \in [Peers -> BOOLEAN]
    BY DEF TypeOK
  <2>8. /\ shut_down' \in [Peers -> BOOLEAN] /\ why' \in [Peers -> Causes]
        /\ closer' \in [Peers -> {"none", "lock", "mark", "wait", "done"}]
    <3>1. CASE GoAwayError(f)
      BY <3>1, ShutTyped DEF Causes
    <3>2. CASE ~GoAwayError(f)
      BY <3>2 DEF TypeOK
    <3>. QED BY <3>1, <3>2
  <2>9. UNCHANGED <<local_goaway, streamVars, sender, cur, ping_id, histVars>>
    OBVIOUS
  <2>10. f.type \notin {"ping", "goaway"} => f.id \in Ids
    BY <2>1 DEF FrameOK, Frames, FrameTypes, StreamTypes
  <2>. HIDE <1>1 DEF f
  <2>11. TypeOK'
    BY <2>1, <2>2, <2>3, <2>4, <2>5, <2>6, <2>7, <2>8, <2>9 DEF TypeOK
  <2>12. IdsOK'
    BY <2>4, <2>5, <2>9, <2>10 DEF IdsOK, TypeOK
  <2>13. WindowOK'
    BY <2>4, <2>5, <2>9 DEF WindowOK, TypeOK
  <2>. QED BY <2>2, <2>3, <2>11, <2>12, <2>13
<1>2. CASE RecvIncoming(p)
  <2>. USE <1>2 DEF RecvIncoming
  <2>1. hdr[p].id \in Ids /\ hdr[p].id \in Nat
    BY <1>0, IdsAreNat DEF HandlesSyn, InHandler
  <2>2. WireOK' /\ wire' \in [Peers -> Seq(Frames)]
    <3>1. Frame("wupdate", "ACK", hdr[p].id, 0, 0) \in Frames
      BY <2>1 DEF Frame, Frames, FrameTypes, Flags
    <3>2. FrameOK(Frame("wupdate", "ACK", hdr[p].id, 0, 0))
      BY <2>1 DEF FrameOK, Frame
    <3>. QED BY <3>1, <3>2, WriteKeepsWire
  <2>3. TypeOK'
    <3>1. state' \in [Peers -> [Ids -> StreamStates]]
      BY <2>1 DEF TypeOK, StreamStates, AfterSendFlags
    <3>. QED BY <2>2, <3>1 DEF TypeOK
  <2>4. recv'[p] = "accept" /\ \A q \in Peers \ {p} : recv'[q] = recv[q]
    BY DEF TypeOK
  <2>5. IdsOK'
    BY <2>1, <2>4 DEF IdsOK
  <2>6. WindowOK'
    BY <2>4 DEF WindowOK
  <2>. QED BY <2>2, <2>3, <2>5, <2>6 DEF QueueOK
<1>3. CASE RecvRefused(p)
  <2>. USE <1>3 DEF RecvRefused
  <2>. DEFINE t == Task("rst", hdr[p].id, 0, 0)
  <2>1. hdr[p].id \in Ids /\ hdr[p].id \in Nat
    BY <1>0, IdsAreNat DEF HandlesSyn, InHandler
  <2>2. QueueOK' /\ send_chan' \in [Peers -> Seq(Tasks)]
    <3>1. CASE local_goaway[p]
      <4>1. t \in Tasks /\ TaskOK(t) /\ t.kind \notin OpenKinds
        BY <2>1 DEF Task, Tasks, Kinds, ControlKinds, TaskOK, StreamKinds, OpenKinds
      <4>2. Push(p, t)
        BY <3>1 DEF Push
      <4>. QED BY <4>1, <4>2, PushOther
    <3>2. CASE ~local_goaway[p] /\ FoundSameId(p)
      <4>1. Push(p, Task("goaway", 0, 1, 0))
        BY <3>2 DEF Push
      <4>. QED BY <1>g, <4>1, PushOther
    <3>3. CASE ~local_goaway[p] /\ ~FoundSameId(p)
      <4>1. send_chan' = send_chan
        BY <3>3 DEF TypeOK
      <4>. QED BY <4>1 DEF QueueOK
    <3>. QED BY <3>1, <3>2, <3>3
  <2>3. /\ recv' \in [Peers -> RecvStates] /\ recv'[p] \in {"head", "exit"}
        /\ \A q \in Peers \ {p} : recv'[q] = recv[q]
    <3>1. recv' = [recv EXCEPT ![p] = "exit"] \/ recv' = [recv EXCEPT ![p] = "head"]
      BY DEF RecvExits
    <3>. HIDE <1>3
    <3>. QED BY <3>1 DEF TypeOK
  <2>4. /\ shut_down' \in [Peers -> BOOLEAN] /\ why' \in [Peers -> Causes]
        /\ closer' \in [Peers -> {"none", "lock", "mark", "wait", "done"}]
    <3>1. CASE local_goaway[p]
      BY <3>1 DEF TypeOK
    <3>2. CASE ~local_goaway[p]
      BY <3>2, ShutTyped DEF RecvExits, Causes
    <3>. QED BY <3>1, <3>2
  <2>5. UNCHANGED <<local_goaway, remote_goaway, streamVars, sender, cur, wire, hdr,
                    kaVars, histVars>>
    OBVIOUS
  <2>. HIDE <1>3
  <2>6. TypeOK'
    BY <2>2, <2>3, <2>4, <2>5 DEF TypeOK
  <2>7. IdsOK' /\ WindowOK'
    BY <2>3, <2>5 DEF IdsOK, WindowOK, InHandler
  <2>. QED BY <2>2, <2>5, <2>6, <2>7 DEF WireOK
<1>4. CASE RecvAccept(p)
  <2>. USE <1>4 DEF RecvAccept
  <2>1. hdr[p].id \in Ids
    BY <1>0 DEF InHandler
  <2>2. TypeOK'
    BY <2>1 DEF TypeOK
  <2>3. IdsOK'
    BY DEF IdsOK, InHandler, TypeOK
  <2>4. WindowOK'
    BY DEF WindowOK, TypeOK
  <2>. QED BY <2>2, <2>3, <2>4 DEF QueueOK, WireOK
<1>5. CASE RecvLock(p)
  <2>. USE <1>5 DEF RecvLock
  <2>1. hdr[p].id \in Ids
    BY <1>0 DEF InHandler
  <2>2. TypeOK'
    BY DEF TypeOK
  <2>3. IdsOK' /\ WindowOK'
    BY <2>1 DEF IdsOK, WindowOK, TypeOK
  <2>. QED BY <2>2, <2>3 DEF QueueOK, WireOK
<1>6. CASE RecvUnmapped(p)
  <2>. USE <1>6 DEF RecvUnmapped
  <2>1. hdr[p].id \in Ids
    BY <1>0 DEF InHandler
  <2>2. TypeOK'
    BY DEF TypeOK, AfterHeader
  <2>3. IdsOK'
    BY <2>1 DEF IdsOK, TypeOK
  <2>4. WindowOK'
    BY DEF WindowOK, Mapped, TypeOK
  <2>. QED BY <2>2, <2>3, <2>4 DEF QueueOK, WireOK
<1>7. CASE RecvFlags(p)
  <2>. USE <1>7 DEF RecvFlags
  <2>1. hdr[p].id \in Ids /\ hdr[p].len \in Nat
    BY <1>0 DEF StateLocked, InHandler, Frames
  <2>2. state' \in [Peers -> [Ids -> StreamStates]]
    <3>1. NextState(state[p][hdr[p].id], hdr[p].flag) \in StreamStates
      <4>1. state[p][hdr[p].id] \in StreamStates
        BY <2>1 DEF TypeOK
      <4>. QED BY <4>1 DEF NextState, StreamStates
    <3>2. state' = [state EXCEPT ![p] = [@ EXCEPT ![hdr[p].id] =
                       NextState(state[p][hdr[p].id], hdr[p].flag)]]
      OBVIOUS
    <3>. HIDE DEF RecvFlags
    <3>. QED BY <2>1, <3>1, <3>2 DEF TypeOK
  <2>3. recv' \in [Peers -> RecvStates] /\ \A q \in Peers \ {p} : recv'[q] = recv[q]
    BY DEF TypeOK, AfterHeader
  <2>4. TypeOK'
    BY <2>2, <2>3 DEF TypeOK
  <2>5. IdsOK'
    BY <2>1, <2>3 DEF IdsOK
  <2>6. WindowOK'
    <3>1. recv'[p] = "body" => hdr[p].len <= recv_window[p][hdr[p].id]
      <4>1. recv'[p] = "body" => hdr[p].type = "data"
        BY DEF AfterHeader, TypeOK
      <4>2. recv_window[p][hdr[p].id] \in Nat
        BY <2>1 DEF TypeOK
      <4>. QED BY <2>1, <4>1, <4>2 DEF ExceedsWindow
    <3>. QED BY <2>3, <3>1 DEF WindowOK
  <2>. QED BY <2>4, <2>5, <2>6 DEF QueueOK, WireOK
<1>8. CASE RecvProtocolError(p)
  <2>. USE <1>8 DEF RecvProtocolError
  <2>1. QueueOK' /\ send_chan' \in [Peers -> Seq(Tasks)]
    BY <1>g, PushOther
  <2>2. /\ shut_down' \in [Peers -> BOOLEAN] /\ why' \in [Peers -> Causes]
        /\ closer' \in [Peers -> {"none", "lock", "mark", "wait", "done"}]
    BY ShutTyped DEF RecvExits, Causes
  <2>3. recv' = [recv EXCEPT ![p] = "exit"]
    BY DEF RecvExits
  <2>4. TypeOK'
    BY <2>1, <2>2, <2>3 DEF TypeOK
  <2>5. IdsOK' /\ WindowOK'
    BY <2>3 DEF IdsOK, WindowOK, InHandler, TypeOK
  <2>. QED BY <2>1, <2>4, <2>5 DEF WireOK
<1>9. CASE RecvBody(p)
  <2>. USE <1>9 DEF RecvBody
  <2>1. hdr[p].id \in Ids /\ hdr[p].len \in Nat
    BY <1>0 DEF InHandler, Frames
  <2>2. WireOK' /\ wire' \in [Peers -> Seq(Frames)]
    BY ConsumeKeepsWire
  <2>3. recv' = [recv EXCEPT ![p] = "head"]
    OBVIOUS
  <2>4. /\ recv_window' \in [Peers -> [Ids -> 0..Window]] /\ got' \in [Peers -> [Ids -> Nat]]
        /\ \A q \in Peers \ {p} : recv_window'[q] = recv_window[q]
    <3>0. recv_window \in [Peers -> [Ids -> 0..Window]] /\ got \in [Peers -> [Ids -> Nat]]
      BY DEF TypeOK
    <3>1. CASE Mapped(p)
      <4>1. hdr[p].len <= recv_window[p][hdr[p].id]
        BY <3>1 DEF Mapped, WindowOK
      <4>2. recv_window[p][hdr[p].id] - hdr[p].len \in 0..Window
        BY <2>1, <3>0, <4>1
      <4>3. recv_window' = [recv_window EXCEPT ![p][hdr[p].id] = @ - hdr[p].len]
            /\ got' = [got EXCEPT ![p][hdr[p].id] = @ + 1]
        BY <3>1
      <4>. HIDE <1>9
      <4>. QED BY <2>1, <3>0, <4>2, <4>3
    <3>2. CASE ~Mapped(p)
      BY <3>0, <3>2
    <3>. QED BY <3>1, <3>2
  <2>5. UNCHANGED <<sessionVars, opens, next_stream_id, streams, state, erasing,
                    sendVars, hdr, kaVars, pushed, sent>>
    OBVIOUS
  <2>. HIDE <1>9
  <2>6. TypeOK'
    BY <2>2, <2>3, <2>4, <2>5 DEF TypeOK
  <2>7. IdsOK'
    BY <2>3, <2>5 DEF IdsOK, InHandler, TypeOK
  <2>8. WindowOK'
    BY <2>3, <2>4, <2>5 DEF WindowOK, TypeOK
  <2>. QED BY <2>2, <2>5, <2>6, <2>7, <2>8 DEF QueueOK
<1>10. CASE RecvDesync(p)
  <2>. USE <1>10 DEF RecvDesync
  <2>1. /\ shut_down' \in [Peers -> BOOLEAN] /\ why' \in [Peers -> Causes]
        /\ closer' \in [Peers -> {"none", "lock", "mark", "wait", "done"}]
    BY ShutTyped DEF RecvExits, Causes
  <2>2. recv' = [recv EXCEPT ![p] = "exit"]
    BY DEF RecvExits
  <2>3. TypeOK'
    BY <2>1, <2>2 DEF TypeOK
  <2>4. IdsOK' /\ WindowOK'
    BY <2>2 DEF IdsOK, WindowOK, InHandler, TypeOK
  <2>. QED BY <2>3, <2>4 DEF QueueOK, WireOK
<1>11. CASE RecvEof(p)
  <2>. USE <1>11 DEF RecvEof
  <2>1. /\ shut_down' \in [Peers -> BOOLEAN] /\ why' \in [Peers -> Causes]
        /\ closer' \in [Peers -> {"none", "lock", "mark", "wait", "done"}]
    BY ShutTyped DEF RecvExits, Causes
  <2>2. recv' = [recv EXCEPT ![p] = "exit"]
    BY DEF RecvExits
  <2>3. TypeOK'
    BY <2>1, <2>2 DEF TypeOK
  <2>4. IdsOK' /\ WindowOK'
    BY <2>2 DEF IdsOK, WindowOK, InHandler, TypeOK
  <2>. QED BY <2>3, <2>4 DEF QueueOK, WireOK
<1>12. CASE RecvBodyEof(p)
  <2>. USE <1>12 DEF RecvBodyEof
  <2>1. QueueOK' /\ send_chan' \in [Peers -> Seq(Tasks)]
    <3>1. CASE Mapped(p)
      BY <1>g, <3>1, PushOther
    <3>2. CASE ~Mapped(p)
      BY <3>2 DEF QueueOK
    <3>. QED BY <3>1, <3>2
  <2>2. /\ shut_down' \in [Peers -> BOOLEAN] /\ why' \in [Peers -> Causes]
        /\ closer' \in [Peers -> {"none", "lock", "mark", "wait", "done"}]
    <3>1. CASE Mapped(p)
      BY <3>1, ShutTyped DEF RecvExits, Causes
    <3>2. CASE ~Mapped(p)
      BY <3>2 DEF TypeOK
    <3>. QED BY <3>1, <3>2
  <2>3. /\ recv' \in [Peers -> RecvStates] /\ recv'[p] \in {"head", "exit"}
        /\ \A q \in Peers \ {p} : recv'[q] = recv[q]
    <3>1. recv' = [recv EXCEPT ![p] = "exit"] \/ recv' = [recv EXCEPT ![p] = "head"]
      BY DEF RecvExits
    <3>. HIDE <1>12
    <3>. QED BY <3>1 DEF TypeOK
  <2>4. TypeOK'
    BY <2>1, <2>2, <2>3 DEF TypeOK
  <2>5. IdsOK' /\ WindowOK'
    BY <2>3 DEF IdsOK, WindowOK, InHandler
  <2>. QED BY <2>1, <2>4, <2>5 DEF WireOK
<1>13. CASE RecvBodyReset(p)
  <2>. USE <1>13 DEF RecvBodyReset
  <2>1. TypeOK'
    BY DEF TypeOK
  <2>2. IdsOK' /\ WindowOK'
    BY DEF IdsOK, WindowOK, InHandler, TypeOK
  <2>. QED BY <2>1, <2>2 DEF QueueOK, WireOK
<1>. QED
  BY <1>1, <1>2, <1>3, <1>4, <1>5, <1>6, <1>7, <1>8, <1>9, <1>10, <1>11, <1>12, <1>13
     DEF RecvFiber

\* The keep-alive fiber and close() keep the types.
LEMMA ClosingStep ==
    ASSUME TypeInv, NEW p \in Peers, KeepAliveFiber(p) \/ Closing(p)
    PROVE  TypeInv'
<1>. USE ConstantsAssumption
     DEF sessionVars, streamVars, sendVars, recvVars, kaVars, histVars, TypeInv
<1>1. CASE PingTimeout(p)
  <2>. USE <1>1 DEF PingTimeout
  <2>1. /\ shut_down' \in [Peers -> BOOLEAN] /\ why' \in [Peers -> Causes]
        /\ closer' \in [Peers -> {"none", "lock", "mark", "wait", "done"}]
    BY ShutTyped DEF Causes
  <2>2. TypeOK'
    BY <2>1 DEF TypeOK
  <2>. QED BY <2>2 DEF QueueOK, WireOK, IdsOK, WindowOK
<1>2. CASE KeepAliveStop(p)
  <2>1. TypeOK'
    BY <1>2 DEF KeepAliveStop, TypeOK
  <2>. QED BY <1>2, <2>1 DEF KeepAliveStop, QueueOK, WireOK, IdsOK, WindowOK
<1>3. CASE CloserLock(p)
  <2>1. TypeOK'
    BY <1>3 DEF CloserLock, TypeOK
  <2>. QED BY <1>3, <2>1 DEF CloserLock, QueueOK, WireOK, IdsOK, WindowOK
<1>4. CASE CloserFinish(p)
  <2>. USE <1>4 DEF CloserFinish
  <2>1. NullTask \in Tasks /\ TaskOK(NullTask) /\ NullTask.kind \notin OpenKinds
    BY DEF NullTask, Task, Tasks, Kinds, TaskOK, StreamKinds, OpenKinds
  <2>2. QueueOK' /\ send_chan' \in [Peers -> Seq(Tasks)]
    BY <2>1, PushOther
  <2>3. TypeOK'
    BY <2>2 DEF TypeOK
  <2>. QED BY <2>2, <2>3 DEF WireOK, IdsOK, WindowOK
<1>5. CASE CloserDone(p)
  <2>1. TypeOK'
    BY <1>5 DEF CloserDone, TypeOK
  <2>. QED BY <1>5, <2>1 DEF CloserDone, QueueOK, WireOK, IdsOK, WindowOK
<1>6. ASSUME NEW id \in Ids, CloserMark(p, id)
      PROVE  TypeInv'
  <2>1. TypeOK'
    BY <1>6 DEF CloserMark, TypeOK, StreamStates
  <2>. QED BY <1>6, <2>1 DEF CloserMark, QueueOK, WireOK, IdsOK, WindowOK
<1>7. ASSUME NEW id \in Ids, EraseStream(p, id)
      PROVE  TypeInv'
  <2>1. TypeOK'
    BY <1>7 DEF EraseStream, TypeOK
  <2>2. WindowOK'
    BY <1>7 DEF EraseStream, WindowOK, TypeOK
  <2>. QED BY <1>7, <2>1, <2>2 DEF EraseStream, QueueOK, WireOK, IdsOK
<1>. QED BY <1>1, <1>2, <1>3, <1>4, <1>5, <1>6, <1>7 DEF KeepAliveFiber, Closing

\* Every step keeps the types.
LEMMA NextTypeInv == TypeInv /\ [Next]_vars => TypeInv'
<1>. SUFFICES ASSUME TypeInv, [Next]_vars PROVE TypeInv'
  OBVIOUS
<1>1. ASSUME NEW p \in Peers, Step(p) PROVE TypeInv'
  BY <1>1, ApplicationStep, SendFiberStep, RecvFiberStep, ClosingStep DEF Step
<1>2. CASE UNCHANGED vars
  BY <1>2 DEF vars, sessionVars, streamVars, sendVars, recvVars, kaVars, histVars,
              TypeInv, TypeOK, QueueOK, WireOK, IdsOK, WindowOK
<1>. QED BY <1>1, <1>2 DEF Next

\* The type invariant and its strengthening hold in every reachable state.
LEMMA TypeInvHolds == Spec => []TypeInv
<1>. QED BY InitTypeInv, NextTypeInv, PTL DEF Spec

\* Every reachable state is well typed for every choice of the constants; in
\* particular recv_window_, a uint32_t that read_data() reduces by a length the
\* peer chose, stays between 0 and MaxStreamWindowSize, and no stream gets an
\* id outside the ones its endpoint may hand out.
THEOREM TypeCorrect == Spec => []TypeOK
<1>1. TypeInv => TypeOK
  BY DEF TypeInv
<1>. QED BY <1>1, TypeInvHolds, PTL

-----------------------------------------------------------------------------
(***************************************************************************)
(* The identity of streams: two endpoints that number their streams        *)
(* without talking to each other never mean different streams by one id,   *)
(* an Established stream exists at both ends, and a stream never goes back *)
(* in its life.                                                            *)
(***************************************************************************)

Opening(f) == f.flag = "SYN" /\ f.type \in StreamTypes
Acking(f)  == f.flag = "ACK" /\ f.type \in StreamTypes
Resetting(f) == f.flag = "RST" /\ f.type \in StreamTypes
Telling(f) == Opening(f) \/ Acking(f) \/ Resetting(f)

\* The recv fiber of p has read a SYN and not yet handled it.
InHand(p) == recv[p] = "handle" /\ hdr[p].flag = "SYN"

\* p has given id to a stream its peer does not know of yet.
Unseen(p, id) ==
    id \in OwnIds(p) /\ id <= next_stream_id[p] /\ state[Other(p)][id] = "None"

-----------------------------------------------------------------------------
(* The inductive invariant.                                                *)

\* No endpoint knows of an id that was not given out.
FreshIds ==
    \A p \in Peers : \A id \in OwnIds(p) :
        next_stream_id[p] < id => state[p][id] = "None" /\ state[Other(p)][id] = "None"

\* A SYN, on the wire or in the hands of the recv fiber, is the only one for
\* its id, and its receiver does not know the id.
SynsUnseen ==
    \A p \in Peers :
        /\ \A i \in 1..Len(wire[p]) :
              Opening(wire[p][i]) =>
                 /\ Unseen(p, wire[p][i].id)
                 /\ InHand(Other(p)) => hdr[Other(p)].id # wire[p][i].id
        /\ \A i, j \in 1..Len(wire[p]) :
              i # j /\ Opening(wire[p][i]) /\ Opening(wire[p][j])
                 => wire[p][i].id # wire[p][j].id
        /\ InHand(p) => Unseen(Other(p), hdr[p].id)

\* An ACK comes from an endpoint that has the stream; nobody sends an RST.
FramesTrue ==
    \A p \in Peers :
        /\ \A i \in 1..Len(wire[p]) :
              /\ Acking(wire[p][i]) => state[p][wire[p][i].id] # "None"
              /\ ~Resetting(wire[p][i])
        /\ recv[p] \in {"handle", "locked"} =>
              /\ hdr[p].flag # "RST"
              /\ hdr[p].flag = "ACK" => state[Other(p)][hdr[p].id] # "None"

\* What is in the map, or about to enter it, exists.
StreamsLive ==
    \A p \in Peers :
        /\ \A id \in streams[p] : state[p][id] # "None"
        /\ sender[p] = "emplace" => state[p][cur[p].id] # "None"
        /\ recv[p] = "accept" => state[p][hdr[p].id] # "None"

\* A stream has at most one FIN task, and is in LocalClose while it has one;
\* goaway_ is never set in time to refuse a stream with an RST.
TasksTrue ==
    \A p \in Peers :
        /\ local_goaway[p] => recv[p] = "exit"
        /\ \A i \in 1..Len(send_chan[p]) :
              /\ send_chan[p][i].kind = "fin" => state[p][send_chan[p][i].id] = "LocalClose"
              /\ send_chan[p][i].kind = "goaway" => recv[p] = "exit"
              /\ send_chan[p][i].kind # "rst"
        /\ \A i, j \in 1..Len(send_chan[p]) :
              i # j /\ send_chan[p][i].kind = "fin" /\ send_chan[p][j].kind = "fin"
                 => send_chan[p][i].id # send_chan[p][j].id

NeverReset == \A p \in Peers : \A id \in Ids : state[p][id] # "Reset"

IdInv ==
    /\ FreshIds /\ SynsUnseen /\ FramesTrue /\ StreamsLive /\ TasksTrue /\ NeverReset
    /\ EstablishedAtBothEnds

-----------------------------------------------------------------------------
(* What most steps leave alone.                                            *)

\* Frames that tell something were on the wire before, in the same order.
WireKept ==
    \A q \in Peers : \E d \in {0, 1} : \A i \in 1..Len(wire'[q]) :
        Telling(wire'[q][i]) =>
            i + d \in 1..Len(wire[q]) /\ wire'[q][i] = wire[q][i + d]

\* FIN and RST tasks were queued before, in the same order; a GoAway task was,
\* or the recv fiber has left its loop.
TasksKept ==
    \A q \in Peers : \E d \in {0, 1} : \A i \in 1..Len(send_chan'[q]) :
        /\ send_chan'[q][i].kind \in {"fin", "rst"} =>
              /\ i + d \in 1..Len(send_chan[q])
              /\ send_chan'[q][i].kind = send_chan[q][i + d].kind
              /\ send_chan'[q][i].id = send_chan[q][i + d].id
        /\ send_chan'[q][i].kind = "goaway" =>
              \/ recv'[q] = "exit"
              \/ i + d \in 1..Len(send_chan[q]) /\ send_chan[q][i + d].kind = "goaway"

\* No recv fiber has read a frame of a stream, or come back from its end.
RecvKept ==
    \A q \in Peers :
        /\ recv'[q] \in {"handle", "locked"} =>
              recv[q] \in {"handle", "locked"} /\ hdr'[q] = hdr[q]
        /\ recv'[q] = "handle" => recv[q] = "handle"
        /\ recv[q] = "exit" => recv'[q] = "exit"

\* No stream has come into being.
StatesKept ==
    \A q \in Peers : \A id \in Ids : state'[q][id] = "None" <=> state[q][id] = "None"

\* No close() of a stream has been answered.
ClosesKept ==
    \A q \in Peers : \A id \in Ids :
        state[q][id] = "LocalClose" => state'[q][id] = "LocalClose"

\* There are two endpoints, each the other's peer.
LEMMA OtherPeer ==
    ASSUME NEW p \in Peers
    PROVE  /\ Other(p) \in Peers /\ Other(p) # p /\ Other(Other(p)) = p
           /\ \A q \in Peers : q = p \/ q = Other(p)
BY DEF Other, Peers

\* Odd ids are the client's, even ids the server's.
LEMMA OwnIdsDisjoint ==
    ASSUME NEW p \in Peers, NEW id \in OwnIds(p)
    PROVE  id \in Ids /\ id \notin OwnIds(Other(p))
<1>1. PICK k \in 1..MaxStreams : id = FirstId(p) + IdStep * k
  BY DEF OwnIds
<1>2. \A m \in 1..MaxStreams : id # FirstId(Other(p)) + IdStep * m
  BY <1>1, ConstantsAssumption DEF FirstId, IdStep, Other, Peers
<1>. QED BY <1>2 DEF OwnIds, Ids, Peers

\* A frame on the wire is typed, and one that tells of a stream has its id.
LEMMA FrameAt ==
    ASSUME TypeInv, NEW p \in Peers, NEW i \in 1..Len(wire[p])
    PROVE  /\ wire[p][i] \in Frames /\ Len(wire[p]) \in Nat
           /\ Telling(wire[p][i]) => wire[p][i].id \in Ids
<1>1. wire[p] \in Seq(Frames) /\ FrameOK(wire[p][i])
  BY DEF TypeInv, WireOK
<1>2. wire[p][i] \in Frames /\ Len(wire[p]) \in Nat
  BY <1>1, ElementOfSeq, LenProperties
<1>. QED BY <1>1, <1>2 DEF FrameOK, Telling, Opening, Acking, Resetting

\* A step that writes no frame about a stream's life keeps what frames tell true.
LEMMA TellingKept ==
    ASSUME TypeInv, IdInv, WireKept, RecvKept, StatesKept, UNCHANGED next_stream_id
    PROVE  FreshIds' /\ SynsUnseen' /\ FramesTrue'
<1>. USE DEF IdInv
<1>1. FreshIds'
  BY OtherPeer, OwnIdsDisjoint DEF FreshIds, StatesKept
<1>2. ASSUME NEW p \in Peers, NEW id, Unseen(p, id) PROVE Unseen(p, id)'
  BY <1>2, OtherPeer, OwnIdsDisjoint DEF Unseen, StatesKept
<1>3. ASSUME NEW p \in Peers, InHand(p)' PROVE InHand(p) /\ hdr'[p] = hdr[p]
  BY <1>3 DEF InHand, RecvKept
<1>4. ASSUME NEW p \in Peers, InHand(p)' PROVE Unseen(Other(p), hdr[p].id)'
  <2>1. Unseen(Other(p), hdr[p].id) /\ hdr'[p] = hdr[p]
    BY <1>3, <1>4 DEF SynsUnseen
  <2>. QED BY <1>2, <2>1, OtherPeer DEF Unseen
<1>5. ASSUME NEW p \in Peers
      PROVE  /\ \A i \in 1..Len(wire'[p]) :
                  Opening(wire'[p][i]) =>
                     /\ Unseen(p, wire[p][i].id)'
                     /\ InHand(Other(p))' => hdr'[Other(p)].id # wire'[p][i].id
             /\ \A i, j \in 1..Len(wire'[p]) :
                  i # j /\ Opening(wire'[p][i]) /\ Opening(wire'[p][j])
                     => wire'[p][i].id # wire'[p][j].id
             /\ \A i \in 1..Len(wire'[p]) :
                  /\ Acking(wire'[p][i]) => state'[p][wire'[p][i].id] # "None"
                  /\ ~Resetting(wire'[p][i])
  <2>1. PICK d \in {0, 1} : \A i \in 1..Len(wire'[p]) :
           Telling(wire'[p][i]) => i + d \in 1..Len(wire[p]) /\ wire'[p][i] = wire[p][i + d]
    BY DEF WireKept
  <2>2. ASSUME NEW i \in 1..Len(wire'[p]), Opening(wire'[p][i])
        PROVE  /\ Unseen(p, wire[p][i].id)'
               /\ InHand(Other(p))' => hdr'[Other(p)].id # wire'[p][i].id
    <3>1. i + d \in 1..Len(wire[p]) /\ wire'[p][i] = wire[p][i + d]
      BY <2>1, <2>2 DEF Telling
    <3>2. /\ Unseen(p, wire[p][i + d].id)
          /\ InHand(Other(p)) => hdr[Other(p)].id # wire[p][i + d].id
      BY <2>2, <3>1 DEF SynsUnseen
    <3>3. InHand(Other(p))' => hdr'[Other(p)].id # wire'[p][i].id
      BY <1>3, <3>1, <3>2, OtherPeer
    <3>4. Unseen(p, wire[p][i].id)'
      BY <3>1, <3>2, OtherPeer, OwnIdsDisjoint DEF Unseen, StatesKept
    <3>. QED BY <3>3, <3>4
  <2>3. ASSUME NEW i \in 1..Len(wire'[p]), NEW j \in 1..Len(wire'[p]), i # j,
               Opening(wire'[p][i]), Opening(wire'[p][j])
        PROVE  wire'[p][i].id # wire'[p][j].id
    <3>1. /\ i + d \in 1..Len(wire[p]) /\ wire'[p][i] = wire[p][i + d]
          /\ j + d \in 1..Len(wire[p]) /\ wire'[p][j] = wire[p][j + d]
      BY <2>1, <2>3 DEF Telling
    <3>2. i + d # j + d
      BY <2>3
    <3>. QED BY <2>3, <3>1, <3>2 DEF SynsUnseen
  <2>4. ASSUME NEW i \in 1..Len(wire'[p])
        PROVE  /\ Acking(wire'[p][i]) => state'[p][wire'[p][i].id] # "None"
               /\ ~Resetting(wire'[p][i])
    <3>1. ASSUME Telling(wire'[p][i])
          PROVE  /\ i + d \in 1..Len(wire[p]) /\ wire'[p][i] = wire[p][i + d]
                 /\ wire'[p][i].id \in Ids
      <4>1. i + d \in 1..Len(wire[p]) /\ wire'[p][i] = wire[p][i + d]
        BY <2>1, <3>1
      <4>. QED BY <3>1, <4>1, FrameAt
    <3>. QED BY <3>1 DEF Telling, FramesTrue, StatesKept
  <2>. QED BY <2>2, <2>3, <2>4
<1>6. ASSUME NEW p \in Peers, recv'[p] \in {"handle", "locked"}
      PROVE  /\ hdr'[p].flag # "RST"
             /\ hdr'[p].flag = "ACK" => state'[Other(p)][hdr'[p].id] # "None"
  <2>1. recv[p] \in {"handle", "locked"} /\ hdr'[p] = hdr[p]
    BY <1>6 DEF RecvKept
  <2>2. hdr[p].id \in Ids
    BY <2>1 DEF TypeInv, IdsOK, InHandler
  <2>. QED BY <2>1, <2>2, OtherPeer DEF FramesTrue, StatesKept
<1>7. SynsUnseen'
  BY <1>4, <1>5 DEF SynsUnseen, Opening
<1>8. FramesTrue'
  BY <1>5, <1>6 DEF FramesTrue, Acking, Resetting
<1>. QED BY <1>1, <1>7, <1>8

\* A step that queues no FIN, RST or GoAway keeps the queued tasks true.
LEMMA QueueStays ==
    ASSUME TypeInv, IdInv, TasksKept, ClosesKept,
           \A q \in Peers : recv[q] = "exit" => recv'[q] = "exit",
           \A q \in Peers : local_goaway'[q] => recv'[q] = "exit"
    PROVE  TasksTrue'
<1>. USE DEF IdInv
<1>1. ASSUME NEW p \in Peers
      PROVE  /\ \A i \in 1..Len(send_chan'[p]) :
                  /\ send_chan'[p][i].kind = "fin" =>
                        state'[p][send_chan'[p][i].id] = "LocalClose"
                  /\ send_chan'[p][i].kind = "goaway" => recv'[p] = "exit"
                  /\ send_chan'[p][i].kind # "rst"
             /\ \A i, j \in 1..Len(send_chan'[p]) :
                  /\ i # j
                  /\ send_chan'[p][i].kind = "fin" /\ send_chan'[p][j].kind = "fin"
                  => send_chan'[p][i].id # send_chan'[p][j].id
  <2>1. PICK d \in {0, 1} : \A i \in 1..Len(send_chan'[p]) :
           /\ send_chan'[p][i].kind \in {"fin", "rst"} =>
                 /\ i + d \in 1..Len(send_chan[p])
                 /\ send_chan'[p][i].kind = send_chan[p][i + d].kind
                 /\ send_chan'[p][i].id = send_chan[p][i + d].id
           /\ send_chan'[p][i].kind = "goaway" =>
                 \/ recv'[p] = "exit"
                 \/ i + d \in 1..Len(send_chan[p]) /\ send_chan[p][i + d].kind = "goaway"
    BY DEF TasksKept
  <2>2. ASSUME NEW i \in 1..Len(send_chan'[p]), send_chan'[p][i].kind = "fin"
        PROVE  state'[p][send_chan'[p][i].id] = "LocalClose"
    <3>1. /\ i + d \in 1..Len(send_chan[p]) /\ send_chan[p][i + d].kind = "fin"
          /\ send_chan'[p][i].id = send_chan[p][i + d].id
      BY <2>1, <2>2
    <3>2. send_chan[p][i + d].id \in Ids
      BY <3>1 DEF TypeInv, QueueOK, TaskOK, StreamKinds
    <3>. QED BY <3>1, <3>2 DEF TasksTrue, ClosesKept
  <2>3. ASSUME NEW i \in 1..Len(send_chan'[p])
        PROVE  /\ send_chan'[p][i].kind = "goaway" => recv'[p] = "exit"
               /\ send_chan'[p][i].kind # "rst"
    BY <2>1 DEF TasksTrue
  <2>4. ASSUME NEW i \in 1..Len(send_chan'[p]), NEW j \in 1..Len(send_chan'[p]), i # j,
               send_chan'[p][i].kind = "fin", send_chan'[p][j].kind = "fin"
        PROVE  send_chan'[p][i].id # send_chan'[p][j].id
    <3>1. i + d # j + d
      BY <2>4
    <3>2. /\ i + d \in 1..Len(send_chan[p]) /\ send_chan[p][i + d].kind = "fin"
          /\ send_chan'[p][i].id = send_chan[p][i + d].id
      BY <2>1, <2>4
    <3>3. /\ j + d \in 1..Len(send_chan[p]) /\ send_chan[p][j + d].kind = "fin"
          /\ send_chan'[p][j].id = send_chan[p][j + d].id
      BY <2>1, <2>4
    <3>. QED BY <3>1, <3>2, <3>3 DEF TasksTrue
  <2>. QED BY <2>2, <2>3, <2>4
<1>. QED BY <1>1 DEF TasksTrue

\* The same, from what RecvKept says of the recv fiber.
LEMMA QueueTrue ==
    ASSUME TypeInv, IdInv, TasksKept, RecvKept, ClosesKept,
           \A q \in Peers : local_goaway'[q] => recv'[q] = "exit"
    PROVE  TasksTrue'
<1>1. \A q \in Peers : recv[q] = "exit" => recv'[q] = "exit"
  BY DEF RecvKept
<1>. QED BY <1>1, QueueStays

\* A step that touches no stream's state.
LEMMA SteadyStep ==
    ASSUME TypeInv, IdInv, WireKept, TasksKept, RecvKept, StreamsLive',
           UNCHANGED <<next_stream_id, state>>,
           \A q \in Peers : local_goaway'[q] => recv'[q] = "exit"
    PROVE  IdInv'
<1>. USE DEF IdInv
<1>1. StatesKept /\ ClosesKept
  BY DEF StatesKept, ClosesKept
<1>2. NeverReset' /\ EstablishedAtBothEnds'
  BY DEF NeverReset, EstablishedAtBothEnds
<1>. QED BY <1>1, <1>2, TellingKept, QueueTrue

\* A step that does not touch the wire keeps its frames.
LEMMA WireSame == ASSUME TypeInv, UNCHANGED wire PROVE WireKept
<1>1. ASSUME NEW q \in Peers, NEW i \in 1..Len(wire'[q])
      PROVE  i + 0 \in 1..Len(wire[q]) /\ wire'[q][i] = wire[q][i + 0]
  <2>1. wire[q] \in Seq(Frames)
    BY DEF TypeInv, WireOK
  <2>. QED BY <2>1, LenProperties
<1>. QED BY <1>1 DEF WireKept

\* A write of a frame that tells nothing of a stream's life keeps the others.
LEMMA WireWritten ==
    ASSUME TypeInv, NEW p \in Peers, NEW f \in Frames, ~Telling(f), Write(p, f)
    PROVE  WireKept
<1>1. ASSUME NEW q \in Peers, NEW i \in 1..Len(wire'[q]), Telling(wire'[q][i])
      PROVE  i + 0 \in 1..Len(wire[q]) /\ wire'[q][i] = wire[q][i + 0]
  <2>1. wire \in [Peers -> Seq(Frames)] /\ wire[q] \in Seq(Frames) /\ wire[p] \in Seq(Frames)
    BY DEF TypeInv, WireOK
  <2>2. CASE q = p
    <3>1. wire'[p] = Append(wire[p], f)
      BY <2>1 DEF Write
    <3>. QED BY <1>1, <2>1, <2>2, <3>1, AppendFacts
  <2>3. CASE q # p
    <3>1. wire'[q] = wire[q]
      BY <2>1, <2>3 DEF Write
    <3>. QED BY <2>1, <3>1, LenProperties
  <2>. QED BY <2>2, <2>3
<1>. QED BY <1>1 DEF WireKept

\* Reading a frame keeps the others.
LEMMA WireRead ==
    ASSUME TypeInv, NEW p \in Peers, wire[Other(p)] # <<>>, Consume(p)
    PROVE  WireKept
<1>1. Other(p) \in Peers /\ wire \in [Peers -> Seq(Frames)]
  BY OtherPeer DEF TypeInv, WireOK
<1>2. ASSUME NEW i \in 1..Len(wire'[Other(p)])
      PROVE  i + 1 \in 1..Len(wire[Other(p)]) /\ wire'[Other(p)][i] = wire[Other(p)][i + 1]
  <2>1. wire'[Other(p)] = Tail(wire[Other(p)]) /\ wire[Other(p)] \in Seq(Frames)
    BY <1>1 DEF Consume
  <2>. QED BY <2>1, TailFacts
<1>3. ASSUME NEW q \in Peers, q # Other(p), NEW i \in 1..Len(wire'[q])
      PROVE  i + 0 \in 1..Len(wire[q]) /\ wire'[q][i] = wire[q][i + 0]
  <2>1. wire'[q] = wire[q] /\ wire[q] \in Seq(Frames)
    BY <1>1, <1>3 DEF Consume
  <2>. QED BY <2>1, LenProperties
<1>4. ASSUME NEW q \in Peers
      PROVE  \E d \in {0, 1} : \A i \in 1..Len(wire'[q]) :
                Telling(wire'[q][i]) =>
                    i + d \in 1..Len(wire[q]) /\ wire'[q][i] = wire[q][i + d]
  BY <1>2, <1>3
<1>. QED BY <1>4 DEF WireKept

\* A step that does not touch the queue keeps its tasks.
LEMMA TasksSame ==
    ASSUME TypeInv, UNCHANGED send_chan
    PROVE  TasksKept
<1>1. ASSUME NEW q \in Peers, NEW i \in 1..Len(send_chan'[q])
      PROVE  i + 0 \in 1..Len(send_chan[q]) /\ send_chan'[q][i] = send_chan[q][i + 0]
  <2>1. send_chan[q] \in Seq(Tasks)
    BY DEF TypeInv, QueueOK
  <2>. QED BY <2>1, LenProperties
<1>. QED BY <1>1 DEF TasksKept

\* Queueing a task that closes nothing keeps the others.
LEMMA TasksPushed ==
    ASSUME TypeInv, NEW p \in Peers, NEW t \in Tasks, Push(p, t),
           t.kind \notin {"fin", "rst"}, t.kind = "goaway" => recv'[p] = "exit"
    PROVE  TasksKept
<1>1. ASSUME NEW q \in Peers, NEW i \in 1..Len(send_chan'[q])
      PROVE  \/ i + 0 \in 1..Len(send_chan[q]) /\ send_chan'[q][i] = send_chan[q][i + 0]
             \/ q = p /\ send_chan'[q][i] = t
  <2>1. send_chan \in [Peers -> Seq(Tasks)] /\ send_chan[q] \in Seq(Tasks)
    BY DEF TypeInv, QueueOK
  <2>2. CASE q = p
    <3>1. send_chan'[q] = Append(send_chan[q], t)
      BY <2>1, <2>2 DEF Push
    <3>. QED BY <2>1, <2>2, <3>1, AppendFacts
  <2>3. CASE q # p
    <3>1. send_chan'[q] = send_chan[q]
      BY <2>1, <2>3 DEF Push
    <3>. QED BY <2>1, <3>1, LenProperties
  <2>. QED BY <2>2, <2>3
<1>2. ASSUME NEW q \in Peers, NEW i \in 1..Len(send_chan'[q])
      PROVE  /\ send_chan'[q][i].kind \in {"fin", "rst"} =>
                   /\ i + 0 \in 1..Len(send_chan[q])
                   /\ send_chan'[q][i].kind = send_chan[q][i + 0].kind
                   /\ send_chan'[q][i].id = send_chan[q][i + 0].id
             /\ send_chan'[q][i].kind = "goaway" =>
                   \/ recv'[q] = "exit"
                   \/ i + 0 \in 1..Len(send_chan[q]) /\ send_chan[q][i + 0].kind = "goaway"
  BY <1>1
<1>. QED BY <1>2 DEF TasksKept

\* Popping a task keeps the others.
LEMMA TasksPopped ==
    ASSUME TypeInv, NEW p \in Peers, send_chan[p] # <<>>, Popped(p)
    PROVE  TasksKept
<1>1. send_chan \in [Peers -> Seq(Tasks)] /\ \A q \in Peers : send_chan[q] \in Seq(Tasks)
  BY DEF TypeInv, QueueOK
<1>2. ASSUME NEW i \in 1..Len(send_chan'[p])
      PROVE  i + 1 \in 1..Len(send_chan[p]) /\ send_chan'[p][i] = send_chan[p][i + 1]
  <2>1. send_chan'[p] = Tail(send_chan[p])
    BY <1>1 DEF Popped
  <2>. QED BY <1>1, <2>1, TailFacts
<1>3. ASSUME NEW q \in Peers, q # p, NEW i \in 1..Len(send_chan'[q])
      PROVE  i + 0 \in 1..Len(send_chan[q]) /\ send_chan'[q][i] = send_chan[q][i + 0]
  <2>1. send_chan'[q] = send_chan[q]
    BY <1>1, <1>3 DEF Popped
  <2>. QED BY <1>1, <2>1, LenProperties
<1>4. ASSUME NEW q \in Peers
      PROVE  \E d \in {0, 1} : \A i \in 1..Len(send_chan'[q]) :
                i + d \in 1..Len(send_chan[q]) /\ send_chan'[q][i] = send_chan[q][i + d]
  BY <1>2, <1>3
<1>. QED BY <1>4 DEF TasksKept

\* A new session has no frames, tasks or streams that could be wrong.
LEMMA InitIdInv == Init => IdInv
<1>. SUFFICES ASSUME Init PROVE IdInv
  OBVIOUS
<1>. USE ConstantsAssumption DEF Init
<1>1. \A p \in Peers : Other(p) \in Peers
  BY OtherPeer
<1>2. \A p \in Peers : Len(wire[p]) = 0 /\ Len(send_chan[p]) = 0
  OBVIOUS
<1>3. FreshIds
  BY <1>1, OwnIdsDisjoint DEF FreshIds
<1>4. SynsUnseen /\ FramesTrue
  BY <1>2 DEF SynsUnseen, FramesTrue, InHand
<1>5. StreamsLive /\ TasksTrue
  BY <1>2 DEF StreamsLive, TasksTrue
<1>6. NeverReset
  BY DEF NeverReset
<1>7. EstablishedAtBothEnds
  BY OwnIdsDisjoint DEF EstablishedAtBothEnds
<1>. QED BY <1>3, <1>4, <1>5, <1>6, <1>7 DEF IdInv

-----------------------------------------------------------------------------
(* Steps that touch no stream's state.                                     *)

\* Streams in the map stay live when no state changes.
LEMMA LiveKept ==
    ASSUME IdInv, UNCHANGED state,
           \A q \in Peers : streams'[q] \subseteq streams[q],
           \A q \in Peers : sender'[q] = "emplace" => sender[q] = "emplace" /\ cur'[q] = cur[q],
           \A q \in Peers : recv'[q] = "accept" => recv[q] = "accept" /\ hdr'[q] = hdr[q]
    PROVE  StreamsLive'
<1>. USE DEF IdInv, StreamsLive
<1>1. ASSUME NEW q \in Peers
      PROVE  /\ \A id \in streams'[q] : state'[q][id] # "None"
             /\ sender'[q] = "emplace" => state'[q][cur'[q].id] # "None"
             /\ recv'[q] = "accept" => state'[q][hdr'[q].id] # "None"
  OBVIOUS
<1>. QED BY <1>1

\* Nothing but the queue, the wire, the history and the flags of close() moved.
LEMMA QuietStep ==
    ASSUME TypeInv, IdInv, WireKept, TasksKept,
           UNCHANGED <<next_stream_id, state, streams, recv, hdr, local_goaway>>,
           \A q \in Peers : sender'[q] = "emplace" => sender[q] = "emplace" /\ cur'[q] = cur[q]
    PROVE  IdInv'
<1>1. StreamsLive'
  BY LiveKept
<1>2. RecvKept
  BY DEF RecvKept
<1>3. \A q \in Peers : local_goaway'[q] => recv'[q] = "exit"
  BY DEF IdInv, TasksTrue
<1>. QED BY <1>1, <1>2, <1>3, SteadyStep

\* Calls of the application that change no stream state.
LEMMA QuietApplication ==
    ASSUME TypeInv, IdInv, NEW p \in Peers,
           \/ OpenStream(p) \/ OpenTimeout(p) \/ CloseSession(p) \/ Ping(p)
           \/ \E id \in Ids, len \in Lens : SendData(p, id, len)
    PROVE  IdInv'
<1>. USE DEF sessionVars, streamVars, sendVars, recvVars, kaVars, histVars
<1>0. TypeOK
  BY DEF TypeInv
<1>1. CASE OpenStream(p)
  <2>1. opens[p] + 1 \in Nat
    BY <1>0, ConstantsAssumption DEF TypeOK
  <2>2. /\ Task("open", 0, 0, opens[p] + 1) \in Tasks
        /\ Task("open", 0, 0, opens[p] + 1).kind = "open"
    BY <2>1 DEF Task, Tasks, Kinds
  <2>3. TasksKept
    BY <1>1, <2>2, TasksPushed DEF OpenStream
  <2>. QED BY <1>1, <2>3, WireSame, QuietStep DEF OpenStream
<1>2. CASE OpenTimeout(p)
  <2>1. PICK k \in 1..Len(send_chan[p]) :
           /\ send_chan[p][k].kind = "open"
           /\ send_chan' = [send_chan EXCEPT ![p][k].kind = "expired"]
    BY <1>2 DEF OpenTimeout
  <2>2. ASSUME NEW q \in Peers, NEW i \in 1..Len(send_chan'[q])
        PROVE  /\ i + 0 \in 1..Len(send_chan[q])
               /\ \/ send_chan'[q][i] = send_chan[q][i + 0]
                  \/ send_chan'[q][i].kind = "expired"
    <3>1. send_chan \in [Peers -> Seq(Tasks)] /\ send_chan[q] \in Seq(Tasks)
      BY DEF TypeInv, QueueOK
    <3>2. CASE q = p
      <4>1. send_chan'[p] = [send_chan[p] EXCEPT ![k].kind = "expired"]
        BY <2>1, <3>1
      <4>2. Len(send_chan'[p]) = Len(send_chan[p]) /\ Len(send_chan[p]) \in Nat
        BY <3>1, <3>2, <4>1
      <4>3. i \in 1..Len(send_chan[p])
        BY <4>2, <3>2
      <4>4. send_chan[p][k] \in Tasks
        BY <3>1, <3>2, ElementOfSeq
      <4>5. send_chan'[p][i] = IF i = k THEN [send_chan[p][k] EXCEPT !.kind = "expired"]
                                        ELSE send_chan[p][i]
        BY <3>1, <3>2, <4>1, <4>3
      <4>. QED BY <3>2, <4>2, <4>3, <4>4, <4>5 DEF Tasks
    <3>3. CASE q # p
      <4>1. send_chan'[q] = send_chan[q]
        BY <2>1, <3>1, <3>3
      <4>. QED BY <4>1, <3>1, LenProperties
    <3>. QED BY <3>2, <3>3
  <2>3. TasksKept
    BY <2>2 DEF TasksKept
  <2>. QED BY <1>2, <2>3, WireSame, QuietStep DEF OpenTimeout
<1>3. CASE CloseSession(p)
  BY <1>3, WireSame, TasksSame, QuietStep DEF CloseSession
<1>4. CASE Ping(p)
  <2>1. ping_id[p] \in Nat
    BY <1>0, ConstantsAssumption DEF TypeOK
  <2>2. Task("ping", 0, ping_id[p], 0) \in Tasks /\ Task("ping", 0, ping_id[p], 0).kind = "ping"
    BY <2>1 DEF Task, Tasks, Kinds, ControlKinds
  <2>3. TasksKept
    BY <1>4, <2>2, TasksPushed DEF Ping
  <2>. QED BY <1>4, <2>3, WireSame, QuietStep DEF Ping
<1>5. ASSUME NEW id \in Ids, NEW len \in Lens, SendData(p, id, len) PROVE IdInv'
  <2>1. id \in Nat /\ len \in Nat
    BY IdsAreNat, ConstantsAssumption
  <2>2. Task("data", id, len, 0) \in Tasks /\ Task("data", id, len, 0).kind = "data"
    BY <2>1 DEF Task, Tasks, Kinds
  <2>3. TasksKept
    BY <1>5, <2>2, TasksPushed DEF SendData
  <2>. QED BY <1>5, <2>3, WireSame, QuietStep DEF SendData
<1>. QED BY <1>1, <1>2, <1>3, <1>4, <1>5

\* Steps of the send fiber that tell the peer nothing about a stream's life.
LEMMA QuietSender ==
    ASSUME TypeInv, IdInv, NEW p \in Peers,
           \/ SenderStop(p) \/ RunOpenRefused(p) \/ RunDataDropped(p) \/ RunData(p)
           \/ SendBody(p) \/ SendBodyFails(p)
    PROVE  IdInv'
<1>. USE DEF sessionVars, streamVars, sendVars, recvVars, kaVars, histVars
<1>0. sender \in [Peers -> {"pop", "emplace", "body", "stuck", "exit"}]
  BY DEF TypeInv, TypeOK
<1>1. CASE SenderStop(p)
  <2>1. TasksKept
    BY <1>1, TasksPopped DEF SenderStop, NextTask
  <2>. QED BY <1>0, <1>1, <2>1, WireSame, QuietStep DEF SenderStop
<1>2. CASE RunOpenRefused(p)
  <2>1. TasksKept
    BY <1>2, TasksPopped DEF RunOpenRefused, NextTask
  <2>. QED BY <1>0, <1>2, <2>1, WireSame, QuietStep DEF RunOpenRefused, SenderExits
<1>3. CASE RunDataDropped(p)
  <2>1. TasksKept
    BY <1>3, TasksPopped DEF RunDataDropped, NextTask
  <2>. QED BY <1>3, <2>1, WireSame, QuietStep DEF RunDataDropped
<1>4. CASE RunData(p)
  <2>. DEFINE t == Head(send_chan[p])
              n == sent[p][t.id] + 1
              f == Frame("data", "none", t.id, t.len, n)
  <2>1. t \in Tasks /\ t.id \in Ids /\ t.id \in Nat /\ t.len \in Nat
    BY <1>4, HeadTask, IdsAreNat DEF RunData, NextTask, TaskOK, StreamKinds, Tasks
  <2>2. n \in Nat
    <3>1. sent[p][t.id] \in Nat
      BY <2>1 DEF TypeInv, TypeOK
    <3>. QED BY <3>1
  <2>3. f \in Frames /\ ~Telling(f)
    BY <2>1, <2>2 DEF Frame, Frames, FrameTypes, Flags, Telling, Opening, Acking, Resetting
  <2>4. WireKept
    <3>1. Write(p, f)
      BY <1>4 DEF RunData
    <3>. QED BY <2>3, <3>1, WireWritten
  <2>5. TasksKept
    BY <1>4, TasksPopped DEF RunData, NextTask
  <2>. QED BY <1>0, <1>4, <2>4, <2>5, QuietStep DEF RunData
<1>5. CASE SendBody(p)
  <2>. DEFINE f == Frame("body", "none", cur[p].id, cur[p].len, cur[p].n)
  <2>1. cur[p] \in Tasks
    BY DEF TypeInv, TypeOK
  <2>2. f \in Frames /\ ~Telling(f)
    BY <2>1 DEF Tasks, Frame, Frames, FrameTypes, Flags, Telling, Opening, Acking, Resetting
  <2>3. WireKept
    <3>1. Write(p, f)
      BY <1>5 DEF SendBody
    <3>. QED BY <2>2, <3>1, WireWritten
  <2>. QED BY <1>0, <1>5, <2>3, TasksSame, QuietStep DEF SendBody
<1>6. CASE SendBodyFails(p)
  BY <1>0, <1>6, WireSame, TasksSame, QuietStep DEF SendBodyFails, SenderExits
<1>. QED BY <1>1, <1>2, <1>3, <1>4, <1>5, <1>6

\* The keep-alive fiber and close(), but for the marking of streams.
LEMMA QuietClosing ==
    ASSUME TypeInv, IdInv, NEW p \in Peers,
           \/ KeepAliveFiber(p) \/ CloserLock(p) \/ CloserFinish(p) \/ CloserDone(p)
           \/ \E id \in Ids : EraseStream(p, id)
    PROVE  IdInv'
<1>. USE DEF sessionVars, streamVars, sendVars, recvVars, kaVars, histVars
<1>1. CASE PingTimeout(p)
  BY <1>1, WireSame, TasksSame, QuietStep DEF PingTimeout
<1>2. CASE KeepAliveStop(p)
  BY <1>2, WireSame, TasksSame, QuietStep DEF KeepAliveStop
<1>3. CASE CloserLock(p)
  BY <1>3, WireSame, TasksSame, QuietStep DEF CloserLock
<1>4. CASE CloserFinish(p)
  <2>1. NullTask \in Tasks /\ NullTask.kind = "null"
    BY DEF NullTask, Task, Tasks, Kinds
  <2>2. TasksKept
    BY <1>4, <2>1, TasksPushed DEF CloserFinish
  <2>. QED BY <1>4, <2>2, WireSame, QuietStep DEF CloserFinish
<1>5. CASE CloserDone(p)
  BY <1>5, WireSame, TasksSame, QuietStep DEF CloserDone
<1>6. ASSUME NEW id \in Ids, EraseStream(p, id) PROVE IdInv'
  <2>1. \A q \in Peers : streams'[q] \subseteq streams[q]
    <3>1. streams \in [Peers -> SUBSET Ids]
      BY DEF TypeInv, TypeOK
    <3>. QED BY <3>1, <1>6 DEF EraseStream
  <2>2. StreamsLive'
    BY <1>6, <2>1, LiveKept DEF EraseStream
  <2>3. RecvKept
    BY <1>6 DEF EraseStream, RecvKept
  <2>4. \A q \in Peers : local_goaway'[q] => recv'[q] = "exit"
    BY <1>6 DEF IdInv, TasksTrue, EraseStream
  <2>. QED BY <1>6, <2>2, <2>3, <2>4, WireSame, TasksSame, SteadyStep DEF EraseStream
<1>. QED BY <1>1, <1>2, <1>3, <1>4, <1>5, <1>6 DEF KeepAliveFiber

\* The recv fiber of p moved on from a frame it had read.
LEMMA RecvMoved ==
    ASSUME TypeInv, IdInv, NEW p \in Peers,
           NEW x \in {"head", "locked", "body", "exit", "abort"},
           recv[p] # "exit", recv' = [recv EXCEPT ![p] = x],
           x = "locked" => recv[p] = "handle",
           UNCHANGED <<hdr, local_goaway>>
    PROVE  /\ RecvKept /\ recv'[p] = x
           /\ \A q \in Peers : local_goaway'[q] => recv'[q] = "exit"
           /\ \A q \in Peers : recv'[q] = "accept" => recv[q] = "accept" /\ hdr'[q] = hdr[q]
<1>1. recv \in [Peers -> {"head", "handle", "accept", "locked", "body", "exit", "abort"}]
  BY DEF TypeInv, TypeOK
<1>2. recv'[p] = x /\ \A q \in Peers \ {p} : recv'[q] = recv[q]
  BY <1>1
<1>3. RecvKept
  BY <1>2 DEF RecvKept
<1>4. \A q \in Peers : local_goaway[q] => recv[q] = "exit"
  BY DEF IdInv, TasksTrue
<1>. QED BY <1>2, <1>3, <1>4

\* Steps of the recv fiber that leave the states of known streams alone.
LEMMA SteadyReceiver ==
    ASSUME TypeInv, IdInv, NEW p \in Peers,
           \/ RecvRefused(p) \/ RecvAccept(p) \/ RecvLock(p) \/ RecvUnmapped(p)
           \/ RecvProtocolError(p) \/ RecvBody(p) \/ RecvDesync(p) \/ RecvEof(p)
           \/ RecvBodyEof(p) \/ RecvBodyReset(p)
    PROVE  IdInv'
<1>. USE DEF sessionVars, streamVars, sendVars, recvVars, kaVars, histVars
<1>. DEFINE goaway == Task("goaway", 0, 1, 0)
<1>0. goaway \in Tasks /\ goaway.kind = "goaway"
  BY DEF Task, Tasks, Kinds, ControlKinds
<1>00. ASSUME NEW f PROVE AfterHeader(f) \in {"head", "body"}
  BY DEF AfterHeader
<1>1. ASSUME RecvRefused(p) PROVE IdInv'
  <2>1. recv[p] = "handle" /\ ~local_goaway[p]
    BY <1>1 DEF RecvRefused, HandlesSyn, IdInv, TasksTrue
  <2>2. /\ recv' = [recv EXCEPT ![p] = "exit"]
        /\ UNCHANGED <<hdr, local_goaway, state, next_stream_id, streams, sender, cur, wire>>
    BY <1>1, <2>1 DEF RecvRefused, RecvExits
  <2>3. /\ RecvKept /\ recv'[p] = "exit"
        /\ \A q \in Peers : local_goaway'[q] => recv'[q] = "exit"
        /\ \A q \in Peers : recv'[q] = "accept" => recv[q] = "accept" /\ hdr'[q] = hdr[q]
    BY <2>1, <2>2, RecvMoved
  <2>4. TasksKept
    <3>1. CASE FoundSameId(p)
      <4>1. Push(p, goaway)
        BY <1>1, <2>1, <3>1 DEF RecvRefused, Push
      <4>. QED BY <1>0, <2>3, <4>1, TasksPushed
    <3>2. CASE ~FoundSameId(p)
      <4>1. send_chan' = [send_chan EXCEPT ![p] = send_chan[p]]
        BY <1>1, <2>1, <3>2 DEF RecvRefused
      <4>2. send_chan \in [Peers -> Seq(Tasks)]
        BY DEF TypeInv, QueueOK
      <4>. QED BY <4>1, <4>2, TasksSame
    <3>. QED BY <3>1, <3>2
  <2>5. StreamsLive'
    BY <2>2, <2>3, LiveKept
  <2>. QED BY <2>2, <2>3, <2>4, <2>5, WireSame, SteadyStep
<1>2. ASSUME RecvAccept(p) PROVE IdInv'
  <2>1. /\ recv[p] = "accept" /\ recv' = [recv EXCEPT ![p] = "head"]
        /\ streams' = [streams EXCEPT ![p] = @ \cup {hdr[p].id}]
        /\ UNCHANGED <<hdr, local_goaway, state, next_stream_id, sender, cur, wire, send_chan>>
    BY <1>2 DEF RecvAccept
  <2>2. /\ RecvKept
        /\ \A q \in Peers : local_goaway'[q] => recv'[q] = "exit"
        /\ \A q \in Peers : recv'[q] = "accept" => recv[q] = "accept" /\ hdr'[q] = hdr[q]
    BY <2>1, RecvMoved
  <2>3. StreamsLive
    BY DEF IdInv
  <2>4. streams \in [Peers -> SUBSET Ids]
    BY DEF TypeInv, TypeOK
  <2>5. ASSUME NEW q \in Peers, NEW id \in streams'[q] PROVE state'[q][id] # "None"
    <3>1. CASE q = p
      <4>1. streams'[p] = streams[p] \cup {hdr[p].id}
        BY <2>1, <2>4
      <4>. QED BY <2>1, <2>3, <2>5, <3>1, <4>1 DEF StreamsLive
    <3>2. CASE q # p
      <4>1. streams'[q] = streams[q]
        BY <2>1, <2>4, <3>2
      <4>. QED BY <2>1, <2>3, <2>5, <4>1 DEF StreamsLive
    <3>. QED BY <3>1, <3>2
  <2>6. StreamsLive'
    BY <2>1, <2>2, <2>3, <2>5 DEF StreamsLive
  <2>. QED BY <2>1, <2>2, <2>6, WireSame, TasksSame, SteadyStep
<1>3. ASSUME NEW x \in {"head", "locked", "body", "exit", "abort"},
             recv[p] # "exit", recv' = [recv EXCEPT ![p] = x],
             x = "locked" => recv[p] = "handle", WireKept,
             UNCHANGED <<hdr, local_goaway, state, next_stream_id, streams, sender, cur>>,
             UNCHANGED send_chan \/ (x = "exit" /\ Push(p, goaway))
      PROVE  IdInv'
  <2>1. /\ RecvKept /\ recv'[p] = x
        /\ \A q \in Peers : local_goaway'[q] => recv'[q] = "exit"
        /\ \A q \in Peers : recv'[q] = "accept" => recv[q] = "accept" /\ hdr'[q] = hdr[q]
    BY <1>3, RecvMoved
  <2>2. StreamsLive'
    BY <1>3, <2>1, LiveKept
  <2>3. TasksKept
    <3>1. CASE UNCHANGED send_chan
      BY <3>1, TasksSame
    <3>2. CASE x = "exit" /\ Push(p, goaway)
      BY <1>0, <2>1, <3>2, TasksPushed
    <3>. QED BY <1>3, <3>1, <3>2
  <2>. QED BY <1>3, <2>1, <2>2, <2>3, SteadyStep
<1>. HIDE DEF goaway
<1>4. ASSUME RecvLock(p) PROVE IdInv'
  BY <1>4, <1>3, WireSame DEF RecvLock
<1>5. ASSUME RecvUnmapped(p) PROVE IdInv'
  <2>. DEFINE x == AfterHeader(hdr[p])
  <2>1. x \in {"head", "body"} /\ recv' = [recv EXCEPT ![p] = x]
    BY <1>5, <1>00 DEF RecvUnmapped
  <2>. HIDE DEF x
  <2>. QED BY <1>5, <1>3, <2>1, WireSame DEF RecvUnmapped
<1>6. ASSUME RecvProtocolError(p) PROVE IdInv'
  BY <1>6, <1>3, WireSame DEF RecvProtocolError, RecvExits, StateLocked, goaway
<1>7. ASSUME RecvBody(p) PROVE IdInv'
  <2>1. WireKept
    BY <1>7, WireRead DEF RecvBody
  <2>. QED BY <1>7, <1>3, <2>1 DEF RecvBody
<1>8. ASSUME RecvDesync(p) PROVE IdInv'
  BY <1>8, <1>3, WireSame DEF RecvDesync, RecvExits
<1>9. ASSUME RecvEof(p) PROVE IdInv'
  BY <1>9, <1>3, WireSame DEF RecvEof, RecvExits
<1>10. ASSUME RecvBodyEof(p) PROVE IdInv'
  <2>1. CASE Mapped(p)
    BY <1>10, <1>3, <2>1, WireSame DEF RecvBodyEof, RecvExits, goaway
  <2>2. CASE ~Mapped(p)
    BY <1>10, <1>3, <2>2, WireSame DEF RecvBodyEof
  <2>. QED BY <2>1, <2>2
<1>11. ASSUME RecvBodyReset(p) PROVE IdInv'
  BY <1>11, <1>3, WireSame DEF RecvBodyReset
<1>. QED BY <1>1, <1>2, <1>4, <1>5, <1>6, <1>7, <1>8, <1>9, <1>10, <1>11

\* The open task puts its stream in the map.
LEMMA EmplaceStep ==
    ASSUME TypeInv, IdInv, NEW p \in Peers, OpenEmplace(p)
    PROVE  IdInv'
<1>. USE DEF sessionVars, streamVars, sendVars, recvVars, kaVars, histVars
<1>1. /\ sender[p] = "emplace" /\ sender' = [sender EXCEPT ![p] = "pop"]
      /\ streams' = [streams EXCEPT ![p] = @ \cup {cur[p].id}]
      /\ UNCHANGED <<hdr, recv, local_goaway, state, next_stream_id, cur, wire, send_chan>>
  BY DEF OpenEmplace
<1>2. RecvKept /\ \A q \in Peers : local_goaway'[q] => recv'[q] = "exit"
  BY <1>1 DEF RecvKept, IdInv, TasksTrue
<1>3. StreamsLive
  BY DEF IdInv
<1>4. /\ streams \in [Peers -> SUBSET Ids]
      /\ sender \in [Peers -> {"pop", "emplace", "body", "stuck", "exit"}]
  BY DEF TypeInv, TypeOK
<1>5. ASSUME NEW q \in Peers, NEW id \in streams'[q] PROVE state'[q][id] # "None"
  <2>1. CASE q = p
    <3>1. streams'[p] = streams[p] \cup {cur[p].id}
      BY <1>1, <1>4
    <3>. QED BY <1>1, <1>3, <1>5, <2>1, <3>1 DEF StreamsLive
  <2>2. CASE q # p
    <3>1. streams'[q] = streams[q]
      BY <1>1, <1>4, <2>2
    <3>. QED BY <1>1, <1>3, <1>5, <3>1 DEF StreamsLive
  <2>. QED BY <2>1, <2>2
<1>6. \A q \in Peers : sender'[q] = "emplace" => sender[q] = "emplace"
  BY <1>1, <1>4
<1>7. StreamsLive'
  BY <1>1, <1>3, <1>5, <1>6 DEF StreamsLive
<1>. QED BY <1>1, <1>2, <1>7, WireSame, TasksSame, SteadyStep

-----------------------------------------------------------------------------
(* Steps that move a stream along its life.                                *)

\* A stream that exists changes its state, in a way that is not a reset.
LEMMA StreamMoves ==
    ASSUME TypeInv, IdInv, NEW p \in Peers, NEW id \in Ids,
           NEW s \in StreamStates \ {"None", "Reset"},
           state[p][id] # "None", state' = [state EXCEPT ![p][id] = s],
           s = "Established" /\ id \in OwnIds(p) => state[Other(p)][id] # "None",
           WireKept, RecvKept, UNCHANGED <<next_stream_id, streams>>,
           \A q \in Peers : sender'[q] = "emplace" => sender[q] = "emplace" /\ cur'[q] = cur[q],
           \A q \in Peers : recv'[q] = "accept" => recv[q] = "accept" /\ hdr'[q] = hdr[q]
    PROVE  /\ FreshIds' /\ SynsUnseen' /\ FramesTrue' /\ StreamsLive' /\ NeverReset'
           /\ EstablishedAtBothEnds'
           /\ state[p][id] # "LocalClose" => ClosesKept
<1>1. state \in [Peers -> [Ids -> StreamStates]]
  BY DEF TypeInv, TypeOK
<1>2. \A q \in Peers, i \in Ids : state'[q][i] = IF q = p /\ i = id THEN s ELSE state[q][i]
  BY <1>1
<1>3. StatesKept
  BY <1>2 DEF StatesKept
<1>4. FreshIds' /\ SynsUnseen' /\ FramesTrue'
  BY <1>3, TellingKept
<1>5. StreamsLive'
  <2>1. \A q \in Peers : streams[q] \subseteq Ids
    BY DEF TypeInv, TypeOK
  <2>2. \A q \in Peers : sender[q] = "emplace" => cur[q].id \in Ids
    BY DEF TypeInv, IdsOK
  <2>3. \A q \in Peers : recv[q] = "accept" => hdr[q].id \in Ids
    BY DEF TypeInv, IdsOK, InHandler
  <2>4. ASSUME NEW q \in Peers
        PROVE  /\ \A i \in streams'[q] : state'[q][i] # "None"
               /\ sender'[q] = "emplace" => state'[q][cur'[q].id] # "None"
               /\ recv'[q] = "accept" => state'[q][hdr'[q].id] # "None"
    BY <1>3, <2>1, <2>2, <2>3 DEF IdInv, StreamsLive, StatesKept
  <2>. QED BY <2>4 DEF StreamsLive
<1>6. NeverReset'
  BY <1>2 DEF IdInv, NeverReset
<1>7. EstablishedAtBothEnds'
  <2>1. ASSUME NEW q \in Peers, NEW i \in OwnIds(q), state'[q][i] = "Established"
        PROVE  state'[Other(q)][i] # "None"
    <3>1. i \in Ids /\ Other(q) \in Peers
      BY OwnIdsDisjoint, OtherPeer
    <3>2. CASE q = p /\ i = id
      BY <1>2, <1>3, <2>1, <3>1, <3>2 DEF StatesKept
    <3>3. CASE ~(q = p /\ i = id)
      BY <1>2, <1>3, <2>1, <3>1, <3>3 DEF StatesKept, IdInv, EstablishedAtBothEnds
    <3>. QED BY <3>2, <3>3
  <2>. QED BY <2>1 DEF EstablishedAtBothEnds
<1>8. state[p][id] # "LocalClose" => ClosesKept
  BY <1>2 DEF ClosesKept
<1>. QED BY <1>4, <1>5, <1>6, <1>7, <1>8

\* close() of a half-closed stream and set_close() by the session.
LEMMA CloseHalfClosedStep ==
    ASSUME TypeInv, IdInv, NEW p \in Peers, NEW id \in Ids,
           CloseHalfClosed(p, id) \/ CloserMark(p, id)
    PROVE  IdInv'
<1>. USE DEF sessionVars, streamVars, sendVars, recvVars, kaVars, histVars
<1>1. /\ id \in streams[p] /\ state[p][id] # "LocalClose"
      /\ state' = [state EXCEPT ![p][id] = "Closed"]
      /\ UNCHANGED <<next_stream_id, streams, sender, cur, recv, hdr, wire, send_chan,
                     local_goaway>>
  BY DEF CloseHalfClosed, CloserMark
<1>2. state[p][id] # "None"
  BY <1>1 DEF IdInv, StreamsLive
<1>3. RecvKept /\ \A q \in Peers : local_goaway'[q] => recv'[q] = "exit"
  BY <1>1 DEF RecvKept, IdInv, TasksTrue
<1>4. "Closed" \in StreamStates \ {"None", "Reset"}
  BY DEF StreamStates
<1>5. /\ FreshIds' /\ SynsUnseen' /\ FramesTrue' /\ StreamsLive' /\ NeverReset'
      /\ EstablishedAtBothEnds' /\ ClosesKept
  BY <1>1, <1>2, <1>3, <1>4, WireSame, StreamMoves
<1>6. TasksTrue'
  BY <1>1, <1>3, <1>5, TasksSame, QueueTrue
<1>. QED BY <1>5, <1>6 DEF IdInv

\* process_flags() moves a stream by the flag it received.
LEMMA RecvFlagsStep ==
    ASSUME TypeInv, IdInv, NEW p \in Peers, RecvFlags(p)
    PROVE  IdInv'
<1>. USE DEF sessionVars, streamVars, sendVars, recvVars, kaVars, histVars
<1>. DEFINE id == hdr[p].id
            s == NextState(state[p][id], hdr[p].flag)
            x == AfterHeader(hdr[p])
<1>0. state \in [Peers -> [Ids -> StreamStates]]
  BY DEF TypeInv, TypeOK
<1>1. /\ recv[p] = "locked" /\ id \in streams[p] /\ id \in Ids
      /\ state[p][id] # "LocalClose" /\ state[p][id] # "None" /\ state[p][id] # "Reset"
      /\ hdr[p].flag # "RST"
      /\ hdr[p].flag = "ACK" => state[Other(p)][id] # "None"
  BY DEF RecvFlags, StateLocked, Mapped, TypeInv, TypeOK, IdInv, StreamsLive, NeverReset,
         FramesTrue
<1>2. /\ state' = [state EXCEPT ![p][id] = s]
      /\ recv' = [recv EXCEPT ![p] = x]
      /\ UNCHANGED <<next_stream_id, streams, sender, cur, hdr, wire, send_chan, local_goaway>>
  BY <1>0, <1>1 DEF RecvFlags
<1>3. s \in StreamStates \ {"None", "Reset"}
  BY <1>0, <1>1 DEF NextState, StreamStates
<1>4. s = "Established" /\ id \in OwnIds(p) => state[Other(p)][id] # "None"
  <2>1. s = "Established" => state[p][id] = "Established" \/ hdr[p].flag = "ACK"
    BY <1>1 DEF NextState
  <2>. QED BY <1>1, <2>1 DEF IdInv, EstablishedAtBothEnds
<1>5. x \in {"head", "locked", "body", "exit", "abort"} /\ x # "locked"
  BY DEF AfterHeader
<1>. HIDE DEF id, s, x
<1>6. /\ RecvKept
      /\ \A q \in Peers : local_goaway'[q] => recv'[q] = "exit"
      /\ \A q \in Peers : recv'[q] = "accept" => recv[q] = "accept" /\ hdr'[q] = hdr[q]
  BY <1>1, <1>2, <1>5, RecvMoved
<1>7. /\ FreshIds' /\ SynsUnseen' /\ FramesTrue' /\ StreamsLive' /\ NeverReset'
      /\ EstablishedAtBothEnds' /\ ClosesKept
  BY <1>1, <1>2, <1>3, <1>4, <1>6, WireSame, StreamMoves
<1>8. TasksTrue'
  BY <1>2, <1>6, <1>7, TasksSame, QueueTrue
<1>. QED BY <1>7, <1>8 DEF IdInv

\* A stream that is not closing gets a FIN task at the end of the queue.
LEMMA FinQueued ==
    ASSUME TypeInv, IdInv, NEW p \in Peers, NEW id \in Ids, NEW d \in {0, 1},
           UNCHANGED <<recv, local_goaway>>, state[p][id] # "LocalClose",
           state' = [state EXCEPT ![p][id] = "LocalClose"],
           \A q \in Peers \ {p} : send_chan'[q] = send_chan[q],
           \A i \in 1..Len(send_chan'[p]) :
               \/ i + d \in 1..Len(send_chan[p]) /\ send_chan'[p][i] = send_chan[p][i + d]
               \/ i = Len(send_chan'[p]) /\ send_chan'[p][i] = Task("fin", id, 0, 0)
    PROVE  TasksTrue'
<1>1. state \in [Peers -> [Ids -> StreamStates]]
  BY DEF TypeInv, TypeOK
<1>2. \A q \in Peers, i \in Ids :
         state'[q][i] = IF q = p /\ i = id THEN "LocalClose" ELSE state[q][i]
  BY <1>1
<1>3. TasksTrue
  BY DEF IdInv
<1>4. Task("fin", id, 0, 0).kind = "fin" /\ Task("fin", id, 0, 0).id = id
  BY DEF Task
<1>5. ASSUME NEW q \in Peers, NEW i \in 1..Len(send_chan[q]), send_chan[q][i].kind = "fin"
      PROVE  /\ send_chan[q][i].id \in Ids
             /\ state[q][send_chan[q][i].id] = "LocalClose"
             /\ state'[q][send_chan[q][i].id] = "LocalClose"
             /\ q = p => send_chan[q][i].id # id
  <2>1. send_chan[q][i].id \in Ids
    BY <1>5 DEF TypeInv, QueueOK, TaskOK, StreamKinds
  <2>. QED BY <1>2, <1>3, <1>5, <2>1 DEF TasksTrue
<1>6. ASSUME NEW q \in Peers, NEW i \in 1..Len(send_chan'[q])
      PROVE  /\ send_chan'[q][i].kind = "fin" => state'[q][send_chan'[q][i].id] = "LocalClose"
             /\ send_chan'[q][i].kind = "goaway" => recv'[q] = "exit"
             /\ send_chan'[q][i].kind # "rst"
  <2>1. CASE q = p
    BY <1>2, <1>3, <1>4, <1>5, <1>6, <2>1 DEF TasksTrue
  <2>2. CASE q # p
    BY <1>3, <1>5, <1>6, <2>2 DEF TasksTrue
  <2>. QED BY <2>1, <2>2
<1>7. ASSUME NEW q \in Peers, NEW i \in 1..Len(send_chan'[q]), NEW j \in 1..Len(send_chan'[q]),
             i # j, send_chan'[q][i].kind = "fin", send_chan'[q][j].kind = "fin"
      PROVE  send_chan'[q][i].id # send_chan'[q][j].id
  <2>1. CASE q = p
    <3>1. CASE /\ i + d \in 1..Len(send_chan[p]) /\ send_chan'[p][i] = send_chan[p][i + d]
               /\ j + d \in 1..Len(send_chan[p]) /\ send_chan'[p][j] = send_chan[p][j + d]
      <4>1. i + d # j + d
        BY <1>7
      <4>. QED BY <1>3, <1>7, <2>1, <3>1, <4>1 DEF TasksTrue
    <3>2. CASE /\ i + d \in 1..Len(send_chan[p]) /\ send_chan'[p][i] = send_chan[p][i + d]
               /\ send_chan'[p][j] = Task("fin", id, 0, 0)
      BY <1>4, <1>5, <1>7, <2>1, <3>2
    <3>3. CASE /\ j + d \in 1..Len(send_chan[p]) /\ send_chan'[p][j] = send_chan[p][j + d]
               /\ send_chan'[p][i] = Task("fin", id, 0, 0)
      BY <1>4, <1>5, <1>7, <2>1, <3>3
    <3>. QED BY <1>7, <2>1, <3>1, <3>2, <3>3
  <2>2. CASE q # p
    <3>1. send_chan'[q] = send_chan[q]
      BY <2>2
    <3>. QED BY <1>3, <1>7, <3>1 DEF TasksTrue
  <2>. QED BY <2>1, <2>2
<1>8. \A q \in Peers : local_goaway'[q] => recv'[q] = "exit"
  BY <1>3 DEF TasksTrue
<1>. QED BY <1>6, <1>7, <1>8 DEF TasksTrue

\* close() of a stream queues its FIN.
LEMMA CloseStreamStep ==
    ASSUME TypeInv, IdInv, NEW p \in Peers, NEW id \in Ids, CloseStream(p, id)
    PROVE  IdInv'
<1>. USE DEF sessionVars, streamVars, sendVars, recvVars, kaVars, histVars
<1>1. /\ state[p][id] \notin {"LocalClose", "None"}
      /\ state' = [state EXCEPT ![p][id] = "LocalClose"]
      /\ Push(p, Task("fin", id, 0, 0))
      /\ UNCHANGED <<next_stream_id, streams, sender, cur, recv, hdr, wire, local_goaway>>
  BY DEF CloseStream, OpenStates
<1>2. RecvKept
  BY <1>1 DEF RecvKept
<1>3. "LocalClose" \in StreamStates \ {"None", "Reset"}
  BY DEF StreamStates
<1>4. /\ FreshIds' /\ SynsUnseen' /\ FramesTrue' /\ StreamsLive' /\ NeverReset'
      /\ EstablishedAtBothEnds'
  BY <1>1, <1>2, <1>3, WireSame, StreamMoves
<1>5. TasksTrue'
  <2>1. send_chan \in [Peers -> Seq(Tasks)] /\ send_chan[p] \in Seq(Tasks)
    BY DEF TypeInv, QueueOK
  <2>2. Task("fin", id, 0, 0) \in Tasks
    BY IdsAreNat DEF Task, Tasks, Kinds, ControlKinds
  <2>3. /\ send_chan'[p] = Append(send_chan[p], Task("fin", id, 0, 0))
        /\ \A q \in Peers \ {p} : send_chan'[q] = send_chan[q]
    BY <1>1, <2>1 DEF Push
  <2>4. ASSUME NEW i \in 1..Len(send_chan'[p])
        PROVE  \/ i + 0 \in 1..Len(send_chan[p]) /\ send_chan'[p][i] = send_chan[p][i + 0]
               \/ i = Len(send_chan'[p]) /\ send_chan'[p][i] = Task("fin", id, 0, 0)
    BY <2>1, <2>2, <2>3, AppendFacts
  <2>. QED BY <1>1, <2>3, <2>4, FinQueued
<1>. QED BY <1>4, <1>5 DEF IdInv

\* A FIN task leaves the queue and its stream's close() is answered.
LEMMA FinPopped ==
    ASSUME TypeInv, IdInv, NEW p \in Peers, send_chan[p] # <<>>, Popped(p),
           Head(send_chan[p]).kind = "fin",
           state' = [state EXCEPT ![p][Head(send_chan[p]).id] = "Closed"],
           UNCHANGED <<recv, local_goaway>>
    PROVE  TasksTrue'
<1>. DEFINE id == Head(send_chan[p]).id
<1>1. /\ send_chan \in [Peers -> Seq(Tasks)] /\ send_chan[p] \in Seq(Tasks)
      /\ state \in [Peers -> [Ids -> StreamStates]]
  BY DEF TypeInv, TypeOK, QueueOK
<1>2. id \in Ids
  BY HeadTask DEF TaskOK, StreamKinds
<1>3. \A q \in Peers, i \in Ids : state'[q][i] = IF q = p /\ i = id THEN "Closed" ELSE state[q][i]
  BY <1>1, <1>2
<1>4. TasksTrue
  BY DEF IdInv
<1>5. /\ send_chan'[p] = Tail(send_chan[p])
      /\ \A q \in Peers \ {p} : send_chan'[q] = send_chan[q]
  BY <1>1 DEF Popped
<1>6. /\ 1 \in 1..Len(send_chan[p]) /\ id = send_chan[p][1].id /\ send_chan[p][1].kind = "fin"
      /\ \A i \in 1..Len(send_chan'[p]) :
            i + 1 \in 1..Len(send_chan[p]) /\ send_chan'[p][i] = send_chan[p][i + 1]
  BY <1>1, <1>5, TailFacts
<1>. HIDE DEF id
<1>7. ASSUME NEW q \in Peers, NEW i \in 1..Len(send_chan[q]), send_chan[q][i].kind = "fin",
             ~(q = p /\ i = 1)
      PROVE  state'[q][send_chan[q][i].id] = "LocalClose"
  <2>1. send_chan[q][i].id \in Ids /\ state[q][send_chan[q][i].id] = "LocalClose"
    BY <1>4, <1>7 DEF TypeInv, QueueOK, TaskOK, StreamKinds, TasksTrue
  <2>2. q = p => send_chan[q][i].id # id
    BY <1>4, <1>6, <1>7 DEF TasksTrue
  <2>. QED BY <1>3, <2>1, <2>2
<1>8. ASSUME NEW i \in 1..Len(send_chan'[p])
      PROVE  /\ send_chan'[p][i].kind = "fin" => state'[p][send_chan'[p][i].id] = "LocalClose"
             /\ send_chan'[p][i].kind = "goaway" => recv'[p] = "exit"
             /\ send_chan'[p][i].kind # "rst"
  <2>1. i + 1 \in 1..Len(send_chan[p]) /\ send_chan'[p][i] = send_chan[p][i + 1] /\ i + 1 # 1
    BY <1>6
  <2>. QED BY <1>4, <1>7, <2>1 DEF TasksTrue
<1>9. ASSUME NEW i \in 1..Len(send_chan'[p]), NEW j \in 1..Len(send_chan'[p]), i # j,
             send_chan'[p][i].kind = "fin", send_chan'[p][j].kind = "fin"
      PROVE  send_chan'[p][i].id # send_chan'[p][j].id
  <2>1. i + 1 # j + 1
    BY <1>9
  <2>2. /\ i + 1 \in 1..Len(send_chan[p]) /\ send_chan'[p][i] = send_chan[p][i + 1]
        /\ j + 1 \in 1..Len(send_chan[p]) /\ send_chan'[p][j] = send_chan[p][j + 1]
    BY <1>6, <1>9
  <2>3. send_chan[p][i + 1].id # send_chan[p][j + 1].id
    BY <1>4, <1>9, <2>1, <2>2 DEF TasksTrue
  <2>. QED BY <2>2, <2>3
<1>10. ASSUME NEW q \in Peers, q # p
       PROVE  /\ \A i \in 1..Len(send_chan'[q]) :
                   /\ send_chan'[q][i].kind = "fin" =>
                         state'[q][send_chan'[q][i].id] = "LocalClose"
                   /\ send_chan'[q][i].kind = "goaway" => recv'[q] = "exit"
                   /\ send_chan'[q][i].kind # "rst"
              /\ \A i, j \in 1..Len(send_chan'[q]) :
                   i # j /\ send_chan'[q][i].kind = "fin" /\ send_chan'[q][j].kind = "fin"
                      => send_chan'[q][i].id # send_chan'[q][j].id
  <2>1. send_chan'[q] = send_chan[q]
    BY <1>5, <1>10
  <2>. QED BY <1>4, <1>7, <1>10, <2>1 DEF TasksTrue
<1>11. \A q \in Peers : local_goaway'[q] => recv'[q] = "exit"
  BY <1>4 DEF TasksTrue
<1>. QED BY <1>8, <1>9, <1>10, <1>11 DEF TasksTrue

\* A control task, whether its frame is written or not.
LEMMA TaskRun ==
    ASSUME TypeInv, IdInv, NEW p \in Peers, send_chan[p] # <<>>, Popped(p),
           TaskEffects(p, Head(send_chan[p])), WireKept,
           UNCHANGED <<next_stream_id, streams, recv, hdr>>,
           \A q \in Peers : sender'[q] = "emplace" => sender[q] = "emplace" /\ cur'[q] = cur[q]
    PROVE  IdInv'
<1>. DEFINE t == Head(send_chan[p])
<1>1. local_goaway \in [Peers -> BOOLEAN]
  BY DEF TypeInv, TypeOK
<1>2. RecvKept
  BY DEF RecvKept
<1>3. t = send_chan[p][1] /\ 1 \in 1..Len(send_chan[p])
  <2>1. send_chan[p] \in Seq(Tasks)
    BY DEF TypeInv, QueueOK
  <2>. QED BY <2>1, TailFacts
<1>4. CASE t.kind = "fin"
  <2>1. t.id \in Ids /\ state[p][t.id] = "LocalClose"
    BY <1>3, <1>4, HeadTask DEF TaskOK, StreamKinds, IdInv, TasksTrue
  <2>2. state' = [state EXCEPT ![p][t.id] = "Closed"] /\ local_goaway' = local_goaway
    BY <1>1, <1>4 DEF TaskEffects
  <2>3. "Closed" \in StreamStates \ {"None", "Reset"}
    BY DEF StreamStates
  <2>4. TasksTrue'
    BY <1>4, <2>2, FinPopped
  <2>. HIDE DEF t
  <2>5. /\ FreshIds' /\ SynsUnseen' /\ FramesTrue' /\ StreamsLive' /\ NeverReset'
        /\ EstablishedAtBothEnds'
    BY <1>2, <2>1, <2>2, <2>3, StreamMoves
  <2>. QED BY <2>4, <2>5 DEF IdInv
<1>5. CASE t.kind # "fin"
  <2>1. UNCHANGED state
    BY <1>5 DEF TaskEffects
  <2>2. t.kind = "goaway" => recv[p] = "exit"
    BY <1>3 DEF IdInv, TasksTrue
  <2>3. local_goaway' = [local_goaway EXCEPT ![p] = @ \/ t.kind = "goaway"]
    BY DEF TaskEffects
  <2>. HIDE DEF t
  <2>4. \A q \in Peers : local_goaway'[q] => recv'[q] = "exit"
    BY <1>1, <2>2, <2>3 DEF IdInv, TasksTrue
  <2>5. StreamsLive'
    BY <2>1, LiveKept
  <2>. QED BY <1>2, <2>1, <2>4, <2>5, TasksPopped, SteadyStep
<1>. QED BY <1>4, <1>5

\* The send fiber writes FIN, RST, ping, pong or GoAway.
LEMMA ControlStep ==
    ASSUME TypeInv, IdInv, NEW p \in Peers, RunControl(p) \/ RunFails(p)
    PROVE  IdInv'
<1>. USE DEF sessionVars, streamVars, sendVars, recvVars, kaVars, histVars
<1>0. sender \in [Peers -> {"pop", "emplace", "body", "stuck", "exit"}]
  BY DEF TypeInv, TypeOK
<1>1. ASSUME RunControl(p) PROVE IdInv'
  <2>. DEFINE t == Head(send_chan[p])
              f == ControlFrame(p, t)
  <2>1. send_chan[p] # <<>> /\ t.kind \in ControlKinds
    BY <1>1 DEF RunControl, NextTask
  <2>2. t \in Tasks /\ t.id \in Nat /\ t.len \in Nat /\ t.n \in Nat /\ hdr[p].len \in Nat
    BY <2>1, HeadTask DEF Tasks, TypeInv, TypeOK, Frames
  <2>3. t.kind # "rst"
    <3>1. send_chan[p] \in Seq(Tasks)
      BY DEF TypeInv, QueueOK
    <3>2. t = send_chan[p][1] /\ 1 \in 1..Len(send_chan[p])
      BY <2>1, <3>1, TailFacts
    <3>. QED BY <3>2 DEF IdInv, TasksTrue
  <2>4. f \in Frames /\ ~Telling(f)
    BY <2>1, <2>2, <2>3
    DEF ControlFrame, ControlKinds, Frame, Frames, FrameTypes, Flags, Telling, Opening,
        Acking, Resetting, StreamTypes
  <2>5. WireKept
    <3>1. Write(p, f)
      BY <1>1 DEF RunControl
    <3>. HIDE DEF f
    <3>. QED BY <2>4, <3>1, WireWritten
  <2>. QED BY <1>1, <2>1, <2>5, TaskRun DEF RunControl
<1>2. ASSUME RunFails(p) PROVE IdInv'
  <2>1. send_chan[p] # <<>> /\ Popped(p) /\ TaskEffects(p, Head(send_chan[p]))
    BY <1>2 DEF RunFails, NextTask
  <2>2. \A q \in Peers : sender'[q] = "emplace" => sender[q] = "emplace"
    BY <1>0, <1>2 DEF RunFails, SenderExits
  <2>. QED BY <1>2, <2>1, <2>2, WireSame, TaskRun DEF RunFails
<1>. QED BY <1>1, <1>2

\* An id just taken is unknown at both ends.
LEMMA NewIdFresh ==
    ASSUME TypeInv, IdInv, NEW p \in Peers, send_chan[p] # <<>>,
           Head(send_chan[p]).kind \in OpenKinds
    PROVE  /\ NewId(p) \in OwnIds(p) /\ NewId(p) \in Ids /\ NewId(p) \notin OwnIds(Other(p))
           /\ next_stream_id[p] \in Nat /\ next_stream_id[p] < NewId(p)
           /\ state[p][NewId(p)] = "None" /\ state[Other(p)][NewId(p)] = "None"
<1>1. NewId(p) \in OwnIds(p) /\ NewId(p) \in Ids /\ NewId(p) \notin OwnIds(Other(p))
  BY NewIdInIds, OwnIdsDisjoint
<1>2. next_stream_id[p] \in Nat
  BY DEF TypeInv, TypeOK
<1>3. next_stream_id[p] < NewId(p)
  BY <1>2 DEF NewId, IdStep
<1>. QED BY <1>1, <1>2, <1>3 DEF IdInv, FreshIds

\* A stream comes into being at its opener; at most its SYN is new on the wire.
LEMMA StreamOpens ==
    ASSUME TypeInv, IdInv, NEW p \in Peers, send_chan[p] # <<>>,
           Head(send_chan[p]).kind \in OpenKinds,
           NEW s \in {"SYNSent", "LocalClose"},
           state' = [state EXCEPT ![p][NewId(p)] = s],
           next_stream_id' = [next_stream_id EXCEPT ![p] = NewId(p)],
           UNCHANGED <<recv, hdr, streams>>,
           \/ UNCHANGED wire
           \/ Write(p, Frame("wupdate", "SYN", NewId(p), 0, 0)),
           \A q \in Peers : sender'[q] = "emplace" =>
               \/ sender[q] = "emplace" /\ cur'[q] = cur[q]
               \/ q = p /\ cur'[q].id = NewId(p)
    PROVE  /\ FreshIds' /\ SynsUnseen' /\ FramesTrue' /\ StreamsLive' /\ NeverReset'
           /\ EstablishedAtBothEnds'
           /\ ClosesKept
<1>. DEFINE new == NewId(p)
            syn == Frame("wupdate", "SYN", new, 0, 0)
            Later(q, id) == /\ id \in OwnIds(q) /\ id <= next_stream_id'[q]
                            /\ state'[Other(q)][id] = "None"
<1>1. /\ new \in OwnIds(p) /\ new \in Ids /\ new \notin OwnIds(Other(p)) /\ new \in Nat
      /\ next_stream_id[p] \in Nat /\ next_stream_id[p] < new
      /\ state[p][new] = "None" /\ state[Other(p)][new] = "None"
  BY NewIdFresh, IdsAreNat
<1>2. /\ state \in [Peers -> [Ids -> StreamStates]]
      /\ next_stream_id \in [Peers -> Nat]
      /\ wire \in [Peers -> Seq(Frames)] /\ \A q \in Peers : wire[q] \in Seq(Frames)
  BY DEF TypeInv, TypeOK, WireOK
<1>3. syn \in Frames /\ syn.id = new /\ Opening(syn) /\ ~Acking(syn) /\ ~Resetting(syn)
  BY <1>1 DEF Frame, Frames, FrameTypes, Flags, Opening, Acking, Resetting, StreamTypes
<1>4. ASSUME NEW q \in Peers, NEW i \in 1..Len(wire'[q])
      PROVE  \/ i \in 1..Len(wire[q]) /\ wire'[q][i] = wire[q][i]
             \/ q = p /\ i = Len(wire[q]) + 1 /\ wire'[q][i] = syn
  <2>1. CASE UNCHANGED wire
    BY <2>1
  <2>2. CASE Write(p, syn)
    <3>1. CASE q = p
      <4>1. wire'[q] = Append(wire[q], syn)
        BY <1>2, <2>2, <3>1 DEF Write
      <4>. HIDE DEF syn
      <4>. QED BY <1>2, <1>3, <3>1, <4>1, AppendFacts
    <3>2. CASE q # p
      <4>1. wire'[q] = wire[q]
        BY <1>2, <2>2, <3>2 DEF Write
      <4>. QED BY <4>1
    <3>. QED BY <3>1, <3>2
  <2>. QED BY <2>1, <2>2
<1>5. \A q \in Peers, i \in Ids : state'[q][i] = IF q = p /\ i = new THEN s ELSE state[q][i]
  BY <1>1, <1>2
<1>6. /\ next_stream_id'[p] = new
      /\ \A q \in Peers \ {p} : next_stream_id'[q] = next_stream_id[q]
  BY <1>2
<1>. HIDE DEF new, syn, Later
<1>7. \A q \in Peers, i \in Ids : state[q][i] # "None" => state'[q][i] # "None"
  BY <1>5
<1>8. FreshIds'
  <2>1. ASSUME NEW q \in Peers, NEW i \in OwnIds(q), next_stream_id'[q] < i
        PROVE  state'[q][i] = "None" /\ state'[Other(q)][i] = "None"
    <3>1. i \in Ids /\ i \in Nat /\ i \notin OwnIds(Other(q)) /\ Other(q) \in Peers
      BY OwnIdsDisjoint, OtherPeer, IdsAreNat
    <3>2. CASE q = p
      <4>1. next_stream_id[p] < i /\ i # new
        BY <1>1, <1>6, <2>1, <3>1, <3>2
      <4>. QED BY <1>5, <3>1, <3>2, <4>1 DEF IdInv, FreshIds
    <3>3. CASE q # p
      <4>1. Other(q) = p /\ next_stream_id[q] < i
        BY <1>6, <2>1, <3>3, OtherPeer
      <4>2. i # new
        BY <1>1, <3>1, <4>1
      <4>. QED BY <1>5, <3>1, <3>3, <4>1, <4>2 DEF IdInv, FreshIds
    <3>. QED BY <3>2, <3>3
  <2>. QED BY <2>1 DEF FreshIds
<1>9. ASSUME NEW q \in Peers, NEW id, Unseen(q, id)
      PROVE  Later(q, id) /\ (q = p => id # new)
  <2>1. id \in Ids /\ id \in Nat /\ id \notin OwnIds(Other(q)) /\ Other(q) \in Peers
    BY <1>9, OwnIdsDisjoint, OtherPeer, IdsAreNat DEF Unseen
  <2>2. CASE q = p
    BY <1>1, <1>5, <1>6, <1>9, <2>1, <2>2, OtherPeer DEF Unseen, Later
  <2>3. CASE q # p
    <3>1. Other(q) = p
      BY <2>3, OtherPeer
    <3>. QED BY <1>1, <1>5, <1>6, <1>9, <2>1, <2>3, <3>1 DEF Unseen, Later
  <2>. QED BY <2>2, <2>3
<1>10. Later(p, new)
  BY <1>1, <1>5, <1>6, OtherPeer DEF Later
<1>11. ASSUME NEW q \in Peers
       PROVE  InHand(q)' => InHand(q) /\ Later(Other(q), hdr[q].id) /\ hdr'[q] = hdr[q]
                            /\ (Other(q) = p => hdr[q].id # new)
  BY <1>9, OtherPeer DEF InHand, IdInv, SynsUnseen
<1>12. ASSUME NEW q \in Peers, NEW i \in 1..Len(wire'[q]), Opening(wire'[q][i])
       PROVE  /\ Later(q, wire'[q][i].id)
              /\ InHand(Other(q))' => hdr'[Other(q)].id # wire'[q][i].id
  <2>1. CASE i \in 1..Len(wire[q]) /\ wire'[q][i] = wire[q][i]
    <3>1. /\ Unseen(q, wire[q][i].id)
          /\ InHand(Other(q)) => hdr[Other(q)].id # wire[q][i].id
      BY <1>12, <2>1 DEF IdInv, SynsUnseen
    <3>. QED BY <1>9, <1>11, <2>1, <3>1, OtherPeer
  <2>2. CASE q = p /\ wire'[q][i] = syn
    BY <1>3, <1>10, <1>11, <2>2, OtherPeer
  <2>. QED BY <1>4, <2>1, <2>2
<1>13. ASSUME NEW q \in Peers, NEW i \in 1..Len(wire'[q]), NEW j \in 1..Len(wire'[q]), i # j,
              Opening(wire'[q][i]), Opening(wire'[q][j])
       PROVE  wire'[q][i].id # wire'[q][j].id
  <2>1. ASSUME NEW k \in 1..Len(wire'[q]), Opening(wire'[q][k]), wire'[q][k].id = new, q = p
        PROVE  k = Len(wire[q]) + 1
    <3>1. CASE k \in 1..Len(wire[q]) /\ wire'[q][k] = wire[q][k]
      <4>1. Unseen(p, wire[q][k].id)
        BY <2>1, <3>1 DEF IdInv, SynsUnseen
      <4>. QED BY <1>9, <2>1, <3>1, <4>1
    <3>. QED BY <1>4, <2>1, <3>1
  <2>2. CASE /\ i \in 1..Len(wire[q]) /\ wire'[q][i] = wire[q][i]
             /\ j \in 1..Len(wire[q]) /\ wire'[q][j] = wire[q][j]
    BY <1>13, <2>2 DEF IdInv, SynsUnseen
  <2>3. CASE q = p /\ i = Len(wire[q]) + 1 /\ wire'[q][i] = syn
    BY <1>3, <1>13, <2>1, <2>3
  <2>4. CASE q = p /\ j = Len(wire[q]) + 1 /\ wire'[q][j] = syn
    BY <1>3, <1>13, <2>1, <2>4
  <2>. QED BY <1>4, <2>2, <2>3, <2>4
<1>14. SynsUnseen'
  BY <1>11, <1>12, <1>13 DEF SynsUnseen, Opening, Unseen, Later
<1>15. FramesTrue'
  <2>1. ASSUME NEW q \in Peers, NEW i \in 1..Len(wire'[q])
        PROVE  /\ Acking(wire'[q][i]) => state'[q][wire'[q][i].id] # "None"
               /\ ~Resetting(wire'[q][i])
    <3>1. CASE i \in 1..Len(wire[q]) /\ wire'[q][i] = wire[q][i]
      <4>1. Acking(wire[q][i]) => wire[q][i].id \in Ids
        BY <3>1, FrameAt DEF Telling
      <4>. QED BY <1>7, <3>1, <4>1 DEF IdInv, FramesTrue
    <3>2. CASE wire'[q][i] = syn
      BY <1>3, <3>2
    <3>. QED BY <1>4, <3>1, <3>2
  <2>2. ASSUME NEW q \in Peers, recv[q] \in {"handle", "locked"}
        PROVE  /\ hdr[q].flag # "RST"
               /\ hdr[q].flag = "ACK" => state'[Other(q)][hdr[q].id] # "None"
    <3>1. hdr[q].id \in Ids
      BY <2>2 DEF TypeInv, IdsOK, InHandler
    <3>. QED BY <1>7, <2>2, <3>1, OtherPeer DEF IdInv, FramesTrue
  <2>. QED BY <2>1, <2>2 DEF FramesTrue, Acking, Resetting
<1>16. StreamsLive'
  <2>1. \A q \in Peers : streams[q] \subseteq Ids
    BY DEF TypeInv, TypeOK
  <2>2. \A q \in Peers : sender[q] = "emplace" => cur[q].id \in Ids
    BY DEF TypeInv, IdsOK
  <2>3. \A q \in Peers : recv[q] = "accept" => hdr[q].id \in Ids
    BY DEF TypeInv, IdsOK, InHandler
  <2>4. state'[p][new] # "None"
    BY <1>1, <1>5
  <2>5. ASSUME NEW q \in Peers
        PROVE  /\ \A i \in streams'[q] : state'[q][i] # "None"
               /\ recv'[q] = "accept" => state'[q][hdr'[q].id] # "None"
    BY <1>7, <2>1, <2>3 DEF IdInv, StreamsLive
  <2>6. ASSUME NEW q \in Peers, sender'[q] = "emplace"
        PROVE  state'[q][cur'[q].id] # "None"
    BY <1>7, <2>2, <2>4, <2>6 DEF IdInv, StreamsLive, new
  <2>. QED BY <2>5, <2>6 DEF StreamsLive
<1>17. NeverReset'
  BY <1>5 DEF IdInv, NeverReset
<1>18. EstablishedAtBothEnds'
  <2>1. ASSUME NEW q \in Peers, NEW i \in OwnIds(q), state'[q][i] = "Established"
        PROVE  state'[Other(q)][i] # "None"
    <3>1. i \in Ids /\ Other(q) \in Peers
      BY OwnIdsDisjoint, OtherPeer
    <3>2. state[q][i] = "Established"
      BY <1>5, <2>1, <3>1
    <3>. QED BY <1>7, <3>1, <3>2 DEF IdInv, EstablishedAtBothEnds
  <2>. QED BY <2>1 DEF EstablishedAtBothEnds
<1>19. ClosesKept
  BY <1>1, <1>5 DEF ClosesKept
<1>. QED BY <1>8, <1>14, <1>15, <1>16, <1>17, <1>18, <1>19

\* The send fiber writes a SYN with the next id.
LEMMA OpenStep ==
    ASSUME TypeInv, IdInv, NEW p \in Peers, RunOpen(p) \/ RunOpenFails(p)
    PROVE  IdInv'
<1>. USE DEF sessionVars, streamVars, sendVars, recvVars, kaVars, histVars
<1>. DEFINE fin == Task("fin", NewId(p), 0, 0)
<1>0. /\ send_chan[p] # <<>> /\ Head(send_chan[p]).kind \in OpenKinds
      /\ sender \in [Peers -> {"pop", "emplace", "body", "stuck", "exit"}]
      /\ cur \in [Peers -> Tasks]
      /\ send_chan \in [Peers -> Seq(Tasks)] /\ send_chan[p] \in Seq(Tasks)
  BY DEF RunOpen, RunOpenFails, NextTask, OpenKinds, TypeInv, TypeOK, QueueOK
<1>1. /\ NewId(p) \in Ids /\ NewId(p) \in Nat /\ state[p][NewId(p)] = "None"
  BY <1>0, NewIdFresh, IdsAreNat
<1>2. fin \in Tasks /\ Task("open", NewId(p), 0, 0).id = NewId(p)
  BY <1>1 DEF Task, Tasks, Kinds, ControlKinds
<1>3. \A q \in Peers : local_goaway[q] => recv[q] = "exit"
  BY DEF IdInv, TasksTrue
<1>4. ASSUME RunOpen(p) PROVE IdInv'
  <2>1. /\ Popped(p) /\ next_stream_id' = [next_stream_id EXCEPT ![p] = NewId(p)]
        /\ state' = [state EXCEPT ![p][NewId(p)] = "SYNSent"]
        /\ Write(p, Frame("wupdate", "SYN", NewId(p), 0, 0))
        /\ cur' = [cur EXCEPT ![p] = Task("open", NewId(p), 0, 0)]
        /\ sender' = [sender EXCEPT ![p] = "emplace"]
        /\ UNCHANGED <<recv, hdr, streams, local_goaway>>
    BY <1>4 DEF RunOpen, AfterSendFlags
  <2>2. ASSUME NEW q \in Peers, sender'[q] = "emplace"
        PROVE  \/ sender[q] = "emplace" /\ cur'[q] = cur[q]
               \/ q = p /\ cur'[q].id = NewId(p)
    <3>1. CASE q = p
      BY <1>0, <1>2, <2>1, <3>1
    <3>2. CASE q # p
      BY <1>0, <2>1, <2>2, <3>2
    <3>. QED BY <3>1, <3>2
  <2>3. /\ FreshIds' /\ SynsUnseen' /\ FramesTrue' /\ StreamsLive' /\ NeverReset'
        /\ EstablishedAtBothEnds' /\ ClosesKept
    BY <1>0, <2>1, <2>2, StreamOpens
  <2>4. TasksTrue'
    BY <1>0, <1>3, <2>1, <2>3, TasksPopped, QueueStays
  <2>. QED BY <2>3, <2>4 DEF IdInv
<1>5. ASSUME RunOpenFails(p) PROVE IdInv'
  <2>1. /\ next_stream_id' = [next_stream_id EXCEPT ![p] = NewId(p)]
        /\ state' = [state EXCEPT ![p][NewId(p)] = "LocalClose"]
        /\ send_chan' = [send_chan EXCEPT ![p] = Append(Tail(send_chan[p]), fin)]
        /\ sender' = [sender EXCEPT ![p] = "stuck"]
        /\ UNCHANGED <<recv, hdr, streams, local_goaway, wire, cur>>
    BY <1>0, <1>5 DEF RunOpenFails
  <2>2. \A q \in Peers : sender'[q] = "emplace" => sender[q] = "emplace" /\ cur'[q] = cur[q]
    BY <1>0, <2>1
  <2>3. /\ FreshIds' /\ SynsUnseen' /\ FramesTrue' /\ StreamsLive' /\ NeverReset'
        /\ EstablishedAtBothEnds'
    BY <1>0, <2>1, <2>2, StreamOpens
  <2>4. /\ send_chan'[p] = Append(Tail(send_chan[p]), fin)
        /\ \A q \in Peers \ {p} : send_chan'[q] = send_chan[q]
    BY <1>0, <2>1
  <2>5. ASSUME NEW i \in 1..Len(send_chan'[p])
        PROVE  \/ i + 1 \in 1..Len(send_chan[p]) /\ send_chan'[p][i] = send_chan[p][i + 1]
               \/ i = Len(send_chan'[p]) /\ send_chan'[p][i] = fin
    <3>1. /\ Tail(send_chan[p]) \in Seq(Tasks)
          /\ \A j \in 1..Len(Tail(send_chan[p])) :
                j + 1 \in 1..Len(send_chan[p]) /\ Tail(send_chan[p])[j] = send_chan[p][j + 1]
      BY <1>0, TailFacts
    <3>. HIDE DEF fin
    <3>2. \/ i \in 1..Len(Tail(send_chan[p])) /\ send_chan'[p][i] = Tail(send_chan[p])[i]
          \/ i = Len(send_chan'[p]) /\ send_chan'[p][i] = fin
      BY <1>2, <2>4, <3>1, AppendFacts
    <3>. QED BY <3>1, <3>2
  <2>6. TasksTrue'
    BY <1>1, <2>1, <2>4, <2>5, FinQueued
  <2>. QED BY <2>3, <2>6 DEF IdInv
<1>. QED BY <1>4, <1>5

\* The recv fiber takes a frame off the wire; a SYN goes from there to its hands.
LEMMA RecvHeaderStep ==
    ASSUME TypeInv, IdInv, NEW p \in Peers, RecvHeader(p)
    PROVE  IdInv'
<1>. USE DEF sessionVars, streamVars, sendVars, recvVars, kaVars, histVars
<1>. DEFINE o == Other(p)
            f == Incoming(p)
            pong == Task("pong", 0, 0, f.len)
            x == IF shut_down[p] \/ GoAwayError(f) THEN "exit"
                 ELSE IF f.type \in {"ping", "goaway"} THEN "head" ELSE "handle"
<1>1. o \in Peers /\ o # p /\ Other(o) = p /\ \A q \in Peers : q = p \/ q = o
  BY OtherPeer
<1>2. /\ recv \in [Peers -> {"head", "handle", "accept", "locked", "body", "exit", "abort"}]
      /\ hdr \in [Peers -> Frames] /\ send_chan \in [Peers -> Seq(Tasks)]
      /\ wire \in [Peers -> Seq(Frames)] /\ wire[o] \in Seq(Frames)
  BY <1>1 DEF TypeInv, TypeOK, QueueOK, WireOK
<1>3. /\ recv[p] = "head" /\ wire[o] # <<>> /\ Consume(p)
      /\ hdr' = [hdr EXCEPT ![p] = f] /\ recv' = [recv EXCEPT ![p] = x]
      /\ UNCHANGED <<local_goaway, next_stream_id, streams, state, sender, cur>>
  BY DEF RecvHeader
<1>4. f \in Frames /\ f.len \in Nat /\ f = wire[o][1] /\ 1 \in 1..Len(wire[o])
  <2>1. f \in Frames /\ f = wire[o][1] /\ 1 \in 1..Len(wire[o])
    BY <1>2, <1>3, TailFacts DEF Incoming
  <2>. QED BY <2>1 DEF Frames
<1>5. pong \in Tasks /\ pong.kind = "pong"
  BY <1>4 DEF Task, Tasks, Kinds, ControlKinds
<1>6. TasksKept
  <2>1. CASE ~shut_down[p] /\ Ponged(p, f)
    <3>1. Push(p, pong)
      BY <2>1 DEF RecvHeader, Push
    <3>. HIDE DEF pong
    <3>. QED BY <1>5, <3>1, TasksPushed
  <2>2. CASE ~(~shut_down[p] /\ Ponged(p, f))
    <3>1. send_chan' = [send_chan EXCEPT ![p] = send_chan[p]]
      BY <2>2 DEF RecvHeader
    <3>2. UNCHANGED send_chan
      BY <1>2, <3>1
    <3>. QED BY <3>2, TasksSame
  <2>. QED BY <2>1, <2>2
<1>7. x \in {"exit", "head", "handle"} /\ (x = "handle" => f.type \in StreamTypes)
  BY <1>4 DEF Frames, FrameTypes, StreamTypes
<1>8. /\ wire'[p] = wire[p]
      /\ \A i \in 1..Len(wire'[o]) : i + 1 \in 1..Len(wire[o]) /\ wire'[o][i] = wire[o][i + 1]
  <2>1. wire'[p] = wire[p] /\ wire'[o] = Tail(wire[o])
    BY <1>1, <1>2, <1>3 DEF Consume
  <2>. QED BY <1>2, <1>3, <2>1, TailFacts
<1>9. /\ recv'[p] = x /\ hdr'[p] = f /\ recv'[o] = recv[o] /\ hdr'[o] = hdr[o]
  BY <1>1, <1>2, <1>3
<1>. HIDE DEF o, f, x, pong
<1>10. \A q \in Peers : recv[q] = "exit" => recv'[q] = "exit"
  BY <1>1, <1>3, <1>9
<1>11. \A q \in Peers : local_goaway'[q] => recv'[q] = "exit"
  BY <1>3, <1>10 DEF IdInv, TasksTrue
<1>12. TasksTrue'
  BY <1>3, <1>6, <1>10, <1>11, QueueStays DEF ClosesKept
<1>13. FreshIds' /\ NeverReset' /\ EstablishedAtBothEnds'
  BY <1>3 DEF IdInv, FreshIds, NeverReset, EstablishedAtBothEnds
<1>14. StreamsLive'
  <2>1. \A q \in Peers : recv'[q] = "accept" => recv[q] = "accept" /\ hdr'[q] = hdr[q]
    BY <1>1, <1>7, <1>9
  <2>. QED BY <1>3, <2>1, LiveKept
<1>15. x = "handle" /\ f.flag = "SYN" => Opening(f)
  BY <1>7 DEF Opening
<1>16. SynsUnseen'
  <2>1. SynsUnseen
    BY DEF IdInv
  <2>2. ASSUME NEW q \in Peers, NEW id, Unseen(q, id)
        PROVE  /\ id \in OwnIds(q) /\ id <= next_stream_id'[q] /\ state'[Other(q)][id] = "None"
    BY <1>3, <2>2 DEF Unseen
  <2>3. ASSUME InHand(p)'
        PROVE  Opening(f) /\ hdr'[p] = f /\ Unseen(o, f.id)
    BY <1>1, <1>4, <1>9, <1>15, <2>1, <2>3 DEF InHand, SynsUnseen
  <2>4. InHand(o)' <=> InHand(o)
    BY <1>9 DEF InHand
  <2>5. InHand(p)' => Unseen(o, hdr[p].id)'
    BY <1>1, <2>2, <2>3 DEF Unseen
  <2>6. InHand(o)' => Unseen(p, hdr[o].id)'
    BY <1>1, <1>9, <2>1, <2>2, <2>4 DEF Unseen, SynsUnseen
  <2>7. ASSUME NEW i \in 1..Len(wire'[p]), Opening(wire'[p][i])
        PROVE  /\ Unseen(p, wire[p][i].id)'
               /\ InHand(o)' => hdr'[o].id # wire'[p][i].id
    <3>1. /\ Unseen(p, wire[p][i].id)
          /\ InHand(o) => hdr[o].id # wire[p][i].id
      BY <1>8, <2>1, <2>7 DEF SynsUnseen, o
    <3>. QED BY <1>8, <1>9, <2>2, <2>4, <3>1 DEF Unseen
  <2>8. ASSUME NEW i \in 1..Len(wire'[o]), Opening(wire'[o][i])
        PROVE  /\ Unseen(o, wire[o][i].id)'
               /\ InHand(p)' => hdr'[p].id # wire'[o][i].id
    <3>1. i + 1 \in 1..Len(wire[o]) /\ wire'[o][i] = wire[o][i + 1] /\ i + 1 # 1
      BY <1>8
    <3>2. Unseen(o, wire[o][i + 1].id)
      BY <1>1, <2>1, <2>8, <3>1 DEF SynsUnseen
    <3>3. InHand(p)' => hdr'[p].id # wire'[o][i].id
      BY <1>1, <1>4, <2>1, <2>3, <2>8, <3>1 DEF SynsUnseen
    <3>. QED BY <1>1, <2>2, <3>1, <3>2, <3>3 DEF Unseen
  <2>9. ASSUME NEW i \in 1..Len(wire'[p]), NEW j \in 1..Len(wire'[p]), i # j,
               Opening(wire'[p][i]), Opening(wire'[p][j])
        PROVE  wire'[p][i].id # wire'[p][j].id
    BY <1>8, <2>1, <2>9 DEF SynsUnseen
  <2>10. ASSUME NEW i \in 1..Len(wire'[o]), NEW j \in 1..Len(wire'[o]), i # j,
               Opening(wire'[o][i]), Opening(wire'[o][j])
        PROVE  wire'[o][i].id # wire'[o][j].id
    <3>1. i + 1 # j + 1
      BY <2>10
    <3>. QED BY <1>1, <1>8, <2>1, <2>10, <3>1 DEF SynsUnseen
  <2>11. /\ \A i \in 1..Len(wire'[p]) :
               Opening(wire[p][i])' =>
                  /\ Unseen(p, wire[p][i].id)'
                  /\ InHand(Other(p))' => hdr'[Other(p)].id # wire'[p][i].id
         /\ \A i, j \in 1..Len(wire'[p]) :
               i # j /\ Opening(wire[p][i])' /\ Opening(wire[p][j])'
                  => wire'[p][i].id # wire'[p][j].id
         /\ InHand(p)' => Unseen(Other(p), hdr[p].id)'
    BY <2>5, <2>7, <2>9 DEF o, Opening
  <2>12. /\ \A i \in 1..Len(wire'[o]) :
               Opening(wire[o][i])' =>
                  /\ Unseen(o, wire[o][i].id)'
                  /\ InHand(Other(o))' => hdr'[Other(o)].id # wire'[o][i].id
         /\ \A i, j \in 1..Len(wire'[o]) :
               i # j /\ Opening(wire[o][i])' /\ Opening(wire[o][j])'
                  => wire'[o][i].id # wire'[o][j].id
         /\ InHand(o)' => Unseen(Other(o), hdr[o].id)'
    BY <1>1, <2>6, <2>8, <2>10 DEF Opening
  <2>. QED BY <1>1, <2>11, <2>12 DEF SynsUnseen
<1>17. FramesTrue'
  <2>1. FramesTrue
    BY DEF IdInv
  <2>2. ASSUME NEW q \in Peers, NEW i \in 1..Len(wire'[q])
        PROVE  /\ Acking(wire'[q][i]) => state'[q][wire'[q][i].id] # "None"
               /\ ~Resetting(wire'[q][i])
    BY <1>1, <1>3, <1>8, <2>1 DEF FramesTrue
  <2>3. ASSUME recv'[p] \in {"handle", "locked"}
        PROVE  /\ hdr'[p].flag # "RST"
               /\ hdr'[p].flag = "ACK" => state'[o][hdr'[p].id] # "None"
    <3>1. hdr'[p] = f /\ f.type \in StreamTypes
      BY <1>7, <1>9, <2>3
    <3>2. ~Resetting(f) /\ (Acking(f) => state[o][f.id] # "None")
      BY <1>1, <1>4, <2>1 DEF FramesTrue
    <3>. QED BY <1>3, <3>1, <3>2 DEF Resetting, Acking
  <2>4. ASSUME recv'[o] \in {"handle", "locked"}
        PROVE  /\ hdr'[o].flag # "RST"
               /\ hdr'[o].flag = "ACK" => state'[p][hdr'[o].id] # "None"
    BY <1>1, <1>3, <1>9, <2>1, <2>4 DEF FramesTrue
  <2>5. ASSUME NEW q \in Peers, recv'[q] \in {"handle", "locked"}
        PROVE  /\ hdr'[q].flag # "RST"
               /\ hdr'[q].flag = "ACK" => state'[Other(q)][hdr'[q].id] # "None"
    BY <1>1, <2>3, <2>4, <2>5 DEF o
  <2>. QED BY <2>2, <2>5 DEF FramesTrue, Acking, Resetting
<1>. QED BY <1>12, <1>13, <1>14, <1>16, <1>17 DEF IdInv

\* The acceptor makes the stream a SYN names and acknowledges it.
LEMMA RecvIncomingStep ==
    ASSUME TypeInv, IdInv, NEW p \in Peers, RecvIncoming(p)
    PROVE  IdInv'
<1>. USE DEF sessionVars, streamVars, sendVars, recvVars, kaVars, histVars
<1>. DEFINE o == Other(p)
            id == hdr[p].id
            ack == Frame("wupdate", "ACK", id, 0, 0)
<1>1. o \in Peers /\ o # p /\ Other(o) = p /\ \A q \in Peers : q = p \/ q = o
  BY OtherPeer
<1>2. /\ recv \in [Peers -> {"head", "handle", "accept", "locked", "body", "exit", "abort"}]
      /\ state \in [Peers -> [Ids -> StreamStates]]
      /\ wire \in [Peers -> Seq(Frames)] /\ wire[p] \in Seq(Frames)
  BY DEF TypeInv, TypeOK, WireOK
<1>3. /\ InHand(p) /\ recv[p] = "handle"
      /\ state' = [state EXCEPT ![p][id] = "Established"]
      /\ Write(p, ack) /\ recv' = [recv EXCEPT ![p] = "accept"]
      /\ UNCHANGED <<local_goaway, next_stream_id, streams, hdr, send_chan, sender, cur>>
  BY DEF RecvIncoming, HandlesSyn, InHand, AfterSendFlags
<1>4. Unseen(o, id)
  BY <1>3 DEF IdInv, SynsUnseen
<1>5. /\ id \in OwnIds(o) /\ id \in Ids /\ id \in Nat /\ id \notin OwnIds(p)
      /\ id <= next_stream_id[o] /\ state[p][id] = "None"
  BY <1>1, <1>4, OwnIdsDisjoint, IdsAreNat DEF Unseen
<1>6. ack \in Frames /\ ack.id = id /\ ~Opening(ack) /\ ~Resetting(ack)
  BY <1>5 DEF Frame, Frames, FrameTypes, Flags, Opening, Resetting
<1>7. \A q \in Peers, i \in Ids :
         state'[q][i] = IF q = p /\ i = id THEN "Established" ELSE state[q][i]
  BY <1>2, <1>3, <1>5
<1>8. recv'[p] = "accept" /\ recv'[o] = recv[o]
  BY <1>1, <1>2, <1>3
<1>. HIDE DEF ack
<1>9. /\ wire'[o] = wire[o]
      /\ \A i \in 1..Len(wire'[p]) :
            \/ i \in 1..Len(wire[p]) /\ wire'[p][i] = wire[p][i]
            \/ wire'[p][i] = ack
  <2>1. wire'[o] = wire[o] /\ wire'[p] = Append(wire[p], ack)
    BY <1>1, <1>2, <1>3 DEF Write
  <2>. QED BY <1>2, <1>6, <2>1, AppendFacts
<1>. HIDE DEF o, id
<1>10. \A q \in Peers, i \in Ids : state[q][i] # "None" => state'[q][i] # "None"
  BY <1>7
<1>11. FreshIds'
  <2>1. ASSUME NEW q \in Peers, NEW i \in OwnIds(q), next_stream_id'[q] < i
        PROVE  state'[q][i] = "None" /\ state'[Other(q)][i] = "None"
    <3>1. i \in Ids /\ i \in Nat /\ Other(q) \in Peers /\ next_stream_id[q] \in Nat
      BY OwnIdsDisjoint, OtherPeer, IdsAreNat DEF TypeInv, TypeOK
    <3>2. state[q][i] = "None" /\ state[Other(q)][i] = "None"
      BY <1>3, <2>1 DEF IdInv, FreshIds
    <3>3. i # id
      BY <1>1, <1>3, <1>5, <2>1, <3>1
    <3>. QED BY <1>7, <3>1, <3>2, <3>3
  <2>. QED BY <2>1 DEF FreshIds
<1>12. ASSUME NEW q \in Peers, NEW i, Unseen(q, i), q = o => i # id
       PROVE  i \in OwnIds(q) /\ i <= next_stream_id'[q] /\ state'[Other(q)][i] = "None"
  <2>1. i \in Ids /\ Other(q) \in Peers
    BY <1>12, OwnIdsDisjoint, OtherPeer DEF Unseen
  <2>2. Other(q) = p /\ i = id => FALSE
    BY <1>1, <1>12, OtherPeer
  <2>3. state'[Other(q)][i] = state[Other(q)][i]
    BY <1>7, <2>1, <2>2
  <2>. QED BY <1>3, <1>12, <2>3 DEF Unseen
<1>13. SynsUnseen'
  <2>1. SynsUnseen
    BY DEF IdInv
  <2>2. ~InHand(p)' /\ (InHand(o)' => InHand(o))
    BY <1>3, <1>8 DEF InHand
  <2>3. InHand(o)' => Unseen(p, hdr[o].id)'
    BY <1>1, <1>3, <1>12, <2>1, <2>2 DEF Unseen, SynsUnseen
  <2>4. ASSUME NEW i \in 1..Len(wire'[p]), Opening(wire'[p][i])
        PROVE  /\ i \in 1..Len(wire[p]) /\ wire'[p][i] = wire[p][i]
               /\ Unseen(p, wire[p][i].id)'
               /\ InHand(o)' => hdr'[o].id # wire'[p][i].id
    <3>1. i \in 1..Len(wire[p]) /\ wire'[p][i] = wire[p][i]
      BY <1>6, <1>9, <2>4
    <3>2. Unseen(p, wire[p][i].id) /\ (InHand(o) => hdr[o].id # wire[p][i].id)
      BY <2>1, <2>4, <3>1 DEF SynsUnseen, o
    <3>. QED BY <1>1, <1>3, <1>12, <2>2, <3>1, <3>2 DEF Unseen
  <2>5. ASSUME NEW i \in 1..Len(wire'[o]), Opening(wire'[o][i])
        PROVE  Unseen(o, wire[o][i].id)'
    <3>1. Unseen(o, wire[o][i].id) /\ wire[o][i].id # id
      BY <1>1, <1>3, <1>9, <2>1, <2>5 DEF SynsUnseen, id
    <3>. QED BY <1>1, <1>9, <1>12, <3>1 DEF Unseen
  <2>6. /\ \A i \in 1..Len(wire'[p]) :
              Opening(wire[p][i])' =>
                 /\ Unseen(p, wire[p][i].id)'
                 /\ InHand(Other(p))' => hdr'[Other(p)].id # wire'[p][i].id
        /\ \A i, j \in 1..Len(wire'[p]) :
              i # j /\ Opening(wire[p][i])' /\ Opening(wire[p][j])'
                 => wire'[p][i].id # wire'[p][j].id
        /\ InHand(p)' => Unseen(Other(p), hdr[p].id)'
    <3>1. ASSUME NEW i \in 1..Len(wire'[p]), NEW j \in 1..Len(wire'[p]), i # j,
                 Opening(wire'[p][i]), Opening(wire'[p][j])
          PROVE  wire'[p][i].id # wire'[p][j].id
      BY <2>1, <2>4, <3>1 DEF SynsUnseen
    <3>. QED BY <2>2, <2>4, <3>1 DEF o, Opening
  <2>7. /\ \A i \in 1..Len(wire'[o]) :
              Opening(wire[o][i])' =>
                 /\ Unseen(o, wire[o][i].id)'
                 /\ InHand(Other(o))' => hdr'[Other(o)].id # wire'[o][i].id
        /\ \A i, j \in 1..Len(wire'[o]) :
              i # j /\ Opening(wire[o][i])' /\ Opening(wire[o][j])'
                 => wire'[o][i].id # wire'[o][j].id
        /\ InHand(o)' => Unseen(Other(o), hdr[o].id)'
    <3>1. ASSUME NEW i \in 1..Len(wire'[o]), NEW j \in 1..Len(wire'[o]), i # j,
                 Opening(wire'[o][i]), Opening(wire'[o][j])
          PROVE  wire'[o][i].id # wire'[o][j].id
      BY <1>1, <1>9, <2>1, <3>1 DEF SynsUnseen
    <3>. QED BY <1>1, <2>2, <2>3, <2>5, <3>1 DEF Opening
  <2>. QED BY <1>1, <2>6, <2>7 DEF SynsUnseen
<1>14. FramesTrue'
  <2>1. FramesTrue
    BY DEF IdInv
  <2>2. ASSUME NEW q \in Peers, NEW i \in 1..Len(wire'[q])
        PROVE  /\ Acking(wire'[q][i]) => state'[q][wire'[q][i].id] # "None"
               /\ ~Resetting(wire'[q][i])
    <3>1. CASE i \in 1..Len(wire[q]) /\ wire'[q][i] = wire[q][i]
      <4>1. Acking(wire[q][i]) => wire[q][i].id \in Ids
        BY <3>1, FrameAt DEF Telling
      <4>. QED BY <1>10, <2>1, <3>1, <4>1 DEF FramesTrue
    <3>2. CASE q = p /\ wire'[q][i] = ack
      BY <1>5, <1>6, <1>7, <3>2
    <3>. QED BY <1>1, <1>9, <3>1, <3>2
  <2>3. ASSUME NEW q \in Peers, recv'[q] \in {"handle", "locked"}
        PROVE  /\ hdr'[q].flag # "RST"
               /\ hdr'[q].flag = "ACK" => state'[Other(q)][hdr'[q].id] # "None"
    <3>1. q = o /\ recv[q] \in {"handle", "locked"} /\ hdr'[q] = hdr[q]
      BY <1>1, <1>3, <1>8, <2>3
    <3>2. hdr[q].id \in Ids
      BY <3>1 DEF TypeInv, IdsOK, InHandler
    <3>. QED BY <1>10, <2>1, <3>1, <3>2, OtherPeer DEF FramesTrue
  <2>. QED BY <2>2, <2>3 DEF FramesTrue, Acking, Resetting
<1>15. StreamsLive'
  <2>1. \A q \in Peers : streams[q] \subseteq Ids
    BY DEF TypeInv, TypeOK
  <2>2. \A q \in Peers : sender[q] = "emplace" => cur[q].id \in Ids
    BY DEF TypeInv, IdsOK
  <2>3. \A q \in Peers : recv[q] = "accept" => hdr[q].id \in Ids
    BY DEF TypeInv, IdsOK, InHandler
  <2>4. \A q \in Peers : /\ \A i \in streams'[q] : state'[q][i] # "None"
                         /\ sender'[q] = "emplace" => state'[q][cur'[q].id] # "None"
    BY <1>3, <1>10, <2>1, <2>2 DEF IdInv, StreamsLive
  <2>5. recv'[p] = "accept" => state'[p][hdr'[p].id] # "None"
    BY <1>3, <1>5, <1>7 DEF id
  <2>6. recv'[o] = "accept" => state'[o][hdr'[o].id] # "None"
    BY <1>1, <1>3, <1>8, <1>10, <2>3 DEF IdInv, StreamsLive
  <2>. QED BY <1>1, <2>4, <2>5, <2>6 DEF StreamsLive
<1>16. NeverReset'
  BY <1>7 DEF IdInv, NeverReset
<1>17. EstablishedAtBothEnds'
  <2>1. ASSUME NEW q \in Peers, NEW i \in OwnIds(q), state'[q][i] = "Established"
        PROVE  state'[Other(q)][i] # "None"
    <3>1. i \in Ids /\ Other(q) \in Peers
      BY OwnIdsDisjoint, OtherPeer
    <3>2. ~(q = p /\ i = id)
      BY <1>5, <2>1
    <3>3. state[q][i] = "Established"
      BY <1>7, <2>1, <3>1, <3>2
    <3>. QED BY <1>10, <3>1, <3>3 DEF IdInv, EstablishedAtBothEnds
  <2>. QED BY <2>1 DEF EstablishedAtBothEnds
<1>18. TasksTrue'
  <2>1. ClosesKept
    BY <1>5, <1>7 DEF ClosesKept
  <2>2. \A q \in Peers : recv[q] = "exit" => recv'[q] = "exit"
    BY <1>1, <1>3, <1>8
  <2>3. \A q \in Peers : local_goaway'[q] => recv'[q] = "exit"
    BY <1>3, <2>2 DEF IdInv, TasksTrue
  <2>. QED BY <1>3, <2>1, <2>2, <2>3, TasksSame, QueueStays
<1>. QED BY <1>11, <1>13, <1>14, <1>15, <1>16, <1>17, <1>18 DEF IdInv

-----------------------------------------------------------------------------
(* The theorems.                                                           *)

\* Every step keeps the invariant.
LEMMA NextIdInv == TypeInv /\ IdInv /\ [Next]_vars => IdInv'
<1>. SUFFICES ASSUME TypeInv, IdInv, [Next]_vars PROVE IdInv'
  OBVIOUS
<1>1. ASSUME NEW p \in Peers, Application(p) PROVE IdInv'
  BY <1>1, QuietApplication, CloseStreamStep, CloseHalfClosedStep DEF Application
<1>2. ASSUME NEW p \in Peers, SendFiber(p) PROVE IdInv'
  BY <1>2, QuietSender, OpenStep, EmplaceStep, ControlStep DEF SendFiber
<1>3. ASSUME NEW p \in Peers, RecvFiber(p) PROVE IdInv'
  BY <1>3, RecvHeaderStep, RecvIncomingStep, RecvFlagsStep, SteadyReceiver DEF RecvFiber
<1>4. ASSUME NEW p \in Peers, KeepAliveFiber(p) \/ Closing(p) PROVE IdInv'
  BY <1>4, QuietClosing, CloseHalfClosedStep DEF Closing
<1>5. CASE UNCHANGED vars
  <2>1. UNCHANGED <<next_stream_id, state, streams, recv, hdr, local_goaway, sender, cur,
                    wire, send_chan>>
    BY <1>5 DEF vars, sessionVars, streamVars, sendVars, recvVars
  <2>. QED BY <2>1, WireSame, TasksSame, QuietStep
<1>. QED BY <1>1, <1>2, <1>3, <1>4, <1>5 DEF Next, Step

\* The invariant holds in every reachable state.
LEMMA IdInvHolds == Spec => []IdInv
<1>. QED BY TypeInvHolds, InitIdInv, NextIdInv, PTL DEF Spec

\* Two endpoints that number their streams independently never collide: when a
\* SYN is on its way its receiver has no stream of that id and never had one,
\* so the found_same_id branch of incoming_stream(), which would close the
\* session, is never taken, whatever the number of streams and whatever is
\* opened, closed or timed out meanwhile.
THEOREM IdsNeverCollide == Spec => []NoIdCollision
<1>1. TypeInv /\ IdInv => NoIdCollision
  <2>. SUFFICES ASSUME TypeInv, IdInv, NEW p \in Peers, NEW i \in 1..Len(wire[p]), Syn(wire[p][i])
                PROVE  state[Other(p)][wire[p][i].id] = "None"
    BY DEF NoIdCollision
  <2>1. Opening(wire[p][i])
    BY DEF Syn, Opening, StreamTypes
  <2>. QED BY <2>1 DEF IdInv, SynsUnseen, Unseen
<1>. QED BY <1>1, TypeInvHolds, IdInvHolds, PTL

\* A stream that its opener believes Established exists at the acceptor, for
\* every number of streams: process_flags() takes an ACK only of a stream that
\* incoming_stream() made at the other end.
THEOREM EstablishedBothEnds == Spec => []EstablishedAtBothEnds
<1>1. IdInv => EstablishedAtBothEnds
  BY DEF IdInv
<1>. QED BY <1>1, IdInvHolds, PTL

\* The states of all streams that changed in this step moved forward.
Risen ==
    \A p \in Peers : \A id \in Ids :
        state'[p][id] # state[p][id] => Rank(state'[p][id]) > Rank(state[p][id])

\* A single state that moves to a higher rank.
LEMMA OneRises ==
    ASSUME TypeInv, NEW p \in Peers, NEW id \in Ids, NEW s \in StreamStates,
           state' = [state EXCEPT ![p][id] = s], Rank(s) > Rank(state[p][id])
    PROVE  Risen
<1>1. state \in [Peers -> [Ids -> StreamStates]]
  BY DEF TypeInv, TypeOK
<1>2. \A q \in Peers, i \in Ids : state'[q][i] = IF q = p /\ i = id THEN s ELSE state[q][i]
  BY <1>1
<1>. QED BY <1>2 DEF Risen

\* No step takes a stream to an earlier part of its life.
LEMMA NextRises == TypeInv /\ IdInv /\ [Next]_vars => Risen
<1>. SUFFICES ASSUME TypeInv, IdInv, [Next]_vars PROVE Risen
  OBVIOUS
<1>. USE DEF sessionVars, streamVars, sendVars, recvVars, kaVars, histVars
<1>0. state \in [Peers -> [Ids -> StreamStates]]
  BY DEF TypeInv, TypeOK
<1>1. ASSUME UNCHANGED state PROVE Risen
  BY <1>1 DEF Risen
<1>2. ASSUME NEW p \in Peers, NEW id \in Ids, CloseStream(p, id) PROVE Risen
  <2>1. Rank("LocalClose") > Rank(state[p][id])
    BY <1>2 DEF CloseStream, OpenStates, Rank
  <2>2. "LocalClose" \in StreamStates /\ state' = [state EXCEPT ![p][id] = "LocalClose"]
    BY <1>2 DEF CloseStream, StreamStates
  <2>. QED BY <2>1, <2>2, OneRises
<1>3. ASSUME NEW p \in Peers, NEW id \in Ids, CloseHalfClosed(p, id) PROVE Risen
  <2>1. Rank("Closed") > Rank(state[p][id])
    BY <1>3 DEF CloseHalfClosed, Rank
  <2>2. "Closed" \in StreamStates /\ state' = [state EXCEPT ![p][id] = "Closed"]
    BY <1>3 DEF CloseHalfClosed, StreamStates
  <2>. QED BY <2>1, <2>2, OneRises
<1>4. ASSUME NEW p \in Peers, NEW id \in Ids, CloserMark(p, id) PROVE Risen
  <2>1. state[p][id] \in StreamStates \ {"LocalClose", "Closed", "Reset"}
    BY <1>0, <1>4 DEF CloserMark, IdInv, NeverReset
  <2>2. Rank("Closed") > Rank(state[p][id])
    BY <2>1 DEF StreamStates, Rank
  <2>3. "Closed" \in StreamStates /\ state' = [state EXCEPT ![p][id] = "Closed"]
    BY <1>4 DEF CloserMark, StreamStates
  <2>. QED BY <2>2, <2>3, OneRises
<1>5. ASSUME NEW p \in Peers, RunOpen(p) \/ RunOpenFails(p) PROVE Risen
  <2>1. NewId(p) \in Ids /\ state[p][NewId(p)] = "None"
    BY <1>5, NewIdFresh DEF RunOpen, RunOpenFails, NextTask, OpenKinds
  <2>2. PICK s \in {"SYNSent", "LocalClose"} : state' = [state EXCEPT ![p][NewId(p)] = s]
    BY <1>5 DEF RunOpen, RunOpenFails, AfterSendFlags
  <2>3. s \in StreamStates /\ Rank(s) > Rank("None")
    BY DEF StreamStates, Rank
  <2>. QED BY <2>1, <2>2, <2>3, OneRises
<1>6. ASSUME NEW p \in Peers, RunControl(p) \/ RunFails(p) PROVE Risen
  <2>. DEFINE t == Head(send_chan[p])
  <2>1. send_chan[p] # <<>> /\ TaskEffects(p, t)
    BY <1>6 DEF RunControl, RunFails, NextTask
  <2>2. CASE t.kind = "fin"
    <3>1. t.id \in Ids /\ t = send_chan[p][1] /\ 1 \in 1..Len(send_chan[p])
      <4>1. send_chan[p] \in Seq(Tasks)
        BY DEF TypeInv, QueueOK
      <4>. QED BY <2>1, <2>2, <4>1, HeadTask, TailFacts DEF TaskOK, StreamKinds
    <3>2. state[p][t.id] = "LocalClose"
      BY <2>2, <3>1 DEF IdInv, TasksTrue
    <3>3. state' = [state EXCEPT ![p][t.id] = "Closed"]
      BY <2>1, <2>2 DEF TaskEffects
    <3>4. "Closed" \in StreamStates /\ Rank("Closed") > Rank("LocalClose")
      BY DEF StreamStates, Rank
    <3>. HIDE DEF t
    <3>. QED BY <3>1, <3>2, <3>3, <3>4, OneRises
  <2>3. CASE t.kind # "fin"
    BY <1>1, <2>1, <2>3 DEF TaskEffects
  <2>. QED BY <2>2, <2>3
<1>7. ASSUME NEW p \in Peers, RecvIncoming(p) PROVE Risen
  <2>1. InHand(p) /\ state' = [state EXCEPT ![p][hdr[p].id] = "Established"]
    BY <1>7 DEF RecvIncoming, HandlesSyn, InHand, AfterSendFlags
  <2>2. hdr[p].id \in Ids /\ state[p][hdr[p].id] = "None"
    BY <2>1, OtherPeer, OwnIdsDisjoint DEF IdInv, SynsUnseen, Unseen
  <2>3. "Established" \in StreamStates /\ Rank("Established") > Rank("None")
    BY DEF StreamStates, Rank
  <2>. QED BY <2>1, <2>2, <2>3, OneRises
<1>8. ASSUME NEW p \in Peers, RecvFlags(p) PROVE Risen
  <2>. DEFINE s == NextState(state[p][hdr[p].id], hdr[p].flag)
  <2>1. /\ recv[p] = "locked" /\ hdr[p].id \in Ids /\ hdr[p].flag # "RST"
        /\ state[p][hdr[p].id] \in StreamStates
    BY <1>0, <1>8 DEF RecvFlags, StateLocked, IdInv, FramesTrue, TypeInv, IdsOK, InHandler
  <2>2. state' = [state EXCEPT ![p][hdr[p].id] = s]
    BY <1>0, <1>8, <2>1 DEF RecvFlags
  <2>3. s \in StreamStates /\ (s = state[p][hdr[p].id] \/ Rank(s) > Rank(state[p][hdr[p].id]))
    BY <2>1 DEF NextState, OpenStates, StreamStates, Rank
  <2>. HIDE DEF s
  <2>4. CASE s = state[p][hdr[p].id]
    BY <1>0, <1>1, <2>1, <2>2, <2>4
  <2>. QED BY <2>1, <2>2, <2>3, <2>4, OneRises
<1>9. ASSUME NEW p \in Peers, Application(p) PROVE Risen
  BY <1>1, <1>2, <1>3, <1>9
  DEF Application, OpenStream, CloseSession, Ping, OpenTimeout, SendData
<1>10. ASSUME NEW p \in Peers, SendFiber(p) PROVE Risen
  BY <1>1, <1>5, <1>6, <1>10
  DEF SendFiber, SenderStop, RunOpenRefused, OpenEmplace, RunDataDropped, RunData, SendBody,
      SendBodyFails
<1>11. ASSUME NEW p \in Peers, RecvFiber(p) PROVE Risen
  BY <1>1, <1>7, <1>8, <1>11
  DEF RecvFiber, RecvHeader, RecvRefused, RecvAccept, RecvLock, RecvUnmapped,
      RecvProtocolError, RecvBody, RecvDesync, RecvEof, RecvBodyEof, RecvBodyReset
<1>12. ASSUME NEW p \in Peers, KeepAliveFiber(p) \/ Closing(p) PROVE Risen
  BY <1>1, <1>4, <1>12
  DEF KeepAliveFiber, PingTimeout, KeepAliveStop, Closing, CloserLock, CloserFinish,
      CloserDone, EraseStream
<1>13. CASE UNCHANGED vars
  BY <1>1, <1>13 DEF vars
<1>. QED BY <1>9, <1>10, <1>11, <1>12, <1>13 DEF Next, Step

\* A stream object lives once: no late ACK, FIN, session close or failing open
\* task takes a stream back to a state it has left, for every number of streams
\* and however the fibers of both endpoints interleave.
THEOREM LivesOnce == Spec => StreamLivesOnce
<1>1. TypeInv /\ IdInv /\ [Next]_vars =>
         [\A p \in Peers : \A id \in Ids :
             state'[p][id] # state[p][id] => Rank(state'[p][id]) > Rank(state[p][id])]_vars
  BY NextRises DEF Risen
<1>. QED BY <1>1, TypeInvHolds, IdInvHolds, PTL DEF Spec, StreamLivesOnce
====
