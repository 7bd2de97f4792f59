-------------------------- MODULE ByteBufferProofs --------------------------
(***************************************************************************)
(* Proofs about ByteBuffer for blocks, reserves and chunks of every size:  *)
(* the indices stay inside the block, no assert() fails, and a Buffer is a *)
(* queue of bytes (ByteQueue).                                             *)
(***************************************************************************)
EXTENDS ByteBuffer, SequenceTheorems, TLAPS

Cell == Byte \cup {Junk}

-----------------------------------------------------------------------------
(* Buffers as records, and what they hold.                                 *)

\* The numbers of a well-formed Buffer, as SMT needs them.
LEMMA BufferFacts ==
    ASSUME NEW b, BufferOK(b)
    PROVE  /\ b.capacity \in Nat /\ b.read_index \in Nat /\ b.write_index \in Nat
           /\ b.reserved \in Nat /\ Length(b) \in Nat /\ WritableBytes(b) \in Nat
           /\ b.mem \in [0..(b.capacity - 1) -> Cell]
           /\ b.read_index <= b.write_index /\ b.write_index <= b.capacity
           /\ b.reserved <= b.capacity
           /\ b.write_index = b.read_index + Length(b)
           /\ b.capacity = b.write_index + WritableBytes(b)
<1>1. /\ b.capacity \in Nat /\ b.read_index \in Nat /\ b.write_index \in Nat /\ b.reserved \in Nat
      /\ b.mem \in Memory(b.capacity)
  BY DEF BufferOK
<1>2. b.mem \in [0..(b.capacity - 1) -> Cell]
  BY <1>1 DEF Memory, Cell
<1>3. b.read_index <= b.write_index /\ b.write_index <= b.capacity /\ b.reserved <= b.capacity
  BY DEF BufferOK
<1>4. /\ Length(b) \in Nat /\ WritableBytes(b) \in Nat
      /\ b.write_index = b.read_index + Length(b)
      /\ b.capacity = b.write_index + WritableBytes(b)
  BY <1>1, <1>3 DEF Length, WritableBytes
<1>. QED BY <1>1, <1>2, <1>3, <1>4

\* Every byte between the indices is a cell of the block.
LEMMA CellAt ==
    ASSUME NEW b, BufferOK(b), NEW i \in Int, b.read_index <= i, i < b.write_index
    PROVE  b.mem[i] \in Cell
<1>1. i \in 0..(b.capacity - 1)
  BY BufferFacts
<1>2. b.mem \in [0..(b.capacity - 1) -> Cell]
  BY BufferFacts
<1>. QED BY <1>1, <1>2

\* A record of the right fields is a Buffer.
LEMMA MakeBuffer ==
    ASSUME NEW c \in Nat, NEW m \in [0..(c - 1) -> Cell], NEW r \in Nat, NEW w \in Nat,
           NEW v \in Nat, r <= w, w <= c, v <= c
    PROVE  /\ BufferOK(Buffer(m, c, r, w, v))
           /\ Length(Buffer(m, c, r, w, v)) = w - r
           /\ WritableBytes(Buffer(m, c, r, w, v)) = c - w
           /\ Buffer(m, c, r, w, v).mem = m
           /\ Buffer(m, c, r, w, v).capacity = c
           /\ Buffer(m, c, r, w, v).read_index = r
           /\ Buffer(m, c, r, w, v).write_index = w
           /\ Buffer(m, c, r, w, v).reserved = v
<1>. DEFINE b == Buffer(m, c, r, w, v)
<1>1. /\ b.mem = m /\ b.capacity = c /\ b.read_index = r /\ b.write_index = w
      /\ b.reserved = v
  BY DEF Buffer
<1>2. b \in [mem : Memory(c), capacity : Nat, read_index : Nat, write_index : Nat, reserved : Nat]
  BY DEF Buffer, Memory, Cell
<1>. HIDE DEF b
<1>3. BufferOK(b)
  BY <1>1, <1>2 DEF BufferOK
<1>4. Length(b) = w - r /\ WritableBytes(b) = c - w
  BY <1>1 DEF Length, WritableBytes
<1>. QED BY <1>1, <1>3, <1>4 DEF b

\* Content() is a sequence of length() cells, read from read_index_ on.
LEMMA ContentFacts ==
    ASSUME NEW b, BufferOK(b)
    PROVE  /\ Content(b) \in Seq(Cell) /\ Len(Content(b)) = Length(b)
           /\ \A i \in 1..Length(b) : Content(b)[i] = b.mem[b.read_index + i - 1]
<1>1. Length(b) \in Nat
  BY BufferFacts
<1>2. ASSUME NEW i \in 1..Length(b) PROVE b.mem[b.read_index + i - 1] \in Cell
  <2>1. /\ b.read_index + i - 1 \in Int /\ b.read_index <= b.read_index + i - 1
        /\ b.read_index + i - 1 < b.write_index
    BY BufferFacts
  <2>. QED BY <2>1, CellAt
<1>3. Content(b) \in [1..Length(b) -> Cell]
  BY <1>2 DEF Content
<1>4. Content(b) \in Seq(Cell)
  BY <1>1, <1>3, SeqDef
<1>5. Len(Content(b)) = Length(b)
  BY <1>1, <1>3, <1>4, LenProperties
<1>. QED BY <1>4, <1>5 DEF Content

\* Two sequences of the same length and elements are the same.
LEMMA SameSeq ==
    ASSUME NEW s \in Seq(Cell), NEW t \in Seq(Cell), Len(s) = Len(t),
           \A i \in 1..Len(s) : s[i] = t[i]
    PROVE  s = t
BY SeqEqual

\* What Content() is, from the bytes in memory.
LEMMA ContentIs ==
    ASSUME NEW b, BufferOK(b), NEW s \in Seq(Cell), Len(s) = Length(b),
           \A i \in 1..Len(s) : b.mem[b.read_index + i - 1] = s[i]
    PROVE  Content(b) = s
<1>1. /\ Content(b) \in Seq(Cell) /\ Len(Content(b)) = Length(b)
      /\ \A i \in 1..Length(b) : Content(b)[i] = b.mem[b.read_index + i - 1]
  BY ContentFacts
<1>2. \A i \in 1..Len(Content(b)) : Content(b)[i] = s[i]
  BY <1>1
<1>. QED BY <1>1, <1>2, SameSeq

\* memcpy() writes its bytes and no others.
LEMMA CopiedOK ==
    ASSUME NEW c \in Nat, NEW m \in [0..(c - 1) -> Cell], NEW at \in Nat,
           NEW d \in Seq(Cell), at + Len(d) <= c
    PROVE  /\ Copied(m, at, d) \in [0..(c - 1) -> Cell]
           /\ \A i \in 1..Len(d) : Copied(m, at, d)[at + i - 1] = d[i]
           /\ \A j \in 0..(c - 1) :
                 (j < at \/ at + Len(d) <= j) => Copied(m, at, d)[j] = m[j]
<1>. DEFINE n == Len(d)
            f == Copied(m, at, d)
<1>1. n \in Nat /\ at + n <= c /\ \A i \in 1..n : d[i] \in Cell
  BY LenProperties, ElementOfSeq
<1>2. f = [j \in 0..(c - 1) |-> IF j \in at..(at + n - 1) THEN d[j - at + 1] ELSE m[j]]
  BY DEF Copied
<1>. HIDE DEF f, n
<1>3. \A j \in at..(at + n - 1) : j - at + 1 \in 1..n
  BY <1>1
<1>4. f \in [0..(c - 1) -> Cell]
  BY <1>1, <1>2, <1>3
<1>5. \A i \in 1..n : f[at + i - 1] = d[i]
  <2>. TAKE i \in 1..n
  <2>1. /\ at + i - 1 \in 0..(c - 1) /\ at + i - 1 \in at..(at + n - 1)
        /\ (at + i - 1) - at + 1 = i
    BY <1>1
  <2>. QED BY <1>2, <2>1
<1>6. \A j \in 0..(c - 1) : (j < at \/ at + n <= j) => f[j] = m[j]
  <2>. TAKE j \in 0..(c - 1)
  <2>. HAVE j < at \/ at + n <= j
  <2>1. j \notin at..(at + n - 1)
    BY <1>1
  <2>. QED BY <1>2, <2>1
<1>. QED BY <1>4, <1>5, <1>6 DEF f, n

-----------------------------------------------------------------------------
(* grow() keeps the unread bytes and makes the room that was asked for.    *)

\* The constructor gives an empty Buffer with the room asked for.
LEMMA NewBufferOK ==
    ASSUME NEW size \in Nat, NEW reserved \in Nat
    PROVE  LET b == NewBuffer(size, reserved)
           IN  /\ BufferOK(b) /\ Content(b) = <<>> /\ Length(b) = 0
               /\ WritableBytes(b) = size /\ b.reserved = reserved
<1>1. /\ Fresh(reserved + size) \in [0..(reserved + size - 1) -> Cell]
      /\ reserved + size \in Nat /\ reserved <= reserved + size
  BY DEF Cell, Fresh
<1>2. /\ BufferOK(NewBuffer(size, reserved)) /\ Length(NewBuffer(size, reserved)) = 0
      /\ WritableBytes(NewBuffer(size, reserved)) = size
      /\ NewBuffer(size, reserved).reserved = reserved
  <2>. DEFINE c == reserved + size
              m == Fresh(reserved + size)
  <2>1. c \in Nat /\ m \in [0..(c - 1) -> Cell] /\ reserved <= c /\ reserved <= reserved
        /\ NewBuffer(size, reserved) = Buffer(m, c, reserved, reserved, reserved)
    BY <1>1 DEF NewBuffer
  <2>. HIDE DEF c, m
  <2>2. /\ BufferOK(Buffer(m, c, reserved, reserved, reserved))
        /\ Length(Buffer(m, c, reserved, reserved, reserved)) = reserved - reserved
        /\ WritableBytes(Buffer(m, c, reserved, reserved, reserved)) = c - reserved
        /\ Buffer(m, c, reserved, reserved, reserved).reserved = reserved
    BY <2>1, MakeBuffer
  <2>. QED BY <2>1, <2>2 DEF c
<1>3. Len(Content(NewBuffer(size, reserved))) = 0 /\ Content(NewBuffer(size, reserved)) \in Seq(Cell)
  BY <1>2, ContentFacts
<1>4. Content(NewBuffer(size, reserved)) = <<>>
  BY <1>3, EmptySeq
<1>. QED BY <1>2, <1>4

\* The unread bytes moved behind the reserve of a block that holds them.
LEMMA MovedToOK ==
    ASSUME NEW b, BufferOK(b), NEW c \in Nat, NEW m \in [0..(c - 1) -> Cell],
           b.reserved + Length(b) <= c
    PROVE  /\ BufferOK(MovedTo(b, m, c)) /\ Content(MovedTo(b, m, c)) = Content(b)
           /\ MovedTo(b, m, c).reserved = b.reserved
           /\ WritableBytes(MovedTo(b, m, c)) = c - (b.reserved + Length(b))
<1>. DEFINE v == b.reserved
            n == Length(b)
            d == Content(b)
            m2 == Copied(m, v, d)
            g == Buffer(m2, c, v, v + n, v)
<1>1. v \in Nat /\ n \in Nat /\ v + n <= c
  BY BufferFacts
<1>2. d \in Seq(Cell) /\ Len(d) = n
  BY ContentFacts
<1>3. MovedTo(b, m, c) = g
  BY DEF MovedTo
<1>. HIDE DEF v, n, d, m2
<1>4. m2 \in [0..(c - 1) -> Cell] /\ \A i \in 1..n : m2[v + i - 1] = d[i]
  <2>1. v + Len(d) <= c
    BY <1>1, <1>2
  <2>2. v \in Nat /\ d \in Seq(Cell)
    BY <1>1, <1>2
  <2>3. m2 \in [0..(c - 1) -> Cell] /\ \A i \in 1..Len(d) : m2[v + i - 1] = d[i]
    BY <2>1, <2>2, CopiedOK DEF m2
  <2>. QED BY <1>2, <2>3
<1>5. v + n \in Nat /\ v <= v + n /\ v + n <= c /\ v <= c
  BY <1>1
<1>6. /\ BufferOK(g) /\ Length(g) = (v + n) - v /\ WritableBytes(g) = c - (v + n)
      /\ g.mem = m2 /\ g.read_index = v /\ g.reserved = v
  <2>. DEFINE w == v + n
  <2>. HIDE DEF w
  <2>1. w \in Nat /\ v <= w /\ w <= c /\ v \in Nat /\ v <= c
    BY <1>1, <1>5 DEF w
  <2>2. m2 \in [0..(c - 1) -> Cell]
    BY <1>4
  <2>. HIDE DEF g
  <2>3. /\ BufferOK(Buffer(m2, c, v, w, v)) /\ Length(Buffer(m2, c, v, w, v)) = w - v
        /\ WritableBytes(Buffer(m2, c, v, w, v)) = c - w
        /\ Buffer(m2, c, v, w, v).mem = m2
        /\ Buffer(m2, c, v, w, v).read_index = v
        /\ Buffer(m2, c, v, w, v).reserved = v
    BY <2>1, <2>2, MakeBuffer
  <2>. QED BY <2>3 DEF w, g
<1>. HIDE DEF g
<1>7. Length(g) = n
  BY <1>1, <1>6
<1>8. Content(g) = d
  <2>1. \A i \in 1..Len(d) : g.mem[g.read_index + i - 1] = d[i]
    BY <1>2, <1>4, <1>6
  <2>. QED BY <1>2, <1>6, <1>7, <2>1, ContentIs
<1>. QED BY <1>3, <1>6, <1>8 DEF v, n, d

\* The branch of grow() that takes a larger block keeps the bytes.
LEMMA ReallocatedOK ==
    ASSUME NEW b, BufferOK(b), NEW len \in Nat
    PROVE  /\ BufferOK(Reallocated(b, len)) /\ Content(Reallocated(b, len)) = Content(b)
           /\ Reallocated(b, len).reserved = b.reserved
           /\ WritableBytes(Reallocated(b, len)) >= len
<1>. DEFINE c == NewCapacity(b, len)
            m == Fresh(c)
            v == b.reserved
            n == Length(b)
<1>1. c \in Nat /\ v + n <= c /\ c - (v + n) >= len
  <2>. DEFINE k == b.capacity
  <2>1. k \in Nat /\ v \in Nat /\ n \in Nat /\ v <= k /\ n <= k
    BY BufferFacts
  <2>2. c = 2 * k + len
    BY DEF NewCapacity
  <2>. HIDE DEF k, v, n, c
  <2>. QED BY <2>1, <2>2
<1>2. m \in [0..(c - 1) -> Cell]
  BY DEF Fresh, Cell
<1>3. Reallocated(b, len) = MovedTo(b, m, c)
  BY DEF Reallocated
<1>. HIDE DEF c, m
<1>. QED BY <1>1, <1>2, <1>3, MovedToOK

\* The branch of grow() that moves the bytes down keeps them.
LEMMA CompactedOK ==
    ASSUME NEW b, BufferOK(b), b.reserved <= b.read_index
    PROVE  /\ BufferOK(Compacted(b)) /\ Content(Compacted(b)) = Content(b)
           /\ Compacted(b).reserved = b.reserved
           /\ WritableBytes(Compacted(b)) = WritableBytes(b) + b.read_index - b.reserved
<1>1. /\ b.capacity \in Nat /\ b.mem \in [0..(b.capacity - 1) -> Cell]
      /\ b.reserved + Length(b) <= b.capacity
      /\ b.capacity - (b.reserved + Length(b)) = WritableBytes(b) + b.read_index - b.reserved
  <2>. DEFINE c == b.capacity
              v == b.reserved
              rd == b.read_index
              n == Length(b)
              room == WritableBytes(b)
  <2>1. /\ c \in Nat /\ v \in Nat /\ rd \in Nat /\ n \in Nat /\ room \in Nat
        /\ c = (rd + n) + room /\ v <= rd
    BY BufferFacts
  <2>2. b.mem \in [0..(c - 1) -> Cell]
    BY BufferFacts
  <2>. HIDE DEF c, v, rd, n, room
  <2>3. v + n <= c /\ c - (v + n) = room + rd - v
    BY <2>1
  <2>. QED BY <2>1, <2>2, <2>3 DEF c, v, rd, n, room
<1>2. Compacted(b) = MovedTo(b, b.mem, b.capacity)
  BY DEF Compacted
<1>3. /\ BufferOK(MovedTo(b, b.mem, b.capacity))
      /\ Content(MovedTo(b, b.mem, b.capacity)) = Content(b)
      /\ MovedTo(b, b.mem, b.capacity).reserved = b.reserved
      /\ WritableBytes(MovedTo(b, b.mem, b.capacity)) = b.capacity - (b.reserved + Length(b))
  BY <1>1, MovedToOK
<1>. QED BY <1>1, <1>2, <1>3

\* EnsureWritableBytes() keeps the bytes, makes the room and fails no assert().
LEMMA EnsuredOK ==
    ASSUME NEW b, BufferOK(b), NEW len \in Nat
    PROVE  /\ BufferOK(Ensured(b, len)) /\ Content(Ensured(b, len)) = Content(b)
           /\ Ensured(b, len).reserved = b.reserved
           /\ WritableBytes(Ensured(b, len)) >= len
           /\ EnsureAsserts(b, len)
<1>. DEFINE v == b.reserved
            r == b.read_index
            room == WritableBytes(b)
<1>1. v \in Nat /\ r \in Nat /\ room \in Nat
  BY BufferFacts
<1>2. CASE room >= len
  <2>1. ~(room < len)
    BY <1>1, <1>2
  <2>2. Ensured(b, len) = b
    BY <2>1 DEF Ensured
  <2>. QED BY <1>2, <2>1, <2>2 DEF EnsureAsserts
<1>3. CASE room < len /\ MustAllocate(b, len)
  <2>1. Ensured(b, len) = Reallocated(b, len)
    BY <1>3 DEF Ensured, Grown
  <2>2. GrowAsserts(b, len)
    BY <1>3 DEF GrowAsserts
  <2>. QED BY <2>1, <2>2, ReallocatedOK DEF EnsureAsserts
<1>4. CASE room < len /\ ~MustAllocate(b, len)
  <2>1. Ensured(b, len) = Compacted(b)
    BY <1>4 DEF Ensured, Grown
  <2>2. v < r /\ v <= r /\ room + r - v >= len
    BY <1>1, <1>4 DEF MustAllocate, PrependableBytes
  <2>3. /\ BufferOK(Compacted(b)) /\ Content(Compacted(b)) = Content(b)
        /\ Compacted(b).reserved = v /\ WritableBytes(Compacted(b)) = room + r - v
    BY <2>2, CompactedOK
  <2>4. WritableBytes(Compacted(b)) >= len
    BY <2>2, <2>3
  <2>5. GrowAsserts(b, len)
    BY <2>2, <2>4 DEF GrowAsserts
  <2>. QED BY <2>1, <2>3, <2>4, <2>5 DEF EnsureAsserts
<1>. QED BY <1>1, <1>2, <1>3, <1>4

\* Reserve() always takes a new block when it calls grow().
LEMMA ReservedOK ==
    ASSUME NEW b, BufferOK(b), NEW len \in Nat
    PROVE  /\ BufferOK(Reserved(b, len)) /\ Content(Reserved(b, len)) = Content(b)
           /\ ReserveAsserts(b, len)
<1>. DEFINE v == b.reserved
            r == b.read_index
            c == b.capacity
<1>1. v \in Nat /\ r \in Nat /\ c \in Nat /\ WritableBytes(b) + r <= c /\ len + v \in Nat
      /\ WritableBytes(b) \in Nat
  BY BufferFacts
<1>2. CASE c >= len + v
  <2>1. Reserved(b, len) = b /\ ~(c < len + v)
    BY <1>1, <1>2 DEF Reserved
  <2>. QED BY <2>1 DEF ReserveAsserts
<1>3. CASE c < len + v
  <2>1. MustAllocate(b, len + v)
    BY <1>1, <1>3 DEF MustAllocate, PrependableBytes
  <2>2. Reserved(b, len) = Reallocated(b, len + v)
    BY <1>1, <1>3, <2>1 DEF Reserved, Grown
  <2>3. BufferOK(Reallocated(b, len + v)) /\ Content(Reallocated(b, len + v)) = Content(b)
    BY <1>1, ReallocatedOK
  <2>. QED BY <2>1, <2>2, <2>3 DEF ReserveAsserts, GrowAsserts
<1>. QED BY <1>1, <1>2, <1>3

-----------------------------------------------------------------------------
(* What is read, written and cut, as sequences of bytes.                   *)

\* SubSeq() of cells, with its length and elements.
LEMMA SubOK ==
    ASSUME NEW s \in Seq(Cell), NEW lo \in Nat, NEW hi \in Nat, lo <= hi, hi <= Len(s)
    PROVE  /\ SubSeq(s, lo + 1, hi) \in Seq(Cell)
           /\ Len(SubSeq(s, lo + 1, hi)) = hi - lo
           /\ \A i \in 1..(hi - lo) : SubSeq(s, lo + 1, hi)[i] = s[lo + i]
<1>. DEFINE a == lo + 1
            t == SubSeq(s, a, hi)
<1>1. Len(s) \in Nat
  BY LenProperties
<1>2. a \in Int /\ hi \in Int /\ \A i \in a..hi : s[i] \in Cell
  <2>1. \A i \in a..hi : i \in 1..Len(s)
    BY <1>1
  <2>. QED BY <2>1, ElementOfSeq
<1>. HIDE DEF a
<1>3. /\ t \in Seq(Cell) /\ Len(t) = (IF a <= hi THEN hi - a + 1 ELSE 0)
      /\ \A i \in 1..(hi - a + 1) : t[i] = s[a + i - 1]
  BY <1>2, SubSeqProperties
<1>. HIDE DEF t
<1>4. Len(t) = hi - lo
  BY <1>3 DEF a
<1>5. \A i \in 1..(hi - lo) : t[i] = s[lo + i]
  <2>. TAKE i \in 1..(hi - lo)
  <2>1. i \in 1..(hi - a + 1) /\ a + i - 1 = lo + i
    BY DEF a
  <2>. QED BY <1>3, <2>1
<1>. QED BY <1>3, <1>4, <1>5 DEF t, a

\* Concatenation of cells, with its length and elements.
LEMMA CatOK ==
    ASSUME NEW s \in Seq(Cell), NEW t \in Seq(Cell)
    PROVE  /\ s \o t \in Seq(Cell) /\ Len(s \o t) = Len(s) + Len(t)
           /\ \A i \in 1..Len(s) : (s \o t)[i] = s[i]
           /\ \A i \in 1..Len(t) : (s \o t)[Len(s) + i] = t[i]
<1>. DEFINE u == s \o t
            m == Len(s)
            n == Len(t)
<1>1. m \in Nat /\ n \in Nat
  BY LenProperties
<1>2. /\ u \in Seq(Cell) /\ Len(u) = m + n
      /\ \A i \in 1..(m + n) : u[i] = IF i <= m THEN s[i] ELSE t[i - m]
  BY ConcatProperties
<1>. HIDE DEF u, m, n
<1>3. \A i \in 1..m : u[i] = s[i]
  BY <1>1, <1>2
<1>4. \A i \in 1..n : u[m + i] = t[i]
  <2>. TAKE i \in 1..n
  <2>1. m + i \in 1..(m + n) /\ ~(m + i <= m) /\ (m + i) - m = i
    BY <1>1
  <2>. QED BY <1>2, <2>1
<1>. QED BY <1>2, <1>3, <1>4 DEF u, m, n

\* Moving the indices inward shows the bytes between them.
LEMMA IndexedOK ==
    ASSUME NEW b, BufferOK(b), NEW lo \in Nat, NEW hi \in Nat, lo <= hi, hi <= Length(b)
    PROVE  /\ BufferOK(Indexed(b, b.read_index + lo, b.read_index + hi))
           /\ Content(Indexed(b, b.read_index + lo, b.read_index + hi))
                = SubSeq(Content(b), lo + 1, hi)
           /\ Indexed(b, b.read_index + lo, b.read_index + hi).mem = b.mem
           /\ Indexed(b, b.read_index + lo, b.read_index + hi).read_index
                = b.read_index + lo
<1>. DEFINE m == b.mem
            c == b.capacity
            v == b.reserved
            rd == b.read_index
            n == Length(b)
            d == Content(b)
            r == rd + lo
            w == rd + hi
            g == Buffer(m, c, r, w, v)
            s == SubSeq(d, lo + 1, hi)
<1>1. c \in Nat /\ v \in Nat /\ rd \in Nat /\ n \in Nat /\ rd + n <= c /\ v <= c
      /\ hi <= n
  BY BufferFacts
<1>2. m \in [0..(c - 1) -> Cell]
  BY BufferFacts
<1>3. /\ d \in Seq(Cell) /\ Len(d) = n
      /\ \A i \in 1..n : d[i] = m[rd + i - 1]
  BY ContentFacts
<1>4. Indexed(b, r, w) = g
  BY DEF Indexed
<1>. HIDE DEF m, c, v, rd, n, d
<1>5. r \in Nat /\ w \in Nat /\ r <= w /\ w <= c /\ w - r = hi - lo
  BY <1>1
<1>6. c \in Nat /\ v \in Nat /\ v <= c
  BY <1>1
<1>. HIDE DEF r, w
<1>7. BufferOK(g) /\ Length(g) = w - r /\ g.mem = m /\ g.read_index = r
  BY <1>2, <1>5, <1>6, MakeBuffer
<1>8. /\ s \in Seq(Cell) /\ Len(s) = hi - lo
      /\ \A i \in 1..(hi - lo) : s[i] = d[lo + i]
  <2>1. hi <= Len(d) /\ d \in Seq(Cell)
    BY <1>1, <1>3
  <2>. QED BY <2>1, SubOK
<1>. HIDE DEF g, s
<1>9. Content(g) = s
  <2>1. ASSUME NEW i \in 1..Len(s) PROVE g.mem[g.read_index + i - 1] = s[i]
    <3>1. i \in 1..(hi - lo) /\ lo + i \in 1..n /\ r + i - 1 = rd + (lo + i) - 1
      BY <1>1, <1>8 DEF r
    <3>2. s[i] = m[rd + (lo + i) - 1]
      BY <1>3, <1>8, <3>1
    <3>. QED BY <1>7, <3>1, <3>2
  <2>2. Len(s) = Length(g)
    BY <1>5, <1>7, <1>8
  <2>. QED BY <1>7, <1>8, <2>1, <2>2, ContentIs
<1>. QED BY <1>4, <1>7, <1>9 DEF m, rd, d, r, w, s

\* What is written behind the write index is at the end of the bytes.
LEMMA FilledOK ==
    ASSUME NEW b, BufferOK(b), NEW x \in Seq(Cell), Len(x) <= WritableBytes(b)
    PROVE  BufferOK(Filled(b, x)) /\ Content(Filled(b, x)) = Content(b) \o x
<1>. DEFINE c == b.capacity
            v == b.reserved
            rd == b.read_index
            wr == b.write_index
            n == Length(b)
            k == Len(x)
            d == Content(b)
            m == b.mem
            m2 == Copied(m, wr, x)
            w == wr + k
            g == Buffer(m2, c, rd, w, v)
            s == d \o x
<1>1. c \in Nat /\ v \in Nat /\ rd \in Nat /\ wr \in Nat /\ n \in Nat /\ wr = rd + n
      /\ wr <= c /\ v <= c /\ k \in Nat /\ wr + k <= c
  BY BufferFacts, LenProperties
<1>2. m \in [0..(c - 1) -> Cell]
  BY BufferFacts
<1>3. /\ d \in Seq(Cell) /\ Len(d) = n
      /\ \A i \in 1..n : d[i] = m[rd + i - 1]
  BY ContentFacts
<1>4. Filled(b, x) = g
  BY DEF Filled
<1>5. /\ s \in Seq(Cell) /\ Len(s) = n + k
      /\ \A i \in 1..n : s[i] = d[i]
      /\ \A i \in 1..k : s[n + i] = x[i]
  <2>. HIDE DEF d, n
  <2>1. /\ s \in Seq(Cell) /\ Len(s) = Len(d) + k
        /\ \A i \in 1..Len(d) : s[i] = d[i]
        /\ \A i \in 1..k : s[Len(d) + i] = x[i]
    BY <1>3, CatOK
  <2>. QED BY <1>3, <2>1
<1>. HIDE DEF m, c, v, rd, wr, n, d, s
<1>6. c \in Nat /\ v \in Nat /\ v <= c /\ rd \in Nat /\ w \in Nat /\ rd <= w /\ w <= c
      /\ w - rd = n + k
  BY <1>1
<1>7. /\ m2 \in [0..(c - 1) -> Cell]
      /\ \A i \in 1..k : m2[wr + i - 1] = x[i]
      /\ \A j \in 0..(c - 1) : (j < wr \/ wr + k <= j) => m2[j] = m[j]
  BY <1>1, <1>2, CopiedOK
<1>. HIDE DEF m2, w, k
<1>8. m2 \in [0..(c - 1) -> Cell]
  BY <1>7
<1>9. BufferOK(g) /\ Length(g) = w - rd /\ g.mem = m2 /\ g.read_index = rd
  BY <1>6, <1>8, MakeBuffer
<1>. HIDE DEF g
<1>10. ASSUME NEW i \in 1..Len(s) PROVE g.mem[g.read_index + i - 1] = s[i]
  <2>1. CASE i <= n
    <3>1. i \in 1..n /\ rd + i - 1 \in 0..(c - 1) /\ rd + i - 1 < wr
      BY <1>1, <1>5, <2>1
    <3>. QED BY <1>3, <1>5, <1>7, <1>9, <3>1
  <2>2. CASE i > n
    <3>1. i - n \in 1..k /\ wr + (i - n) - 1 = rd + i - 1 /\ n + (i - n) = i
      BY <1>1, <1>5, <2>2
    <3>2. m2[wr + (i - n) - 1] = x[i - n] /\ s[n + (i - n)] = x[i - n]
      BY <1>5, <1>7, <3>1
    <3>. QED BY <1>9, <3>1, <3>2
  <2>. QED BY <1>1, <1>5, <2>1, <2>2
<1>11. Len(s) = Length(g)
  BY <1>5, <1>6, <1>9
<1>12. Content(g) = s
  BY <1>5, <1>9, <1>10, <1>11, ContentIs
<1>. QED BY <1>4, <1>9, <1>12 DEF s, d

\* What is written in front of the read index is at the front of the bytes.
LEMMA PrependedOK ==
    ASSUME NEW b, BufferOK(b), NEW x \in Seq(Cell), Len(x) <= b.read_index
    PROVE  BufferOK(Prepended(b, x)) /\ Content(Prepended(b, x)) = x \o Content(b)
<1>. DEFINE c == b.capacity
            v == b.reserved
            rd == b.read_index
            wr == b.write_index
            n == Length(b)
            k == Len(x)
            d == Content(b)
            m == b.mem
            r == rd - k
            m2 == Copied(m, r, x)
            g == Buffer(m2, c, r, wr, v)
            s == x \o d
<1>1. c \in Nat /\ v \in Nat /\ rd \in Nat /\ wr \in Nat /\ n \in Nat /\ wr = rd + n
      /\ wr <= c /\ v <= c /\ k \in Nat /\ k <= rd
  BY BufferFacts, LenProperties
<1>2. m \in [0..(c - 1) -> Cell]
  BY BufferFacts
<1>3. /\ d \in Seq(Cell) /\ Len(d) = n
      /\ \A i \in 1..n : d[i] = m[rd + i - 1]
  BY ContentFacts
<1>4. Prepended(b, x) = g
  BY DEF Prepended
<1>5. /\ s \in Seq(Cell) /\ Len(s) = k + n
      /\ \A i \in 1..k : s[i] = x[i]
      /\ \A i \in 1..n : s[k + i] = d[i]
  <2>. HIDE DEF d, n
  <2>1. /\ s \in Seq(Cell) /\ Len(s) = k + Len(d)
        /\ \A i \in 1..k : s[i] = x[i]
        /\ \A i \in 1..Len(d) : s[k + i] = d[i]
    BY <1>3, CatOK
  <2>. QED BY <1>3, <2>1
<1>. HIDE DEF m, c, v, rd, wr, n, d, s
<1>6. c \in Nat /\ v \in Nat /\ v <= c /\ r \in Nat /\ wr \in Nat /\ r <= wr /\ wr <= c
      /\ wr - r = k + n /\ r + k = rd /\ r + k <= c
  BY <1>1
<1>. HIDE DEF r
<1>7. /\ m2 \in [0..(c - 1) -> Cell]
      /\ \A i \in 1..k : m2[r + i - 1] = x[i]
      /\ \A j \in 0..(c - 1) : (j < r \/ r + k <= j) => m2[j] = m[j]
  BY <1>2, <1>6, CopiedOK
<1>. HIDE DEF m2, k
<1>8. m2 \in [0..(c - 1) -> Cell]
  BY <1>7
<1>9. BufferOK(g) /\ Length(g) = wr - r /\ g.mem = m2 /\ g.read_index = r
  BY <1>6, <1>8, MakeBuffer
<1>. HIDE DEF g
<1>10. ASSUME NEW i \in 1..Len(s) PROVE g.mem[g.read_index + i - 1] = s[i]
  <2>1. CASE i <= k
    <3>1. i \in 1..k
      BY <1>1, <1>5, <2>1
    <3>. QED BY <1>5, <1>7, <1>9, <3>1
  <2>2. CASE i > k
    <3>1. /\ i - k \in 1..n /\ k + (i - k) = i /\ rd + (i - k) - 1 = r + i - 1
          /\ r + i - 1 \in 0..(c - 1) /\ r + k <= r + i - 1
      BY <1>1, <1>5, <1>6, <2>2
    <3>2. s[k + (i - k)] = m[rd + (i - k) - 1] /\ m2[r + i - 1] = m[r + i - 1]
      BY <1>3, <1>5, <1>7, <3>1
    <3>. QED BY <1>9, <3>1, <3>2
  <2>. QED BY <1>1, <1>5, <2>1, <2>2
<1>11. Len(s) = Length(g)
  BY <1>5, <1>6, <1>9
<1>12. Content(g) = s
  BY <1>5, <1>9, <1>10, <1>11, ContentIs
<1>. QED BY <1>4, <1>9, <1>12 DEF s, d

\* Write() appends exactly its argument.
LEMMA WrittenOK ==
    ASSUME NEW b, BufferOK(b), NEW x \in Seq(Cell)
    PROVE  /\ BufferOK(Written(b, x)) /\ Content(Written(b, x)) = Content(b) \o x
           /\ EnsureAsserts(b, Len(x))
<1>1. Len(x) \in Nat
  BY LenProperties
<1>. DEFINE e == Ensured(b, Len(x))
<1>2. /\ BufferOK(e) /\ Content(e) = Content(b) /\ WritableBytes(e) >= Len(x)
      /\ EnsureAsserts(b, Len(x))
  BY <1>1, EnsuredOK
<1>3. Written(b, x) = Filled(e, x)
  BY DEF Written
<1>4. WritableBytes(e) \in Nat
  BY <1>2, BufferFacts
<1>. HIDE DEF e
<1>5. Len(x) <= WritableBytes(e)
  BY <1>1, <1>2, <1>4
<1>. QED BY <1>2, <1>3, <1>5, FilledOK

\* Reset(): both indices at the reserve.
LEMMA ResetOK ==
    ASSUME NEW b, BufferOK(b)
    PROVE  BufferOK(Truncated(b, 0)) /\ Content(Truncated(b, 0)) = <<>>
<1>. DEFINE c == b.capacity
            m == b.mem
            v == b.reserved
            g == Buffer(m, c, v, v, v)
<1>1. Truncated(b, 0) = g
  BY DEF Truncated, Indexed
<1>2. c \in Nat /\ v \in Nat /\ v <= v /\ v <= c
  BY BufferFacts
<1>3. m \in [0..(c - 1) -> Cell]
  BY BufferFacts
<1>. HIDE DEF c, m, v
<1>4. BufferOK(g) /\ Length(g) = v - v
  BY <1>2, <1>3, MakeBuffer
<1>. HIDE DEF g
<1>5. Len(Content(g)) = 0 /\ Content(g) \in Seq(Cell)
  BY <1>2, <1>4, ContentFacts
<1>6. Content(g) = <<>>
  BY <1>5, EmptySeq
<1>. QED BY <1>1, <1>4, <1>6

\* Truncate() keeps exactly the first n bytes.
LEMMA TruncatedOK ==
    ASSUME NEW b, BufferOK(b), NEW n \in Nat
    PROVE  /\ BufferOK(Truncated(b, n))
           /\ Content(Truncated(b, n))
                = IF n < Len(Content(b)) THEN SubSeq(Content(b), 1, n) ELSE Content(b)
<1>1. Len(Content(b)) = Length(b) /\ Content(b) \in Seq(Cell) /\ Length(b) \in Nat
  BY ContentFacts, BufferFacts
<1>2. CASE n = 0
  <2>1. BufferOK(Truncated(b, n)) /\ Content(Truncated(b, n)) = <<>>
    BY <1>2, ResetOK
  <2>2. CASE 0 < Length(b)
    <3>1. SubSeq(Content(b), 1, 0) = <<>>
      BY SubSeqEmpty
    <3>. QED BY <1>1, <1>2, <2>1, <2>2, <3>1
  <2>3. CASE Length(b) = 0
    <3>1. Content(b) = <<>>
      BY <1>1, <2>3, EmptySeq
    <3>. QED BY <1>1, <1>2, <2>1, <2>3, <3>1
  <2>. QED BY <1>1, <2>2, <2>3
<1>3. CASE n > 0
  <2>. DEFINE rd == b.read_index
              wr == b.write_index
              k == Length(b)
  <2>1. rd \in Nat /\ wr \in Nat /\ wr = rd + k
    BY BufferFacts
  <2>2. Truncated(b, n) = IF wr > rd + n THEN Indexed(b, rd, rd + n) ELSE b
    BY <1>3 DEF Truncated
  <2>. HIDE DEF wr
  <2>3. CASE n < k
    <3>1. Truncated(b, n) = Indexed(b, rd + 0, rd + n)
      <4>1. wr > rd + n /\ rd + 0 = rd
        BY <1>1, <2>1, <2>3
      <4>. QED BY <2>2, <4>1
    <3>2. 0 \in Nat /\ 0 <= n /\ n <= k /\ 0 + 1 = 1
      BY <1>1, <2>3
    <3>3. /\ BufferOK(Indexed(b, rd + 0, rd + n))
          /\ Content(Indexed(b, rd + 0, rd + n)) = SubSeq(Content(b), 0 + 1, n)
      BY <3>2, IndexedOK
    <3>. QED BY <1>1, <2>3, <3>1, <3>2, <3>3
  <2>4. CASE ~(n < k)
    <3>1. ~(wr > rd + n)
      BY <1>1, <2>1, <2>4
    <3>. QED BY <1>1, <2>2, <2>4, <3>1
  <2>. QED BY <2>3, <2>4
<1>. QED BY <1>2, <1>3

\* Skip() drops exactly the first n bytes.
LEMMA SkippedOK ==
    ASSUME NEW b, BufferOK(b), NEW n \in Nat
    PROVE  /\ BufferOK(Skipped(b, n))
           /\ Content(Skipped(b, n)) = SubSeq(Content(b), n + 1, Len(Content(b)))
<1>1. Len(Content(b)) = Length(b) /\ Content(b) \in Seq(Cell) /\ Length(b) \in Nat
  BY ContentFacts, BufferFacts
<1>2. CASE n < Length(b)
  <2>1. b.write_index = b.read_index + Length(b)
    BY BufferFacts
  <2>2. Skipped(b, n) = Indexed(b, b.read_index + n, b.read_index + Length(b))
    BY <1>2, <2>1 DEF Skipped
  <2>3. n <= Length(b) /\ Length(b) <= Length(b)
    BY <1>1, <1>2
  <2>. QED BY <1>1, <2>2, <2>3, IndexedOK
<1>3. CASE ~(n < Length(b))
  <2>1. Skipped(b, n) = Truncated(b, 0)
    BY <1>3 DEF Skipped
  <2>2. n + 1 \in Int /\ Length(b) \in Int /\ Length(b) < n + 1
    BY <1>1, <1>3
  <2>3. SubSeq(Content(b), n + 1, Length(b)) = <<>>
    BY <2>2, SubSeqEmpty
  <2>. QED BY <1>1, <2>1, <2>3, ResetOK
<1>. QED BY <1>2, <1>3

\* Shrink() keeps the bytes in its new block.
LEMMA ShrunkOK ==
    ASSUME NEW b, BufferOK(b), NEW n \in Nat
    PROVE  /\ BufferOK(Shrunk(b, n)) /\ Content(Shrunk(b, n)) = Content(b)
           /\ ShrinkAsserts(b, n)
<1>. DEFINE d == Content(b)
            z == NewBuffer(Length(b) + n, kCheapPrependSize)
<1>1. d \in Seq(Cell) /\ Len(d) = Length(b) /\ Length(b) \in Nat
  BY ContentFacts, BufferFacts
<1>2. Length(b) + n \in Nat /\ kCheapPrependSize \in Nat
  BY <1>1, BufferAssumption
<1>3. BufferOK(z) /\ Content(z) = <<>>
  BY <1>2, NewBufferOK
<1>4. Shrunk(b, n) = Written(z, d) /\ (ShrinkAsserts(b, n) <=> EnsureAsserts(z, Length(b)))
  BY DEF Shrunk, ShrinkAsserts
<1>. HIDE DEF d, z
<1>5. BufferOK(Written(z, d)) /\ Content(Written(z, d)) = <<>> \o d /\ EnsureAsserts(z, Len(d))
  BY <1>1, <1>3, WrittenOK
<1>6. <<>> \o d = d
  BY <1>1, ConcatEmptySeq
<1>. QED BY <1>1, <1>4, <1>5, <1>6 DEF d

\* ToText() writes one byte and takes it back.
LEMMA ToTextOK ==
    ASSUME NEW b, BufferOK(b), NEW zero \in Byte
    PROVE  /\ BufferOK(Indexed(Written(b, <<zero>>), Written(b, <<zero>>).read_index,
                               Written(b, <<zero>>).write_index - 1))
           /\ Content(Indexed(Written(b, <<zero>>), Written(b, <<zero>>).read_index,
                              Written(b, <<zero>>).write_index - 1)) = Content(b)
           /\ EnsureAsserts(b, 1)
<1>. DEFINE x == <<zero>>
            z == Written(b, x)
            d == Content(b)
            k == Len(d)
            rd == z.read_index
            wr == z.write_index
            t == SubSeq(d \o x, 0 + 1, k)
<1>1. x \in Seq(Cell) /\ Len(x) = 1
  BY DEF Cell
<1>2. d \in Seq(Cell) /\ k \in Nat
  BY ContentFacts, LenProperties
<1>. HIDE DEF x, d, k
<1>3. BufferOK(z) /\ Content(z) = d \o x /\ EnsureAsserts(b, 1)
  BY <1>1, WrittenOK DEF d
<1>4. /\ d \o x \in Seq(Cell) /\ Len(d \o x) = k + 1
      /\ \A i \in 1..k : (d \o x)[i] = d[i]
  <2>1. /\ d \o x \in Seq(Cell) /\ Len(d \o x) = Len(d) + Len(x)
        /\ \A i \in 1..Len(d) : (d \o x)[i] = d[i]
    BY <1>1, <1>2, CatOK
  <2>. QED BY <1>1, <2>1 DEF k
<1>. HIDE DEF z
<1>5. Length(z) = k + 1 /\ rd \in Nat /\ wr = rd + Length(z)
  BY <1>3, <1>4, ContentFacts, BufferFacts
<1>. HIDE DEF rd, wr
<1>6. rd + 0 = rd /\ wr - 1 = rd + k /\ 0 \in Nat /\ 0 <= k /\ k <= Length(z) /\ k <= k + 1
  BY <1>2, <1>5
<1>7. BufferOK(Indexed(z, rd + 0, rd + k)) /\ Content(Indexed(z, rd + 0, rd + k)) = t
  BY <1>2, <1>3, <1>6, IndexedOK DEF rd
<1>8. /\ t \in Seq(Cell) /\ Len(t) = k - 0
      /\ \A i \in 1..(k - 0) : t[i] = (d \o x)[0 + i]
  BY <1>2, <1>4, <1>6, SubOK
<1>. HIDE DEF t
<1>9. t = d
  <2>1. Len(t) = Len(d)
    BY <1>2, <1>8 DEF k
  <2>2. \A i \in 1..Len(t) : t[i] = d[i]
    BY <1>2, <1>4, <1>8
  <2>. QED BY <1>2, <1>8, <2>1, <2>2, SameSeq
<1>. QED BY <1>3, <1>6, <1>7, <1>9 DEF rd, wr, z, x, d

-----------------------------------------------------------------------------
(* The inductive invariant, and one lemma per operation.                   *)

\* What the last call read is still in memory, right before the read index.
UnreadOK ==
    /\ unread \in Seq(Cell)
    /\ Len(unread) <= buf.read_index
    /\ \A i \in 1..Len(unread) : buf.mem[buf.read_index - Len(unread) + i - 1] = unread[i]

BufInv == TypeOK /\ AssertsHold /\ UnreadOK

\* What callers write is a sequence of cells.
LEMMA ChunkIsSeq == \A d \in Chunks : d \in Seq(Cell) /\ Len(d) \in Nat
<1>. TAKE d \in Chunks
<1>1. d \in Seq(Byte)
  BY BufferAssumption
<1>2. d \in Seq(Cell)
  BY <1>1, SeqMonotonic DEF Cell
<1>. QED BY <1>2, LenProperties

\* After a call that is not a read there is nothing to unread.
LEMMA NothingUnread == ASSUME TypeOK', unread' = <<>> PROVE UnreadOK'
<1>1. <<>> \in Seq(Cell) /\ Len(<<>>) = 0
  BY EmptySeq
<1>2. buf'.read_index \in Nat
  <2>1. BufferOK(buf')
    BY DEF TypeOK
  <2>. QED BY <2>1, BufferFacts
<1>. QED BY <1>1, <1>2 DEF UnreadOK

\* A call that makes a well-formed Buffer keeps the invariant.
LEMMA BecomesOK ==
    ASSUME BufInv, NEW b, NEW a, NEW c, Becomes(b, a, c), BufferOK(b), a
    PROVE  BufInv' /\ buf' = b /\ call' = c /\ unread' = <<>>
<1>1. buf' = b /\ call' = c /\ unread' = <<>> /\ asserts' = (asserts /\ a)
  BY DEF Becomes
<1>2. TypeOK'
  BY <1>1 DEF TypeOK
<1>3. AssertsHold'
  BY <1>1 DEF AssertsHold, BufInv
<1>4. UnreadOK'
  BY <1>1, <1>2, NothingUnread
<1>. QED BY <1>1, <1>2, <1>3, <1>4 DEF BufInv

\* Write() keeps the invariant and is a step of ByteQueue.
LEMMA StepWrite ==
    ASSUME BufInv, NEW d \in Chunks, Write(d)
    PROVE  BufInv' /\ Queue!Next
<1>1. BufferOK(buf) /\ d \in Seq(Cell)
  BY ChunkIsSeq DEF BufInv, TypeOK
<1>2. /\ BufferOK(Written(buf, d)) /\ Content(Written(buf, d)) = Content(buf) \o d
      /\ EnsureAsserts(buf, Len(d))
  BY <1>1, WrittenOK
<1>3. BufInv' /\ buf' = Written(buf, d) /\ call' = <<"put", d>> /\ unread' = <<>>
  BY <1>2, BecomesOK DEF Write
<1>4. Queue!Put(d)
  BY <1>2, <1>3 DEF Queue!Put
<1>. QED BY <1>3, <1>4 DEF Queue!Next

\* Recv() keeps the invariant and is a step of ByteQueue.
LEMMA StepRecv ==
    ASSUME BufInv, NEW d \in Chunks, Recv(d)
    PROVE  BufInv' /\ Queue!Next
<1>1. BufferOK(buf) /\ d \in Seq(Cell) /\ Len(d) <= WritableBytes(buf)
  BY ChunkIsSeq DEF BufInv, TypeOK, Recv
<1>2. BufferOK(Filled(buf, d)) /\ Content(Filled(buf, d)) = Content(buf) \o d
  BY <1>1, FilledOK
<1>3. BufInv' /\ buf' = Filled(buf, d) /\ call' = <<"put", d>> /\ unread' = <<>>
  BY <1>2, BecomesOK DEF Recv
<1>4. Queue!Put(d)
  BY <1>2, <1>3 DEF Queue!Put
<1>. QED BY <1>3, <1>4 DEF Queue!Next

\* ReadFromSocketStream() keeps the invariant and is a step of ByteQueue.
LEMMA StepReadFromSocketStream ==
    ASSUME BufInv, NEW d \in Chunks, ReadFromSocketStream(d)
    PROVE  BufInv' /\ Queue!Next
<1>. DEFINE e == RoomToRecv(buf)
            a == WritableBytes(buf) = 0 => EnsureAsserts(buf, kInitialSize)
<1>1. BufferOK(buf) /\ d \in Seq(Cell) /\ Len(d) <= WritableBytes(e)
  BY ChunkIsSeq DEF BufInv, TypeOK, ReadFromSocketStream
<1>2. BufferOK(e) /\ Content(e) = Content(buf) /\ a
  <2>1. kInitialSize \in Nat
    BY BufferAssumption
  <2>2. /\ BufferOK(Ensured(buf, kInitialSize)) /\ EnsureAsserts(buf, kInitialSize)
        /\ Content(Ensured(buf, kInitialSize)) = Content(buf)
    BY <1>1, <2>1, EnsuredOK
  <2>. QED BY <1>1, <2>2 DEF RoomToRecv
<1>3. Becomes(Filled(e, d), a, <<"put", d>>)
  BY DEF ReadFromSocketStream
<1>. HIDE DEF e, a
<1>4. BufferOK(Filled(e, d)) /\ Content(Filled(e, d)) = Content(buf) \o d
  BY <1>1, <1>2, FilledOK
<1>5. BufInv' /\ buf' = Filled(e, d) /\ call' = <<"put", d>> /\ unread' = <<>>
  BY <1>2, <1>3, <1>4, BecomesOK
<1>6. Queue!Put(d)
  BY <1>4, <1>5 DEF Queue!Put
<1>. QED BY <1>5, <1>6 DEF Queue!Next

\* ReadNFromSocketStream() keeps the invariant and is a step of ByteQueue.
LEMMA StepReadNFromSocketStream ==
    ASSUME BufInv, NEW d \in Chunks, NEW n \in Sizes, ReadNFromSocketStream(n, d)
    PROVE  BufInv' /\ Queue!Next
<1>. DEFINE e == Ensured(buf, n)
<1>1. BufferOK(buf) /\ d \in Seq(Cell) /\ Len(d) \in Nat /\ Len(d) <= n /\ n \in Nat
  BY ChunkIsSeq, BufferAssumption DEF BufInv, TypeOK, ReadNFromSocketStream
<1>2. /\ BufferOK(e) /\ Content(e) = Content(buf) /\ WritableBytes(e) >= n
      /\ EnsureAsserts(buf, n)
  BY <1>1, EnsuredOK
<1>3. Becomes(Filled(e, d), EnsureAsserts(buf, n), <<"put", d>>)
  BY DEF ReadNFromSocketStream
<1>. HIDE DEF e
<1>4. Len(d) <= WritableBytes(e)
  <2>1. WritableBytes(e) \in Nat
    BY <1>2, BufferFacts
  <2>. QED BY <1>1, <1>2, <2>1
<1>5. BufferOK(Filled(e, d)) /\ Content(Filled(e, d)) = Content(buf) \o d
  BY <1>1, <1>2, <1>4, FilledOK
<1>6. BufInv' /\ buf' = Filled(e, d) /\ call' = <<"put", d>> /\ unread' = <<>>
  BY <1>2, <1>3, <1>5, BecomesOK
<1>7. Queue!Put(d)
  BY <1>5, <1>6 DEF Queue!Put
<1>. QED BY <1>6, <1>7 DEF Queue!Next

\* Prepend() keeps the invariant and is a step of ByteQueue.
LEMMA StepPrepend ==
    ASSUME BufInv, NEW d \in Chunks, Prepend(d)
    PROVE  BufInv' /\ Queue!Next
<1>1. BufferOK(buf) /\ d \in Seq(Cell) /\ Len(d) <= buf.read_index
  BY ChunkIsSeq DEF BufInv, TypeOK, Prepend, PrependableBytes
<1>2. BufferOK(Prepended(buf, d)) /\ Content(Prepended(buf, d)) = d \o Content(buf)
  BY <1>1, PrependedOK
<1>3. BufInv' /\ buf' = Prepended(buf, d) /\ call' = <<"front", d>> /\ unread' = <<>>
  BY <1>2, BecomesOK DEF Prepend
<1>4. Queue!PutFront(d)
  BY <1>2, <1>3 DEF Queue!PutFront
<1>. QED BY <1>3, <1>4 DEF Queue!Next

\* What a read leaves behind is in memory right before the read index.
LEMMA LeftBehind ==
    ASSUME BufferOK(buf), NEW n \in Nat, n <= Length(buf),
           buf' = Indexed(buf, buf.read_index + n, buf.write_index),
           unread' = SubSeq(Content(buf), 1, n)
    PROVE  UnreadOK'
<1>. DEFINE rd == buf.read_index
            k == Length(buf)
            d == Content(buf)
            u == SubSeq(d, 0 + 1, n)
<1>1. rd \in Nat /\ k \in Nat /\ buf.write_index = rd + k
  BY BufferFacts
<1>2. d \in Seq(Cell) /\ Len(d) = k /\ \A i \in 1..k : d[i] = buf.mem[rd + i - 1]
  BY ContentFacts
<1>3. buf'.mem = buf.mem /\ buf'.read_index = rd + n
  BY DEF Indexed, Buffer
<1>4. /\ u \in Seq(Cell) /\ Len(u) = n - 0
      /\ \A i \in 1..(n - 0) : u[i] = d[0 + i]
  <2>1. 0 \in Nat /\ 0 <= n /\ n <= Len(d)
    BY <1>2
  <2>. HIDE DEF d
  <2>. QED BY <1>2, <2>1, SubOK
<1>5. unread' = u /\ Len(u) = n
  BY <1>4
<1>. HIDE DEF rd, k, d, u
<1>6. n <= k
  BY DEF k
<1>7. ASSUME NEW i \in 1..n PROVE buf'.mem[buf'.read_index - n + i - 1] = u[i]
  <2>1. (rd + n) - n + i - 1 = rd + i - 1 /\ i \in 1..k /\ 0 + i = i /\ i \in 1..(n - 0)
    BY <1>1, <1>6
  <2>. QED BY <1>2, <1>3, <1>4, <2>1
<1>8. n <= buf'.read_index
  BY <1>1, <1>3
<1>. QED BY <1>4, <1>5, <1>7, <1>8 DEF UnreadOK

\* Skip() keeps the invariant and is a step of ByteQueue.
LEMMA StepSkip ==
    ASSUME BufInv, NEW n \in Sizes, Skip(n)
    PROVE  BufInv' /\ Queue!Next
<1>1. BufferOK(buf) /\ n \in Nat /\ asserts
  BY BufferAssumption DEF BufInv, TypeOK, AssertsHold
<1>2. /\ BufferOK(Skipped(buf, n))
      /\ Content(Skipped(buf, n)) = SubSeq(Content(buf), n + 1, Len(Content(buf)))
  BY <1>1, SkippedOK
<1>3. /\ buf' = Skipped(buf, n) /\ call' = <<"take", n>> /\ asserts' = asserts
      /\ unread' = IF n < Length(buf) THEN SubSeq(Content(buf), 1, n) ELSE <<>>
  BY DEF Skip
<1>4. Len(Content(buf)) = Length(buf) /\ Length(buf) \in Nat
  BY <1>1, ContentFacts, BufferFacts
<1>5. TypeOK' /\ AssertsHold'
  BY <1>1, <1>2, <1>3 DEF TypeOK, AssertsHold
<1>6. UnreadOK'
  <2>1. CASE n < Length(buf)
    <3>1. buf' = Indexed(buf, buf.read_index + n, buf.write_index)
      BY <1>3, <2>1 DEF Skipped
    <3>2. unread' = SubSeq(Content(buf), 1, n) /\ n <= Length(buf)
      BY <1>1, <1>3, <1>4, <2>1
    <3>. QED BY <1>1, <3>1, <3>2, LeftBehind
  <2>2. CASE ~(n < Length(buf))
    BY <1>3, <1>5, <2>2, NothingUnread
  <2>. QED BY <2>1, <2>2
<1>7. Queue!Take(n)
  BY <1>2, <1>3, <1>4 DEF Queue!Take
<1>. QED BY <1>5, <1>6, <1>7 DEF BufInv, Queue!Next

\* ReadByte() keeps the invariant and is a step of ByteQueue.
LEMMA StepReadByte ==
    ASSUME BufInv, ReadByte
    PROVE  BufInv' /\ Queue!Next
<1>. DEFINE rd == buf.read_index
            k == Length(buf)
            g == Indexed(buf, rd + 1, rd + k)
<1>1. BufferOK(buf) /\ asserts /\ 1 \in Sizes /\ 1 \in Nat
  BY BufferAssumption DEF BufInv, TypeOK, AssertsHold
<1>2. /\ k >= 1 /\ call' = <<"take", 1>> /\ asserts' = asserts
      /\ buf' = Indexed(buf, rd + 1, buf.write_index)
      /\ unread' = IF 1 < k THEN SubSeq(Content(buf), 1, 1) ELSE <<>>
  BY DEF ReadByte
<1>3. k \in Nat /\ buf.write_index = rd + k /\ Len(Content(buf)) = k
  BY <1>1, BufferFacts, ContentFacts
<1>4. buf' = g
  BY <1>2, <1>3
<1>5. BufferOK(g) /\ Content(g) = SubSeq(Content(buf), 1 + 1, k)
  <2>1. 1 <= k /\ k <= Length(buf)
    BY <1>2, <1>3
  <2>. QED BY <1>1, <1>3, <2>1, IndexedOK
<1>6. TypeOK' /\ AssertsHold'
  BY <1>1, <1>2, <1>4, <1>5 DEF TypeOK, AssertsHold
<1>7. UnreadOK'
  <2>1. CASE 1 < k
    <3>1. 1 <= Length(buf) /\ unread' = SubSeq(Content(buf), 1, 1)
      BY <1>2, <1>3, <2>1
    <3>. QED BY <1>1, <1>2, <3>1, LeftBehind
  <2>2. CASE ~(1 < k)
    BY <1>2, <1>6, <2>2, NothingUnread
  <2>. QED BY <2>1, <2>2
<1>8. Queue!Take(1)
  BY <1>2, <1>3, <1>4, <1>5 DEF Queue!Take
<1>. QED BY <1>1, <1>6, <1>7, <1>8 DEF BufInv, Queue!Next

\* Truncate() keeps the invariant and is a step of ByteQueue.
LEMMA StepTruncate ==
    ASSUME BufInv, NEW n \in Sizes, Truncate(n)
    PROVE  BufInv' /\ Queue!Next
<1>1. BufferOK(buf) /\ n \in Nat
  BY BufferAssumption DEF BufInv, TypeOK
<1>2. /\ BufferOK(Truncated(buf, n))
      /\ Content(Truncated(buf, n))
           = IF n < Len(Content(buf)) THEN SubSeq(Content(buf), 1, n) ELSE Content(buf)
  BY <1>1, TruncatedOK
<1>3. BufInv' /\ buf' = Truncated(buf, n) /\ call' = <<"keep", n>> /\ unread' = <<>>
  BY <1>2, BecomesOK DEF Truncate
<1>4. Queue!Keep(n)
  BY <1>2, <1>3 DEF Queue!Keep
<1>. QED BY <1>3, <1>4 DEF Queue!Next

\* UnwriteBytes() keeps the invariant and is a step of ByteQueue.
LEMMA StepUnwriteBytes ==
    ASSUME BufInv, NEW n \in Sizes, UnwriteBytes(n)
    PROVE  BufInv' /\ Queue!Next
<1>. DEFINE rd == buf.read_index
            wr == buf.write_index
            k == Length(buf)
            g == Indexed(buf, rd, wr - n)
<1>1. BufferOK(buf) /\ n \in Nat /\ n <= k
  BY BufferAssumption DEF BufInv, TypeOK, UnwriteBytes
<1>2. k \in Nat /\ rd \in Nat /\ wr = rd + k /\ Len(Content(buf)) = k
  BY <1>1, BufferFacts, ContentFacts
<1>3. Becomes(g, TRUE, <<"cut", n>>)
  BY DEF UnwriteBytes
<1>4. BufferOK(g) /\ Content(g) = SubSeq(Content(buf), 1, k - n)
  <2>. HIDE DEF rd, wr, k
  <2>1. /\ rd + 0 = rd /\ wr - n = rd + (k - n) /\ 0 + 1 = 1 /\ 0 \in Nat
        /\ k - n \in Nat /\ 0 <= k - n /\ k - n <= k
    BY <1>1, <1>2
  <2>2. /\ BufferOK(Indexed(buf, rd + 0, rd + (k - n)))
        /\ Content(Indexed(buf, rd + 0, rd + (k - n))) = SubSeq(Content(buf), 0 + 1, k - n)
    <3>. DEFINE hi == k - n
    <3>. HIDE DEF hi
    <3>1. hi \in Nat /\ 0 <= hi /\ hi <= Length(buf)
      BY <2>1 DEF hi, k
    <3>2. /\ BufferOK(Indexed(buf, rd + 0, rd + hi))
          /\ Content(Indexed(buf, rd + 0, rd + hi)) = SubSeq(Content(buf), 0 + 1, hi)
      BY <1>1, <2>1, <3>1, IndexedOK DEF rd
    <3>. QED BY <3>2 DEF hi
  <2>. QED BY <2>1, <2>2
<1>. HIDE DEF g
<1>5. BufInv' /\ buf' = g /\ call' = <<"cut", n>> /\ unread' = <<>>
  BY <1>3, <1>4, BecomesOK
<1>6. Queue!Cut(n)
  BY <1>1, <1>2, <1>4, <1>5 DEF Queue!Cut
<1>. QED BY <1>5, <1>6 DEF Queue!Next

\* UnreadBytes() keeps the invariant and is a step of ByteQueue.
LEMMA StepUnreadBytes ==
    ASSUME BufInv, NEW n \in Sizes, UnreadBytes(n)
    PROVE  BufInv' /\ Queue!Next
<1>. DEFINE c == buf.capacity
            m == buf.mem
            v == buf.reserved
            rd == buf.read_index
            wr == buf.write_index
            k == Length(buf)
            d == Content(buf)
            L == Len(unread)
            lo == L - n
            u == SubSeq(unread, lo + 1, L)
            s == u \o d
            r == rd - n
            g == Buffer(m, c, r, wr, v)
<1>1. BufferOK(buf) /\ n \in Nat
  BY BufferAssumption DEF BufInv, TypeOK
<1>2. /\ unread \in Seq(Cell) /\ L \in Nat /\ L <= rd
      /\ \A i \in 1..L : m[rd - L + i - 1] = unread[i]
  BY LenProperties DEF BufInv, UnreadOK
<1>3. n <= L /\ Becomes(g, TRUE, <<"back", n>>)
  BY DEF UnreadBytes, Indexed
<1>4. /\ c \in Nat /\ v \in Nat /\ rd \in Nat /\ wr \in Nat /\ k \in Nat /\ wr = rd + k
      /\ wr <= c /\ v <= c
  BY <1>1, BufferFacts
<1>5. m \in [0..(c - 1) -> Cell]
  BY <1>1, BufferFacts
<1>6. d \in Seq(Cell) /\ Len(d) = k /\ \A i \in 1..k : d[i] = m[rd + i - 1]
  BY <1>1, ContentFacts
<1>. HIDE DEF c, m, v, rd, wr, k, d
<1>7. lo \in Nat /\ lo <= L /\ L - lo = n /\ L <= L
  BY <1>1, <1>2, <1>3
<1>8. u \in Seq(Cell) /\ Len(u) = n /\ \A i \in 1..n : u[i] = unread[lo + i]
  <2>. HIDE DEF lo
  <2>1. u \in Seq(Cell) /\ Len(u) = L - lo /\ \A i \in 1..(L - lo) : u[i] = unread[lo + i]
    BY <1>2, <1>7, SubOK
  <2>. HIDE DEF u, L
  <2>. QED BY <1>7, <2>1
<1>. HIDE DEF u
<1>9. /\ s \in Seq(Cell) /\ Len(s) = n + k
      /\ \A i \in 1..n : s[i] = u[i]
      /\ \A i \in 1..k : s[n + i] = d[i]
  BY <1>6, <1>8, CatOK
<1>. HIDE DEF s, L
<1>10. /\ c \in Nat /\ v \in Nat /\ v <= c /\ r \in Nat /\ wr \in Nat /\ r <= wr /\ wr <= c
       /\ wr - r = n + k
  BY <1>1, <1>2, <1>3, <1>4
<1>. HIDE DEF r, lo
<1>11. BufferOK(g) /\ Length(g) = wr - r /\ g.mem = m /\ g.read_index = r
  BY <1>5, <1>10, MakeBuffer
<1>. HIDE DEF g
<1>12. ASSUME NEW i \in 1..Len(s) PROVE g.mem[g.read_index + i - 1] = s[i]
  <2>1. CASE i <= n
    <3>1. i \in 1..n /\ lo + i \in 1..L /\ rd - L + (lo + i) - 1 = r + i - 1
      BY <1>1, <1>2, <1>3, <1>4, <1>9, <2>1 DEF r, lo
    <3>2. m[rd - L + (lo + i) - 1] = unread[lo + i]
      BY <1>2, <3>1
    <3>. QED BY <1>8, <1>9, <1>11, <3>1, <3>2
  <2>2. CASE i > n
    <3>1. i - n \in 1..k /\ n + (i - n) = i /\ rd + (i - n) - 1 = r + i - 1
      BY <1>1, <1>4, <1>9, <2>2 DEF r
    <3>2. s[n + (i - n)] = m[rd + (i - n) - 1]
      BY <1>6, <1>9, <3>1
    <3>. QED BY <1>11, <3>1, <3>2
  <2>. QED BY <1>1, <1>4, <1>9, <2>1, <2>2
<1>13. Content(g) = s
  <2>1. Len(s) = Length(g)
    BY <1>9, <1>10, <1>11
  <2>. QED BY <1>9, <1>11, <1>12, <2>1, ContentIs
<1>14. BufInv' /\ buf' = g /\ call' = <<"back", n>> /\ unread' = <<>>
  BY <1>3, <1>11, BecomesOK
<1>15. Queue!PutBack(n)
  BY <1>3, <1>13, <1>14 DEF Queue!PutBack, s, u, d, lo, L
<1>. QED BY <1>14, <1>15 DEF Queue!Next

\* The calls that only arrange the memory.
LEMMA StepArrange ==
    ASSUME BufInv, NEW b, NEW a, Becomes(b, a, <<"arrange">>), BufferOK(b), a,
           Content(b) = Content(buf)
    PROVE  BufInv' /\ Queue!Next
<1>1. BufInv' /\ buf' = b /\ call' = <<"arrange">> /\ unread' = <<>>
  BY BecomesOK
<1>2. Queue!Arrange
  BY <1>1 DEF Queue!Arrange
<1>. QED BY <1>1, <1>2 DEF Queue!Next

\* EnsureWritableBytes() keeps the invariant and is a step of ByteQueue.
LEMMA StepEnsureWritableBytes ==
    ASSUME BufInv, NEW n \in Sizes, EnsureWritableBytes(n)
    PROVE  BufInv' /\ Queue!Next
<1>1. BufferOK(buf) /\ n \in Nat
  BY BufferAssumption DEF BufInv, TypeOK
<1>. QED BY <1>1, EnsuredOK, StepArrange DEF EnsureWritableBytes

\* Reserve() keeps the invariant and is a step of ByteQueue.
LEMMA StepReserve ==
    ASSUME BufInv, NEW n \in Sizes, Reserve(n)
    PROVE  BufInv' /\ Queue!Next
<1>1. BufferOK(buf) /\ n \in Nat
  BY BufferAssumption DEF BufInv, TypeOK
<1>. QED BY <1>1, ReservedOK, StepArrange DEF Reserve

\* Shrink() keeps the invariant and is a step of ByteQueue.
LEMMA StepShrink ==
    ASSUME BufInv, NEW n \in Sizes, Shrink(n)
    PROVE  BufInv' /\ Queue!Next
<1>1. BufferOK(buf) /\ n \in Nat
  BY BufferAssumption DEF BufInv, TypeOK
<1>. QED BY <1>1, ShrunkOK, StepArrange DEF Shrink

\* ToText() keeps the invariant and is a step of ByteQueue.
LEMMA StepToText ==
    ASSUME BufInv, NEW zero \in Byte, ToText(zero)
    PROVE  BufInv' /\ Queue!Next
<1>. DEFINE z == Written(buf, <<zero>>)
            g == Indexed(z, z.read_index, z.write_index - 1)
<1>1. BufferOK(buf)
  BY DEF BufInv, TypeOK
<1>2. BufferOK(g) /\ Content(g) = Content(buf) /\ EnsureAsserts(buf, 1)
  BY <1>1, ToTextOK
<1>3. Becomes(g, EnsureAsserts(buf, 1), <<"arrange">>)
  BY DEF ToText
<1>. HIDE DEF g
<1>. QED BY <1>2, <1>3, StepArrange

-----------------------------------------------------------------------------
(* The theorems.                                                           *)

\* The constructor establishes the invariant and the empty queue.
LEMMA BufInit == Init => BufInv /\ Queue!Init
<1>. SUFFICES ASSUME Init PROVE BufInv /\ Queue!Init
  OBVIOUS
<1>1. /\ buf = NewBuffer(InitialSize, ReservedSize) /\ asserts /\ unread = <<>>
      /\ call = <<"new">>
  BY DEF Init
<1>2. InitialSize \in Nat /\ ReservedSize \in Nat
  BY BufferAssumption
<1>3. BufferOK(buf) /\ Content(buf) = <<>>
  BY <1>1, <1>2, NewBufferOK
<1>4. UnreadOK
  <2>1. <<>> \in Seq(Cell) /\ Len(<<>>) = 0
    BY EmptySeq
  <2>2. buf.read_index \in Nat
    BY <1>3, BufferFacts
  <2>. QED BY <1>1, <2>1, <2>2 DEF UnreadOK
<1>. QED BY <1>1, <1>3, <1>4 DEF BufInv, TypeOK, AssertsHold, Queue!Init

\* Every call keeps the invariant and is a step of the queue.
LEMMA BufStep == BufInv /\ [Next]_vars => BufInv' /\ [Queue!Next]_(Queue!vars)
<1>. SUFFICES ASSUME BufInv, [Next]_vars PROVE BufInv' /\ [Queue!Next]_(Queue!vars)
  OBVIOUS
<1>1. ASSUME NEW d \in Chunks, Write(d) \/ Recv(d) \/ ReadFromSocketStream(d) \/ Prepend(d)
      PROVE  BufInv' /\ Queue!Next
  BY <1>1, StepWrite, StepRecv, StepReadFromSocketStream, StepPrepend
<1>2. ASSUME NEW d \in Chunks, NEW n \in Sizes, ReadNFromSocketStream(n, d)
      PROVE  BufInv' /\ Queue!Next
  BY <1>2, StepReadNFromSocketStream
<1>3. ASSUME NEW n \in Sizes, Skip(n) \/ Truncate(n) \/ UnwriteBytes(n) \/ UnreadBytes(n)
      PROVE  BufInv' /\ Queue!Next
  BY <1>3, StepSkip, StepTruncate, StepUnwriteBytes, StepUnreadBytes
<1>4. ASSUME NEW n \in Sizes, EnsureWritableBytes(n) \/ Reserve(n) \/ Shrink(n)
      PROVE  BufInv' /\ Queue!Next
  BY <1>4, StepEnsureWritableBytes, StepReserve, StepShrink
<1>5. CASE ReadByte
  BY <1>5, StepReadByte
<1>6. ASSUME NEW zero \in Byte, ToText(zero)
      PROVE  BufInv' /\ Queue!Next
  BY <1>6, StepToText
<1>7. CASE UNCHANGED vars
  <2>1. buf' = buf /\ asserts' = asserts /\ call' = call /\ unread' = unread
    BY <1>7 DEF vars
  <2>2. BufInv'
    BY <2>1 DEF BufInv, TypeOK, AssertsHold, UnreadOK
  <2>3. UNCHANGED Queue!vars
    BY <2>1 DEF Queue!vars
  <2>. QED BY <2>2, <2>3
<1>. QED BY <1>1, <1>2, <1>3, <1>4, <1>5, <1>6, <1>7 DEF Next

\* The invariant holds in every reachable state.
LEMMA BufInductive == Spec => []BufInv
<1>1. Init => BufInv
  BY BufInit
<1>2. BufInv /\ [Next]_vars => BufInv'
  BY BufStep
<1>. QED BY <1>1, <1>2, PTL DEF Spec

\* The read and write index of buffer.h stay inside the block, in order, and
\* every byte of the block is one that was written or one nobody has written.
THEOREM IndicesInBlock == Spec => []TypeOK
<1>1. BufInv => TypeOK
  BY DEF BufInv
<1>. QED BY <1>1, BufInductive, PTL

\* No assert() of grow() and EnsureWritableBytes() can fail.
THEOREM NoAssertFails == Spec => []AssertsHold
<1>1. BufInv => AssertsHold
  BY DEF BufInv
<1>. QED BY <1>1, BufInductive, PTL

\* Through every reallocation, move and overwrite a Buffer behaves as a queue
\* of bytes: ByteBuffer implements ByteQueue.
THEOREM BufferIsByteQueue == Spec => IsByteQueue
<1>1. Init => Queue!Init
  BY BufInit
<1>2. BufInv /\ [Next]_vars => [Queue!Next]_(Queue!vars)
  BY BufStep
<1>. QED BY <1>1, <1>2, BufInductive, PTL DEF Spec, IsByteQueue, Queue!Spec

====
