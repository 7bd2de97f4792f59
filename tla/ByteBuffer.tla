----------------------------- MODULE ByteBuffer -----------------------------
(***************************************************************************)
(* Buffer (src/buffer.h, src/buffer.cpp): one block of memory with a read  *)
(* and a write index and a reserve in front for headers.  A write that     *)
(* does not fit behind the write index either moves the unread bytes down  *)
(* to the reserve or takes a larger block.                                 *)
(*                                                                         *)
(* The memory is modelled byte by byte: a new block holds Junk, and what a *)
(* move or a read leaves behind stays where it was, so an index that is    *)
(* off by one shows as a wrong byte.  A call whose assert() fails makes    *)
(* asserts FALSE; preconditions that the code puts on its caller (Prepend, *)
(* UnwriteBytes, UnreadBytes, ReadByte) are guards.                        *)
(***************************************************************************)
EXTENDS Integers, Sequences

CONSTANTS
    Byte,               \* the bytes callers write
    Junk,               \* what memory holds that nobody has written
    Chunks,             \* the byte sequences callers write
    Sizes,              \* the lengths callers name
    InitialSize,        \* initial_size of the constructor
    ReservedSize,       \* reserved_prepend_size of the constructor
    kCheapPrependSize,  \* its default, which Shrink() uses
    kInitialSize,       \* room ReadFromSocketStream() makes in a full buffer
    MaxCapacity         \* bound: no call that takes a larger block

ASSUME BufferAssumption ==
    /\ Junk \notin Byte
    /\ Chunks \subseteq Seq(Byte)
    /\ Sizes \subseteq Nat /\ 1 \in Sizes  \* ReadByte() reads one
    /\ InitialSize \in Nat /\ ReservedSize \in Nat
    /\ kCheapPrependSize \in Nat /\ kInitialSize \in Nat \ {0}
    /\ MaxCapacity \in Nat

VARIABLES
    buf,      \* the Buffer: memory, capacity, indices and reserve
    asserts,  \* no assert() of buffer.h has failed
    call,     \* history: the last call and its argument
    unread    \* history: what the last call read and left in memory

vars == <<buf, asserts, call, unread>>

Memory(c) == [0..(c - 1) -> Byte \cup {Junk}]

Length(b) == b.write_index - b.read_index
WritableBytes(b) == b.capacity - b.write_index
PrependableBytes(b) == b.read_index

\* The unread bytes as data() and length() show them.
Content(b) == [i \in 1..Length(b) |-> b.mem[b.read_index + i - 1]]

Buffer(m, c, r, w, v) ==
    [mem |-> m, capacity |-> c, read_index |-> r, write_index |-> w, reserved |-> v]

Fresh(c) == [i \in 0..(c - 1) |-> Junk]

NewBuffer(size, reserved) ==
    Buffer(Fresh(reserved + size), reserved + size, reserved, reserved, reserved)

\* b with its indices moved.
Indexed(b, r, w) == Buffer(b.mem, b.capacity, r, w, b.reserved)

-----------------------------------------------------------------------------
(* grow() and its callers.                                                 *)

\* Mutated form of MustAllocate: the reserve in front is forgotten.
MustAllocateTight(b, len) == WritableBytes(b) + PrependableBytes(b) < len

MustAllocate(b, len) == WritableBytes(b) + PrependableBytes(b) < len + b.reserved
NewCapacity(b, len) == 2 * b.capacity + len

\* memcpy() or std::copy() of d into the memory m at an index.
Copied(m, at, d) ==
    [i \in DOMAIN m |-> IF i \in at..(at + Len(d) - 1) THEN d[i - at + 1] ELSE m[i]]

\* Mutated form of MovedTo: the copy starts at begin(), not at read_index_.
MovedFromBegin(b, m, c) ==
    Buffer(Copied(m, b.reserved, [i \in 1..Length(b) |-> b.mem[i - 1]]), c,
           b.reserved, b.reserved + Length(b), b.reserved)

\* The unread bytes of b put behind its reserve in the block m of c bytes.
MovedTo(b, m, c) ==
    Buffer(Copied(m, b.reserved, Content(b)), c,
           b.reserved, b.reserved + Length(b), b.reserved)

Reallocated(b, len) == MovedTo(b, Fresh(NewCapacity(b, len)), NewCapacity(b, len))

Compacted(b) == MovedTo(b, b.mem, b.capacity)

Grown(b, len) == IF MustAllocate(b, len) THEN Reallocated(b, len) ELSE Compacted(b)

GrowAsserts(b, len) ==
    ~MustAllocate(b, len) =>
        b.reserved < b.read_index /\ WritableBytes(Compacted(b)) >= len

\* EnsureWritableBytes()
Ensured(b, len) == IF WritableBytes(b) < len THEN Grown(b, len) ELSE b
EnsureAsserts(b, len) ==
    /\ WritableBytes(b) < len => GrowAsserts(b, len)
    /\ WritableBytes(Ensured(b, len)) >= len

\* Reserve()
Reserved(b, len) ==
    IF b.capacity >= len + b.reserved THEN b ELSE Grown(b, len + b.reserved)
ReserveAsserts(b, len) ==
    b.capacity < len + b.reserved => GrowAsserts(b, len + b.reserved)

\* memcpy(WriteBegin(), d, len) and write_index_ += len.
Filled(b, d) ==
    Buffer(Copied(b.mem, b.write_index, d), b.capacity,
           b.read_index, b.write_index + Len(d), b.reserved)

\* Write()
Written(b, d) == Filled(Ensured(b, Len(d)), d)

\* Mutated form of Truncated: no look at the bytes there are.
TruncatedAlways(b, n) == Indexed(b, b.read_index, b.read_index + n)

\* Truncate(), of which Reset() is Truncate(0).
Truncated(b, n) ==
    IF n = 0 THEN Indexed(b, b.reserved, b.reserved)
    ELSE IF b.write_index > b.read_index + n
    THEN Indexed(b, b.read_index, b.read_index + n)
    ELSE b

\* Skip(), Retrieve(), Next() and the reads of integers and strings.
Skipped(b, n) ==
    IF n < Length(b) THEN Indexed(b, b.read_index + n, b.write_index)
                     ELSE Truncated(b, 0)

\* Shrink(): a new block with the default reserve, and the bytes written to it.
Shrunk(b, reserve) ==
    Written(NewBuffer(Length(b) + reserve, kCheapPrependSize), Content(b))
ShrinkAsserts(b, reserve) ==
    EnsureAsserts(NewBuffer(Length(b) + reserve, kCheapPrependSize), Length(b))

-----------------------------------------------------------------------------
Init ==
    /\ buf = NewBuffer(InitialSize, ReservedSize)
    /\ asserts = TRUE
    /\ call = <<"new">>
    /\ unread = <<>>

\* A call that made b of buf, of which the block is no larger than the bound.
Becomes(b, a, c) ==
    /\ b.capacity <= MaxCapacity
    /\ buf' = b
    /\ asserts' = (asserts /\ a)
    /\ call' = c
    /\ unread' = <<>>

\* Write(), Append(), operator<<, write_format().
Write(d) == Becomes(Written(buf, d), EnsureAsserts(buf, Len(d)), <<"put", d>>)

\* The socket writes into the room there is: TcpSocketStream::recv(Buffer*).
Recv(d) ==
    /\ Len(d) <= WritableBytes(buf)
    /\ Becomes(Filled(buf, d), TRUE, <<"put", d>>)

\* ReadFromSocketStream(): a full buffer gets kInitialSize bytes of room first.
RoomToRecv(b) == IF WritableBytes(b) = 0 THEN Ensured(b, kInitialSize) ELSE b
ReadFromSocketStream(d) ==
    /\ Len(d) <= WritableBytes(RoomToRecv(buf))
    /\ Becomes(Filled(RoomToRecv(buf), d),
               WritableBytes(buf) = 0 => EnsureAsserts(buf, kInitialSize),
               <<"put", d>>)

\* ReadNFromSocketStream(): n bytes wanted, d came before the end of the stream.
ReadNFromSocketStream(n, d) ==
    /\ Len(d) <= n
    /\ Becomes(Filled(Ensured(buf, n), d), EnsureAsserts(buf, n), <<"put", d>>)

Prepended(b, d) ==
    Buffer(Copied(b.mem, b.read_index - Len(d), d), b.capacity,
           b.read_index - Len(d), b.write_index, b.reserved)
Prepend(d) ==
    /\ Len(d) <= PrependableBytes(buf)
    /\ Becomes(Prepended(buf, d), TRUE, <<"front", d>>)

Skip(n) ==
    /\ buf' = Skipped(buf, n)
    /\ call' = <<"take", n>>
    /\ unread' = IF n < Length(buf) THEN SubSeq(Content(buf), 1, n) ELSE <<>>
    /\ UNCHANGED asserts

\* ReadByte(): unlike Skip(1) it leaves the indices where they meet.
ReadByte ==
    /\ Length(buf) >= 1
    /\ buf' = Indexed(buf, buf.read_index + 1, buf.write_index)
    /\ call' = <<"take", 1>>
    /\ unread' = IF 1 < Length(buf) THEN SubSeq(Content(buf), 1, 1) ELSE <<>>
    /\ UNCHANGED asserts

Truncate(n) == Becomes(Truncated(buf, n), TRUE, <<"keep", n>>)

UnwriteBytes(n) ==
    /\ n <= Length(buf)
    /\ Becomes(Indexed(buf, buf.read_index, buf.write_index - n), TRUE, <<"cut", n>>)

\* UnreadBytes() right after a read that left bytes in the buffer.
UnreadBytes(n) ==
    /\ n <= Len(unread)
    /\ n < buf.read_index
    /\ Becomes(Indexed(buf, buf.read_index - n, buf.write_index), TRUE, <<"back", n>>)

EnsureWritableBytes(n) ==
    Becomes(Ensured(buf, n), EnsureAsserts(buf, n), <<"arrange">>)

Reserve(n) == Becomes(Reserved(buf, n), ReserveAsserts(buf, n), <<"arrange">>)

Shrink(n) == Becomes(Shrunk(buf, n), ShrinkAsserts(buf, n), <<"arrange">>)

\* ToText(): a 0 is written and taken back; it stays in memory.
ToText(zero) ==
    LET b == Written(buf, <<zero>>)
    IN  Becomes(Indexed(b, b.read_index, b.write_index - 1), EnsureAsserts(buf, 1),
                <<"arrange">>)

Next ==
    \/ \E d \in Chunks : Write(d) \/ Recv(d) \/ ReadFromSocketStream(d) \/ Prepend(d)
    \/ \E d \in Chunks, n \in Sizes : ReadNFromSocketStream(n, d)
    \/ \E n \in Sizes : Skip(n) \/ Truncate(n) \/ UnwriteBytes(n) \/ UnreadBytes(n)
    \/ \E n \in Sizes : EnsureWritableBytes(n) \/ Reserve(n) \/ Shrink(n)
    \/ ReadByte
    \/ \E zero \in Byte : ToText(zero)

Spec == Init /\ [][Next]_vars

-----------------------------------------------------------------------------
(* Properties.                                                             *)

\* The indices stay inside the block: 0 <= read_index_ <= write_index_ <=
\* capacity_, and the block has room for the reserve.
BufferOK(b) ==
    /\ b \in [mem : Memory(b.capacity), capacity : Nat, read_index : Nat,
              write_index : Nat, reserved : Nat]
    /\ b.read_index <= b.write_index
    /\ b.write_index <= b.capacity
    /\ b.reserved <= b.capacity
TypeOK == BufferOK(buf)

\* No assert() of grow() and EnsureWritableBytes() fails: whenever the unread
\* bytes are moved down they move down, and the room asked for is there.
AssertsHold == asserts

\* A Buffer is a queue of bytes: whatever is moved, reallocated or overwritten,
\* every call reads, adds and drops exactly the bytes it says.
Queue == INSTANCE ByteQueue WITH q <- Content(buf)
IsByteQueue == Queue!Spec
=============================================================================
