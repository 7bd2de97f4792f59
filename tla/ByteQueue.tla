------------------------------ MODULE ByteQueue ------------------------------
(***************************************************************************)
(* What a Buffer promises its users (src/buffer.h): a queue of bytes that  *)
(* is written at the back, read at the front, can take a header at the     *)
(* front and can be cut at the back.  Where the bytes are kept, and when   *)
(* they move, is not part of the promise.                                  *)
(***************************************************************************)
EXTENDS Integers, Sequences

CONSTANTS
    Chunks,  \* byte sequences that callers write
    Sizes    \* numbers of bytes that callers name

VARIABLES
    q,       \* the unread bytes
    call,    \* the call that was made last, with its argument
    unread   \* what the last call returned and left in memory, else <<>>

vars == <<q, call, unread>>

Init == q = <<>> /\ call = <<"new">> /\ unread = <<>>

\* Write(), Append(), and the reads from a socket: d goes to the back.
Put(d) ==
    /\ call' = <<"put", d>>
    /\ q' = q \o d
    /\ unread' = <<>>

\* Prepend(): d goes to the front.
PutFront(d) ==
    /\ call' = <<"front", d>>
    /\ q' = d \o q
    /\ unread' = <<>>

\* Skip(), Retrieve(), Next(), ReadByte(): at most n bytes leave at the front.
Take(n) ==
    /\ call' = <<"take", n>>
    /\ q' = SubSeq(q, n + 1, Len(q))
    /\ unread' = IF n < Len(q) THEN SubSeq(q, 1, n) ELSE <<>>

\* Truncate(): all but the first n bytes leave.
Keep(n) ==
    /\ call' = <<"keep", n>>
    /\ q' = IF n < Len(q) THEN SubSeq(q, 1, n) ELSE q
    /\ unread' = <<>>

\* UnwriteBytes(): the last n bytes leave.
Cut(n) ==
    /\ n <= Len(q)
    /\ call' = <<"cut", n>>
    /\ q' = SubSeq(q, 1, Len(q) - n)
    /\ unread' = <<>>

\* UnreadBytes(): the last n bytes of the last read come back.
PutBack(n) ==
    /\ n <= Len(unread)
    /\ call' = <<"back", n>>
    /\ q' = SubSeq(unread, Len(unread) - n + 1, Len(unread)) \o q
    /\ unread' = <<>>

\* Reserve(), EnsureWritableBytes(), Shrink(), ToText(): the bytes stay.
Arrange ==
    /\ call' = <<"arrange">>
    /\ unread' = <<>>
    /\ UNCHANGED q

Next ==
    \/ \E d \in Chunks : Put(d) \/ PutFront(d)
    \/ \E n \in Sizes : Take(n) \/ Keep(n) \/ Cut(n) \/ PutBack(n)
    \/ Arrange

Spec == Init /\ [][Next]_vars
=============================================================================
