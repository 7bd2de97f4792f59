------------------------------ MODULE WsFrame ------------------------------
(***************************************************************************)
(* The frames that CoinWebsocket (src/http/websocket.cpp) and the RPC      *)
(* streams (src/rpc/rpc_streaming.cpp) send. The two files hold the same   *)
(* class websocket but for read_frame_head().                              *)
(*                                                                         *)
(* What is on its way in a connection is a sequence of cells: each byte of *)
(* a header, and each payload as a whole with its size and its masks. A    *)
(* payload is masked by XOR with a key: the same key again undoes it.      *)
(***************************************************************************)
EXTENDS Integers, SequencesExt

CONTINUATION == 0
TEXT == 1
BINARY == 2
CLOSE == 8
PING == 9
PONG == 10

NoKey == <<>>
NoData == "no data"  \* what an empty payload holds

\* frame_header. A masking key is four bytes; a frame without a mask has none.
Header(opcode, fin, len, key) == [opcode |-> opcode, fin |-> fin, len |-> len, key |-> key]

Byte(b) == [byte |-> b]
Payload(data, size, masks) == [data |-> data, size |-> size, masks |-> masks]

\* The eight bytes of a 64-bit number, the most significant first, and the last of them;
\* the number that two or eight bytes are.
High(n) == n \div 256

Octets(n) ==
    LET n1 == High(n)  n2 == High(n1)  n3 == High(n2)  n4 == High(n3)  n5 == High(n4)  n6 == High(n5)  n7 == High(n6)
    IN  <<n7 % 256, n6 % 256, n5 % 256, n4 % 256, n3 % 256, n2 % 256, n1 % 256, n % 256>>

BigEndian(n, size) == [i \in 1 .. size |-> Octets(n)[8 - size + i]]

Number(bytes) ==
    LET Two(n, i) == 256 * (256 * n + bytes[i]) + bytes[i + 1]
    IN  IF Len(bytes) = 2 THEN Two(0, 1) ELSE Two(Two(Two(Two(0, 1), 3), 5), 7)

\* The numbers of 64 bits. (TLC's numbers have 31: 2^64 is written as 16 * 2^30 * 2^30.)
Lengths == {n \in Nat : (n \div 1073741824) \div 1073741824 < 16}

LengthBytes(len) == IF len > 65535 THEN 8 ELSE IF len >= 126 THEN 2 ELSE 0

FirstByte(h) == (IF h.fin THEN 128 ELSE 0) + h.opcode
MaskBit(h) == IF h.key = NoKey THEN 0 ELSE 128

\* Mutant: 126 itself is taken for a length that fits.
MakeFrameHeaderShort(h) ==
    LET len7 == IF h.len <= 126 THEN h.len ELSE IF h.len <= 65535 THEN 126 ELSE 127
        ext == IF h.len <= 126 THEN 0 ELSE LengthBytes(h.len)
    IN  <<FirstByte(h), MaskBit(h) + len7>> \o BigEndian(h.len, ext) \o h.key

ShortLength(len) == IF len <= 125 THEN len ELSE IF len <= 65535 THEN 126 ELSE 127

make_frame_header(h) ==
    <<FirstByte(h), MaskBit(h) + ShortLength(h.len)>> \o BigEndian(h.len, LengthBytes(h.len)) \o h.key

\* The two sends of send_frame_data().
HeaderCells(h) == [i \in DOMAIN make_frame_header(h) |-> Byte(make_frame_header(h)[i])]
PayloadCell(h, data) == Payload(data, h.len, IF h.key = NoKey THEN {} ELSE {h.key})
FrameCells(h, data) == HeaderCells(h) \o (IF h.len = 0 THEN <<>> ELSE <<PayloadCell(h, data)>>)

\* update_head_2bytes() and the rest of read_frame_head(), on the bytes of a whole header.
Len7(cells) == cells[2].byte % 128
HasKey(cells) == cells[2].byte >= 128
ExtraBytes(cells) == CASE Len7(cells) = 126 -> 2 [] Len7(cells) = 127 -> 8 [] OTHER -> 0
HeaderSize(cells) == 2 + ExtraBytes(cells) + (IF HasKey(cells) THEN 4 ELSE 0)
Bytes(cells, from, count) == [i \in 1 .. count |-> cells[from + i].byte]

\* The cells begin with a whole header.
IsByte(cell) == "byte" \in DOMAIN cell
HeaderReady(cells) ==
    /\ Len(cells) >= 2 /\ IsByte(cells[1]) /\ IsByte(cells[2])
    /\ Len(cells) >= HeaderSize(cells)
    /\ \A i \in 1 .. HeaderSize(cells) : IsByte(cells[i])

update_head_2bytes(cells) ==
    LET extra == ExtraBytes(cells)
    IN  Header(cells[1].byte % 16, cells[1].byte >= 128,
               IF extra = 0 THEN Len7(cells) ELSE Number(Bytes(cells, 2, extra)),
               IF HasKey(cells) THEN Bytes(cells, 2 + extra, 4) ELSE NoKey)

AfterHeader(cells) == SubSeq(cells, HeaderSize(cells) + 1, Len(cells))

\* The opcode that recv_loop() acts on and the one it saves, from the frame's and the
\* saved one: the last fragment of a message has the opcode of its first.
Effective(h, saved) == IF h.fin /\ h.opcode = CONTINUATION THEN saved ELSE h.opcode
Saved(h, saved) == IF ~h.fin /\ h.opcode # CONTINUATION THEN h.opcode ELSE saved

\* XOR with a key, on a payload.
Toggle(cell, key) ==
    [cell EXCEPT !.masks = IF key = NoKey THEN @ ELSE IF key \in @ THEN @ \ {key} ELSE @ \cup {key}]

=============================================================================
