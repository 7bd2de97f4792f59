--------------------------- MODULE WsFrameProofs ---------------------------
(***************************************************************************)
(* Proofs about the frames of websocket.cpp and rpc_streaming.cpp          *)
(* (WsFrame): what read_frame_head() makes of the bytes that               *)
(* make_frame_header() wrote, for every length of 64 bits.                 *)
(***************************************************************************)
EXTENDS WsFrame, SequenceTheorems, TLAPS

ByteValues == 0 .. 255

\* The masking keys a header can have, and the opcodes.
Keys == {NoKey} \cup [1 .. 4 -> ByteValues]
Opcodes == 0 .. 15

Headers == [opcode : Opcodes, fin : BOOLEAN, len : Lengths, key : Keys]

----------------------------------------------------------------------------
(* Numbers *)

\* A number is 256 times its upper part and its last byte.
LEMMA SplitByte ==
    ASSUME NEW n \in Nat
    PROVE  High(n) \in Nat /\ n % 256 \in ByteValues /\ n = 256 * High(n) + (n % 256)
  BY DEF ByteValues, High

\* What is left of a 64-bit number after seven bytes is a byte.
LEMMA UpperByte ==
    ASSUME NEW n \in Lengths
    PROVE  High(High(High(High(High(High(High(n))))))) \in ByteValues
  BY DEF ByteValues, Lengths, High

\* A function on 1 .. n is a sequence.
LEMMA FunctionIsSeq ==
    ASSUME NEW S, NEW n \in Nat, NEW f \in [1 .. n -> S]
    PROVE  f \in Seq(S) /\ Len(f) = n
  OBVIOUS

\* The last bytes of a number are bytes, as many as were asked for.
LEMMA BigEndianBytes ==
    ASSUME NEW n \in Nat, NEW size \in 0 .. 8
    PROVE  /\ BigEndian(n, size) \in Seq(ByteValues)
           /\ Len(BigEndian(n, size)) = size
           /\ BigEndian(n, size) \in [1 .. size -> ByteValues]
<1>1. \A k \in Nat : High(k) \in Nat /\ k % 256 \in ByteValues
  BY SplitByte
<1>2. Octets(n) \in [1 .. 8 -> ByteValues]
  BY <1>1 DEF Octets
<1>3. \A i \in 1 .. size : 8 - size + i \in 1 .. 8
  OBVIOUS
<1>4. BigEndian(n, size) \in [1 .. size -> ByteValues]
  BY <1>2, <1>3 DEF BigEndian
<1> QED  BY <1>4, FunctionIsSeq, size \in Nat

\* Two bytes are read as the number they are of.
LEMMA NumberOfTwo ==
    ASSUME NEW n \in Nat, n <= 65535
    PROVE  Number(BigEndian(n, 2)) = n
<1> DEFINE b == BigEndian(n, 2)
<1>1. b[1] = High(n) % 256 /\ b[2] = n % 256
  <2>1. b[1] = Octets(n)[7] /\ b[2] = Octets(n)[8]
    BY DEF BigEndian
  <2> QED  BY <2>1 DEF Octets
<1>2. Len(b) = 2
  BY BigEndianBytes
<1> HIDE DEF b
<1>3. Number(b) = 256 * (256 * 0 + b[1]) + b[2]
  BY <1>2 DEF Number
<1>4. Number(b) = n
  BY <1>1, <1>3 DEF High
<1> QED  BY <1>4 DEF b

\* Eight bytes are read as the number they are of.
LEMMA NumberOfEight ==
    ASSUME NEW n \in Lengths
    PROVE  Number(BigEndian(n, 8)) = n
<1> DEFINE n1 == High(n)   n2 == High(n1)  n3 == High(n2)  n4 == High(n3)
           n5 == High(n4)  n6 == High(n5)  n7 == High(n6)
           b == BigEndian(n, 8)
<1>1. n \in Nat /\ n7 \in ByteValues
  BY UpperByte DEF Lengths
<1>2. n1 \in Nat /\ n = 256 * n1 + (n % 256)
  BY <1>1, SplitByte
<1>3. n2 \in Nat /\ n1 = 256 * n2 + (n1 % 256)
  BY <1>2, SplitByte
<1>4. n3 \in Nat /\ n2 = 256 * n3 + (n2 % 256)
  BY <1>3, SplitByte
<1>5. n4 \in Nat /\ n3 = 256 * n4 + (n3 % 256)
  BY <1>4, SplitByte
<1>6. n5 \in Nat /\ n4 = 256 * n5 + (n4 % 256)
  BY <1>5, SplitByte
<1>7. n6 \in Nat /\ n5 = 256 * n6 + (n5 % 256)
  BY <1>6, SplitByte
<1>8. n7 \in Nat /\ n6 = 256 * n7 + (n6 % 256)
  BY <1>7, SplitByte
<1>9. /\ b[1] = n7 % 256 /\ b[2] = n6 % 256 /\ b[3] = n5 % 256 /\ b[4] = n4 % 256
      /\ b[5] = n3 % 256 /\ b[6] = n2 % 256 /\ b[7] = n1 % 256 /\ b[8] = n % 256
  <2>1. \A i \in 1 .. 8 : b[i] = Octets(n)[i]
    BY DEF BigEndian
  <2>2. Octets(n) = <<n7 % 256, n6 % 256, n5 % 256, n4 % 256, n3 % 256, n2 % 256, n1 % 256, n % 256>>
    BY DEF Octets
  <2> HIDE DEF b, n1, n2, n3, n4, n5, n6, n7
  <2> QED  BY <2>1, <2>2
<1>10. Len(b) = 8
  BY <1>1, BigEndianBytes
<1> HIDE DEF b, n1, n2, n3, n4, n5, n6, n7
<1>11. Number(b) = 256 * (256 * (256 * (256 * (256 * (256 * (256 * (256 * 0 + b[1]) + b[2]) + b[3])
                     + b[4]) + b[5]) + b[6]) + b[7]) + b[8]
  BY <1>10 DEF Number
<1>12. n7 % 256 = n7
  BY <1>1 DEF ByteValues
<1>13. Number(b) = n
  BY <1>1, <1>2, <1>3, <1>4, <1>5, <1>6, <1>7, <1>8, <1>9, <1>11, <1>12
<1> QED  BY <1>13 DEF b

----------------------------------------------------------------------------
(* Headers *)

\* u is made of s and t.
Joined(u, s, t) ==
    /\ Len(u) = Len(s) + Len(t)
    /\ \A i \in 1 .. Len(s) : u[i] = s[i]
    /\ \A i \in 1 .. Len(t) : u[Len(s) + i] = t[i]
    /\ SubSeq(u, Len(s) + 1, Len(u)) = t

\* The three formats of a length.
LEMMA LengthFormats ==
    ASSUME NEW n \in Nat
    PROVE  LengthBytes(n) \in {0, 2, 8} /\ (LengthBytes(n) = 2 => n <= 65535)
  BY DEF LengthBytes

\* What is in a sequence that was put together from two.
LEMMA ConcatParts ==
    ASSUME NEW S, NEW s \in Seq(S), NEW t \in Seq(S)
    PROVE  s \o t \in Seq(S) /\ Joined(s \o t, s, t)
  BY DEF Joined

\* The bytes of a header, one by one.
LEMMA HeaderBytes ==
    ASSUME NEW h \in Headers
    PROVE  LET bytes == make_frame_header(h)
               extra == LengthBytes(h.len)
           IN  /\ bytes \in Seq(ByteValues)
               /\ Len(bytes) = 2 + extra + Len(h.key)
               /\ bytes[1] = FirstByte(h) /\ bytes[2] = MaskBit(h) + ShortLength(h.len)
               /\ \A i \in 1 .. extra : bytes[2 + i] = BigEndian(h.len, extra)[i]
               /\ \A i \in 1 .. Len(h.key) : bytes[2 + extra + i] = h.key[i]
<1> DEFINE start == <<FirstByte(h), MaskBit(h) + ShortLength(h.len)>>
           extra == LengthBytes(h.len)
           number == BigEndian(h.len, extra)
<1>1. h.len \in Nat /\ h.opcode \in 0 .. 15 /\ h.fin \in BOOLEAN /\ extra \in {0, 2, 8} /\ extra \in 0 .. 8
  BY DEF Headers, Lengths, LengthBytes, Opcodes
<1>2. start \in Seq(ByteValues) /\ Len(start) = 2
  <2>1. FirstByte(h) \in ByteValues
    BY <1>1 DEF FirstByte, ByteValues
  <2>2. ShortLength(h.len) \in 0 .. 127
    BY <1>1 DEF ShortLength
  <2>3. MaskBit(h) + ShortLength(h.len) \in ByteValues
    BY <2>2 DEF MaskBit, ByteValues
  <2> QED  BY <2>1, <2>3
<1>3. number \in Seq(ByteValues) /\ Len(number) = extra
  BY <1>1, BigEndianBytes
<1>4. h.key \in Seq(ByteValues)
  <2>1. CASE h.key = NoKey
    BY <2>1 DEF NoKey
  <2>2. CASE h.key \in [1 .. 4 -> ByteValues]
    BY <2>2, FunctionIsSeq, 4 \in Nat
  <2> QED  BY <2>1, <2>2 DEF Headers, Keys
<1>5. make_frame_header(h) = (start \o number) \o h.key
  BY DEF make_frame_header
<1> HIDE DEF start, number, extra
<1> DEFINE both == start \o number
<1>6. /\ both \in Seq(ByteValues)
      /\ Len(both) = 2 + extra
      /\ both[1] = start[1] /\ both[2] = start[2]
      /\ \A i \in 1 .. extra : both[2 + i] = number[i]
  <2>1. both \in Seq(ByteValues) /\ Joined(both, start, number)
    BY <1>2, <1>3, ConcatParts
  <2> HIDE DEF both
  <2> QED  BY <1>2, <1>3, <2>1 DEF Joined
<1> HIDE DEF both
<1>7. /\ make_frame_header(h) \in Seq(ByteValues)
      /\ Len(make_frame_header(h)) = Len(both) + Len(h.key)
      /\ \A i \in 1 .. Len(both) : make_frame_header(h)[i] = both[i]
      /\ \A i \in 1 .. Len(h.key) : make_frame_header(h)[Len(both) + i] = h.key[i]
  <2>1. make_frame_header(h) = both \o h.key
    BY <1>5 DEF both
  <2>2. both \o h.key \in Seq(ByteValues) /\ Joined(both \o h.key, both, h.key)
    BY <1>4, <1>6, ConcatParts
  <2> QED  BY <2>1, <2>2 DEF Joined
<1>8. /\ make_frame_header(h)[1] = start[1] /\ make_frame_header(h)[2] = start[2]
      /\ \A i \in 1 .. extra : make_frame_header(h)[2 + i] = number[i]
  <2>1. 1 \in 1 .. Len(both) /\ 2 \in 1 .. Len(both) /\ \A i \in 1 .. extra : 2 + i \in 1 .. Len(both)
    BY <1>1, <1>6
  <2> QED  BY <1>6, <1>7, <2>1
<1>9. start[1] = FirstByte(h) /\ start[2] = MaskBit(h) + ShortLength(h.len)
  BY DEF start
<1>10. \A i \in 1 .. Len(h.key) : make_frame_header(h)[2 + extra + i] = h.key[i]
  BY <1>6, <1>7
<1>11. Len(make_frame_header(h)) = 2 + extra + Len(h.key)
  BY <1>6, <1>7
<1> QED  BY <1>7, <1>8, <1>9, <1>10, <1>11 DEF number, extra

\* A header on its way begins what is read: the cells from which it is put together again.
LEMMA CellsOfHeader ==
    ASSUME NEW h \in Headers, NEW S, NEW rest \in Seq(S)
    PROVE  LET cells == HeaderCells(h) \o rest
               size == Len(make_frame_header(h))
           IN  /\ Len(HeaderCells(h)) = size
               /\ Len(cells) = size + Len(rest)
               /\ \A i \in 1 .. size : cells[i] = Byte(make_frame_header(h)[i])
               /\ SubSeq(cells, size + 1, Len(cells)) = rest
<1> DEFINE bytes == make_frame_header(h)
           T == S \cup {Byte(b) : b \in ByteValues}
<1>1. bytes \in Seq(ByteValues) /\ Len(bytes) \in Nat
  BY HeaderBytes
<1>2. HeaderCells(h) \in [1 .. Len(bytes) -> T]
  BY <1>1 DEF HeaderCells
<1>3. /\ HeaderCells(h) \in Seq(T) /\ Len(HeaderCells(h)) = Len(bytes)
      /\ \A i \in 1 .. Len(bytes) : HeaderCells(h)[i] = Byte(bytes[i])
  BY <1>1, <1>2, FunctionIsSeq DEF HeaderCells
<1>4. rest \in Seq(T)
  OBVIOUS
<1> DEFINE cells == HeaderCells(h) \o rest
<1>5. Joined(cells, HeaderCells(h), rest)
  BY <1>3, <1>4, ConcatParts
<1> HIDE DEF cells, bytes
<1>6. /\ Len(cells) = Len(bytes) + Len(rest)
      /\ \A i \in 1 .. Len(bytes) : cells[i] = Byte(bytes[i])
      /\ SubSeq(cells, Len(bytes) + 1, Len(cells)) = rest
  BY <1>3, <1>5 DEF Joined
<1> QED  BY <1>3, <1>6 DEF cells, bytes

\* From the second byte the reader finds the length of the header.
LEMMA HeaderFormat ==
    ASSUME NEW h \in Headers, NEW cells,
           cells[2] = Byte(MaskBit(h) + ShortLength(h.len))
    PROVE  /\ Len7(cells) = ShortLength(h.len)
           /\ HasKey(cells) <=> h.key # NoKey
           /\ ExtraBytes(cells) = LengthBytes(h.len)
           /\ HeaderSize(cells) = Len(make_frame_header(h))
           /\ ExtraBytes(cells) = 0 => Len7(cells) = h.len
<1>1. h.len \in Nat
  BY DEF Headers, Lengths
<1>2. ShortLength(h.len) \in 0 .. 127 /\ MaskBit(h) \in {0, 128} /\ (MaskBit(h) = 128 <=> h.key # NoKey)
  BY <1>1 DEF ShortLength, MaskBit
<1>3. cells[2].byte = MaskBit(h) + ShortLength(h.len)
  BY DEF Byte
<1>4. Len7(cells) = ShortLength(h.len) /\ (HasKey(cells) <=> h.key # NoKey)
  BY <1>2, <1>3 DEF Len7, HasKey
<1>5. ExtraBytes(cells) = LengthBytes(h.len) /\ (ExtraBytes(cells) = 0 => Len7(cells) = h.len)
  BY <1>1, <1>4 DEF ExtraBytes, LengthBytes, ShortLength
<1>6. Len(h.key) = IF h.key = NoKey THEN 0 ELSE 4
  <2>1. Len(NoKey) = 0
    BY DEF NoKey
  <2>2. \A k \in [1 .. 4 -> ByteValues] : Len(k) = 4
    BY FunctionIsSeq, 4 \in Nat
  <2> QED  BY <2>1, <2>2 DEF Headers, Keys
<1>7. Len(make_frame_header(h)) = 2 + LengthBytes(h.len) + Len(h.key)
  BY HeaderBytes
<1>8. HeaderSize(cells) = Len(make_frame_header(h))
  BY <1>4, <1>5, <1>6, <1>7 DEF HeaderSize
<1> QED  BY <1>4, <1>5, <1>8

\* The reader finds the header that was sent, whatever follows it on the connection, and
\* the first cell it leaves is the first after the header (make_frame_header(), then
\* read_frame_head() with update_head_2bytes()): for every opcode, length of 64 bits and key.
THEOREM HeaderRoundTrip ==
    ASSUME NEW h \in Headers, NEW S, NEW rest \in Seq(S)
    PROVE  LET cells == HeaderCells(h) \o rest
           IN  /\ HeaderReady(cells)
               /\ update_head_2bytes(cells) = h
               /\ AfterHeader(cells) = rest
<1> DEFINE cells == HeaderCells(h) \o rest
           bytes == make_frame_header(h)
           extra == LengthBytes(h.len)
<1>1. h.len \in Lengths /\ h.len \in Nat /\ extra \in {0, 2, 8} /\ Len(rest) \in Nat
  BY DEF Headers, Lengths, LengthBytes
<1>2. /\ bytes \in Seq(ByteValues) /\ Len(bytes) = 2 + extra + Len(h.key)
      /\ bytes[1] = FirstByte(h) /\ bytes[2] = MaskBit(h) + ShortLength(h.len)
      /\ \A i \in 1 .. extra : bytes[2 + i] = BigEndian(h.len, extra)[i]
      /\ \A i \in 1 .. Len(h.key) : bytes[2 + extra + i] = h.key[i]
  BY HeaderBytes
<1>3. /\ Len(cells) = Len(bytes) + Len(rest)
      /\ \A i \in 1 .. Len(bytes) : cells[i] = Byte(bytes[i])
      /\ SubSeq(cells, Len(bytes) + 1, Len(cells)) = rest
  BY CellsOfHeader
<1>4. h.key = NoKey \/ (h.key \in [1 .. 4 -> ByteValues] /\ Len(h.key) = 4 /\ h.key # NoKey)
  <2>1. \A k \in [1 .. 4 -> ByteValues] : Len(k) = 4
    BY FunctionIsSeq, 4 \in Nat
  <2>2. Len(NoKey) = 0
    BY DEF NoKey
  <2>3. h.key = NoKey \/ h.key \in [1 .. 4 -> ByteValues]
    BY DEF Headers, Keys
  <2>4. ASSUME h.key \in [1 .. 4 -> ByteValues]
        PROVE  Len(h.key) = 4 /\ h.key # NoKey
    <3>1. Len(h.key) = 4
      BY <2>1, <2>4
    <3> QED  BY <2>2, <3>1
  <2> QED  BY <2>3, <2>4
<1>5. /\ Len(h.key) \in {0, 4} /\ (h.key # NoKey => Len(h.key) = 4)
      /\ Len(bytes) \in Nat /\ Len(bytes) >= 2 + extra
  <2>1. Len(NoKey) = 0
    BY DEF NoKey
  <2>2. Len(h.key) \in {0, 4} /\ (h.key # NoKey => Len(h.key) = 4)
    BY <1>4, <2>1
  <2>3. Len(bytes) = 2 + extra + Len(h.key)
    BY <1>2
  <2> HIDE DEF bytes, extra
  <2>4. \A e \in {0, 2, 8}, k \in {0, 4} : 2 + e + k \in Nat /\ 2 + e + k >= 2 + e
    OBVIOUS
  <2>5. extra \in {0, 2, 8}
    BY <1>1
  <2>6. Len(bytes) \in Nat /\ Len(bytes) >= 2 + extra
    BY <2>2, <2>3, <2>4, <2>5
  <2> QED  BY <2>2, <2>6
<1> HIDE DEF cells, bytes, extra
<1>a. \A b : Byte(b).byte = b /\ IsByte(Byte(b))
  BY DEF Byte, IsByte
<1>6. cells[1] = Byte(FirstByte(h)) /\ cells[2] = Byte(MaskBit(h) + ShortLength(h.len))
  <2>1. 1 \in 1 .. Len(bytes) /\ 2 \in 1 .. Len(bytes)
    BY <1>1, <1>5
  <2>2. cells[1] = Byte(bytes[1]) /\ cells[2] = Byte(bytes[2])
    BY <1>3, <2>1
  <2> QED  BY <1>2, <2>2
<1>7. /\ Len7(cells) = ShortLength(h.len) /\ (HasKey(cells) <=> h.key # NoKey)
      /\ ExtraBytes(cells) = extra /\ HeaderSize(cells) = Len(bytes)
      /\ ExtraBytes(cells) = 0 => Len7(cells) = h.len
  BY <1>6, HeaderFormat DEF extra, bytes
<1>8. HeaderReady(cells)
  <2>1. \A i \in 1 .. Len(bytes) : IsByte(cells[i])
    BY <1>3, <1>a
  <2> QED  BY <1>1, <1>3, <1>5, <1>7, <2>1 DEF HeaderReady
<1>9. AfterHeader(cells) = rest
  BY <1>3, <1>7 DEF AfterHeader
<1>10. cells[1].byte % 16 = h.opcode /\ (cells[1].byte >= 128) = h.fin
  <2>1. h.opcode \in 0 .. 15 /\ h.fin \in BOOLEAN
    BY DEF Headers, Opcodes
  <2>2. cells[1].byte = FirstByte(h)
    BY <1>6 DEF Byte
  <2>3. cells[1].byte % 16 = h.opcode /\ (cells[1].byte >= 128 <=> h.fin)
    BY <2>1, <2>2 DEF FirstByte
  <2> QED  BY <2>1, <2>3
<1>11. (IF extra = 0 THEN Len7(cells) ELSE Number(Bytes(cells, 2, extra))) = h.len
  <2>1. Bytes(cells, 2, extra) = BigEndian(h.len, extra)
    <3>1. \A i \in 1 .. extra : 2 + i \in 1 .. Len(bytes)
      BY <1>1, <1>5
    <3>2. \A i \in 1 .. extra : cells[2 + i].byte = BigEndian(h.len, extra)[i]
      <4> TAKE i \in 1 .. extra
      <4>1. cells[2 + i] = Byte(bytes[2 + i]) /\ bytes[2 + i] = BigEndian(h.len, extra)[i]
        BY <1>2, <1>3, <3>1
      <4> QED  BY <4>1, <1>a
    <3>3. BigEndian(h.len, extra) = [i \in 1 .. extra |-> BigEndian(h.len, extra)[i]]
      BY DEF BigEndian
    <3> QED  BY <3>2, <3>3 DEF Bytes
  <2>2. CASE extra = 0
    BY <1>7, <2>2
  <2>3. CASE extra = 2
    <3>1. PICK n \in Nat : n = h.len
      BY <1>1
    <3>2. LengthBytes(n) = 2
      BY <2>3, <3>1 DEF extra
    <3>3. n <= 65535
      BY <3>2, LengthFormats
    <3>4. Number(BigEndian(n, 2)) = n
      BY <3>3, NumberOfTwo
    <3>5. extra # 0 /\ Bytes(cells, 2, extra) = BigEndian(n, 2)
      BY <2>1, <2>3, <3>1
    <3> QED  BY <3>1, <3>4, <3>5
  <2>4. CASE extra = 8
    BY <1>1, <2>1, <2>4, NumberOfEight
  <2> QED  BY <1>1, <2>2, <2>3, <2>4
<1>12. (IF HasKey(cells) THEN Bytes(cells, 2 + extra, 4) ELSE NoKey) = h.key
  <2>1. CASE h.key = NoKey
    BY <1>7, <2>1
  <2>2. CASE h.key # NoKey
    <3>1. h.key \in [1 .. 4 -> ByteValues] /\ Len(h.key) = 4
      BY <1>4, <2>2
    <3>2. \A i \in 1 .. 4 : 2 + extra + i \in 1 .. Len(bytes)
      BY <1>1, <1>2, <3>1
    <3>3. \A i \in 1 .. 4 : cells[2 + extra + i].byte = h.key[i]
      <4> TAKE i \in 1 .. 4
      <4>1. cells[2 + extra + i] = Byte(bytes[2 + extra + i]) /\ bytes[2 + extra + i] = h.key[i]
        BY <1>2, <1>3, <3>1, <3>2
      <4> QED  BY <4>1, <1>a
    <3>4. Bytes(cells, 2 + extra, 4) = h.key
      BY <3>1, <3>3 DEF Bytes
    <3> QED  BY <1>7, <2>2, <3>4
  <2> QED  BY <2>1, <2>2
<1>13. update_head_2bytes(cells) = Header(h.opcode, h.fin, h.len, h.key)
  BY <1>7, <1>10, <1>11, <1>12 DEF update_head_2bytes
<1>14. Header(h.opcode, h.fin, h.len, h.key) = h
  BY DEF Headers, Header
<1> QED  BY <1>8, <1>9, <1>13, <1>14 DEF cells

=============================================================================
