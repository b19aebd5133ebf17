------------------------- MODULE FrameFactoryProofs -------------------------
(***************************************************************************)
(* Proofs about FrameFactory for payloads of any length an int can say,    *)
(* any initial capacity and any size of the key cache.                     *)
(***************************************************************************)
EXTENDS FrameFactory, WsFrameProofs, XorShiftProofs

\* Two byte sequences, one behind the other.
LEMMA Concatenated ==
  \A s, t \in Seq(Byte) : s \o t \in Seq(Byte) /\ Len(s \o t) = Len(s) + Len(t)
OBVIOUS

\* A masking key is a sequence of four bytes.
LEMMA KeyType == \A k \in [1 .. 4 -> Byte] : k \in Seq(Byte) /\ Len(k) = 4
BY SeqOfFunction

\* An element of a sequence is of its set.
LEMMA ElementOf ==
  ASSUME NEW S, NEW s \in Seq(S), NEW i \in 1 .. Len(s) PROVE s[i] \in S
OBVIOUS

\* A flag in the top bit and seven bits below it make a byte.
LEMMA BitByte ==
  ASSUME NEW b \in BOOLEAN, NEW o \in 0 .. 127
  PROVE  Bit(b) + o \in Byte
BY DEF Bit, Byte

\* The length field is at most nine bytes.
LEMMA LengthField ==
  ASSUME NEW mask_bit \in {0, 128}, NEW n \in Nat, n <= MaxLen
  PROVE  /\ construct_length(mask_bit, n) \in Seq(Byte)
         /\ Len(construct_length(mask_bit, n)) \in 1 .. 9
<1>1. CASE n < 126
  <2>1. mask_bit + n \in Byte BY <1>1 DEF Byte
  <2>2. construct_length(mask_bit, n) = <<mask_bit + n>> BY <1>1 DEF construct_length
  <2> QED BY <2>1, <2>2
<1>2. CASE ~(n < 126) /\ n <= 65535
  <2>1. mask_bit + 126 \in Byte BY DEF Byte
  <2> DEFINE b == BigEndian2(n)
  <2>2. b \in Seq(Byte) /\ Len(b) = 2 BY <1>2, LengthBytesType
  <2>3. construct_length(mask_bit, n) = <<mask_bit + 126>> \o b
    BY <1>2 DEF construct_length
  <2> HIDE DEF b
  <2> DEFINE a == <<mask_bit + 126>>
  <2>4. a \in Seq(Byte) /\ Len(a) = 1 BY <2>1
  <2>5. construct_length(mask_bit, n) = a \o b BY <2>3
  <2> HIDE DEF a
  <2>6. a \in Seq(Byte) /\ b \in Seq(Byte) BY <2>2, <2>4
  <2>7. a \o b \in Seq(Byte) /\ Len(a \o b) = Len(a) + Len(b)
    BY <2>6, Concatenated, Zenon
  <2> QED BY <2>2, <2>4, <2>5, <2>7
<1>3. CASE ~(n < 126) /\ ~(n <= 65535)
  <2>1. mask_bit + 127 \in Byte BY DEF Byte
  <2> DEFINE b == BigEndian8(n)
  <2>2. b \in Seq(Byte) /\ Len(b) = 8 BY LengthBytesType DEF MaxLen
  <2>3. construct_length(mask_bit, n) = <<mask_bit + 127>> \o b
    BY <1>3 DEF construct_length
  <2> HIDE DEF b
  <2> DEFINE a == <<mask_bit + 127>>
  <2>4. a \in Seq(Byte) /\ Len(a) = 1 BY <2>1
  <2>5. construct_length(mask_bit, n) = a \o b BY <2>3
  <2> HIDE DEF a
  <2>6. a \in Seq(Byte) /\ b \in Seq(Byte) BY <2>2, <2>4
  <2>7. a \o b \in Seq(Byte) /\ Len(a \o b) = Len(a) + Len(b)
    BY <2>6, Concatenated, Zenon
  <2> QED BY <2>2, <2>4, <2>5, <2>7
<1> QED BY <1>1, <1>2, <1>3

\* Masking keeps bytes bytes, and their number.
LEMMA MaskedType ==
  ASSUME NEW s \in Seq(Byte), NEW key \in [1 .. 4 -> Byte]
  PROVE  masked(s, key) \in Seq(Byte) /\ Len(masked(s, key)) = Len(s)
<1>1. Len(s) \in Nat OBVIOUS
<1>2. ASSUME NEW i \in 1 .. Len(s) PROVE XorByte(s[i], key[((i - 1) % 4) + 1]) \in Byte
  <2>1. s[i] \in Byte BY ElementOf
  <2>2. ((i - 1) % 4) + 1 \in 1 .. 4
    <3>1. i - 1 \in Nat BY <1>1
    <3> QED BY <3>1
  <2>3. key[((i - 1) % 4) + 1] \in Byte BY <2>2
  <2> QED BY <2>1, <2>3, XorAssumption
<1>3. masked(s, key) \in [1 .. Len(s) -> Byte] BY <1>2 DEF masked
<1> QED BY <1>1, <1>3, SeqOfFunction

FrameRequest == [fin : BOOLEAN, opcode : 0 .. 15, mask : BOOLEAN, key : [1 .. 4 -> Byte],
                 payload : {s \in Seq(Byte) : Len(s) <= MaxLen}]

\* The bytes that construct writes.
Written(f) ==
  <<Bit(f.fin) + f.opcode>> \o construct_length(Bit(f.mask), Len(f.payload))
    \o (IF f.mask THEN f.key \o masked(f.payload, f.key) ELSE f.payload)

\* What construct writes is never longer than the room it made, and stands at the
\* front of the buffer whatever was there before.
LEMMA ConstructFits ==
  ASSUME NEW q, q.buf \in Seq(Byte), NEW f \in FrameRequest
  PROVE  /\ construct(q, f) \in [buf : Seq(Byte), size : Nat]
         /\ construct(q, f).size <= Len(construct(q, f).buf)
         /\ Written(f) \in Seq(Byte) /\ construct(q, f).size = Len(Written(f))
         /\ \A i \in 1 .. Len(Written(f)) : construct(q, f).buf[i] = Written(f)[i]
<1>1. PICK n \in Nat : n = Len(f.payload) /\ n <= MaxLen BY DEF FrameRequest
<1>2. f.payload \in Seq(Byte) /\ f.key \in [1 .. 4 -> Byte] /\ f.opcode \in 0 .. 127
      /\ f.fin \in BOOLEAN /\ f.mask \in BOOLEAN
  BY DEF FrameRequest
<1> DEFINE a == <<Bit(f.fin) + f.opcode>>
           b == construct_length(Bit(f.mask), n)
           m == masked(f.payload, f.key)
           c == IF f.mask THEN f.key \o m ELSE f.payload
           frame == a \o b \o c
           buf == ensure_fit(q.buf, Room(n))
<1>3. a \in Seq(Byte) /\ Len(a) = 1
  <2>1. Bit(f.fin) + f.opcode \in Byte BY <1>2, BitByte
  <2> QED BY <2>1
<1>4. b \in Seq(Byte) /\ Len(b) \in 1 .. 9
  <2>1. Bit(f.mask) \in {0, 128} BY <1>2 DEF Bit
  <2> QED BY <1>1, <2>1, LengthField
<1>5. c \in Seq(Byte) /\ Len(c) <= n + 4 /\ Len(c) \in Nat
  <2>1. m \in Seq(Byte) /\ Len(m) = n BY <1>1, <1>2, MaskedType
  <2>2. f.key \in Seq(Byte) /\ Len(f.key) = 4 BY <1>2, KeyType
  <2> HIDE DEF m
  <2>3. f.key \o m \in Seq(Byte) /\ Len(f.key \o m) = Len(f.key) + Len(m)
    BY <2>1, <2>2, Concatenated, Zenon
  <2>4. CASE f.mask BY <1>1, <2>1, <2>2, <2>3, <2>4
  <2>5. CASE ~f.mask BY <1>1, <1>2, <2>5
  <2> QED BY <2>4, <2>5
<1>6. frame \in Seq(Byte) /\ Len(frame) \in Nat /\ Len(frame) <= n + 14
  <2> HIDE DEF a, b, c
  <2>1. a \o b \in Seq(Byte) /\ Len(a \o b) = Len(a) + Len(b)
    BY <1>3, <1>4, Concatenated, Zenon
  <2>2. frame \in Seq(Byte) /\ Len(frame) = Len(a \o b) + Len(c)
    BY <1>5, <2>1, Concatenated, Zenon
  <2> HIDE DEF frame
  <2> DEFINE x == Len(a)  y == Len(b)  z == Len(c)  w == Len(frame)
  <2>3. w = x + y + z /\ x = 1 /\ y \in 1 .. 9 /\ z \in Nat /\ z <= n + 4
    BY <1>3, <1>4, <1>5, <2>1, <2>2
  <2> HIDE DEF x, y, z, w
  <2>4. w \in Nat /\ w <= n + 14 BY <1>1, <2>3
  <2> QED BY <2>2, <2>4 DEF w
<1>7. buf \in Seq(Byte) /\ Len(buf) \in Nat /\ Len(buf) >= n + 114
  <2> DEFINE l == Larger(Len(q.buf), Room(n))
  <2>1. l \in Nat /\ l >= n + 114 BY <1>1 DEF Larger, Room
  <2>2. \A i \in 1 .. l : (IF i <= Len(q.buf) THEN q.buf[i] ELSE 0) \in Byte
    <3> SUFFICES ASSUME NEW i \in 1 .. l, i <= Len(q.buf) PROVE q.buf[i] \in Byte
      BY DEF Byte
    <3>1. i \in 1 .. Len(q.buf) BY <2>1
    <3> QED BY <3>1, ElementOf
  <2>3. buf = [i \in 1 .. l |-> IF i <= Len(q.buf) THEN q.buf[i] ELSE 0] BY DEF ensure_fit
  <2> HIDE DEF l, buf
  <2>4. buf \in [1 .. l -> Byte] BY <2>2, <2>3
  <2> QED BY <2>1, <2>4, SeqOfFunction
<1> DEFINE rest == SubSeq(buf, Len(frame) + 1, Len(buf))
           all  == SubSeq(frame \o rest, 1, Len(buf))
<1>8. construct(q, f) = [buf |-> all, size |-> Len(frame)]
  BY <1>1 DEF construct
<1>12. frame = Written(f) BY <1>1 DEF Written
<1> HIDE DEF frame, buf
<1>9. rest \in Seq(Byte) /\ Len(rest) = Len(buf) - Len(frame)
  BY <1>1, <1>6, <1>7
<1> HIDE DEF rest
<1>10. frame \o rest \in Seq(Byte) /\ Len(frame \o rest) = Len(frame) + Len(rest)
  BY <1>6, <1>9, Concatenated, Zenon
<1>11. all \in Seq(Byte) /\ Len(all) = Len(buf) BY <1>6, <1>7, <1>9, <1>10
<1>13. \A i \in 1 .. Len(frame) : all[i] = frame[i]
  <2> SUFFICES ASSUME NEW i \in 1 .. Len(frame) PROVE all[i] = frame[i] OBVIOUS
  <2>1. (frame \o rest)[i] = frame[i] BY <1>6, <1>9, Joined
  <2> DEFINE whole == frame \o rest
  <2>2. i \in 1 .. Len(buf) BY <1>1, <1>6, <1>7
  <2>3. whole \in Seq(Byte) /\ Len(whole) = Len(buf) BY <1>6, <1>7, <1>9, <1>10
  <2>4. all = SubSeq(whole, 1, Len(buf)) /\ whole[i] = frame[i] BY <2>1
  <2> HIDE DEF whole, all
  <2> QED BY <2>2, <2>3, <2>4
<1> HIDE DEF all
<1> QED BY <1>1, <1>6, <1>7, <1>8, <1>11, <1>12, <1>13

----------------------------------------------------------------------------
(***************************************************************************)
(* What construct writes is the encoding of a frame on the wire, so that   *)
(* the lemmas about the decoder apply to it.                               *)
(***************************************************************************)
\* The form of the length field that construct chooses for n bytes.
ExtOf(n) == IF n < 126 THEN 0 ELSE IF n <= 65535 THEN 2 ELSE 8

\* The frame on the wire that a request becomes.
WireOf(f) ==
  [fin |-> f.fin, opcode |-> f.opcode, mask |-> f.mask, ext |-> ExtOf(Len(f.payload)),
   masking_key |-> f.key,
   payload |-> IF f.mask THEN masked(f.payload, f.key) ELSE f.payload]

\* The length field holds the length of the payload, masked or not.
LEMMA WireOfSendable ==
  ASSUME NEW f \in FrameRequest
  PROVE  WireOf(f) \in Sendable /\ Len(WireOf(f).payload) = Len(f.payload)
<1> DEFINE w == WireOf(f)
<1>1. PICK n \in Nat : n = Len(f.payload) /\ n <= 2147483647
  BY SMT DEF FrameRequest, MaxLen
<1>2. f.payload \in Seq(Byte) /\ f.key \in [1 .. 4 -> Byte] /\ f.opcode \in 0 .. 15
      /\ f.fin \in BOOLEAN /\ f.mask \in BOOLEAN
  BY DEF FrameRequest
<1>3. masked(f.payload, f.key) \in Seq(Byte) /\ Len(masked(f.payload, f.key)) = n
  BY <1>1, <1>2, MaskedType
<1> DEFINE s == IF f.mask THEN masked(f.payload, f.key) ELSE f.payload
<1>4. s \in Seq(Byte) /\ Len(s) = n
  <2>1. CASE f.mask BY <1>3, <2>1
  <2>2. CASE ~f.mask BY <1>1, <1>2, <2>2
  <2> QED BY <2>1, <2>2
<1>5. /\ w.payload = s /\ w.ext = ExtOf(n) /\ w.fin = f.fin /\ w.opcode = f.opcode
      /\ w.mask = f.mask /\ w.masking_key = f.key
      /\ w = [fin |-> f.fin, opcode |-> f.opcode, mask |-> f.mask, ext |-> ExtOf(n),
              masking_key |-> f.key, payload |-> s]
  BY <1>1 DEF WireOf
<1> HIDE DEF s, w
<1>6. /\ ExtOf(n) \in {0, 2, 8} /\ (ExtOf(n) = 0 => n <= 125) /\ (ExtOf(n) = 2 => n <= 65535)
  BY <1>1, SMT DEF ExtOf
<1>7. w \in WireFrame BY <1>2, <1>4, <1>5, <1>6 DEF WireFrame
<1>8. LengthFits(w)
  <2>1. Len(w.payload) = n /\ w.ext \in {0, 2, 8} BY <1>4, <1>5, <1>6
  <2>2. CASE w.ext = 0 BY <1>5, <1>6, <2>1, <2>2 DEF LengthFits
  <2>3. CASE w.ext = 2 BY <1>5, <1>6, <2>1, <2>3 DEF LengthFits
  <2>4. CASE w.ext = 8 BY <1>1, <2>1, <2>4, SMT DEF LengthFits
  <2> QED BY <2>1, <2>2, <2>3, <2>4
<1> QED BY <1>1, <1>4, <1>5, <1>7, <1>8 DEF Sendable, w

\* The three branches of construct write the length field of the wire format.
LEMMA LengthWritten ==
  ASSUME NEW w \in Sendable, NEW n \in Nat, Len(w.payload) = n, w.ext = ExtOf(n),
         NEW b \in {0, 128}
  PROVE  construct_length(b, n) = <<b + LengthCode(w)>> \o LengthBytes(w)
<1>1. CASE n < 126
  <2>1. w.ext = 0 BY <1>1 DEF ExtOf
  <2>2. LengthCode(w) = n /\ LengthBytes(w) = << >> BY <2>1 DEF LengthCode, LengthBytes
  <2>3. b + n \in Byte BY <1>1 DEF Byte
  <2>4. <<b + n>> \in Seq(Byte) BY <2>3
  <2>5. <<b + n>> \o << >> = <<b + n>> BY <2>4, ConcatEmptySeq
  <2>6. construct_length(b, n) = <<b + n>> BY <1>1 DEF construct_length
  <2> QED BY <2>2, <2>5, <2>6
<1>2. CASE ~(n < 126) /\ n <= 65535
  <2>1. w.ext = 2 BY <1>2 DEF ExtOf
  <2>2. LengthCode(w) = 126 /\ LengthBytes(w) = BigEndian2(n)
    BY <2>1 DEF LengthCode, LengthBytes
  <2>3. construct_length(b, n) = <<b + 126>> \o BigEndian2(n) BY <1>2 DEF construct_length
  <2> QED BY <2>2, <2>3
<1>3. CASE ~(n < 126) /\ ~(n <= 65535)
  <2>1. w.ext = 8 BY <1>3 DEF ExtOf
  <2>2. LengthCode(w) = 127 /\ LengthBytes(w) = BigEndian8(n)
    BY <2>1 DEF LengthCode, LengthBytes
  <2>3. construct_length(b, n) = <<b + 127>> \o BigEndian8(n) BY <1>3 DEF construct_length
  <2> QED BY <2>2, <2>3
<1> QED BY <1>1, <1>2, <1>3

\* The header up to the length field.
LEMMA HeaderWritten ==
  ASSUME NEW w \in Sendable, NEW n \in Nat, Len(w.payload) = n, w.ext = ExtOf(n)
  PROVE  /\ <<Bit(w.fin) + w.opcode>> \o construct_length(Bit(w.mask), n)
               = <<Bit(w.fin) + w.opcode, Bit(w.mask) + LengthCode(w)>> \o LengthBytes(w)
<1>1. Bit(w.mask) \in {0, 128} BY DEF Bit
<1>2. construct_length(Bit(w.mask), n) = <<Bit(w.mask) + LengthCode(w)>> \o LengthBytes(w)
  BY <1>1, LengthWritten
<1>3. /\ <<Bit(w.fin) + w.opcode, Bit(w.mask) + LengthCode(w)>> \in Seq(Byte)
      /\ LengthBytes(w) \in Seq(Byte)
  BY PartsType
<1>4. PICK x, y, l : /\ x = Bit(w.fin) + w.opcode /\ y = Bit(w.mask) + LengthCode(w)
                     /\ l = LengthBytes(w)
  OBVIOUS
<1>5. <<x, y>> \in Seq(Byte) /\ l \in Seq(Byte) BY <1>3, <1>4
<1>6. <<x>> \in Seq(Byte) /\ <<y>> \in Seq(Byte)
  <2>1. x \in Byte /\ y \in Byte
    <3>1. <<x, y>>[1] = x /\ <<x, y>>[2] = y /\ Len(<<x, y>>) = 2 OBVIOUS
    <3>2. 1 \in 1 .. Len(<<x, y>>) /\ 2 \in 1 .. Len(<<x, y>>) BY <3>1
    <3> QED BY <1>5, <3>1, <3>2, ElementOf
  <2> QED BY <2>1
<1>7. <<x>> \o <<y>> = <<x, y>>
  <2>1. PICK a \in Seq(Byte), b \in Seq(Byte) : a = <<x>> /\ b = <<y>> BY <1>6
  <2>2. Len(a) = 1 /\ Len(b) = 1 /\ a[1] = x /\ b[1] = y BY <2>1
  <2>3. a \o b \in Seq(Byte) /\ Len(a \o b) = 2 BY <2>2, Joined
  <2>4. (a \o b)[1] = x /\ (a \o b)[2] = y
    <3>1. 1 \in 1 .. Len(a) /\ 1 \in 1 .. Len(b) /\ Len(a) + 1 = 2 BY <2>2
    <3>2. (a \o b)[1] = a[1] /\ (a \o b)[Len(a) + 1] = b[1] BY <3>1, Joined
    <3> QED BY <2>2, <3>1, <3>2
  <2>5. \A i \in 1 .. 2 : (a \o b)[i] = <<x, y>>[i]
    <3>1. <<x, y>>[1] = x /\ <<x, y>>[2] = y OBVIOUS
    <3>2. PICK c, d : c = a \o b /\ d = <<x, y>> OBVIOUS
    <3>3. c[1] = d[1] /\ c[2] = d[2] BY <2>4, <3>1, <3>2
    <3>4. \A i \in 1 .. 2 : c[i] = d[i] BY <3>3
    <3> QED BY <3>2, <3>4
  <2>6. Len(<<x, y>>) = 2 OBVIOUS
  <2>7. a \o b = <<x, y>> BY <1>5, <2>3, <2>5, <2>6, SeqEqual
  <2> QED BY <2>1, <2>7
<1>8. (<<x>> \o <<y>>) \o l = <<x>> \o (<<y>> \o l) BY <1>5, <1>6, ConcatAssociative
<1> QED BY <1>2, <1>4, <1>7, <1>8

\* Every request is written as the wire format has it.
LEMMA WrittenIsEncoded ==
  ASSUME NEW f \in FrameRequest PROVE Written(f) = Encode(WireOf(f))
<1>1. PICK w : w = WireOf(f) OBVIOUS
<1>2. PICK n \in Nat : n = Len(f.payload) BY DEF FrameRequest
<1>3. w \in Sendable /\ Len(w.payload) = n BY <1>1, <1>2, WireOfSendable
<1>4. /\ w.ext = ExtOf(n) /\ w.fin = f.fin /\ w.opcode = f.opcode
      /\ w.mask = f.mask /\ w.masking_key = f.key
      /\ w.payload = IF f.mask THEN masked(f.payload, f.key) ELSE f.payload
  BY <1>1, <1>2 DEF WireOf
<1>5. PICK h : h = <<Bit(w.fin) + w.opcode, Bit(w.mask) + LengthCode(w)>> \o LengthBytes(w)
  OBVIOUS
<1>6. <<Bit(f.fin) + f.opcode>> \o construct_length(Bit(f.mask), Len(f.payload)) = h
  BY <1>2, <1>3, <1>4, <1>5, HeaderWritten
<1>7. h \in Seq(Byte)
  <2>1. /\ <<Bit(w.fin) + w.opcode, Bit(w.mask) + LengthCode(w)>> \in Seq(Byte)
        /\ LengthBytes(w) \in Seq(Byte)
    BY <1>3, PartsType
  <2> QED BY <1>5, <2>1, Concatenated, Zenon
<1>8. w.payload \in Seq(Byte) /\ w.masking_key \in Seq(Byte)
  BY <1>3, FrameFields, KeyType
<1>9. CASE f.mask
  <2>1. Written(f) = h \o (w.masking_key \o w.payload) BY <1>4, <1>6, <1>9 DEF Written
  <2>2. Encode(w) = (h \o w.masking_key) \o w.payload BY <1>4, <1>5, <1>9 DEF Encode
  <2>3. (h \o w.masking_key) \o w.payload = h \o (w.masking_key \o w.payload)
    <3>1. PICK k \in Seq(Byte), s \in Seq(Byte) : k = w.masking_key /\ s = w.payload BY <1>8
    <3>2. (h \o k) \o s = h \o (k \o s) BY <1>7, ConcatAssociative
    <3> QED BY <3>1, <3>2
  <2> QED BY <1>1, <2>1, <2>2, <2>3
<1>10. CASE ~f.mask
  <2>1. Written(f) = h \o w.payload BY <1>4, <1>6, <1>10 DEF Written
  <2>2. Encode(w) = (h \o << >>) \o w.payload BY <1>4, <1>5, <1>10 DEF Encode
  <2>3. h \o << >> = h BY <1>7, ConcatEmptySeq
  <2> QED BY <1>1, <2>1, <2>2, <2>3
<1> QED BY <1>9, <1>10

\* A byte of a word is a byte.
LEMMA ByteOfByte == \A w, k : ByteOf(w, k) \in Byte
BY DEF ByteOf, Byte

\* fill_bytes fills the whole cache with bytes.
LEMMA FillType == \A g : Fill(g).bytes \in [1 .. 4 * Entries -> Byte]
<1> SUFFICES ASSUME NEW g PROVE fill_bytes(g, 4 * Entries).bytes \in [1 .. 4 * Entries -> Byte]
  BY DEF Fill
<1> QED BY ByteOfByte DEF fill_bytes
----------------------------------------------------------------------------
(***************************************************************************)
(* The inductive invariant: the cursor of the cache stands between keys,   *)
(* every key drawn from the fill in use lies before it, and the buffer     *)
(* starts with the last request, encoded.                                  *)
(***************************************************************************)
Aligned == \E k \in 0 .. Entries : m_cache_ptr = 4 * k

DrawnBehind ==
  \A i \in DOMAIN drawn :
    /\ drawn[i].fill <= fill
    /\ drawn[i].fill = fill => drawn[i].at + 4 <= m_cache_ptr

\* The front of the buffer is the request as the wire format has it.
Encoded ==
  request = << >> \/
    /\ request \in FrameRequest /\ out.size = WireLen(WireOf(request))
    /\ \A i \in 1 .. out.size : out.buf[i] = Encode(WireOf(request))[i]

Inv == TypeOK /\ EncodedInBounds /\ KeysAreFresh /\ Aligned /\ DrawnBehind /\ Encoded

\* The invariant holds for a new factory.
LEMMA InvInit == Init => Inv
<1> SUFFICES ASSUME Init PROVE Inv OBVIOUS
<1>1. [i \in 1 .. InitCap |-> 0] \in [1 .. InitCap -> Byte] BY DEF Byte
<1>2. /\ [i \in 1 .. InitCap |-> 0] \in Seq(Byte)
      /\ Len([i \in 1 .. InitCap |-> 0]) = InitCap
  BY <1>1, FactoryAssumption, SeqOfFunction
<1>3. cache \in [1 .. 4 * Entries -> Byte] BY FillType DEF Init
<1>7. TypeOK BY <1>2, <1>3, FactoryAssumption DEF Init, TypeOK
<1>4. EncodedInBounds BY <1>2, FactoryAssumption DEF Init, EncodedInBounds
<1>5. KeysAreFresh /\ DrawnBehind BY DEF Init, KeysAreFresh, DrawnBehind
<1>6. Aligned
  <2>1. m_cache_ptr = 4 * 0 /\ 0 \in 0 .. Entries BY FactoryAssumption DEF Init
  <2> QED BY <2>1 DEF Aligned
<1>8. Encoded BY DEF Init, Encoded
<1> QED BY <1>4, <1>5, <1>6, <1>7, <1>8 DEF Inv

\* Where the next key is taken from, and the state of the cache behind it.
LEMMA KeyDrawn ==
  ASSUME Inv, Filled, m_cache_ptr' = Advanced(Position)
  PROVE  /\ cache' \in [1 .. 4 * Entries -> Byte]
         /\ Position \in Nat /\ Position + 4 <= 4 * Entries
         /\ m_cache_ptr' = Position + 4 /\ Aligned'
         /\ fill' \in Nat \ {0} /\ fill' >= fill
         /\ fill' = fill => Position = m_cache_ptr
<1>1. PICK k \in 0 .. Entries : m_cache_ptr = 4 * k BY DEF Inv, Aligned
<1>2. Entries \in Nat \ {0} BY FactoryAssumption
<1>3. cache \in [1 .. 4 * Entries -> Byte] /\ fill \in Nat \ {0} BY DEF Inv, TypeOK
<1>4. CASE Spent
  <2>1. Position = 0 /\ cache' = Fill(m_random).bytes /\ fill' = fill + 1
    BY <1>4 DEF Position, Filled, fill_cache
  <2>2. cache' \in [1 .. 4 * Entries -> Byte] BY <2>1, FillType
  <2>3. m_cache_ptr' = 4 * 1 /\ 1 \in 0 .. Entries BY <1>2, <2>1 DEF Advanced
  <2>4. Aligned' BY <2>3 DEF Aligned
  <2> QED BY <1>2, <1>3, <2>1, <2>2, <2>3, <2>4
<1>5. CASE ~Spent
  <2>1. Position = 4 * k /\ cache' = cache /\ fill' = fill
    BY <1>1, <1>5 DEF Position, Filled
  <2>2. k + 1 \in 0 .. Entries BY <1>1, <1>2, <1>5 DEF Spent
  <2>3. m_cache_ptr' = 4 * (k + 1) BY <2>1, <2>2 DEF Advanced
  <2>4. Aligned' BY <2>2, <2>3 DEF Aligned
  <2> QED BY <1>1, <1>2, <1>3, <2>1, <2>2, <2>3, <2>4
<1> QED BY <1>4, <1>5

\* A key drawn at Position is appended to the history.
LEMMA DrawnStep ==
  ASSUME Inv, NEW p \in Nat, p + 4 <= 4 * Entries,
         fill' \in Nat \ {0}, fill' >= fill, fill' = fill => p = m_cache_ptr,
         m_cache_ptr' = p + 4,
         drawn' = Append(drawn, [fill |-> fill', at |-> p])
  PROVE  /\ drawn' \in Seq([fill : Nat \ {0}, at : Nat])
         /\ KeysAreFresh' /\ DrawnBehind'
<1> DEFINE R == [fill : Nat \ {0}, at : Nat]
           d == [fill |-> fill', at |-> p]
<1>1. drawn \in Seq(R) /\ d \in R /\ fill \in Nat /\ m_cache_ptr \in Nat /\ Entries \in Nat
  BY FactoryAssumption DEF Inv, TypeOK
<1>2. PICK l \in Nat : l = Len(drawn) BY <1>1
<1>3. /\ drawn' \in Seq(R) /\ DOMAIN drawn = 1 .. l /\ DOMAIN drawn' = 1 .. l + 1
      /\ \A i \in 1 .. l : drawn'[i] = drawn[i]
      /\ drawn'[l + 1] = d
  BY <1>1, <1>2
<1>4. \A i \in 1 .. l : drawn[i].fill \in Nat /\ drawn[i].at \in Nat
  <2> SUFFICES ASSUME NEW i \in 1 .. Len(drawn) PROVE drawn[i] \in R BY <1>2
  <2> HIDE DEF R
  <2> QED BY <1>1, ElementOf
<1>5. \A i \in 1 .. l : /\ drawn[i].fill <= fill /\ drawn[i].at + 4 <= 4 * Entries
                        /\ drawn[i].fill = fill => drawn[i].at + 4 <= m_cache_ptr
  BY <1>3 DEF Inv, DrawnBehind, KeysAreFresh
<1>6. \A i \in 1 .. l : /\ drawn[i].fill <= fill'
                        /\ drawn[i].fill = fill' => drawn[i].at + 4 <= p
  <2> SUFFICES ASSUME NEW i \in 1 .. l
               PROVE  /\ drawn[i].fill <= fill'
                      /\ drawn[i].fill = fill' => drawn[i].at + 4 <= p
    OBVIOUS
  <2> DEFINE x == drawn[i].fill
  <2>1. x \in Nat /\ x <= fill BY <1>4, <1>5
  <2>2. x = fill => drawn[i].at + 4 <= m_cache_ptr BY <1>5
  <2> HIDE DEF x
  <2>3. x <= fill' /\ (x = fill' => x = fill /\ fill' = fill) BY <1>1, <2>1
  <2> QED BY <2>2, <2>3 DEF x
<1>7. d.fill = fill' /\ d.at = p OBVIOUS
<1> HIDE DEF d
<1>8. DrawnBehind'
  <2> SUFFICES ASSUME NEW i \in 1 .. l + 1
               PROVE  /\ drawn'[i].fill <= fill'
                      /\ drawn'[i].fill = fill' => drawn'[i].at + 4 <= m_cache_ptr'
    BY <1>3 DEF DrawnBehind
  <2>1. CASE i = l + 1 BY <1>2, <1>3, <1>7, <2>1
  <2>2. CASE i \in 1 .. l
    <3>1. drawn'[i] = drawn[i] BY <1>3, <2>2
    <3>2. drawn[i].fill <= fill' /\ drawn[i].at \in Nat
          /\ (drawn[i].fill = fill' => drawn[i].at + 4 <= p)
      BY <1>4, <1>6, <2>2
    <3> DEFINE a == drawn[i].at
    <3>3. a \in Nat /\ (a + 4 <= p => a + 4 <= m_cache_ptr')
      <4>1. a \in Nat BY <3>2
      <4> HIDE DEF a
      <4> QED BY <4>1
    <3> QED BY <3>1, <3>2, <3>3
  <2> QED BY <1>2, <2>1, <2>2
<1>9. KeysAreFresh'
  <2> SUFFICES ASSUME NEW i \in 1 .. l + 1
               PROVE  /\ drawn'[i].at + 4 <= 4 * Entries
                      /\ \A j \in 1 .. i - 1 :
                           drawn'[j].fill = drawn'[i].fill
                             => drawn'[j].at + 4 <= drawn'[i].at
    BY <1>3 DEF KeysAreFresh
  <2>1. CASE i = l + 1
    <3>1. \A j \in 1 .. i - 1 : j \in 1 .. l /\ drawn'[j] = drawn[j] BY <1>2, <1>3, <2>1
    <3>2. drawn'[i] = d BY <1>3, <2>1
    <3> QED BY <1>6, <1>7, <3>1, <3>2
  <2>2. CASE i \in 1 .. l
    <3>1. \A j \in 1 .. i - 1 : j \in 1 .. l /\ drawn'[j] = drawn[j] BY <1>2, <1>3, <2>2
    <3>2. drawn'[i] = drawn[i] BY <1>3, <2>2
    <3>3. \A j \in 1 .. i - 1 :
            drawn[j].fill = drawn[i].fill => drawn[j].at + 4 <= drawn[i].at
      BY <1>3, <2>2 DEF Inv, KeysAreFresh
    <3>4. drawn'[i].at + 4 <= 4 * Entries BY <1>5, <2>2, <3>2
    <3>5. \A j \in 1 .. i - 1 :
            drawn'[j].fill = drawn'[i].fill => drawn'[j].at + 4 <= drawn'[i].at
      BY <3>1, <3>2, <3>3
    <3> QED BY <3>4, <3>5
  <2> QED BY <1>2, <2>1, <2>2
<1> QED BY <1>3, <1>8, <1>9

\* A frame is built: of any kind, masked or not.
LEMMA ConstructStep ==
  ASSUME Inv, NEW fin \in BOOLEAN, NEW opcode \in 0 .. 15, NEW mask \in BOOLEAN,
         NEW payload \in Payloads, Construct(fin, opcode, mask, payload)
  PROVE  Inv'
<1> DEFINE key == IF mask THEN [i \in 1 .. 4 |-> cache'[Position + i]] ELSE NoKey
           f   == [fin |-> fin, opcode |-> opcode, mask |-> mask, key |-> key,
                   payload |-> payload]
<1>1. made < MaxFrames /\ made' = made + 1 /\ out' = construct(out, f)
  BY DEF Construct
<1>2. /\ key \in [1 .. 4 -> Byte] /\ cache' \in [1 .. 4 * Entries -> Byte]
      /\ m_cache_ptr' \in 0 .. 4 * Entries /\ fill' \in Nat \ {0}
      /\ drawn' \in Seq([fill : Nat \ {0}, at : Nat])
      /\ KeysAreFresh' /\ Aligned' /\ DrawnBehind'
  <2>1. CASE mask
    <3>1. /\ Filled /\ m_cache_ptr' = Advanced(Position)
          /\ drawn' = Append(drawn, [fill |-> fill', at |-> Position])
      BY <2>1 DEF Construct
    <3>2. /\ cache' \in [1 .. 4 * Entries -> Byte]
          /\ Position \in Nat /\ Position + 4 <= 4 * Entries
          /\ m_cache_ptr' = Position + 4 /\ Aligned'
          /\ fill' \in Nat \ {0} /\ fill' >= fill
          /\ fill' = fill => Position = m_cache_ptr
      BY <3>1, KeyDrawn
    <3>3. /\ drawn' \in Seq([fill : Nat \ {0}, at : Nat])
          /\ KeysAreFresh' /\ DrawnBehind'
      BY <3>1, <3>2, DrawnStep
    <3>4. key \in [1 .. 4 -> Byte]
      <4>1. \A i \in 1 .. 4 : Position + i \in 1 .. 4 * Entries BY <3>2, FactoryAssumption
      <4>2. \A i \in 1 .. 4 : cache'[Position + i] \in Byte BY <3>2, <4>1
      <4> QED BY <2>1, <4>2
    <3> QED BY <3>2, <3>3, <3>4
  <2>2. CASE ~mask
    <3>1. UNCHANGED <<cache, fill, m_cache_ptr, drawn>> BY <2>2 DEF Construct
    <3>2. key \in [1 .. 4 -> Byte]
      <4>1. NoKey \in [1 .. 4 -> Byte] BY DEF NoKey, Byte
      <4> QED BY <2>2, <4>1
    <3>3. KeysAreFresh' BY <3>1 DEF Inv, KeysAreFresh
    <3>4. DrawnBehind' BY <3>1 DEF Inv, DrawnBehind
    <3>5. Aligned' BY <3>1 DEF Inv, Aligned
    <3> QED BY <3>1, <3>2, <3>3, <3>4, <3>5 DEF Inv, TypeOK
  <2> QED BY <2>1, <2>2
<1>3. f \in FrameRequest /\ out.buf \in Seq(Byte)
  <2>1. payload \in Seq(Byte) /\ Len(payload) <= MaxLen BY FactoryAssumption
  <2> HIDE DEF key
  <2> QED BY <1>2, <2>1 DEF FrameRequest, Inv, TypeOK
<1>8. request' = f BY DEF Construct
<1> HIDE DEF key, f
<1>4. out' \in [buf : Seq(Byte), size : Nat] /\ out'.size <= Len(out'.buf)
  BY <1>1, <1>3, ConstructFits
<1>5. made' \in 0 .. MaxFrames BY <1>1, FactoryAssumption DEF Inv, TypeOK
<1>6. TypeOK' BY <1>2, <1>4, <1>5 DEF TypeOK
<1>7. EncodedInBounds' BY <1>4 DEF EncodedInBounds
<1>9. Encoded'
  <2>1. /\ out'.size = Len(Written(f))
        /\ \A i \in 1 .. Len(Written(f)) : out'.buf[i] = Written(f)[i]
    BY <1>1, <1>3, ConstructFits
  <2>2. Written(f) = Encode(WireOf(f)) /\ WireOf(f) \in Sendable
    BY <1>3, WrittenIsEncoded, WireOfSendable
  <2>3. Len(Written(f)) = WireLen(WireOf(f)) BY <2>2, EncodeBytes
  <2> QED BY <1>3, <1>8, <2>1, <2>2, <2>3 DEF Encoded
<1> QED BY <1>2, <1>6, <1>7, <1>9 DEF Inv

\* fill_random_cache: no earlier key is of the new fill.
LEMMA FillStep ==
  ASSUME Inv, fill_random_cache PROVE Inv'
<1>1. /\ made < MaxFrames /\ made' = made + 1 /\ cache' = Fill(m_random).bytes
      /\ m_cache_ptr' = 0 /\ fill' = fill + 1 /\ UNCHANGED <<out, drawn, request>>
  BY DEF fill_random_cache, fill_cache
<1>2. cache' \in [1 .. 4 * Entries -> Byte] BY <1>1, FillType
<1>3. made' \in 0 .. MaxFrames BY <1>1, FactoryAssumption DEF Inv, TypeOK
<1>4. TypeOK' BY <1>1, <1>2, <1>3, FactoryAssumption DEF Inv, TypeOK
<1>5. EncodedInBounds' BY <1>1 DEF Inv, EncodedInBounds
<1>6. KeysAreFresh' BY <1>1 DEF Inv, KeysAreFresh
<1>7. Aligned'
  <2>1. m_cache_ptr' = 4 * 0 /\ 0 \in 0 .. Entries BY <1>1, FactoryAssumption
  <2> QED BY <2>1 DEF Aligned
<1>8. DrawnBehind'
  <2> SUFFICES ASSUME NEW i \in DOMAIN drawn
               PROVE  drawn[i].fill <= fill + 1 /\ drawn[i].fill # fill + 1
    BY <1>1 DEF DrawnBehind
  <2> DEFINE R == [fill : Nat \ {0}, at : Nat]
             x == drawn[i].fill
  <2>1. drawn \in Seq(R) /\ fill \in Nat /\ x <= fill BY DEF Inv, TypeOK, DrawnBehind
  <2>2. drawn[i] \in R
    <3> HIDE DEF R
    <3> QED BY <2>1
  <2>3. x \in Nat BY <2>2
  <2> HIDE DEF x
  <2>4. x <= fill + 1 /\ x # fill + 1 BY <2>1, <2>3
  <2> QED BY <2>4 DEF x
<1>9. Encoded' BY <1>1 DEF Inv, Encoded
<1> QED BY <1>4, <1>5, <1>6, <1>7, <1>8, <1>9 DEF Inv

\* Every call of the factory keeps the invariant.
LEMMA InvStep == Inv /\ [Next]_vars => Inv'
<1> SUFFICES ASSUME Inv, [Next]_vars PROVE Inv' OBVIOUS
<1>1. ASSUME NEW payload \in Payloads, NEW mask \in BOOLEAN, NEW fin \in BOOLEAN,
             text(fin, mask, payload) \/ binary(fin, mask, payload)
      PROVE  Inv'
  <2>1. 1 \in 0 .. 15 /\ 2 \in 0 .. 15 OBVIOUS
  <2> QED BY <1>1, <2>1, ConstructStep DEF text, binary
<1>2. ASSUME NEW payload \in Payloads, NEW mask \in BOOLEAN,
             ping(mask, payload) \/ pong(mask, payload) \/ close(mask, payload)
      PROVE  Inv'
  <2>1. 8 \in 0 .. 15 /\ 9 \in 0 .. 15 /\ 10 \in 0 .. 15 /\ TRUE \in BOOLEAN OBVIOUS
  <2> QED BY <1>2, <2>1, ConstructStep DEF ping, pong, close
<1>3. CASE fill_random_cache BY <1>3, FillStep
<1>4. CASE UNCHANGED vars
  <2>1. UNCHANGED <<out, cache, m_cache_ptr, made, fill, drawn, request>> BY <1>4 DEF vars
  <2>2. TypeOK' BY <2>1 DEF Inv, TypeOK
  <2>3. EncodedInBounds' BY <2>1 DEF Inv, EncodedInBounds
  <2>4. KeysAreFresh' BY <2>1 DEF Inv, KeysAreFresh
  <2>5. Aligned' BY <2>1 DEF Inv, Aligned
  <2>6. DrawnBehind' BY <2>1 DEF Inv, DrawnBehind
  <2>7. Encoded' BY <2>1 DEF Inv, Encoded
  <2> QED BY <2>2, <2>3, <2>4, <2>5, <2>6, <2>7 DEF Inv
<1> QED BY <1>1, <1>2, <1>3, <1>4, Zenon DEF Next

\* The factory keeps its types; in particular the cursor of RandomCache never
\* passes the end of the cache.
THEOREM FactoryTypeCorrect == Spec => []TypeOK
<1>1. Inv => TypeOK BY DEF Inv
<1> QED BY InvInit, InvStep, <1>1, PTL DEF Spec

\* The unchecked writes of Frame::construct stay inside the output buffer for every
\* payload and every sequence of calls.
THEOREM EncodedSafe == Spec => []EncodedInBounds
<1>1. Inv => EncodedInBounds BY DEF Inv
<1> QED BY InvInit, InvStep, <1>1, PTL DEF Spec

\* RandomCache::get never reads beyond the cache and never gives out a byte of
\* one fill twice, for every size of the cache.
THEOREM MaskingKeysFresh == Spec => []KeysAreFresh
<1>1. Inv => KeysAreFresh BY DEF Inv
<1> QED BY InvInit, InvStep, <1>1, PTL DEF Spec
----------------------------------------------------------------------------
(* The decoder on what the factory has built.                              *)

\* A parser over the front of a buffer is sound and at the front of the frame.
LEMMA FreshDecoding ==
  ASSUME NEW b \in Seq(Byte), NEW n \in Nat, n <= Len(b), NEW w \in Sendable,
         \A i \in 1 .. n : i <= WireLen(w) => b[i] = Encode(w)[i]
  PROVE  LET q == Fresh(b, n)
         IN  /\ Sound(q) /\ Prefix(q, w) /\ Decoding(q, w)
             /\ q.stage = "FIN_BIT" /\ q.size = n
<1>1. Fresh(b, n) \in ParserType BY EmptyFrameType, StageNames DEF Fresh, ParserType
<1>2. PICK q : q = Fresh(b, n) OBVIOUS
<1>3. /\ q.buf = b /\ q.size = n /\ q.ptr = 0 /\ q.stage = "FIN_BIT"
      /\ q.frame = EmptyFrame
  BY <1>2 DEF Fresh
<1>4. Sound(q) BY <1>1, <1>2, <1>3 DEF Sound
<1>5. Prefix(q, w) BY <1>3 DEF Prefix
<1>6. q.frame.payload = NoPayload BY <1>3 DEF EmptyFrame
<1>7. Decoding(q, w) BY <1>3, <1>6 DEF Decoding
<1> QED BY <1>2, <1>3, <1>4, <1>5, <1>7

\* Masking twice with one key is the identity.
LEMMA UnmaskMasked ==
  ASSUME NEW s \in Seq(Byte), NEW key \in [1 .. 4 -> Byte]
  PROVE  Unmasked(masked(s, key), key) = s
<1> DEFINE m == masked(s, key)
           r == Unmasked(m, key)
<1>1. m \in Seq(Byte) /\ Len(m) = Len(s) BY MaskedType
<1>2. Len(s) \in Nat /\ DOMAIN m = 1 .. Len(s) BY <1>1
<1>3. \A i \in 1 .. Len(s) : r[i] = s[i]
  <2> SUFFICES ASSUME NEW i \in 1 .. Len(s) PROVE r[i] = s[i] OBVIOUS
  <2>1. PICK k : k = key[((i - 1) % 4) + 1] OBVIOUS
  <2>2. ((i - 1) % 4) + 1 \in 1 .. 4
    <3>1. i - 1 \in Nat BY <1>2
    <3> QED BY <3>1
  <2>3. k \in Byte /\ s[i] \in Byte BY <2>1, <2>2, ElementOf
  <2>4. m[i] = XorByte(s[i], k) BY <2>1 DEF masked
  <2>5. r[i] = XorByte(m[i], k) BY <1>2, <2>1 DEF Unmasked
  <2> QED BY <2>3, <2>4, <2>5, XorAssumption
<1>4. r \in [1 .. Len(s) -> Byte]
  <2>1. \A i \in 1 .. Len(s) : s[i] \in Byte BY ElementOf
  <2>2. DOMAIN r = 1 .. Len(s) /\ r = [i \in DOMAIN r |-> r[i]] BY <1>2 DEF Unmasked
  <2> HIDE DEF r
  <2> QED BY <1>3, <2>1, <2>2
<1> HIDE DEF r
<1>5. r \in Seq(Byte) /\ Len(r) = Len(s) BY <1>2, <1>4, SeqOfFunction
<1>6. r = s BY <1>3, <1>5, SeqEqual
<1> QED BY <1>6 DEF r

\* The front of the buffer is the frame of RFC 6455 for the last request, for every
\* payload that an int can say the length of, masked with the key drawn for it.
THEOREM FactoryWritesFrames == Spec => []Encoded
<1>1. Inv => Encoded BY DEF Inv
<1> QED BY InvInit, InvStep, <1>1, PTL DEF Spec

\* FrameParser reads every frame of the factory back as it was requested and consumes
\* all of it: for every payload of up to 65535 bytes, every key, and whatever an
\* earlier frame left in the buffer.
THEOREM FactoryFramesDecode == Spec => []DecodesToRequest
<1>1. ASSUME Inv PROVE DecodesToRequest
  <2> SUFFICES ASSUME request # << >>, ~(Len(request.payload) > MaxLen16)
               PROVE  LET q == parse(Fresh(out.buf, out.size), 0)
                          f == FrameOf(q)
                      IN /\ done(q) /\ remaining(q) = 0
                         /\ f.fin = request.fin /\ f.opcode = request.opcode
                         /\ f.mask = request.mask
                         /\ request.payload = IF f.mask THEN Unmasked(f.payload, f.masking_key)
                                              ELSE f.payload
    BY Zenon DEF DecodesToRequest
  <2>1. /\ request \in FrameRequest /\ out.size = WireLen(WireOf(request))
        /\ \A i \in 1 .. out.size : out.buf[i] = Encode(WireOf(request))[i]
        /\ out.buf \in Seq(Byte) /\ out.size \in Nat /\ out.size <= Len(out.buf)
    BY <1>1 DEF Inv, Encoded, TypeOK, EncodedInBounds
  <2>2. PICK w : w = WireOf(request) OBVIOUS
  <2>3. PICK b, n : b = out.buf /\ n = out.size OBVIOUS
  <2>4. w \in Sendable BY <2>1, <2>2, WireOfSendable
  <2>5. PICK q : q = Fresh(b, n) OBVIOUS
  <2>6. Sound(q) /\ Prefix(q, w) /\ Decoding(q, w) /\ q.size = n
    BY <2>1, <2>2, <2>3, <2>4, <2>5, FreshDecoding
  <2>7. PICK r : r = parse(q, 0) OBVIOUS
  <2>8. Keeps(q, r) /\ Decoding(r, w) /\ (done(r) \/ q.size < WireLen(w))
    <3>1. w.ext # 8
      <4>1. PICK k : k = Len(request.payload) OBVIOUS
      <4>2. k \in Nat /\ k <= 65535 /\ w.ext = ExtOf(k)
        BY <2>1, <2>2, <4>1 DEF FrameRequest, WireOf, MaxLen16
      <4> QED BY <4>2, SMT DEF ExtOf
    <3>2. Undecoded(q, w) BY <3>1 DEF Undecoded
    <3> QED BY <2>4, <2>6, <2>7, <3>2, ParseKeeps, ParseDecodes
  <2>9. done(r) /\ r.ptr = WireLen(w) /\ r.size = WireLen(w)
    <3>1. WireLen(w) \in Nat /\ q.size = WireLen(w) BY <2>1, <2>2, <2>3, <2>6
    <3>2. done(r) BY <2>8, <3>1
    <3> QED BY <2>8, <3>1, <3>2 DEF Keeps, Decoding, done
  <2>10. remaining(r) = 0
    <3>1. WireLen(w) \in Nat BY <2>1, <2>2
    <3> QED BY <2>9, <3>1 DEF remaining
  <2>11. FrameOf(r) = Content(w)
    BY <2>4, <2>6, <2>8, <2>9, KeepsPrefix, DoneDecodes
  <2>12. PICK f : f = Content(w) OBVIOUS
  <2>13. /\ w.fin = request.fin /\ w.opcode = request.opcode /\ w.mask = request.mask
         /\ w.masking_key = request.key
         /\ w.payload = IF request.mask THEN masked(request.payload, request.key)
                        ELSE request.payload
    BY <2>2 DEF WireOf
  <2>14. /\ f.fin = w.fin /\ f.opcode = w.opcode /\ f.mask = w.mask /\ f.payload = w.payload
         /\ w.mask => f.masking_key = w.masking_key
    BY <2>12 DEF Content
  <2>15. request.payload = IF f.mask THEN Unmasked(f.payload, f.masking_key) ELSE f.payload
    <3>1. CASE f.mask
      <4>1. f.payload = masked(request.payload, request.key) /\ f.masking_key = request.key
        BY <2>13, <2>14, <3>1
      <4>2. request.payload \in Seq(Byte) /\ request.key \in [1 .. 4 -> Byte]
        BY <2>1 DEF FrameRequest
      <4>3. Unmasked(masked(request.payload, request.key), request.key) = request.payload
        BY <4>2, UnmaskMasked
      <4> QED BY <3>1, <4>1, <4>3
    <3>2. CASE ~f.mask BY <2>13, <2>14, <3>2
    <3> QED BY <3>1, <3>2
  <2>16. parse(Fresh(out.buf, out.size), 0) = r BY <2>3, <2>5, <2>7
  <2>17. FrameOf(r) = f BY <2>11, <2>12
  <2> QED BY <2>9, <2>10, <2>13, <2>14, <2>15, <2>16, <2>17, Zenon
<1> QED BY InvInit, InvStep, <1>1, PTL DEF Spec

\* A frame of n bytes, which need not be sent to ask what its header becomes.
Blank(mask, n) ==
  [fin |-> TRUE, opcode |-> 1, mask |-> mask, ext |-> ExtOf(n), masking_key |-> NoKey,
   payload |-> [i \in 1 .. n |-> 0]]

\* The header of the blank frame.
LEMMA BlankHeader ==
  ASSUME NEW mask \in BOOLEAN, NEW n \in Nat, n <= MaxLen
  PROVE  LET w == Blank(mask, n)
             h == <<129>> \o construct_length(Bit(mask), n)
         IN  /\ w \in Sendable /\ Len(w.payload) = n /\ w.mask = mask
             /\ h \in Seq(Byte) /\ Len(h) = 2 + w.ext
             /\ \A i \in 1 .. Len(h) : Encode(w)[i] = h[i]
<1> DEFINE s == [i \in 1 .. n |-> 0]
<1>1. s \in [1 .. n -> Byte] BY DEF Byte
<1> HIDE DEF s
<1>2. s \in Seq(Byte) /\ Len(s) = n BY <1>1, SeqOfFunction
<1>3. PICK w : w = Blank(mask, n) OBVIOUS
<1>4. /\ w.payload = s /\ w.ext = ExtOf(n) /\ w.mask = mask /\ w.fin = TRUE /\ w.opcode = 1
      /\ w.masking_key = NoKey
      /\ w = [fin |-> TRUE, opcode |-> 1, mask |-> mask, ext |-> ExtOf(n),
              masking_key |-> NoKey, payload |-> s]
  BY <1>3 DEF Blank, s
<1>5. NoKey \in [1 .. 4 -> Byte] BY DEF NoKey, Byte
<1>6. /\ ExtOf(n) \in {0, 2, 8} /\ (ExtOf(n) = 0 => n <= 125) /\ (ExtOf(n) = 2 => n <= 65535)
  BY SMT DEF ExtOf
<1>7. w \in WireFrame BY <1>2, <1>4, <1>5, <1>6 DEF WireFrame
<1>8. LengthFits(w)
  <2>1. Len(w.payload) = n /\ w.ext \in {0, 2, 8} BY <1>2, <1>4, <1>6
  <2>2. CASE w.ext = 0 BY <1>4, <1>6, <2>1, <2>2 DEF LengthFits
  <2>3. CASE w.ext = 2 BY <1>4, <1>6, <2>1, <2>3 DEF LengthFits
  <2>4. CASE w.ext = 8 BY <2>1, <2>4, SMT DEF LengthFits, MaxLen
  <2> QED BY <2>1, <2>2, <2>3, <2>4
<1>9. w \in Sendable /\ Len(w.payload) = n BY <1>2, <1>4, <1>7, <1>8 DEF Sendable
<1>10. PICK a, l : /\ a = <<Bit(w.fin) + w.opcode, Bit(w.mask) + LengthCode(w)>>
                   /\ l = LengthBytes(w)
  OBVIOUS
<1>11. /\ a \in Seq(Byte) /\ l \in Seq(Byte)
       /\ (IF w.mask THEN w.masking_key ELSE << >>) \in Seq(Byte)
  BY <1>9, <1>10, PartsType
<1>12. PICK h : h = a \o l OBVIOUS
<1>13. Bit(w.fin) + w.opcode = 129 BY <1>4 DEF Bit
<1>14. <<129>> \o construct_length(Bit(mask), n) = h
  <2>1. <<Bit(w.fin) + w.opcode>> \o construct_length(Bit(w.mask), n)
          = <<Bit(w.fin) + w.opcode, Bit(w.mask) + LengthCode(w)>> \o LengthBytes(w)
    BY <1>4, <1>9, HeaderWritten
  <2>2. w.mask = mask BY <1>4
  <2> QED BY <1>10, <1>12, <1>13, <2>1, <2>2, Zenon
<1>15. h \in Seq(Byte) /\ Len(h) = Len(a) + Len(l) BY <1>11, <1>12, Joined
<1>16. Len(a) = 2 BY <1>10
<1>17. Len(l) = w.ext
  <2>1. CASE w.ext = 0 BY <1>10, <2>1 DEF LengthBytes
  <2>2. CASE w.ext = 2
    <3>1. l = BigEndian2(n) BY <1>9, <1>10, <2>2 DEF LengthBytes
    <3> QED BY <2>2, <3>1 DEF BigEndian2
  <2>3. CASE w.ext = 8
    <3>1. l = BigEndian8(n) BY <1>9, <1>10, <2>3 DEF LengthBytes
    <3> QED BY <2>3, <3>1, SMT DEF BigEndian8
  <2> QED BY <1>4, <1>6, <2>1, <2>2, <2>3
<1>18. \A i \in 1 .. Len(h) : Encode(w)[i] = h[i]
  <2>1. PICK k : k = IF w.mask THEN w.masking_key ELSE << >> OBVIOUS
  <2>2. k \in Seq(Byte) BY <1>11, <2>1
  <2>3. Encode(w) = (h \o k) \o s BY <1>4, <1>10, <1>12, <2>1 DEF Encode
  <2>4. PICK c : c = h \o k OBVIOUS
  <2>5. /\ c \in Seq(Byte) /\ Len(c) = Len(h) + Len(k)
        /\ \A i \in 1 .. Len(h) : c[i] = h[i]
    BY <1>15, <2>2, <2>4, Joined
  <2>6. \A i \in 1 .. Len(c) : (c \o s)[i] = c[i] BY <1>2, <2>5, Joined
  <2>7. \A i \in 1 .. Len(h) : i \in 1 .. Len(c)
    <3>1. Len(h) \in Nat /\ Len(k) \in Nat BY <1>15, <2>2
    <3> QED BY <2>5, <3>1
  <2> QED BY <2>3, <2>4, <2>5, <2>6, <2>7
<1> QED BY <1>3, <1>4, <1>9, <1>14, <1>15, <1>16, <1>17, <1>18

\* construct announces every length in the shortest form that holds it.
LEMMA LengthAnnounced ==
  ASSUME NEW mask \in BOOLEAN, NEW n \in Nat, n <= MaxLen
  PROVE  Announces(<<129>> \o construct_length(Bit(mask), n), mask, n)
<1>1. PICK h : h = <<129>> \o construct_length(Bit(mask), n) OBVIOUS
<1>2. PICK w : w = Blank(mask, n) OBVIOUS
<1>3. /\ w \in Sendable /\ Len(w.payload) = n /\ w.mask = mask
      /\ h \in Seq(Byte) /\ Len(h) = 2 + w.ext
      /\ \A i \in 1 .. Len(h) : Encode(w)[i] = h[i]
  BY <1>1, <1>2, BlankHeader
<1>4. w.ext = ExtOf(n) BY <1>2 DEF Blank
<1>5. PICK b \in Nat : b = Bit(mask) BY DEF Bit
<1>6. PICK e \in Nat : e = w.ext /\ Len(h) = 2 + e BY <1>3, HeaderLenType
<1>7. h[2] = b + LengthCode(w)
  <2>1. Encode(w)[2] = Bit(w.mask) + LengthCode(w) BY <1>3, EncodeBytes
  <2>2. 2 \in 1 .. Len(h) BY <1>6
  <2> QED BY <1>3, <1>5, <2>1, <2>2
<1>8. \A i \in 1 .. e : h[2 + i] = LengthBytes(w)[i]
  <2> SUFFICES ASSUME NEW i \in 1 .. e PROVE h[2 + i] = LengthBytes(w)[i]
    OBVIOUS
  <2>1. Encode(w)[2 + i] = LengthBytes(w)[i] BY <1>3, <1>6, EncodeBytes
  <2>2. 2 + i \in 1 .. Len(h) BY <1>6
  <2> QED BY <1>3, <2>1, <2>2
<1>9. CASE n < 126
  <2>1. e = 0 BY <1>4, <1>6, <1>9 DEF ExtOf
  <2>2. LengthCode(w) = n BY <1>3, <1>6, <2>1 DEF LengthCode
  <2> QED BY <1>1, <1>5, <1>6, <1>7, <1>9, <2>1, <2>2 DEF Announces
<1>10. CASE ~(n < 126) /\ n <= 65535
  <2>1. e = 2 BY <1>4, <1>6, <1>10 DEF ExtOf
  <2>2. LengthCode(w) = 126 /\ LengthBytes(w) = BigEndian2(n)
    BY <1>3, <1>6, <2>1 DEF LengthCode, LengthBytes
  <2>3. h[3] = n \div 256 /\ h[4] = n % 256
    <3>1. h[2 + 1] = BigEndian2(n)[1] /\ h[2 + 2] = BigEndian2(n)[2] BY <1>8, <2>1, <2>2
    <3> QED BY <3>1 DEF BigEndian2
  <2>4. n = 256 * h[3] + h[4] BY <2>3, TwoBytesDecode
  <2>5. h[2] - Bit(mask) = 126 /\ Len(h) = 4 BY <1>5, <1>6, <1>7, <2>1, <2>2
  <2>6. n > 125 /\ n <= MaxLen16 BY <1>10, SMT DEF MaxLen16
  <2>7. Announces(h, mask, n) BY <2>4, <2>5, <2>6, SMT DEF Announces
  <2> QED BY <1>1, <2>7
<1>11. CASE ~(n <= 65535)
  <2>1. e = 8 BY <1>4, <1>6, <1>11 DEF ExtOf
  <2>2. LengthCode(w) = 127 /\ LengthBytes(w) = BigEndian8(n)
    BY <1>3, <1>6, <2>1 DEF LengthCode, LengthBytes
  <2>3. \A i \in 1 .. 8 : h[2 + i] = BigEndian8(n)[i] BY <1>8, <2>1, <2>2
  <2>4. /\ h[2 + 1] = 0 /\ h[2 + 2] = 0 /\ h[2 + 3] = 0 /\ h[2 + 4] = 0
        /\ h[2 + 5] = n \div 16777216 /\ h[2 + 6] = (n \div 65536) % 256
        /\ h[2 + 7] = (n \div 256) % 256 /\ h[2 + 8] = n % 256
    BY <2>3, SMT DEF BigEndian8
  <2>5. \A i \in 3 .. 6 : h[i] = 0 BY <2>4, SMT
  <2>6. /\ h[7] = n \div 16777216 /\ h[8] = (n \div 65536) % 256
        /\ h[9] = (n \div 256) % 256 /\ h[10] = n % 256
    BY <2>4, SMT
  <2>7. n = 16777216 * (n \div 16777216) + 65536 * ((n \div 65536) % 256)
              + 256 * ((n \div 256) % 256) + (n % 256)
    BY EightBytesDecode, SMT DEF MaxLen
  <2>8. n = 16777216 * h[7] + 65536 * h[8] + 256 * h[9] + h[10] BY <2>6, <2>7, SMT
  <2>9. h[2] - Bit(mask) = 127 /\ Len(h) = 10 BY <1>5, <1>6, <1>7, <2>1, <2>2, SMT
  <2>10. n > MaxLen16 BY <1>11, SMT DEF MaxLen16
  <2>11. Announces(h, mask, n) BY <2>5, <2>8, <2>9, <2>10, SMT DEF Announces
  <2> QED BY <1>1, <2>11
<1> QED BY <1>9, <1>10, <1>11

\* Every length is written in the form of RFC 6455, and comes back from the two forms
\* whose decoding is defined: the parser waits behind the header for exactly what is
\* missing.
THEOREM FactoryLengthsDecode == Spec => []LengthsDecode
<1>0. ASSUME NEW n \in Lengths PROVE n \in Nat /\ n <= MaxLen
  <2>1. Lengths \subseteq 0 .. MaxLen BY FactoryAssumption
  <2>2. MaxLen \in Nat BY SMT DEF MaxLen
  <2> QED BY <2>1, <2>2
<1>1. ASSUME TypeOK, NEW n \in Lengths, NEW mask \in BOOLEAN, n <= MaxLen16
      PROVE  LET h == <<129>> \o construct_length(Bit(mask), n)
                 q == parse(Fresh(h \o SubSeq(out.buf, Len(h) + 1, Len(out.buf)), Len(h)), 0)
             IN  q.len = n /\ remaining(q) = 0 /\ q.stage = AfterHeader(mask, n)
  <2>1. n \in Nat /\ n <= MaxLen BY <1>0
  <2>2. PICK h : h = <<129>> \o construct_length(Bit(mask), n) OBVIOUS
  <2>3. PICK w : w = Blank(mask, n) OBVIOUS
  <2>4. /\ w \in Sendable /\ Len(w.payload) = n /\ w.mask = mask
        /\ h \in Seq(Byte) /\ Len(h) = 2 + w.ext
        /\ \A i \in 1 .. Len(h) : Encode(w)[i] = h[i]
    BY <2>1, <2>2, <2>3, BlankHeader
  <2>5. PICK rest : rest = SubSeq(out.buf, Len(h) + 1, Len(out.buf)) OBVIOUS
  <2>6. rest \in Seq(Byte)
    <3>1. PICK o \in Seq(Byte) : o = out.buf BY <1>1 DEF TypeOK
    <3>2. Len(h) + 1 \in Int /\ Len(o) \in Int /\ Len(h) \in Nat BY <2>4
    <3>3. \A i \in Len(h) + 1 .. Len(o) : o[i] \in Byte
      <4>1. \A i \in Len(h) + 1 .. Len(o) : i \in 1 .. Len(o) BY <3>2
      <4> QED BY <4>1, ElementOf
    <3> QED BY <2>5, <3>1, <3>2, <3>3, SubSeqProperties
  <2>7. PICK b : b = h \o rest OBVIOUS
  <2>8. /\ b \in Seq(Byte) /\ Len(b) = Len(h) + Len(rest)
        /\ \A i \in 1 .. Len(h) : b[i] = h[i]
    BY <2>4, <2>6, <2>7, Joined
  <2>9. PICK m \in Nat : m = Len(h) BY <2>4
  <2>10. m <= Len(b)
    <3>1. Len(rest) \in Nat BY <2>6
    <3> QED BY <2>8, <2>9, <3>1
  <2>11. PICK q : q = Fresh(b, m) OBVIOUS
  <2>12. Sound(q) /\ Prefix(q, w) /\ Decoding(q, w) /\ q.stage = "FIN_BIT" /\ q.size = m
    BY <2>4, <2>8, <2>9, <2>10, <2>11, FreshDecoding
  <2>13. PICK r : r = parse(q, 0) OBVIOUS
  <2>14. Keeps(q, r) /\ Decoding(r, w) /\ (done(r) \/ q.size < WireLen(w))
    <3>1. w.ext = ExtOf(n) BY <2>3 DEF Blank
    <3>2. ExtOf(n) # 8 BY <1>1, <2>1, SMT DEF ExtOf, MaxLen16
    <3>3. Undecoded(q, w) BY <3>1, <3>2 DEF Undecoded
    <3> QED BY <2>4, <2>12, <2>13, <3>3, ParseKeeps, ParseDecodes
  <2>15. PICK e \in Nat : e = w.ext BY <2>4, HeaderLenType
  <2>16. r.stage \in {"MASKING_KEY", "PAYLOAD_DATA", "DONE"}
    <3>1. q.size >= 2 + w.ext BY <2>4, <2>9, <2>12, <2>15
    <3> QED BY <2>4, <2>12, <2>13, <3>1, HeaderParsed
  <2>17. r.len = n BY <2>4, <2>14, <2>16 DEF Decoding
  <2>18. r.size = m /\ m = 2 + e /\ r.ptr \in Nat /\ r.ptr <= m
    BY <2>4, <2>9, <2>12, <2>14, <2>15, SoundFields DEF Keeps
  <2>19. /\ mask => HeaderLen(w) = 6 + e
         /\ ~mask => HeaderLen(w) = 2 + e
         /\ WireLen(w) = HeaderLen(w) + n
    BY <2>4, <2>15, HeaderLenType
  <2>20. CASE mask
    <3>1. r.stage # "PAYLOAD_DATA"
      <4>1. r.stage = "PAYLOAD_DATA" => r.ptr = HeaderLen(w) BY <2>14 DEF Decoding
      <4> QED BY <2>18, <2>19, <2>20, <4>1
    <3>2. r.stage # "DONE"
      <4>1. r.stage = "DONE" => r.ptr = WireLen(w) BY <2>14 DEF Decoding
      <4> QED BY <2>1, <2>18, <2>19, <2>20, <4>1, SMT
    <3>3. r.stage = "MASKING_KEY" BY <2>16, <3>1, <3>2
    <3>4. r.ptr = 2 + e BY <2>14, <2>15, <3>3 DEF Decoding
    <3>5. remaining(r) = 0 BY <2>18, <3>4 DEF remaining
    <3>6. AfterHeader(mask, n) = "MASKING_KEY" BY <2>20 DEF AfterHeader
    <3> QED BY <2>2, <2>5, <2>7, <2>9, <2>11, <2>13, <2>17, <3>3, <3>5, <3>6
  <2>21. CASE ~mask
    <3>1. r.stage # "MASKING_KEY" BY <2>4, <2>14, <2>21 DEF Decoding
    <3>2. CASE n = 0
      <4>1. WireLen(w) = m BY <2>18, <2>19, <2>21, <3>2
      <4>2. r.stage = "DONE" BY <2>12, <2>14, <2>18, <4>1 DEF done
      <4>3. r.ptr = m BY <2>14, <4>1, <4>2 DEF Decoding
      <4>4. remaining(r) = 0 BY <2>18, <4>3 DEF remaining
      <4>5. AfterHeader(mask, n) = "DONE" BY <2>21, <3>2 DEF AfterHeader
      <4> QED BY <2>2, <2>5, <2>7, <2>9, <2>11, <2>13, <2>17, <4>2, <4>4, <4>5
    <3>3. CASE n # 0
      <4>1. r.stage # "DONE"
        <5>1. r.stage = "DONE" => r.ptr = WireLen(w) BY <2>14 DEF Decoding
        <5> QED BY <2>1, <2>18, <2>19, <2>21, <3>3, <5>1, SMT
      <4>2. r.stage = "PAYLOAD_DATA" BY <2>16, <3>1, <4>1
      <4>3. r.ptr = 2 + e BY <2>14, <2>19, <2>21, <4>2 DEF Decoding
      <4>4. remaining(r) = 0 BY <2>18, <4>3 DEF remaining
      <4>5. AfterHeader(mask, n) = "PAYLOAD_DATA" BY <2>21, <3>3 DEF AfterHeader
      <4> QED BY <2>2, <2>5, <2>7, <2>9, <2>11, <2>13, <2>17, <4>2, <4>4, <4>5
    <3> QED BY <3>2, <3>3
  <2> QED BY <2>20, <2>21
<1>2. ASSUME NEW n \in Lengths, NEW mask \in BOOLEAN
      PROVE  Announces(<<129>> \o construct_length(Bit(mask), n), mask, n)
  BY <1>0, LengthAnnounced
<1>3. ASSUME Inv PROVE LengthsDecode
  <2> SUFFICES ASSUME NEW n \in Lengths, NEW mask \in BOOLEAN
               PROVE  LET h == <<129>> \o construct_length(Bit(mask), n)
                          q == parse(Fresh(h \o SubSeq(out.buf, Len(h) + 1, Len(out.buf)),
                                           Len(h)), 0)
                      IN /\ Announces(h, mask, n)
                         /\ n <= MaxLen16 => /\ q.len = n /\ remaining(q) = 0
                                             /\ q.stage = AfterHeader(mask, n)
    BY Zenon DEF LengthsDecode
  <2> DEFINE h == <<129>> \o construct_length(Bit(mask), n)
             q == parse(Fresh(h \o SubSeq(out.buf, Len(h) + 1, Len(out.buf)), Len(h)), 0)
  <2>1. TypeOK BY <1>3 DEF Inv
  <2>2. Announces(h, mask, n) BY <1>2
  <2>3. ASSUME n <= MaxLen16 PROVE q.len = n /\ remaining(q) = 0 /\ q.stage = AfterHeader(mask, n)
    BY <1>1, <2>1, <2>3
  <2> HIDE DEF h, q
  <2>4. /\ Announces(h, mask, n)
        /\ n <= MaxLen16 => q.len = n /\ remaining(q) = 0 /\ q.stage = AfterHeader(mask, n)
    BY <2>2, <2>3
  <2> QED BY <2>4 DEF h, q
<1> QED BY InvInit, InvStep, <1>3, PTL DEF Spec
----------------------------------------------------------------------------
\* The generator of the masking keys never gets to two zero words: not by the seeds,
\* whatever device_random gives, and not by any number of fills of any size.
THEOREM FactoryGeneratorAlive == Spec => []GeneratorAlive
<1>1. 4 * Entries \in Nat BY FactoryAssumption
<1>2. \A g \in Alive : Fill(g).state \in Alive BY <1>1, FillAlive DEF Fill
<1>3. Init => GeneratorAlive
  <2> SUFFICES ASSUME Init PROVE m_random \in Alive BY DEF GeneratorAlive
  <2>1. PICK seed \in Seeds : m_random = Fill(seeded(seed[1], seed[2])).state BY DEF Init
  <2>2. seed[1] \in Word /\ seed[2] \in Word BY FactoryAssumption
  <2> QED BY <1>2, <2>1, <2>2, SeededAlive
<1>4. GeneratorAlive /\ [Next]_vars => GeneratorAlive'
  <2> SUFFICES ASSUME m_random \in Alive, [Next]_vars PROVE m_random' \in Alive
    BY DEF GeneratorAlive
  <2>1. fill_cache => m_random' \in Alive BY <1>2 DEF fill_cache
  <2>2. ASSUME NEW fin, NEW opcode, NEW mask, NEW payload,
               Construct(fin, opcode, mask, payload)
        PROVE  m_random' \in Alive
    BY <2>1, <2>2 DEF Construct, Filled
  <2>3. CASE fill_random_cache BY <2>1, <2>3 DEF fill_random_cache
  <2>4. CASE UNCHANGED vars BY <2>4 DEF vars
  <2> QED BY <2>2, <2>3, <2>4 DEF Next, text, binary, ping, pong, close
<1> QED BY <1>3, <1>4, PTL DEF Spec
=============================================================================
