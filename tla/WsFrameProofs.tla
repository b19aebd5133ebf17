---------------------------- MODULE WsFrameProofs ----------------------------
(***************************************************************************)
(* Lemmas about the operators of WsFrame, for every parser state and every *)
(* frame: parse() keeps the buffer and stays inside it, and decodes what   *)
(* Encode writes.                                                          *)
(***************************************************************************)
EXTENDS WsFrame, SequenceTheorems, TLAPS

\* A parser state that has its type and stays inside its buffer.
Sound(q) == q \in ParserType /\ q.ptr <= q.size /\ q.size <= Len(q.buf)

\* r is sound and holds the same bytes as q.
Keeps(q, r) == Sound(r) /\ r.buf = q.buf /\ r.size = q.size

\* A function on an initial segment of the positive integers is a sequence.
LEMMA SeqOfFunction ==
  ASSUME NEW S, NEW n \in Nat, NEW f \in [1 .. n -> S]
  PROVE  f \in Seq(S) /\ Len(f) = n
OBVIOUS

\* Every claimed byte behind m_ptr is a byte of the buffer.
LEMMA ByteRead ==
  ASSUME NEW q, Sound(q), NEW i \in Nat \ {0}, i <= remaining(q)
  PROVE  q.buf[q.ptr + i] \in Byte
BY DEF Sound, ParserType, remaining

\* What a check function may store without leaving the sound states.
LEMMA FinStored ==
  ASSUME NEW q, Sound(q), NEW b \in BOOLEAN, NEW s \in Stage
  PROVE  Keeps(q, [q EXCEPT !.frame.fin = b, !.stage = s])
BY DEF Keeps, Sound, ParserType, FrameType

\* Storing the mask bit keeps the type of the parser.
LEMMA MaskStored ==
  ASSUME NEW q, Sound(q), NEW b \in BOOLEAN, NEW s \in Stage
  PROVE  Keeps(q, [q EXCEPT !.frame.mask = b, !.stage = s])
BY DEF Keeps, Sound, ParserType, FrameType

\* Storing the opcode keeps it.
LEMMA OpcodeStored ==
  ASSUME NEW q, Sound(q), NEW o \in 0 .. 15, NEW k \in 0 .. q.size, NEW s \in Stage
  PROVE  Keeps(q, [q EXCEPT !.frame.opcode = o, !.ptr = k, !.stage = s])
<1> DEFINE r == [q EXCEPT !.frame.opcode = o, !.ptr = k, !.stage = s]
<1>1. q.size \in Nat /\ k \in Nat /\ k <= q.size BY DEF Sound, ParserType
<1>2. r \in ParserType BY <1>1 DEF Sound, ParserType, FrameType
<1>3. r.ptr = k /\ r.size = q.size /\ r.buf = q.buf BY DEF Sound, ParserType
<1> QED BY <1>1, <1>2, <1>3 DEF Keeps, Sound

\* Storing a length keeps it.
LEMMA LengthStored ==
  ASSUME NEW q, Sound(q), NEW k \in 0 .. q.size, NEW l \in Nat, NEW s \in Stage
  PROVE  Keeps(q, [q EXCEPT !.ptr = k, !.len = l, !.stage = s])
<1> DEFINE r == [q EXCEPT !.ptr = k, !.len = l, !.stage = s]
<1>1. q.size \in Nat /\ k \in Nat /\ k <= q.size BY DEF Sound, ParserType
<1>2. r \in ParserType BY <1>1 DEF Sound, ParserType
<1>3. r.ptr = k /\ r.size = q.size /\ r.buf = q.buf BY DEF Sound, ParserType
<1> QED BY <1>1, <1>2, <1>3 DEF Keeps, Sound

\* Going to another stage keeps it.
LEMMA StageStored ==
  ASSUME NEW q, Sound(q), NEW k \in 0 .. q.size, NEW s \in Stage
  PROVE  Keeps(q, [q EXCEPT !.ptr = k, !.stage = s])
<1> DEFINE r == [q EXCEPT !.ptr = k, !.stage = s]
<1>1. q.size \in Nat /\ k \in Nat /\ k <= q.size BY DEF Sound, ParserType
<1>2. r \in ParserType BY <1>1 DEF Sound, ParserType
<1>3. r.ptr = k /\ r.size = q.size /\ r.buf = q.buf BY DEF Sound, ParserType
<1> QED BY <1>1, <1>2, <1>3 DEF Keeps, Sound

\* Finishing a frame keeps it.
LEMMA DoneStored ==
  ASSUME NEW q, Sound(q), NEW s \in Stage PROVE Keeps(q, [q EXCEPT !.stage = s])
BY DEF Keeps, Sound, ParserType

\* Storing the masking key keeps it.
LEMMA KeyStored ==
  ASSUME NEW q, Sound(q), NEW m \in [1 .. 4 -> Byte], NEW k \in 0 .. q.size,
         NEW s \in Stage
  PROVE  Keeps(q, [q EXCEPT !.frame.masking_key = m, !.ptr = k, !.stage = s])
<1> DEFINE r == [q EXCEPT !.frame.masking_key = m, !.ptr = k, !.stage = s]
<1>1. q.size \in Nat /\ k \in Nat /\ k <= q.size BY DEF Sound, ParserType
<1>2. r \in ParserType BY <1>1 DEF Sound, ParserType, FrameType
<1>3. r.ptr = k /\ r.size = q.size /\ r.buf = q.buf BY DEF Sound, ParserType
<1> QED BY <1>1, <1>2, <1>3 DEF Keeps, Sound

\* Storing the view of the payload keeps it.
LEMMA PayloadStored ==
  ASSUME NEW q, Sound(q), NEW v \in ViewType, NEW k \in 0 .. q.size, NEW s \in Stage
  PROVE  Keeps(q, [q EXCEPT !.frame.payload = v, !.ptr = k, !.stage = s])
<1> DEFINE r == [q EXCEPT !.frame.payload = v, !.ptr = k, !.stage = s]
<1>1. q.size \in Nat /\ k \in Nat /\ k <= q.size BY DEF Sound, ParserType
<1>2. r \in ParserType BY <1>1 DEF Sound, ParserType, FrameType
<1>3. r.ptr = k /\ r.size = q.size /\ r.buf = q.buf BY DEF Sound, ParserType
<1> QED BY <1>1, <1>2, <1>3 DEF Keeps, Sound

\* The guard of every check function: k more bytes are claimed.
LEMMA EnoughRoom ==
  ASSUME NEW q, Sound(q), NEW s, NEW k \in Nat, AtStage(q, s, k)
  PROVE  q.ptr + k \in 0 .. q.size /\ k <= remaining(q)
BY DEF AtStage, remaining, Sound, ParserType

\* The stage behind the length is a stage.
LEMMA StageAfterLength == ASSUME NEW q PROVE AfterLength(q) \in Stage
BY DEF AfterLength, Stage

\* The names the check functions assign are stages.
LEMMA StageNames ==
  /\ "OPCODE" \in Stage /\ "MASK_BIT" \in Stage /\ "PAYLOAD_LEN" \in Stage
  /\ "EXTENDED_PAYLOAD_LEN_16" \in Stage /\ "EXTENDED_PAYLOAD_LEN_64" \in Stage
  /\ "PAYLOAD_DATA" \in Stage /\ "DONE" \in Stage /\ "FIN_BIT" \in Stage
BY DEF Stage

\* check_fin_bit keeps bytes and bounds.
LEMMA CheckFin == ASSUME NEW q, Sound(q) PROVE Keeps(q, check_fin_bit(q))
<1>1. CASE ~AtStage(q, "FIN_BIT", 1)
  BY <1>1 DEF check_fin_bit, Keeps
<1>2. CASE AtStage(q, "FIN_BIT", 1)
  <2>1. (q.buf[q.ptr + 1] >= 128) \in BOOLEAN OBVIOUS
  <2>2. Keeps(q, [q EXCEPT !.frame.fin = q.buf[q.ptr + 1] >= 128, !.stage = "OPCODE"])
    BY <2>1, StageNames, FinStored
  <2> QED BY <1>2, <2>2 DEF check_fin_bit
<1> QED BY <1>1, <1>2

\* check_opcode consumes one byte that is there.
LEMMA CheckOpcode == ASSUME NEW q, Sound(q) PROVE Keeps(q, check_opcode(q))
<1>1. CASE ~AtStage(q, "OPCODE", 1)
  BY <1>1 DEF check_opcode, Keeps
<1>2. CASE AtStage(q, "OPCODE", 1)
  <2>1. q.ptr + 1 \in 0 .. q.size /\ 1 <= remaining(q) BY <1>2, EnoughRoom
  <2>2. q.buf[q.ptr + 1] \in Byte BY <2>1, ByteRead
  <2>3. q.buf[q.ptr + 1] % 16 \in 0 .. 15 BY <2>2 DEF Byte
  <2>4. Keeps(q, [q EXCEPT !.frame.opcode = q.buf[q.ptr + 1] % 16,
                           !.ptr = q.ptr + 1, !.stage = "MASK_BIT"])
    BY <2>1, <2>3, StageNames, OpcodeStored
  <2> QED BY <1>2, <2>4 DEF check_opcode
<1> QED BY <1>1, <1>2

\* check_mask_bit keeps bytes and bounds.
LEMMA CheckMask == ASSUME NEW q, Sound(q) PROVE Keeps(q, check_mask_bit(q))
<1>1. CASE ~AtStage(q, "MASK_BIT", 1)
  BY <1>1 DEF check_mask_bit, Keeps
<1>2. CASE AtStage(q, "MASK_BIT", 1)
  <2>1. (q.buf[q.ptr + 1] >= 128) \in BOOLEAN OBVIOUS
  <2>2. Keeps(q, [q EXCEPT !.frame.mask = q.buf[q.ptr + 1] >= 128,
                           !.stage = "PAYLOAD_LEN"])
    BY <2>1, StageNames, MaskStored
  <2> QED BY <1>2, <2>2 DEF check_mask_bit
<1> QED BY <1>1, <1>2

\* check_payload_len consumes one byte that is there.
LEMMA CheckLen == ASSUME NEW q, Sound(q) PROVE Keeps(q, check_payload_len(q))
<1> DEFINE len == q.buf[q.ptr + 1] % 128
<1>1. CASE ~AtStage(q, "PAYLOAD_LEN", 1)
  BY <1>1 DEF check_payload_len, Keeps
<1>2. CASE AtStage(q, "PAYLOAD_LEN", 1)
  <2>1. q.ptr + 1 \in 0 .. q.size /\ 1 <= remaining(q) BY <1>2, EnoughRoom
  <2>2. q.buf[q.ptr + 1] \in Byte BY <2>1, ByteRead
  <2>3. len \in Nat BY <2>2 DEF Byte
  <2>4. Keeps(q, [q EXCEPT !.ptr = q.ptr + 1, !.stage = "EXTENDED_PAYLOAD_LEN_16"])
    BY <2>1, StageNames, StageStored
  <2>5. Keeps(q, [q EXCEPT !.ptr = q.ptr + 1, !.stage = "EXTENDED_PAYLOAD_LEN_64"])
    BY <2>1, StageNames, StageStored
  <2>6. Keeps(q, [q EXCEPT !.ptr = q.ptr + 1, !.len = len, !.stage = AfterLength(q)])
    BY <2>1, <2>3, StageAfterLength, LengthStored
  <2> QED BY <1>2, <2>4, <2>5, <2>6 DEF check_payload_len
<1> QED BY <1>1, <1>2

\* Lengths put together from bytes are natural numbers.
LEMMA TwoBytes == ASSUME NEW a \in Byte, NEW b \in Byte PROVE 256 * a + b \in Nat
BY SMT DEF Byte

\* check_extended_payload_len_16 consumes two bytes that are there.
LEMMA CheckExt16 ==
  ASSUME NEW q, Sound(q) PROVE Keeps(q, check_extended_payload_len_16(q))
<1> DEFINE len == 256 * q.buf[q.ptr + 1] + q.buf[q.ptr + 2]
<1>1. CASE ~AtStage(q, "EXTENDED_PAYLOAD_LEN_16", 2)
  BY <1>1 DEF check_extended_payload_len_16, Keeps
<1>2. CASE AtStage(q, "EXTENDED_PAYLOAD_LEN_16", 2)
  <2>1. q.ptr + 2 \in 0 .. q.size /\ 2 <= remaining(q) BY <1>2, EnoughRoom
  <2>2. q.buf[q.ptr + 1] \in Byte /\ q.buf[q.ptr + 2] \in Byte
    BY <2>1, ByteRead DEF remaining, Sound, ParserType
  <2>3. len \in Nat BY <2>2, TwoBytes
  <2>4. Keeps(q, [q EXCEPT !.ptr = q.ptr + 2, !.len = len, !.stage = AfterLength(q)])
    BY <2>1, <2>3, StageAfterLength, LengthStored
  <2>5. [q EXCEPT !.ptr = q.ptr + 2, !.len = len, !.stage = AfterLength(q)]
          = [q EXCEPT !.len = len, !.ptr = q.ptr + 2, !.stage = AfterLength(q)]
    BY DEF Sound, ParserType
  <2> QED BY <1>2, <2>4, <2>5 DEF check_extended_payload_len_16
<1> QED BY <1>1, <1>2

\* check_extended_payload_len_64 consumes eight, whatever the shifts leave.
LEMMA CheckExt64 ==
  ASSUME NEW q, Sound(q), NEW u \in Nat
  PROVE  Keeps(q, check_extended_payload_len_64(q, u))
<1>1. CASE ~AtStage(q, "EXTENDED_PAYLOAD_LEN_64", 8)
  BY <1>1 DEF check_extended_payload_len_64, Keeps
<1>2. CASE AtStage(q, "EXTENDED_PAYLOAD_LEN_64", 8)
  <2>1. q.ptr + 8 \in 0 .. q.size /\ 8 <= remaining(q) BY <1>2, EnoughRoom
  <2>2. Keeps(q, [q EXCEPT !.ptr = q.ptr + 8, !.len = u, !.stage = AfterLength(q)])
    BY <2>1, StageAfterLength, LengthStored
  <2>3. [q EXCEPT !.ptr = q.ptr + 8, !.len = u, !.stage = AfterLength(q)]
          = [q EXCEPT !.len = u, !.ptr = q.ptr + 8, !.stage = AfterLength(q)]
    BY DEF Sound, ParserType
  <2> QED BY <1>2, <2>2, <2>3 DEF check_extended_payload_len_64
<1> QED BY <1>1, <1>2

\* check_masking_key consumes four bytes that are there.
LEMMA CheckKey == ASSUME NEW q, Sound(q) PROVE Keeps(q, check_masking_key(q))
<1> DEFINE key == [i \in 1 .. 4 |-> q.buf[q.ptr + i]]
<1>1. CASE ~AtStage(q, "MASKING_KEY", 4)
  BY <1>1 DEF check_masking_key, Keeps
<1>2. CASE AtStage(q, "MASKING_KEY", 4)
  <2>1. q.ptr + 4 \in 0 .. q.size /\ 4 <= remaining(q) BY <1>2, EnoughRoom
  <2>2. \A i \in 1 .. 4 : q.buf[q.ptr + i] \in Byte
    BY <2>1, ByteRead DEF remaining, Sound, ParserType
  <2>3. key \in [1 .. 4 -> Byte] BY <2>2
  <2>4. Keeps(q, [q EXCEPT !.frame.masking_key = key, !.ptr = q.ptr + 4,
                           !.stage = "PAYLOAD_DATA"])
    BY <2>1, <2>3, StageNames, KeyStored
  <2> QED BY <1>2, <2>4 DEF check_masking_key
<1> QED BY <1>1, <1>2

\* check_payload_data consumes a payload only when all of it is there.
LEMMA CheckPayload == ASSUME NEW q, Sound(q) PROVE Keeps(q, check_payload_data(q))
<1> DEFINE v == [off |-> q.ptr, len |-> q.len]
<1>0. q.len \in Nat /\ q.ptr \in Nat BY DEF Sound, ParserType
<1>1. CASE ~AtStage(q, "PAYLOAD_DATA", q.len)
  BY <1>1 DEF check_payload_data, Keeps
<1>2. CASE AtStage(q, "PAYLOAD_DATA", q.len)
  <2>1. q.ptr + q.len \in 0 .. q.size BY <1>0, <1>2, EnoughRoom
  <2>2. v \in ViewType BY <1>0 DEF ViewType
  <2>3. Keeps(q, [q EXCEPT !.frame.payload = v, !.ptr = q.ptr + q.len, !.stage = "DONE"])
    BY <2>1, <2>2, StageNames, PayloadStored
  <2>4. Keeps(q, [q EXCEPT !.stage = "DONE"]) BY StageNames, DoneStored
  <2> QED BY <1>2, <2>3, <2>4 DEF check_payload_data
<1> QED BY <1>1, <1>2

\* parse() keeps the bytes and stays inside them, whatever it finds there.
LEMMA ParseKeeps ==
  ASSUME NEW q, Sound(q), NEW u \in Nat PROVE Keeps(q, parse(q, u))
<1> DEFINE q1 == check_fin_bit(q)
           q2 == check_opcode(q1)
           q3 == check_mask_bit(q2)
           q4 == check_payload_len(q3)
           q5 == check_extended_payload_len_16(q4)
           q6 == check_extended_payload_len_64(q5, u)
           q7 == check_masking_key(q6)
           q8 == check_payload_data(q7)
<1>0. parse(q, u) = q8 BY DEF parse
<1> HIDE DEF q1, q2, q3, q4, q5, q6, q7, q8
<1>1. Keeps(q, q1) BY CheckFin DEF q1
<1>2. Keeps(q, q2) BY <1>1, CheckOpcode DEF q2, Keeps
<1>3. Keeps(q, q3) BY <1>2, CheckMask DEF q3, Keeps
<1>4. Keeps(q, q4) BY <1>3, CheckLen DEF q4, Keeps
<1>5. Keeps(q, q5) BY <1>4, CheckExt16 DEF q5, Keeps
<1>6. Keeps(q, q6) BY <1>5, CheckExt64 DEF q6, Keeps
<1>7. Keeps(q, q7) BY <1>6, CheckKey DEF q7, Keeps
<1>8. Keeps(q, q8) BY <1>7, CheckPayload DEF q8, Keeps
<1> QED BY <1>0, <1>8
\* The empty frame is a frame.
LEMMA EmptyFrameType == EmptyFrame \in FrameType
<1>1. <<0, 0, 0, 0>> \in [1 .. 4 -> Byte] BY DEF Byte
<1>2. NoPayload \in ViewType BY DEF NoPayload, ViewType
<1> QED BY <1>1, <1>2 DEF EmptyFrame, FrameType

----------------------------------------------------------------------------
(* The frames of the encoder and what the parser makes of them.            *)

\* The frames whose length field holds their length.
Sendable == {f \in WireFrame : LengthFits(f)}

\* A frame on the wire is a sequence of bytes: its length fits its field.
LEMMA LengthBytesType ==
  ASSUME NEW n \in Nat
  PROVE  /\ n <= 65535 => BigEndian2(n) \in Seq(Byte) /\ Len(BigEndian2(n)) = 2
         /\ n <= 2147483647 => BigEndian8(n) \in Seq(Byte) /\ Len(BigEndian8(n)) = 8
<1>1. n % 256 \in Byte /\ (n \div 256) % 256 \in Byte /\ (n \div 65536) % 256 \in Byte
  BY SMT DEF Byte
<1>2. n <= 65535 => n \div 256 \in Byte BY SMT DEF Byte
<1>3. n <= 2147483647 => n \div 16777216 \in Byte BY SMT DEF Byte
<1>4. 0 \in Byte BY DEF Byte
<1> QED BY <1>1, <1>2, <1>3, <1>4 DEF BigEndian2, BigEndian8

\* A flag and seven bits make a byte.
LEMMA FlagAndBits == ASSUME NEW a \in {0, 128}, NEW o \in 0 .. 127 PROVE a + o \in Byte
BY DEF Byte

\* What is known about a frame on the wire.
LEMMA FrameFields ==
  ASSUME NEW f \in Sendable
  PROVE  /\ Len(f.payload) \in Nat /\ f.payload \in Seq(Byte) /\ f.ext \in {0, 2, 8}
         /\ f.opcode \in 0 .. 15 /\ f.fin \in BOOLEAN /\ f.mask \in BOOLEAN
         /\ f.masking_key \in [1 .. 4 -> Byte]
         /\ f.ext = 0 => Len(f.payload) <= 125
         /\ f.ext = 2 => Len(f.payload) <= 65535
         /\ f.ext = 8 => Len(f.payload) <= 2147483647
<1>1. f \in WireFrame /\ LengthFits(f) BY DEF Sendable
<1>2. /\ Len(f.payload) \in Nat /\ f.payload \in Seq(Byte) /\ f.ext \in {0, 2, 8}
      /\ f.opcode \in 0 .. 15 /\ f.fin \in BOOLEAN /\ f.mask \in BOOLEAN
      /\ f.masking_key \in [1 .. 4 -> Byte]
  BY <1>1 DEF WireFrame
<1>3. /\ f.ext = 0 => Len(f.payload) <= 125
      /\ f.ext = 2 => Len(f.payload) <= 65535
      /\ f.ext = 8 => Len(f.payload) <= 2147483647
  BY <1>1, <1>2 DEF LengthFits
<1> QED BY <1>2, <1>3

\* The parts of a frame on the wire are bytes.
LEMMA PartsType ==
  ASSUME NEW f \in Sendable
  PROVE  /\ <<Bit(f.fin) + f.opcode, Bit(f.mask) + LengthCode(f)>> \in Seq(Byte)
         /\ LengthBytes(f) \in Seq(Byte)
         /\ (IF f.mask THEN f.masking_key ELSE << >>) \in Seq(Byte)
<1>0. PICK n : n = Len(f.payload) OBVIOUS
<1>2. /\ n \in Nat /\ f.payload \in Seq(Byte) /\ f.ext \in {0, 2, 8}
      /\ f.opcode \in 0 .. 15 /\ f.fin \in BOOLEAN /\ f.mask \in BOOLEAN
      /\ f.masking_key \in [1 .. 4 -> Byte]
  BY <1>0, FrameFields
<1>3. /\ f.ext = 0 => n <= 125
      /\ f.ext = 2 => n <= 65535
      /\ f.ext = 8 => n <= 2147483647
  BY <1>0, FrameFields
<1>4. LengthCode(f) \in 0 .. 127
  <2>1. CASE f.ext = 0
    <3>1. LengthCode(f) = n BY <1>0, <2>1 DEF LengthCode
    <3> QED BY <1>2, <1>3, <2>1, <3>1
  <2>2. CASE f.ext = 2
    <3>1. LengthCode(f) = 126 BY <2>2 DEF LengthCode
    <3> QED BY <3>1
  <2>3. CASE f.ext = 8
    <3>1. LengthCode(f) = 127 BY <2>3 DEF LengthCode
    <3> QED BY <3>1
  <2> QED BY <1>2, <2>1, <2>2, <2>3
<1>5. Bit(f.fin) \in {0, 128} /\ Bit(f.mask) \in {0, 128} BY DEF Bit
<1>6. Bit(f.fin) + f.opcode \in Byte /\ Bit(f.mask) + LengthCode(f) \in Byte
  <2>1. f.opcode \in 0 .. 127 BY <1>2
  <2> QED BY <1>4, <1>5, <2>1, FlagAndBits
<1>7. LengthBytes(f) \in Seq(Byte)
  <2>1. CASE f.ext = 0 BY <2>1 DEF LengthBytes
  <2>2. CASE f.ext = 2
    <3>1. LengthBytes(f) = BigEndian2(n) BY <1>0, <2>2 DEF LengthBytes
    <3> QED BY <1>2, <1>3, <2>2, <3>1, LengthBytesType
  <2>3. CASE f.ext = 8
    <3>1. LengthBytes(f) = BigEndian8(n) BY <1>0, <2>3 DEF LengthBytes
    <3> QED BY <1>2, <1>3, <2>3, <3>1, LengthBytesType
  <2> QED BY <1>2, <2>1, <2>2, <2>3
<1>8. (IF f.mask THEN f.masking_key ELSE << >>) \in Seq(Byte)
  <2>1. f.masking_key \in Seq(Byte) BY <1>2, SeqOfFunction
  <2> QED BY <2>1
<1>9. <<Bit(f.fin) + f.opcode, Bit(f.mask) + LengthCode(f)>> \in Seq(Byte) BY <1>6
<1> QED BY <1>7, <1>8, <1>9

\* The server sends bytes.
LEMMA EncodeType == ASSUME NEW f \in Sendable PROVE Encode(f) \in Seq(Byte)
BY FrameFields, PartsType DEF Encode


\* Bytes of a frame in front of its payload.
HeaderLen(f) == 2 + f.ext + (IF f.mask THEN 4 ELSE 0)

WireLen(f) == HeaderLen(f) + Len(f.payload)

\* The claimed bytes start with those of f, as far as they reach.
Prefix(q, f) == \A i \in 1 .. q.size : i <= WireLen(f) => q.buf[i] = Encode(f)[i]

\* The parser is decoding f: what it has stored at its stage is what f says, and
\* m_ptr is the offset of the next field of f.
Decoding(q, f) ==
  /\ q.stage # "FIN_BIT" => q.frame.fin = f.fin
  /\ q.stage \notin {"FIN_BIT", "OPCODE"} => q.frame.opcode = f.opcode
  /\ q.stage \notin {"FIN_BIT", "OPCODE", "MASK_BIT"} => q.frame.mask = f.mask
  /\ q.stage \in {"MASKING_KEY", "PAYLOAD_DATA", "DONE"} => q.len = Len(f.payload)
  /\ q.stage \in {"PAYLOAD_DATA", "DONE"} /\ f.mask => q.frame.masking_key = f.masking_key
  /\ q.stage \in {"FIN_BIT", "OPCODE"} => q.ptr = 0
  /\ q.stage \in {"MASK_BIT", "PAYLOAD_LEN"} => q.ptr = 1
  /\ q.stage = "EXTENDED_PAYLOAD_LEN_16" => q.ptr = 2 /\ f.ext = 2
  /\ q.stage = "EXTENDED_PAYLOAD_LEN_64" => q.ptr = 2 /\ f.ext = 8
  /\ q.stage = "MASKING_KEY" => q.ptr = 2 + f.ext /\ f.mask
  /\ q.stage = "PAYLOAD_DATA" => q.ptr = HeaderLen(f)
  /\ q.stage = "DONE" => q.ptr = WireLen(f)
  /\ q.frame.payload = IF q.stage = "DONE" /\ Len(f.payload) > 0
                         THEN [off |-> HeaderLen(f), len |-> Len(f.payload)] ELSE NoPayload

\* The length of f has a form whose decoding is defined, or is not all there yet.
Undecoded(q, f) == f.ext = 8 => q.size < 10

\* Fewer bytes are there than f has, or the parser has come to one of the stages S.
Reached(q, f, S) == q.size < WireLen(f) \/ q.stage \in S

----------------------------------------------------------------------------
(* The bytes of a frame.                                                   *)

\* The bytes of two sequences one after the other.
LEMMA Joined ==
  ASSUME NEW S, NEW a \in Seq(S), NEW b \in Seq(S)
  PROVE  /\ a \o b \in Seq(S) /\ Len(a \o b) = Len(a) + Len(b)
         /\ \A i \in 1 .. Len(a) : (a \o b)[i] = a[i]
         /\ \A i \in 1 .. Len(b) : (a \o b)[Len(a) + i] = b[i]
OBVIOUS

\* The header has at least two bytes.
LEMMA HeaderLenType ==
  ASSUME NEW f \in Sendable
  PROVE  /\ HeaderLen(f) \in Nat /\ HeaderLen(f) >= 2 + f.ext /\ WireLen(f) \in Nat
         /\ WireLen(f) >= HeaderLen(f) /\ WireLen(f) >= 2 /\ f.ext \in Nat
         /\ f.mask => HeaderLen(f) = 6 + f.ext
         /\ ~f.mask => HeaderLen(f) = 2 + f.ext
         /\ WireLen(f) = HeaderLen(f) + Len(f.payload)
<1>1. f.ext \in {0, 2, 8} /\ Len(f.payload) \in Nat BY FrameFields
<1> HIDE DEF HeaderLen
<1>2. HeaderLen(f) = 2 + f.ext + (IF f.mask THEN 4 ELSE 0) BY DEF HeaderLen
<1>3. f.ext \in Nat BY <1>1
<1>4. WireLen(f) = HeaderLen(f) + Len(f.payload) BY DEF WireLen
<1>5. CASE f.mask
  <2>1. HeaderLen(f) = 2 + f.ext + 4 BY <1>2, <1>5
  <2>2. HeaderLen(f) = 6 + f.ext BY <1>3, <2>1
  <2>3. HeaderLen(f) \in Nat /\ HeaderLen(f) >= 2 + f.ext BY <1>3, <2>2
  <2> QED BY <1>1, <1>3, <1>4, <1>5, <2>2, <2>3
<1>6. CASE ~f.mask
  <2>1. HeaderLen(f) = 2 + f.ext + 0 BY <1>2, <1>6
  <2>2. HeaderLen(f) = 2 + f.ext BY <1>3, <2>1
  <2>3. HeaderLen(f) \in Nat /\ HeaderLen(f) >= 2 + f.ext BY <1>3, <2>2
  <2> QED BY <1>1, <1>3, <1>4, <1>6, <2>2, <2>3
<1> QED BY <1>5, <1>6

\* Where the fields of a frame are among its bytes.
LEMMA EncodeBytes ==
  ASSUME NEW f \in Sendable
  PROVE  /\ Encode(f) \in Seq(Byte) /\ Len(Encode(f)) = WireLen(f)
         /\ Encode(f)[1] = Bit(f.fin) + f.opcode
         /\ Encode(f)[2] = Bit(f.mask) + LengthCode(f)
         /\ \A i \in 1 .. f.ext : Encode(f)[2 + i] = LengthBytes(f)[i]
         /\ f.mask => \A i \in 1 .. 4 : Encode(f)[2 + f.ext + i] = f.masking_key[i]
         /\ \A i \in 1 .. Len(f.payload) : Encode(f)[HeaderLen(f) + i] = f.payload[i]
<1>1. /\ Len(f.payload) \in Nat /\ f.payload \in Seq(Byte) /\ f.ext \in {0, 2, 8}
      /\ f.masking_key \in [1 .. 4 -> Byte]
  BY FrameFields
<1> DEFINE a == <<Bit(f.fin) + f.opcode, Bit(f.mask) + LengthCode(f)>>
           l == LengthBytes(f)
           k == IF f.mask THEN f.masking_key ELSE << >>
           x == a \o l
           y == x \o k
<1>2. a \in Seq(Byte) /\ l \in Seq(Byte) /\ k \in Seq(Byte) BY PartsType
<1>3. Len(a) = 2 /\ a[1] = Bit(f.fin) + f.opcode /\ a[2] = Bit(f.mask) + LengthCode(f)
  OBVIOUS
<1>4. Len(l) = f.ext
  <2>1. CASE f.ext = 0 BY <2>1 DEF LengthBytes
  <2>2. CASE f.ext = 2 BY <2>2 DEF LengthBytes, BigEndian2
  <2>3. CASE f.ext = 8 BY <2>3 DEF LengthBytes, BigEndian8
  <2> QED BY <1>1, <2>1, <2>2, <2>3
<1>5. Len(k) = IF f.mask THEN 4 ELSE 0
  <2>1. Len(f.masking_key) = 4 BY <1>1, SeqOfFunction
  <2> QED BY <2>1
<1>6. f.mask => k = f.masking_key OBVIOUS
<1>7. Encode(f) = y \o f.payload BY DEF Encode
<1> HIDE DEF a, l, k
<1>8. /\ x \in Seq(Byte) /\ Len(x) = 2 + f.ext
      /\ \A i \in 1 .. 2 : x[i] = a[i]
      /\ \A i \in 1 .. f.ext : x[2 + i] = l[i]
  <2>1. /\ a \o l \in Seq(Byte) /\ Len(a \o l) = Len(a) + Len(l)
        /\ \A i \in 1 .. Len(a) : (a \o l)[i] = a[i]
        /\ \A i \in 1 .. Len(l) : (a \o l)[Len(a) + i] = l[i]
    BY <1>2, Joined
  <2> QED BY <1>3, <1>4, <2>1
<1> HIDE DEF x
<1>9. /\ y \in Seq(Byte) /\ Len(y) = Len(x) + Len(k)
      /\ \A i \in 1 .. Len(x) : y[i] = x[i]
      /\ \A i \in 1 .. Len(k) : y[Len(x) + i] = k[i]
  BY <1>2, <1>8, Joined
<1> HIDE DEF y
<1>10. Len(y) = HeaderLen(f) BY <1>5, <1>8, <1>9 DEF HeaderLen
<1>11. /\ Encode(f) \in Seq(Byte) /\ Len(Encode(f)) = Len(y) + Len(f.payload)
       /\ \A i \in 1 .. Len(y) : Encode(f)[i] = y[i]
       /\ \A i \in 1 .. Len(f.payload) : Encode(f)[Len(y) + i] = f.payload[i]
  <2>1. PICK z \in Seq(Byte) : z = f.payload BY <1>1
  <2>2. /\ y \o z \in Seq(Byte) /\ Len(y \o z) = Len(y) + Len(z)
        /\ \A i \in 1 .. Len(y) : (y \o z)[i] = y[i]
        /\ \A i \in 1 .. Len(z) : (y \o z)[Len(y) + i] = z[i]
    BY <1>9, Joined
  <2> QED BY <1>7, <2>1, <2>2
<1>12. HeaderLen(f) \in Nat /\ f.ext \in Nat /\ HeaderLen(f) >= 2 + f.ext BY HeaderLenType
<1>13. \A i \in 1 .. 2 + f.ext : Encode(f)[i] = x[i] BY <1>8, <1>9, <1>10, <1>11, <1>12
<1>14. Encode(f)[1] = a[1] /\ Encode(f)[2] = a[2] BY <1>8, <1>12, <1>13
<1>15. \A i \in 1 .. f.ext : Encode(f)[2 + i] = l[i] BY <1>8, <1>12, <1>13
<1>16. f.mask => \A i \in 1 .. 4 : Encode(f)[2 + f.ext + i] = f.masking_key[i]
  <2> SUFFICES ASSUME f.mask, NEW i \in 1 .. 4
               PROVE  Encode(f)[2 + f.ext + i] = f.masking_key[i]
    OBVIOUS
  <2>1. Len(k) = 4 /\ HeaderLen(f) = 6 + f.ext BY <1>5, HeaderLenType
  <2>2. 2 + f.ext + i \in 1 .. Len(y) BY <1>10, <1>12, <2>1
  <2>3. Encode(f)[2 + f.ext + i] = y[2 + f.ext + i] BY <1>11, <2>2
  <2>4. y[Len(x) + i] = k[i] BY <1>9, <2>1
  <2> QED BY <1>6, <1>8, <2>3, <2>4
<1> QED BY <1>3, <1>10, <1>11, <1>14, <1>15, <1>16 DEF WireLen, l

\* What the decoder makes of a flag and seven bits.
LEMMA FlagDecodes ==
  ASSUME NEW b \in BOOLEAN, NEW o \in 0 .. 127
  PROVE  /\ (Bit(b) + o >= 128) = b /\ (Bit(b) + o) % 128 = o
         /\ o < 16 => (Bit(b) + o) % 16 = o
<1>1. CASE b
  <2>1. Bit(b) = 128 BY <1>1 DEF Bit
  <2>2. /\ 128 + o >= 128 /\ (128 + o) % 128 = o
        /\ o < 16 => (128 + o) % 16 = o
    BY SMT
  <2>3. Bit(b) + o >= 128 BY <2>1, <2>2
  <2> QED BY <1>1, <2>1, <2>2, <2>3
<1>2. CASE ~b
  <2>1. Bit(b) = 0 BY <1>2 DEF Bit
  <2>2. /\ ~(0 + o >= 128) /\ (0 + o) % 128 = o
        /\ o < 16 => (0 + o) % 16 = o
    BY SMT
  <2>3. ~(Bit(b) + o >= 128) BY <2>1, <2>2
  <2> QED BY <1>2, <2>1, <2>2, <2>3
<1> QED BY <1>1, <1>2

\* The length put together from its two bytes.
LEMMA TwoBytesDecode ==
  ASSUME NEW n \in Nat PROVE 256 * (n \div 256) + (n % 256) = n
BY SMT

\* The length put together from its eight bytes, of which four are zero.
LEMMA EightBytesDecode ==
  ASSUME NEW n \in Nat, n <= 2147483647
  PROVE  /\ n \div 16777216 < 128
         /\ 16777216 * (n \div 16777216) + 65536 * ((n \div 65536) % 256)
              + 256 * ((n \div 256) % 256) + (n % 256) = n
BY SMT

\* The seven bits of the second byte, and what follows from them.
LEMMA LengthCodes ==
  ASSUME NEW f \in Sendable
  PROVE  /\ LengthCode(f) \in 0 .. 127
         /\ f.ext = 0 <=> LengthCode(f) \notin {126, 127}
         /\ f.ext = 2 <=> LengthCode(f) = 126
         /\ f.ext = 8 <=> LengthCode(f) = 127
         /\ f.ext = 0 => LengthCode(f) = Len(f.payload)
<1>0. /\ Len(f.payload) \in Nat /\ f.ext \in {0, 2, 8}
      /\ f.ext = 0 => Len(f.payload) <= 125
  BY FrameFields
<1>1. CASE f.ext = 0
  <2>1. LengthCode(f) = Len(f.payload) BY <1>1 DEF LengthCode
  <2>2. PICK n \in Nat : n = Len(f.payload) BY <1>0
  <2>3. LengthCode(f) \in 0 .. 125
    <3>1. n <= 125 BY <1>0, <1>1, <2>2, Zenon
    <3>2. n \in 0 .. 125 BY <3>1
    <3> QED BY <2>1, <2>2, <3>2, Zenon
  <2>4. /\ LengthCode(f) \in 0 .. 127 /\ LengthCode(f) # 126 /\ LengthCode(f) # 127
    BY <2>3
  <2> QED BY <1>1, <2>1, <2>4
<1>2. CASE f.ext = 2
  <2>1. LengthCode(f) = 126 BY <1>2 DEF LengthCode
  <2> QED BY <1>2, <2>1
<1>3. CASE f.ext = 8
  <2>1. LengthCode(f) = 127 BY <1>3 DEF LengthCode
  <2> QED BY <1>3, <2>1
<1> QED BY <1>0, <1>1, <1>2, <1>3
----------------------------------------------------------------------------
(* Every check function decodes its field of the frame.                    *)

\* The parts of a sound parser state.
LEMMA SoundFields ==
  ASSUME NEW q, Sound(q)
  PROVE  /\ q.ptr \in Nat /\ q.size \in Nat /\ q.len \in Nat /\ q.ptr <= q.size
         /\ q.stage \in Stage /\ q.frame \in FrameType /\ q.buf \in Seq(Byte)
         /\ q.size <= Len(q.buf) /\ q \in ParserType
BY DEF Sound, ParserType

\* When all bytes of the frame are there, no check function waits for more.
LEMMA Enough ==
  ASSUME NEW q, Sound(q), NEW f \in Sendable, Decoding(q, f), ~(q.size < WireLen(f))
  PROVE  /\ \A s \in {"FIN_BIT", "OPCODE", "MASK_BIT", "PAYLOAD_LEN"} :
              q.stage = s => AtStage(q, s, 1)
         /\ q.stage = "EXTENDED_PAYLOAD_LEN_16" => AtStage(q, "EXTENDED_PAYLOAD_LEN_16", 2)
         /\ q.stage = "EXTENDED_PAYLOAD_LEN_64" => AtStage(q, "EXTENDED_PAYLOAD_LEN_64", 8)
         /\ q.stage = "MASKING_KEY" => AtStage(q, "MASKING_KEY", 4)
         /\ q.stage = "PAYLOAD_DATA" => AtStage(q, "PAYLOAD_DATA", q.len)
<1>1. q.ptr \in Nat /\ q.size \in Nat BY SoundFields
<1>2. PICK h \in Nat, e \in Nat, n \in Nat, w \in Nat :
         h = HeaderLen(f) /\ e = f.ext /\ n = Len(f.payload) /\ w = WireLen(f)
  BY HeaderLenType, FrameFields
<1>3. w = h + n /\ h >= 2 + e /\ w >= 2 /\ q.size >= w /\ (f.mask => h = 6 + e)
  BY <1>1, <1>2, HeaderLenType
<1>4. CASE q.stage \in {"FIN_BIT", "OPCODE", "MASK_BIT", "PAYLOAD_LEN"}
  <2>1. q.ptr = 0 \/ q.ptr = 1 BY <1>4 DEF Decoding
  <2>2. q.size - q.ptr >= 1 BY <1>1, <1>3, <2>1
  <2> QED BY <1>4, <2>2 DEF AtStage, remaining
<1>5. CASE q.stage = "EXTENDED_PAYLOAD_LEN_16"
  <2>1. q.ptr = 2 /\ e = 2 BY <1>2, <1>5 DEF Decoding
  <2>2. q.size - q.ptr >= 2 BY <1>1, <1>2, <1>3, <2>1
  <2> QED BY <1>5, <2>2 DEF AtStage, remaining
<1>6. CASE q.stage = "EXTENDED_PAYLOAD_LEN_64"
  <2>1. q.ptr = 2 /\ e = 8 BY <1>2, <1>6 DEF Decoding
  <2>2. q.size - q.ptr >= 8 BY <1>1, <1>2, <1>3, <2>1
  <2> QED BY <1>6, <2>2 DEF AtStage, remaining
<1>7. CASE q.stage = "MASKING_KEY"
  <2>1. q.ptr = 2 + e /\ h = 6 + e BY <1>2, <1>3, <1>7 DEF Decoding
  <2>2. w = h + n /\ q.size >= w BY <1>3
  <2>3. q.size - q.ptr >= 4 BY <1>1, <2>1, <2>2
  <2> QED BY <1>7, <2>3 DEF AtStage, remaining
<1>8. CASE q.stage = "PAYLOAD_DATA"
  <2>1. q.ptr = h /\ q.len = n BY <1>2, <1>8 DEF Decoding
  <2>2. q.size - q.ptr >= n BY <1>1, <1>2, <1>3, <2>1
  <2> QED BY <1>8, <2>1, <2>2 DEF AtStage, remaining
<1> QED BY <1>4, <1>5, <1>6, <1>7, <1>8

\* A claimed byte of the frame is the byte the server sent.
LEMMA PrefixByte ==
  ASSUME NEW q, Sound(q), NEW f \in Sendable, Prefix(q, f), NEW i \in Nat \ {0},
         i <= q.size, i <= WireLen(f)
  PROVE  q.buf[i] = Encode(f)[i]
BY SoundFields DEF Prefix

\* check_fin_bit.
LEMMA FinDecodes ==
  ASSUME NEW q, Sound(q), NEW f \in Sendable, Prefix(q, f), Decoding(q, f)
  PROVE  /\ Decoding(check_fin_bit(q), f)
         /\ Reached(check_fin_bit(q), f, Stage \ {"FIN_BIT"})
<1>0. q \in ParserType /\ q.frame \in FrameType /\ q.stage \in Stage BY SoundFields
<1>1. CASE ~AtStage(q, "FIN_BIT", 1)
  BY <1>0, <1>1, Enough DEF check_fin_bit, Reached
<1>2. CASE AtStage(q, "FIN_BIT", 1)
  <2> DEFINE x == [q EXCEPT !.frame.fin = q.buf[q.ptr + 1] >= 128, !.stage = "OPCODE"]
  <2>1. q.stage = "FIN_BIT" /\ q.ptr = 0 /\ 1 <= q.size
    BY <1>2, SoundFields DEF AtStage, remaining, Decoding
  <2>2. q.buf[1] = Bit(f.fin) + f.opcode
    BY <2>1, PrefixByte, EncodeBytes, HeaderLenType
  <2>3. (q.buf[q.ptr + 1] >= 128) = f.fin
    <3>1. f.fin \in BOOLEAN /\ f.opcode \in 0 .. 127 BY FrameFields
    <3>2. (Bit(f.fin) + f.opcode >= 128) = f.fin BY <3>1, FlagDecodes
    <3> QED BY <2>1, <2>2, <3>2
  <2>4. /\ x.stage = "OPCODE" /\ x.ptr = q.ptr /\ x.size = q.size
        /\ x.frame.payload = q.frame.payload
    BY <1>0 DEF ParserType, FrameType
  <2>5. x.frame.fin = (q.buf[q.ptr + 1] >= 128) BY <1>0 DEF ParserType, FrameType
  <2>6. x.frame.fin = f.fin BY <2>3, <2>5
  <2>7. check_fin_bit(q) = x BY <1>2 DEF check_fin_bit
  <2> HIDE DEF x
  <2>8. Decoding(x, f) BY <2>1, <2>4, <2>6 DEF Decoding
  <2>9. Reached(x, f, Stage \ {"FIN_BIT"}) BY <2>4, StageNames DEF Reached
  <2> QED BY <2>7, <2>8, <2>9
<1> QED BY <1>1, <1>2

\* check_opcode.
LEMMA OpcodeDecodes ==
  ASSUME NEW q, Sound(q), NEW f \in Sendable, Prefix(q, f), Decoding(q, f),
         Reached(q, f, Stage \ {"FIN_BIT"})
  PROVE  /\ Decoding(check_opcode(q), f)
         /\ Reached(check_opcode(q), f, Stage \ {"FIN_BIT", "OPCODE"})
<1>0. q \in ParserType /\ q.frame \in FrameType /\ q.stage \in Stage BY SoundFields
<1>1. CASE ~AtStage(q, "OPCODE", 1)
  BY <1>0, <1>1, Enough DEF check_opcode, Reached
<1>2. CASE AtStage(q, "OPCODE", 1)
  <2> DEFINE x == [q EXCEPT !.frame.opcode = q.buf[q.ptr + 1] % 16,
                            !.ptr = q.ptr + 1, !.stage = "MASK_BIT"]
  <2>1. q.stage = "OPCODE" /\ q.ptr = 0 /\ 1 <= q.size
    BY <1>2, SoundFields DEF AtStage, remaining, Decoding
  <2>2. q.buf[1] = Bit(f.fin) + f.opcode
    BY <2>1, PrefixByte, EncodeBytes, HeaderLenType
  <2>3. q.buf[q.ptr + 1] % 16 = f.opcode
    <3>1. f.fin \in BOOLEAN /\ f.opcode \in 0 .. 127 /\ f.opcode < 16 BY FrameFields
    <3>2. (Bit(f.fin) + f.opcode) % 16 = f.opcode BY <3>1, FlagDecodes
    <3> QED BY <2>1, <2>2, <3>2
  <2>4. /\ x.stage = "MASK_BIT" /\ x.ptr = 1 /\ x.size = q.size
        /\ x.frame.payload = q.frame.payload /\ x.frame.fin = q.frame.fin
    BY <1>0, <2>1 DEF ParserType, FrameType
  <2>5. x.frame.opcode = q.buf[q.ptr + 1] % 16 BY <1>0 DEF ParserType, FrameType
  <2>6. x.frame.opcode = f.opcode BY <2>3, <2>5
  <2>7. check_opcode(q) = x BY <1>2 DEF check_opcode
  <2> HIDE DEF x
  <2>8. Decoding(x, f) BY <2>1, <2>4, <2>6 DEF Decoding
  <2>9. Reached(x, f, Stage \ {"FIN_BIT", "OPCODE"}) BY <2>4, StageNames DEF Reached
  <2> QED BY <2>7, <2>8, <2>9
<1> QED BY <1>1, <1>2

\* check_mask_bit.
LEMMA MaskDecodes ==
  ASSUME NEW q, Sound(q), NEW f \in Sendable, Prefix(q, f), Decoding(q, f),
         Reached(q, f, Stage \ {"FIN_BIT", "OPCODE"})
  PROVE  /\ Decoding(check_mask_bit(q), f)
         /\ Reached(check_mask_bit(q), f, Stage \ {"FIN_BIT", "OPCODE", "MASK_BIT"})
<1>0. q \in ParserType /\ q.frame \in FrameType /\ q.stage \in Stage BY SoundFields
<1>1. CASE ~AtStage(q, "MASK_BIT", 1)
  BY <1>0, <1>1, Enough DEF check_mask_bit, Reached
<1>2. CASE AtStage(q, "MASK_BIT", 1)
  <2> DEFINE x == [q EXCEPT !.frame.mask = q.buf[q.ptr + 1] >= 128, !.stage = "PAYLOAD_LEN"]
  <2>1. q.stage = "MASK_BIT" /\ q.ptr = 1 /\ 2 <= q.size
    BY <1>2, SoundFields DEF AtStage, remaining, Decoding
  <2>2. q.buf[2] = Bit(f.mask) + LengthCode(f)
    BY <2>1, PrefixByte, EncodeBytes, HeaderLenType
  <2>3. (q.buf[q.ptr + 1] >= 128) = f.mask
    <3>1. f.mask \in BOOLEAN /\ LengthCode(f) \in 0 .. 127 BY FrameFields, LengthCodes
    <3>2. (Bit(f.mask) + LengthCode(f) >= 128) = f.mask BY <3>1, FlagDecodes
    <3> QED BY <2>1, <2>2, <3>2
  <2>4. /\ x.stage = "PAYLOAD_LEN" /\ x.ptr = 1 /\ x.size = q.size
        /\ x.frame.payload = q.frame.payload /\ x.frame.fin = q.frame.fin
        /\ x.frame.opcode = q.frame.opcode
    BY <1>0, <2>1 DEF ParserType, FrameType
  <2>5. x.frame.mask = (q.buf[q.ptr + 1] >= 128) BY <1>0 DEF ParserType, FrameType
  <2>6. x.frame.mask = f.mask BY <2>3, <2>5
  <2>7. check_mask_bit(q) = x BY <1>2 DEF check_mask_bit
  <2> HIDE DEF x
  <2>8. Decoding(x, f) BY <2>1, <2>4, <2>6 DEF Decoding
  <2>9. Reached(x, f, Stage \ {"FIN_BIT", "OPCODE", "MASK_BIT"})
    BY <2>4, StageNames DEF Reached
  <2> QED BY <2>7, <2>8, <2>9
<1> QED BY <1>1, <1>2

\* The stage behind the length, and where it starts in the frame.
LEMMA AfterLengthDecodes ==
  ASSUME NEW q, Sound(q), NEW f \in Sendable, Decoding(q, f),
         q.stage \in {"PAYLOAD_LEN", "EXTENDED_PAYLOAD_LEN_16", "EXTENDED_PAYLOAD_LEN_64"},
         NEW x, x.stage = AfterLength(q), x.frame = q.frame, x.len = Len(f.payload),
         x.ptr = 2 + f.ext
  PROVE  Decoding(x, f) /\ x.stage \in {"MASKING_KEY", "PAYLOAD_DATA"}
<1>1. /\ q.frame.fin = f.fin /\ q.frame.opcode = f.opcode /\ q.frame.mask = f.mask
      /\ q.frame.payload = NoPayload
  BY DEF Decoding
<1>2. CASE f.mask
  <2>1. x.stage = "MASKING_KEY" BY <1>1, <1>2 DEF AfterLength
  <2> QED BY <1>1, <1>2, <2>1 DEF Decoding
<1>3. CASE ~f.mask
  <2>1. x.stage = "PAYLOAD_DATA" BY <1>1, <1>3 DEF AfterLength
  <2>2. HeaderLen(f) = 2 + f.ext BY <1>3, HeaderLenType
  <2> QED BY <1>1, <1>3, <2>1, <2>2 DEF Decoding
<1> QED BY <1>2, <1>3

\* check_payload_len.
LEMMA LenDecodes ==
  ASSUME NEW q, Sound(q), NEW f \in Sendable, Prefix(q, f), Decoding(q, f),
         Reached(q, f, Stage \ {"FIN_BIT", "OPCODE", "MASK_BIT"})
  PROVE  /\ Decoding(check_payload_len(q), f)
         /\ Reached(check_payload_len(q), f,
                    {"EXTENDED_PAYLOAD_LEN_16", "EXTENDED_PAYLOAD_LEN_64", "MASKING_KEY",
                     "PAYLOAD_DATA", "DONE"})
<1>0. q \in ParserType /\ q.frame \in FrameType /\ q.stage \in Stage BY SoundFields
<1>1. CASE ~AtStage(q, "PAYLOAD_LEN", 1)
  BY <1>0, <1>1, Enough DEF check_payload_len, Reached, Stage
<1>2. CASE AtStage(q, "PAYLOAD_LEN", 1)
  <2> DEFINE len == q.buf[q.ptr + 1] % 128
  <2>1. q.stage = "PAYLOAD_LEN" /\ q.ptr = 1 /\ 2 <= q.size
    BY <1>2, SoundFields DEF AtStage, remaining, Decoding
  <2>2. q.buf[2] = Bit(f.mask) + LengthCode(f)
    BY <2>1, PrefixByte, EncodeBytes, HeaderLenType
  <2>3. len = LengthCode(f)
    <3>1. f.mask \in BOOLEAN /\ LengthCode(f) \in 0 .. 127 BY FrameFields, LengthCodes
    <3>2. (Bit(f.mask) + LengthCode(f)) % 128 = LengthCode(f) BY <3>1, FlagDecodes
    <3> QED BY <2>1, <2>2, <3>2
  <2>4. /\ q.frame.fin = f.fin /\ q.frame.opcode = f.opcode /\ q.frame.mask = f.mask
        /\ q.frame.payload = NoPayload
    BY <2>1 DEF Decoding
  <2>5. f.ext \in {0, 2, 8} BY FrameFields
  <2>6. CASE f.ext = 2
    <3> DEFINE x == [q EXCEPT !.ptr = q.ptr + 1, !.stage = "EXTENDED_PAYLOAD_LEN_16"]
    <3>1. check_payload_len(q) = x
      BY <1>2, <2>3, <2>6, LengthCodes DEF check_payload_len
    <3>2. x.stage = "EXTENDED_PAYLOAD_LEN_16" /\ x.ptr = 2 /\ x.frame = q.frame
      BY <1>0, <2>1 DEF ParserType
    <3> HIDE DEF x
    <3>3. Decoding(x, f) BY <2>4, <2>6, <3>2 DEF Decoding
    <3> QED BY <3>1, <3>2, <3>3 DEF Reached
  <2>7. CASE f.ext = 8
    <3> DEFINE x == [q EXCEPT !.ptr = q.ptr + 1, !.stage = "EXTENDED_PAYLOAD_LEN_64"]
    <3>1. check_payload_len(q) = x
      BY <1>2, <2>3, <2>7, LengthCodes DEF check_payload_len
    <3>2. x.stage = "EXTENDED_PAYLOAD_LEN_64" /\ x.ptr = 2 /\ x.frame = q.frame
      BY <1>0, <2>1 DEF ParserType
    <3> HIDE DEF x
    <3>3. Decoding(x, f) BY <2>4, <2>7, <3>2 DEF Decoding
    <3> QED BY <3>1, <3>2, <3>3 DEF Reached
  <2>8. CASE f.ext = 0
    <3> DEFINE x == [q EXCEPT !.ptr = q.ptr + 1, !.len = len, !.stage = AfterLength(q)]
    <3>1. check_payload_len(q) = x
      BY <1>2, <2>3, <2>8, LengthCodes DEF check_payload_len
    <3>2. x.stage = AfterLength(q) /\ x.ptr = 2 /\ x.frame = q.frame /\ x.len = len
      BY <1>0, <2>1 DEF ParserType
    <3>3. len = Len(f.payload) BY <2>3, <2>8, LengthCodes
    <3>4. x.ptr = 2 + f.ext BY <2>8, <3>2
    <3> HIDE DEF x, len
    <3>5. Decoding(x, f) /\ x.stage \in {"MASKING_KEY", "PAYLOAD_DATA"}
      BY <2>1, <3>2, <3>3, <3>4, AfterLengthDecodes
    <3> QED BY <3>1, <3>5 DEF Reached
  <2> QED BY <2>5, <2>6, <2>7, <2>8
<1> QED BY <1>1, <1>2

\* check_extended_payload_len_16.
LEMMA Ext16Decodes ==
  ASSUME NEW q, Sound(q), NEW f \in Sendable, Prefix(q, f), Decoding(q, f),
         Reached(q, f, {"EXTENDED_PAYLOAD_LEN_16", "EXTENDED_PAYLOAD_LEN_64", "MASKING_KEY",
                        "PAYLOAD_DATA", "DONE"})
  PROVE  /\ Decoding(check_extended_payload_len_16(q), f)
         /\ Reached(check_extended_payload_len_16(q), f,
                    {"EXTENDED_PAYLOAD_LEN_64", "MASKING_KEY", "PAYLOAD_DATA", "DONE"})
<1>0. q \in ParserType BY SoundFields
<1>1. CASE ~AtStage(q, "EXTENDED_PAYLOAD_LEN_16", 2)
  BY <1>1, Enough DEF check_extended_payload_len_16, Reached
<1>2. CASE AtStage(q, "EXTENDED_PAYLOAD_LEN_16", 2)
  <2> DEFINE len == 256 * q.buf[q.ptr + 1] + q.buf[q.ptr + 2]
             x == [q EXCEPT !.len = len, !.ptr = q.ptr + 2, !.stage = AfterLength(q)]
  <2>1. q.stage = "EXTENDED_PAYLOAD_LEN_16" /\ q.ptr = 2 /\ f.ext = 2 /\ 4 <= q.size
    BY <1>2, SoundFields DEF AtStage, remaining, Decoding
  <2>2. PICK n \in Nat : n = Len(f.payload) BY FrameFields
  <2>3. LengthBytes(f) = BigEndian2(n) BY <2>1, <2>2 DEF LengthBytes
  <2>4. 4 <= WireLen(f) /\ WireLen(f) \in Nat
    <3>1. WireLen(f) \in Nat /\ HeaderLen(f) \in Nat /\ WireLen(f) >= HeaderLen(f)
          /\ HeaderLen(f) >= 2 + f.ext
      BY HeaderLenType
    <3>2. HeaderLen(f) >= 4 BY <2>1, <3>1
    <3> QED BY <3>1, <3>2
  <2>5. q.buf[3] = Encode(f)[3] /\ q.buf[4] = Encode(f)[4]
    BY <2>1, <2>4, PrefixByte, SoundFields
  <2>6. Encode(f)[3] = LengthBytes(f)[1] /\ Encode(f)[4] = LengthBytes(f)[2]
    <3>1. \A i \in 1 .. 2 : Encode(f)[2 + i] = LengthBytes(f)[i] BY <2>1, EncodeBytes
    <3> QED BY <3>1
  <2>7. q.buf[3] = n \div 256 /\ q.buf[4] = n % 256 BY <2>3, <2>5, <2>6 DEF BigEndian2
  <2>8. len = n
    <3>1. len = 256 * (n \div 256) + (n % 256) BY <2>1, <2>7
    <3> QED BY <3>1, TwoBytesDecode
  <2>9. check_extended_payload_len_16(q) = x BY <1>2 DEF check_extended_payload_len_16
  <2>10. x.stage = AfterLength(q) /\ x.ptr = 4 /\ x.frame = q.frame /\ x.len = len
    BY <1>0, <2>1 DEF ParserType
  <2>11. x.ptr = 2 + f.ext BY <2>1, <2>10
  <2> HIDE DEF x, len
  <2>12. Decoding(x, f) /\ x.stage \in {"MASKING_KEY", "PAYLOAD_DATA"}
    BY <2>1, <2>2, <2>8, <2>10, <2>11, AfterLengthDecodes
  <2> QED BY <2>9, <2>12 DEF Reached
<1> QED BY <1>1, <1>2

\* check_extended_payload_len_64 has no bytes to decode yet.
LEMMA Ext64Decodes ==
  ASSUME NEW q, Sound(q), NEW f \in Sendable, Decoding(q, f), NEW u, Undecoded(q, f),
         Reached(q, f, {"EXTENDED_PAYLOAD_LEN_64", "MASKING_KEY", "PAYLOAD_DATA", "DONE"})
  PROVE  /\ Decoding(check_extended_payload_len_64(q, u), f)
         /\ Reached(check_extended_payload_len_64(q, u), f,
                    {"MASKING_KEY", "PAYLOAD_DATA", "DONE"})
<1>1. q.ptr \in Nat /\ q.size \in Nat BY SoundFields
<1>2. ~AtStage(q, "EXTENDED_PAYLOAD_LEN_64", 8)
  <2> SUFFICES ASSUME AtStage(q, "EXTENDED_PAYLOAD_LEN_64", 8) PROVE FALSE
    OBVIOUS
  <2>1. q.ptr = 2 /\ f.ext = 8 BY DEF AtStage, Decoding
  <2>2. q.size - q.ptr >= 8 BY DEF AtStage, remaining
  <2> QED BY <1>1, <2>1, <2>2 DEF Undecoded
<1>3. check_extended_payload_len_64(q, u) = q
  BY <1>2 DEF check_extended_payload_len_64
<1>4. CASE f.ext = 8
  <2>1. HeaderLen(f) >= 10 /\ WireLen(f) >= HeaderLen(f) /\ HeaderLen(f) \in Nat
        /\ WireLen(f) \in Nat
    BY <1>4, HeaderLenType
  <2>2. q.size < WireLen(f) BY <1>1, <1>4, <2>1 DEF Undecoded
  <2> QED BY <1>3, <2>2 DEF Reached
<1>5. CASE f.ext # 8
  <2>1. q.stage # "EXTENDED_PAYLOAD_LEN_64" BY <1>5 DEF Decoding
  <2> QED BY <1>3, <2>1 DEF Reached
<1> QED BY <1>4, <1>5

\* check_masking_key.
LEMMA KeyDecodes ==
  ASSUME NEW q, Sound(q), NEW f \in Sendable, Prefix(q, f), Decoding(q, f),
         Reached(q, f, {"MASKING_KEY", "PAYLOAD_DATA", "DONE"})
  PROVE  /\ Decoding(check_masking_key(q), f)
         /\ Reached(check_masking_key(q), f, {"PAYLOAD_DATA", "DONE"})
<1>0. q \in ParserType /\ q.frame \in FrameType /\ q.ptr \in Nat /\ q.size \in Nat
  BY SoundFields
<1>1. CASE ~AtStage(q, "MASKING_KEY", 4)
  BY <1>1, Enough DEF check_masking_key, Reached
<1>2. CASE AtStage(q, "MASKING_KEY", 4)
  <2> DEFINE key == [i \in 1 .. 4 |-> q.buf[q.ptr + i]]
             x == [q EXCEPT !.frame.masking_key = key, !.ptr = q.ptr + 4,
                            !.stage = "PAYLOAD_DATA"]
  <2>1. PICK e \in Nat : e = f.ext BY HeaderLenType
  <2>2. q.stage = "MASKING_KEY" /\ q.ptr = 2 + e /\ f.mask
    BY <1>2, <2>1 DEF AtStage, Decoding
  <2>3. 6 + e <= q.size
    <3>1. q.size - q.ptr >= 4 BY <1>2 DEF AtStage, remaining
    <3>2. q.ptr = 2 + e BY <2>2
    <3> QED BY <1>0, <3>1, <3>2
  <2>4. HeaderLen(f) = 6 + e /\ WireLen(f) \in Nat /\ WireLen(f) >= 6 + e
    BY <2>1, <2>2, HeaderLenType
  <2>5. \A i \in 1 .. 4 : q.buf[q.ptr + i] = f.masking_key[i]
    <3> TAKE i \in 1 .. 4
    <3>1. 2 + e + i \in Nat \ {0} /\ 2 + e + i <= q.size /\ 2 + e + i <= WireLen(f)
      <4>1. WireLen(f) \in Nat /\ WireLen(f) >= 6 + e BY <2>4
      <4> QED BY <1>0, <2>3, <4>1
    <3>2. q.buf[2 + e + i] = Encode(f)[2 + e + i] BY <3>1, PrefixByte
    <3>3. Encode(f)[2 + f.ext + i] = f.masking_key[i] BY <2>2, EncodeBytes
    <3> QED BY <2>1, <2>2, <3>2, <3>3
  <2>6. key = f.masking_key
    <3>1. f.masking_key \in [1 .. 4 -> Byte] BY FrameFields
    <3> QED BY <2>5, <3>1
  <2>7. check_masking_key(q) = x BY <1>2 DEF check_masking_key
  <2> HIDE DEF key
  <2>8. /\ x.stage = "PAYLOAD_DATA" /\ x.ptr = q.ptr + 4 /\ x.len = q.len
        /\ x.frame = [q.frame EXCEPT !.masking_key = key]
    BY <1>0 DEF ParserType
  <2> HIDE DEF x
  <2>9. /\ x.frame.fin = q.frame.fin /\ x.frame.opcode = q.frame.opcode
        /\ x.frame.mask = q.frame.mask /\ x.frame.payload = q.frame.payload
        /\ x.frame.masking_key = key
    BY <1>0, <2>8 DEF FrameType
  <2>10. x.ptr = HeaderLen(f)
    <3>1. q.ptr = 2 + e /\ HeaderLen(f) = 6 + e BY <2>2, <2>4
    <3> QED BY <2>8, <3>1
  <2>11. Decoding(x, f)
    <3>1. x.frame.masking_key = f.masking_key BY <2>6, <2>9
    <3>2. /\ q.frame.fin = f.fin /\ q.frame.opcode = f.opcode /\ q.frame.mask = f.mask
          /\ q.len = Len(f.payload) /\ q.frame.payload = NoPayload
      BY <2>2 DEF Decoding
    <3> QED BY <2>8, <2>9, <2>10, <3>1, <3>2 DEF Decoding
  <2> QED BY <2>7, <2>8, <2>11 DEF Reached
<1> QED BY <1>1, <1>2

\* check_payload_data.
LEMMA PayloadDecodes ==
  ASSUME NEW q, Sound(q), NEW f \in Sendable, Decoding(q, f),
         Reached(q, f, {"PAYLOAD_DATA", "DONE"})
  PROVE  /\ Decoding(check_payload_data(q), f)
         /\ Reached(check_payload_data(q), f, {"DONE"})
<1>0. q \in ParserType /\ q.frame \in FrameType BY SoundFields
<1>1. CASE ~AtStage(q, "PAYLOAD_DATA", q.len)
  BY <1>1, Enough DEF check_payload_data, Reached
<1>2. CASE AtStage(q, "PAYLOAD_DATA", q.len)
  <2>1. /\ q.stage = "PAYLOAD_DATA" /\ q.ptr = HeaderLen(f) /\ q.len = Len(f.payload)
        /\ q.frame.fin = f.fin /\ q.frame.opcode = f.opcode /\ q.frame.mask = f.mask
        /\ q.frame.payload = NoPayload
        /\ f.mask => q.frame.masking_key = f.masking_key
    BY <1>2 DEF AtStage, Decoding
  <2>2. PICK n \in Nat, h \in Nat : n = Len(f.payload) /\ h = HeaderLen(f)
    BY FrameFields, HeaderLenType
  <2>3. WireLen(f) = h + n BY <2>2 DEF WireLen
  <2>4. CASE q.len = 0
    <3> DEFINE x == [q EXCEPT !.stage = "DONE"]
    <3>1. check_payload_data(q) = x BY <1>2, <2>4 DEF check_payload_data
    <3>2. x.stage = "DONE" /\ x.ptr = q.ptr /\ x.len = q.len /\ x.frame = q.frame
      BY <1>0 DEF ParserType
    <3> HIDE DEF x
    <3>3. n = 0 /\ ~(Len(f.payload) > 0) BY <2>1, <2>2, <2>4
    <3>4. x.ptr = WireLen(f) BY <2>1, <2>2, <2>3, <3>2, <3>3
    <3>5. Decoding(x, f) BY <2>1, <3>2, <3>3, <3>4 DEF Decoding
    <3> QED BY <3>1, <3>2, <3>5 DEF Reached
  <2>5. CASE q.len # 0
    <3> DEFINE v == [off |-> q.ptr, len |-> q.len]
               x == [q EXCEPT !.frame.payload = v, !.ptr = q.ptr + q.len, !.stage = "DONE"]
    <3>1. check_payload_data(q) = x BY <1>2, <2>5 DEF check_payload_data
    <3>2. v = [off |-> HeaderLen(f), len |-> Len(f.payload)] BY <2>1
    <3> HIDE DEF v
    <3>3. /\ x.stage = "DONE" /\ x.ptr = q.ptr + q.len /\ x.len = q.len
          /\ x.frame = [q.frame EXCEPT !.payload = v]
      BY <1>0 DEF ParserType
    <3> HIDE DEF x
    <3>4. /\ x.frame.fin = q.frame.fin /\ x.frame.opcode = q.frame.opcode
          /\ x.frame.mask = q.frame.mask /\ x.frame.payload = v
          /\ x.frame.masking_key = q.frame.masking_key
      BY <1>0, <3>3 DEF FrameType
    <3>5. n > 0 /\ q.len = n /\ q.ptr = h BY <2>1, <2>2, <2>5
    <3>6. Len(f.payload) > 0 /\ x.ptr = WireLen(f) BY <2>2, <2>3, <3>3, <3>5
    <3>7. Decoding(x, f) BY <2>1, <3>2, <3>3, <3>4, <3>6 DEF Decoding
    <3> QED BY <3>1, <3>3, <3>7 DEF Reached
  <2> QED BY <2>4, <2>5
<1> QED BY <1>1, <1>2

\* What keeps the bytes keeps their being those of the frame.
LEMMA KeepsPrefix ==
  ASSUME NEW q, NEW x, NEW f, Prefix(q, f), Keeps(q, x) PROVE Prefix(x, f) /\ Sound(x)
BY DEF Prefix, Keeps

\* One call of parse() takes the frame as far as its bytes reach, from any stage,
\* and finishes it when they are all there.
LEMMA ParseDecodes ==
  ASSUME NEW q, Sound(q), NEW f \in Sendable, Prefix(q, f), Decoding(q, f), NEW u \in Nat,
         Undecoded(q, f)
  PROVE  Decoding(parse(q, u), f) /\ (done(parse(q, u)) \/ q.size < WireLen(f))
<1> DEFINE q1 == check_fin_bit(q)
           q2 == check_opcode(q1)
           q3 == check_mask_bit(q2)
           q4 == check_payload_len(q3)
           q5 == check_extended_payload_len_16(q4)
           q6 == check_extended_payload_len_64(q5, u)
           q7 == check_masking_key(q6)
           q8 == check_payload_data(q7)
<1>0. parse(q, u) = q8 BY DEF parse
<1> HIDE DEF q1, q2, q3, q4, q5, q6, q7, q8
<1>1. Keeps(q, q1) BY CheckFin DEF q1
<1>2. Keeps(q, q2) BY <1>1, CheckOpcode DEF q2, Keeps
<1>3. Keeps(q, q3) BY <1>2, CheckMask DEF q3, Keeps
<1>4. Keeps(q, q4) BY <1>3, CheckLen DEF q4, Keeps
<1>5. Keeps(q, q5) BY <1>4, CheckExt16 DEF q5, Keeps
<1>6. Keeps(q, q6) BY <1>5, CheckExt64 DEF q6, Keeps
<1>7. Keeps(q, q7) BY <1>6, CheckKey DEF q7, Keeps
<1>8. Keeps(q, q8) BY <1>7, CheckPayload DEF q8, Keeps
<1>9. Decoding(q1, f) /\ Reached(q1, f, Stage \ {"FIN_BIT"}) BY FinDecodes DEF q1
<1>10. Decoding(q2, f) /\ Reached(q2, f, Stage \ {"FIN_BIT", "OPCODE"})
  BY <1>1, <1>9, KeepsPrefix, OpcodeDecodes DEF q2
<1>11. Decoding(q3, f) /\ Reached(q3, f, Stage \ {"FIN_BIT", "OPCODE", "MASK_BIT"})
  BY <1>2, <1>10, KeepsPrefix, MaskDecodes DEF q3
<1>12. /\ Decoding(q4, f)
       /\ Reached(q4, f, {"EXTENDED_PAYLOAD_LEN_16", "EXTENDED_PAYLOAD_LEN_64",
                          "MASKING_KEY", "PAYLOAD_DATA", "DONE"})
  BY <1>3, <1>11, KeepsPrefix, LenDecodes DEF q4
<1>13. /\ Decoding(q5, f)
       /\ Reached(q5, f, {"EXTENDED_PAYLOAD_LEN_64", "MASKING_KEY", "PAYLOAD_DATA", "DONE"})
  BY <1>4, <1>12, KeepsPrefix, Ext16Decodes DEF q5
<1>14. Decoding(q6, f) /\ Reached(q6, f, {"MASKING_KEY", "PAYLOAD_DATA", "DONE"})
  <2>1. Undecoded(q5, f) BY <1>5 DEF Undecoded, Keeps
  <2> QED BY <1>5, <1>13, <2>1, KeepsPrefix, Ext64Decodes DEF q6
<1>15. Decoding(q7, f) /\ Reached(q7, f, {"PAYLOAD_DATA", "DONE"})
  BY <1>6, <1>14, KeepsPrefix, KeyDecodes DEF q7
<1>16. Decoding(q8, f) /\ Reached(q8, f, {"DONE"})
  BY <1>7, <1>15, KeepsPrefix, PayloadDecodes DEF q8
<1>17. q8.size = q.size BY <1>8 DEF Keeps
<1> QED BY <1>0, <1>16, <1>17 DEF Reached, done

\* When the length field is there, a call of parse() that starts at the front of the
\* frame gets past it.
LEMMA HeaderParsed ==
  ASSUME NEW q, Sound(q), NEW f \in Sendable, Prefix(q, f), Decoding(q, f),
         q.stage = "FIN_BIT", q.size >= 2 + f.ext, NEW u \in Nat
  PROVE  parse(q, u).stage \in {"MASKING_KEY", "PAYLOAD_DATA", "DONE"}
<1> DEFINE q1 == check_fin_bit(q)
           q2 == check_opcode(q1)
           q3 == check_mask_bit(q2)
           q4 == check_payload_len(q3)
           q5 == check_extended_payload_len_16(q4)
           q6 == check_extended_payload_len_64(q5, u)
           q7 == check_masking_key(q6)
           q8 == check_payload_data(q7)
<1>0. parse(q, u) = q8 BY DEF parse
<1> HIDE DEF q1, q2, q3, q4, q5, q6, q7, q8
<1>1. Keeps(q, q1) BY CheckFin DEF q1
<1>2. Keeps(q, q2) BY <1>1, CheckOpcode DEF q2, Keeps
<1>3. Keeps(q, q3) BY <1>2, CheckMask DEF q3, Keeps
<1>4. Keeps(q, q4) BY <1>3, CheckLen DEF q4, Keeps
<1>5. Keeps(q, q5) BY <1>4, CheckExt16 DEF q5, Keeps
<1>6. PICK n \in Nat : n = q.size BY SoundFields
<1>7. PICK e \in Nat : e = f.ext BY HeaderLenType
<1>8. n >= 2 + e BY <1>6, <1>7
<1>9. /\ q1.size = n /\ q2.size = n /\ q3.size = n /\ q4.size = n /\ q5.size = n
  BY <1>1, <1>2, <1>3, <1>4, <1>5, <1>6 DEF Keeps
<1>10. q1.stage = "OPCODE" /\ Decoding(q1, f)
  <2>1. q.ptr = 0 BY DEF Decoding
  <2>2. AtStage(q, "FIN_BIT", 1) BY <1>6, <1>8, <2>1 DEF AtStage, remaining
  <2>3. q1.stage = "OPCODE" BY <2>2 DEF q1, check_fin_bit, Sound, ParserType
  <2> QED BY <2>3, FinDecodes DEF q1
<1>11. q2.stage = "MASK_BIT" /\ Decoding(q2, f)
  <2>1. q1.ptr = 0 BY <1>10 DEF Decoding
  <2>2. AtStage(q1, "OPCODE", 1) BY <1>8, <1>9, <1>10, <2>1 DEF AtStage, remaining
  <2>3. q2.stage = "MASK_BIT" BY <1>1, <2>2 DEF q2, check_opcode, Keeps, Sound, ParserType
  <2>4. Reached(q1, f, Stage \ {"FIN_BIT"}) BY <1>10, StageNames DEF Reached
  <2> QED BY <1>1, <1>10, <2>3, <2>4, KeepsPrefix, OpcodeDecodes DEF q2
<1>12. q3.stage = "PAYLOAD_LEN" /\ Decoding(q3, f)
  <2>1. q2.ptr = 1 BY <1>11 DEF Decoding
  <2>2. AtStage(q2, "MASK_BIT", 1) BY <1>8, <1>9, <1>11, <2>1 DEF AtStage, remaining
  <2>3. q3.stage = "PAYLOAD_LEN" BY <1>2, <2>2 DEF q3, check_mask_bit, Keeps, Sound, ParserType
  <2>4. Reached(q2, f, Stage \ {"FIN_BIT", "OPCODE"}) BY <1>11, StageNames DEF Reached
  <2> QED BY <1>2, <1>11, <2>3, <2>4, KeepsPrefix, MaskDecodes DEF q3
<1>13. /\ q4.stage \in {"EXTENDED_PAYLOAD_LEN_16", "EXTENDED_PAYLOAD_LEN_64", "MASKING_KEY",
                        "PAYLOAD_DATA"}
       /\ Decoding(q4, f)
  <2>1. q3.ptr = 1 BY <1>12 DEF Decoding
  <2>2. AtStage(q3, "PAYLOAD_LEN", 1) BY <1>8, <1>9, <1>12, <2>1 DEF AtStage, remaining
  <2>3. q4.stage \in {"EXTENDED_PAYLOAD_LEN_16", "EXTENDED_PAYLOAD_LEN_64", "MASKING_KEY",
                       "PAYLOAD_DATA"}
    BY <1>3, <2>2 DEF q4, check_payload_len, AfterLength, Keeps, Sound, ParserType
  <2>4. Reached(q3, f, Stage \ {"FIN_BIT", "OPCODE", "MASK_BIT"})
    BY <1>12, StageNames DEF Reached
  <2> QED BY <1>3, <1>12, <2>3, <2>4, KeepsPrefix, LenDecodes DEF q4
<1>14. /\ q5.stage \in {"EXTENDED_PAYLOAD_LEN_64", "MASKING_KEY", "PAYLOAD_DATA"}
       /\ Decoding(q5, f)
  <2>1. q5.stage \in {"EXTENDED_PAYLOAD_LEN_64", "MASKING_KEY", "PAYLOAD_DATA"}
    <3>1. CASE q4.stage = "EXTENDED_PAYLOAD_LEN_16"
      <4>1. q4.ptr = 2 /\ e = 2 BY <1>7, <1>13, <3>1 DEF Decoding
      <4>2. AtStage(q4, "EXTENDED_PAYLOAD_LEN_16", 2)
        BY <1>8, <1>9, <3>1, <4>1 DEF AtStage, remaining
      <4> QED BY <1>4, <4>2
            DEF q5, check_extended_payload_len_16, AfterLength, Keeps, Sound, ParserType
    <3>2. CASE q4.stage # "EXTENDED_PAYLOAD_LEN_16"
      BY <1>13, <3>2 DEF q5, check_extended_payload_len_16, AtStage
    <3> QED BY <3>1, <3>2
  <2>2. Reached(q4, f, {"EXTENDED_PAYLOAD_LEN_16", "EXTENDED_PAYLOAD_LEN_64", "MASKING_KEY",
                        "PAYLOAD_DATA", "DONE"})
    BY <1>13 DEF Reached
  <2> QED BY <1>4, <1>13, <2>1, <2>2, KeepsPrefix, Ext16Decodes DEF q5
<1>15. q6.stage \in {"MASKING_KEY", "PAYLOAD_DATA"}
  <2>1. CASE q5.stage = "EXTENDED_PAYLOAD_LEN_64"
    <3>1. q5.ptr = 2 /\ e = 8 BY <1>7, <1>14, <2>1 DEF Decoding
    <3>2. AtStage(q5, "EXTENDED_PAYLOAD_LEN_64", 8)
      BY <1>8, <1>9, <2>1, <3>1 DEF AtStage, remaining
    <3> QED BY <1>5, <3>2
          DEF q6, check_extended_payload_len_64, AfterLength, Keeps, Sound, ParserType
  <2>2. CASE q5.stage # "EXTENDED_PAYLOAD_LEN_64"
    BY <1>14, <2>2 DEF q6, check_extended_payload_len_64, AtStage
  <2> QED BY <2>1, <2>2
<1>16. Keeps(q, q6) BY <1>5, CheckExt64 DEF q6, Keeps
<1>17. Keeps(q, q7) BY <1>16, CheckKey DEF q7, Keeps
<1>18. q7.stage \in {"MASKING_KEY", "PAYLOAD_DATA"}
  BY <1>15, <1>16 DEF q7, check_masking_key, Keeps, Sound, ParserType
<1>19. q8.stage \in {"MASKING_KEY", "PAYLOAD_DATA", "DONE"}
  BY <1>17, <1>18 DEF q8, check_payload_data, Keeps, Sound, ParserType
<1> QED BY <1>0, <1>19

\* The frame update() returns is the frame the server sent, payload included.
LEMMA DoneDecodes ==
  ASSUME NEW q, Sound(q), NEW f \in Sendable, Prefix(q, f), Decoding(q, f), done(q)
  PROVE  FrameOf(q) = Content(f)
<1>1. /\ q.frame.fin = f.fin /\ q.frame.opcode = f.opcode /\ q.frame.mask = f.mask
      /\ f.mask => q.frame.masking_key = f.masking_key
      /\ q.ptr = WireLen(f)
  BY DEF Decoding, done
<1>2. q.size \in Nat /\ q.ptr <= q.size /\ q.buf \in Seq(Byte) /\ q.size <= Len(q.buf)
  BY SoundFields
<1>3. PICK z \in Seq(Byte), h \in Nat : z = f.payload /\ h = HeaderLen(f)
  BY FrameFields, HeaderLenType
<1>4. PICK n \in Nat, w \in Nat : n = Len(z) /\ w = WireLen(f) /\ w = h + n
  BY <1>3, FrameFields, HeaderLenType
<1>5. SubSeq(q.buf, q.frame.payload.off + 1, q.frame.payload.off + q.frame.payload.len) = z
  <2>1. PICK b \in Seq(Byte) : b = q.buf BY <1>2
  <2>2. w <= Len(b) BY <1>1, <1>2, <1>4, <2>1
  <2>3. CASE n = 0
    <3>1. q.frame.payload = NoPayload BY <1>3, <1>4, <2>3 DEF Decoding
    <3>2. q.frame.payload.off = 0 /\ q.frame.payload.len = 0 BY <3>1 DEF NoPayload
    <3>3. SubSeq(b, 0 + 1, 0 + 0) = << >> OBVIOUS
    <3>4. z = << >> BY <1>4, <2>3, EmptySeq
    <3> QED BY <2>1, <3>2, <3>3, <3>4
  <2>4. CASE n > 0
    <3>1. q.frame.payload = [off |-> h, len |-> n] BY <1>3, <1>4, <2>4 DEF Decoding, done
    <3>2. q.frame.payload.off = h /\ q.frame.payload.len = n BY <3>1
    <3> DEFINE s == SubSeq(b, h + 1, h + n)
    <3>3. /\ s \in Seq(Byte) /\ Len(s) = n
          /\ \A i \in 1 .. n : s[i] = b[h + i]
      BY <1>4, <2>2, <2>4
    <3>4. \A i \in 1 .. n : b[h + i] = z[i]
      <4> TAKE i \in 1 .. n
      <4>1. h + i \in Nat \ {0} /\ h + i <= q.size /\ h + i <= WireLen(f)
        <5>1. w <= q.size BY <1>1, <1>2, <1>4
        <5> QED BY <1>2, <1>4, <5>1
      <4>2. q.buf[h + i] = Encode(f)[h + i] BY <4>1, PrefixByte
      <4>3. Encode(f)[HeaderLen(f) + i] = f.payload[i] BY <1>3, <1>4, EncodeBytes
      <4> QED BY <1>3, <2>1, <4>2, <4>3
    <3> HIDE DEF s
    <3>5. s = z
      <4>1. \A i \in 1 .. n : s[i] = z[i] BY <3>3, <3>4
      <4> QED BY <1>4, <3>3, <4>1, SeqEqual
    <3> QED BY <2>1, <3>2, <3>5 DEF s
  <2> QED BY <1>4, <2>3, <2>4
<1>6. CASE f.mask BY <1>1, <1>3, <1>5, <1>6 DEF FrameOf, Content
<1>7. CASE ~f.mask BY <1>1, <1>3, <1>5, <1>7 DEF FrameOf, Content
<1> QED BY <1>6, <1>7
=============================================================================
