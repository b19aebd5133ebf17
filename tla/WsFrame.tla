------------------------------ MODULE WsFrame ------------------------------
(***************************************************************************)
(* The parts of wsframe without state of their own: the form of a frame on *)
(* the wire, the operations of FrameBuffer, and FrameParser as operators   *)
(* from parser states to parser states.  Every check_* member function is  *)
(* an operator, and parse() composes them in the order of the code.        *)
(***************************************************************************)
EXTENDS Integers, Sequences

Byte  == 0 .. 255
Stage == {"FIN_BIT", "OPCODE", "MASK_BIT", "PAYLOAD_LEN",
          "EXTENDED_PAYLOAD_LEN_16", "EXTENDED_PAYLOAD_LEN_64",
          "MASKING_KEY", "PAYLOAD_DATA", "DONE"}

\* A frame on the wire; ext is the number of extended length bytes it uses.
WireFrame == [fin : BOOLEAN, opcode : 0 .. 15, mask : BOOLEAN, ext : {0, 2, 8},
              masking_key : [1 .. 4 -> Byte], payload : Seq(Byte)]

\* The length field of the frame can hold the length of its payload, and a
\* payload has no more bytes than 31 bits count.
LengthFits(f) ==
  Len(f.payload) <= (CASE f.ext = 0 -> 125 [] f.ext = 2 -> 65535 [] f.ext = 8 -> 2147483647)

(***************************************************************************)
(* The server's encoder (RFC 6455, section 5.2).                           *)
(***************************************************************************)
Bit(b) == IF b THEN 128 ELSE 0

LengthCode(f) ==
  CASE f.ext = 0 -> Len(f.payload) [] f.ext = 2 -> 126 [] f.ext = 8 -> 127

BigEndian2(n) == <<n \div 256, n % 256>>

BigEndian8(n) ==
  <<0, 0, 0, 0, n \div 16777216, (n \div 65536) % 256, (n \div 256) % 256, n % 256>>

LengthBytes(f) ==
  CASE f.ext = 0 -> << >>
    [] f.ext = 2 -> BigEndian2(Len(f.payload))
    [] f.ext = 8 -> BigEndian8(Len(f.payload))

Encode(f) ==
  <<Bit(f.fin) + f.opcode, Bit(f.mask) + LengthCode(f)>>
    \o LengthBytes(f) \o (IF f.mask THEN f.masking_key ELSE << >>) \o f.payload
----------------------------------------------------------------------------
(***************************************************************************)
(* FrameBuffer: buf is the whole vector, its first `size' bytes claimed.   *)
(***************************************************************************)
Larger(a, b) == IF a < b THEN b ELSE a

ensure_fit(buf, sz) ==
  [i \in 1 .. Larger(Len(buf), sz) |-> IF i <= Len(buf) THEN buf[i] ELSE 0]

ensure_extra_space(q, extra) == [q EXCEPT !.buf = ensure_fit(q.buf, q.size + extra)]

\* Bytes written behind the claimed ones and claimed in their turn: a recv into
\* tail() followed by claim_space, or push_back of a view.
append_bytes(q, bytes) ==
  [q EXCEPT !.buf = [i \in 1 .. Len(q.buf) |->
                       IF i \in q.size + 1 .. q.size + Len(bytes)
                         THEN bytes[i - q.size] ELSE q.buf[i]],
            !.size = q.size + Len(bytes)]
----------------------------------------------------------------------------
(***************************************************************************)
(* FrameParser.  m_ptr counts consumed bytes of the buffer, so the byte    *)
(* read() looks at is buf[ptr + 1]; a payload is a view into the buffer.   *)
(***************************************************************************)
NoPayload == [off |-> 0, len |-> 0]

\* What m_frame = {} stores.
EmptyFrame == [fin |-> FALSE, opcode |-> 0, mask |-> FALSE,
               masking_key |-> <<0, 0, 0, 0>>, payload |-> NoPayload]

remaining(q) == q.size - q.ptr

AtStage(q, stage, bytes) == q.stage = stage /\ remaining(q) >= bytes

\* The stage after the payload length is known.
AfterLength(q) == IF q.frame.mask THEN "MASKING_KEY" ELSE "PAYLOAD_DATA"

check_fin_bit(q) ==
  IF ~AtStage(q, "FIN_BIT", 1) THEN q
  ELSE [q EXCEPT !.frame.fin = q.buf[q.ptr + 1] >= 128, !.stage = "OPCODE"]

\* A bug: the reserved bits are not masked out of the opcode.
check_opcode_rsv(q) ==
  IF ~AtStage(q, "OPCODE", 1) THEN q
  ELSE [q EXCEPT !.frame.opcode = q.buf[q.ptr + 1] % 128,
                 !.ptr = q.ptr + 1, !.stage = "MASK_BIT"]

check_opcode(q) ==
  IF ~AtStage(q, "OPCODE", 1) THEN q
  ELSE [q EXCEPT !.frame.opcode = q.buf[q.ptr + 1] % 16,
                 !.ptr = q.ptr + 1, !.stage = "MASK_BIT"]

check_mask_bit(q) ==
  IF ~AtStage(q, "MASK_BIT", 1) THEN q
  ELSE [q EXCEPT !.frame.mask = q.buf[q.ptr + 1] >= 128, !.stage = "PAYLOAD_LEN"]

check_payload_len(q) ==
  LET len == q.buf[q.ptr + 1] % 128 IN
  IF ~AtStage(q, "PAYLOAD_LEN", 1) THEN q
  ELSE IF len = 126 THEN [q EXCEPT !.ptr = q.ptr + 1, !.stage = "EXTENDED_PAYLOAD_LEN_16"]
  ELSE IF len = 127 THEN [q EXCEPT !.ptr = q.ptr + 1, !.stage = "EXTENDED_PAYLOAD_LEN_64"]
  ELSE [q EXCEPT !.ptr = q.ptr + 1, !.len = len, !.stage = AfterLength(q)]

check_extended_payload_len_16(q) ==
  IF ~AtStage(q, "EXTENDED_PAYLOAD_LEN_16", 2) THEN q
  ELSE [q EXCEPT !.len = 256 * q.buf[q.ptr + 1] + q.buf[q.ptr + 2],
                 !.ptr = q.ptr + 2, !.stage = AfterLength(q)]

\* consume() << 8 * i shifts a 32-bit int, by 32 to 56 bits for the first four
\* bytes: undefined whatever the bytes are, so u stands for what any length in
\* this form leaves in m_payload_len.
check_extended_payload_len_64(q, u) ==
  IF ~AtStage(q, "EXTENDED_PAYLOAD_LEN_64", 8) THEN q
  ELSE [q EXCEPT !.len = u, !.ptr = q.ptr + 8, !.stage = AfterLength(q)]

check_masking_key(q) ==
  IF ~AtStage(q, "MASKING_KEY", 4) THEN q
  ELSE [q EXCEPT !.frame.masking_key = [i \in 1 .. 4 |-> q.buf[q.ptr + i]],
                 !.ptr = q.ptr + 4, !.stage = "PAYLOAD_DATA"]

check_payload_data(q) ==
  IF ~AtStage(q, "PAYLOAD_DATA", q.len) THEN q
  ELSE IF q.len = 0 THEN [q EXCEPT !.stage = "DONE"]
  ELSE [q EXCEPT !.frame.payload = [off |-> q.ptr, len |-> q.len],
                 !.ptr = q.ptr + q.len, !.stage = "DONE"]

parse(q, u) ==
  check_payload_data(check_masking_key(check_extended_payload_len_64(
    check_extended_payload_len_16(check_payload_len(check_mask_bit(
      check_opcode(check_fin_bit(q))))), u)))

done(q) == q.stage = "DONE"

\* A bug: no memmove.
unmoved(q) == q.buf

\* The bytes behind the finished frame are moved to the front.
moved(q) ==
  [i \in 1 .. Len(q.buf) |-> IF i <= remaining(q) THEN q.buf[q.ptr + i] ELSE q.buf[i]]

\* Bugs: m_ptr is not set back, the last frame is kept, or its bytes are.
reset_kept_ptr(q) ==
  [q EXCEPT !.buf = moved(q), !.size = remaining(q), !.stage = "FIN_BIT"]
reset_kept_frame(q) ==
  [q EXCEPT !.buf = moved(q), !.size = remaining(q), !.ptr = 0, !.stage = "FIN_BIT"]
reset_kept_bytes(q) ==
  [q EXCEPT !.frame = EmptyFrame, !.len = 0, !.stage = "FIN_BIT"]

\* Drop the finished frame.
reset(q) ==
  [buf |-> moved(q), size |-> remaining(q), ptr |-> 0, frame |-> EmptyFrame, len |-> 0,
   stage |-> "FIN_BIT"]

\* A bug: the buffer is not cleared.
clear_kept_bytes(q) ==
  [q EXCEPT !.ptr = 0, !.frame = EmptyFrame, !.len = 0, !.stage = "FIN_BIT"]

clear(q) ==
  [q EXCEPT !.size = 0, !.ptr = 0, !.frame = EmptyFrame, !.len = 0, !.stage = "FIN_BIT"]

reset_if_done(q) == IF done(q) THEN reset(q) ELSE q

\* A bug: without new bytes the buffer is not looked at.
update_flag_lazy(q, new_data, u) ==
  LET r == reset_if_done(q) IN
  IF ~new_data \/ remaining(r) = 0 THEN r ELSE parse(r, u)

\* update(bool new_data), after read_into has put the bytes into the buffer.
\* The call returns a frame exactly when the state it leaves is done.
update_flag(q, new_data, u) ==
  LET r == reset_if_done(q) IN
  IF (~new_data /\ r.stage # "FIN_BIT") \/ remaining(r) = 0 THEN r ELSE parse(r, u)

\* update(std::string_view): reset first, then push_back the view.
update_view(q, bytes, u) ==
  LET r == reset_if_done(q)
      s == IF bytes = << >> THEN r
           ELSE append_bytes(ensure_extra_space(r, Len(bytes)), bytes)
  IN IF (bytes = << >> /\ s.stage # "FIN_BIT") \/ remaining(s) = 0 THEN s ELSE parse(s, u)

\* The frame update() returned, its payload copied out of the buffer.
FrameOf(q) ==
  [fin |-> q.frame.fin, opcode |-> q.frame.opcode, mask |-> q.frame.mask,
   masking_key |-> IF q.frame.mask THEN q.frame.masking_key ELSE << >>,
   payload |-> SubSeq(q.buf, q.frame.payload.off + 1,
                      q.frame.payload.off + q.frame.payload.len)]

\* The same record for a frame of the wire.
Content(f) ==
  [fin |-> f.fin, opcode |-> f.opcode, mask |-> f.mask,
   masking_key |-> IF f.mask THEN f.masking_key ELSE << >>, payload |-> f.payload]
----------------------------------------------------------------------------
ViewType  == [off : Nat, len : Nat]
FrameType == [fin : BOOLEAN, opcode : 0 .. 15, mask : BOOLEAN,
              masking_key : [1 .. 4 -> Byte], payload : ViewType]
ParserType == [buf : Seq(Byte), size : Nat, ptr : Nat, len : Nat,
               stage : Stage, frame : FrameType]
=============================================================================
