---------------------------- MODULE FrameFactory ----------------------------
(***************************************************************************)
(* wsframe::FrameFactory: the frames the client sends.  The factory has    *)
(* one output buffer, which every frame is built in and returned as a view *)
(* of, and a cache of random bytes for the masking keys, refilled from the *)
(* generator when it is used up.  Frame::construct writes into the buffer  *)
(* without looking at its capacity.                                        *)
(***************************************************************************)
EXTENDS WsFrame, XorShift

CONSTANTS
  Payloads,    \* the payloads that are sent
  Lengths,     \* lengths the decoder is tried with
  InitCap,     \* FrameFactory(initial_capacity), 4096 in the code
  Entries,     \* masking keys in the cache, 8 in the code
  Seeds,       \* pairs of words device_random may give the generator
  XorByte(_, _),   \* a ^ b of two bytes
  MaxFrames    \* bound: frames and refills

\* The longest payload considered: TLC's integers have 32 bits.
MaxLen == 2147483647

\* The longest payload whose length FrameParser decodes without undefined shifts.
MaxLen16 == 65535

ASSUME FactoryAssumption ==
  /\ \A s \in Payloads : s \in Seq(Byte) /\ Len(s) <= MaxLen
  /\ Lengths \subseteq 0 .. MaxLen
  /\ InitCap \in Nat /\ Entries \in Nat \ {0} /\ MaxFrames \in Nat
  /\ Seeds \subseteq Word \X Word
ASSUME XorAssumption ==
  \A a, b \in Byte : XorByte(a, b) \in Byte /\ XorByte(XorByte(a, b), b) = a

VARIABLES
  out,         \* m_buf
  m_random, cache, m_cache_ptr,   \* the RandomCache and its generator
  request,     \* history: what the last frame was made from; key is its masking key
  made,        \* history: calls and fills, bounded by MaxFrames
  fill,        \* history: how often the cache was filled
  drawn        \* history: where each key came from: fill and position

vars == <<out, m_random, cache, m_cache_ptr, request, made, fill, drawn>>
----------------------------------------------------------------------------
NoKey == <<0, 0, 0, 0>>

\* A bug: 65536 is written as a length of two bytes.
construct_length_64k(mask_bit, n) ==
  IF n < 126 THEN <<mask_bit + n>>
  ELSE IF n <= 65536 THEN <<mask_bit + 126>> \o BigEndian2(n % 65536)
  ELSE <<mask_bit + 127>> \o BigEndian8(n)

\* The mask bit and the length, n bytes of payload.
construct_length(mask_bit, n) ==
  IF n < 126 THEN <<mask_bit + n>>
  ELSE IF n <= 65535 THEN <<mask_bit + 126>> \o BigEndian2(n)
  ELSE <<mask_bit + 127>> \o BigEndian8(n)

\* A bug: the key is one byte ahead of the payload.
masked_ahead(payload, key) ==
  [i \in 1 .. Len(payload) |-> XorByte(payload[i], key[(i % 4) + 1])]

masked(payload, key) ==
  [i \in 1 .. Len(payload) |-> XorByte(payload[i], key[((i - 1) % 4) + 1])]

\* A bug: room for the payload only.
Room_payload(n) == n

\* Room for the longest header and a slack of 100 bytes.
Room(n) == n + 14 + 100

\* Frame::construct(m_buf) for the frame f: what it writes, from the front of the
\* buffer on.  Bytes beyond the vector would go to memory that is not its own.
construct(q, f) ==
  LET frame == <<Bit(f.fin) + f.opcode>> \o construct_length(Bit(f.mask), Len(f.payload))
                 \o (IF f.mask THEN f.key \o masked(f.payload, f.key) ELSE f.payload)
      buf   == ensure_fit(q.buf, Room(Len(f.payload)))
  IN [buf  |-> SubSeq(frame \o SubSeq(buf, Len(frame) + 1, Len(buf)), 1, Len(buf)),
      size |-> Len(frame)]
----------------------------------------------------------------------------
\* What fill_cache() makes of the generator g.
Fill(g) == fill_bytes(g, 4 * Entries)

Init ==
  /\ out = [buf |-> [i \in 1 .. InitCap |-> 0], size |-> 0]
  /\ \E seed \in Seeds : LET filled == Fill(seeded(seed[1], seed[2])) IN
       m_random = filled.state /\ cache = filled.bytes
  /\ m_cache_ptr = 0
  /\ request = << >> /\ made = 0 /\ fill = 1 /\ drawn = << >>

fill_cache == m_random' = Fill(m_random).state /\ cache' = Fill(m_random).bytes /\ fill' = fill + 1

\* RandomCache::get fills the cache first when no key is left.
Spent == m_cache_ptr >= 4 * Entries

Filled == IF Spent THEN fill_cache ELSE UNCHANGED <<m_random, cache, fill>>

\* Bugs: m_cache_ptr is not advanced, or by four words instead of bytes.
Advanced_not(at) == at
Advanced_words(at) == at + 16

Advanced(at) == at + 4

Position == IF Spent THEN 0 ELSE m_cache_ptr

\* construct(fin, opcode, mask, payload)
Construct(fin, opcode, mask, payload) ==
  LET key == IF mask THEN [i \in 1 .. 4 |-> cache'[Position + i]] ELSE NoKey
      f   == [fin |-> fin, opcode |-> opcode, mask |-> mask, key |-> key, payload |-> payload]
  IN
  /\ made < MaxFrames /\ made' = made + 1
  /\ IF mask THEN /\ Filled
                  /\ m_cache_ptr' = Advanced(Position)
                  /\ drawn' = Append(drawn, [fill |-> fill', at |-> Position])
     ELSE UNCHANGED <<m_random, cache, fill, m_cache_ptr, drawn>>
  /\ out' = construct(out, f)
  /\ request' = f

text(fin, mask, payload)   == Construct(fin, 1, mask, payload)
binary(fin, mask, payload) == Construct(fin, 2, mask, payload)

\* ping, pong and close throw when the payload is longer.
Short(payload) == Len(payload) <= 125

close(mask, payload) == Short(payload) /\ Construct(TRUE, 8, mask, payload)
ping(mask, payload)  == Short(payload) /\ Construct(TRUE, 9, mask, payload)
pong(mask, payload)  == Short(payload) /\ Construct(TRUE, 10, mask, payload)

fill_random_cache ==
  /\ made < MaxFrames /\ made' = made + 1
  /\ fill_cache /\ m_cache_ptr' = 0
  /\ UNCHANGED <<out, request, drawn>>

Next ==
  \/ \E payload \in Payloads, mask \in BOOLEAN :
       \/ \E fin \in BOOLEAN : text(fin, mask, payload) \/ binary(fin, mask, payload)
       \/ ping(mask, payload) \/ pong(mask, payload) \/ close(mask, payload)
  \/ fill_random_cache

Spec == Init /\ [][Next]_vars
----------------------------------------------------------------------------
\* Every variable has its type.
TypeOK ==
  /\ out \in [buf : Seq(Byte), size : Nat]
  /\ cache \in [1 .. 4 * Entries -> Byte] /\ m_cache_ptr \in 0 .. 4 * Entries
  /\ made \in 0 .. MaxFrames /\ fill \in Nat \ {0}
  /\ drawn \in Seq([fill : Nat \ {0}, at : Nat])

\* The unchecked writes of a frame stay inside the buffer, also when a long frame
\* follows a short one or the buffer was left large by an earlier frame.
EncodedInBounds == out.size <= Len(out.buf)

\* A parser that has not seen anything yet, over the first n bytes of buf.
Fresh(buf, n) == [buf |-> buf, size |-> n, ptr |-> 0, len |-> 0, stage |-> "FIN_BIT",
                  frame |-> EmptyFrame]

\* What RFC 6455, section 5.3, makes of a masked payload s.
Unmasked(s, key) == [i \in DOMAIN s |-> XorByte(s[i], key[((i - 1) % 4) + 1])]

\* FrameParser reads the frame back as it was requested and consumes every byte
\* of it, with nothing of an earlier frame left in the buffer, unless its length
\* needs the 64-bit form, which the parser decodes by undefined shifts.
DecodesToRequest ==
  request = << >> \/ Len(request.payload) > MaxLen16 \/
    LET q == parse(Fresh(out.buf, out.size), 0)
        f == FrameOf(q)
    IN /\ done(q) /\ remaining(q) = 0
       /\ f.fin = request.fin /\ f.opcode = request.opcode /\ f.mask = request.mask
       /\ request.payload = IF f.mask THEN Unmasked(f.payload, f.masking_key) ELSE f.payload

\* The stage of a parser that has read a header and nothing behind it.
AfterHeader(mask, n) ==
  IF mask THEN "MASKING_KEY" ELSE IF n = 0 THEN "DONE" ELSE "PAYLOAD_DATA"

\* The header h announces n bytes of payload in the shortest form RFC 6455,
\* section 5.2, allows.
Announces(h, mask, n) ==
  LET code == h[2] - Bit(mask) IN
  \/ n <= 125 /\ Len(h) = 2 /\ code = n
  \/ n > 125 /\ n <= MaxLen16 /\ Len(h) = 4 /\ code = 126 /\ n = 256 * h[3] + h[4]
  \/ /\ n > MaxLen16 /\ Len(h) = 10 /\ code = 127
     /\ \A i \in 3 .. 6 : h[i] = 0
     /\ n = 16777216 * h[7] + 65536 * h[8] + 256 * h[9] + h[10]

\* Every length is written as the RFC asks, also of payloads too long to be sent
\* here, and FrameParser reads it back from the two forms whose decoding is
\* defined: the last length before and the first behind each boundary, whatever
\* an earlier frame left in the buffer behind the header.
LengthsDecode ==
  \A n \in Lengths, mask \in BOOLEAN :
    LET h == <<129>> \o construct_length(Bit(mask), n)
        q == parse(Fresh(h \o SubSeq(out.buf, Len(h) + 1, Len(out.buf)), Len(h)), 0)
    IN /\ Announces(h, mask, n)
       /\ n <= MaxLen16 => q.len = n /\ remaining(q) = 0 /\ q.stage = AfterHeader(mask, n)

\* A masking key is drawn from inside the cache, and no byte of it was part of
\* an earlier key of the same fill.
KeysAreFresh ==
  \A i \in DOMAIN drawn :
    /\ drawn[i].at + 4 <= 4 * Entries
    /\ \A j \in 1 .. i - 1 :
         drawn[j].fill = drawn[i].fill => drawn[j].at + 4 <= drawn[i].at

\* The generator never reaches the state of two zero words, which it would not
\* leave any more: every later masking key would be zero.  Its constructor keeps
\* the seeds from being both zero, and no step of next64() leads there.
GeneratorAlive == m_random \in Alive
=============================================================================
