-------------------------- MODULE FrameDecodeProofs --------------------------
(***************************************************************************)
(* The parser decodes: for every set of frames, however their bytes are    *)
(* cut into reads, update() returns the frames the server sent, unchanged, *)
(* in order and as soon as they are complete, up to the first length in    *)
(* the 64-bit form, and so implements the abstract stream of FrameStream.  *)
(***************************************************************************)
EXTENDS FrameParserProofs

\* The offsets in ends cut the stream into the frames that were sent.
Framed ==
  /\ Len(ends) = Len(sent) /\ EndOf(Len(sent)) = Len(wire)
  /\ \A k \in 1 .. Len(sent) :
       /\ EndOf(k) = EndOf(k - 1) + WireLen(sent[k])
       /\ \A i \in 1 .. WireLen(sent[k]) : wire[EndOf(k - 1) + i] = Encode(sent[k])[i]
  /\ \A k \in 0 .. Len(sent) : EndOf(k) \in 0 .. Len(wire)
  /\ \A j, k \in 0 .. Len(sent) : j < k => EndOf(j) < EndOf(k)

\* With r bytes read, the buffer of q starts with frame k and q is decoding it; a
\* frame that has not been sent yet has not been begun either.
AtFrame(q, r, k) ==
  /\ k \in 1 .. Len(sent) + 1 /\ r - q.size = EndOf(k - 1)
  /\ k <= Len(sent) => Decoding(q, sent[k])
  /\ k = Len(sent) + 1 => q.stage = "FIN_BIT" /\ q.ptr = 0 /\ q.frame.payload = NoPayload

\* Not all bytes of frame k are there.
Waiting(q, k) == k <= Len(sent) => q.size < WireLen(sent[k])

\* With r bytes read, frame k does not have all bytes of a 64-bit length yet.
Defined(r, k) == ~(k <= Len(sent) /\ sent[k].ext = 8 /\ EndOf(k - 1) + 10 <= r)

\* Where the parser stands while the framing is kept: it has just returned frame
\* nxt - 1, or it is at frame nxt and waits for the rest of it.
InStep == IF done(p) THEN AtFrame(p, rd, nxt - 1) ELSE AtFrame(p, rd, nxt) /\ Waiting(p, nxt)

\* What has been returned, and the frames it came from.
History ==
  /\ delivered \in Seq({FrameOf(q) : q \in ParserType})
  /\ DeliveredInOrder
  /\ aligned => \A i \in DOMAIN origin : origin[i] < nxt

DInv == Inv /\ Framed /\ (aligned => InStep) /\ History
----------------------------------------------------------------------------
(* The parser in the stream.                                               *)

\* While a frame is at the front of the buffer, the claimed bytes are its bytes.
LEMMA FrameInBuffer ==
  ASSUME Framed, TypeOK, NEW q, NEW r \in 0 .. Len(wire), Holds(q, wire, r),
         NEW k \in 1 .. Len(sent), AtFrame(q, r, k)
  PROVE  Prefix(q, sent[k])
<1> SUFFICES ASSUME NEW i \in 1 .. q.size, i <= WireLen(sent[k])
             PROVE  q.buf[i] = Encode(sent[k])[i]
  BY DEF Prefix
<1>1. sent[k] \in WireFrames BY DEF TypeOK
<1>2. WireLen(sent[k]) \in Nat /\ q.size \in Nat
  BY <1>1, SentFrames, HeaderLenType, SoundFields DEF Holds
<1>3. q.buf[i] = wire[r - q.size + i] BY DEF Holds
<1>4. r - q.size = EndOf(k - 1) BY DEF AtFrame
<1>5. i \in 1 .. WireLen(sent[k]) BY <1>2
<1>6. wire[EndOf(k - 1) + i] = Encode(sent[k])[i] BY <1>5 DEF Framed
<1> QED BY <1>3, <1>4, <1>6

\* The parser is at the next frame once it has dropped the finished one.
LEMMA ResetAtFrame ==
  ASSUME Framed, TypeOK, NEW q, Sound(q), NEW r \in Nat, NEW k, AtFrame(q, r, k), done(q)
  PROVE  AtFrame(reset(q), r, k + 1) /\ ~done(reset(q)) /\ reset(q).ptr = 0
<1>1. Len(sent) \in Nat /\ k \in 1 .. Len(sent) BY DEF AtFrame, done, TypeOK
<1>2. sent[k] \in WireFrames BY <1>1 DEF TypeOK
<1>3. PICK w \in Nat : w = WireLen(sent[k]) BY <1>2, SentFrames, HeaderLenType
<1>4. q.ptr = w BY <1>1, <1>3 DEF AtFrame, Decoding, done
<1>5. EndOf(k) = EndOf(k - 1) + w /\ EndOf(k) \in Nat /\ EndOf(k - 1) \in Nat
  <2>1. k - 1 \in 0 .. Len(sent) /\ k \in 0 .. Len(sent) BY <1>1
  <2> QED BY <1>1, <1>3, <2>1 DEF Framed
<1> DEFINE x == reset(q)
<1>6. /\ x.size = q.size - q.ptr /\ x.ptr = 0 /\ x.stage = "FIN_BIT"
      /\ x.frame.payload = NoPayload
  BY DEF reset, remaining, EmptyFrame
<1> HIDE DEF x
<1>7. r - x.size = EndOf(k)
  <2>1. r - q.size = EndOf(k - 1) BY DEF AtFrame
  <2>2. q.size \in Nat BY SoundFields
  <2> QED BY <1>4, <1>5, <1>6, <2>1, <2>2
<1>8. (k + 1) - 1 = k /\ k + 1 \in 1 .. Len(sent) + 1 BY <1>1
<1>9. \A f : Decoding(x, f) BY <1>6 DEF Decoding
<1>10. AtFrame(x, r, k + 1) BY <1>6, <1>7, <1>8, <1>9 DEF AtFrame
<1> QED BY <1>6, <1>10 DEF x, done

\* More bytes behind the claimed ones do not move the parser.
LEMMA MoreAtFrame ==
  ASSUME NEW q, Sound(q), NEW r \in Nat, NEW n \in Nat, NEW k, AtFrame(q, r, k), NEW x,
         x.size = q.size + n, x.ptr = q.ptr, x.stage = q.stage, x.frame = q.frame,
         x.len = q.len
  PROVE  AtFrame(x, r + n, k)
<1>1. (r + n) - x.size = r - q.size BY SoundFields
<1>2. \A f : Decoding(q, f) => Decoding(x, f) BY DEF Decoding
<1> QED BY <1>1, <1>2 DEF AtFrame

\* parse() stays at the frame, and finishes it when it is all there.
LEMMA ParseAtFrame ==
  ASSUME Framed, TypeOK, NEW q, NEW r \in 0 .. Len(wire), Holds(q, wire, r), NEW k,
         AtFrame(q, r, k), remaining(q) # 0, NEW u \in Nat, Defined(r, k)
  PROVE  /\ AtFrame(parse(q, u), r, k)
         /\ done(parse(q, u)) \/ Waiting(parse(q, u), k)
<1>1. Sound(q) /\ q.size \in Nat /\ q.ptr \in Nat /\ q.ptr <= q.size
  BY SoundFields DEF Holds
<1>2. Len(wire) \in Nat /\ Len(sent) \in Nat BY DEF TypeOK
<1>3. k # Len(sent) + 1
  <2> SUFFICES ASSUME k = Len(sent) + 1 PROVE FALSE
    OBVIOUS
  <2>1. k - 1 = Len(sent) /\ q.ptr = 0 BY <1>2 DEF AtFrame
  <2>2. r - q.size = Len(wire) BY <2>1 DEF AtFrame, Framed
  <2>3. q.size = 0 BY <1>1, <1>2, <2>2
  <2> QED BY <2>1, <2>3 DEF remaining
<1>4. k \in 1 .. Len(sent) BY <1>2, <1>3 DEF AtFrame
<1>5. sent[k] \in WireFrames BY <1>4 DEF TypeOK
<1>6. Prefix(q, sent[k]) BY <1>4, FrameInBuffer
<1>7. Decoding(q, sent[k]) BY <1>2, <1>4 DEF AtFrame
<1> DEFINE x == parse(q, u)
<1>8. Decoding(x, sent[k]) /\ (done(x) \/ q.size < WireLen(sent[k]))
  <2>1. Undecoded(q, sent[k])
    <3> SUFFICES ASSUME sent[k].ext = 8 PROVE q.size < 10
      BY DEF Undecoded
    <3>1. EndOf(k - 1) \in Nat
      <4>1. k - 1 \in 0 .. Len(sent) BY <1>2, <1>4
      <4> QED BY <4>1 DEF Framed
    <3>2. r - q.size = EndOf(k - 1) BY DEF AtFrame
    <3>3. ~(EndOf(k - 1) + 10 <= r) BY <1>2, <1>4 DEF Defined
    <3> QED BY <1>1, <1>2, <3>1, <3>2, <3>3
  <2> QED BY <1>1, <1>5, <1>6, <1>7, <2>1, SentFrames, ParseDecodes
<1>9. x.size = q.size BY <1>1, ParseKeeps DEF Keeps
<1> HIDE DEF x
<1>10. AtFrame(x, r, k) BY <1>3, <1>8, <1>9 DEF AtFrame
<1> QED BY <1>8, <1>9, <1>10 DEF Waiting, x

\* An update starts at the frame that comes next.
LEMMA ResetIfDoneAtFrame ==
  ASSUME Framed, TypeOK, NEW q, Sound(q), NEW r \in Nat, NEW k \in Nat,
         IF done(q) THEN AtFrame(q, r, k - 1) ELSE AtFrame(q, r, k)
  PROVE  AtFrame(reset_if_done(q), r, k) /\ ~done(reset_if_done(q))
<1>1. CASE done(q)
  <2>1. (k - 1) + 1 = k OBVIOUS
  <2>2. AtFrame(reset(q), r, (k - 1) + 1) /\ ~done(reset(q)) BY <1>1, ResetAtFrame
  <2> QED BY <1>1, <2>1, <2>2 DEF reset_if_done
<1>2. CASE ~done(q) BY <1>2 DEF reset_if_done
<1> QED BY <1>1, <1>2

\* What an update leaves when it started from q, which has returned frame k - 1 or is
\* at frame k, and either new bytes came or those of frame k are not all there.
LEMMA UpdateFlagAtFrame ==
  ASSUME Framed, TypeOK, NEW q, NEW r \in 0 .. Len(wire), Holds(q, wire, r), NEW k \in Nat,
         IF done(q) THEN AtFrame(q, r, k - 1) ELSE AtFrame(q, r, k),
         NEW flag \in BOOLEAN, NEW u \in Nat,
         done(q) \/ Waiting(q, k) \/ (flag /\ remaining(q) # 0), Defined(r, k)
  PROVE  LET x == update_flag(q, flag, u)
         IN  AtFrame(x, r, k) /\ (done(x) \/ Waiting(x, k))
<1> DEFINE z == reset_if_done(q)
           x == update_flag(q, flag, u)
<1>1. r \in Nat /\ Sound(q) /\ Len(sent) \in Nat BY DEF TypeOK, Holds
<1>2. Holds(z, wire, r) BY <1>1, ResetIfDoneHolds
<1>3. AtFrame(z, r, k) /\ ~done(z) BY <1>1, ResetIfDoneAtFrame
<1>4. done(q) => z.ptr = 0 /\ z.stage = "FIN_BIT" BY DEF reset_if_done, reset
<1>5. ~done(q) => z = q BY DEF reset_if_done
<1>6. x = IF (~flag /\ z.stage # "FIN_BIT") \/ remaining(z) = 0 THEN z ELSE parse(z, u)
  BY DEF update_flag
<1> HIDE DEF z, x
<1>7. CASE remaining(z) = 0
  <2>1. x = z BY <1>6, <1>7
  <2>2. Waiting(z, k)
    <3>1. CASE done(q)
      <4>1. z.size = 0
        <5>1. z.size \in Nat BY <1>2, SoundFields DEF Holds
        <5> QED BY <1>4, <1>7, <3>1, <5>1 DEF remaining
      <4>2. k <= Len(sent) => WireLen(sent[k]) \in Nat /\ WireLen(sent[k]) >= 2
        <5> SUFFICES ASSUME k <= Len(sent)
                     PROVE  WireLen(sent[k]) \in Nat /\ WireLen(sent[k]) >= 2
          OBVIOUS
        <5>1. k \in 1 .. Len(sent) BY <1>1, <1>3 DEF AtFrame
        <5> QED BY <5>1, SentFrames, HeaderLenType DEF TypeOK
      <4> QED BY <4>1, <4>2 DEF Waiting
    <3>2. CASE ~done(q) BY <1>5, <1>7, <3>2
    <3> QED BY <3>1, <3>2
  <2> QED BY <1>3, <2>1, <2>2 DEF x
<1>8. CASE remaining(z) # 0 /\ ~flag /\ z.stage # "FIN_BIT"
  <2>1. ~done(q) /\ x = z BY <1>4, <1>6, <1>8
  <2>2. Waiting(z, k) BY <1>5, <1>8, <2>1
  <2> QED BY <1>3, <2>1, <2>2 DEF x
<1>9. CASE remaining(z) # 0 /\ ~(~flag /\ z.stage # "FIN_BIT")
  <2>1. x = parse(z, u) BY <1>6, <1>9
  <2> QED BY <1>2, <1>3, <1>9, <2>1, ParseAtFrame DEF x
<1> QED BY <1>7, <1>8, <1>9


\* Growing the buffer and appending to it change nothing but buffer and size.
LEMMA SpaceFields ==
  ASSUME NEW q, Sound(q), NEW m
  PROVE  LET x == ensure_extra_space(q, m)
         IN  /\ x.size = q.size /\ x.ptr = q.ptr /\ x.stage = q.stage
             /\ x.frame = q.frame /\ x.len = q.len
BY DEF ensure_extra_space, Sound, ParserType

\* The same for the bytes behind the claimed ones.
LEMMA AppendFields ==
  ASSUME NEW q, Sound(q), NEW bytes
  PROVE  LET x == append_bytes(q, bytes)
         IN  /\ x.size = q.size + Len(bytes) /\ x.ptr = q.ptr /\ x.stage = q.stage
             /\ x.frame = q.frame /\ x.len = q.len
BY DEF append_bytes, Sound, ParserType

\* n more bytes of the stream in the buffer: the parser is where it was.
LEMMA AppendAtFrame ==
  ASSUME NEW q, NEW r \in Nat, Holds(q, wire, r), wire \in Seq(Byte), NEW n \in Nat,
         r + n <= Len(wire), NEW m \in Nat, n <= m
  PROVE  LET x == append_bytes(ensure_extra_space(q, m), SubSeq(wire, r + 1, r + n))
         IN  /\ Holds(x, wire, r + n) /\ x.size = q.size + n /\ x.ptr = q.ptr
             /\ x.stage = q.stage
             /\ \A k : AtFrame(q, r, k) => AtFrame(x, r + n, k)
<1> DEFINE bytes == SubSeq(wire, r + 1, r + n)
           y == ensure_extra_space(q, m)
           x == append_bytes(y, bytes)
<1>1. Sound(q) /\ q.size \in Nat BY SoundFields DEF Holds
<1>2. Len(bytes) = n OBVIOUS
<1> HIDE DEF bytes
<1>3. Holds(y, wire, r) /\ Len(y.buf) >= q.size + m BY ExtraSpaceHolds
<1>4. /\ y.size = q.size /\ y.ptr = q.ptr /\ y.stage = q.stage
      /\ y.frame = q.frame /\ y.len = q.len
  BY <1>1, SpaceFields
<1> HIDE DEF y
<1>5. Sound(y) BY <1>3 DEF Holds
<1>6. Len(y.buf) >= y.size + n
  <2>1. Len(y.buf) \in Nat BY <1>5, SoundFields
  <2> QED BY <1>1, <1>3, <1>4, <2>1
<1>7. Holds(x, wire, r + n) BY <1>3, <1>6, AppendHolds DEF bytes
<1>8. /\ x.size = q.size + n /\ x.ptr = q.ptr /\ x.stage = q.stage
      /\ x.frame = q.frame /\ x.len = q.len
  <2>1. /\ x.size = y.size + Len(bytes) /\ x.ptr = y.ptr /\ x.stage = y.stage
        /\ x.frame = y.frame /\ x.len = y.len
    BY <1>5, AppendFields
  <2> QED BY <1>2, <1>4, <2>1
<1> HIDE DEF x
<1>9. \A k : AtFrame(q, r, k) => AtFrame(x, r + n, k) BY <1>1, <1>8, MoreAtFrame
<1> QED BY <1>7, <1>8, <1>9 DEF x, y, bytes

\* update(string_view) with n bytes of the stream.
LEMMA UpdateViewAtFrame ==
  ASSUME Framed, TypeOK, NEW q, NEW r \in Nat, Holds(q, wire, r), NEW n \in Nat,
         r + n <= Len(wire), NEW k \in Nat,
         IF done(q) THEN AtFrame(q, r, k - 1) ELSE AtFrame(q, r, k) /\ Waiting(q, k),
         NEW u \in Nat, Defined(r + n, k)
  PROVE  LET x == update_view(q, SubSeq(wire, r + 1, r + n), u)
         IN  AtFrame(x, r + n, k) /\ (done(x) \/ Waiting(x, k))
<1> DEFINE bytes == SubSeq(wire, r + 1, r + n)
           z == reset_if_done(q)
           s == append_bytes(ensure_extra_space(z, Len(bytes)), bytes)
           x == update_view(q, bytes, u)
<1>0. wire \in Seq(Byte) /\ Sound(q) /\ Len(wire) \in Nat BY DEF TypeOK, Holds
<1>1. Len(bytes) = n BY <1>0
<1>2. CASE n = 0
  <2>1. bytes = << >> /\ r + n = r BY <1>0, <1>2
  <2>2. update_view(q, << >>, u) = update_flag(q, FALSE, u) BY DEF update_view, update_flag
  <2> DEFINE v == update_flag(q, FALSE, u)
  <2>3. AtFrame(v, r, k) /\ (done(v) \/ Waiting(v, k))
    <3>1. r \in 0 .. Len(wire) BY <1>0, <1>2
    <3>2. Defined(r, k) BY <2>1
    <3> QED BY <3>1, <3>2, UpdateFlagAtFrame
  <2> QED BY <2>1, <2>2, <2>3
<1>3. CASE n # 0
  <2>1. bytes # << >>
    <3> HIDE DEF bytes
    <3> QED BY <1>1, <1>3
  <2>2. Holds(z, wire, r) /\ AtFrame(z, r, k)
    BY <1>0, ResetIfDoneHolds, ResetIfDoneAtFrame
  <2>3. x = IF remaining(s) = 0 THEN s ELSE parse(s, u)
    <3> HIDE DEF bytes
    <3> QED BY <2>1 DEF update_view
  <2> HIDE DEF z
  <2>4. s = append_bytes(ensure_extra_space(z, n), bytes) BY <1>1
  <2>5. /\ Holds(s, wire, r + n) /\ s.size = z.size + n /\ s.ptr = z.ptr
        /\ AtFrame(s, r + n, k)
    BY <1>0, <2>2, <2>4, AppendAtFrame
  <2> HIDE DEF s, x
  <2>6. remaining(s) # 0
    <3>1. z.ptr \in Nat /\ z.size \in Nat /\ z.ptr <= z.size
      BY <2>2, SoundFields DEF Holds
    <3>2. s.size - s.ptr = (z.size - z.ptr) + n BY <2>5, <3>1
    <3> QED BY <1>3, <3>1, <3>2 DEF remaining
  <2>7. x = parse(s, u) BY <2>3, <2>6
  <2>8. r + n \in 0 .. Len(wire) BY <1>0
  <2> QED BY <2>5, <2>6, <2>7, <2>8, ParseAtFrame DEF x, bytes
<1> QED BY <1>2, <1>3
----------------------------------------------------------------------------
(* The invariant.                                                          *)

\* A frame that an update returns has been sent, and is returned as it was sent.
LEMMA ReturnsFrame ==
  ASSUME Framed, TypeOK, NEW q, NEW r \in 0 .. Len(wire), Holds(q, wire, r), NEW k,
         AtFrame(q, r, k), done(q)
  PROVE  k \in 1 .. Len(sent) /\ FrameOf(q) = Content(sent[k])
<1>1. k \in 1 .. Len(sent) BY DEF AtFrame, done, TypeOK
<1>2. sent[k] \in WireFrames /\ Prefix(q, sent[k]) BY <1>1, FrameInBuffer DEF TypeOK
<1>3. Decoding(q, sent[k]) BY <1>1 DEF AtFrame, TypeOK
<1> QED BY <1>1, <1>2, <1>3, SentFrames, DoneDecodes DEF Holds

\* Each of the three ways to call update() is one update that leaves the parser at
\* frame nxt, finished or waiting for more of it.
LEMMA Updates ==
  ASSUME DInv,
         \/ \E u \in UndefLens, n \in 1 .. Chunk : PollData(n, u)
         \/ \E u \in UndefLens : PollEmpty(u)
         \/ \E u \in UndefLens, n \in 0 .. Chunk : CloseRead(n, u)
  PROVE  \E q : \E n \in Nat :
           /\ rd + n <= Len(wire) /\ Holds(q, wire, rd + n) /\ Updated(q, n)
           /\ aligned /\ ~DecodesLong(n)
                => AtFrame(q, rd + n, nxt) /\ (done(q) \/ Waiting(q, nxt))
<1>0. /\ Framed /\ TypeOK /\ Holds(p, wire, rd) /\ wire \in Seq(Byte) /\ rd \in Nat
      /\ rd <= Len(wire) /\ Len(wire) \in Nat /\ nxt \in Nat
      /\ aligned => IF done(p) THEN AtFrame(p, rd, nxt - 1)
                    ELSE AtFrame(p, rd, nxt) /\ Waiting(p, nxt)
  BY DEF DInv, Inv, TypeOK, InStep
<1>1. /\ p.ptr \in Nat /\ p.size \in Nat /\ p.ptr <= p.size
  BY <1>0, SoundFields DEF Holds
<1>2. ASSUME NEW u \in UndefLens, NEW n \in 1 .. Chunk, PollData(n, u)
      PROVE  \E q : \E m \in Nat :
               /\ rd + m <= Len(wire) /\ Holds(q, wire, rd + m) /\ Updated(q, m)
               /\ aligned /\ ~DecodesLong(m)
                    => AtFrame(q, rd + m, nxt) /\ (done(q) \/ Waiting(q, nxt))
  <2>1. u \in Nat /\ n \in Nat /\ n # 0 /\ n <= Chunk /\ Chunk \in Nat
    BY UndefAssumption, BoundAssumption
  <2>2. rd + n <= Len(wire) /\ rd + n \in 0 .. Len(wire) /\ rd + n \in Nat
    BY <1>0, <1>2, <2>1 DEF PollData
  <2> DEFINE x == read_into(p, Incoming(n))
             y == update_flag(x, TRUE, u)
  <2>3. /\ Holds(x, wire, rd + n) /\ x.size = p.size + n /\ x.ptr = p.ptr
        /\ x.stage = p.stage
        /\ \A k : AtFrame(p, rd, k) => AtFrame(x, rd + n, k)
    BY <1>0, <2>1, <2>2, AppendAtFrame DEF read_into, Incoming
  <2>4. Updated(y, n) BY <1>2 DEF PollData
  <2> HIDE DEF x
  <2>5. Holds(y, wire, rd + n) BY <2>1, <2>2, <2>3, UpdateFlagHolds
  <2>6. remaining(x) # 0 BY <1>1, <2>1, <2>3 DEF remaining
  <2>7. aligned /\ ~DecodesLong(n) => AtFrame(y, rd + n, nxt) /\ (done(y) \/ Waiting(y, nxt))
    <3> SUFFICES ASSUME aligned, Defined(rd + n, nxt)
                 PROVE  AtFrame(y, rd + n, nxt) /\ (done(y) \/ Waiting(y, nxt))
      BY DEF DecodesLong, Defined
    <3>1. IF done(x) THEN AtFrame(x, rd + n, nxt - 1) ELSE AtFrame(x, rd + n, nxt)
      BY <1>0, <2>3 DEF done
    <3> QED BY <1>0, <2>1, <2>2, <2>3, <2>6, <3>1, UpdateFlagAtFrame
  <2> HIDE DEF y
  <2> QED BY <2>1, <2>2, <2>4, <2>5, <2>7
<1>3. ASSUME NEW u \in UndefLens, PollEmpty(u)
      PROVE  \E q : \E m \in Nat :
               /\ rd + m <= Len(wire) /\ Holds(q, wire, rd + m) /\ Updated(q, m)
               /\ aligned /\ ~DecodesLong(m)
                    => AtFrame(q, rd + m, nxt) /\ (done(q) \/ Waiting(q, nxt))
  <2>1. u \in Nat /\ 0 <= Chunk /\ Chunk \in Nat BY UndefAssumption, BoundAssumption
  <2>2. rd + 0 = rd /\ rd + 0 <= Len(wire) /\ SubSeq(wire, rd + 1, rd + 0) = << >>
        /\ rd \in 0 .. Len(wire)
    BY <1>0
  <2> DEFINE x == read_into(p, << >>)
             y == update_flag(x, FALSE, u)
  <2>3. /\ Holds(x, wire, rd) /\ x.size = p.size /\ x.ptr = p.ptr
        /\ x.stage = p.stage
        /\ \A k : AtFrame(p, rd, k) => AtFrame(x, rd, k)
    <3> DEFINE v == append_bytes(ensure_extra_space(p, Chunk), SubSeq(wire, rd + 1, rd + 0))
    <3>1. /\ Holds(v, wire, rd + 0) /\ v.size = p.size + 0 /\ v.ptr = p.ptr
          /\ v.stage = p.stage
          /\ \A k : AtFrame(p, rd, k) => AtFrame(v, rd + 0, k)
      BY <1>0, <2>1, <2>2, AppendAtFrame
    <3>2. v = x BY <2>2 DEF read_into
    <3> HIDE DEF v, x
    <3> QED BY <1>1, <2>2, <3>1, <3>2
  <2>4. Updated(y, 0) BY <1>3 DEF PollEmpty
  <2> HIDE DEF x
  <2>5. Holds(y, wire, rd) BY <1>0, <2>1, <2>3, UpdateFlagHolds
  <2>6. aligned /\ ~DecodesLong(0) => AtFrame(y, rd, nxt) /\ (done(y) \/ Waiting(y, nxt))
    <3> SUFFICES ASSUME aligned, Defined(rd, nxt)
                 PROVE  AtFrame(y, rd, nxt) /\ (done(y) \/ Waiting(y, nxt))
      BY <2>2 DEF DecodesLong, Defined
    <3>1. IF done(x) THEN AtFrame(x, rd, nxt - 1) ELSE AtFrame(x, rd, nxt)
      BY <1>0, <2>3 DEF done
    <3>2. done(x) \/ Waiting(x, nxt) BY <1>0, <2>3 DEF done, Waiting
    <3> QED BY <1>0, <2>1, <2>2, <2>3, <3>1, <3>2, UpdateFlagAtFrame
  <2> HIDE DEF y
  <2>7. /\ rd + 0 <= Len(wire) /\ Holds(y, wire, rd + 0) /\ Updated(y, 0)
        /\ aligned /\ ~DecodesLong(0)
             => AtFrame(y, rd + 0, nxt) /\ (done(y) \/ Waiting(y, nxt))
    BY <2>2, <2>4, <2>5, <2>6
  <2> QED BY <2>7
<1>4. ASSUME NEW u \in UndefLens, NEW n \in 0 .. Chunk, CloseRead(n, u)
      PROVE  \E q : \E m \in Nat :
               /\ rd + m <= Len(wire) /\ Holds(q, wire, rd + m) /\ Updated(q, m)
               /\ aligned /\ ~DecodesLong(m)
                    => AtFrame(q, rd + m, nxt) /\ (done(q) \/ Waiting(q, nxt))
  <2>1. u \in Nat /\ n \in Nat BY UndefAssumption, BoundAssumption
  <2>2. rd + n <= Len(wire) BY <1>4 DEF CloseRead
  <2> DEFINE y == update_view(p, Incoming(n), u)
  <2>3. Holds(y, wire, rd + n) BY <1>0, <2>1, <2>2, UpdateViewHolds DEF Incoming
  <2>4. Updated(y, n) BY <1>4 DEF CloseRead
  <2>5. aligned /\ ~DecodesLong(n) => AtFrame(y, rd + n, nxt) /\ (done(y) \/ Waiting(y, nxt))
    <3>1. ~DecodesLong(n) => Defined(rd + n, nxt) BY DEF DecodesLong, Defined
    <3> QED BY <1>0, <2>1, <2>2, <3>1, UpdateViewAtFrame DEF Incoming
  <2> HIDE DEF y
  <2> QED BY <2>1, <2>2, <2>3, <2>4, <2>5
<1> QED BY <1>2, <1>3, <1>4

\* Such an update keeps the invariant.
LEMMA UpdatedDInv ==
  ASSUME DInv, NEW q, NEW n \in Nat, rd + n <= Len(wire), Holds(q, wire, rd + n),
         Updated(q, n),
         aligned /\ ~DecodesLong(n) => AtFrame(q, rd + n, nxt) /\ (done(q) \/ Waiting(q, nxt))
  PROVE  DInv'
<1>1. Inv' BY UpdatedInv DEF DInv
<1>2. /\ p' = q /\ rd' = rd + n /\ UNCHANGED <<wire, sent, ends>>
      /\ aligned' = (aligned /\ ~DecodesLong(n))
  BY DEF Updated
<1>3. Framed' BY <1>2 DEF DInv, Framed, EndOf
<1>4. /\ TypeOK /\ Framed /\ History /\ nxt \in Nat /\ origin \in Seq(Nat)
      /\ sent \in Seq(WireFrames) /\ rd + n \in 0 .. Len(wire)
      /\ delivered \in Seq({FrameOf(s) : s \in ParserType})
  BY DEF DInv, Inv, TypeOK, History
<1>5. aligned' => InStep'
  <2> SUFFICES ASSUME aligned' PROVE InStep'
    OBVIOUS
  <2>0. AtFrame(q, rd + n, nxt) /\ (done(q) \/ Waiting(q, nxt)) BY <1>2
  <2>1. CASE done(q)
    <3>1. nxt' = nxt + 1 BY <2>1 DEF Updated
    <3>2. nxt' - 1 = nxt BY <1>4, <3>1
    <3>3. AtFrame(p, rd, nxt - 1)' BY <1>2, <2>0, <3>2 DEF AtFrame, EndOf
    <3> QED BY <1>2, <2>1, <3>3 DEF InStep, done
  <2>2. CASE ~done(q)
    <3>1. nxt' = nxt BY <2>2 DEF Updated
    <3> QED BY <1>2, <2>0, <2>2, <3>1 DEF InStep, AtFrame, EndOf, Waiting, done
  <2> QED BY <2>1, <2>2
<1>6. History'
  <2>1. CASE ~done(q)
    <3>1. UNCHANGED <<delivered, origin, nxt>> BY <2>1 DEF Updated
    <3> QED BY <1>2, <1>4, <3>1 DEF History, DeliveredInOrder
  <2>2. CASE done(q)
    <3>1. delivered' = Append(delivered, FrameOf(q)) BY <2>2 DEF Updated
    <3>2. FrameOf(q) \in {FrameOf(s) : s \in ParserType} BY SoundFields DEF Holds
    <3>3. delivered' \in Seq({FrameOf(s) : s \in ParserType}) BY <1>4, <3>1, <3>2
    <3>4. /\ Len(delivered') = Len(delivered) + 1 /\ Len(delivered) \in Nat
          /\ \A i \in DOMAIN delivered : i \in DOMAIN delivered' /\ delivered'[i] = delivered[i]
          /\ delivered'[Len(delivered) + 1] = FrameOf(q)
          /\ DOMAIN delivered' = 1 .. Len(delivered) + 1
      BY <1>4, <3>1, <3>2
    <3>5. CASE ~aligned'
      <4>1. UNCHANGED <<origin, nxt>> BY <2>2, <3>5 DEF Updated
      <4> QED BY <1>2, <1>4, <3>3, <3>4, <3>5, <4>1 DEF History, DeliveredInOrder
    <3>6. CASE aligned'
      <4>0. aligned /\ ~DecodesLong(n) BY <1>2, <3>6
      <4>1. origin' = Append(origin, nxt) /\ nxt' = nxt + 1 BY <2>2, <3>6 DEF Updated
      <4>2. nxt \in 1 .. Len(sent) /\ FrameOf(q) = Content(sent[nxt])
        BY <1>4, <2>2, <4>0, ReturnsFrame
      <4>3. Len(origin) = Len(delivered) BY <1>4, <4>0 DEF History, DeliveredInOrder
      <4>4. /\ Len(origin') = Len(origin) + 1 /\ Len(origin) \in Nat
            /\ DOMAIN origin' = 1 .. Len(origin) + 1 /\ DOMAIN origin = 1 .. Len(origin)
            /\ \A i \in DOMAIN origin : origin'[i] = origin[i]
            /\ origin'[Len(origin) + 1] = nxt
        BY <1>4, <4>1
      <4>5. \A i \in DOMAIN origin : origin[i] < nxt /\ origin[i] \in Nat
        BY <1>4, <4>0 DEF History
      <4>6. ASSUME NEW i \in DOMAIN origin'
            PROVE  /\ i \in DOMAIN delivered' /\ origin'[i] \in DOMAIN sent'
                   /\ delivered'[i] = Content(sent'[origin'[i]])
                   /\ \A j \in 1 .. i - 1 : origin'[j] < origin'[i]
                   /\ origin'[i] < nxt'
        <5>1. CASE i \in DOMAIN origin
          <6>1. /\ i \in DOMAIN delivered /\ origin[i] \in DOMAIN sent
                /\ delivered[i] = Content(sent[origin[i]])
                /\ \A j \in 1 .. i - 1 : origin[j] < origin[i]
            BY <1>4, <5>1 DEF History, DeliveredInOrder
          <6>2. \A j \in 1 .. i - 1 : j \in DOMAIN origin BY <4>4, <5>1
          <6>3. origin'[i] < nxt' BY <1>4, <4>1, <4>4, <4>5, <5>1
          <6> QED BY <1>2, <3>4, <4>4, <5>1, <6>1, <6>2, <6>3
        <5>2. CASE i = Len(origin) + 1
          <6>1. origin'[i] = nxt BY <4>4, <5>2
          <6>2. \A j \in 1 .. i - 1 : j \in DOMAIN origin BY <4>4, <5>2
          <6>3. \A j \in 1 .. i - 1 : origin'[j] < origin'[i] BY <4>4, <4>5, <6>1, <6>2
          <6>4. i \in DOMAIN delivered' /\ delivered'[i] = FrameOf(q)
            BY <3>4, <4>3, <5>2
          <6>5. nxt \in DOMAIN sent' BY <1>2, <1>4, <4>2
          <6>6. origin'[i] < nxt' BY <1>4, <4>1, <6>1
          <6> QED BY <1>2, <4>2, <6>1, <6>3, <6>4, <6>5, <6>6
        <5> QED BY <4>4, <5>1, <5>2
      <4>7. Len(origin') = Len(delivered') BY <3>4, <4>3, <4>4
      <4> QED BY <3>3, <4>6, <4>7 DEF History, DeliveredInOrder
    <3> QED BY <3>5, <3>6
  <2> QED BY <2>1, <2>2
<1> QED BY <1>1, <1>3, <1>5, <1>6 DEF DInv

\* The frames in front of nxt have been read.
LEMMA FrontRead ==
  ASSUME DInv, aligned
  PROVE  nxt - 1 \in 0 .. Len(sent) /\ EndOf(nxt - 1) <= rd
<1>0. /\ Framed /\ TypeOK /\ Sound(p) /\ InStep /\ Len(sent) \in Nat /\ nxt \in Nat \ {0}
      /\ rd \in Nat /\ p.size \in Nat /\ p.ptr \in Nat /\ p.ptr <= p.size
  BY SoundFields DEF DInv, Inv, TypeOK, Holds
<1>1. CASE done(p)
  <2>1. AtFrame(p, rd, nxt - 1) BY <1>0, <1>1 DEF InStep
  <2>2. nxt - 1 \in 1 .. Len(sent) BY <1>0, <1>1, <2>1 DEF AtFrame, done
  <2>3. sent[nxt - 1] \in WireFrames BY <1>0, <2>2 DEF TypeOK
  <2>4. PICK w \in Nat : w = WireLen(sent[nxt - 1]) BY <2>3, SentFrames, HeaderLenType
  <2>5. p.ptr = w BY <1>1, <2>1, <2>2, <2>4 DEF AtFrame, Decoding, done
  <2>6. EndOf(nxt - 1) = EndOf((nxt - 1) - 1) + w BY <1>0, <2>2, <2>4 DEF Framed
  <2>7. (nxt - 1) - 1 \in 0 .. Len(sent) /\ nxt - 1 \in 0 .. Len(sent) BY <1>0, <2>2
  <2>8. EndOf((nxt - 1) - 1) \in Nat BY <1>0, <2>7 DEF Framed
  <2>9. rd - p.size = EndOf((nxt - 1) - 1) BY <2>1 DEF AtFrame
  <2> QED BY <1>0, <2>5, <2>6, <2>7, <2>8, <2>9
<1>2. CASE ~done(p)
  <2>1. AtFrame(p, rd, nxt) BY <1>0, <1>2 DEF InStep
  <2>2. nxt - 1 \in 0 .. Len(sent) BY <1>0, <2>1 DEF AtFrame
  <2>3. EndOf(nxt - 1) \in Nat BY <1>0, <2>2 DEF Framed
  <2>4. rd - p.size = EndOf(nxt - 1) BY <2>1 DEF AtFrame
  <2> QED BY <1>0, <2>2, <2>3, <2>4
<1> QED BY <1>1, <1>2

\* clear() between two frames goes on with a frame that was not returned yet.
LEMMA ClearForward ==
  ASSUME DInv, Clear, aligned, \E k \in 0 .. Len(sent) : EndOf(k) = rd
  PROVE  /\ aligned' = aligned
         /\ \E k \in 0 .. Len(sent) : EndOf(k) = rd /\ nxt' = k + 1 /\ nxt <= nxt'
<1>1. PICK k \in 0 .. Len(sent) : EndOf(k) = rd /\ nxt' = k + 1 /\ aligned' = aligned
  BY DEF Clear
<1>2. nxt - 1 \in 0 .. Len(sent) /\ EndOf(nxt - 1) <= rd BY FrontRead
<1>3. nxt \in Nat /\ Len(sent) \in Nat /\ Framed /\ rd \in Nat BY DEF DInv, Inv, TypeOK
<1>4. EndOf(nxt - 1) \in Nat BY <1>2, <1>3 DEF Framed
<1>5. ~(k < nxt - 1)
  <2> SUFFICES ASSUME k < nxt - 1 PROVE FALSE
    OBVIOUS
  <2>1. EndOf(k) < EndOf(nxt - 1) BY <1>2, <1>3 DEF Framed
  <2> QED BY <1>1, <1>2, <1>3, <1>4, <2>1
<1>6. nxt <= nxt' BY <1>1, <1>3, <1>5
<1> QED BY <1>1, <1>6

\* clear() keeps the invariant.
LEMMA ClearDInv == ASSUME DInv, Clear PROVE DInv'
<1>1. Inv' BY ClearInv DEF DInv
<1>2. p' = clear(p) /\ UNCHANGED <<sent, wire, ends, rd, delivered, origin>> BY DEF Clear
<1>3. Framed' BY <1>2 DEF DInv, Framed, EndOf
<1>4. /\ TypeOK /\ Framed /\ History /\ nxt \in Nat /\ rd \in Nat /\ Len(sent) \in Nat
      /\ p \in ParserType
  BY DEF DInv, Inv, TypeOK
<1>5. p'.stage = "FIN_BIT" /\ p'.ptr = 0 /\ p'.size = 0 /\ p'.frame.payload = NoPayload
  BY <1>2, <1>4 DEF clear, ParserType, EmptyFrame
<1>6. CASE aligned /\ \E k \in 0 .. Len(sent) : EndOf(k) = rd
  <2>1. PICK k \in 0 .. Len(sent) : EndOf(k) = rd /\ nxt' = k + 1 /\ nxt <= nxt'
    BY <1>6, ClearForward
  <2>2. nxt' \in 1 .. Len(sent) + 1 /\ nxt' - 1 = k BY <1>4, <2>1
  <2>3. rd - p'.size = EndOf(nxt' - 1) BY <1>4, <1>5, <2>1, <2>2
  <2>4. \A f : Decoding(p', f) BY <1>5 DEF Decoding
  <2>5. AtFrame(p, rd, nxt)' BY <1>2, <1>5, <2>2, <2>3, <2>4 DEF AtFrame, EndOf
  <2>6. Waiting(p, nxt)'
    <3> SUFFICES ASSUME nxt' <= Len(sent) PROVE p'.size < WireLen(sent[nxt'])
      BY <1>2 DEF Waiting
    <3>1. sent[nxt'] \in WireFrames BY <1>4, <2>2 DEF TypeOK
    <3>2. WireLen(sent[nxt']) \in Nat /\ WireLen(sent[nxt']) >= 2
      BY <3>1, SentFrames, HeaderLenType
    <3> QED BY <1>5, <3>2
  <2>7. InStep' BY <1>5, <2>5, <2>6 DEF InStep, done
  <2>8. aligned' BY <1>6, ClearForward
  <2>9. History'
    <3>1. \A i \in DOMAIN origin : origin[i] < nxt /\ origin[i] \in Nat
      BY <1>4, <1>6 DEF History, TypeOK
    <3>2. \A i \in DOMAIN origin : origin[i] < nxt' BY <1>4, <2>1, <2>2, <3>1
    <3> QED BY <1>2, <1>4, <1>6, <2>8, <3>2 DEF History, DeliveredInOrder
  <2> QED BY <1>1, <1>3, <2>7, <2>9 DEF DInv
<1>7. CASE ~(aligned /\ \E k \in 0 .. Len(sent) : EndOf(k) = rd)
  <2>1. aligned' = FALSE BY <1>7 DEF Clear
  <2>2. History' BY <1>2, <1>4, <2>1 DEF History, DeliveredInOrder
  <2> QED BY <1>1, <1>3, <2>1, <2>2 DEF DInv
<1> QED BY <1>6, <1>7

\* A frame from the server ends where the stream ends.
LEMMA ServerSendFramed ==
  ASSUME DInv, NEW f \in WireFrames, ServerSend(f)
  PROVE  /\ Framed'
         /\ \A k \in 0 .. Len(sent) : EndOf(k)' = EndOf(k)
         /\ Len(sent') = Len(sent) + 1 /\ sent'[Len(sent) + 1] = f
         /\ \A k \in 1 .. Len(sent) : sent'[k] = sent[k]
<1>0. /\ Framed /\ TypeOK /\ sent \in Seq(WireFrames) /\ wire \in Seq(Byte)
      /\ ends \in Seq(Nat) /\ Len(ends) = Len(sent)
  BY DEF DInv, Inv, TypeOK, Framed
<1>1. PICK l \in Nat, m \in Nat : l = Len(sent) /\ m = Len(wire) BY <1>0
<1> DEFINE e == Encode(f)
<1>2. PICK w \in Nat : w = WireLen(f) /\ w >= 2 BY SentFrames, HeaderLenType
<1>3. e \in Seq(Byte) /\ Len(e) = w BY <1>2, SentFrames, EncodeBytes
<1>4. sent' = Append(sent, f) /\ wire' = wire \o e /\ ends' = Append(ends, m + w)
  BY <1>1, <1>3 DEF ServerSend
<1> HIDE DEF e
<1>5. /\ Len(sent') = l + 1 /\ sent'[l + 1] = f
      /\ \A k \in 1 .. l : sent'[k] = sent[k]
  BY <1>0, <1>1, <1>4
<1>6. /\ Len(ends') = l + 1 /\ ends'[l + 1] = m + w
      /\ \A k \in 1 .. l : ends'[k] = ends[k]
  BY <1>0, <1>1, <1>4
<1>7. /\ Len(wire') = m + w
      /\ \A i \in 1 .. m : wire'[i] = wire[i]
      /\ \A i \in 1 .. w : wire'[m + i] = e[i]
  <2>1. PICK v \in Seq(Byte), z \in Seq(Byte) : v = wire /\ z = e BY <1>0, <1>3
  <2>2. /\ Len(v \o z) = Len(v) + Len(z)
        /\ \A i \in 1 .. Len(v) : (v \o z)[i] = v[i]
        /\ \A i \in 1 .. Len(z) : (v \o z)[Len(v) + i] = z[i]
    BY Joined
  <2>3. Len(v) = m /\ Len(z) = w /\ wire' = v \o z BY <1>1, <1>3, <1>4, <2>1
  <2> QED BY <2>1, <2>2, <2>3, Zenon
<1>8. \A k \in 0 .. l : EndOf(k)' = EndOf(k) BY <1>6 DEF EndOf
<1>9. EndOf(l + 1)' = m + w BY <1>6 DEF EndOf
<1>10. EndOf(l) = m /\ \A k \in 0 .. l : EndOf(k) \in 0 .. m BY <1>0, <1>1 DEF Framed
<1>11. ASSUME NEW k \in 1 .. l + 1
       PROVE  /\ EndOf(k)' = EndOf(k - 1)' + WireLen(sent'[k])
              /\ \A i \in 1 .. WireLen(sent'[k]) :
                   wire'[EndOf(k - 1)' + i] = Encode(sent'[k])[i]
  <2>1. CASE k \in 1 .. l
    <3>1. /\ sent'[k] = sent[k] /\ EndOf(k)' = EndOf(k) /\ EndOf(k - 1)' = EndOf(k - 1)
          /\ EndOf(k - 1) \in 0 .. m /\ EndOf(k) \in 0 .. m
      BY <1>5, <1>8, <1>10, <2>1
    <3>2. /\ EndOf(k) = EndOf(k - 1) + WireLen(sent[k])
          /\ \A i \in 1 .. WireLen(sent[k]) : wire[EndOf(k - 1) + i] = Encode(sent[k])[i]
      BY <1>0, <1>1, <2>1 DEF Framed
    <3>3. sent[k] \in WireFrames BY <1>0, <1>1, <2>1
    <3>4. PICK v \in Nat : v = WireLen(sent[k]) BY <3>3, SentFrames, HeaderLenType
    <3>5. \A i \in 1 .. v : EndOf(k - 1) + i \in 1 .. m BY <3>1, <3>2, <3>4
    <3> QED BY <1>7, <3>1, <3>2, <3>4, <3>5
  <2>2. CASE k = l + 1
    <3>1. k - 1 = l /\ sent'[k] = f /\ EndOf(k - 1)' = m /\ EndOf(k)' = m + w
      <4>1. k - 1 = l /\ k # 0 BY <2>2
      <4>2. EndOf(l) = IF l = 0 THEN 0 ELSE ends[l] BY DEF EndOf
      <4>3. ends'[k] = m + w /\ (l # 0 => ends'[l] = ends[l]) BY <1>6, <2>2
      <4> QED BY <1>5, <1>10, <2>2, <4>1, <4>2, <4>3 DEF EndOf
    <3> QED BY <1>2, <1>7, <3>1 DEF e
  <2> QED BY <2>1, <2>2
<1>12. ASSUME NEW k \in 0 .. l + 1 PROVE EndOf(k)' \in 0 .. m + w
  <2>1. CASE k \in 0 .. l
    <3>1. EndOf(k)' = EndOf(k) /\ EndOf(k) \in 0 .. m BY <1>8, <1>10, <2>1
    <3> QED BY <3>1
  <2>2. CASE k = l + 1
    <3>1. m + w \in 0 .. m + w OBVIOUS
    <3> QED BY <1>9, <2>2, <3>1
  <2> QED BY <2>1, <2>2
<1>13. ASSUME NEW j \in 0 .. l + 1, NEW k \in 0 .. l + 1, j < k PROVE EndOf(j)' < EndOf(k)'
  <2>1. CASE k \in 0 .. l
    <3>1. j \in 0 .. l BY <1>13, <2>1
    <3>2. EndOf(j) < EndOf(k) BY <1>0, <1>1, <1>13, <2>1, <3>1 DEF Framed
    <3> QED BY <1>8, <2>1, <3>1, <3>2
  <2>2. CASE k = l + 1
    <3>1. j \in 0 .. l BY <1>13, <2>2
    <3>2. EndOf(j)' = EndOf(j) /\ EndOf(j) \in 0 .. m BY <1>8, <1>10, <3>1
    <3>3. EndOf(k)' = m + w BY <1>9, <2>2
    <3> QED BY <1>2, <3>2, <3>3
  <2> QED BY <2>1, <2>2
<1>14. Framed'
  <2>1. Len(ends') = Len(sent') /\ EndOf(Len(sent))' = Len(wire')
    BY <1>5, <1>6, <1>7 DEF EndOf
  <2> QED BY <1>5, <1>7, <1>11, <1>12, <1>13, <2>1 DEF Framed
<1> QED BY <1>1, <1>5, <1>8, <1>14

\* It is at the front of the buffer if everything before it has been returned.
LEMMA ServerSendDInv == ASSUME DInv, NEW f \in WireFrames, ServerSend(f) PROVE DInv'
<1>1. Inv' BY ServerSendInv DEF DInv
<1>2. UNCHANGED <<p, rd, delivered, origin, nxt, aligned>> BY DEF ServerSend
<1>3. /\ Framed'
      /\ \A k \in 0 .. Len(sent) : EndOf(k)' = EndOf(k)
      /\ Len(sent') = Len(sent) + 1 /\ sent'[Len(sent) + 1] = f
      /\ \A k \in 1 .. Len(sent) : sent'[k] = sent[k]
  BY ServerSendFramed
<1>4. /\ TypeOK /\ Framed /\ History /\ nxt \in Nat /\ rd \in 0 .. Len(wire)
      /\ Len(sent) \in Nat /\ Len(wire) \in Nat /\ p.size \in Nat /\ sent \in Seq(WireFrames)
  BY SoundFields DEF DInv, Inv, TypeOK, Holds
<1>5. ASSUME NEW k, AtFrame(p, rd, k)
      PROVE  /\ k \in 1 .. Len(sent') + 1 /\ rd - p.size = EndOf(k - 1)'
             /\ k <= Len(sent') => Decoding(p, sent'[k])
             /\ k # Len(sent') + 1
  <2>1. k \in 1 .. Len(sent) + 1 /\ k - 1 \in 0 .. Len(sent) BY <1>4, <1>5 DEF AtFrame
  <2>2. EndOf(k - 1)' = EndOf(k - 1) BY <1>3, <2>1
  <2>3. rd - p.size = EndOf(k - 1) BY <1>5 DEF AtFrame
  <2>4. Decoding(p, sent'[k])
    <3>1. CASE k \in 1 .. Len(sent) BY <1>3, <1>4, <1>5, <3>1 DEF AtFrame
    <3>2. CASE k = Len(sent) + 1
      <4>1. p.stage = "FIN_BIT" /\ p.ptr = 0 /\ p.frame.payload = NoPayload
        BY <1>5, <3>2 DEF AtFrame
      <4> QED BY <4>1 DEF Decoding
    <3> QED BY <1>4, <2>1, <3>1, <3>2
  <2> QED BY <1>3, <1>4, <2>1, <2>2, <2>3, <2>4
<1>6. aligned' => InStep'
  <2> SUFFICES ASSUME aligned PROVE InStep'
    BY <1>2
  <2>1. InStep BY DEF DInv
  <2>2. CASE done(p)
    <3>1. AtFrame(p, rd, nxt - 1) BY <2>1, <2>2 DEF InStep
    <3>2. AtFrame(p, rd, nxt - 1)' BY <1>2, <1>5, <3>1 DEF AtFrame, EndOf
    <3> QED BY <1>2, <2>2, <3>2 DEF InStep, done
  <2>3. CASE ~done(p)
    <3>1. AtFrame(p, rd, nxt) /\ Waiting(p, nxt) BY <2>1, <2>3 DEF InStep
    <3>2. AtFrame(p, rd, nxt)' BY <1>2, <1>5, <3>1 DEF AtFrame, EndOf
    <3>3. Waiting(p, nxt)'
      <4>1. nxt \in 1 .. Len(sent) + 1 BY <3>1 DEF AtFrame
      <4>2. CASE nxt \in 1 .. Len(sent) BY <1>2, <1>3, <1>4, <3>1, <4>2 DEF Waiting
      <4>3. CASE nxt = Len(sent) + 1
        <5>1. nxt - 1 = Len(sent) BY <1>4, <4>3
        <5>2. rd - p.size = Len(wire) BY <1>4, <3>1, <5>1 DEF AtFrame, Framed
        <5>3. p.size = 0 BY <1>4, <5>2
        <5>4. WireLen(f) \in Nat /\ WireLen(f) >= 2 BY SentFrames, HeaderLenType
        <5>5. sent'[nxt'] = f /\ p'.size < WireLen(f) BY <1>2, <1>3, <4>3, <5>3, <5>4
        <5> QED BY <5>5 DEF Waiting
      <4> QED BY <1>4, <4>1, <4>2, <4>3
    <3> QED BY <1>2, <2>3, <3>2, <3>3 DEF InStep, done
  <2> QED BY <2>2, <2>3
<1>7. History'
  <2>1. \A i \in DOMAIN origin :
          origin[i] \in DOMAIN sent' /\ sent'[origin[i]] = sent[origin[i]]
    <3> TAKE i \in DOMAIN origin
    <3>1. origin[i] \in 1 .. Len(sent) BY <1>4 DEF History, DeliveredInOrder
    <3>2. DOMAIN sent' = 1 .. Len(sent) + 1 BY <1>4 DEF ServerSend
    <3> QED BY <1>3, <1>4, <3>1, <3>2
  <2> QED BY <1>2, <1>4, <2>1 DEF History, DeliveredInOrder
<1> QED BY <1>1, <1>3, <1>6, <1>7 DEF DInv

\* Nothing has been sent, read or returned.
LEMMA InitDInv == ASSUME Init PROVE DInv
<1>1. Inv BY InitInv
<1>2. sent = << >> /\ wire = << >> /\ ends = << >> /\ rd = 0 /\ delivered = << >>
      /\ origin = << >> /\ nxt = 1 /\ aligned = TRUE
  BY DEF Init
<1>3. Len(sent) = 0 /\ Len(wire) = 0 /\ Len(ends) = 0 BY <1>2
<1>4. Framed BY <1>3 DEF Framed, EndOf
<1>5. InStep
  <2>1. p.stage = "FIN_BIT" /\ p.ptr = 0 /\ p.size = 0 /\ p.frame.payload = NoPayload
    <3>1. PICK fin \in BOOLEAN, mask \in BOOLEAN :
            p = [buf |-> [i \in 1 .. InitCap |-> 0], size |-> 0, ptr |-> 0, len |-> 0,
                 stage |-> "FIN_BIT",
                 frame |-> [EmptyFrame EXCEPT !.fin = fin, !.mask = mask]]
      BY DEF Init
    <3>2. p.frame = [EmptyFrame EXCEPT !.fin = fin, !.mask = mask] BY <3>1
    <3>3. p.frame.payload = NoPayload BY <3>2 DEF EmptyFrame
    <3> QED BY <3>1, <3>3
  <2>2. AtFrame(p, rd, nxt)
    <3>1. 1 \in 1 .. 0 + 1 /\ ~(1 <= 0) /\ 1 - 1 = 0 /\ 0 - 0 = 0 OBVIOUS
    <3> QED BY <1>2, <1>3, <2>1, <3>1 DEF AtFrame, EndOf
  <2> QED BY <1>2, <1>3, <2>1, <2>2 DEF InStep, Waiting, done
<1>6. History BY <1>2 DEF History, DeliveredInOrder
<1> QED BY <1>1, <1>4, <1>5, <1>6 DEF DInv

\* Every step keeps the invariant.
LEMMA NextDInv == ASSUME DInv, [Next]_vars PROVE DInv'
<1>1. ASSUME NEW f \in WireFrames, ServerSend(f) PROVE DInv' BY <1>1, ServerSendDInv
<1>2. CASE \/ \E u \in UndefLens, n \in 1 .. Chunk : PollData(n, u)
           \/ \E u \in UndefLens : PollEmpty(u)
           \/ \E u \in UndefLens, n \in 0 .. Chunk : CloseRead(n, u)
  <2>1. PICK q : \E n \in Nat :
          /\ rd + n <= Len(wire) /\ Holds(q, wire, rd + n) /\ Updated(q, n)
          /\ aligned /\ ~DecodesLong(n)
               => AtFrame(q, rd + n, nxt) /\ (done(q) \/ Waiting(q, nxt))
    BY <1>2, Updates
  <2> QED BY <2>1, UpdatedDInv
<1>3. CASE Clear BY <1>3, ClearDInv
<1>4. CASE UNCHANGED vars
  <2>1. Inv' BY NextInv DEF DInv
  <2>2. Framed' BY <1>4 DEF vars, DInv, Framed, EndOf
  <2>3. aligned' => InStep'
    BY <1>4 DEF vars, DInv, InStep, AtFrame, Waiting, EndOf, done
  <2>4. History' BY <1>4 DEF vars, DInv, History, DeliveredInOrder
  <2> QED BY <2>1, <2>2, <2>3, <2>4 DEF DInv
<1> QED BY <1>1, <1>2, <1>3, <1>4 DEF Next
----------------------------------------------------------------------------
(* What the parser promises.                                               *)

\* However the stream is cut into reads, and whichever of the reads of poll() and
\* close() and of clear() come in between, the frames that come out are the frames
\* that went in, in order and unchanged, until a clear() cuts one in two or one comes
\* with a 64-bit length.
THEOREM ParserDeliversInOrder == Spec => []DeliveredInOrder
<1>1. DInv => DeliveredInOrder BY DEF DInv, History
<1> QED BY <1>1, InitDInv, NextDInv, PTL DEF Spec

\* update() never says "no frame yet" when all bytes of one are in the buffer.
THEOREM ParserWithholdsNothing == Spec => []NoFrameWithheld
<1>1. ASSUME DInv PROVE NoFrameWithheld
  <2> SUFFICES ASSUME aligned, ~done(p), nxt <= Len(sent) PROVE rd < EndOf(nxt)
    BY DEF NoFrameWithheld
  <2>1. AtFrame(p, rd, nxt) /\ Waiting(p, nxt) BY <1>1 DEF DInv, InStep
  <2>2. /\ Framed /\ nxt \in Nat \ {0} /\ Len(sent) \in Nat /\ rd \in Nat
        /\ p.size \in Nat /\ sent \in Seq(WireFrames)
    BY <1>1, SoundFields DEF DInv, Inv, TypeOK, Holds
  <2>3. nxt \in 1 .. Len(sent) /\ nxt - 1 \in 0 .. Len(sent) BY <2>2
  <2>4. sent[nxt] \in WireFrames BY <2>2, <2>3
  <2>5. PICK w \in Nat : w = WireLen(sent[nxt]) BY <2>4, SentFrames, HeaderLenType
  <2>6. EndOf(nxt) = EndOf(nxt - 1) + w /\ EndOf(nxt - 1) \in Nat
    BY <2>2, <2>3, <2>5 DEF Framed
  <2>7. rd - p.size = EndOf(nxt - 1) /\ p.size < w BY <2>1, <2>5 DEF AtFrame, Waiting
  <2> QED BY <2>2, <2>5, <2>6, <2>7
<1> QED BY <1>1, InitDInv, NextDInv, PTL DEF Spec

\* The buffer starts with the frame that update() works on or has just returned:
\* finished frames do not pile up in front of it.
THEOREM ParserBufferStartsAtFrame == Spec => []BufferStartsAtFrame
<1>1. ASSUME DInv PROVE BufferStartsAtFrame
  <2> SUFFICES ASSUME aligned
               PROVE  rd - p.size = EndOf(IF done(p) THEN nxt - 2 ELSE nxt - 1)
    BY DEF BufferStartsAtFrame
  <2>1. InStep /\ nxt \in Nat BY <1>1 DEF DInv, Inv, TypeOK
  <2>2. (nxt - 1) - 1 = nxt - 2 BY <2>1
  <2>3. CASE done(p)
    <3>1. AtFrame(p, rd, nxt - 1) BY <2>1, <2>3 DEF InStep
    <3>2. rd - p.size = EndOf((nxt - 1) - 1) BY <3>1 DEF AtFrame
    <3> QED BY <2>2, <2>3, <3>2
  <2>4. CASE ~done(p) BY <2>1, <2>4 DEF InStep, AtFrame
  <2> QED BY <2>3, <2>4
<1> QED BY <1>1, InitDInv, NextDInv, PTL DEF Spec

\* The frames sent, as the abstract stream sees them.
LEMMA StreamSent ==
  ASSUME TypeOK
  PROVE  LET bar == [i \in DOMAIN sent |-> Content(sent[i])]
         IN  /\ bar \in Seq({Content(f) : f \in WireFrames}) /\ Len(bar) = Len(sent)
             /\ \A i \in 1 .. Len(sent) : bar[i] = Content(sent[i])
<1> DEFINE bar == [i \in DOMAIN sent |-> Content(sent[i])]
           C == {Content(f) : f \in WireFrames}
<1>1. sent \in Seq(WireFrames) /\ Len(sent) \in Nat /\ DOMAIN sent = 1 .. Len(sent)
  BY DEF TypeOK
<1>2. \A i \in 1 .. Len(sent) : Content(sent[i]) \in C BY <1>1
<1> HIDE DEF C
<1>3. bar \in [1 .. Len(sent) -> C] BY <1>1, <1>2
<1>4. bar \in Seq(C) /\ Len(bar) = Len(sent)
  <2> HIDE DEF bar
  <2> QED BY <1>1, <1>3, SeqOfFunction
<1> QED BY <1>1, <1>4 DEF C

\* A frame from the server is one of the abstract stream.
LEMMA SendStep ==
  ASSUME DInv, NEW f \in WireFrames, ServerSend(f) PROVE Stream!Send
<1> DEFINE bar == [i \in DOMAIN sent |-> Content(sent[i])]
           C == {Content(g) : g \in WireFrames}
<1>1. TypeOK /\ TypeOK' BY ServerSendInv DEF DInv, Inv
<1>2. /\ bar \in Seq(C) /\ Len(bar) = Len(sent)
      /\ \A i \in 1 .. Len(sent) : bar[i] = Content(sent[i])
  BY <1>1, StreamSent
<1>3. sent' = Append(sent, f) /\ sent \in Seq(WireFrames) /\ Len(sent) \in Nat
  BY <1>1 DEF ServerSend, TypeOK
<1>4. /\ Len(sent') = Len(sent) + 1 /\ sent'[Len(sent) + 1] = f
      /\ \A i \in 1 .. Len(sent) : sent'[i] = sent[i]
      /\ DOMAIN sent' = 1 .. Len(sent) + 1
  BY <1>3
<1>5. Content(f) \in C OBVIOUS
<1>6. bar' = Append(bar, Content(f))
  <2>1. \A i \in 1 .. Len(sent) + 1 : bar'[i] = Content(sent'[i]) BY <1>4
  <2>2. DOMAIN bar' = 1 .. Len(sent) + 1 BY <1>4
  <2> HIDE DEF bar, C
  <2>3. PICK b \in Seq(C), x \in C : b = bar /\ x = Content(f) BY <1>2, <1>5
  <2>4. /\ Append(b, x) \in Seq(C) /\ Len(Append(b, x)) = Len(b) + 1
        /\ \A i \in 1 .. Len(b) : Append(b, x)[i] = b[i]
        /\ Append(b, x)[Len(b) + 1] = x
    OBVIOUS
  <2>5. \A i \in 1 .. Len(sent) + 1 : bar'[i] = Append(b, x)[i]
    <3> TAKE i \in 1 .. Len(sent) + 1
    <3>1. CASE i \in 1 .. Len(sent) BY <1>2, <1>4, <2>1, <2>3, <2>4, <3>1
    <3>2. CASE i = Len(sent) + 1 BY <1>2, <1>4, <2>1, <2>3, <2>4, <3>2
    <3>3. i \in 1 .. Len(sent) \/ i = Len(sent) + 1 BY <1>3
    <3> QED BY <3>1, <3>2, <3>3, Zenon
  <2>6. bar' \in [1 .. Len(sent) + 1 -> C]
    <3>1. \A i \in 1 .. Len(sent) + 1 : Append(b, x)[i] \in C BY <1>2, <1>3, <2>3, <2>4
    <3> QED BY <2>2, <2>5, <3>1 DEF bar
  <2>7. bar' \in Seq(C) /\ Len(bar') = Len(sent) + 1 BY <1>3, <2>6, SeqOfFunction
  <2>8. Len(b) = Len(sent) BY <1>2, <2>3
  <2>9. bar' = Append(b, x) BY <2>4, <2>5, <2>7, <2>8, SeqEqual
  <2> QED BY <2>3, <2>9
<1>7. UNCHANGED <<delivered, nxt, aligned>> BY DEF ServerSend
<1> QED BY <1>5, <1>6, <1>7 DEF Stream!Send

\* An update delivers the next frame, or one that nothing is known of, or none.
LEMMA UpdatedStep ==
  ASSUME DInv, NEW q, NEW n \in Nat, rd + n <= Len(wire), Holds(q, wire, rd + n),
         Updated(q, n), aligned /\ ~DecodesLong(n) => AtFrame(q, rd + n, nxt)
  PROVE  \/ Stream!Deliver \/ Stream!LoseFraming \/ Stream!DeliverGarbage
         \/ UNCHANGED Stream!vars
<1> DEFINE bar == [i \in DOMAIN sent |-> Content(sent[i])]
           D == {FrameOf(s) : s \in ParserType}
<1>1. sent' = sent /\ aligned' = (aligned /\ ~DecodesLong(n)) BY DEF Updated
<1>2. /\ TypeOK /\ Framed /\ rd + n \in 0 .. Len(wire) /\ delivered \in Seq(D)
      /\ aligned \in BOOLEAN
  BY DEF DInv, Inv, TypeOK, History
<1>3. CASE ~done(q)
  <2>1. UNCHANGED <<delivered, nxt>> BY <1>3 DEF Updated
  <2>2. CASE aligned' = aligned BY <1>1, <2>1, <2>2 DEF Stream!vars
  <2>3. CASE aligned' # aligned
    <3>1. aligned /\ aligned' = FALSE BY <1>1, <1>2, <2>3
    <3> QED BY <1>1, <2>1, <3>1 DEF Stream!LoseFraming
  <2> QED BY <2>2, <2>3
<1>4. CASE done(q) /\ aligned'
  <2>0. aligned /\ AtFrame(q, rd + n, nxt) /\ aligned' = aligned BY <1>1, <1>2, <1>4
  <2>1. nxt \in 1 .. Len(sent) /\ FrameOf(q) = Content(sent[nxt])
    BY <1>2, <1>4, <2>0, ReturnsFrame
  <2>2. delivered' = Append(delivered, FrameOf(q)) /\ nxt' = nxt + 1 BY <1>4 DEF Updated
  <2>3. /\ Len(bar) = Len(sent) /\ bar[nxt] = Content(sent[nxt]) BY <1>2, <2>1, StreamSent
  <2>4. nxt <= Len(sent) BY <1>2, <2>1 DEF TypeOK
  <2> QED BY <1>1, <2>0, <2>1, <2>2, <2>3, <2>4 DEF Stream!Deliver
<1>5. CASE done(q) /\ ~aligned'
  <2>1. delivered' = Append(delivered, FrameOf(q)) /\ nxt' = nxt BY <1>5 DEF Updated
  <2>2. FrameOf(q) \in D BY SoundFields DEF Holds
  <2> HIDE DEF D
  <2>3. PICK d \in Seq(D), x \in D : d = delivered /\ x = FrameOf(q) BY <1>2, <2>2
  <2>4. Len(Append(d, x)) = Len(d) + 1 /\ SubSeq(Append(d, x), 1, Len(d)) = d
    <3>1. /\ Append(d, x) \in Seq(D) /\ Len(Append(d, x)) = Len(d) + 1 /\ Len(d) \in Nat
          /\ \A i \in 1 .. Len(d) : Append(d, x)[i] = d[i]
      OBVIOUS
    <3> DEFINE a == Append(d, x)
               s == SubSeq(a, 1, Len(d))
    <3> HIDE DEF a
    <3>2. a \in Seq(D) /\ Len(a) = Len(d) + 1 BY <3>1 DEF a
    <3>3. s \in Seq(D) /\ Len(s) = Len(d) /\ \A i \in 1 .. Len(d) : s[i] = a[i]
      BY <3>1, <3>2
    <3>4. \A i \in 1 .. Len(d) : s[i] = d[i] BY <3>1, <3>3 DEF a
    <3> HIDE DEF s
    <3>5. s = d BY <3>3, <3>4, SeqEqual
    <3> QED BY <3>1, <3>5 DEF s, a
  <2>5. Stream!OneMore BY <2>1, <2>3, <2>4 DEF Stream!OneMore
  <2>6. aligned' = FALSE BY <1>1, <1>5
  <2>7. CASE aligned BY <1>1, <2>1, <2>5, <2>6, <2>7 DEF Stream!LoseFraming
  <2>8. CASE ~aligned
    <3>1. aligned' = aligned BY <1>2, <2>6, <2>8
    <3> QED BY <1>1, <2>1, <2>5, <2>8, <3>1 DEF Stream!DeliverGarbage
  <2> QED BY <2>7, <2>8
<1> QED BY <1>3, <1>4, <1>5

\* clear() skips the frames in the buffer or loses the framing.
LEMMA ClearStep ==
  ASSUME DInv, Clear PROVE Stream!Skip \/ Stream!LoseFraming \/ UNCHANGED Stream!vars
<1> DEFINE bar == [i \in DOMAIN sent |-> Content(sent[i])]
<1>1. UNCHANGED <<sent, delivered>> BY DEF Clear
<1>2. TypeOK /\ nxt \in Nat /\ Len(sent) \in Nat /\ aligned \in BOOLEAN BY DEF DInv, Inv, TypeOK
<1>3. Len(bar) = Len(sent) BY <1>2, StreamSent
<1>4. CASE aligned /\ \E k \in 0 .. Len(sent) : EndOf(k) = rd
  <2>1. PICK k \in 0 .. Len(sent) : nxt' = k + 1 /\ nxt <= nxt' /\ aligned' = aligned
    BY <1>4, ClearForward
  <2>2. nxt' \in nxt .. Len(sent) + 1 BY <1>2, <2>1
  <2>3. nxt' \in nxt .. Len(bar) + 1 BY <1>3, <2>2
  <2> HIDE DEF bar
  <2> QED BY <1>1, <1>4, <2>1, <2>3 DEF Stream!Skip, bar
<1>5. CASE aligned /\ ~\E k \in 0 .. Len(sent) : EndOf(k) = rd
  <2>1. aligned' = FALSE /\ nxt' = nxt BY <1>5 DEF Clear
  <2> QED BY <1>1, <1>5, <2>1 DEF Stream!LoseFraming
<1>6. CASE ~aligned
  <2>1. aligned' = FALSE /\ nxt' = nxt BY <1>6 DEF Clear
  <2>2. aligned = FALSE BY <1>2, <1>6
  <2> QED BY <1>1, <2>1, <2>2 DEF Stream!vars
<1> QED BY <1>2, <1>4, <1>5, <1>6

\* The parser implements the ordered stream of frames: every step of it, for every
\* cut of the bytes into reads, is a step of FrameStream or changes nothing there.
THEOREM ParserImplementsStream == Spec => ImplementsStream
<1>1. Init => Stream!Init
  <2> SUFFICES ASSUME Init PROVE Stream!Init
    OBVIOUS
  <2>1. sent = << >> /\ delivered = << >> /\ nxt = 1 /\ aligned = TRUE BY DEF Init
  <2>2. [i \in DOMAIN sent |-> Content(sent[i])] = << >> BY <2>1
  <2> QED BY <2>1, <2>2 DEF Stream!Init
<1>2. DInv /\ [Next]_vars => [Stream!Next]_(Stream!vars)
  <2> SUFFICES ASSUME DInv, [Next]_vars PROVE Stream!Next \/ UNCHANGED Stream!vars
    OBVIOUS
  <2>1. ASSUME NEW f \in WireFrames, ServerSend(f) PROVE Stream!Next
    BY <2>1, SendStep DEF Stream!Next
  <2>2. CASE \/ \E u \in UndefLens, n \in 1 .. Chunk : PollData(n, u)
             \/ \E u \in UndefLens : PollEmpty(u)
             \/ \E u \in UndefLens, n \in 0 .. Chunk : CloseRead(n, u)
    <3>1. PICK q : \E n \in Nat :
            /\ rd + n <= Len(wire) /\ Holds(q, wire, rd + n) /\ Updated(q, n)
            /\ aligned /\ ~DecodesLong(n)
                 => AtFrame(q, rd + n, nxt) /\ (done(q) \/ Waiting(q, nxt))
      BY <2>2, Updates
    <3>2. \/ Stream!Deliver \/ Stream!LoseFraming \/ Stream!DeliverGarbage
          \/ UNCHANGED Stream!vars
      BY <3>1, UpdatedStep
    <3> QED BY <3>2 DEF Stream!Next
  <2>3. CASE Clear BY <2>3, ClearStep DEF Stream!Next
  <2>4. CASE UNCHANGED vars BY <2>4 DEF vars, Stream!vars
  <2> QED BY <2>1, <2>2, <2>3, <2>4 DEF Next
<1> QED BY <1>1, <1>2, InitDInv, NextDInv, PTL DEF Spec, ImplementsStream, Stream!Spec
=============================================================================
