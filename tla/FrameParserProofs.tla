-------------------------- MODULE FrameParserProofs --------------------------
(***************************************************************************)
(* Proofs about FrameParser for every set of frames, buffer capacity and   *)
(* read size: the parser is type correct, never leaves its buffer, and the *)
(* buffer always holds the last bytes taken from the socket.               *)
(***************************************************************************)
EXTENDS FrameParser, WsFrameProofs

(***************************************************************************)
(* The buffer and the stream.  Holds(q, w, r): the claimed bytes of q are  *)
(* the last q.size of the first r bytes of w.                              *)
(***************************************************************************)
Holds(q, w, r) ==
  /\ Sound(q) /\ q.size <= r
  /\ \A i \in 1 .. q.size : q.buf[i] = w[r - q.size + i]

\* What keeps the bytes keeps their relation to the stream.
LEMMA KeepsHolds ==
  ASSUME NEW q, NEW x, NEW w, NEW r, Holds(q, w, r), Keeps(q, x)
  PROVE  Holds(x, w, r)
BY DEF Holds, Keeps

\* reset() moves the unread bytes to the front and keeps exactly these.
LEMMA ResetHolds ==
  ASSUME NEW q, NEW w, NEW r \in Nat, Holds(q, w, r)
  PROVE  Holds(reset(q), w, r)
<1> DEFINE b == [i \in 1 .. Len(q.buf) |->
                   IF i <= remaining(q) THEN q.buf[q.ptr + i] ELSE q.buf[i]]
           x == reset(q)
<1>1. /\ q.buf \in Seq(Byte) /\ q.size \in Nat /\ q.ptr \in Nat
      /\ q.ptr <= q.size /\ q.size <= Len(q.buf) /\ Len(q.buf) \in Nat
  BY DEF Holds, Sound, ParserType
<1>2. remaining(q) \in Nat /\ remaining(q) <= q.size /\ q.ptr + remaining(q) = q.size
  BY <1>1 DEF remaining
<1>3. b \in [1 .. Len(q.buf) -> Byte] BY <1>1, <1>2
<1>4. b \in Seq(Byte) /\ Len(b) = Len(q.buf) BY <1>1, <1>3, SeqOfFunction
<1>5. /\ x.buf = b /\ x.size = remaining(q) /\ x.ptr = 0 /\ x.frame = EmptyFrame
      /\ x.len = 0 /\ x.stage = "FIN_BIT"
  BY DEF reset, moved
<1>6. x \in ParserType
  <2> HIDE DEF b
  <2> QED BY <1>2, <1>4, EmptyFrameType, StageNames DEF ParserType, reset, moved, b
<1>7. Sound(x) BY <1>1, <1>2, <1>4, <1>5, <1>6 DEF Sound
<1>8. ASSUME NEW i \in 1 .. x.size PROVE x.buf[i] = w[r - x.size + i]
  <2>1. i \in 1 .. Len(q.buf) /\ i <= remaining(q) BY <1>1, <1>2, <1>5
  <2>2. x.buf[i] = q.buf[q.ptr + i] BY <1>5, <2>1
  <2>3. q.ptr + i \in 1 .. q.size BY <1>1, <1>2, <2>1
  <2>4. q.buf[q.ptr + i] = w[r - q.size + (q.ptr + i)] BY <2>3 DEF Holds
  <2>5. r - q.size + (q.ptr + i) = r - x.size + i BY <1>1, <1>2, <1>5, <2>1
  <2> QED BY <2>2, <2>4, <2>5
<1>9. x.size <= r BY <1>1, <1>2, <1>5 DEF Holds
<1> QED BY <1>7, <1>8, <1>9 DEF Holds

\* The start of update() keeps the relation to the stream.
LEMMA ResetIfDoneHolds ==
  ASSUME NEW q, NEW w, NEW r \in Nat, Holds(q, w, r)
  PROVE  Holds(reset_if_done(q), w, r)
BY ResetHolds DEF reset_if_done

\* clear() keeps nothing.
LEMMA ClearHolds ==
  ASSUME NEW q, NEW w, NEW r \in Nat, Sound(q)
  PROVE  Holds(clear(q), w, r)
<1> DEFINE x == clear(q)
<1>1. x.size = 0 /\ x.ptr = 0 /\ x.buf = q.buf BY DEF clear, Sound, ParserType
<1>2. x \in ParserType BY EmptyFrameType, StageNames DEF clear, Sound, ParserType
<1>3. Len(q.buf) \in Nat BY DEF Sound, ParserType
<1> QED BY <1>1, <1>2, <1>3 DEF Holds, Sound

\* Growth keeps the claimed bytes and makes the room that was asked for.
LEMMA ExtraSpaceHolds ==
  ASSUME NEW q, NEW w, NEW r \in Nat, Holds(q, w, r), NEW extra \in Nat
  PROVE  /\ Holds(ensure_extra_space(q, extra), w, r)
         /\ ensure_extra_space(q, extra).size = q.size
         /\ Len(ensure_extra_space(q, extra).buf) >= q.size + extra
<1> DEFINE n == Larger(Len(q.buf), q.size + extra)
           b == [i \in 1 .. n |-> IF i <= Len(q.buf) THEN q.buf[i] ELSE 0]
           x == ensure_extra_space(q, extra)
<1>1. /\ q.buf \in Seq(Byte) /\ q.size \in Nat /\ q.ptr \in Nat
      /\ q.ptr <= q.size /\ q.size <= Len(q.buf) /\ Len(q.buf) \in Nat
  BY DEF Holds, Sound, ParserType
<1>2. n \in Nat /\ n >= Len(q.buf) /\ n >= q.size + extra BY <1>1 DEF Larger
<1> HIDE DEF n
<1>3. b \in [1 .. n -> Byte]
  <2>1. 0 \in Byte BY DEF Byte
  <2>2. \A i \in 1 .. n : i <= Len(q.buf) => q.buf[i] \in Byte BY <1>1, <1>2
  <2> QED BY <2>1, <2>2
<1>4. b \in Seq(Byte) /\ Len(b) = n BY <1>2, <1>3, SeqOfFunction
<1>5. x = [q EXCEPT !.buf = b] BY DEF ensure_extra_space, ensure_fit, n
<1>6. x.buf = b /\ x.size = q.size /\ x.ptr = q.ptr
  BY <1>5 DEF Holds, Sound, ParserType
<1>7. x \in ParserType
  <2> HIDE DEF b
  <2> QED BY <1>4, <1>5 DEF Holds, Sound, ParserType
<1>8. Sound(x) BY <1>1, <1>2, <1>4, <1>6, <1>7 DEF Sound
<1>9. \A i \in 1 .. q.size : x.buf[i] = q.buf[i] BY <1>1, <1>2, <1>6
<1> HIDE DEF x
<1>10. Holds(x, w, r) BY <1>6, <1>8, <1>9 DEF Holds
<1> QED BY <1>2, <1>4, <1>6, <1>10 DEF x

\* n bytes of the stream written behind the claimed ones.
LEMMA AppendHolds ==
  ASSUME NEW q, NEW w \in Seq(Byte), NEW r \in Nat, Holds(q, w, r),
         NEW n \in Nat, r + n <= Len(w), Len(q.buf) >= q.size + n
  PROVE  Holds(append_bytes(q, SubSeq(w, r + 1, r + n)), w, r + n)
<1> DEFINE bytes == SubSeq(w, r + 1, r + n)
           b == [i \in 1 .. Len(q.buf) |->
                   IF i \in q.size + 1 .. q.size + Len(bytes)
                     THEN bytes[i - q.size] ELSE q.buf[i]]
           x == append_bytes(q, bytes)
<1>1. /\ q.buf \in Seq(Byte) /\ q.size \in Nat /\ q.ptr \in Nat
      /\ q.ptr <= q.size /\ q.size <= Len(q.buf) /\ Len(q.buf) \in Nat
  BY DEF Holds, Sound, ParserType
<1>2. /\ bytes \in Seq(Byte) /\ Len(bytes) = n
      /\ \A j \in 1 .. n : bytes[j] = w[r + j] /\ bytes[j] \in Byte
  OBVIOUS
<1> HIDE DEF bytes
<1>3. b \in [1 .. Len(q.buf) -> Byte]
  <2>1. \A i \in 1 .. Len(q.buf) : q.buf[i] \in Byte BY <1>1
  <2>2. \A i \in q.size + 1 .. q.size + Len(bytes) : i - q.size \in 1 .. n BY <1>1, <1>2
  <2>3. \A i \in q.size + 1 .. q.size + Len(bytes) : bytes[i - q.size] \in Byte
    BY <1>2, <2>2
  <2> QED BY <2>1, <2>3
<1>4. b \in Seq(Byte) /\ Len(b) = Len(q.buf)
  <2> HIDE DEF b
  <2> QED BY <1>1, <1>3, SeqOfFunction
<1>5. x = [q EXCEPT !.buf = b, !.size = q.size + n] BY <1>2 DEF append_bytes
<1>6. x.buf = b /\ x.size = q.size + n /\ x.ptr = q.ptr
  BY <1>5 DEF Holds, Sound, ParserType
<1>7. x \in ParserType
  <2> HIDE DEF b
  <2>1. q.size + n \in Nat BY <1>1
  <2> QED BY <2>1, <1>4, <1>5 DEF Holds, Sound, ParserType
<1>8. Sound(x) BY <1>1, <1>4, <1>6, <1>7 DEF Sound
<1>9. ASSUME NEW i \in 1 .. x.size PROVE x.buf[i] = w[(r + n) - x.size + i]
  <2>1. i \in 1 .. Len(q.buf) /\ i \in 1 .. q.size + n BY <1>1, <1>6
  <2>2. (r + n) - x.size + i = r - q.size + i BY <1>1, <1>6, <2>1
  <2>3. CASE i <= q.size
    <3>1. x.buf[i] = q.buf[i] BY <1>1, <1>2, <1>6, <2>1, <2>3
    <3>2. q.buf[i] = w[r - q.size + i] BY <2>1, <2>3, <1>1 DEF Holds
    <3> QED BY <2>2, <3>1, <3>2
  <2>4. CASE i > q.size
    <3>1. i \in q.size + 1 .. q.size + Len(bytes) BY <1>1, <1>2, <2>1, <2>4
    <3>2. x.buf[i] = bytes[i - q.size] BY <1>6, <2>1, <3>1
    <3>3. i - q.size \in 1 .. n BY <1>1, <1>2, <3>1
    <3>4. bytes[i - q.size] = w[r + (i - q.size)] BY <1>2, <3>3
    <3>5. r + (i - q.size) = r - q.size + i BY <1>1, <2>1
    <3> QED BY <2>2, <3>2, <3>4, <3>5
  <2> QED BY <1>1, <2>1, <2>3, <2>4
<1>10. x.size <= r + n BY <1>1, <1>6 DEF Holds
<1> QED BY <1>8, <1>9, <1>10 DEF Holds, bytes

\* read_into with n bytes of the stream.
LEMMA ReadIntoHolds ==
  ASSUME NEW q, NEW w \in Seq(Byte), NEW r \in Nat, Holds(q, w, r),
         NEW n \in 0 .. Chunk, r + n <= Len(w)
  PROVE  Holds(read_into(q, SubSeq(w, r + 1, r + n)), w, r + n)
<1> DEFINE x == ensure_extra_space(q, Chunk)
<1>1. Chunk \in Nat /\ n \in Nat BY BoundAssumption
<1>2. Holds(x, w, r) /\ x.size = q.size /\ Len(x.buf) >= q.size + Chunk
  BY <1>1, ExtraSpaceHolds
<1>3. q.size \in Nat /\ Len(x.buf) \in Nat BY <1>2 DEF Holds, Sound, ParserType
<1>4. Len(x.buf) >= x.size + n BY <1>1, <1>2, <1>3
<1> HIDE DEF x
<1>5. Holds(append_bytes(x, SubSeq(w, r + 1, r + n)), w, r + n)
  BY <1>1, <1>2, <1>4, AppendHolds
<1> QED BY <1>5 DEF read_into, x

\* So does parse().
LEMMA ParseHolds ==
  ASSUME NEW q, NEW w, NEW r, Holds(q, w, r), NEW u \in Nat
  PROVE  Holds(parse(q, u), w, r)
<1>1. Sound(q) BY DEF Holds
<1>2. Keeps(q, parse(q, u)) BY <1>1, ParseKeeps
<1> QED BY <1>2, KeepsHolds

\* Both forms of update() keep the stream in the buffer.
LEMMA UpdateFlagHolds ==
  ASSUME NEW q, NEW w, NEW r \in Nat, Holds(q, w, r), NEW flag, NEW u \in Nat
  PROVE  Holds(update_flag(q, flag, u), w, r)
<1> DEFINE x == reset_if_done(q)
<1>1. Holds(x, w, r) BY ResetIfDoneHolds
<1> HIDE DEF x
<1>2. Holds(parse(x, u), w, r) BY <1>1, ParseHolds
<1> QED BY <1>1, <1>2 DEF update_flag, x

\* update(string_view) appends the bytes the socket gave.
LEMMA UpdateViewHolds ==
  ASSUME NEW q, NEW w \in Seq(Byte), NEW r \in Nat, Holds(q, w, r),
         NEW n \in Nat, r + n <= Len(w), NEW u \in Nat
  PROVE  Holds(update_view(q, SubSeq(w, r + 1, r + n), u), w, r + n)
<1> DEFINE bytes == SubSeq(w, r + 1, r + n)
           x == reset_if_done(q)
           y == ensure_extra_space(x, Len(bytes))
           z == IF bytes = << >> THEN x ELSE append_bytes(y, bytes)
<1>1. Holds(x, w, r) BY ResetIfDoneHolds
<1>2. Len(bytes) = n OBVIOUS
<1> HIDE DEF x
<1>3. Holds(y, w, r) /\ y.size = x.size /\ Len(y.buf) >= x.size + n
  BY <1>1, <1>2, ExtraSpaceHolds
<1> HIDE DEF y
<1>4. Holds(append_bytes(y, bytes), w, r + n) BY <1>3, AppendHolds
<1>5. bytes = << >> => n = 0
  <2> HIDE DEF bytes
  <2> QED BY <1>2
<1>6. Holds(z, w, r + n)
  <2>1. CASE bytes = << >>
    <3>1. z = x /\ r + n = r BY <1>5, <2>1
    <3> QED BY <1>1, <3>1
  <2>2. CASE bytes # << >> BY <1>4, <2>2
  <2> QED BY <2>1, <2>2
<1> HIDE DEF bytes, z
<1>7. Holds(parse(z, u), w, r + n) BY <1>6, ParseHolds
<1>8. update_view(q, bytes, u) = z \/ update_view(q, bytes, u) = parse(z, u)
  BY DEF update_view, x, y, z
<1> QED BY <1>6, <1>7, <1>8 DEF bytes
----------------------------------------------------------------------------
(***************************************************************************)
(* The specification.                                                      *)
(***************************************************************************)
\* The server sends frames whose length field holds their length.
LEMMA SentFrames == WireFrames \subseteq Sendable
BY FrameAssumption DEF Sendable

\* The inductive invariant.
Inv == TypeOK /\ Holds(p, wire, rd)

\* The invariant holds for a new parser.
LEMMA InitInv == Init => Inv
<1> SUFFICES ASSUME Init PROVE Inv
  OBVIOUS
<1>1. PICK fin \in BOOLEAN, mask \in BOOLEAN :
        p = [buf |-> [i \in 1 .. InitCap |-> 0], size |-> 0, ptr |-> 0, len |-> 0,
             stage |-> "FIN_BIT",
             frame |-> [EmptyFrame EXCEPT !.fin = fin, !.mask = mask]]
  BY DEF Init
<1> DEFINE b == [i \in 1 .. InitCap |-> 0]
           fr == [EmptyFrame EXCEPT !.fin = fin, !.mask = mask]
<1>2. b \in [1 .. InitCap -> Byte] BY DEF Byte
<1>3. b \in Seq(Byte) /\ Len(b) \in Nat
  <2> HIDE DEF b
  <2> QED BY <1>2, BoundAssumption, SeqOfFunction
<1>4. fr \in FrameType BY EmptyFrameType DEF FrameType
<1> HIDE DEF b, fr
<1>5. p \in ParserType BY <1>1, <1>3, <1>4, StageNames DEF ParserType, b, fr
<1>6. p.ptr = 0 /\ p.size = 0 /\ p.buf = b BY <1>1 DEF b
<1>7. Sound(p) BY <1>3, <1>5, <1>6 DEF Sound
<1>8. TypeOK BY <1>5 DEF Init, TypeOK
<1> QED BY <1>6, <1>7, <1>8 DEF Init, Inv, Holds

\* An update that took n bytes and left the parser in q.
LEMMA UpdatedInv ==
  ASSUME Inv, NEW q, NEW n \in Nat, rd + n <= Len(wire),
         Holds(q, wire, rd + n), Updated(q, n)
  PROVE  Inv'
<1>1. p' = q /\ rd' = rd + n /\ wire' = wire /\ sent' = sent /\ ends' = ends
      /\ aligned' \in BOOLEAN
  BY DEF Updated
<1>2. Holds(p, wire, rd)' BY <1>1
<1>3. p' \in ParserType BY <1>1 DEF Holds, Sound
<1>4. rd' \in 0 .. Len(wire') BY <1>1 DEF Inv, TypeOK
<1>5. origin' \in Seq(Nat) /\ nxt' \in Nat \ {0}
  <2>1. origin \in Seq(Nat) /\ nxt \in Nat \ {0} BY DEF Inv, TypeOK
  <2>2. \/ origin' = Append(origin, nxt) /\ nxt' = nxt + 1
        \/ origin' = origin /\ nxt' = nxt
    BY DEF Updated
  <2> QED BY <2>1, <2>2
<1> QED BY <1>1, <1>2, <1>3, <1>4, <1>5 DEF Inv, TypeOK

\* A frame from the server keeps it.
LEMMA ServerSendInv ==
  ASSUME Inv, NEW f \in WireFrames, ServerSend(f) PROVE Inv'
<1> DEFINE e == Encode(f)
<1>1. e \in Seq(Byte) BY SentFrames, EncodeType
<1> HIDE DEF e
<1>2. wire \in Seq(Byte) /\ rd \in 0 .. Len(wire) /\ p \in ParserType BY DEF Inv, TypeOK
<1>3. /\ wire' = wire \o e /\ ends' = Append(ends, Len(wire) + Len(e))
      /\ sent' = Append(sent, f)
      /\ UNCHANGED <<p, rd, delivered, origin, nxt, aligned>>
  BY DEF ServerSend, e
<1>4. /\ wire' \in Seq(Byte) /\ Len(wire') = Len(wire) + Len(e) /\ Len(e) \in Nat
      /\ \A i \in 1 .. Len(wire) : wire'[i] = wire[i]
  BY <1>1, <1>2, <1>3
<1>5. TypeOK'
  <2>1. ends' \in Seq(Nat) BY <1>2, <1>3, <1>4 DEF Inv, TypeOK
  <2>2. sent' \in Seq(WireFrames) BY <1>3 DEF Inv, TypeOK
  <2>3. rd' \in 0 .. Len(wire') BY <1>2, <1>3, <1>4
  <2> QED BY <1>3, <1>4, <2>1, <2>2, <2>3 DEF Inv, TypeOK
<1>6. Sound(p) /\ p.size <= rd /\ p.size \in Nat
      /\ \A i \in 1 .. p.size : p.buf[i] = wire[rd - p.size + i]
  BY DEF Inv, Holds, Sound, ParserType
<1>7. \A i \in 1 .. p.size : p.buf[i] = wire'[rd - p.size + i]
  <2> TAKE i \in 1 .. p.size
  <2>1. rd - p.size + i \in 1 .. Len(wire) BY <1>2, <1>6
  <2> QED BY <1>4, <1>6, <2>1
<1>8. Holds(p, wire, rd)' BY <1>3, <1>6, <1>7 DEF Holds
<1> QED BY <1>5, <1>8 DEF Inv

\* clear() keeps it: no byte is claimed.
LEMMA ClearInv == ASSUME Inv, Clear PROVE Inv'
<1>1. p' = clear(p) /\ rd' = rd /\ wire' = wire /\ sent' = sent /\ ends' = ends
      /\ origin' = origin
  BY DEF Clear
<1>2. Sound(p) /\ rd \in Nat BY DEF Inv, Holds, TypeOK
<1>3. Holds(clear(p), wire, rd) BY <1>2, ClearHolds
<1>4. Holds(p, wire, rd)' BY <1>1, <1>3
<1>5. p' \in ParserType BY <1>1, <1>3 DEF Holds, Sound
<1>6. nxt' \in Nat \ {0}
  <2>1. nxt \in Nat \ {0} /\ Len(sent) \in Nat BY DEF Inv, TypeOK
  <2>2. (\E k \in 0 .. Len(sent) : nxt' = k + 1) \/ nxt' = nxt BY DEF Clear
  <2> QED BY <2>1, <2>2
<1>7. aligned' \in BOOLEAN
  <2>1. aligned \in BOOLEAN BY DEF Inv, TypeOK
  <2>2. aligned' = aligned \/ aligned' = FALSE BY DEF Clear
  <2> QED BY <2>1, <2>2, Zenon
<1> QED BY <1>1, <1>4, <1>5, <1>6, <1>7 DEF Inv, TypeOK

\* Every step keeps it.
LEMMA NextInv == Inv /\ [Next]_vars => Inv'
<1> SUFFICES ASSUME Inv, [Next]_vars PROVE Inv'
  OBVIOUS
<1>0. /\ Holds(p, wire, rd) /\ wire \in Seq(Byte) /\ rd \in Nat
      /\ rd <= Len(wire) /\ Len(wire) \in Nat
  BY DEF Inv, TypeOK
<1>1. ASSUME NEW f \in WireFrames, ServerSend(f) PROVE Inv'
  BY <1>1, ServerSendInv
<1>2. ASSUME NEW u \in UndefLens, NEW n \in 1 .. Chunk, PollData(n, u) PROVE Inv'
  <2>1. u \in Nat /\ n \in Nat /\ n \in 0 .. Chunk
    BY UndefAssumption, BoundAssumption
  <2>2. rd + n <= Len(wire) BY <1>2 DEF PollData
  <2> DEFINE x == read_into(p, Incoming(n))
  <2>3. Holds(x, wire, rd + n) BY <1>0, <2>1, <2>2, ReadIntoHolds DEF Incoming
  <2> HIDE DEF x
  <2>4. Holds(update_flag(x, TRUE, u), wire, rd + n)
    <3>1. rd + n \in Nat BY <1>0, <2>1
    <3> QED BY <2>1, <2>3, <3>1, UpdateFlagHolds
  <2>5. Updated(update_flag(x, TRUE, u), n) BY <1>2 DEF PollData, x
  <2> QED BY <2>1, <2>2, <2>4, <2>5, UpdatedInv
<1>3. ASSUME NEW u \in UndefLens, PollEmpty(u) PROVE Inv'
  <2>1. u \in Nat /\ 0 \in 0 .. Chunk BY UndefAssumption, BoundAssumption
  <2> DEFINE x == read_into(p, << >>)
  <2>2. rd + 0 = rd /\ rd + 0 <= Len(wire) /\ SubSeq(wire, rd + 1, rd) = << >>
    BY <1>0
  <2>3. Holds(x, wire, rd)
    <3>1. Holds(read_into(p, SubSeq(wire, rd + 1, rd + 0)), wire, rd + 0)
      BY <1>0, <2>1, <2>2, ReadIntoHolds
    <3> QED BY <2>2, <3>1
  <2> HIDE DEF x
  <2>4. Holds(update_flag(x, FALSE, u), wire, rd) BY <1>0, <2>1, <2>3, UpdateFlagHolds
  <2>5. Updated(update_flag(x, FALSE, u), 0) BY <1>3 DEF PollEmpty, x
  <2>6. Holds(update_flag(x, FALSE, u), wire, rd + 0) BY <2>2, <2>4
  <2> QED BY <2>2, <2>5, <2>6, UpdatedInv
<1>4. ASSUME NEW u \in UndefLens, NEW n \in 0 .. Chunk, CloseRead(n, u) PROVE Inv'
  <2>1. u \in Nat /\ n \in Nat BY UndefAssumption, BoundAssumption
  <2>2. rd + n <= Len(wire) BY <1>4 DEF CloseRead
  <2>3. Holds(update_view(p, Incoming(n), u), wire, rd + n)
    BY <1>0, <2>1, <2>2, UpdateViewHolds DEF Incoming
  <2>4. Updated(update_view(p, Incoming(n), u), n) BY <1>4 DEF CloseRead
  <2> QED BY <2>1, <2>2, <2>3, <2>4, UpdatedInv
<1>5. CASE Clear BY <1>5, ClearInv
<1>6. CASE UNCHANGED vars BY <1>6 DEF vars, Inv, TypeOK, Holds
<1> QED BY <1>1, <1>2, <1>3, <1>4, <1>5, <1>6 DEF Next

\* For every set of frames and every capacity and chunk size, the variables of
\* the parser and of the stream keep their types.
THEOREM TypeCorrect == Spec => []TypeOK
<1>1. Inv => TypeOK BY DEF Inv
<1> QED BY <1>1, InitInv, NextInv, PTL DEF Spec

\* m_ptr never passes the claimed bytes, nor these the vector, also when the
\* length field makes the decoder shift out of its range.
THEOREM BufferSafe == Spec => []BufferInBounds
<1>1. Inv => BufferInBounds BY DEF Inv, Holds, Sound, BufferInBounds
<1> QED BY <1>1, InitInv, NextInv, PTL DEF Spec

\* The buffer always holds the last bytes that were read, in order.
THEOREM BufferFaithful == Spec => []BufferIsStream
<1>1. Inv => BufferIsStream BY DEF Inv, Holds, BufferIsStream
<1> QED BY <1>1, InitInv, NextInv, PTL DEF Spec
=============================================================================
