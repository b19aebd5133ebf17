---------------------------- MODULE FrameParser ----------------------------
(***************************************************************************)
(* wsframe::FrameParser together with the wsframe::FrameBuffer it reads    *)
(* from: the incremental decoder that turns the byte stream of the socket  *)
(* into WebSocket frames.  The parser is one record `p', and what a call   *)
(* makes of it is in module WsFrame.                                       *)
(*                                                                         *)
(* A call of the parser is atomic (the client is single threaded).  What   *)
(* is nondeterministic is how the server's bytes are cut into reads, and   *)
(* when the client throws the buffered bytes away with clear().            *)
(***************************************************************************)
EXTENDS WsFrame

CONSTANTS
  WireFrames,   \* the frames the server may send, as they are on the wire
  MaxFrames,    \* bound: how many frames the server sends
  MaxGarbage,   \* bound: frames returned after the framing is lost
  InitCap,      \* FrameBuffer(initial_capacity), 4096 in the code
  Chunk,        \* chunk_size_hint of a read, 1024 in the code
  UndefLens     \* what the undefined shifts may leave in m_payload_len

VARIABLES
  p,          \* the FrameParser object
  sent,       \* history: frames the server has sent
  wire,       \* history: the bytes of those frames
  ends,       \* history: ends[k] is the offset in wire after frame k
  rd,         \* bytes of wire the client has taken from its socket
  delivered,  \* history: the frames update() has returned
  origin,     \* history: index in sent of each delivered frame, while aligned
  nxt,        \* history: index in sent of the frame the buffer starts with
  aligned     \* history: no clear() has cut a frame in two, and no length was
              \* decoded from the 64-bit form

vars == <<p, sent, wire, ends, rd, delivered, origin, nxt, aligned>>
----------------------------------------------------------------------------
ASSUME FrameAssumption == \A f \in WireFrames : f \in WireFrame /\ LengthFits(f)
ASSUME BoundAssumption ==
  MaxFrames \in Nat /\ MaxGarbage \in Nat /\ InitCap \in Nat /\ Chunk \in Nat \ {0}
ASSUME UndefAssumption == UndefLens # {} /\ UndefLens \subseteq Nat

\* read_into: room for a whole chunk, then whatever the socket had.
read_into(q, bytes) == append_bytes(ensure_extra_space(q, Chunk), bytes)

EndOf(k) == IF k = 0 THEN 0 ELSE ends[k]

Incoming(n) == SubSeq(wire, rd + 1, rd + n)

\* fin and mask of the first m_frame are uninitialised memory.
Init ==
  /\ \E fin, mask \in BOOLEAN :
       p = [buf |-> [i \in 1 .. InitCap |-> 0], size |-> 0, ptr |-> 0, len |-> 0,
            stage |-> "FIN_BIT",
            frame |-> [EmptyFrame EXCEPT !.fin = fin, !.mask = mask]]
  /\ sent = << >> /\ wire = << >> /\ ends = << >>
  /\ rd = 0 /\ delivered = << >> /\ origin = << >>
  /\ nxt = 1 /\ aligned = TRUE

ServerSend(f) ==
  /\ Len(sent) < MaxFrames
  /\ sent' = Append(sent, f)
  /\ wire' = wire \o Encode(f)
  /\ ends' = Append(ends, Len(wire) + Len(Encode(f)))
  /\ UNCHANGED <<p, rd, delivered, origin, nxt, aligned>>

\* With n more bytes the length of frame nxt is decoded from eight bytes.
DecodesLong(n) ==
  nxt <= Len(sent) /\ sent[nxt].ext = 8 /\ EndOf(nxt - 1) + 10 <= rd + n

\* The parser moves to q with n more bytes read; a frame is returned if q is
\* done.  Behind an undefined length nothing is known of the stream.
Updated(q, n) ==
  /\ aligned \/ Len(delivered) < Len(origin) + MaxGarbage
  /\ p' = q
  /\ rd' = rd + n
  /\ aligned' = (aligned /\ ~DecodesLong(n))
  /\ IF done(q)
       THEN /\ delivered' = Append(delivered, FrameOf(q))
            /\ IF aligned' THEN origin' = Append(origin, nxt) /\ nxt' = nxt + 1
               ELSE UNCHANGED <<origin, nxt>>
       ELSE UNCHANGED <<delivered, origin, nxt>>
  /\ UNCHANGED <<sent, wire, ends>>

\* poll(): read_into found n bytes, or none (EAGAIN, end of stream, TLS error).
PollData(n, u) ==
  /\ rd + n <= Len(wire)
  /\ Updated(update_flag(read_into(p, Incoming(n)), TRUE, u), n)

PollEmpty(u) == Updated(update_flag(read_into(p, << >>), FALSE, u), 0)

\* The loop of close(): m_parser.update(m_socket.read(1024)).
CloseRead(n, u) ==
  /\ rd + n <= Len(wire)
  /\ Updated(update_view(p, Incoming(n), u), n)

\* m_parser.clear() in close(): the stream stays readable only if the buffered
\* bytes end where a frame ends.
Clear ==
  /\ p' = clear(p)
  /\ IF aligned /\ \E k \in 0 .. Len(sent) : EndOf(k) = rd
       THEN /\ \E k \in 0 .. Len(sent) : EndOf(k) = rd /\ nxt' = k + 1
            /\ UNCHANGED aligned
       ELSE aligned' = FALSE /\ UNCHANGED nxt
  /\ UNCHANGED <<sent, wire, ends, rd, delivered, origin>>

Next ==
  \/ \E f \in WireFrames : ServerSend(f)
  \/ \E u \in UndefLens, n \in 1 .. Chunk : PollData(n, u)
  \/ \E u \in UndefLens : PollEmpty(u)
  \/ \E u \in UndefLens, n \in 0 .. Chunk : CloseRead(n, u)
  \/ Clear

Spec == Init /\ [][Next]_vars
----------------------------------------------------------------------------
\* Every variable of the parser, the stream and the history has its type.
TypeOK ==
  /\ p \in ParserType
  /\ sent \in Seq(WireFrames) /\ wire \in Seq(Byte) /\ ends \in Seq(Nat)
  /\ rd \in 0 .. Len(wire)
  /\ origin \in Seq(Nat) /\ nxt \in Nat \ {0} /\ aligned \in BOOLEAN

\* m_ptr never passes the claimed bytes and these never pass the vector: the
\* unsigned remaining() does not wrap, and read(), tail() and the recv into
\* tail() stay inside the storage.
BufferInBounds == p.ptr <= p.size /\ p.size <= Len(p.buf)

\* The claimed bytes are the last ones taken from the socket, in order: no
\* read_into, push_back, memmove or growth loses, doubles or reorders a byte.
BufferIsStream == \A i \in 1 .. p.size : p.buf[i] = wire[rd - p.size + i]

\* However the stream was cut into reads, update() returns the server's frames
\* unchanged and in the order they were sent, until a clear() cuts a frame or a
\* frame uses the 64-bit length.
DeliveredInOrder ==
  /\ \A i \in DOMAIN origin :
       /\ i \in DOMAIN delivered
       /\ origin[i] \in DOMAIN sent
       /\ delivered[i] = Content(sent[origin[i]])
       /\ \A j \in 1 .. i - 1 : origin[j] < origin[i]
  /\ aligned => Len(origin) = Len(delivered)

\* update() never answers "no frame yet" while a complete frame is buffered: a
\* poll() loop that stops at an empty answer has seen everything it was sent.
NoFrameWithheld ==
  aligned /\ ~done(p) /\ nxt <= Len(sent) => rd < EndOf(nxt)

\* The buffer never holds more than the frame update() works on and the bytes
\* behind it: finished frames do not pile up in front, whichever of the reads of
\* poll() and close() and of clear() came in between.
BufferStartsAtFrame ==
  aligned => rd - p.size = EndOf(IF done(p) THEN nxt - 2 ELSE nxt - 1)

(***************************************************************************)
(* Liveness: the client polls for ever and the socket hands over what has  *)
(* arrived (recv does not answer EAGAIN for ever while bytes are there).   *)
(* This is weak fairness of PollData and of PollEmpty on a finished frame, *)
(* with the conditions that enable them written out.                       *)
(***************************************************************************)
FairSpec ==
  /\ Spec
  /\ []<>(rd = Len(wire) \/ ~aligned)
       \/ []<><<\E u \in UndefLens, n \in 1 .. Chunk : PollData(n, u)>>_vars
  /\ []<>(~done(p) \/ ~aligned)
       \/ []<><<\E u \in UndefLens : PollEmpty(u)>>_vars

\* Every frame sent on a stream that is never cut by clear() and uses no 64-bit
\* length is delivered, also when its last byte came in a read that returned an
\* earlier frame.
EveryFrameDelivered ==
  \A k \in 1 .. MaxFrames : Len(sent) >= k ~> (nxt > k \/ ~aligned)

(***************************************************************************)
(* The parser implements an ordered stream of frames.                      *)
(***************************************************************************)
Stream == INSTANCE FrameStream WITH
            Frame <- {Content(f) : f \in WireFrames},
            sent <- [i \in DOMAIN sent |-> Content(sent[i])]

\* Every step of the parser is a step of the stream it implements: a frame is
\* sent, the next one delivered, some are skipped, or the framing is lost.
ImplementsStream == Stream!Spec
=============================================================================
