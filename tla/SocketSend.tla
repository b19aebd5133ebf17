----------------------------- MODULE SocketSend -----------------------------
(***************************************************************************)
(* send() of SocketWrapper: the loop that writes a frame to a non-blocking *)
(* socket.  The application may catch what send() throws and go on sending *)
(* (poll() answers the next ping by itself), so the module follows a whole *)
(* sequence of calls on one connection and all the bytes they leave on the *)
(* wire.  SSLSocketWrapper::send has a module of its own, TLSSend: OpenSSL *)
(* keeps what a failed write left behind.                                  *)
(***************************************************************************)
EXTENDS Integers, Sequences

CONSTANTS
  Lengths,    \* the lengths of the frames that are sent
  SndBuf,     \* room in the kernel for bytes the peer has not taken
  IntHalf,    \* int holds -IntHalf .. IntHalf - 1, 2^31 in the code
  MaxCalls    \* bound: calls of send()

ASSUME SendAssumption ==
  Lengths \subseteq Nat \ {0} /\ SndBuf \in Nat \ {0} /\ IntHalf \in Nat \ {0} /\ MaxCalls \in Nat

VARIABLES
  calls,    \* history: the calls of send(), their lengths and outcomes
  to_send, total_sent,   \* the locals of the call in progress
  wire,     \* history: the bytes written, each as a byte of a call
  queued,   \* how many of them the peer has not taken yet
  up        \* the connection has not been reset

vars == <<calls, to_send, total_sent, wire, queued, up>>
----------------------------------------------------------------------------
\* static_cast<int>(req.size())
AsInt(n) == ((n + IntHalf) % (2 * IntHalf)) - IntHalf

This    == Len(calls)
Running == calls # << >> /\ calls[This].out = "running"
Ends(out) == calls' = [calls EXCEPT ![This].out = out]

Init ==
  /\ calls = << >> /\ to_send = 0 /\ total_sent = 0
  /\ wire = << >> /\ queued = 0 /\ up = TRUE

Call(len) ==
  /\ ~Running /\ Len(calls) < MaxCalls
  /\ calls' = Append(calls, [len |-> len, out |-> "running"])
  /\ to_send' = AsInt(len) /\ total_sent' = 0
  /\ UNCHANGED <<wire, queued, up>>

\* Bugs: every write starts at buf instead of buf + total_sent, or one byte
\* early; the rest of a short write is forgotten; a socket that would block is
\* tried again.
Written_again(n) == [j \in 1 .. n |-> [call |-> This, byte |-> j]]
Written_early(n) == [j \in 1 .. n |-> [call |-> This, byte |-> total_sent + j - 1]]
Rest_none(n)     == 0
Fails_for_good   == ~up

\* The n bytes at buf + total_sent.
Written(n) == [j \in 1 .. n |-> [call |-> This, byte |-> total_sent + j]]

\* What is to be sent behind them.
Rest(n) == to_send - n

\* The next write would block, or the connection is gone.
Fails == ~up \/ queued = SndBuf

\* ::send took n bytes.
Write(n) ==
  /\ Running /\ to_send > 0
  /\ up /\ queued + n <= SndBuf
  /\ wire' = wire \o Written(n)
  /\ to_send' = Rest(n) /\ total_sent' = total_sent + n
  /\ queued' = queued + n
  /\ UNCHANGED <<calls, up>>

Throw ==
  /\ Running /\ to_send > 0 /\ Fails
  /\ Ends("threw")
  /\ UNCHANGED <<to_send, total_sent, wire, queued, up>>

Return ==
  /\ Running /\ to_send <= 0
  /\ Ends("returned")
  /\ UNCHANGED <<to_send, total_sent, wire, queued, up>>

\* The peer takes a byte from the kernel.
PeerTakes ==
  /\ queued > 0 /\ queued' = queued - 1
  /\ UNCHANGED <<calls, to_send, total_sent, wire, up>>

Reset == up /\ up' = FALSE /\ UNCHANGED <<calls, to_send, total_sent, wire, queued>>

Send == (\E n \in 1 .. to_send : Write(n)) \/ Throw \/ Return

Next ==
  \/ \E len \in Lengths : Call(len)
  \/ Send
  \/ PeerTakes \/ Reset

Spec == Init /\ [][Next]_vars
----------------------------------------------------------------------------
Outcome == {"running", "returned", "threw"}

\* Every variable has its type.
TypeOK ==
  /\ calls \in Seq([len : Lengths, out : Outcome])
  /\ to_send \in Int /\ total_sent \in Nat
  /\ wire \in Seq([call : Nat \ {0}, byte : Nat \ {0}])
  /\ queued \in 0 .. SndBuf /\ up \in BOOLEAN

\* Byte b of call i is on the wire.
OnWire(i, b) == \E k \in DOMAIN wire : wire[k] = [call |-> i, byte |-> b]

\* Across short writes and calls that threw, the wire carries the bytes of each
\* frame from its first on, none twice, none left out, and never a byte of a
\* frame behind one of a later frame.
WireInOrder ==
  \A k \in DOMAIN wire :
    /\ wire[k].call \in DOMAIN calls
    /\ wire[k].byte <= calls[wire[k].call].len
    /\ IF wire[k].byte = 1 THEN k > 1 => wire[k - 1].call < wire[k].call
       ELSE k > 1 /\ wire[k - 1] = [wire[k] EXCEPT !.byte = @ - 1]

\* A call that returned has written its frame to the last byte.
ReturnedWhole ==
  \A i \in DOMAIN calls : calls[i].out = "returned" => OnWire(i, calls[i].len)

\* send() comes back although the peer may never take a byte.
SendEnds == Running ~> ~Running

\* "send all data": no call ends with a part of its frame on the wire.
SentFully ==
  \A i \in DOMAIN calls :
    calls[i].out # "running" /\ OnWire(i, 1) => OnWire(i, calls[i].len)

(***************************************************************************)
(* The server's side of the wire: it has the bytes that left the kernel,   *)
(* and reads frames out of them, here told apart by their lengths.         *)
(***************************************************************************)
Taken == SubSeq(wire, 1, Len(wire) - queued)

\* b is of a frame whose call threw before its last byte.
CutShort(b) == calls[b.call].out = "threw" /\ ~OnWire(b.call, calls[b.call].len)

\* The lengths of the frames whose bytes are in s.
LengthsOf(s) == [i \in DOMAIN s |-> calls[s[i].call].len]

Intact(b) == \A k \in DOMAIN Taken : CutShort(Taken[k]) => b.call < Taken[k].call

\* What the server has read: frames taken to their last byte, up to a cut one.
Received ==
  LengthsOf(SelectSeq(Taken, LAMBDA b : b.byte = calls[b.call].len /\ Intact(b)))

ServerStream == INSTANCE FrameStream WITH
                  Frame <- Lengths,
                  sent <- LengthsOf(SelectSeq(wire, LAMBDA b : b.byte = 1)),
                  delivered <- Received,
                  nxt <- Len(Received) + 1,
                  aligned <- \A k \in DOMAIN Taken : ~CutShort(Taken[k])

\* The server reads every frame that was begun, in the order of the calls, and
\* loses the framing only by a frame whose send() threw half-way: no call that
\* returned, and none that threw before its first byte, gets in the way of the
\* frames behind it.
ServerReadsFrames == ServerStream!Spec
=============================================================================
