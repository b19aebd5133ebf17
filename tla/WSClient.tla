------------------------------ MODULE WSClient ------------------------------
(***************************************************************************)
(* fastws::WSClient: the constructor with its opening handshake, poll(),   *)
(* close(), the destructor, the ping timer and the calls the user's        *)
(* FrameHandler makes back into the client.                                *)
(*                                                                         *)
(* The client is single threaded but re-entrant: `stack' holds the         *)
(* activation records of the calls in progress, innermost first, and the   *)
(* next step of the client is the next step of Head(stack).  The server,   *)
(* the network and the clock move between any two steps of the client.     *)
(*                                                                         *)
(* Bytes are abstracted to whole messages: module FrameParser shows that   *)
(* update() returns a frame exactly when the buffer holds a complete one.  *)
(* What is kept of the byte level is that a read may take several frames   *)
(* at once (they wait in `buf', the parser's buffer), may end inside a     *)
(* frame (`part'), and that throwing away bytes inside a frame loses the   *)
(* framing for good (`lost').                                              *)
(***************************************************************************)
EXTENDS Handshake

CONSTANTS
  MaxReads,      \* poll(max_reads), 4 by default
  CloseReads,    \* reads of the loop in close(), timeout * 10
  ConnReads,     \* reads of the loop in connect(), timeout * 10
  PingEvery,     \* m_ping_every, in ticks
  PingTimeout,   \* m_ping_timeout, in ticks
  ExtraHeaders,  \* values of the constructor's extra_headers
  UnsetReadings, \* readings of a timer that was never started
  Chunk,         \* bound: messages or frames of garbage that one read takes
  Garbage,       \* bound: kinds of frames that garbage decodes to
  MaxQueue,      \* bound: messages waiting in the socket and the parser
  MaxCalls,      \* bound: calls made by one handler activation
  MaxDepth,      \* records on the program's stack that a handler can call on
  Setups         \* how the client is used: a set of members of Setup

DataFrame     == {"TEXT", "BINARY", "CONTINUATION"}
FrameKind     == DataFrame \cup {"PING", "PONG", "CLOSE"}
DataCallbacks == {"on_text", "on_binary", "on_continuation"}
Callbacks     == DataCallbacks \cup {"on_open", "on_close"}

\* The pieces of the handshake response: a status line and the blank line that
\* ends the headers.
HandshakePiece == {"101", "refusal", "end"}

(***************************************************************************)
(* A setup: what each handler does (it calls something or returns), whether*)
(* the application polls and sends only while status() is HEALTHY, when it *)
(* destroys the client (at any time, or at the end of a loop over poll()   *)
(* that stops when the status is not HEALTHY or, for "signal", at SIGINT), *)
(* whether it catches exceptions, whether sends and reads may throw (those *)
(* of SSLSocketWrapper never do), and what the server may send.            *)
(***************************************************************************)
Setup ==
  [handlers : [Callbacks -> SUBSET {"return", "poll", "close", "send"}],
   disciplined : BOOLEAN, ends : {"any", "loop", "signal"}, catches : BOOLEAN,
   send_fails : BOOLEAN, read_fails : BOOLEAN, frames : SUBSET FrameKind]

ASSUME BoundAssumption ==
  /\ MaxReads \in Nat \ {0} /\ CloseReads \in Nat /\ ConnReads \in Nat \ {0}
  /\ PingEvery \in Nat /\ PingTimeout \in Nat /\ Chunk \in Nat \ {0}
  /\ MaxQueue \in Nat /\ MaxCalls \in Nat
  /\ MaxDepth \in Nat /\ MaxDepth > 2 /\ UnsetReadings \subseteq Int /\ UnsetReadings # {}
  /\ Garbage \subseteq FrameKind

\* The texts in the user's headers; each header is a sequence of them.
HeaderText == UNION {{x[i] : i \in DOMAIN x} : x \in ExtraHeaders}
ASSUME UserAssumption == Setups \subseteq Setup /\ ExtraHeaders \subseteq Seq(HeaderText)

VARIABLES
  setup, should_run,   \* the application; FALSE once SIGINT has come
  phase,               \* of the object: new, up, gone, failed (the constructor
                       \* threw), terminated (an exception ended the program)
                       \* or overflow (the program ran out of stack)
  stack,               \* activation records, innermost first
  m_status, m_connection_open,
  m_waiting_for_ping, m_ping_timer, m_last_rtt,
  request, response,   \* locals of connect(): what it sent, what it has read
  inq,                 \* messages that arrived at the socket
  buf, part, lost,     \* the parser's buffer, see above
  srv,                 \* the server
  closes,              \* history: calls of on_close, counted up to CloseCap
  unanswered,          \* history: pings sent since the last pong, up to CloseCap
  discarded,           \* history: connect() threw away a frame
  outClosed, after     \* history: a CLOSE was sent; what was sent after it

conn  == <<m_status, m_connection_open>>
ping  == <<m_waiting_for_ping, m_ping_timer, m_last_rtt, unanswered>>
input == <<inq, buf, part, lost>>
out   == <<outClosed, after>>
open  == <<request, response, discarded>>
env   == <<setup, should_run, srv>>
vars  == <<phase, stack, conn, ping, input, out, open, env, closes>>

CloseCap == 3

Least(a, b) == IF a < b THEN a ELSE b

\* The clock stops at the first value beyond both limits.  Unset is a timer that
\* start() was never called on: its time is uninitialised and reads as anything.
MaxClock == (IF PingEvery < PingTimeout THEN PingTimeout ELSE PingEvery) + 1
Unset    == -1

Elapsed == IF m_ping_timer = Unset THEN UnsetReadings ELSE {m_ping_timer}
----------------------------------------------------------------------------
(***************************************************************************)
(* Activation records.                                                     *)
(***************************************************************************)
Call(fn, pc) == [fn |-> fn, pc |-> pc, n |-> 0]
Poll  == Call("poll", "read")
Close == Call("close", "clear")
Handler(cb) == Call(cb, "run")
DataCallback(f) ==
  CASE f = "TEXT" -> "on_text" [] f = "BINARY" -> "on_binary" [] OTHER -> "on_continuation"

Running(fn, pc) == stack # << >> /\ Head(stack).fn = fn /\ Head(stack).pc = pc

\* The stack with its innermost record replaced by the records rs.
Become(rs) == rs \o Tail(stack)
Goto(pc)   == Become(<<[Head(stack) EXCEPT !.pc = pc]>>)
Again      == Become(<<[Head(stack) EXCEPT !.n = @ + 1]>>)

\* No code of the client catches an exception: it leaves the outermost call.
Unwind ==
  LET outer == IF stack = << >> THEN "main" ELSE stack[Len(stack)].fn IN
  /\ stack' = << >>
  /\ phase' = IF outer = "ctor" THEN "failed"
              ELSE IF outer = "dtor" \/ ~setup.catches THEN "terminated"
              ELSE phase

\* m_socket.send of a frame of this kind returned.
Sent(kind) ==
  /\ after' = IF outClosed THEN after \cup {kind} ELSE after
  /\ outClosed' = (outClosed \/ kind = "CLOSE")

\* It threw, and the frame is not counted as sent.
Throw == setup.send_fails /\ Unwind /\ UNCHANGED out

\* A frame is sent and the stack becomes st, unless the send throws.
Send(kind, st) == (Sent(kind) /\ stack' = st /\ UNCHANGED phase) \/ Throw

\* A bug: the timer is not started.
SendPing_unstarted(st, ph) ==
  /\ m_waiting_for_ping' = TRUE /\ UNCHANGED <<m_ping_timer, m_last_rtt>>
  /\ \/ /\ Sent("PING") /\ unanswered' = Least(unanswered + 1, CloseCap)
        /\ stack' = st /\ phase' = ph
     \/ Throw /\ UNCHANGED unanswered

\* send_ping(), behind m_waiting_for_ping = true and m_ping_timer.start().
SendPing(st, ph) ==
  /\ m_waiting_for_ping' = TRUE /\ m_ping_timer' = 0 /\ UNCHANGED m_last_rtt
  /\ \/ /\ Sent("PING") /\ unanswered' = Least(unanswered + 1, CloseCap)
        /\ stack' = st /\ phase' = ph
     \/ Throw /\ UNCHANGED unanswered

\* A bug: the status tells of the end, m_connection_open does not.
Shut_open(status) == m_status' = status /\ UNCHANGED m_connection_open

Shut(status) == m_connection_open' = FALSE /\ m_status' = status

OnClose == closes' = Least(closes + 1, CloseCap)
----------------------------------------------------------------------------
(***************************************************************************)
(* Reading.  One read takes n messages, and half of the next one if `half';*)
(* with bytes in the socket it never comes back empty.  Once the framing   *)
(* is lost, bytes decode to any frames they look like, or to none.         *)
(***************************************************************************)
Takes == 0 .. Least(Chunk, Len(inq))

Decoded(n) ==
  IF lost /\ n > 0 THEN UNION {[1 .. k -> Garbage] : k \in 0 .. Chunk} ELSE {SubSeq(inq, 1, n)}

Read(n, half) ==
  /\ half => n < Len(inq)
  /\ n = 0 => half \/ inq = << >>
  /\ inq' = SubSeq(inq, n + 1, Len(inq))

\* A read and an update(): the first frame of b, the buffer with the new bytes,
\* leaves the buffer.
Update(n, half, b) ==
  /\ Read(n, half) /\ part' = half /\ UNCHANGED lost
  /\ buf' = IF b = << >> THEN << >> ELSE Tail(b)

\* A read in connect(), poll() or close() throws.
ReadThrows ==
  /\ setup.read_fails
  /\ \/ Running("ctor", "handshake") \/ Running("poll", "read")
     \/ Running("close", "wait") /\ Head(stack).n < CloseReads
  /\ Unwind
  /\ UNCHANGED <<conn, ping, input, out, open, env, closes>>
----------------------------------------------------------------------------
(***************************************************************************)
(* Constructor.                                                            *)
(***************************************************************************)
Init ==
  /\ setup \in Setups /\ should_run = TRUE
  /\ phase = "new" /\ stack = << >>
  /\ m_status = "UNKNOWN" /\ m_connection_open = FALSE
  /\ m_waiting_for_ping = FALSE /\ m_ping_timer = Unset /\ m_last_rtt = 0
  /\ request = << >> /\ response = {}
  /\ inq = << >> /\ buf = << >> /\ part = FALSE /\ lost = FALSE /\ srv = "idle"
  /\ closes = 0 /\ unanswered = 0 /\ discarded = FALSE /\ outClosed = FALSE /\ after = {}

\* connect() up to the request: the socket's constructor or its send may throw.
Construct ==
  /\ phase = "new" /\ stack = << >>
  /\ \/ /\ stack' = <<Call("ctor", "handshake")>> /\ UNCHANGED phase
        /\ \E x \in ExtraHeaders : request' = build_websocket_handshake_request(x)
     \/ setup.send_fails /\ phase' = "failed" /\ UNCHANGED <<stack, request>>
  /\ UNCHANGED <<conn, ping, input, out, response, discarded, env, closes>>

\* One iteration of the loop in connect().  The loop ends at the blank line or
\* at its last iteration; then a status line alone decides, and whatever the
\* reads took beyond the headers is gone with the local string.
HandshakeRead(n, half) ==
  LET taken == {inq[i] : i \in 1 .. n}
      ended == "end" \in response' \/ Head(stack).n + 1 >= ConnReads
      opens == "101" \in response'
  IN
  /\ Running("ctor", "handshake")
  /\ Read(n, half)
  /\ response' = response \cup (taken \cap HandshakePiece)
  /\ discarded' = (discarded \/ taken \cap FrameKind # {})
  /\ request' = IF ended THEN << >> ELSE request
  /\ \/ ~ended /\ stack' = Again /\ part' = half /\ UNCHANGED <<phase, conn, lost>>
     \/ /\ ended /\ opens
        /\ m_connection_open' = TRUE /\ m_status' = "HEALTHY"
        /\ stack' = Become(<<Handler("on_open"), Call("ctor", "opened")>>)
        /\ part' = FALSE /\ lost' = (half \/ "end" \notin response')
        /\ UNCHANGED phase
     \/ /\ ended /\ ~opens
        /\ m_status' = "FAILED" /\ Unwind /\ part' = half
        /\ UNCHANGED <<m_connection_open, lost>>
  /\ UNCHANGED <<ping, buf, out, env, closes>>

\* The rest of the constructor, after on_open has returned.
StartPinging ==
  /\ Running("ctor", "opened")
  /\ IF m_connection_open THEN SendPing(<< >>, "up") ELSE Unwind /\ UNCHANGED <<ping, out>>
  /\ UNCHANGED <<conn, input, open, env, closes>>
----------------------------------------------------------------------------
(***************************************************************************)
(* Calls of the public methods, by the application between two calls or by *)
(* a handler.  close() on a closed connection returns at once: a stutter.  *)
(* Nothing in the client bounds how deep the calls of handlers nest, only  *)
(* the program's stack does.                                               *)
(***************************************************************************)
CanCall(f) ==
  IF stack = << >>
    THEN phase = "up" /\ (setup.ends = "any" \/ (f = "poll" /\ should_run))
    ELSE /\ Head(stack).fn \in Callbacks /\ f \in setup.handlers[Head(stack).fn]
         /\ Head(stack).n < MaxCalls

Caller == IF stack = << >> THEN << >> ELSE Again

\* The records rs are put on the stack, or the program runs out of it.
Enter(rs) ==
  \/ Len(stack) < MaxDepth /\ stack' = rs \o Caller /\ UNCHANGED phase
  \/ Len(stack) >= MaxDepth /\ stack' = << >> /\ phase' = "overflow"

CallPoll ==
  /\ CanCall("poll") /\ (setup.disciplined => m_status = "HEALTHY")
  /\ Enter(<<Poll>>)
  /\ UNCHANGED <<conn, ping, input, out, open, env, closes>>

CallClose ==
  /\ CanCall("close") /\ m_connection_open
  /\ Enter(<<Poll, Close>>)
  /\ UNCHANGED <<conn, ping, input, out, open, env, closes>>

\* send_text and send_binary.
CallSend ==
  /\ CanCall("send") /\ (setup.disciplined => m_status = "HEALTHY")
  /\ Send("DATA", Caller)
  /\ UNCHANGED <<conn, ping, input, open, env, closes>>

HandlerReturns ==
  /\ stack # << >> /\ Head(stack).fn \in Callbacks
  /\ Head(stack).n > 0 \/ "return" \in setup.handlers[Head(stack).fn]
  /\ stack' = Tail(stack)
  /\ UNCHANGED <<phase, conn, ping, input, out, open, env, closes>>

\* ~WSClient, called when the application leaves the scope of the client.
Destroy ==
  /\ phase = "up" /\ stack = << >>
  /\ setup.ends = "any" \/ m_status # "HEALTHY" \/ ~should_run
  /\ IF m_connection_open
       THEN stack' = <<Poll, Close, Call("dtor", "run")>> /\ UNCHANGED phase
       ELSE phase' = "gone" /\ UNCHANGED stack
  /\ UNCHANGED <<conn, ping, input, out, open, env, closes>>

Destroyed ==
  /\ Running("dtor", "run")
  /\ stack' = << >> /\ phase' = "gone"
  /\ UNCHANGED <<conn, ping, input, out, open, env, closes>>

\* SIGINT.
Signal ==
  /\ setup.ends = "signal" /\ should_run /\ phase \in {"new", "up"}
  /\ should_run' = FALSE
  /\ UNCHANGED <<phase, stack, conn, ping, input, out, open, setup, srv, closes>>
----------------------------------------------------------------------------
(***************************************************************************)
(* poll(): one iteration of its loop for each outcome of the read and the  *)
(* update; the count is taken when the frame is dispatched, which nobody   *)
(* can tell from after its handler returned.                               *)
(***************************************************************************)
\* Bugs: poll() leaves its loop after one frame, only when nothing is left, or at
\* max_reads with a return.
Counted_once == <<[Head(stack) EXCEPT !.n = @ + 1, !.pc = "ping"]>>
Counted_never == <<[Head(stack) EXCEPT !.n = Least(@ + 1, MaxReads)]>>
Counted_return ==
  IF Head(stack).n + 1 >= MaxReads THEN << >> ELSE <<[Head(stack) EXCEPT !.n = @ + 1]>>

\* What is left of poll() when a frame has been dispatched.
Counted ==
  LET c == Head(stack).n + 1 IN
  <<[Head(stack) EXCEPT !.n = c, !.pc = IF c >= MaxReads THEN "ping" ELSE "read"]>>

\* A bug: the CLOSE case ends in a break.
Closed_break == Counted

\* What is left of it behind a CLOSE: it returns, without update_ping.
Closed == << >>

PollData(f) ==
  /\ f \in DataFrame
  /\ stack' = Become(<<Handler(DataCallback(f))>> \o Counted)
  /\ UNCHANGED <<phase, conn, ping, out, closes>>

PollPing(f) ==
  f = "PING" /\ Send("PONG", Become(Counted)) /\ UNCHANGED <<conn, ping, closes>>

\* handle_pong.
PollPong(f) ==
  /\ f = "PONG"
  /\ m_last_rtt' \in Elapsed /\ m_ping_timer' = 0
  /\ m_waiting_for_ping' = FALSE /\ unanswered' = 0
  /\ stack' = Become(Counted)
  /\ UNCHANGED <<phase, conn, out, closes>>

PollClose(f) ==
  /\ f = "CLOSE"
  /\ Shut("CLOSED_BY_SERVER")
  /\ \/ /\ Sent("CLOSE") /\ OnClose
        /\ stack' = Become(<<Handler("on_close")>> \o Closed) /\ UNCHANGED phase
     \/ Throw /\ UNCHANGED closes
  /\ UNCHANGED ping

PollRead(n, half, s) ==
  LET b == buf \o s IN
  /\ Running("poll", "read")
  /\ Update(n, half, b)
  /\ \/ b = << >> /\ stack' = Goto("ping") /\ UNCHANGED <<phase, conn, ping, out, closes>>
     \/ /\ b # << >>
        /\ PollData(Head(b)) \/ PollPing(Head(b)) \/ PollPong(Head(b)) \/ PollClose(Head(b))
  /\ UNCHANGED <<open, env>>

\* update_ping(), and poll() returns.
Late(t) == m_waiting_for_ping /\ t > PingTimeout

\* A bug: a ping is due although one is waiting for its pong.
Due_again(t) == t > PingEvery

Due(t) == ~m_waiting_for_ping /\ t > PingEvery

UpdatePing(t) ==
  /\ Running("poll", "ping")
  /\ \/ /\ Late(t) /\ Shut("PING_TIMED_OUT")
        /\ stack' = Tail(stack) /\ UNCHANGED <<phase, ping, out>>
     \/ Due(t) /\ SendPing(Tail(stack), phase) /\ UNCHANGED conn
     \/ ~Late(t) /\ ~Due(t) /\ stack' = Tail(stack) /\ UNCHANGED <<phase, conn, ping, out>>
  /\ UNCHANGED <<input, open, env, closes>>
----------------------------------------------------------------------------
(***************************************************************************)
(* close(), after its poll() has returned.  Nothing looks again at what    *)
(* that poll() did to the connection.                                      *)
(***************************************************************************)
\* A bug: m_connection_open is cleared before the CLOSE is sent.
CloseThrows_early == Throw /\ m_connection_open' = FALSE /\ UNCHANGED m_status

CloseThrows == Throw /\ UNCHANGED conn

CloseClear ==
  /\ Running("close", "clear")
  /\ buf' = << >> /\ part' = FALSE /\ lost' = (lost \/ part)
  /\ \/ /\ Sent("CLOSE") /\ Shut("CLOSED_BY_CLIENT")
        /\ stack' = Goto("wait") /\ UNCHANGED phase
     \/ CloseThrows
  /\ UNCHANGED <<ping, inq, open, env, closes>>

\* A bug: a close() without an answer does not tell the handler.
Announce_answered(success) ==
  IF success THEN OnClose /\ stack' = Become(<<Handler("on_close")>>)
  ELSE UNCHANGED closes /\ stack' = Tail(stack)

\* on_close(*this, success), and close() returns.
Announce(success) == OnClose /\ stack' = Become(<<Handler("on_close")>>)

\* One iteration of the loop; frames other than CLOSE are dropped.
CloseRead(n, half, s) ==
  LET b == buf \o s IN
  /\ Running("close", "wait") /\ Head(stack).n < CloseReads
  /\ Update(n, half, b)
  /\ IF b # << >> /\ Head(b) = "CLOSE" THEN Announce(TRUE)
     ELSE UNCHANGED closes /\ stack' = Again
  /\ UNCHANGED <<phase, conn, ping, out, open, env>>

CloseGivesUp ==
  /\ Running("close", "wait") /\ Head(stack).n >= CloseReads
  /\ Announce(FALSE)
  /\ UNCHANGED <<phase, conn, ping, input, out, open, env>>
----------------------------------------------------------------------------
(***************************************************************************)
(* The server, the network and the clock.                                  *)
(***************************************************************************)
Arrives(x, s) ==
  /\ Len(inq) + Len(buf) < MaxQueue
  /\ inq' = Append(inq, x) /\ srv' = s
  /\ UNCHANGED <<phase, stack, conn, ping, buf, part, lost, out, open, setup, should_run, closes>>

ServerAnswers ==
  \/ srv = "idle" /\ Complete(request) /\ (Arrives("101", "accepting") \/ Arrives("refusal", "refusing"))
  \/ srv = "accepting" /\ Arrives("end", "open")
  \/ srv = "refusing" /\ Arrives("end", "closed")

\* A frame arrives; nothing follows the server's CLOSE.  A mute server answers
\* neither pings nor the closing handshake, but may still send data.
ServerSends(f) ==
  /\ srv = "open" \/ (srv = "mute" /\ f \in DataFrame)
  /\ Arrives(f, IF f = "CLOSE" THEN "closed" ELSE srv)

ServerGoesMute ==
  /\ srv = "open" /\ srv' = "mute"
  /\ UNCHANGED <<phase, stack, conn, ping, input, out, open, setup, should_run, closes>>

Tick ==
  /\ m_ping_timer \in 0 .. MaxClock - 1 /\ phase \in {"new", "up"}
  /\ m_ping_timer' = m_ping_timer + 1
  /\ UNCHANGED <<phase, stack, conn, m_waiting_for_ping, m_last_rtt, unanswered,
                 input, out, open, env, closes>>
----------------------------------------------------------------------------
Client ==
  \/ StartPinging \/ CloseClear \/ CloseGivesUp \/ ReadThrows \/ HandlerReturns \/ Destroyed
  \/ \E t \in Elapsed : UpdatePing(t)
  \/ \E n \in Takes, half \in BOOLEAN :
       \/ HandshakeRead(n, half)
       \/ \E s \in Decoded(n) : PollRead(n, half, s) \/ CloseRead(n, half, s)

Calls == CallPoll \/ CallClose \/ CallSend

User == Construct \/ Calls \/ Destroy \/ Signal

Server == ServerAnswers \/ ServerGoesMute \/ \E f \in setup.frames : ServerSends(f)

Next == User \/ Client \/ Server \/ Tick

Spec == Init /\ [][Next]_vars
----------------------------------------------------------------------------
Conn == INSTANCE Connection WITH status <- m_status, open <- m_connection_open

Activation == [fn : Callbacks \cup {"ctor", "dtor", "poll", "close"},
               pc : {"run", "handshake", "opened", "read", "ping", "clear", "wait"},
               n : Nat]

\* Every variable of the client, its socket and its history has its type, and
\* the application's own polls never read the ping timer before its start().
TypeOK ==
  /\ setup \in Setups /\ should_run \in BOOLEAN
  /\ phase \in {"new", "up", "gone", "failed", "terminated", "overflow"}
  /\ stack \in Seq(Activation)
  /\ m_status \in Conn!ConnectionStatus /\ m_connection_open \in BOOLEAN
  /\ m_waiting_for_ping \in BOOLEAN
  /\ m_ping_timer \in {Unset} \cup 0 .. MaxClock /\ (phase = "up" => m_ping_timer # Unset)
  /\ m_last_rtt \in UnsetReadings \cup 0 .. MaxClock
  /\ request \in Seq(RequestText \cup HeaderText) /\ response \subseteq HandshakePiece
  /\ inq \in Seq(HandshakePiece \cup FrameKind) /\ buf \in Seq(HandshakePiece \cup FrameKind)
  /\ part \in BOOLEAN /\ lost \in BOOLEAN
  /\ srv \in {"idle", "accepting", "refusing", "open", "mute", "closed"}
  /\ closes \in 0 .. CloseCap /\ unanswered \in 0 .. CloseCap
  /\ discarded \in BOOLEAN /\ outClosed \in BOOLEAN
  /\ after \subseteq {"DATA", "PING", "PONG", "CLOSE"}

(***************************************************************************)
(* Properties of any use of the client.                                    *)
(***************************************************************************)
\* m_status and m_connection_open tell the same story through every nesting of
\* poll, close and handlers: the connection opens once, closes once and never
\* comes back to HEALTHY, although close() overwrites what its poll() found.
ImplementsConnection == Conn!Spec

\* update_ping() gives up on a PONG that is already in the parser's buffer only
\* when poll() stopped because max_reads frames were dispatched before it.
PongNotOverlooked ==
  [][(m_status' = "PING_TIMED_OUT" /\ stack' # stack /\ Running("poll", "ping")
        /\ m_status # m_status') =>
       (Head(stack).n >= MaxReads \/ \A i \in DOMAIN buf : buf[i] # "PONG")]_vars

\* A connection reported as closed by either side, or destroyed without a ping
\* timeout, has had its on_close by the time the outermost call returned.
EndAnnounced ==
  (stack = << >> /\ phase # "overflow"
     /\ (phase = "gone" \/ m_status \in {"CLOSED_BY_SERVER", "CLOSED_BY_CLIENT"})
     /\ m_status # "PING_TIMED_OUT") => closes > 0

\* on_close comes on every path of poll(), close() and the destructor, through
\* all nestings of them, unless a send or the read that waits for the server's
\* CLOSE throws on the way: poll() and close() set the status first, and no later
\* close() tells the handler of a connection that is closed already.
CloseAnnounced == ~setup.send_fails /\ ~setup.read_fails => EndAnnounced

\* ~WSClient leaves no connection open behind it, whatever close() calls failed
\* before: a close() that threw keeps m_connection_open, so the destructor's
\* close() tries again, and a failure there ends the program.
DestroyedIsClosed == phase = "gone" => m_status \in Conn!ClosedStatus

DataEndsHere ==
  setup.disciplined /\ \A cb \in DataCallbacks : setup.handlers[cb] \subseteq {"return", "send"}

\* The calls of handlers nest without bound only through handlers of data: if
\* those neither poll nor close, and the user polls and sends only while status()
\* is HEALTHY, then poll() and close() in on_open and on_close find room on any
\* stack of more than two records: on_open runs only in the constructor, and
\* m_connection_open and m_status have changed before on_close is called.
StackSuffices == DataEndsHere => phase # "overflow"

(***************************************************************************)
(* Properties for users whose handlers do not poll or close and who stop   *)
(* polling and sending once status() is not HEALTHY.                       *)
(***************************************************************************)
Passive ==
  setup.disciplined /\ \A cb \in Callbacks : setup.handlers[cb] \subseteq {"return", "send"}

\* No data frame reaches a handler once the connection is closed, also not the
\* ones that were buffered behind a CLOSE or came while close() was waiting.
NoDataAfterClose ==
  [][(Passive /\ Len(stack') > Len(stack) /\ Head(stack').fn \in DataCallbacks)
       => m_connection_open]_vars

\* After its CLOSE the client sends nothing but possibly a second CLOSE.
QuietAfterClose == Passive => after \subseteq {"CLOSE"}

\* At most one ping is waiting for its pong: the constructor's ping and those of
\* update_ping never overlap, so m_last_rtt measures one round trip.
OnePingOutstanding == Passive => unanswered <= 1

\* Once closed, the status changes only in close(), to CLOSED_BY_CLIENT: no late
\* ping timeout and no late CLOSE frame relabels it.
StatusSettles ==
  [][(Passive /\ m_status \in Conn!ClosedStatus /\ m_status' # m_status)
       => Running("close", "clear") /\ m_status' = "CLOSED_BY_CLIENT"]_vars

(***************************************************************************)
(* Liveness: the code never blocks, handlers go on, time passes, and the   *)
(* application polls in a loop, as the README tells it to, and destroys    *)
(* the client behind the loop.                                             *)
(***************************************************************************)
FairSpec ==
  /\ Spec
  /\ WF_vars(Client \/ (stack # << >> /\ Calls))
  /\ WF_vars(Tick)
  /\ WF_vars(stack = << >> /\ CallPoll)
  /\ WF_vars(setup.ends # "any" /\ Destroy)

\* Every call comes to an end, however fast the server sends and if it never
\* answers, because the user's extra_headers left the request without an end:
\* max_reads and the loop bounds of connect() and close().  It returns, throws or,
\* only where handlers of data poll or close (StackSuffices), nests with every
\* frame until the program is out of stack.
CallsReturn == (stack # << >>) ~> (stack = << >>)

\* A server that stops answering pings is given up, also when it keeps sending
\* data or sending to it fails: every poll() that returns reaches update_ping, and
\* m_waiting_for_ping is set before the ping is sent.  A program whose handlers
\* poll or close on the data of such a server may run out of stack first.
MutePeerDetected ==
  (srv = "mute" /\ phase = "up") ~> (m_status # "HEALTHY" \/ phase # "up" \/ lost)

(***************************************************************************)
(* What the documentation says of the client and the code does not keep.   *)
(***************************************************************************)
\* README: a handler of data "closes the connection" with close(), so that it does
\* not end the program, however many frames the server has sent by then.
HandlerMayClose == ~lost => phase # "overflow"

\* README: on_close answers the event "connection close", so it comes once.
OnCloseOnce == ~lost => closes <= 1

\* README: poll() in a loop handles incoming packets, so connect() handles none.
FirstFramesKept == ~discarded

\* README: connection_timeout is how long the client waits "to recieve the open
\* connection handshake", so a connection is not open without it.
OpenedByHandshake == m_connection_open => "end" \in response
=============================================================================
