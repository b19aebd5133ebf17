--------------------------- MODULE WSClientProofs ---------------------------
(***************************************************************************)
(* Proofs about WSClient for every setup of the client, all loop bounds,   *)
(* ping limits, queue lengths and depths of nested calls.  All of them     *)
(* rest on one invariant about the activation records on the stack.        *)
(***************************************************************************)
EXTENDS WSClient, SequenceTheorems, TLAPS

Used == {"HEALTHY"} \cup Conn!ClosedStatus

IsAt(i, fn, pc) == stack[i].fn = fn /\ stack[i].pc = pc

\* The constructor and the destructor are the outermost calls, and the
\* constructor's loop calls nobody.
Nesting ==
  /\ \A i \in DOMAIN stack : stack[i].fn \in {"ctor", "dtor"} => i = Len(stack)
  /\ \A i \in DOMAIN stack : IsAt(i, "ctor", "handshake") => i = 1
  /\ stack # << >> => phase \in {"new", "up"} /\ (phase = "new" <=> stack[Len(stack)].fn = "ctor")

\* What the status says at each point of the life of the object.
StatusAt ==
  /\ m_connection_open <=> m_status = "HEALTHY"
  /\ phase = "new" => IF stack = << >> \/ Running("ctor", "handshake")
                        THEN m_status = "UNKNOWN" ELSE m_status \in Used
  /\ phase = "up" => m_status \in Used
  /\ phase = "gone" => m_status \in Conn!ClosedStatus

\* The destructor goes on behind its close() only when that has closed.
Destructing ==
  \A i \in DOMAIN stack : stack[i].fn = "dtor" =>
    ~m_connection_open \/ (i > 1 /\ IsAt(i - 1, "close", "clear"))

\* Who has closed has told the handler, or is in the loop of close().
Announced ==
  (phase # "overflow" /\ ~setup.send_fails /\ ~setup.read_fails /\ m_status \in {"CLOSED_BY_SERVER", "CLOSED_BY_CLIENT"})
    => closes > 0 \/ \E i \in DOMAIN stack : IsAt(i, "close", "wait")

\* poll() reaches update_ping because of max_reads or with an empty buffer.
AtPing ==
  \A i \in DOMAIN stack : IsAt(i, "poll", "ping") =>
    stack[i].n >= MaxReads \/ (i = 1 /\ buf = << >>)

\* For passive users there is one poll() at most, called from outside on an open
\* connection, and only handlers run inside it.
OnePoll ==
  Passive => \A i \in DOMAIN stack : stack[i].fn = "poll" =>
    /\ m_connection_open /\ phase = "up"
    /\ \A j \in DOMAIN stack : j < i => stack[j].fn \in Callbacks
    /\ \A j \in DOMAIN stack : j > i => stack[j].fn # "poll"

\* For them the CLOSE is the end of an open connection, and a ping is sent only
\* when none is waiting.
Quiet ==
  Passive =>
    /\ outClosed => m_status \in Conn!ClosedStatus
    /\ after \subseteq {"CLOSE"}
    /\ unanswered <= 1 /\ (unanswered > 0 => m_waiting_for_ping /\ phase # "new")

\* on_open is called by the constructor, and on_close behind the end of the
\* connection; what they call leaves room on the stack.
Room ==
  /\ \A i \in DOMAIN stack : stack[i].fn = "on_open" => i + 1 = Len(stack)
  /\ \A i \in DOMAIN stack :
       stack[i].fn = "on_close" \/ IsAt(i, "close", "wait") => ~m_connection_open
  /\ DataEndsHere => phase # "overflow"

Inv ==
  /\ TypeOK /\ Nesting /\ StatusAt /\ Destructing /\ Announced /\ AtPing /\ OnePoll /\ Quiet
  /\ Room
----------------------------------------------------------------------------
(***************************************************************************)
(* How the stack changes, record by record.                                *)
(***************************************************************************)
\* t is s with its innermost record popped, or replaced by the records named.
Popped(s, t) == Len(t) = Len(s) - 1 /\ \A i \in 1 .. Len(t) : t[i] = s[i + 1]

Top(s, t, r) == Len(t) = Len(s) /\ t[1] = r /\ \A i \in 2 .. Len(t) : t[i] = s[i]

Over(s, t, r, q) ==
  Len(t) = Len(s) + 1 /\ t[1] = r /\ t[2] = q /\ \A i \in 3 .. Len(t) : t[i] = s[i - 1]

Over2(s, t, r, q, d) ==
  /\ Len(t) = Len(s) + 2 /\ t[1] = r /\ t[2] = q /\ t[3] = d
  /\ \A i \in 4 .. Len(t) : t[i] = s[i - 2]

\* The domain, the head and the length of a stack that is not empty.
LEMMA NonEmpty ==
  ASSUME NEW A, NEW s \in Seq(A), s # << >>
  PROVE  Len(s) \in Nat \ {0} /\ Head(s) = s[1] /\ s[1] \in A /\ 1 \in DOMAIN s
OBVIOUS

\* Tail pops a record.
LEMMA TailPops ==
  ASSUME NEW A, NEW s \in Seq(A), s # << >>
  PROVE  Tail(s) \in Seq(A) /\ Popped(s, Tail(s))
BY DEF Popped

\* Two records, one in front of the other.
LEMMA TwoRecords == ASSUME NEW A, NEW r \in A, NEW q \in A PROVE <<r>> \o <<q>> = <<r, q>>
<1> DEFINE s == <<r>> \o <<q>>
           t == <<r, q>>
<1>1. s \in Seq(A) /\ Len(s) = 2 /\ s[1] = r /\ s[2] = q OBVIOUS
<1>2. t \in Seq(A) /\ Len(t) = 2 /\ t[1] = r /\ t[2] = q OBVIOUS
<1> HIDE DEF s, t
<1>3. \A i \in 1 .. 2 : s[i] = t[i] BY <1>1, <1>2
<1>4. s = t BY <1>1, <1>2, <1>3, SeqEqual
<1> QED BY <1>4 DEF s, t

\* Become with one, two or three records.
LEMMA BecomeOne ==
  ASSUME NEW A, NEW s \in Seq(A), s # << >>, NEW r \in A
  PROVE  <<r>> \o Tail(s) \in Seq(A) /\ Top(s, <<r>> \o Tail(s), r)
BY DEF Top

\* The innermost record becomes two.
LEMMA BecomeTwo ==
  ASSUME NEW A, NEW s \in Seq(A), s # << >>, NEW r \in A, NEW q \in A
  PROVE  <<r, q>> \o Tail(s) \in Seq(A) /\ Over(s, <<r, q>> \o Tail(s), r, q)
BY DEF Over

\* The innermost record becomes three.
LEMMA BecomeThree ==
  ASSUME NEW A, NEW s \in Seq(A), s # << >>, NEW r \in A, NEW q \in A, NEW d \in A
  PROVE  <<r, q, d>> \o Tail(s) \in Seq(A) /\ Over2(s, <<r, q, d>> \o Tail(s), r, q, d)
BY DEF Over2

\* New records in front of a changed one.
LEMMA PushOne ==
  ASSUME NEW A, NEW s \in Seq(A), s # << >>, NEW r \in A, NEW q \in A
  PROVE  Over(s, <<r>> \o (<<q>> \o Tail(s)), r, q)
BY DEF Over

\* Two records in front of a changed one.
LEMMA PushTwo ==
  ASSUME NEW A, NEW s \in Seq(A), s # << >>, NEW r \in A, NEW q \in A, NEW d \in A
  PROVE  Over2(s, <<r, q>> \o (<<d>> \o Tail(s)), r, q, d)
BY DEF Over2
----------------------------------------------------------------------------
(***************************************************************************)
(* Types.                                                                  *)
(***************************************************************************)
Message == HandshakePiece \cup FrameKind

\* The setup of the client is one of the declared ones.
LEMMA SetupType ==
  ASSUME TypeOK
  PROVE  /\ setup \in Setup
         /\ setup.handlers \in [Callbacks -> SUBSET {"return", "poll", "close", "send"}]
         /\ setup.frames \subseteq FrameKind
BY UserAssumption DEF TypeOK, Setup

\* Activation records are made and changed within their type.
LEMMA Records ==
  /\ Poll \in Activation /\ Close \in Activation
  /\ Call("ctor", "handshake") \in Activation /\ Call("ctor", "opened") \in Activation
  /\ Call("dtor", "run") \in Activation
  /\ \A cb \in Callbacks : Handler(cb) \in Activation
  /\ \A f : Handler(DataCallback(f)) \in Activation /\ DataCallback(f) \in DataCallbacks
BY DEF Poll, Close, Handler, Call, Activation, Callbacks, DataCallbacks, DataCallback

\* What Goto, Again and Counted leave as the innermost record.
LEMMA Changed ==
  ASSUME NEW r \in Activation
  PROVE  /\ \A l \in {"ping", "wait"} : [r EXCEPT !.pc = l] \in Activation
         /\ [r EXCEPT !.n = @ + 1] \in Activation
         /\ \A l \in {"ping", "read"} : [r EXCEPT !.n = r.n + 1, !.pc = l] \in Activation
<1>1. r.n + 1 \in Nat BY DEF Activation
<1>2. ASSUME NEW l \in {"ping", "wait", "read"}, NEW m \in Nat
      PROVE  /\ [r EXCEPT !.pc = l] \in Activation /\ [r EXCEPT !.n = m] \in Activation
             /\ [r EXCEPT !.n = m, !.pc = l] \in Activation
  BY DEF Activation
<1> QED BY <1>1, <1>2

\* Counted is one record, of the poll() that goes on.
LEMMA CountedIs ==
  ASSUME TypeOK, stack # << >>
  PROVE  \E r \in Activation :
           /\ Counted = <<r>> /\ r.fn = stack[1].fn
           /\ r.pc = "ping" => r.n >= MaxReads
           /\ r.pc \in {"ping", "read"}
<1>1. stack[1] \in Activation /\ Head(stack) = stack[1] BY NonEmpty DEF TypeOK
<1> DEFINE c == stack[1].n + 1
           l == IF c >= MaxReads THEN "ping" ELSE "read"
           r == [stack[1] EXCEPT !.n = c, !.pc = l]
<1>2. l \in {"ping", "read"} /\ (l = "ping" => c >= MaxReads)
  BY <1>1, BoundAssumption DEF Activation
<1>3. Counted = <<r>> BY <1>1 DEF Counted
<1>4. r \in Activation BY <1>1, <1>2, Changed
<1>5. r.fn = stack[1].fn /\ r.pc = l /\ r.n = c BY <1>1 DEF Activation
<1> QED BY <1>2, <1>3, <1>4, <1>5

\* What one read takes from the socket.
LEMMA ReadType ==
  ASSUME TypeOK, NEW n \in Takes, NEW half, Read(n, half)
  PROVE  inq' \in Seq(Message) /\ n \in Nat /\ n <= Len(inq)
<1>1. inq \in Seq(Message) BY DEF TypeOK, Message
<1>2. n \in Nat /\ n <= Len(inq) BY <1>1, BoundAssumption DEF Takes, Least
<1>3. SubSeq(inq, n + 1, Len(inq)) \in Seq(Message) BY <1>1, <1>2
<1> QED BY <1>2, <1>3 DEF Read

\* What it hands to the parser, also when the framing is lost.
LEMMA DecodedType ==
  ASSUME TypeOK, NEW n \in Takes, NEW s \in Decoded(n)
  PROVE  s \in Seq(Message)
<1>1. inq \in Seq(Message) BY DEF TypeOK, Message
<1>2. n \in Nat /\ n <= Len(inq) BY <1>1, BoundAssumption DEF Takes, Least
<1>3. CASE lost /\ n > 0
  <2>1. PICK k \in 0 .. Chunk : s \in [1 .. k -> Garbage] BY <1>3 DEF Decoded
  <2>2. s \in [1 .. k -> Message] /\ k \in Nat BY <2>1, BoundAssumption DEF Message
  <2> QED BY <2>2
<1>4. CASE ~(lost /\ n > 0)
  <2>1. s = SubSeq(inq, 1, n) BY <1>4 DEF Decoded
  <2> QED BY <2>1, <1>1, <1>2
<1> QED BY <1>3, <1>4

\* An update() keeps the types of the buffer and the socket.
LEMMA UpdateType ==
  ASSUME TypeOK, NEW n \in Takes, NEW half \in BOOLEAN, NEW s \in Decoded(n),
         Update(n, half, buf \o s)
  PROVE  /\ inq' \in Seq(Message) /\ buf' \in Seq(Message)
         /\ part' \in BOOLEAN /\ lost' \in BOOLEAN
<1>1. buf \o s \in Seq(Message)
  <2>1. s \in Seq(Message) /\ buf \in Seq(Message) BY DecodedType DEF TypeOK, Message
  <2> QED BY <2>1
<1>2. buf' \in Seq(Message)
  <2> DEFINE b == buf \o s
  <2>1. b \in Seq(Message) BY <1>1
  <2>2. buf' = IF b = << >> THEN << >> ELSE Tail(b) BY DEF Update
  <2> HIDE DEF b
  <2> QED BY <2>1, <2>2
<1> QED BY <1>2, ReadType DEF Update, TypeOK

Phases   == {"new", "up", "gone", "failed", "terminated", "overflow"}
Kinds    == {"DATA", "PING", "PONG", "CLOSE"}
PingType == /\ m_waiting_for_ping \in BOOLEAN
            /\ m_ping_timer \in {Unset} \cup 0 .. MaxClock
            /\ m_last_rtt \in UnsetReadings \cup 0 .. MaxClock
            /\ unanswered \in 0 .. CloseCap
OutType  == outClosed \in BOOLEAN /\ after \subseteq Kinds
CallType == phase \in Phases /\ stack \in Seq(Activation)
ConnType == m_status \in Conn!ConnectionStatus /\ m_connection_open \in BOOLEAN

\* The clock has a positive limit.
LEMMA ClockType == MaxClock \in Nat /\ MaxClock > 0
BY BoundAssumption DEF MaxClock

\* The step leaves the clock of a client that is up started.
Started == phase' = "up" => (phase = "up" /\ m_ping_timer' = m_ping_timer) \/ m_ping_timer' \in 0 .. MaxClock

\* An exception leaves an empty stack.
LEMMA UnwindType == ASSUME TypeOK, Unwind PROVE CallType' /\ (phase' = "up" => phase = "up")
BY DEF TypeOK, CallType, Phases, Unwind

\* Sends keep the types of what they change, whether they throw or not.
LEMMA SentType == ASSUME TypeOK, NEW kind \in Kinds, Sent(kind) PROVE OutType'
BY DEF TypeOK, OutType, Kinds, Sent

\* An exception that unwinds the stack keeps the types.
LEMMA ThrowType == ASSUME TypeOK, Throw PROVE CallType' /\ OutType' /\ (phase' = "up" => phase = "up")
BY UnwindType DEF Throw, TypeOK, OutType, Kinds, out

\* A send keeps the types, whether it throws or not.
LEMMA SendType ==
  ASSUME TypeOK, NEW kind \in Kinds, NEW st \in Seq(Activation), Send(kind, st)
  PROVE  CallType' /\ OutType' /\ (phase' = "up" => phase = "up")
BY SentType, ThrowType DEF Send, CallType, TypeOK, Phases

\* So does a ping, which also starts the clock.
LEMMA SendPingType ==
  ASSUME TypeOK, NEW st \in Seq(Activation), NEW ph \in Phases, SendPing(st, ph)
  PROVE  CallType' /\ OutType' /\ PingType' /\ Started
<1>1. CallType' /\ OutType'
  BY SentType, ThrowType DEF SendPing, CallType, Kinds
<1>2. unanswered' \in 0 .. CloseCap BY DEF SendPing, TypeOK, CloseCap, Least
<1> QED BY <1>1, <1>2, ClockType DEF SendPing, TypeOK, PingType, Started

\* The parts of TypeOK together are all of it.
LEMMA TypeParts ==
  ASSUME setup' = setup, TypeOK, should_run' \in BOOLEAN,
         CallType', ConnType', PingType', OutType', Started,
         request' \in Seq(RequestText \cup HeaderText), response' \subseteq HandshakePiece,
         inq' \in Seq(Message), buf' \in Seq(Message), part' \in BOOLEAN, lost' \in BOOLEAN,
         srv' \in {"idle", "accepting", "refusing", "open", "mute", "closed"},
         closes' \in 0 .. CloseCap, discarded' \in BOOLEAN
  PROVE  TypeOK'
BY DEF TypeOK, CallType, ConnType, PingType, OutType, Started, Phases, Kinds, Message, Unset

\* The request is made of the texts it names and those of the user.
LEMMA RequestType ==
  ASSUME NEW x \in ExtraHeaders
  PROVE  build_websocket_handshake_request(x) \in Seq(RequestText \cup HeaderText)
<1> DEFINE T == RequestText \cup HeaderText
<1>1. \A s, t \in Seq(T) : s \o t \in Seq(T) OBVIOUS
<1>2. \A a \in T : <<a, CRLF>> \in Seq(T) /\ <<a>> \in Seq(T)
  <2>1. CRLF \in T BY DEF RequestText
  <2> HIDE DEF T
  <2> QED BY <2>1
<1>3. x \in Seq(T)
  <2>1. x \in Seq(HeaderText) BY UserAssumption
  <2> HIDE DEF HeaderText
  <2> QED BY <2>1
<1>4. RequestText \subseteq T OBVIOUS
<1>5. /\ "GET" \in T /\ "Host" \in T /\ "Upgrade" \in T /\ "Connection" \in T
      /\ "Sec-WebSocket-Key" \in T /\ "key" \in T /\ "Sec-WebSocket-Version" \in T /\ CRLF \in T
  BY <1>4 DEF RequestText
<1> HIDE DEF T
<1>6. /\ Line("GET") \in Seq(T) /\ Line("Host") \in Seq(T) /\ Line("Upgrade") \in Seq(T)
      /\ Line("Connection") \in Seq(T) /\ Line("Sec-WebSocket-Version") \in Seq(T)
  BY <1>2, <1>5, Zenon DEF Line
<1>7. /\ <<"Sec-WebSocket-Key">> \in Seq(T) /\ <<CRLF>> \in Seq(T)
      /\ generate_sec_websocket_key \in Seq(T)
  BY <1>2, <1>5, Zenon DEF generate_sec_websocket_key
<1>8. build_websocket_handshake_request(x) \in Seq(T)
  BY <1>1, <1>3, <1>6, <1>7, Zenon DEF build_websocket_handshake_request
<1> QED BY <1>8 DEF T

\* The constructor's steps keep the types.
LEMMA ConstructType == ASSUME TypeOK, Construct PROVE TypeOK'
<1>1. CallType'
  <2>1. <<Call("ctor", "handshake")>> \in Seq(Activation) BY Records
  <2> QED BY <2>1 DEF Construct, TypeOK, CallType, Phases
<1>2. request' \in Seq(RequestText \cup HeaderText) BY RequestType DEF Construct, TypeOK
<1> QED BY <1>1, <1>2, TypeParts
        DEF Started, Construct, conn, ping, input, out, env, TypeOK, ConnType, PingType, OutType,
            Kinds, Message

\* A read in the handshake loop of the constructor keeps the types.
LEMMA HandshakeReadType ==
  ASSUME TypeOK, NEW n \in Takes, NEW half \in BOOLEAN, HandshakeRead(n, half)
  PROVE  TypeOK'
<1> DEFINE on == <<Handler("on_open"), Call("ctor", "opened")>>
<1>1. inq' \in Seq(Message) BY ReadType DEF HandshakeRead
<1>2. CallType' /\ (phase' = "up" => phase = "up")
  <2>1. stack # << >> /\ stack \in Seq(Activation) /\ Head(stack) \in Activation
    BY NonEmpty DEF HandshakeRead, Running, TypeOK
  <2>2. Again \in Seq(Activation) BY <2>1, Changed, BecomeOne DEF Again, Become
  <2>3. Become(on) \in Seq(Activation)
    BY <2>1, Records, BecomeTwo DEF Become, Callbacks
  <2> QED BY <2>2, <2>3, UnwindType DEF HandshakeRead, CallType, Phases, TypeOK
<1>3. ConnType' BY DEF HandshakeRead, conn, ConnType, TypeOK, Conn!ConnectionStatus
<1>4. part' \in BOOLEAN /\ lost' \in BOOLEAN BY DEF HandshakeRead, TypeOK
<1>5. request' \in Seq(RequestText \cup HeaderText)
  <2>1. request' = << >> \/ request' = request BY DEF HandshakeRead
  <2>2. << >> \in Seq(RequestText \cup HeaderText) OBVIOUS
  <2>3. request \in Seq(RequestText \cup HeaderText) BY DEF TypeOK
  <2> QED BY <2>1, <2>2, <2>3, Zenon
<1>6. response' \subseteq HandshakePiece /\ discarded' \in BOOLEAN
  BY DEF HandshakeRead, TypeOK
<1> QED BY <1>1, <1>2, <1>3, <1>4, <1>5, <1>6, TypeParts
        DEF Started, HandshakeRead, ping, out, env, TypeOK, PingType, OutType, Kinds, Message

\* The end of the constructor keeps the types.
LEMMA StartPingingType == ASSUME TypeOK, StartPinging PROVE TypeOK'
<1>1. CallType' /\ PingType' /\ OutType' /\ Started
  <2>1. CASE m_connection_open
    <3>1. SendPing(<< >>, "up") BY <2>1 DEF StartPinging
    <3>2. << >> \in Seq(Activation) /\ "up" \in Phases BY DEF Phases
    <3> QED BY <3>1, <3>2, SendPingType
  <2>2. CASE ~m_connection_open
    BY <2>2, UnwindType DEF StartPinging, Started, ping, out, PingType, OutType, TypeOK, Kinds
  <2> QED BY <2>1, <2>2
<1> QED BY <1>1, TypeParts
        DEF StartPinging, conn, input, open, env, TypeOK, ConnType, Message

\* A read that throws keeps the types.
LEMMA ReadThrowsType == ASSUME TypeOK, ReadThrows PROVE TypeOK'
BY UnwindType, TypeParts
DEF Started, ReadThrows, conn, ping, input, out, open, env, TypeOK, ConnType, PingType, OutType,
    Kinds, Message

\* So do the calls of the public methods.
LEMMA CallerType ==
  ASSUME TypeOK
  PROVE  /\ Caller \in Seq(Activation)
         /\ <<Poll>> \o Caller \in Seq(Activation)
         /\ <<Poll, Close>> \o Caller \in Seq(Activation)
<1>1. Caller \in Seq(Activation)
  <2>1. CASE stack = << >> BY <2>1 DEF Caller
  <2>2. CASE stack # << >>
    <3>1. Head(stack) \in Activation /\ stack \in Seq(Activation) BY <2>2, NonEmpty DEF TypeOK
    <3> QED BY <2>2, <3>1, Changed, BecomeOne DEF Caller, Again, Become
  <2> QED BY <2>1, <2>2
<1> HIDE DEF Caller
<1>2. <<Poll>> \in Seq(Activation) /\ <<Poll, Close>> \in Seq(Activation) BY Records
<1>3. \A s, t \in Seq(Activation) : s \o t \in Seq(Activation) OBVIOUS
<1> QED BY <1>1, <1>2, <1>3, Zenon

\* The calls of the user keep the types.
LEMMA CallsType == ASSUME TypeOK, Calls PROVE TypeOK'
<1>1. CallType' /\ OutType' /\ (phase' = "up" => phase = "up")
  <2>1. CASE CallPoll \/ CallClose
    <3>1. ASSUME NEW rs, rs \o Caller \in Seq(Activation), Enter(rs)
          PROVE  CallType' /\ (phase' = "up" => phase = "up")
      <4>1. stack' = rs \o Caller \/ stack' = << >> BY <3>1 DEF Enter
      <4>2. << >> \in Seq(Activation) OBVIOUS
      <4>3. stack' \in Seq(Activation) BY <3>1, <4>1, <4>2, Zenon
      <4>4. phase' = phase \/ phase' = "overflow" BY <3>1 DEF Enter
      <4> QED BY <4>3, <4>4 DEF CallType, Phases, TypeOK
    <3>2. OutType' BY <2>1 DEF CallPoll, CallClose, out, OutType, Kinds, TypeOK
    <3> QED BY <2>1, <3>1, <3>2, CallerType DEF CallPoll, CallClose
  <2>2. CASE CallSend
    BY <2>2, CallerType, SendType DEF CallSend, Kinds
  <2> QED BY <2>1, <2>2 DEF Calls
<1> QED BY <1>1, TypeParts
        DEF Started, Calls, CallPoll, CallClose, CallSend, conn, ping, input, open, env, TypeOK,
            ConnType, PingType, Message

\* The returns of handlers and the destructor keep the types.
LEMMA ReturnsType ==
  ASSUME TypeOK, HandlerReturns \/ Destroy \/ Destroyed \/ Signal PROVE TypeOK'
<1>1. CASE HandlerReturns
  <2>1. CallType' BY <1>1, TailPops DEF HandlerReturns, TypeOK, CallType, Phases
  <2> QED BY <1>1, <2>1, TypeParts
          DEF Started, HandlerReturns, conn, ping, input, out, open, env,
              TypeOK, ConnType, PingType, OutType, Kinds, Message
<1>2. CASE Destroy
  <2>1. <<Poll, Close, Call("dtor", "run")>> \in Seq(Activation) BY Records
  <2>2. CallType' BY <1>2, <2>1 DEF Destroy, TypeOK, CallType, Phases
  <2> QED BY <1>2, <2>2, TypeParts
          DEF Started, Destroy, conn, ping, input, out, open, env,
              TypeOK, ConnType, PingType, OutType, Kinds, Message
<1>3. CASE Destroyed
  <2>1. CallType' BY <1>3 DEF Destroyed, CallType, Phases
  <2> QED BY <1>3, <2>1, TypeParts
          DEF Started, Destroyed, conn, ping, input, out, open, env,
              TypeOK, ConnType, PingType, OutType, Kinds, Message
<1>4. CASE Signal
  <2>1. should_run' \in BOOLEAN /\ setup' = setup /\ srv' = srv BY <1>4 DEF Signal
  <2> QED
  BY <1>4, <2>1, TypeParts
  DEF Started, Signal, conn, ping, input, out, open,
      TypeOK, CallType, Phases, ConnType, PingType, OutType, Kinds, Message
<1> QED BY <1>1, <1>2, <1>3, <1>4

\* So do the steps of poll().
LEMMA PollReadType ==
  ASSUME TypeOK, NEW n \in Takes, NEW half \in BOOLEAN, NEW s \in Decoded(n),
         PollRead(n, half, s)
  PROVE  TypeOK'
<1> DEFINE f == Head(buf \o s)
<1>1. stack # << >> /\ stack \in Seq(Activation) /\ Head(stack) \in Activation
  BY NonEmpty DEF PollRead, Running, TypeOK
<1>2. PICK r \in Activation : Counted = <<r>> BY <1>1, CountedIs
<1>3. /\ inq' \in Seq(Message) /\ buf' \in Seq(Message)
      /\ part' \in BOOLEAN /\ lost' \in BOOLEAN
  BY UpdateType DEF PollRead
<1>4. Become(Counted) \in Seq(Activation) BY <1>1, <1>2, BecomeOne DEF Become
<1>5. Handler(DataCallback(f)) \in Activation /\ Handler("on_close") \in Activation
  BY Records DEF Callbacks
<1>6. \/ stack' = Goto("ping") /\ UNCHANGED <<phase, conn, ping, out, closes>>
      \/ PollData(f) \/ PollPing(f) \/ PollPong(f) \/ PollClose(f)
  BY DEF PollRead
<1>7. UNCHANGED <<open, env>> BY DEF PollRead
<1> HIDE DEF f
<1>8. CASE stack' = Goto("ping") /\ UNCHANGED <<phase, conn, ping, out, closes>>
  <2>1. stack' \in Seq(Activation) BY <1>1, <1>8, Changed, BecomeOne DEF Goto, Become
  <2> QED BY <1>3, <1>7, <1>8, <2>1, TypeParts
          DEF Started, open, env, conn, ping, out, TypeOK, CallType, ConnType, PingType, OutType,
              Phases, Kinds, Message
<1>9. CASE PollData(f)
  <2>1. <<Handler(DataCallback(f))>> \o <<r>> = <<Handler(DataCallback(f)), r>>
    BY <1>5, TwoRecords, Zenon
  <2>2. stack' \in Seq(Activation)
    BY <1>1, <1>2, <1>5, <1>9, <2>1, BecomeTwo DEF PollData, Become
  <2> QED BY <1>3, <1>7, <1>9, <2>2, TypeParts
          DEF Started, PollData, open, env, conn, ping, out, TypeOK, CallType, ConnType, PingType,
              OutType, Phases, Kinds, Message
<1>10. CASE PollPing(f)
  <2>1. CallType' /\ OutType' /\ (phase' = "up" => phase = "up")
    BY <1>4, <1>10, SendType DEF PollPing, Kinds
  <2> QED BY <1>3, <1>7, <1>10, <2>1, TypeParts
          DEF Started, PollPing, open, env, conn, ping, TypeOK, ConnType, PingType, Message
<1>11. CASE PollPong(f)
  <2>1. m_last_rtt' \in UnsetReadings \cup 0 .. MaxClock /\ m_ping_timer' \in 0 .. MaxClock
    BY <1>11, ClockType DEF PollPong, Elapsed, TypeOK
  <2>2. m_ping_timer' \in {Unset} \cup 0 .. MaxClock /\ unanswered' \in 0 .. CloseCap
    BY <1>11, ClockType DEF PollPong, CloseCap
  <2>3. m_waiting_for_ping' \in BOOLEAN BY <1>11 DEF PollPong
  <2>4. PingType' BY <2>1, <2>2, <2>3 DEF PingType
  <2> QED BY <1>3, <1>4, <1>7, <1>11, <2>1, <2>4, TypeParts
          DEF Started, PollPong, open, env, conn, out, TypeOK, CallType, ConnType,
              OutType, Phases, Kinds, Message
<1>12. CASE PollClose(f)
  <2>1. stack' \in Seq(Activation) \/ Throw
    <3>1. <<Handler("on_close")>> \o << >> = <<Handler("on_close")>> OBVIOUS
    <3>2. Become(<<Handler("on_close")>> \o Closed) \in Seq(Activation)
      BY <1>1, <1>5, <3>1, BecomeOne DEF Become, Closed
    <3> QED BY <1>12, <3>2 DEF PollClose
  <2>2. CallType' /\ OutType' /\ (phase' = "up" => phase = "up")
    BY <1>12, <2>1, ThrowType, SentType DEF PollClose, CallType, TypeOK, Phases, Kinds
  <2>3. ConnType'
    BY <1>12 DEF PollClose, Shut, ConnType, Conn!ConnectionStatus, Conn!ClosedStatus
  <2>4. closes' \in 0 .. CloseCap
    BY <1>12 DEF PollClose, OnClose, Least, CloseCap, TypeOK
  <2> QED BY <1>3, <1>7, <1>12, <2>2, <2>3, <2>4, TypeParts
          DEF Started, PollClose, open, env, ping, TypeOK, PingType, Message
<1> QED BY <1>6, <1>8, <1>9, <1>10, <1>11, <1>12

\* update_ping keeps the types.
LEMMA UpdatePingType ==
  ASSUME TypeOK, NEW t, UpdatePing(t) PROVE TypeOK'
<1>1. Tail(stack) \in Seq(Activation) /\ phase \in Phases
  BY TailPops DEF UpdatePing, Running, TypeOK, Phases
<1>2. CallType' /\ PingType' /\ OutType' /\ Started
  <2>1. CASE SendPing(Tail(stack), phase) BY <1>1, <2>1, SendPingType
  <2>2. CASE ~SendPing(Tail(stack), phase)
    BY <1>1, <2>2 DEF UpdatePing, Started, TypeOK, ping, out, CallType, PingType, OutType, Phases, Kinds
  <2> QED BY <2>1, <2>2
<1>3. ConnType'
  BY DEF UpdatePing, Shut, conn, TypeOK, ConnType, Conn!ConnectionStatus, Conn!ClosedStatus
<1> QED BY <1>2, <1>3, TypeParts DEF UpdatePing, input, open, env, TypeOK, Message

\* So do the steps of close().
LEMMA CloseClearType == ASSUME TypeOK, CloseClear PROVE TypeOK'
<1>1. stack # << >> /\ stack \in Seq(Activation) /\ Head(stack) \in Activation
  BY NonEmpty DEF CloseClear, Running, TypeOK
<1>2. Goto("wait") \in Seq(Activation) BY <1>1, Changed, BecomeOne DEF Goto, Become
<1>3. CallType' /\ OutType' /\ (phase' = "up" => phase = "up")
  BY <1>2, SentType, ThrowType
  DEF CloseClear, CloseThrows, CallType, TypeOK, Phases, Kinds
<1>4. ConnType'
  BY DEF CloseClear, CloseThrows, Shut, conn, TypeOK, ConnType, Conn!ConnectionStatus,
         Conn!ClosedStatus
<1>5. buf' \in Seq(Message) BY DEF CloseClear
<1>6. part' \in BOOLEAN /\ lost' \in BOOLEAN BY DEF CloseClear, TypeOK
<1> QED BY <1>3, <1>4, <1>5, <1>6, TypeParts
        DEF Started, CloseClear, ping, open, env, TypeOK, PingType, Message

\* on_close is called over the close() that announces.
LEMMA AnnounceType ==
  ASSUME TypeOK, stack # << >>, NEW success, Announce(success)
  PROVE  stack' \in Seq(Activation) /\ closes' \in 0 .. CloseCap
<1>1. stack \in Seq(Activation) /\ Handler("on_close") \in Activation
  BY Records DEF TypeOK, Callbacks
<1>2. stack' \in Seq(Activation) BY <1>1, BecomeOne DEF Announce, Become
<1> QED BY <1>2 DEF Announce, OnClose, Least, CloseCap, TypeOK

\* A read in the loop of close() keeps the types.
LEMMA CloseReadType ==
  ASSUME TypeOK, NEW n \in Takes, NEW half \in BOOLEAN, NEW s \in Decoded(n),
         CloseRead(n, half, s)
  PROVE  TypeOK'
<1>1. stack # << >> /\ stack \in Seq(Activation) /\ Head(stack) \in Activation
  BY NonEmpty DEF CloseRead, Running, TypeOK
<1>2. /\ inq' \in Seq(Message) /\ buf' \in Seq(Message)
      /\ part' \in BOOLEAN /\ lost' \in BOOLEAN
  BY UpdateType DEF CloseRead
<1>3. Again \in Seq(Activation) BY <1>1, Changed, BecomeOne DEF Again, Become
<1>4. stack' \in Seq(Activation) /\ closes' \in 0 .. CloseCap
  BY <1>1, <1>3, AnnounceType DEF CloseRead, TypeOK
<1> QED BY <1>2, <1>4, TypeParts
        DEF Started, CloseRead, conn, ping, out, open, env, TypeOK, CallType, ConnType, PingType,
            OutType, Phases, Kinds, Message

\* The end of that loop keeps the types.
LEMMA CloseGivesUpType == ASSUME TypeOK, CloseGivesUp PROVE TypeOK'
<1>1. stack' \in Seq(Activation) /\ closes' \in 0 .. CloseCap
  BY AnnounceType DEF CloseGivesUp, Running
<1> QED BY <1>1, TypeParts
        DEF Started, CloseGivesUp, conn, ping, input, out, open, env, TypeOK, CallType, ConnType,
            PingType, OutType, Phases, Kinds, Message

\* So do the server and the clock.
LEMMA OutsideType == ASSUME TypeOK, Server \/ Tick PROVE TypeOK'
<1>1. CASE Tick
  <2>1. PingType' /\ m_ping_timer' \in 0 .. MaxClock
    BY <1>1, ClockType DEF Tick, PingType, TypeOK, Unset
  <2> QED BY <1>1, <2>1, TypeParts
          DEF Started, Tick, conn, input, out, open, env, TypeOK, CallType, ConnType,
              OutType, Phases, Kinds, Message
<1>2. CASE ServerGoesMute
  BY <1>2, TypeParts
  DEF Started, ServerGoesMute, conn, ping, input, out, open, TypeOK, CallType, ConnType, PingType,
      OutType, Phases, Kinds, Message
<1>3. ASSUME NEW x \in Message,
             NEW s \in {"idle", "accepting", "refusing", "open", "mute", "closed"}, Arrives(x, s)
      PROVE  TypeOK'
  <2>1. inq' \in Seq(Message) BY <1>3 DEF Arrives, TypeOK, Message
  <2> QED BY <1>3, <2>1, TypeParts
          DEF Started, Arrives, conn, ping, out, open, TypeOK, CallType, ConnType, PingType,
              OutType, Phases, Kinds, Message
<1>4. CASE ServerAnswers
  <2>1. "101" \in Message /\ "refusal" \in Message /\ "end" \in Message
    BY DEF Message, HandshakePiece
  <2> QED BY <1>3, <1>4, <2>1 DEF ServerAnswers
<1>5. ASSUME NEW f \in setup.frames, ServerSends(f) PROVE TypeOK'
  <2>1. f \in Message BY SetupType DEF Message
  <2>2. (IF f = "CLOSE" THEN "closed" ELSE srv)
          \in {"idle", "accepting", "refusing", "open", "mute", "closed"}
    BY DEF TypeOK
  <2> QED BY <1>3, <1>5, <2>1, <2>2 DEF ServerSends
<1> QED BY <1>1, <1>2, <1>4, <1>5 DEF Server

\* The types are kept by every step.
LEMMA NextType == TypeOK /\ [Next]_vars => TypeOK'
<1> SUFFICES ASSUME TypeOK, [Next]_vars PROVE TypeOK' OBVIOUS
<1>1. CASE User BY <1>1, ConstructType, CallsType, ReturnsType DEF User
<1>2. CASE Client
  BY <1>2, StartPingingType, CloseClearType, CloseGivesUpType, ReadThrowsType, ReturnsType,
     UpdatePingType, HandshakeReadType, PollReadType, CloseReadType DEF Client
<1>3. CASE Server \/ Tick BY <1>3, OutsideType
<1>4. CASE UNCHANGED vars
  BY <1>4, TypeParts
  DEF Started, vars, conn, ping, input, out, open, env, TypeOK, CallType, ConnType, PingType,
      OutType, Phases, Kinds, Message
<1> QED BY <1>1, <1>2, <1>3, <1>4 DEF Next

----------------------------------------------------------------------------
(***************************************************************************)
(* How a step carries the records of the stack over, and what that keeps.  *)
(***************************************************************************)
\* Lengths and domains of the stack before and after a step, and the users that
\* count as passive do not change.
Frame ==
  /\ Len(stack) \in Nat /\ DOMAIN stack = 1 .. Len(stack)
  /\ Len(stack') \in Nat /\ DOMAIN stack' = 1 .. Len(stack')
  /\ (stack = << >>) = (Len(stack) = 0) /\ (stack' = << >>) = (Len(stack') = 0)
  /\ stack # << >> => Head(stack) = stack[1] /\ stack[1] \in Activation
  /\ stack' # << >> => Head(stack') = stack'[1] /\ stack'[1] \in Activation
  /\ setup' = setup /\ (Passive' <=> Passive) /\ (DataEndsHere' <=> DataEndsHere)

\* A step that leaves the setup alone is such a frame.
LEMMA Framed == ASSUME TypeOK, TypeOK', setup' = setup PROVE Frame
<1>1. stack \in Seq(Activation) /\ stack' \in Seq(Activation) BY DEF TypeOK
<1>2. (Passive' <=> Passive) /\ (DataEndsHere' <=> DataEndsHere) BY DEF Passive, DataEndsHere
<1> QED BY <1>1, <1>2, NonEmpty DEF Frame

\* The record of the call that is running.
LEMMA TopIs ==
  ASSUME Frame, NEW fn, NEW l, Running(fn, l)
  PROVE  stack # << >> /\ stack[1].fn = fn /\ stack[1].pc = l /\ 1 \in DOMAIN stack
BY DEF Frame, Running

\* The first g records of the stack are gone, k new ones stand in front.
Carried(k, g) ==
  /\ k \in Nat /\ g \in {0, 1} /\ g <= Len(stack)
  /\ Len(stack') = Len(stack) - g + k
  /\ \A i \in k + 1 .. Len(stack') : i - k + g \in 1 .. Len(stack) /\ stack'[i] = stack[i - k + g]

\* A step inside the methods: neither the constructor's loop nor the life of the
\* object moves.
Plain(k, g) ==
  /\ Frame /\ Carried(k, g) /\ phase' = phase
  /\ \A i \in 1 .. k : stack'[i].fn \in Callbacks \cup {"poll", "close"}
  /\ k < Len(stack') \/ phase = "up"
  /\ g = 0 => k = 0 \/ stack = << >>
  /\ g = 1 => ~Running("ctor", "handshake")

\* The nesting of calls is kept by plain steps.
LEMMA PlainNesting ==
  ASSUME Nesting, NEW k, NEW g, Plain(k, g), phase \in {"new", "up"} \/ (k = 0 /\ g = 0)
  PROVE  Nesting'
<1> DEFINE l == Len(stack)
           m == Len(stack')
<1>1. /\ l \in Nat /\ m \in Nat /\ k \in Nat /\ g \in {0, 1} /\ g <= l /\ m = l - g + k
      /\ DOMAIN stack = 1 .. l /\ DOMAIN stack' = 1 .. m
      /\ (stack = << >>) = (l = 0) /\ (stack' = << >>) = (m = 0)
      /\ \A i \in k + 1 .. m : i - k + g \in 1 .. l /\ stack'[i] = stack[i - k + g]
      /\ \A i \in 1 .. k : stack'[i].fn \notin {"ctor", "dtor"}
      /\ (k < m \/ phase = "up") /\ phase' = phase /\ (g = 0 => k = 0 \/ stack = << >>)
      /\ (l # 0 /\ g = 1 => ~IsAt(1, "ctor", "handshake"))
  BY DEF Plain, Frame, Carried, Callbacks, DataCallbacks, Running, IsAt
<1>2. /\ \A i \in 1 .. l : stack[i].fn \in {"ctor", "dtor"} => i = l
      /\ \A i \in 1 .. l : IsAt(i, "ctor", "handshake") => i = 1
      /\ l # 0 => phase \in {"new", "up"} /\ (phase = "new" <=> stack[l].fn = "ctor")
  BY <1>1 DEF Nesting
<1> HIDE DEF l, m
<1>3. ASSUME NEW i \in 1 .. m PROVE stack'[i].fn \in {"ctor", "dtor"} => i = m
  BY <1>1, <1>2
<1>4. ASSUME NEW i \in 1 .. m PROVE IsAt(i, "ctor", "handshake")' => i = 1
  BY <1>1, <1>2 DEF IsAt
<1>5. m # 0 => phase' \in {"new", "up"} /\ (phase' = "new" <=> stack'[m].fn = "ctor")
  BY <1>1, <1>2
<1> QED BY <1>1, <1>3, <1>4, <1>5 DEF Nesting, m

\* So is the destructor's place behind its close().
LEMMA PlainDestructing ==
  ASSUME Destructing, NEW k, NEW g, Plain(k, g), m_connection_open' => m_connection_open,
         g = 0 \/ ~IsAt(1, "close", "clear") \/ ~m_connection_open'
  PROVE  Destructing'
<1> DEFINE l == Len(stack)
           m == Len(stack')
<1>1. /\ l \in Nat /\ m \in Nat /\ k \in Nat /\ g \in {0, 1} /\ g <= l /\ m = l - g + k
      /\ DOMAIN stack = 1 .. l /\ DOMAIN stack' = 1 .. m
      /\ \A i \in k + 1 .. m : i - k + g \in 1 .. l /\ stack'[i] = stack[i - k + g]
      /\ \A i \in 1 .. k : stack'[i].fn # "dtor"
  BY DEF Plain, Frame, Carried, Callbacks, DataCallbacks
<1> HIDE DEF l, m
<1>2. SUFFICES ASSUME NEW i \in 1 .. m, stack'[i].fn = "dtor", m_connection_open'
               PROVE  i > 1 /\ IsAt(i - 1, "close", "clear")'
  BY <1>1 DEF Destructing
<1>3. i \in k + 1 .. m BY <1>1, <1>2
<1>4. stack'[i] = stack[i - k + g] /\ i - k + g \in 1 .. l BY <1>1, <1>3
<1>5. i - k + g > 1 /\ IsAt(i - k + g - 1, "close", "clear")
  BY <1>1, <1>2, <1>4 DEF Destructing
<1>6. i - k + g - 1 # g
  <2>1. CASE g = 1 BY <2>1, <1>2, <1>5
  <2>2. CASE g = 0 BY <2>2, <1>5, <1>3, <1>1
  <2> QED BY <2>1, <2>2, <1>1
<1>7. i - 1 \in k + 1 .. m BY <1>1, <1>3, <1>5, <1>6
<1>8. stack'[i - 1] = stack[i - k + g - 1]
  <2>1. stack'[i - 1] = stack[(i - 1) - k + g] BY <1>1, <1>7
  <2>2. (i - 1) - k + g = i - k + g - 1 BY <1>1, <1>7
  <2> QED BY <2>1, <2>2
<1> QED BY <1>1, <1>5, <1>7, <1>8 DEF IsAt

\* So is the promise of an on_close.
LEMMA PlainAnnounced ==
  ASSUME Announced, NEW k, NEW g, Plain(k, g), closes' >= closes, closes \in Nat, closes' \in Nat,
         \/ m_status' = m_status
         \/ m_status' \notin {"CLOSED_BY_SERVER", "CLOSED_BY_CLIENT"}
         \/ closes' > 0 \/ \E i \in 1 .. k : IsAt(i, "close", "wait")',
         g = 0 \/ ~IsAt(1, "close", "wait") \/ closes' > 0 \/ \E i \in 1 .. k : IsAt(i, "close", "wait")'
  PROVE  Announced'
<1> DEFINE l == Len(stack)
           m == Len(stack')
<1>1. /\ l \in Nat /\ m \in Nat /\ k \in Nat /\ g \in {0, 1} /\ g <= l /\ m = l - g + k
      /\ DOMAIN stack = 1 .. l /\ DOMAIN stack' = 1 .. m /\ setup' = setup /\ phase' = phase
      /\ \A i \in k + 1 .. m : i - k + g \in 1 .. l /\ stack'[i] = stack[i - k + g]
  BY DEF Plain, Frame, Carried
<1> HIDE DEF l, m
<1>2. SUFFICES ASSUME phase # "overflow", ~setup.send_fails /\ ~setup.read_fails,
                      m_status' \in {"CLOSED_BY_SERVER", "CLOSED_BY_CLIENT"}, ~(closes' > 0),
                      ~ \E i \in 1 .. k : IsAt(i, "close", "wait")'
               PROVE  \E i \in 1 .. m : IsAt(i, "close", "wait")'
  <2>1. k <= m BY <1>1
  <2>2. 1 .. k \subseteq 1 .. m BY <1>1, <2>1
  <2> QED BY <1>1, <2>2 DEF Announced
<1>3. PICK j \in 1 .. l : IsAt(j, "close", "wait")
  BY <1>1, <1>2 DEF Announced
<1>4. j > g BY <1>1, <1>2, <1>3
<1>5. j + k - g \in k + 1 .. m /\ (j + k - g) - k + g = j BY <1>1, <1>3, <1>4
<1>6. stack'[j + k - g] = stack[j] BY <1>1, <1>5
<1>7. j + k - g \in 1 .. m BY <1>1, <1>5
<1> QED BY <1>3, <1>6, <1>7 DEF IsAt

\* So is what brings poll() to update_ping.
LEMMA PlainAtPing ==
  ASSUME AtPing, NEW k, NEW g, Plain(k, g), g = 0 => buf' = buf \/ stack = << >>,
         \A i \in 1 .. k : IsAt(i, "poll", "ping")' => 
            stack'[i].n >= MaxReads \/ (i = 1 /\ buf' = << >>)
  PROVE  AtPing'
<1> DEFINE l == Len(stack)
           m == Len(stack')
<1>1. /\ l \in Nat /\ m \in Nat /\ k \in Nat /\ g \in {0, 1} /\ g <= l /\ m = l - g + k
      /\ DOMAIN stack = 1 .. l /\ DOMAIN stack' = 1 .. m /\ (stack = << >>) = (l = 0)
      /\ \A i \in k + 1 .. m : i - k + g \in 1 .. l /\ stack'[i] = stack[i - k + g]
      /\ (g = 0 => k = 0 \/ l = 0)
  BY DEF Plain, Frame, Carried
<1> HIDE DEF l, m
<1>2. SUFFICES ASSUME NEW i \in k + 1 .. m, IsAt(i, "poll", "ping")'
               PROVE  stack'[i].n >= MaxReads \/ (i = 1 /\ buf' = << >>)
  BY <1>1 DEF AtPing
<1>3. stack'[i] = stack[i - k + g] /\ i - k + g \in 1 .. l BY <1>1
<1>4. stack[i - k + g].n >= MaxReads \/ (i - k + g = 1 /\ buf = << >>)
  BY <1>1, <1>2, <1>3 DEF AtPing, IsAt
<1>5. CASE stack[i - k + g].n >= MaxReads BY <1>3, <1>5
<1>6. CASE i - k + g = 1 /\ buf = << >> BY <1>1, <1>3, <1>6
<1> QED BY <1>4, <1>5, <1>6

\* So is the agreement of the status with the life of the object.
LEMMA PlainStatus ==
  ASSUME Nesting, StatusAt, NEW k, NEW g, Plain(k, g),
         m_status \in Used => m_status' \in Used,
         m_connection_open' <=> m_status' = "HEALTHY",
         (g = 0 /\ k = 0) => UNCHANGED conn
  PROVE  StatusAt'
<1> DEFINE l == Len(stack)
           m == Len(stack')
<1>1. /\ l \in Nat /\ m \in Nat /\ k \in Nat /\ g \in {0, 1} /\ g <= l /\ m = l - g + k
      /\ DOMAIN stack = 1 .. l /\ DOMAIN stack' = 1 .. m
      /\ (stack = << >>) = (l = 0) /\ (stack' = << >>) = (m = 0)
      /\ \A i \in k + 1 .. m : i - k + g \in 1 .. l /\ stack'[i] = stack[i - k + g]
      /\ \A i \in 1 .. k : stack'[i].fn # "ctor"
      /\ (k < m \/ phase = "up") /\ phase' = phase /\ (g = 0 => k = 0 \/ l = 0)
      /\ (l # 0 /\ g = 1 => ~IsAt(1, "ctor", "handshake"))
      /\ Running("ctor", "handshake") <=> l # 0 /\ IsAt(1, "ctor", "handshake")
      /\ Running("ctor", "handshake")' <=> m # 0 /\ IsAt(1, "ctor", "handshake")'
  BY DEF Plain, Frame, Carried, Callbacks, DataCallbacks, Running, IsAt
<1>2. \A i \in 1 .. l : IsAt(i, "ctor", "handshake") => i = 1
  BY <1>1 DEF Nesting
<1> HIDE DEF l, m
<1>3. CASE g = 0 /\ k = 0
  <2>1. m = l /\ (l # 0 => stack'[1] = stack[1]) BY <1>1, <1>3
  <2>2. UNCHANGED <<m_status, m_connection_open>> BY <1>3 DEF conn
  <2> QED BY <1>1, <2>1, <2>2 DEF StatusAt, IsAt
<1>4. CASE g = 0 /\ l = 0
  <2>1. phase = "up" BY <1>1, <1>4
  <2> QED BY <1>1, <2>1 DEF StatusAt
<1>5. CASE g = 1
  <2>1. l # 0 /\ phase \in {"new", "up"} BY <1>1, <1>5 DEF Nesting
  <2>2. m_status \in Used BY <1>1, <1>5, <2>1 DEF StatusAt
  <2>3. m # 0 \/ phase = "up" BY <1>1
  <2>4. ~(m # 0 /\ IsAt(1, "ctor", "handshake")')
    BY <1>1, <1>2, <1>5 DEF IsAt
  <2> QED BY <1>1, <2>1, <2>2, <2>3, <2>4 DEF StatusAt
<1> QED BY <1>1, <1>3, <1>4, <1>5

\* What new records may not be: on_open's, unless its own record is the one that
\* is replaced, and one that goes on behind the end of an open connection.
Roomy(k, g) ==
  \A i \in 1 .. k :
    /\ stack'[i].fn = "on_open" => i = k /\ g = 1 /\ stack[1].fn = "on_open"
    /\ stack'[i].fn = "on_close" \/ IsAt(i, "close", "wait")' => ~m_connection_open'

\* Then the places of on_open and on_close are kept.
LEMMA PlainRoom ==
  ASSUME Room, NEW k, NEW g, Plain(k, g), Roomy(k, g), m_connection_open' => m_connection_open
  PROVE  Room'
<1> DEFINE l == Len(stack)
           m == Len(stack')
<1>1. /\ l \in Nat /\ m \in Nat /\ k \in Nat /\ g \in {0, 1} /\ g <= l /\ m = l - g + k
      /\ DOMAIN stack = 1 .. l /\ DOMAIN stack' = 1 .. m
      /\ \A i \in k + 1 .. m : i - k + g \in 1 .. l /\ stack'[i] = stack[i - k + g]
      /\ phase' = phase /\ (DataEndsHere' <=> DataEndsHere)
  BY DEF Plain, Frame, Carried
<1> HIDE DEF l, m
<1>2. ASSUME NEW i \in 1 .. m, stack'[i].fn = "on_open" PROVE i + 1 = m
  <2>1. CASE i <= k
    <3>1. i = k /\ g = 1 /\ stack[1].fn = "on_open" BY <1>1, <1>2, <2>1 DEF Roomy
    <3>2. 1 + 1 = l BY <1>1, <3>1 DEF Room, l
    <3> QED BY <1>1, <3>1, <3>2
  <2>2. CASE i > k
    <3>1. i - k + g \in 1 .. l /\ stack[i - k + g].fn = "on_open" BY <1>1, <1>2, <2>2
    <3>2. (i - k + g) + 1 = l BY <1>1, <3>1 DEF Room, l
    <3> QED BY <1>1, <3>2
  <2> QED BY <1>1, <2>1, <2>2
<1>3. ASSUME NEW i \in 1 .. m, stack'[i].fn = "on_close" \/ IsAt(i, "close", "wait")'
      PROVE  ~m_connection_open'
  <2>1. CASE i <= k BY <1>1, <1>3, <2>1 DEF Roomy
  <2>2. CASE i > k
    <3>1. i - k + g \in 1 .. l /\ stack'[i] = stack[i - k + g] BY <1>1, <2>2
    <3>2. stack[i - k + g].fn = "on_close" \/ IsAt(i - k + g, "close", "wait")
      BY <1>3, <3>1 DEF IsAt
    <3> QED BY <1>1, <3>1, <3>2 DEF Room
  <2> QED BY <1>1, <2>1, <2>2
<1>4. DataEndsHere' => phase' # "overflow" BY <1>1 DEF Room
<1> QED BY <1>1, <1>2, <1>3, <1>4 DEF Room, m

\* A record on top that is no handler's has no poll() under it.
LEMMA NoPollBelow ==
  ASSUME OnePoll, Passive, DOMAIN stack = 1 .. Len(stack), Len(stack) \in Nat,
         stack[1].fn \notin Callbacks
  PROVE  \A i \in 2 .. Len(stack) : stack[i].fn # "poll"
<1> SUFFICES ASSUME NEW i \in 2 .. Len(stack), stack[i].fn = "poll" PROVE FALSE OBVIOUS
<1>1. i \in DOMAIN stack /\ 1 \in DOMAIN stack /\ 1 < i OBVIOUS
<1> QED BY <1>1 DEF OnePoll

\* The single poll() of passive users stays as it is under new handlers.
LEMMA PlainSamePoll ==
  ASSUME OnePoll, NEW k, NEW g, Plain(k, g), Passive => m_connection_open' = m_connection_open,
         Passive => \A i \in 1 .. k : stack'[i].fn \in Callbacks
  PROVE  OnePoll'
<1> DEFINE l == Len(stack)
           m == Len(stack')
<1>1. /\ l \in Nat /\ m \in Nat /\ k \in Nat /\ g \in {0, 1} /\ g <= l /\ m = l - g + k
      /\ DOMAIN stack = 1 .. l /\ DOMAIN stack' = 1 .. m /\ (Passive' <=> Passive)
      /\ phase' = phase
      /\ \A i \in k + 1 .. m : i - k + g \in 1 .. l /\ stack'[i] = stack[i - k + g]
  BY DEF Plain, Frame, Carried
<1> HIDE DEF l, m
<1>2. SUFFICES ASSUME Passive, NEW i \in 1 .. m, stack'[i].fn = "poll"
               PROVE  /\ m_connection_open' /\ phase' = "up"
                      /\ \A j \in 1 .. m : j < i => stack'[j].fn \in Callbacks
                      /\ \A j \in 1 .. m : j > i => stack'[j].fn # "poll"
  BY <1>1 DEF OnePoll
<1>3. i \in k + 1 .. m BY <1>1, <1>2 DEF Callbacks, DataCallbacks
<1>4. i - k + g \in 1 .. l /\ stack[i - k + g].fn = "poll" BY <1>1, <1>2, <1>3
<1>5. /\ m_connection_open /\ phase = "up"
      /\ \A j \in 1 .. l : j < i - k + g => stack[j].fn \in Callbacks
      /\ \A j \in 1 .. l : j > i - k + g => stack[j].fn # "poll"
  BY <1>1, <1>2, <1>4 DEF OnePoll
<1>6. ASSUME NEW j \in 1 .. m, j < i PROVE stack'[j].fn \in Callbacks
  <2>1. CASE j <= k BY <1>1, <1>2, <2>1
  <2>2. CASE j > k
    <3>1. j - k + g \in 1 .. l /\ stack'[j] = stack[j - k + g] BY <1>1, <2>2
    <3>2. j - k + g < i - k + g BY <1>1, <1>6
    <3> QED BY <1>5, <3>1, <3>2
  <2> QED BY <1>1, <2>1, <2>2
<1>7. ASSUME NEW j \in 1 .. m, j > i PROVE stack'[j].fn # "poll"
  <2>1. j - k + g \in 1 .. l /\ stack'[j] = stack[j - k + g] BY <1>1, <1>3, <1>7
  <2>2. j - k + g > i - k + g BY <1>1, <1>7
  <2> QED BY <1>5, <2>1, <2>2
<1> QED BY <1>1, <1>2, <1>5, <1>6, <1>7

\* The single poll() of passive users comes and goes with the record on top.
LEMMA PlainTopPoll ==
  ASSUME NEW k, NEW g, Plain(k, g),
         Passive => \A i \in g + 1 .. Len(stack) : stack[i].fn # "poll",
         Passive => \A i \in 1 .. k : stack'[i].fn = "poll" =>
                      /\ m_connection_open' /\ phase = "up"
                      /\ \A j \in 1 .. k : j < i => stack'[j].fn \in Callbacks
                      /\ \A j \in 1 .. k : j > i => stack'[j].fn # "poll"
  PROVE  OnePoll'
<1> DEFINE l == Len(stack)
           m == Len(stack')
<1>1. /\ l \in Nat /\ m \in Nat /\ k \in Nat /\ g \in {0, 1} /\ g <= l /\ m = l - g + k
      /\ DOMAIN stack = 1 .. l /\ DOMAIN stack' = 1 .. m /\ (Passive' <=> Passive)
      /\ phase' = phase
      /\ \A i \in k + 1 .. m : i - k + g \in 1 .. l /\ stack'[i] = stack[i - k + g]
      /\ Passive => \A i \in g + 1 .. l : stack[i].fn # "poll"
  BY DEF Plain, Frame, Carried
<1> HIDE DEF l, m
<1>2. SUFFICES ASSUME Passive, NEW i \in 1 .. m, stack'[i].fn = "poll"
               PROVE  /\ m_connection_open' /\ phase' = "up"
                      /\ \A j \in 1 .. m : j < i => stack'[j].fn \in Callbacks
                      /\ \A j \in 1 .. m : j > i => stack'[j].fn # "poll"
  BY <1>1 DEF OnePoll
<1>3. ASSUME NEW j \in k + 1 .. m PROVE stack'[j].fn # "poll"
  <2>1. stack'[j] = stack[j - k + g] /\ j - k + g \in g + 1 .. l BY <1>1
  <2> QED BY <1>1, <1>2, <2>1
<1>4. i \in 1 .. k BY <1>1, <1>2, <1>3
<1>5. ASSUME NEW j \in 1 .. m, j > i PROVE stack'[j].fn # "poll"
  <2>1. j \in 1 .. k \/ j \in k + 1 .. m BY <1>1
  <2> QED BY <1>2, <1>3, <1>4, <1>5, <2>1
<1>6. \A j \in 1 .. m : j < i => j \in 1 .. k BY <1>1, <1>4
<1> QED BY <1>1, <1>2, <1>4, <1>5, <1>6

\* Each way the stack changes carries its records over.
LEMMA CarriedBy ==
  ASSUME Frame
  PROVE  /\ stack' = stack => Carried(0, 0)
         /\ Popped(stack, stack') /\ stack # << >> => Carried(0, 1)
         /\ \A r : Top(stack, stack', r) /\ stack # << >> => Carried(1, 1)
         /\ \A r, q : Over(stack, stack', r, q) /\ stack # << >> => Carried(2, 1)
         /\ \A r, q, d : Over2(stack, stack', r, q, d) /\ stack # << >> => Carried(3, 1)
<1> DEFINE l == Len(stack)
           m == Len(stack')
<1>1. l \in Nat /\ m \in Nat /\ (stack # << >> => l > 0) BY DEF Frame
<1>2. stack' = stack => Carried(0, 0) BY <1>1 DEF Carried
<1>3. Popped(stack, stack') /\ stack # << >> => Carried(0, 1)
  <2> SUFFICES ASSUME Popped(stack, stack'), stack # << >> PROVE Carried(0, 1) OBVIOUS
  <2>1. m = l - 1 /\ \A i \in 1 .. m : stack'[i] = stack[i + 1] BY DEF Popped
  <2> HIDE DEF l, m
  <2>2. \A i \in 0 + 1 .. m : i - 0 + 1 \in 1 .. l /\ stack'[i] = stack[i - 0 + 1] BY <1>1, <2>1
  <2> QED BY <1>1, <2>1, <2>2 DEF Carried, l, m
<1>4. ASSUME NEW r, Top(stack, stack', r), stack # << >> PROVE Carried(1, 1)
  <2>1. m = l /\ \A i \in 2 .. m : stack'[i] = stack[i] BY <1>4 DEF Top
  <2> HIDE DEF l, m
  <2>2. \A i \in 1 + 1 .. m : i - 1 + 1 \in 1 .. l /\ stack'[i] = stack[i - 1 + 1] BY <1>1, <2>1
  <2> QED BY <1>1, <1>4, <2>1, <2>2 DEF Carried, l, m
<1>5. ASSUME NEW r, NEW q, Over(stack, stack', r, q), stack # << >> PROVE Carried(2, 1)
  <2>1. m = l + 1 /\ \A i \in 3 .. m : stack'[i] = stack[i - 1] BY <1>5 DEF Over
  <2> HIDE DEF l, m
  <2>2. \A i \in 2 + 1 .. m : i - 2 + 1 \in 1 .. l /\ stack'[i] = stack[i - 2 + 1] BY <1>1, <2>1
  <2> QED BY <1>1, <1>5, <2>1, <2>2 DEF Carried, l, m
<1>6. ASSUME NEW r, NEW q, NEW d, Over2(stack, stack', r, q, d), stack # << >>
      PROVE  Carried(3, 1)
  <2>1. m = l + 2 /\ \A i \in 4 .. m : stack'[i] = stack[i - 2] BY <1>6 DEF Over2
  <2> HIDE DEF l, m
  <2>2. \A i \in 3 + 1 .. m : i - 3 + 1 \in 1 .. l /\ stack'[i] = stack[i - 3 + 1] BY <1>1, <2>1
  <2> QED BY <1>1, <1>6, <2>1, <2>2 DEF Carried, l, m
<1> QED BY <1>2, <1>3, <1>4, <1>5, <1>6

\* A step of a method or a handler is plain.
LEMMA PlainStep ==
  ASSUME Nesting, Frame, NEW k, Carried(k, 1), phase' = phase,
         stack # << >>, stack[1].fn \notin {"ctor", "dtor"},
         \A i \in 1 .. k : stack'[i].fn \in Callbacks \cup {"poll", "close"}
  PROVE  Plain(k, 1) /\ phase \in {"new", "up"}
<1> DEFINE l == Len(stack)
           m == Len(stack')
<1>1. l \in Nat \ {0} /\ k \in Nat /\ m = l - 1 + k BY DEF Frame, Carried
<1>2. l > 1 \/ phase = "up" BY <1>1 DEF Nesting
<1>3. k < m \/ phase = "up" BY <1>1, <1>2
<1>4. ~Running("ctor", "handshake") BY DEF Frame, Running
<1> QED BY <1>3, <1>4 DEF Plain, Nesting

\* A step that touches nothing the invariant is about.
LEMMA Untouched ==
  ASSUME Inv, TypeOK',
         UNCHANGED <<setup, phase, stack, conn, buf, closes, out, unanswered, m_waiting_for_ping>>
  PROVE  Inv'
<1>1. UNCHANGED <<setup, phase, stack, m_status, m_connection_open, buf, closes, outClosed,
                  after, unanswered, m_waiting_for_ping>>
  BY DEF conn, out
<1>2. Nesting' BY <1>1 DEF Inv, Nesting, IsAt
<1>3. StatusAt' BY <1>1 DEF Inv, StatusAt, Running
<1>4. Destructing' BY <1>1 DEF Inv, Destructing, IsAt
<1>5. Announced' BY <1>1 DEF Inv, Announced, IsAt
<1>6. AtPing' BY <1>1 DEF Inv, AtPing, IsAt
<1>7. OnePoll' BY <1>1 DEF Inv, OnePoll, Passive
<1>8. Quiet' BY <1>1 DEF Inv, Quiet, Passive
<1>9. Room' BY <1>1 DEF Inv, Room, IsAt, DataEndsHere
<1> QED BY <1>2, <1>3, <1>4, <1>5, <1>6, <1>7, <1>8, <1>9 DEF Inv

\* The same for a step that empties the stack.
LEMMA Emptied ==
  ASSUME Inv, TypeOK', stack' = << >>, StatusAt', Announced', Quiet',
         DataEndsHere' => phase' # "overflow"
  PROVE  Inv'
BY DEF Inv, Nesting, Destructing, AtPing, OnePoll, Room

\* An exception leaves a client that is up, or an object that is no more.
LEMMA Unwound ==
  ASSUME Inv, Frame, Unwind, stack # << >> \/ phase = "up"
  PROVE  /\ stack' = << >>
         /\ phase' \in {"failed", "terminated"} \/ (phase' = "up" /\ phase = "up")
<1>1. CASE stack = << >> BY <1>1 DEF Unwind
<1>2. CASE stack # << >>
  BY <1>2 DEF Unwind, Inv, Nesting
<1> QED BY <1>1, <1>2

\* Out of the constructor it leaves no object.
LEMMA UnwoundConstructor ==
  ASSUME Unwind, stack # << >>, stack[Len(stack)].fn = "ctor"
  PROVE  stack' = << >> /\ phase' = "failed"
BY DEF Unwind

----------------------------------------------------------------------------
(***************************************************************************)
(* The invariant, action by action.                                        *)
(***************************************************************************)
\* A send or a read throws; the ping timer may have been started before.
LEMMA ThrownInv ==
  ASSUME Inv, TypeOK', Frame, Unwind, stack # << >> \/ phase = "up",
         setup.send_fails \/ setup.read_fails, UNCHANGED out, UNCHANGED unanswered,
         m_waiting_for_ping => m_waiting_for_ping',
         m_status \in Used => m_status' \in Used,
         m_status \in Conn!ClosedStatus => m_status' \in Conn!ClosedStatus,
         m_connection_open' <=> m_status' = "HEALTHY"
  PROVE  Inv'
<1>1. stack' = << >> /\ (phase' \in {"failed", "terminated"} \/ (phase' = "up" /\ phase = "up"))
  BY Unwound
<1>2. StatusAt' BY <1>1 DEF Inv, StatusAt
<1>3. Announced' BY DEF Announced, Frame
<1>4. Quiet'
  <2>1. (Passive' <=> Passive) /\ outClosed' = outClosed /\ after' = after
        /\ unanswered' = unanswered /\ phase' # "new"
    BY <1>1 DEF Frame, out
  <2> QED BY <2>1 DEF Inv, Quiet
<1> QED BY <1>1, <1>2, <1>3, <1>4, Emptied

\* A read that throws, in any of the three loops.
LEMMA ReadThrowsInv == ASSUME Inv, TypeOK', ReadThrows PROVE Inv'
<1>1. Frame BY Framed DEF Inv, ReadThrows, env
<1>2. Unwind /\ setup.read_fails /\ stack # << >>
  BY DEF ReadThrows, Running
<1>3. UNCHANGED <<m_status, m_connection_open, m_waiting_for_ping, unanswered>> /\ UNCHANGED out
  BY DEF ReadThrows, conn, ping
<1> QED BY <1>1, <1>2, <1>3, ThrownInv DEF Inv, StatusAt

\* The constructor.
LEMMA ConstructInv == ASSUME Inv, TypeOK', Construct PROVE Inv'
<1>1. Frame BY Framed DEF Inv, Construct, env
<1>2. UNCHANGED <<m_status, m_connection_open, buf, closes, outClosed, after,
                  unanswered, m_waiting_for_ping>>
  BY DEF Construct, conn, ping, input, out
<1>3. phase = "new" /\ stack = << >> /\ m_status = "UNKNOWN" BY DEF Construct, Inv, StatusAt
<1>4. CASE stack' = <<Call("ctor", "handshake")>> /\ UNCHANGED phase
  <2>1. /\ Len(stack') = 1 /\ stack' # << >> /\ DOMAIN stack' = 1 .. 1
        /\ stack'[1].fn = "ctor" /\ stack'[1].pc = "handshake" /\ Head(stack') = stack'[1]
    BY <1>4 DEF Call
  <2>2. Nesting' BY <1>3, <1>4, <2>1 DEF Nesting, IsAt
  <2>3. StatusAt' BY <1>2, <1>3, <1>4, <2>1 DEF Inv, StatusAt, Running
  <2>4. Destructing' /\ AtPing' /\ OnePoll' BY <2>1 DEF Destructing, AtPing, OnePoll, IsAt
  <2>5. Announced' BY <1>2, <1>3 DEF Announced
  <2>6. Quiet' BY <1>1, <1>2, <1>4 DEF Inv, Quiet, Frame
  <2>7. Room' BY <1>3, <1>4, <2>1 DEF Room, IsAt
  <2> QED BY <2>2, <2>3, <2>4, <2>5, <2>6, <2>7 DEF Inv
<1>5. CASE phase' = "failed" /\ UNCHANGED stack
  <2>1. StatusAt' BY <1>2, <1>5 DEF Inv, StatusAt
  <2>2. Announced' BY <1>2, <1>3 DEF Announced
  <2>3. Quiet' BY <1>1, <1>2, <1>5 DEF Inv, Quiet, Frame
  <2> QED BY <1>3, <1>5, <2>1, <2>2, <2>3, Emptied
<1> QED BY <1>4, <1>5 DEF Construct

\* While the constructor runs its loop it is alone on the stack.
LEMMA InLoop ==
  ASSUME Inv, Running("ctor", "handshake")
  PROVE  /\ Len(stack) = 1 /\ stack[1].fn = "ctor" /\ stack[1].pc = "handshake"
         /\ phase = "new" /\ m_status = "UNKNOWN" /\ ~m_connection_open /\ stack # << >>
<1>1. stack # << >> /\ stack \in Seq(Activation) BY DEF Running, Inv, TypeOK
<1>2. Head(stack) = stack[1] /\ 1 \in DOMAIN stack BY <1>1, NonEmpty
<1>3. stack[1].fn = "ctor" /\ stack[1].pc = "handshake" BY <1>2 DEF Running
<1>4. Len(stack) = 1 BY <1>2, <1>3 DEF Inv, Nesting
<1>5. phase = "new" BY <1>1, <1>3, <1>4 DEF Inv, Nesting
<1>6. m_status = "UNKNOWN" BY <1>5 DEF Inv, StatusAt
<1> QED BY <1>1, <1>3, <1>4, <1>5, <1>6 DEF Inv, StatusAt

\* A read in the handshake loop: it waits, opens, or fails.
LEMMA HandshakeReadInv ==
  ASSUME Inv, TypeOK', NEW n \in Takes, NEW half \in BOOLEAN, HandshakeRead(n, half)
  PROVE  Inv'
<1> DEFINE on == <<Handler("on_open"), Call("ctor", "opened")>>
<1>1. Frame BY Framed DEF Inv, HandshakeRead, env
<1>2. /\ Len(stack) = 1 /\ stack[1].fn = "ctor" /\ stack[1].pc = "handshake"
      /\ phase = "new" /\ m_status = "UNKNOWN" /\ ~m_connection_open /\ stack # << >>
  BY InLoop DEF HandshakeRead
<1>3. stack \in Seq(Activation) /\ stack[1] \in Activation /\ Head(stack) = stack[1]
  BY <1>2, NonEmpty DEF Inv, TypeOK
<1>4. UNCHANGED <<buf, closes, outClosed, after, unanswered, m_waiting_for_ping>>
  BY DEF HandshakeRead, ping, out
<1>5. /\ Passive' <=> Passive
      /\ unanswered > 0 => ~Passive
      /\ DOMAIN stack' = 1 .. Len(stack') /\ (stack' # << >> => Head(stack') = stack'[1])
      /\ setup' = setup
  BY <1>1, <1>2 DEF Frame, Inv, Quiet
<1>6. CASE stack' = Again /\ UNCHANGED <<phase, conn>>
  <2>1. Top(stack, stack', [stack[1] EXCEPT !.n = @ + 1])
    BY <1>2, <1>3, <1>6, Changed, BecomeOne DEF Again, Become
  <2>2. /\ Len(stack') = 1 /\ stack' # << >>
        /\ stack'[1].fn = "ctor" /\ stack'[1].pc = "handshake"
    BY <1>1, <1>2, <1>3, <2>1 DEF Top, Activation, Frame
  <2>3. UNCHANGED <<m_status, m_connection_open, phase>> BY <1>6 DEF conn
  <2>4. Nesting' BY <1>2, <1>5, <2>2, <2>3 DEF Nesting, IsAt
  <2>5. StatusAt' BY <1>2, <1>5, <2>2, <2>3 DEF Inv, StatusAt, Running
  <2>6. Destructing' /\ AtPing' /\ OnePoll'
    BY <1>5, <2>2 DEF Destructing, AtPing, OnePoll, IsAt
  <2>7. Announced' BY <1>2, <2>3 DEF Announced
  <2>8. Quiet' BY <1>4, <1>5, <2>3 DEF Inv, Quiet
  <2>9. Room' BY <1>2, <1>5, <2>2, <2>3 DEF Room, IsAt
  <2> QED BY <2>4, <2>5, <2>6, <2>7, <2>8, <2>9 DEF Inv
<1>7. CASE /\ m_connection_open' = TRUE /\ m_status' = "HEALTHY"
           /\ stack' = Become(on) /\ UNCHANGED phase
  <2>1. Over(stack, stack', Handler("on_open"), Call("ctor", "opened"))
    BY <1>2, <1>3, <1>7, Records, BecomeTwo DEF Become, Callbacks
  <2>2. /\ Len(stack') = 2 /\ stack' # << >> /\ stack'[1].fn = "on_open"
        /\ stack'[2].fn = "ctor" /\ stack'[2].pc = "opened"
    BY <1>1, <1>2, <2>1 DEF Over, Handler, Call, Frame
  <2>3. Nesting'
    <3>1. \A i \in DOMAIN stack' : i = 1 \/ i = 2 BY <1>5, <2>2
    <3> QED BY <1>2, <1>7, <2>2, <3>1 DEF Nesting, IsAt
  <2>4. StatusAt' BY <1>2, <1>5, <1>7, <2>2 DEF StatusAt, Running, Used
  <2>5. Destructing' /\ AtPing' /\ OnePoll'
    BY <1>5, <2>2 DEF Destructing, AtPing, OnePoll, IsAt
  <2>6. Announced' BY <1>7 DEF Announced
  <2>7. Quiet' 
    BY <1>2, <1>4, <1>5, <1>7 DEF Inv, Quiet, Conn!ClosedStatus
  <2>8. Room'
    <3>1. \A i \in DOMAIN stack' : i = 1 \/ i = 2 BY <1>5, <2>2
    <3>2. /\ stack'[1].fn # "on_close" /\ stack'[2].fn # "on_open" /\ stack'[2].fn # "on_close"
          /\ ~IsAt(1, "close", "wait")' /\ ~IsAt(2, "close", "wait")' /\ 1 + 1 = Len(stack')
          /\ phase' # "overflow"
      BY <1>2, <1>7, <2>2 DEF IsAt
    <3>3. \A i \in DOMAIN stack' : stack'[i].fn = "on_open" => i + 1 = Len(stack') BY <3>1, <3>2
    <3> QED BY <3>1, <3>2, <3>3, Zenon DEF Room
  <2> QED BY <2>3, <2>4, <2>5, <2>6, <2>7, <2>8 DEF Inv
<1>8. CASE m_status' = "FAILED" /\ Unwind /\ UNCHANGED m_connection_open
  <2>1. stack' = << >> /\ phase' = "failed"
    <3>1. stack[Len(stack)].fn = "ctor" BY <1>2
    <3> QED BY <1>2, <1>8, <3>1, UnwoundConstructor
  <2>2. StatusAt' BY <1>2, <1>8, <2>1 DEF StatusAt
  <2>3. Announced' BY <1>8 DEF Announced
  <2>4. Quiet' BY <1>2, <1>4, <1>5, <1>8, <2>1 DEF Inv, Quiet, Conn!ClosedStatus
  <2> QED BY <2>1, <2>2, <2>3, <2>4, Emptied
<1> QED BY <1>6, <1>7, <1>8 DEF HandshakeRead

\* The end of the constructor.
LEMMA StartPingingInv == ASSUME Inv, TypeOK', StartPinging PROVE Inv'
<1>1. Frame BY Framed DEF Inv, StartPinging, env
<1>2. stack # << >> /\ stack[1].fn = "ctor" /\ stack[1].pc = "opened" /\ 1 \in DOMAIN stack
  BY <1>1 DEF StartPinging, Running, Frame
<1>3. Len(stack) = 1 BY <1>2 DEF Inv, Nesting
<1>4. phase = "new" BY <1>2, <1>3 DEF Inv, Nesting
<1>5. m_status \in Used BY <1>1, <1>2, <1>4 DEF Inv, StatusAt, Running, Frame
<1>6. UNCHANGED <<m_status, m_connection_open, closes>> BY DEF StartPinging, conn
<1>7. CASE m_connection_open
  <2>1. SendPing(<< >>, "up") BY <1>7 DEF StartPinging
  <2>2. CASE Sent("PING") /\ unanswered' = Least(unanswered + 1, CloseCap)
             /\ stack' = << >> /\ phase' = "up"
    <3>1. StatusAt' BY <1>5, <1>6, <2>2 DEF Inv, StatusAt
    <3>2. Announced' BY <1>6, <1>7 DEF Inv, StatusAt, Announced
    <3>3. Passive => unanswered = 0 BY <1>4 DEF Inv, Quiet, TypeOK
    <3>4. Passive => ~outClosed
      BY <1>7 DEF Inv, Quiet, StatusAt, Conn!ClosedStatus
    <3>5. Passive => unanswered' = 1 BY <2>2, <3>3 DEF Least, CloseCap
    <3>6. Passive => after' = after /\ ~outClosed' BY <2>2, <3>4 DEF Sent
    <3>7. m_waiting_for_ping' BY <2>1 DEF SendPing
    <3>8. Quiet' BY <1>1, <2>2, <3>5, <3>6, <3>7 DEF Inv, Quiet, Frame
    <3> QED BY <2>2, <3>1, <3>2, <3>8, Emptied
  <2>3. CASE Throw /\ UNCHANGED unanswered
    <3>1. m_waiting_for_ping' BY <2>1 DEF SendPing
    <3> QED BY <1>1, <1>2, <1>6, <2>3, <3>1, ThrownInv DEF Throw, Inv, StatusAt
  <2> QED BY <2>1, <2>2, <2>3 DEF SendPing
<1>8. CASE ~m_connection_open
  <2>1. Unwind /\ UNCHANGED <<outClosed, after, unanswered, m_waiting_for_ping>>
    BY <1>8 DEF StartPinging, ping, out
  <2>2. stack' = << >> /\ phase' = "failed"
    BY <1>2, <1>3, <2>1, UnwoundConstructor
  <2>3. StatusAt' BY <1>6, <2>2 DEF Inv, StatusAt
  <2>4. ~ \E i \in DOMAIN stack : IsAt(i, "close", "wait") BY <1>1, <1>2, <1>3 DEF IsAt, Frame
  <2>5. Announced' BY <1>1, <1>4, <1>6, <2>4 DEF Inv, Announced, Frame
  <2>6. Quiet' BY <1>1, <1>6, <2>1, <2>2 DEF Inv, Quiet, Frame
  <2> QED BY <2>2, <2>3, <2>5, <2>6, Emptied
<1> QED BY <1>7, <1>8

\* Calls out of the application or a handler.
LEMMA CallerIs ==
  ASSUME Inv, Frame, NEW f \in {"poll", "close", "send"}, CanCall(f)
  PROVE  /\ stack = << >> => phase = "up" /\ Caller = << >>
         /\ stack # << >> =>
              /\ stack[1].fn \in Callbacks /\ (Passive => f = "send")
              /\ \E h \in Activation :
                   /\ h.fn = stack[1].fn /\ Top(stack, Caller, h)
                   /\ Over(stack, <<Poll>> \o Caller, Poll, h)
                   /\ Over2(stack, <<Poll, Close>> \o Caller, Poll, Close, h)
<1>1. CASE stack = << >> BY <1>1 DEF CanCall, Caller
<1>2. CASE stack # << >>
  <2>1. stack \in Seq(Activation) /\ stack[1] \in Activation /\ Head(stack) = stack[1]
    BY <1>2, NonEmpty DEF Inv, TypeOK
  <2> DEFINE h == [stack[1] EXCEPT !.n = @ + 1]
  <2>2. h \in Activation BY <2>1, Changed
  <2>3. h.fn = stack[1].fn BY <2>1 DEF Activation
  <2>4. Caller = <<h>> \o Tail(stack) BY <1>2, <2>1 DEF Caller, Again, Become
  <2> HIDE DEF h
  <2>5. Top(stack, Caller, h) BY <1>2, <2>1, <2>2, <2>4, BecomeOne
  <2>6. /\ Over(stack, <<Poll>> \o Caller, Poll, h)
        /\ Over2(stack, <<Poll, Close>> \o Caller, Poll, Close, h)
    BY <1>2, <2>1, <2>2, <2>4, Records, PushOne, PushTwo
  <2>7. stack[1].fn \in Callbacks /\ f \in setup.handlers[stack[1].fn]
    BY <1>2, <2>1 DEF CanCall
  <2>8. Passive => f = "send"
    BY <2>7 DEF Passive
  <2> QED BY <1>2, <2>2, <2>3, <2>5, <2>6, <2>7, <2>8
<1> QED BY <1>1, <1>2

\* A call or a return that leaves the connection and the buffer alone.
LEMMA SameConnInv ==
  ASSUME Inv, TypeOK', NEW k, NEW g, Plain(k, g), phase \in {"new", "up"},
         UNCHANGED <<conn, buf, closes>>, g = 0 \/ stack[1].fn # "close",
         \A i \in 1 .. k : ~IsAt(i, "poll", "ping")', Roomy(k, g), OnePoll', Quiet'
  PROVE  Inv'
<1>1. UNCHANGED <<m_status, m_connection_open, closes, buf>> BY DEF conn
<1>2. Nesting' BY PlainNesting DEF Inv
<1>3. StatusAt' BY <1>1, PlainStatus DEF Inv, StatusAt
<1>4. Destructing' BY <1>1, PlainDestructing DEF Inv, IsAt
<1>5. Announced'
  <2>1. closes \in Nat BY DEF Inv, TypeOK, CloseCap
  <2> QED BY <1>1, <2>1, PlainAnnounced DEF Inv, IsAt
<1>6. AtPing' BY <1>1, PlainAtPing DEF Inv
<1>7. Room' BY <1>1, PlainRoom DEF Inv
<1> QED BY <1>2, <1>3, <1>4, <1>5, <1>6, <1>7 DEF Inv

\* A handler returns to the call that is under it.
LEMMA HandlerReturnsInv == ASSUME Inv, TypeOK', HandlerReturns PROVE Inv'
<1>1. Frame BY Framed DEF Inv, HandlerReturns, env
<1>2. Popped(stack, stack') /\ stack # << >>
  BY TailPops DEF HandlerReturns, Inv, TypeOK
<1>3. stack[1].fn \in Callbacks BY <1>1 DEF HandlerReturns, Frame
<1>4. UNCHANGED <<phase, m_connection_open, m_status, outClosed, after, unanswered,
                  m_waiting_for_ping>>
      /\ UNCHANGED <<conn, buf, closes>>
  BY DEF HandlerReturns, conn, ping, input, out
<1>5. Plain(0, 1) /\ phase \in {"new", "up"}
  BY <1>1, <1>2, <1>3, <1>4, CarriedBy, PlainStep DEF Inv, Callbacks, DataCallbacks
<1>6. OnePoll' BY <1>4, <1>5, PlainSamePoll DEF Inv
<1>7. Quiet' BY <1>1, <1>4 DEF Inv, Quiet, Frame
<1>8. Roomy(0, 1) BY DEF Roomy
<1> QED BY <1>3, <1>4, <1>5, <1>6, <1>7, <1>8, SameConnInv DEF Callbacks, DataCallbacks

\* On an empty stack all records are new.
LEMMA CalledOutside ==
  ASSUME Frame, stack = << >>, phase = "up", phase' = phase,
         \A i \in 1 .. Len(stack') : stack'[i].fn \in Callbacks \cup {"poll", "close"}
  PROVE  Plain(Len(stack'), 0)
BY DEF Plain, Carried, Frame

\* A user whose data handlers only send calls no method from a handler but from
\* on_open, where there is room.
LEMMA HandlerCalls ==
  ASSUME Inv, Frame, NEW f \in {"poll", "close"}, CanCall(f), stack # << >>, m_connection_open,
         DataEndsHere
  PROVE  Len(stack) < MaxDepth
<1>1. stack[1].fn \in Callbacks /\ f \in setup.handlers[stack[1].fn] /\ 1 \in DOMAIN stack
  BY DEF CanCall, Frame
<1>2. stack[1].fn \notin DataCallbacks BY <1>1 DEF DataEndsHere
<1>3. stack[1].fn # "on_close" BY <1>1 DEF Inv, Room
<1>4. stack[1].fn = "on_open" BY <1>1, <1>2, <1>3 DEF Callbacks
<1>5. Len(stack) = 2 BY <1>1, <1>4 DEF Inv, Room, Frame
<1> QED BY <1>5, BoundAssumption

\* The program runs out of stack.
LEMMA OverflowInv ==
  ASSUME Inv, TypeOK', Frame, stack' = << >>, phase' = "overflow", ~DataEndsHere,
         UNCHANGED <<m_connection_open, m_status, outClosed, after, unanswered,
                     m_waiting_for_ping>>
  PROVE  Inv'
<1>1. StatusAt' BY DEF Inv, StatusAt
<1>2. Announced' BY DEF Announced
<1>3. Quiet' BY DEF Inv, Quiet, Frame
<1> QED BY <1>1, <1>2, <1>3, Emptied DEF Frame

\* A handler calls a method and finds room on the stack.
LEMMA EnteredInv ==
  ASSUME Inv, TypeOK', Frame, NEW k \in {2, 3}, NEW h \in Activation,
         stack # << >>, stack[1].fn \in Callbacks, ~Passive, h.fn = stack[1].fn, phase' = phase,
         Carried(k, 1), stack'[1] = Poll, stack'[k] = h, k = 3 => stack'[2] = Close,
         UNCHANGED <<m_connection_open, m_status, outClosed, after, unanswered,
                     m_waiting_for_ping>>,
         UNCHANGED <<conn, buf, closes>>
  PROVE  Inv'
<1>1. /\ Poll.fn = "poll" /\ Poll.pc = "read" /\ Close.fn = "close" /\ Close.pc = "clear"
      /\ stack[1].fn \notin {"ctor", "dtor", "close", "poll"}
  BY DEF Poll, Close, Call, Callbacks, DataCallbacks
<1>2. \A i \in 1 .. k : stack'[i] = Poll \/ stack'[i] = Close \/ (i = k /\ stack'[i] = h)
  <2>1. \A i \in 1 .. k : i = 1 \/ i = k \/ (i = 2 /\ k = 3) OBVIOUS
  <2> QED BY <2>1
<1>3. Plain(k, 1) /\ phase \in {"new", "up"}
  <2>1. \A i \in 1 .. k : stack'[i].fn \in Callbacks \cup {"poll", "close"} BY <1>1, <1>2
  <2> QED BY <1>1, <2>1, PlainStep DEF Inv
<1>4. OnePoll' BY DEF OnePoll, Frame
<1>5. Quiet' BY DEF Inv, Quiet, Frame
<1>6. \A i \in 1 .. k : ~IsAt(i, "poll", "ping")' BY <1>1, <1>2 DEF IsAt
<1>7. Roomy(k, 1)
  <2>1. 1 \in DOMAIN stack BY DEF Frame
  <2>2. stack[1].fn = "on_close" => ~m_connection_open' BY <2>1 DEF Inv, Room
  <2>3. \A i \in 1 .. k : /\ stack'[i].fn = "on_open" => i = k /\ h.fn = "on_open"
                          /\ stack'[i].fn = "on_close" => h.fn = "on_close"
                          /\ ~IsAt(i, "close", "wait")'
    BY <1>1, <1>2 DEF IsAt
  <2> QED BY <2>2, <2>3 DEF Roomy
<1> QED BY <1>1, <1>3, <1>4, <1>5, <1>6, <1>7, SameConnInv

\* The user calls poll().
LEMMA CallPollInv == ASSUME Inv, TypeOK', CallPoll PROVE Inv'
<1>1. Frame BY Framed DEF Inv, CallPoll, env
<1>2. UNCHANGED <<m_connection_open, m_status, outClosed, after, unanswered,
                  m_waiting_for_ping>>
      /\ UNCHANGED <<conn, buf, closes>>
  BY DEF CallPoll, conn, ping, input, out
<1>3. /\ CanCall("poll") /\ Enter(<<Poll>>)
      /\ setup.disciplined => m_connection_open
  BY DEF CallPoll, Inv, StatusAt
<1>4. CASE stack' = << >> /\ phase' = "overflow" /\ Len(stack) >= MaxDepth
  <2>1. stack # << >> BY <1>1, <1>4, BoundAssumption DEF Frame
  <2>2. Len(stack) < MaxDepth => FALSE BY <1>1, <1>4, BoundAssumption DEF Frame
  <2>3. ~DataEndsHere BY <1>1, <1>3, <2>1, <2>2, HandlerCalls DEF DataEndsHere
  <2> QED BY <1>1, <1>2, <1>4, <2>3, OverflowInv
<1>5. CASE stack = << >> /\ stack' = <<Poll>> \o Caller /\ phase' = phase
  <2>1. phase = "up" /\ Caller = << >> BY <1>1, <1>3, <1>5, CallerIs
  <2>2. Len(stack') = 1 /\ stack'[1] = Poll BY <1>5, <2>1
  <2>3. Poll.fn = "poll" /\ Poll.pc = "read" BY DEF Poll, Call
  <2>4. Plain(1, 0) BY <1>1, <1>5, <2>1, <2>2, <2>3, CalledOutside
  <2>5. Passive => m_connection_open BY <1>3 DEF Passive
  <2>6. OnePoll'
    <3>1. \A i \in 0 + 1 .. Len(stack) : stack[i].fn # "poll" BY <1>1, <1>5 DEF Frame
    <3> QED BY <1>2, <2>1, <2>4, <2>5, <3>1, PlainTopPoll
  <2>7. Quiet' BY <1>1, <1>2, <1>5 DEF Inv, Quiet, Frame
  <2>8. Roomy(1, 0) BY <2>2, <2>3 DEF Roomy, IsAt
  <2> QED BY <1>2, <2>1, <2>2, <2>3, <2>4, <2>6, <2>7, <2>8, SameConnInv DEF IsAt
<1>6. CASE stack # << >> /\ stack' = <<Poll>> \o Caller /\ phase' = phase
  <2>1. stack[1].fn \in Callbacks /\ ~Passive BY <1>1, <1>3, <1>6, CallerIs
  <2>2. PICK h \in Activation : h.fn = stack[1].fn /\ Over(stack, stack', Poll, h)
    BY <1>1, <1>3, <1>6, CallerIs
  <2>3. stack'[1] = Poll /\ stack'[2] = h BY <2>2 DEF Over
  <2>4. Carried(2, 1) BY <1>1, <1>6, <2>2, CarriedBy
  <2>5. 2 = 3 => stack'[2] = Close OBVIOUS
  <2> QED BY <1>1, <1>2, <1>6, <2>1, <2>2, <2>3, <2>4, <2>5, EnteredInv
<1> QED BY <1>3, <1>4, <1>5, <1>6 DEF Enter

\* The user calls close().
LEMMA CallCloseInv == ASSUME Inv, TypeOK', CallClose PROVE Inv'
<1>1. Frame BY Framed DEF Inv, CallClose, env
<1>2. UNCHANGED <<m_connection_open, m_status, outClosed, after, unanswered,
                  m_waiting_for_ping>>
      /\ UNCHANGED <<conn, buf, closes>>
  BY DEF CallClose, conn, ping, input, out
<1>3. CanCall("close") /\ Enter(<<Poll, Close>>) /\ m_connection_open BY DEF CallClose
<1>4. CASE stack' = << >> /\ phase' = "overflow" /\ Len(stack) >= MaxDepth
  <2>1. stack # << >> BY <1>1, <1>4, BoundAssumption DEF Frame
  <2>2. Len(stack) < MaxDepth => FALSE BY <1>1, <1>4, BoundAssumption DEF Frame
  <2>3. ~DataEndsHere BY <1>1, <1>3, <2>1, <2>2, HandlerCalls
  <2> QED BY <1>1, <1>2, <1>4, <2>3, OverflowInv
<1>5. CASE stack = << >> /\ stack' = <<Poll, Close>> \o Caller /\ phase' = phase
  <2>1. phase = "up" /\ Caller = << >> BY <1>1, <1>3, <1>5, CallerIs
  <2>2. Len(stack') = 2 /\ stack'[1] = Poll /\ stack'[2] = Close BY <1>5, <2>1
  <2>3. Poll.fn = "poll" /\ Poll.pc = "read" /\ Close.fn = "close" /\ Close.pc = "clear"
    BY DEF Poll, Close, Call
  <2>4. Plain(2, 0) BY <1>1, <1>5, <2>1, <2>2, <2>3, CalledOutside
  <2>5. OnePoll'
    <3>1. \A i \in 0 + 1 .. Len(stack) : stack[i].fn # "poll" BY <1>1, <1>5 DEF Frame
    <3> QED BY <1>2, <1>3, <2>1, <2>2, <2>3, <2>4, <3>1, PlainTopPoll
  <2>6. Quiet' BY <1>1, <1>2, <1>5 DEF Inv, Quiet, Frame
  <2>7. Roomy(2, 0) BY <2>2, <2>3 DEF Roomy, IsAt
  <2> QED BY <1>2, <2>1, <2>2, <2>3, <2>4, <2>5, <2>6, <2>7, SameConnInv DEF IsAt
<1>6. CASE stack # << >> /\ stack' = <<Poll, Close>> \o Caller /\ phase' = phase
  <2>1. stack[1].fn \in Callbacks /\ ~Passive BY <1>1, <1>3, <1>6, CallerIs
  <2>2. PICK h \in Activation : h.fn = stack[1].fn /\ Over2(stack, stack', Poll, Close, h)
    BY <1>1, <1>3, <1>6, CallerIs
  <2>3. stack'[1] = Poll /\ stack'[2] = Close /\ stack'[3] = h BY <2>2 DEF Over2
  <2>4. Carried(3, 1) BY <1>1, <1>6, <2>2, CarriedBy
  <2> QED BY <1>1, <1>2, <1>6, <2>1, <2>2, <2>3, <2>4, EnteredInv
<1> QED BY <1>3, <1>4, <1>5, <1>6 DEF Enter

\* The user sends.
LEMMA CallSendInv == ASSUME Inv, TypeOK', CallSend PROVE Inv'
<1>1. Frame BY Framed DEF Inv, CallSend, env
<1>2. /\ UNCHANGED <<m_connection_open, m_status, unanswered, m_waiting_for_ping>>
      /\ UNCHANGED <<conn, buf, closes>>
  BY DEF CallSend, conn, ping, input
<1>3. CanCall("send") /\ (Passive => m_connection_open)
  BY DEF CallSend, Passive, Inv, StatusAt
<1>4. stack # << >> \/ phase = "up" BY <1>1, <1>3, CallerIs
<1>5. CASE Sent("DATA") /\ stack' = Caller /\ UNCHANGED phase
  <2>1. Passive => ~outClosed BY <1>3 DEF Inv, Quiet, StatusAt, Conn!ClosedStatus
  <2>2. Passive => after' = after /\ ~outClosed' BY <1>5, <2>1 DEF Sent
  <2>3. Quiet' BY <1>1, <1>2, <1>5, <2>2 DEF Inv, Quiet, Frame
  <2>4. CASE stack = << >>
    <3>1. stack' = stack /\ phase = "up" BY <1>1, <1>3, <1>5, <2>4, CallerIs
    <3>2. Plain(0, 0) BY <1>1, <1>5, <2>4, <3>1, CarriedBy DEF Plain
    <3>3. OnePoll' BY <1>2, <3>2, PlainSamePoll DEF Inv
    <3>4. Roomy(0, 0) BY DEF Roomy
    <3> QED BY <1>2, <2>3, <3>1, <3>2, <3>3, <3>4, SameConnInv
  <2>5. CASE stack # << >>
    <3>1. stack[1].fn \in Callbacks BY <1>1, <1>3, <2>5, CallerIs
    <3>2. PICK h \in Activation : h.fn = stack[1].fn /\ Top(stack, stack', h)
      BY <1>1, <1>3, <1>5, <2>5, CallerIs
    <3>3. stack'[1] = h BY <3>2 DEF Top
    <3>4. Carried(1, 1) BY <1>1, <2>5, <3>2, CarriedBy
    <3>5. stack[1].fn \notin {"ctor", "dtor", "close", "poll"}
      BY <3>1 DEF Callbacks, DataCallbacks
    <3>6. Plain(1, 1) /\ phase \in {"new", "up"}
      BY <1>1, <1>5, <2>5, <3>1, <3>2, <3>3, <3>4, <3>5, PlainStep DEF Inv
    <3>7. OnePoll' BY <1>2, <3>1, <3>2, <3>3, <3>6, PlainSamePoll DEF Inv
    <3>8. \A i \in 1 .. 1 : ~IsAt(i, "poll", "ping")' BY <3>2, <3>3, <3>5 DEF IsAt
    <3>9. Roomy(1, 1)
      <4>1. 1 \in DOMAIN stack BY <1>1, <2>5 DEF Frame
      <4>2. stack[1].fn = "on_close" => ~m_connection_open' BY <1>2, <4>1 DEF Inv, Room
      <4> QED BY <3>2, <3>3, <3>5, <4>2 DEF Roomy, IsAt
    <3> QED BY <1>2, <2>3, <3>5, <3>6, <3>7, <3>8, <3>9, SameConnInv
  <2> QED BY <2>4, <2>5
<1>6. CASE Throw
  BY <1>1, <1>2, <1>4, <1>6, ThrownInv DEF Throw, Inv, StatusAt
<1> QED BY <1>5, <1>6 DEF CallSend, Send

\* The destructor.
LEMMA DestroyInv == ASSUME Inv, TypeOK', Destroy PROVE Inv'
<1>1. Frame BY Framed DEF Inv, Destroy, env
<1>2. UNCHANGED <<m_connection_open, m_status, outClosed, after, unanswered,
                  m_waiting_for_ping, buf, closes>>
  BY DEF Destroy, conn, ping, input, out
<1>3. phase = "up" /\ stack = << >> /\ m_status \in Used BY DEF Destroy, Inv, StatusAt
<1>4. Announced'
  <2>1. DOMAIN stack = {} BY <1>1, <1>3 DEF Frame
  <2> QED BY <1>1, <1>2, <1>3, <2>1 DEF Inv, Announced, Frame
<1>5. CASE m_connection_open
  <2>1. stack' = <<Poll, Close, Call("dtor", "run")>> /\ phase' = "up"
    BY <1>3, <1>5 DEF Destroy
  <2>2. /\ Len(stack') = 3 /\ stack'[1] = Poll /\ stack'[2] = Close
        /\ stack'[3] = Call("dtor", "run")
    BY <2>1
  <2>3. /\ stack'[1].fn = "poll" /\ stack'[1].pc = "read"
        /\ stack'[2].fn = "close" /\ stack'[2].pc = "clear" /\ stack'[3].fn = "dtor"
    BY <2>2 DEF Poll, Close, Call
  <2>4. \A i \in DOMAIN stack' : i = 1 \/ i = 2 \/ i = 3 BY <1>1, <2>2 DEF Frame
  <2>5. Nesting' BY <2>1, <2>2, <2>3, <2>4 DEF Nesting, IsAt
  <2>6. StatusAt' BY <1>2, <1>3, <2>1 DEF Inv, StatusAt
  <2>7. Destructing' BY <2>3, <2>4 DEF Destructing, IsAt
  <2>8. AtPing' BY <2>3, <2>4 DEF AtPing, IsAt
  <2>9. OnePoll' BY <1>2, <1>5, <2>1, <2>3, <2>4 DEF OnePoll
  <2>10. Quiet' BY <1>1, <1>2, <2>1 DEF Inv, Quiet, Frame
  <2>11. Room' BY <2>1, <2>3, <2>4 DEF Room, IsAt
  <2> QED BY <1>4, <2>5, <2>6, <2>7, <2>8, <2>9, <2>10, <2>11 DEF Inv
<1>6. CASE ~m_connection_open
  <2>1. stack' = << >> /\ phase' = "gone" BY <1>3, <1>6 DEF Destroy
  <2>2. StatusAt' BY <1>2, <1>3, <1>6, <2>1 DEF Inv, StatusAt, Used
  <2>3. Quiet' BY <1>1, <1>2, <2>1 DEF Inv, Quiet, Frame
  <2> QED BY <1>4, <2>1, <2>2, <2>3, Emptied
<1> QED BY <1>5, <1>6

\* The destructor ends.
LEMMA DestroyedInv == ASSUME Inv, TypeOK', Destroyed PROVE Inv'
<1>1. Frame BY Framed DEF Inv, Destroyed, env
<1>2. UNCHANGED <<m_connection_open, m_status, outClosed, after, unanswered,
                  m_waiting_for_ping, buf, closes>>
  BY DEF Destroyed, conn, ping, input, out
<1>3. stack # << >> /\ stack[1].fn = "dtor" /\ 1 \in DOMAIN stack
  BY <1>1 DEF Destroyed, Running, Frame
<1>4. Len(stack) = 1 BY <1>3 DEF Inv, Nesting
<1>5. phase = "up"
  BY <1>3, <1>4 DEF Inv, Nesting
<1>6. ~m_connection_open BY <1>3 DEF Inv, Destructing
<1>7. stack' = << >> /\ phase' = "gone" BY DEF Destroyed
<1>8. StatusAt' BY <1>2, <1>5, <1>6, <1>7 DEF Inv, StatusAt, Used
<1>9. Announced'
  <2>1. ~ \E i \in DOMAIN stack : IsAt(i, "close", "wait") BY <1>1, <1>3, <1>4 DEF IsAt, Frame
  <2> QED BY <1>1, <1>2, <1>5, <2>1 DEF Inv, Announced, Frame
<1>10. Quiet' BY <1>1, <1>2, <1>7 DEF Inv, Quiet, Frame
<1> QED BY <1>7, <1>8, <1>9, <1>10, Emptied

\* A plain step that shuts an open or closed connection, or leaves it.
LEMMA ShutInv ==
  ASSUME Inv, TypeOK', NEW k, NEW g, Plain(k, g), phase \in {"new", "up"}, g = 1,
         m_status' \in Conn!ClosedStatus, ~m_connection_open',
         m_status' = "PING_TIMED_OUT" \/ closes' > 0 \/ \E i \in 1 .. k : IsAt(i, "close", "wait")',
         closes' >= closes, stack[1].fn = "close" => IsAt(1, "close", "clear"),
         \A i \in 1 .. k : ~IsAt(i, "poll", "ping")' /\ stack'[i].fn # "on_open",
         OnePoll', Quiet'
  PROVE  Inv'
<1>1. Nesting' BY PlainNesting DEF Inv
<1>2. StatusAt' BY PlainStatus DEF Inv, Used, Conn!ClosedStatus
<1>3. Destructing' BY PlainDestructing DEF Inv
<1>4. closes \in Nat /\ closes' \in Nat BY DEF Inv, TypeOK, CloseCap
<1>5. ~IsAt(1, "close", "wait") BY DEF IsAt
<1>6. Announced' BY <1>4, <1>5, PlainAnnounced DEF Inv
<1>7. AtPing' BY PlainAtPing DEF Inv
<1>8. Room' BY PlainRoom DEF Inv, Roomy
<1> QED BY <1>1, <1>2, <1>3, <1>6, <1>7, <1>8 DEF Inv

\* update_ping: a ping is sent, or none, or the connection is given up.
LEMMA UpdatePingInv == ASSUME Inv, TypeOK', NEW t, UpdatePing(t) PROVE Inv'
<1>1. Frame BY Framed DEF Inv, UpdatePing, env
<1>2. stack # << >> /\ stack[1].fn = "poll" /\ 1 \in DOMAIN stack
  BY <1>1, TopIs DEF UpdatePing
<1>3. Popped(stack, Tail(stack)) BY <1>2, TailPops DEF Inv, TypeOK
<1>4. UNCHANGED <<buf, closes>> BY DEF UpdatePing, input
<1>5. Passive => m_connection_open /\ phase = "up" BY <1>2 DEF Inv, OnePoll
<1>6. ASSUME stack' = Tail(stack), phase' = phase
      PROVE  Plain(0, 1) /\ phase \in {"new", "up"} /\ OnePoll'
  <2>1. Plain(0, 1) /\ phase \in {"new", "up"}
    BY <1>1, <1>2, <1>3, <1>6, CarriedBy, PlainStep DEF Inv
  <2>2. Passive => \A i \in 2 .. Len(stack) : stack[i].fn # "poll"
    BY <1>1, <1>2, NoPollBelow DEF Inv, Frame, Callbacks, DataCallbacks
  <2>3. Passive => \A i \in 1 + 1 .. Len(stack) : stack[i].fn # "poll" BY <2>2
  <2> QED BY <2>1, <2>3, PlainTopPoll
<1>room. Roomy(0, 1) BY DEF Roomy
<1>7. CASE /\ Late(t) /\ Shut("PING_TIMED_OUT")
           /\ stack' = Tail(stack) /\ UNCHANGED <<phase, ping, out>>
  <2>1. UNCHANGED <<outClosed, after, unanswered, m_waiting_for_ping, phase>>
    BY <1>7 DEF ping, out
  <2>2. m_status' = "PING_TIMED_OUT" /\ ~m_connection_open' BY <1>7 DEF Shut
  <2>3. Quiet' BY <1>1, <2>1, <2>2 DEF Inv, Quiet, Frame, Conn!ClosedStatus
  <2>4. closes' >= closes BY <1>4 DEF Inv, TypeOK, CloseCap
  <2> QED BY <1>2, <1>6, <1>7, <2>2, <2>3, <2>4, ShutInv DEF Conn!ClosedStatus
<1>8. CASE Due(t) /\ SendPing(Tail(stack), phase) /\ UNCHANGED conn
  <2>1. m_waiting_for_ping' /\ ~m_waiting_for_ping /\ UNCHANGED <<m_status, m_connection_open>>
    BY <1>8 DEF SendPing, Due, conn
  <2>2. CASE /\ Sent("PING") /\ unanswered' = Least(unanswered + 1, CloseCap)
             /\ stack' = Tail(stack) /\ phase' = phase
    <3>1. Passive => ~outClosed BY <1>5 DEF Inv, Quiet, StatusAt, Conn!ClosedStatus
    <3>2. Passive => after' = after /\ ~outClosed' BY <2>2, <3>1 DEF Sent
    <3>3. Passive => unanswered = 0 BY <2>1 DEF Inv, Quiet, TypeOK
    <3>4. Passive => unanswered' = 1 BY <2>2, <3>3 DEF Least, CloseCap
    <3>5. Passive => phase' # "new" BY <1>5, <2>2
    <3>6. Quiet' BY <1>1, <2>1, <3>2, <3>4, <3>5 DEF Inv, Quiet, Frame
    <3> QED BY <1>2, <1>4, <1>6, <1>8, <1>room, <2>2, <3>6, SameConnInv
  <2>3. CASE Throw /\ UNCHANGED unanswered
    BY <1>1, <1>2, <2>1, <2>3, ThrownInv DEF Throw, Inv, StatusAt
  <2> QED BY <1>8, <2>2, <2>3 DEF SendPing
<1>9. CASE stack' = Tail(stack) /\ UNCHANGED <<phase, conn, ping, out>>
  <2>1. UNCHANGED <<outClosed, after, unanswered, m_waiting_for_ping, phase, m_status>>
    BY <1>9 DEF ping, out, conn
  <2>2. Quiet' BY <1>1, <2>1 DEF Inv, Quiet, Frame
  <2> QED BY <1>2, <1>4, <1>6, <1>9, <1>room, <2>2, SameConnInv
<1> QED BY <1>7, <1>8, <1>9 DEF UpdatePing

\* close() behind its poll().
LEMMA CloseClearInv == ASSUME Inv, TypeOK', CloseClear PROVE Inv'
<1>1. Frame BY Framed DEF Inv, CloseClear, env
<1>2. stack # << >> /\ stack[1].fn = "close" /\ stack[1].pc = "clear" /\ 1 \in DOMAIN stack
  BY <1>1, TopIs DEF CloseClear
<1>3. UNCHANGED <<closes, unanswered, m_waiting_for_ping>> BY DEF CloseClear, ping
<1>4. CASE Sent("CLOSE") /\ Shut("CLOSED_BY_CLIENT") /\ stack' = Goto("wait") /\ UNCHANGED phase
  <2> DEFINE r == [stack[1] EXCEPT !.pc = "wait"]
  <2>1. stack[1] \in Activation /\ Head(stack) = stack[1] BY <1>1, <1>2 DEF Frame
  <2>2. r \in Activation BY <2>1, Changed
  <2>3. r.fn = "close" /\ r.pc = "wait" BY <1>2, <2>1 DEF Activation
  <2>4. stack' = <<r>> \o Tail(stack) BY <1>4, <2>1 DEF Goto, Become
  <2> HIDE DEF r
  <2>5. Top(stack, stack', r) BY <1>2, <2>2, <2>4, BecomeOne DEF Inv, TypeOK
  <2>6. stack'[1] = r BY <2>5 DEF Top
  <2>7. Plain(1, 1) /\ phase \in {"new", "up"}
    BY <1>1, <1>2, <1>4, <2>3, <2>5, <2>6, CarriedBy, PlainStep DEF Inv
  <2>8. OnePoll'
    <3>1. Passive => \A i \in 1 + 1 .. Len(stack) : stack[i].fn # "poll"
      <4>1. Passive => \A i \in 2 .. Len(stack) : stack[i].fn # "poll"
        BY <1>1, <1>2, NoPollBelow DEF Inv, Frame, Callbacks, DataCallbacks
      <4> QED BY <4>1
    <3> QED BY <2>3, <2>6, <2>7, <3>1, PlainTopPoll
  <2>9. m_status' = "CLOSED_BY_CLIENT" /\ ~m_connection_open' BY <1>4 DEF Shut
  <2>10. Quiet'
    <3>1. after' = after \/ after' = after \cup {"CLOSE"} BY <1>4 DEF Sent
    <3> QED BY <1>1, <1>3, <1>4, <2>9, <3>1 DEF Inv, Quiet, Frame, Conn!ClosedStatus
  <2>11. closes' >= closes BY <1>3 DEF Inv, TypeOK, CloseCap
  <2> QED BY <1>2, <2>3, <2>6, <2>7, <2>8, <2>9, <2>10, <2>11, ShutInv
          DEF IsAt, Conn!ClosedStatus
<1>5. CASE CloseThrows
  <2>1. Unwind /\ setup.send_fails /\ UNCHANGED out BY <1>5 DEF CloseThrows, Throw
  <2>2. UNCHANGED <<m_status, m_connection_open>> BY <1>5 DEF CloseThrows, conn
  <2> QED BY <1>1, <1>2, <1>3, <2>1, <2>2, ThrownInv DEF Inv, StatusAt
<1> QED BY <1>4, <1>5 DEF CloseClear

\* on_close at the end of close().
LEMMA AnnounceInv ==
  ASSUME Inv, TypeOK', Frame, NEW success, Announce(success),
         stack # << >>, stack[1].fn = "close", stack[1].pc = "wait", phase' = phase,
         UNCHANGED <<m_status, m_connection_open, outClosed, after, unanswered,
                     m_waiting_for_ping>>
  PROVE  Inv'
<1> DEFINE r == Handler("on_close")
<1>1. r \in Activation /\ r.fn = "on_close" /\ r.fn \in Callbacks
  BY Records DEF Callbacks, Handler, Call
<1>2. stack' = <<r>> \o Tail(stack) BY DEF Announce, Become
<1> HIDE DEF r
<1>3. Top(stack, stack', r) BY <1>1, <1>2, BecomeOne DEF Inv, TypeOK
<1>4. stack'[1] = r BY <1>3 DEF Top
<1>5. Plain(1, 1) /\ phase \in {"new", "up"}
  BY <1>1, <1>3, <1>4, CarriedBy, PlainStep DEF Inv
<1>6. closes' > 0 /\ closes \in Nat /\ closes' >= closes /\ closes' \in Nat
  BY DEF Announce, OnClose, Least, CloseCap, Inv, TypeOK
<1>7. Nesting' BY <1>5, PlainNesting DEF Inv
<1>8. StatusAt' BY <1>5, PlainStatus DEF Inv, StatusAt
<1>9. Destructing' BY <1>5, PlainDestructing DEF Inv, IsAt
<1>10. Announced' BY <1>5, <1>6, PlainAnnounced DEF Inv
<1>11. AtPing' BY <1>1, <1>4, <1>5, PlainAtPing DEF Inv, IsAt
<1>12. OnePoll' BY <1>1, <1>4, <1>5, PlainSamePoll DEF Inv
<1>13. Quiet' BY DEF Inv, Quiet, Frame
<1>14. Room'
  <2>1. 1 \in DOMAIN stack BY DEF Frame
  <2>2. ~m_connection_open BY <2>1 DEF Inv, Room, IsAt
  <2>3. Roomy(1, 1) BY <1>1, <1>4, <2>2 DEF Roomy
  <2> QED BY <1>5, <2>3, PlainRoom DEF Inv
<1> QED BY <1>7, <1>8, <1>9, <1>10, <1>11, <1>12, <1>13, <1>14 DEF Inv

\* close() ends its wait.
LEMMA CloseGivesUpInv == ASSUME Inv, TypeOK', CloseGivesUp PROVE Inv'
<1>1. Frame BY Framed DEF Inv, CloseGivesUp, env
<1>2. stack # << >> /\ stack[1].fn = "close" /\ stack[1].pc = "wait"
  BY <1>1, TopIs DEF CloseGivesUp
<1> QED BY <1>1, <1>2, AnnounceInv DEF CloseGivesUp, conn, ping, out

\* A read in the loop of close().
LEMMA CloseReadInv ==
  ASSUME Inv, TypeOK', NEW n, NEW half, NEW s, CloseRead(n, half, s) PROVE Inv'
<1>1. Frame BY Framed DEF Inv, CloseRead, env
<1>2. stack # << >> /\ stack[1].fn = "close" /\ stack[1].pc = "wait" /\ 1 \in DOMAIN stack
  BY <1>1, TopIs DEF CloseRead
<1>3. UNCHANGED <<phase, m_status, m_connection_open, outClosed, after, unanswered,
                  m_waiting_for_ping>>
  BY DEF CloseRead, conn, ping, out
<1>4. CASE Announce(TRUE) BY <1>1, <1>2, <1>3, <1>4, AnnounceInv
<1>5. CASE UNCHANGED closes /\ stack' = Again
  <2> DEFINE r == [stack[1] EXCEPT !.n = @ + 1]
  <2>1. stack[1] \in Activation /\ Head(stack) = stack[1] BY <1>1, <1>2 DEF Frame
  <2>2. r \in Activation BY <2>1, Changed
  <2>3. r.fn = "close" /\ r.pc = "wait" BY <1>2, <2>1 DEF Activation
  <2>4. stack' = <<r>> \o Tail(stack) BY <1>5, <2>1 DEF Again, Become
  <2> HIDE DEF r
  <2>5. Top(stack, stack', r) BY <1>2, <2>2, <2>4, BecomeOne DEF Inv, TypeOK
  <2>6. stack'[1] = r BY <2>5 DEF Top
  <2>7. Plain(1, 1) /\ phase \in {"new", "up"}
    BY <1>1, <1>2, <1>3, <2>3, <2>5, <2>6, CarriedBy, PlainStep DEF Inv
  <2>8. Nesting' BY <2>7, PlainNesting DEF Inv
  <2>9. StatusAt' BY <1>3, <2>7, PlainStatus DEF Inv, StatusAt
  <2>10. Destructing' BY <1>2, <1>3, <2>7, PlainDestructing DEF Inv, IsAt
  <2>11. Announced'
    <3>1. closes \in Nat /\ closes' = closes BY <1>5 DEF Inv, TypeOK, CloseCap
    <3>2. \E i \in 1 .. 1 : IsAt(i, "close", "wait")' BY <2>3, <2>6 DEF IsAt
    <3> QED BY <2>7, <3>1, <3>2, PlainAnnounced DEF Inv
  <2>12. AtPing' BY <2>3, <2>6, <2>7, PlainAtPing DEF Inv, IsAt
  <2>13. OnePoll'
    <3>1. Passive => \A i \in 1 + 1 .. Len(stack) : stack[i].fn # "poll"
      <4>1. Passive => \A i \in 2 .. Len(stack) : stack[i].fn # "poll"
        BY <1>1, <1>2, NoPollBelow DEF Inv, Frame, Callbacks, DataCallbacks
      <4> QED BY <4>1
    <3> QED BY <2>3, <2>6, <2>7, <3>1, PlainTopPoll
  <2>14. Quiet' BY <1>1, <1>3 DEF Inv, Quiet, Frame
  <2>15. Room'
    <3>1. ~m_connection_open' BY <1>2, <1>3 DEF Inv, Room, IsAt
    <3>2. Roomy(1, 1) BY <2>3, <2>6, <3>1 DEF Roomy
    <3> QED BY <1>3, <2>7, <3>2, PlainRoom DEF Inv
  <2> QED BY <2>8, <2>9, <2>10, <2>11, <2>12, <2>13, <2>14, <2>15 DEF Inv
<1> QED BY <1>4, <1>5 DEF CloseRead

\* The server, the clock and the signal.
LEMMA OutsideInv == ASSUME Inv, TypeOK', Server \/ Tick \/ Signal PROVE Inv'
<1>1. UNCHANGED <<setup, phase, stack, conn, buf, closes, out, unanswered, m_waiting_for_ping>>
  BY DEF Server, ServerAnswers, ServerGoesMute, ServerSends, Arrives, Tick, Signal, ping, input, env
<1> QED BY <1>1, Untouched

\* poll() goes on with the record r under k - 1 new handlers.
LEMMA PollGoesOn ==
  ASSUME Inv, TypeOK', NEW k \in {1, 2}, Plain(k, 1), phase \in {"new", "up"}, stack[1].fn = "poll",
         1 \in DOMAIN stack, UNCHANGED <<m_status, m_connection_open, closes>>,
         k = 2 => stack'[1].fn \in DataCallbacks, stack'[k].fn = "poll",
         stack'[k].pc = "ping" => stack'[k].n >= MaxReads \/ (k = 1 /\ buf' = << >>), Quiet'
  PROVE  Inv'
<1>1. Nesting' BY PlainNesting DEF Inv
<1>2. StatusAt' BY PlainStatus DEF Inv, StatusAt
<1>3. Destructing' BY PlainDestructing DEF Inv, IsAt
<1>4. Announced'
  <2>1. closes \in Nat BY DEF Inv, TypeOK, CloseCap
  <2> QED BY <2>1, PlainAnnounced DEF Inv, IsAt
<1>5. \A i \in 1 .. k : i = k \/ (i = 1 /\ k = 2) OBVIOUS
<1>6. AtPing'
  <2>1. \A i \in 1 .. k : IsAt(i, "poll", "ping")' =>
          stack'[i].n >= MaxReads \/ (i = 1 /\ buf' = << >>)
    BY <1>5 DEF IsAt, Callbacks, DataCallbacks
  <2> QED BY <2>1, PlainAtPing DEF Inv
<1>7. OnePoll'
  <2>1. Passive => m_connection_open /\ phase = "up" BY DEF Inv, OnePoll
  <2>2. Passive => \A i \in 1 + 1 .. Len(stack) : stack[i].fn # "poll"
    <3>1. Passive => \A i \in 2 .. Len(stack) : stack[i].fn # "poll"
      BY NoPollBelow DEF Inv, Plain, Frame, Callbacks, DataCallbacks
    <3> QED BY <3>1
  <2>3. Passive => \A i \in 1 .. k : stack'[i].fn = "poll" =>
                     /\ m_connection_open' /\ phase = "up"
                     /\ \A j \in 1 .. k : j < i => stack'[j].fn \in Callbacks
                     /\ \A j \in 1 .. k : j > i => stack'[j].fn # "poll"
    BY <1>5, <2>1 DEF Callbacks, DataCallbacks
  <2> QED BY <2>2, <2>3, PlainTopPoll
<1>8. Room'
  <2>1. Roomy(k, 1) BY <1>5 DEF Roomy, IsAt, DataCallbacks
  <2> QED BY <2>1, PlainRoom DEF Inv
<1> QED BY <1>1, <1>2, <1>3, <1>4, <1>6, <1>7, <1>8 DEF Inv

\* A read in poll(), with each kind of frame that may be first in the buffer.
LEMMA PollReadInv ==
  ASSUME Inv, TypeOK', NEW n, NEW half, NEW s, PollRead(n, half, s) PROVE Inv'
<1> DEFINE f == Head(buf \o s)
<1>1. Frame BY Framed DEF Inv, PollRead, env
<1>2. stack # << >> /\ stack[1].fn = "poll" /\ stack[1].pc = "read" /\ 1 \in DOMAIN stack
  BY <1>1, TopIs DEF PollRead
<1>3. PICK r \in Activation :
        /\ Counted = <<r>> /\ r.fn = "poll"
        /\ r.pc = "ping" => r.n >= MaxReads
  BY <1>2, CountedIs DEF Inv
<1>4. stack \in Seq(Activation) /\ stack[1] \in Activation /\ Head(stack) = stack[1]
  BY <1>1, <1>2 DEF Inv, TypeOK, Frame
<1>5. Passive => m_connection_open /\ phase = "up" BY <1>2 DEF Inv, OnePoll
<1>6. Passive => ~outClosed BY <1>5 DEF Inv, Quiet, StatusAt, Conn!ClosedStatus
<1>7. \/ buf' = << >> /\ stack' = Goto("ping") /\ UNCHANGED <<phase, conn, ping, out, closes>>
      \/ PollData(f) \/ PollPing(f) \/ PollPong(f) \/ PollClose(f)
  BY DEF PollRead, Update
<1> HIDE DEF f
<1>8. ASSUME NEW q \in Activation, stack' = <<q>> \o Tail(stack), phase' = phase, q.fn = "poll"
      PROVE  Plain(1, 1) /\ phase \in {"new", "up"} /\ stack'[1] = q
  <2>1. Top(stack, stack', q) BY <1>2, <1>4, <1>8, BecomeOne
  <2>2. stack'[1] = q BY <2>1 DEF Top
  <2> QED BY <1>1, <1>2, <1>8, <2>1, <2>2, CarriedBy, PlainStep DEF Inv
<1>9. CASE buf' = << >> /\ stack' = Goto("ping") /\ UNCHANGED <<phase, conn, ping, out, closes>>
  <2> DEFINE q == [stack[1] EXCEPT !.pc = "ping"]
  <2>1. q \in Activation BY <1>4, Changed
  <2>2. q.fn = "poll" BY <1>2, <1>4 DEF Activation
  <2>3. stack' = <<q>> \o Tail(stack) BY <1>4, <1>9 DEF Goto, Become
  <2> HIDE DEF q
  <2>4. UNCHANGED <<phase, m_status, m_connection_open, closes, outClosed, after, unanswered,
                    m_waiting_for_ping>>
    BY <1>9 DEF conn, ping, out
  <2>5. Quiet' BY <1>1, <2>4 DEF Inv, Quiet, Frame
  <2> QED BY <1>2, <1>8, <1>9, <2>1, <2>2, <2>3, <2>4, <2>5, PollGoesOn
<1>10. CASE PollData(f)
  <2> DEFINE h == Handler(DataCallback(f))
  <2>1. h \in Activation /\ h.fn \in DataCallbacks /\ h.fn \in Callbacks
    BY Records DEF Handler, Call, Callbacks
  <2>2. stack' = <<h, r>> \o Tail(stack)
    <3>1. <<h>> \o <<r>> = <<h, r>> BY <2>1, TwoRecords
    <3> QED BY <1>3, <1>10, <3>1 DEF PollData, Become
  <2> HIDE DEF h
  <2>3. Over(stack, stack', h, r) BY <1>2, <1>4, <2>1, <2>2, BecomeTwo
  <2>4. stack'[1] = h /\ stack'[2] = r BY <2>3 DEF Over
  <2>5. UNCHANGED <<phase, m_status, m_connection_open, closes, outClosed, after, unanswered,
                    m_waiting_for_ping>>
    BY <1>10 DEF PollData, conn, ping, out
  <2>6. Plain(2, 1) /\ phase \in {"new", "up"}
    <3>1. \A i \in 1 .. 2 : stack'[i].fn \in Callbacks \cup {"poll", "close"}
      BY <1>3, <2>1, <2>4
    <3>2. Carried(2, 1) BY <1>1, <1>2, <2>3, CarriedBy
    <3> QED BY <1>1, <1>2, <2>5, <3>1, <3>2, PlainStep DEF Inv
  <2>7. Quiet' BY <1>1, <2>5 DEF Inv, Quiet, Frame
  <2> QED BY <1>2, <1>3, <2>1, <2>4, <2>5, <2>6, <2>7, PollGoesOn
<1>11. CASE PollPing(f)
  <2>1. UNCHANGED <<m_status, m_connection_open, closes, unanswered, m_waiting_for_ping>>
    BY <1>11 DEF PollPing, conn, ping
  <2>2. CASE Sent("PONG") /\ stack' = Become(Counted) /\ UNCHANGED phase
    <3>1. stack' = <<r>> \o Tail(stack) BY <1>3, <2>2 DEF Become
    <3>2. Passive => after' = after /\ ~outClosed' BY <1>6, <2>2 DEF Sent
    <3>3. Quiet' BY <1>1, <2>1, <2>2, <3>2 DEF Inv, Quiet, Frame
    <3> QED BY <1>2, <1>3, <1>8, <2>1, <2>2, <3>1, <3>3, PollGoesOn
  <2>3. CASE Throw BY <1>1, <1>2, <2>1, <2>3, ThrownInv DEF Throw, Inv, StatusAt
  <2> QED BY <1>11, <2>2, <2>3 DEF PollPing, Send
<1>12. CASE PollPong(f)
  <2>1. UNCHANGED <<phase, m_status, m_connection_open, closes, outClosed, after>>
        /\ unanswered' = 0
    BY <1>12 DEF PollPong, conn, out
  <2>2. stack' = <<r>> \o Tail(stack) BY <1>3, <1>12 DEF PollPong, Become
  <2>3. Quiet' BY <1>1, <2>1 DEF Inv, Quiet, Frame
  <2> QED BY <1>2, <1>3, <1>8, <2>1, <2>2, <2>3, PollGoesOn
<1>13. CASE PollClose(f)
  <2>1. m_status' = "CLOSED_BY_SERVER" /\ ~m_connection_open'
        /\ UNCHANGED <<unanswered, m_waiting_for_ping>>
    BY <1>13 DEF PollClose, Shut, ping
  <2>2. CASE /\ Sent("CLOSE") /\ OnClose
             /\ stack' = Become(<<Handler("on_close")>> \o Closed) /\ UNCHANGED phase
    <3> DEFINE h == Handler("on_close")
    <3>1. h \in Activation /\ h.fn = "on_close" /\ h.fn \in Callbacks
      BY Records DEF Callbacks, Handler, Call
    <3>2. stack' = <<h>> \o Tail(stack)
      <4>1. <<h>> \o << >> = <<h>> OBVIOUS
      <4> QED BY <2>2, <4>1 DEF Become, Closed
    <3> HIDE DEF h
    <3>3. Top(stack, stack', h) BY <1>2, <1>4, <3>1, <3>2, BecomeOne
    <3>4. stack'[1] = h BY <3>3 DEF Top
    <3>5. Plain(1, 1) /\ phase \in {"new", "up"}
      BY <1>1, <1>2, <2>2, <3>1, <3>3, <3>4, CarriedBy, PlainStep DEF Inv
    <3>6. closes' > 0 /\ closes' >= closes
      BY <2>2 DEF OnClose, Least, CloseCap, Inv, TypeOK
    <3>7. OnePoll'
      <4>1. Passive => \A i \in 1 + 1 .. Len(stack) : stack[i].fn # "poll"
        <5>1. Passive => \A i \in 2 .. Len(stack) : stack[i].fn # "poll"
          BY <1>1, <1>2, NoPollBelow DEF Inv, Frame, Callbacks, DataCallbacks
        <5> QED BY <5>1
      <4> QED BY <3>1, <3>4, <3>5, <4>1, PlainTopPoll
    <3>8. Quiet'
      <4>1. after' = after \/ after' = after \cup {"CLOSE"} BY <2>2 DEF Sent
      <4> QED BY <1>1, <2>1, <2>2, <4>1 DEF Inv, Quiet, Frame, Conn!ClosedStatus
    <3> QED BY <1>2, <2>1, <3>1, <3>4, <3>5, <3>6, <3>7, <3>8, ShutInv
            DEF IsAt, Conn!ClosedStatus
  <2>3. CASE Throw
    BY <1>1, <1>2, <2>1, <2>3, ThrownInv DEF Throw, Used, Conn!ClosedStatus
  <2> QED BY <1>13, <2>2, <2>3 DEF PollClose
<1> QED BY <1>7, <1>9, <1>10, <1>11, <1>12, <1>13

----------------------------------------------------------------------------
(***************************************************************************)
(* The invariant holds.                                                    *)
(***************************************************************************)
LEMMA InitInv == Init => Inv
<1> SUFFICES ASSUME Init PROVE Inv OBVIOUS
<1>1. TypeOK
  <2>1. /\ << >> \in Seq(Activation) /\ << >> \in Seq(RequestText \cup HeaderText)
        /\ << >> \in Seq(HandshakePiece \cup FrameKind)
    OBVIOUS
  <2>2. 0 \in 0 .. MaxClock /\ 0 \in 0 .. CloseCap BY ClockType DEF CloseCap
  <2>3. "UNKNOWN" \in Conn!ConnectionStatus BY DEF Conn!ConnectionStatus
  <2>4. setup \in Setups BY DEF Init
  <2> HIDE DEF Conn!ConnectionStatus
  <2> QED BY <2>1, <2>2, <2>3, <2>4, Zenon DEF Init, TypeOK
<1>2. DOMAIN stack = {} /\ stack = << >> BY DEF Init
<1>3. Nesting /\ Destructing /\ AtPing /\ OnePoll
  BY <1>2 DEF Nesting, Destructing, AtPing, OnePoll
<1>4. StatusAt BY DEF Init, StatusAt
<1>5. Announced BY DEF Init, Announced
<1>6. Quiet BY DEF Init, Quiet
<1>7. Room BY <1>2 DEF Init, Room
<1> QED BY <1>1, <1>3, <1>4, <1>5, <1>6, <1>7 DEF Inv

\* Every step keeps the invariant.
LEMMA NextInv == Inv /\ [Next]_vars => Inv'
<1> SUFFICES ASSUME Inv, [Next]_vars PROVE Inv' OBVIOUS
<1>1. TypeOK' BY NextType DEF Inv
<1>2. CASE User
  BY <1>1, <1>2, ConstructInv, CallPollInv, CallCloseInv, CallSendInv, DestroyInv, OutsideInv
  DEF User, Calls
<1>3. CASE Client
  BY <1>1, <1>3, StartPingingInv, CloseClearInv, CloseGivesUpInv, ReadThrowsInv,
     HandlerReturnsInv, DestroyedInv, UpdatePingInv, HandshakeReadInv, PollReadInv,
     CloseReadInv DEF Client
<1>4. CASE Server \/ Tick BY <1>1, <1>4, OutsideInv
<1>5. CASE UNCHANGED vars
  BY <1>1, <1>5, Untouched DEF vars, ping, input, env
<1> QED BY <1>2, <1>3, <1>4, <1>5 DEF Next

\* The invariant holds in every behaviour.
LEMMA AlwaysInv == Spec => []Inv
BY InitInv, NextInv, PTL DEF Spec

\* Where the status changes, and to what.
Changes ==
  \/ UNCHANGED conn
  \/ /\ m_status = "UNKNOWN"
     /\ \/ m_status' = "HEALTHY" /\ m_connection_open' = TRUE
        \/ m_status' = "FAILED" /\ UNCHANGED m_connection_open
  \/ Running("poll", "read") /\ Shut("CLOSED_BY_SERVER")
  \/ Running("poll", "ping") /\ Shut("PING_TIMED_OUT")
  \/ Running("close", "clear") /\ Shut("CLOSED_BY_CLIENT")

\* No other step touches the status.
LEMMA ConnChanges == ASSUME Inv, [Next]_vars PROVE Changes
<1>1. ASSUME NEW n, NEW half, HandshakeRead(n, half) PROVE Changes
  <2>1. m_status = "UNKNOWN" BY <1>1, InLoop DEF HandshakeRead
  <2> QED BY <1>1, <2>1 DEF HandshakeRead, Changes, conn
<1>2. ASSUME NEW n, NEW half, NEW s, PollRead(n, half, s) PROVE Changes
  BY <1>2 DEF PollRead, PollData, PollPing, PollPong, PollClose, Changes
<1>3. ASSUME NEW t, UpdatePing(t) PROVE Changes BY <1>3 DEF UpdatePing, Changes
<1>4. CASE CloseClear BY <1>4 DEF CloseClear, CloseThrows, Changes
<1>5. CASE User
  BY <1>5
  DEF User, Construct, Calls, CallPoll, CallClose, CallSend, Destroy, Signal, Changes
<1>6. CASE Server \/ Tick \/ UNCHANGED vars
  BY <1>6
  DEF Server, ServerAnswers, ServerGoesMute, ServerSends, Arrives, Tick, vars, Changes
<1>7. CASE Client
  <2>1. ASSUME NEW n, NEW half, NEW s, CloseRead(n, half, s) PROVE Changes
    BY <2>1 DEF CloseRead, Changes
  <2>2. CASE StartPinging \/ CloseGivesUp \/ ReadThrows \/ HandlerReturns \/ Destroyed
    BY <2>2 DEF StartPinging, CloseGivesUp, ReadThrows, HandlerReturns, Destroyed, Changes
  <2> QED BY <1>1, <1>2, <1>3, <1>4, <1>7, <2>1, <2>2 DEF Client
<1> QED BY <1>5, <1>6, <1>7 DEF Next

\* In a method the connection has been open.
LEMMA InMethod ==
  ASSUME Inv, NEW fn \in {"poll", "close"}, NEW l, Running(fn, l)
  PROVE  m_status \in Used /\ 1 \in DOMAIN stack /\ stack[1].fn = fn /\ stack[1].pc = l
<1>1. stack # << >> /\ stack \in Seq(Activation) BY DEF Running, Inv, TypeOK
<1>2. Head(stack) = stack[1] /\ 1 \in DOMAIN stack BY <1>1, NonEmpty
<1>3. ~Running("ctor", "handshake") BY DEF Running
<1> QED BY <1>1, <1>2, <1>3 DEF Inv, Nesting, StatusAt, Running

\* Every variable of the client keeps its type, for every setup and all bounds.
THEOREM ClientTypeCorrect == Spec => []TypeOK
<1>1. Inv => TypeOK BY DEF Inv
<1> QED BY <1>1, AlwaysInv, PTL

\* m_status and m_connection_open of any client, however its handlers nest poll()
\* and close() and whatever throws, behave as the abstract connection: opened
\* once, closed once, never healthy again.
THEOREM ClientImplementsConnection == Spec => ImplementsConnection
<1>1. Init => Conn!Init BY DEF Init, Conn!Init
<1>2. Inv /\ [Next]_vars => [Conn!Next]_(Conn!vars)
  <2> SUFFICES ASSUME Inv, [Next]_vars PROVE [Conn!Next]_(Conn!vars) OBVIOUS
  <2>1. CASE UNCHANGED conn BY <2>1 DEF conn, Conn!vars
  <2>2. CASE /\ m_status = "UNKNOWN"
             /\ \/ m_status' = "HEALTHY" /\ m_connection_open' = TRUE
                \/ m_status' = "FAILED" /\ UNCHANGED m_connection_open
    BY <2>2 DEF Conn!Next, Conn!Open, Conn!Fail
  <2>3. ASSUME NEW st \in Conn!ClosedStatus, Shut(st), m_status \in Used PROVE Conn!Next
    BY <2>3 DEF Shut, Used, Inv, StatusAt, TypeOK, Conn!Next, Conn!Shut, Conn!Relabel
  <2> QED BY <2>1, <2>2, <2>3, ConnChanges, InMethod DEF Changes, Conn!ClosedStatus
<1> QED BY <1>1, <1>2, AlwaysInv, PTL DEF Spec, ImplementsConnection, Conn!Spec

\* ~WSClient leaves no open connection behind, through all failed close() calls.
THEOREM ClientDestroyedIsClosed == Spec => []DestroyedIsClosed
<1>1. Inv => DestroyedIsClosed BY DEF Inv, StatusAt, DestroyedIsClosed
<1> QED BY <1>1, AlwaysInv, PTL

\* When neither sends nor reads throw, a connection that either side closed has
\* been announced by on_close when the outermost call returns.
THEOREM ClientAnnouncesClose == Spec => []CloseAnnounced
<1>1. Inv => CloseAnnounced
  <2> SUFFICES ASSUME Inv, ~setup.send_fails, ~setup.read_fails, stack = << >>,
                      phase = "gone" \/ m_status \in {"CLOSED_BY_SERVER", "CLOSED_BY_CLIENT"},
                      m_status # "PING_TIMED_OUT", phase # "overflow"
               PROVE  closes > 0
    BY DEF CloseAnnounced, EndAnnounced
  <2>1. m_status \in {"CLOSED_BY_SERVER", "CLOSED_BY_CLIENT"}
    BY DEF Inv, StatusAt, Conn!ClosedStatus
  <2>2. ~ \E i \in DOMAIN stack : IsAt(i, "close", "wait") OBVIOUS
  <2> QED BY <2>1, <2>2 DEF Inv, Announced
<1> QED BY <1>1, AlwaysInv, PTL

\* When handlers of data neither poll nor close, no call of a handler runs out of
\* a stack of three records, whatever on_open and on_close call.
THEOREM ClientStackSuffices == Spec => []StackSuffices
<1>1. Inv => StackSuffices BY DEF Inv, Room, StackSuffices
<1> QED BY <1>1, AlwaysInv, PTL

\* For passive users the client sends nothing but CLOSE behind its CLOSE.
THEOREM ClientQuietAfterClose == Spec => []QuietAfterClose
<1>1. Inv => QuietAfterClose BY DEF Inv, Quiet, QuietAfterClose
<1> QED BY <1>1, AlwaysInv, PTL

\* For passive users no ping is sent while one waits for its pong, for every ping
\* interval and timeout.
THEOREM ClientOnePing == Spec => []OnePingOutstanding
<1>1. Inv => OnePingOutstanding BY DEF Inv, Quiet, OnePingOutstanding
<1> QED BY <1>1, AlwaysInv, PTL

\* For passive users a closed status changes only to CLOSED_BY_CLIENT in close().
THEOREM ClientStatusSettles == Spec => StatusSettles
<1> DEFINE A == (Passive /\ m_status \in Conn!ClosedStatus /\ m_status' # m_status)
                  => Running("close", "clear") /\ m_status' = "CLOSED_BY_CLIENT"
<1>1. Inv /\ [Next]_vars => [A]_vars
  <2> SUFFICES ASSUME Inv, [Next]_vars, Passive, m_status \in Conn!ClosedStatus,
                      m_status' # m_status
               PROVE  Running("close", "clear") /\ m_status' = "CLOSED_BY_CLIENT"
    OBVIOUS
  <2>1. ~m_connection_open BY DEF Inv, StatusAt, Conn!ClosedStatus
  <2>2. ASSUME NEW l, Running("poll", l) PROVE FALSE
    <3>1. 1 \in DOMAIN stack /\ stack[1].fn = "poll" BY <2>2, InMethod
    <3> QED BY <2>1, <3>1 DEF Inv, OnePoll
  <2> QED BY <2>2, ConnChanges DEF Changes, conn, Shut, Conn!ClosedStatus
<1> QED BY <1>1, AlwaysInv, PTL DEF Spec, StatusSettles

\* update_ping() overlooks a PONG in the buffer only when max_reads frames were
\* dispatched before it, for every max_reads and every nesting of handlers.
THEOREM ClientPongNotOverlooked == Spec => PongNotOverlooked
<1> DEFINE A == (m_status' = "PING_TIMED_OUT" /\ stack' # stack /\ Running("poll", "ping")
                   /\ m_status # m_status') =>
                  (Head(stack).n >= MaxReads \/ \A i \in DOMAIN buf : buf[i] # "PONG")
<1>1. Inv => (Running("poll", "ping") =>
                Head(stack).n >= MaxReads \/ \A i \in DOMAIN buf : buf[i] # "PONG")
  <2> SUFFICES ASSUME Inv, Running("poll", "ping"), ~(Head(stack).n >= MaxReads)
               PROVE  \A i \in DOMAIN buf : buf[i] # "PONG"
    OBVIOUS
  <2>1. 1 \in DOMAIN stack /\ IsAt(1, "poll", "ping") BY InMethod DEF IsAt
  <2>2. Head(stack) = stack[1] BY NonEmpty DEF Running, Inv, TypeOK
  <2>3. buf = << >> BY <2>1, <2>2 DEF Inv, AtPing
  <2> QED BY <2>3
<1>2. Inv /\ [Next]_vars => [A]_vars BY <1>1
<1> QED BY <1>2, AlwaysInv, PTL DEF Spec, PongNotOverlooked

\* A step that makes the stack longer outside of poll() leaves a record on top
\* that is no data handler's.
LEMMA Pushes ==
  ASSUME Inv, TypeOK', Next, ~Running("poll", "read")
  PROVE  Len(stack') <= Len(stack) \/ Head(stack').fn \notin DataCallbacks
<1> DEFINE G == Len(stack') <= Len(stack) \/ Head(stack').fn \notin DataCallbacks
<1>1. /\ stack \in Seq(Activation) /\ Len(stack) \in Nat
      /\ stack' \in Seq(Activation) /\ Len(stack') \in Nat
  BY DEF Inv, TypeOK
<1>2. ASSUME stack' = stack \/ stack' = << >> PROVE G BY <1>1, <1>2
<1>3. ASSUME stack # << >>, stack' = Tail(stack) PROVE G
  <2>1. Len(stack') <= Len(stack) BY <1>1, <1>3
  <2> QED BY <2>1
<1>4. ASSUME NEW r \in Activation, stack # << >>, stack' = <<r>> \o Tail(stack) PROVE G
  <2>1. Top(stack, stack', r) BY <1>1, <1>4, BecomeOne
  <2> QED BY <1>1, <2>1 DEF Top
<1>5. ASSUME stack' # << >>, stack'[1].fn \notin DataCallbacks PROVE G
  BY <1>1, <1>5, NonEmpty
<1>6. ASSUME Unwind PROVE G BY <1>2, <1>6 DEF Unwind
<1>7. \A r \in Activation : stack # << >> /\ stack' = Become(<<r>>) => G BY <1>4 DEF Become
<1>8. stack # << >> => Head(stack) \in Activation BY <1>1, NonEmpty
<1>9. (stack # << >> /\ stack' = Again) => G BY <1>7, <1>8, Changed DEF Again
<1>10. \A l \in {"ping", "wait"} : (stack # << >> /\ stack' = Goto(l)) => G
  BY <1>7, <1>8, Changed DEF Goto
<1>11. ASSUME NEW s, stack' = <<Poll>> \o s \/ stack' = <<Poll, Close>> \o s, s \in Seq(Activation)
       PROVE  G
  <2>1. stack' # << >> /\ stack'[1] = Poll BY <1>11
  <2>2. Poll.fn = "poll" BY DEF Poll, Call
  <2> QED BY <1>5, <2>1, <2>2 DEF DataCallbacks
<1>12. Caller \in Seq(Activation) BY CallerType DEF Inv
<1>13. stack' = Caller => G BY <1>2, <1>9 DEF Caller
<1> SUFFICES G OBVIOUS
<1> HIDE DEF G
<1>14. CASE User
  <2>1. CASE Construct
    <3>1. stack' = <<Call("ctor", "handshake")>> \/ stack' = stack BY <2>1 DEF Construct
    <3>2. stack' = <<Call("ctor", "handshake")>> =>
            stack' # << >> /\ stack'[1].fn \notin DataCallbacks
      BY DEF Call, DataCallbacks
    <3> QED BY <1>2, <1>5, <3>1, <3>2
  <2>2. CASE CallPoll \/ CallClose BY <1>2, <1>11, <1>12, <2>2 DEF CallPoll, CallClose, Enter
  <2>3. CASE CallSend BY <1>6, <1>13, <2>3 DEF CallSend, Send, Throw
  <2>4. CASE Destroy
    <3>1. stack' = <<Poll, Close, Call("dtor", "run")>> \/ stack' = stack BY <2>4 DEF Destroy
    <3>2. stack' = <<Poll, Close, Call("dtor", "run")>> =>
            stack' # << >> /\ stack'[1].fn \notin DataCallbacks
      BY DEF Poll, Call, DataCallbacks
    <3> QED BY <1>2, <1>5, <3>1, <3>2
  <2>5. CASE Signal BY <1>2, <2>5 DEF Signal
  <2> QED BY <1>14, <2>1, <2>2, <2>3, <2>4, <2>5 DEF User, Calls
<1>15. CASE Server \/ Tick
  BY <1>2, <1>15
  DEF Server, ServerAnswers, ServerGoesMute, ServerSends, Arrives, Tick
<1>16. CASE Client
  <2>1. CASE StartPinging BY <1>2, <1>6, <2>1 DEF StartPinging, SendPing, Throw
  <2>2. CASE CloseClear
    BY <1>6, <1>10, <2>2 DEF CloseClear, CloseThrows, Throw, Running
  <2>3. Handler("on_close") \in Activation BY Records DEF Callbacks
  <2>4. CASE CloseGivesUp
    BY <1>7, <2>3, <2>4 DEF CloseGivesUp, Announce, Running
  <2>5. ASSUME NEW n, NEW half, NEW s, CloseRead(n, half, s) PROVE G
    BY <1>7, <1>9, <2>3, <2>5 DEF CloseRead, Announce, Running
  <2>6. CASE ReadThrows \/ HandlerReturns \/ Destroyed
    BY <1>2, <1>3, <1>6, <2>6 DEF ReadThrows, HandlerReturns, Destroyed
  <2>7. ASSUME NEW t, UpdatePing(t) PROVE G
    BY <1>3, <1>6, <2>7 DEF UpdatePing, SendPing, Throw, Running
  <2>8. ASSUME NEW n, NEW half, HandshakeRead(n, half) PROVE G
    <3> DEFINE on == <<Handler("on_open"), Call("ctor", "opened")>>
    <3>1. stack # << >> BY <2>8 DEF HandshakeRead, Running
    <3>2. stack' = Again \/ Unwind \/ stack' = Become(on) BY <2>8 DEF HandshakeRead
    <3>3. ASSUME stack' = Become(on) PROVE G
      <4>1. Over(stack, stack', Handler("on_open"), Call("ctor", "opened"))
        BY <1>1, <3>1, <3>3, Records, BecomeTwo DEF Become, Callbacks
      <4>2. Len(stack') = Len(stack) + 1 /\ stack'[1].fn = "on_open"
        BY <4>1 DEF Over, Handler, Call
      <4>3. stack' # << >> BY <1>1, <4>2
      <4> QED BY <1>5, <4>2, <4>3 DEF DataCallbacks
    <3> QED BY <1>6, <1>9, <3>1, <3>2, <3>3
  <2>9. ASSUME NEW n, NEW half, NEW s, PollRead(n, half, s) PROVE G BY <2>9 DEF PollRead
  <2> QED BY <1>16, <2>1, <2>2, <2>4, <2>5, <2>6, <2>7, <2>8, <2>9 DEF Client
<1> QED BY <1>14, <1>15, <1>16 DEF Next

\* For passive users no data frame reaches a handler on a closed connection, also
\* none that was buffered behind a CLOSE.
THEOREM ClientNoDataAfterClose == Spec => NoDataAfterClose
<1> DEFINE A == (Passive /\ Len(stack') > Len(stack) /\ Head(stack').fn \in DataCallbacks)
                  => m_connection_open
<1>1. Inv /\ [Next]_vars => [A]_vars
  <2> SUFFICES ASSUME Inv, Next, Passive, Len(stack') > Len(stack),
                      Head(stack').fn \in DataCallbacks
               PROVE  m_connection_open
    OBVIOUS
  <2>1. TypeOK' BY NextType DEF Inv
  <2>2. Len(stack) \in Nat /\ Len(stack') \in Nat BY <2>1 DEF Inv, TypeOK
  <2>3. Running("poll", "read") BY <2>1, <2>2, Pushes
  <2>4. 1 \in DOMAIN stack /\ stack[1].fn = "poll" BY <2>3, InMethod
  <2> QED BY <2>4 DEF Inv, OnePoll
<1> QED BY <1>1, AlwaysInv, PTL DEF Spec, NoDataAfterClose

=============================================================================
