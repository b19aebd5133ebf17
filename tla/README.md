# Verification of fast-websocket-client

TLA+ specifications of the WebSocket client in `src/`, checked with TLC on small
instances, with proofs that TLAPS checks of their safety properties for every
instance: the frame parser, the client, the sockets, the encoder and its random
generator.

The library is header only. `src/include/fastws/` holds the client, its sockets
and the handshake; `src/single_header/fastws.hpp` is the generated amalgamation
and the only place in this repository where the two dependencies are present
(`wsframe`, lines 289-808: frames, parser, encoder; `plf::nanotimer`, lines
160-194). The specifications refer to `src/include` for the client and the
sockets and to the single header for `wsframe` and the timer.

## 1. Inventory

| component | state | operations | correct when |
|---|---|---|---|
| `wsframe::FrameBuffer` | a vector, the number of claimed bytes | `ensure_fit`, `ensure_extra_space`, `tail`, `claim_space`, `push_back`, `clear` | nothing is read or written outside the vector; no byte is lost, doubled or moved out of order |
| `wsframe::FrameParser` | its buffer, `m_ptr`, `m_parse_stage`, the frame in progress, its length | `update(bool)`, `update(string_view)`, `clear`, and `parse` with its `check_*` functions | returns the server's frames unchanged, in order and as soon as they are complete, however the stream is cut into reads |
| `WSClient` | `m_status`, `m_connection_open`, the ping timer, `m_waiting_for_ping`, `m_last_rtt`, a socket, a parser, an encoder | constructor with `connect`, `poll`, `close`, `send_text`, `send_binary`, destructor | opens once and closes once, tells the handler, notices a dead peer, always comes back, keeps all this when a handler calls back into it or a send throws |
| `SocketWrapper`, `SSLSocketWrapper` | a non-blocking descriptor (and an SSL object), a read buffer | connect, `send`, `read`, `read_into`, move, disconnect | sends all or reports; releases each resource once |
| `wsframe::FrameFactory`, `Frame::construct`, `RandomCache` | an output buffer, a cache of random masks | `text`, `binary`, `ping`, `pong`, `close` | what it writes is a frame the decoder reads back; stays inside its buffer; masks are fresh |
| `wsframe::XorShift128Plus`, `device_random` | two 64-bit words | the constructor, `next64`, `fill_bytes` | never gets into the state of two zeros, which it would not leave |
| `build_websocket_handshake_request`, `generate_sec_websocket_key` | none | build the HTTP request | the server finds its end, also with the user's extra headers in it |
| the programs of `examples/` | a client, a handler, `should_run` | a loop over `poll` until the status is not HEALTHY, or until SIGINT | they end when their connection does |
| `plf::nanotimer` | a start time | `start`, `get_elapsed_ms` | - |

How they interact. `WSClient::poll` loops: `m_socket.read_into` puts what the
non-blocking socket has into the parser's buffer, `m_parser.update(bool)` returns
at most one frame, and the frame is dispatched: data to a handler, PING answered,
PONG to `handle_pong`, CLOSE answered and announced. At most `max_reads` frames
are dispatched, then `update_ping` looks at the timer. `WSClient::close` calls
`poll`, throws away the parser's buffer, sends CLOSE, reads with
`m_socket.read` + `m_parser.update(string_view)` until a CLOSE comes or its loop
runs out, and calls `on_close`. The destructor calls `close`. All of it runs on
one thread; what moves in between is the server, the network and the clock, and
the user's `FrameHandler`, which may call `poll`, `close` and `send_*` from inside
any callback, `on_open` in the middle of the constructor included.

What is hard here, and hardly reached by a test (`hazards` in `PROJECT.json`
gives the line of each):

- the cut of the byte stream into reads, frames completed by a read that already
  returned another one, the move of the buffer between two frames;
- re-entrancy: `close` inside `poll` inside `close`, state tested before the
  inner call and relied on after it, and a recursion that only the stack bounds;
- `clear()` in the middle of a frame, and reads of the handshake that run past
  its end: the framing of the rest of the stream is lost;
- exceptions thrown by `send`, `read` or `m_factory.pong` between two assignments
  that belong together, and out of the destructor;
- time: the pong that comes late, in time but unread, or never; a timer that was
  never started; a server that floods the client;
- the 64-bit length, decoded with shifts of a 32-bit `int`;
- non-blocking writes that stop half way, TLS records that stay behind in OpenSSL,
  and resources of a half-made connection;
- a handshake that is half there when its time is over, and extra headers that
  leave the request without an end;
- seeds and generator states that would make every masking key zero.

## 2. Plan

Done, in this order: the parser with its buffer (`WsFrame`, `FrameParser`), its
abstract specification (`FrameStream`), the lifetime of payloads (`PayloadView`), the
client (`WSClient`), its abstract specification (`Connection`), the encoder
(`FrameFactory`), the sockets' sending loops (`SocketSend`, `TLSSend`) and their life
(`SocketLife`), the random generator (`XorShift`), the handshake request (`Handshake`),
the example programs (`Examples`), the server's view of what the client sends
(`ServerReadsFrames`), the proofs of the invariants the runs check, `TLSSend` aside, and
of the two refinements `ImplementsStream` and `ImplementsConnection`.

What is left is the proof of `ServerReadsFrames` and of the invariants of `TLSSend`: the
first selects the frames begun and taken out of the calls made, the others join the
frames of the calls that returned, and the effect of one more byte on either takes an
induction over the calls.

## 3. Modules

### WsFrame and FrameParser

`WsFrame` holds what has no state of its own: the form of a frame, `FrameBuffer`
and `FrameParser` as operators; `FrameParser` and `FrameFactory` extend it.

The state of the object is one record `p` (`buf`, `size`, `ptr`, `len`, `stage`,
`frame`); every `check_*` function, `parse`, `reset`, `clear` and both overloads of
`update` are operators from such records to such records with the names of the
code. A byte is a number, the vector a sequence that only grows, a payload an
offset and a length into it. `parse` applies all stages one after the other, as
the code does, so one call moves through as many stages as there are bytes.

The actions are what the client does with the parser: `PollData` and `PollEmpty`
(`read_into`, then `update(bool)`), `CloseRead` (`read`, then
`update(string_view)`) and `Clear`. The server is `ServerSend`: it appends the
encoding of a frame to `wire`, from which the reads take 1 to `Chunk` bytes at a
time. `sent`, `ends`, `delivered`, `origin`, `nxt` and `aligned` are history: they
say which frame of the server the next one out of the buffer is, and whether the
framing is kept: a `clear()` has cut no frame, and no 64-bit length was decoded.

`fin` and `mask` of the first frame are uninitialised in the code and any Boolean
here. `consume() << 8 * i` for a 64-bit length shifts a promoted 32-bit `int` by 32 and
more: C++ leaves that undefined for every byte, zero included. So whatever the eight
bytes are, the length is any member of `UndefLens`, and from there on (`DecodesLong`)
only the safety of the buffer is claimed. A client that receives payloads of more than
65535 bytes, as `tests/test.cpp` does at line 57, relies on the choice of its compiler.

`FrameStream` is the promise: an ordered stream of frames, from which a block may
be skipped, and which may lose its framing once, by a `clear()` or a 64-bit length.

### PayloadView

Extends `FrameParser` with the handlers in progress and the views they hold, to
state what the README says about the lifetime of a payload.

### FrameFactory

`Frame::construct` (its length field, masking and unchecked writes), the shared
output buffer, `RandomCache` and the five kinds of frames, byte by byte. The buffer
is what `ensure_fit` leaves, old bytes included; what a frame would write behind it
is cut off, and `size` tells. The cache is filled by the generator of `XorShift`, seeded
with a pair from `Seeds`; `^` on bytes is the constant `XorByte`, of which only being its
own inverse is assumed. `ping`, `pong` and `close` are disabled for payloads they throw
on. The history `drawn` remembers from which fill and position each key came.

### XorShift

`XorShift128Plus` with its 64-bit words as they are: a word is the set of the
positions of its ones, so that `^`, `<<` and `>>` are operations on sets and the sum
is an adder with a carry. `next64` gives the state it leaves and `value64` what it
returned; `fill_bytes` takes eight bytes of each value, and fewer of the last one.
`device_random` is the choice of the seeds.

### SocketSend and TLSSend

`SocketWrapper::send` is a loop over a non-blocking socket: a step of `SocketSend` is
one `::send`, which takes any number of bytes that fits the kernel's
buffer, or fails when there is no room or the connection was reset. Every byte on
the wire is marked with its call and its place in the frame, and calls follow each
other also after an exception, as they do in a client whose application catches it.
`IntHalf` is 2^31 made small: `AsInt` is the conversion of the length to `int`. The
peer takes bytes from the kernel one at a time. What it reads out of them is the
abstract stream of the parser, `FrameStream`, once more, this time with the client as
the sender: a frame is sent when its first byte is written and delivered when its
last byte is taken, and the framing is lost by a frame whose call threw half-way.

`SSLSocketWrapper::send` looks the same and is not. The program sets no `SSL_MODE`, so
`SSL_write` writes a frame record by record, returns its full length or fails, and the
loop runs once. When the kernel has no room, OpenSSL keeps the encrypted record and
the count of the bytes done (`pend`, `tot`) and expects the same call again; `send()`
throws instead (`WantWrite`), and the next `SSL_write` comes with another frame. OpenSSL
then sends the old record and goes on in the new frame behind as many bytes, provided
that the new frame is long enough (`LongEnough`) and at the same address, which it is
unless the buffer of `FrameFactory` has grown in between; otherwise the write fails
(`BadRetry`), in some versions for good. A part of a record in the kernel is no use to
the peer, so a record leaves as a whole. The model shows what remains true then
(`PositionsKept`), and with it what does not: after an exception a `send()` may return
while the beginning of its frame on the wire is that of the frame before. A program
over TLS should take an exception of `send` for the end of the connection.

`ClientSend` puts the two together: the `SocketType` of a client is one of the classes.

### SocketLife

`connect` of both socket classes with each of its ways to fail, the move assignment
`m_socket = SocketType(host, port)`, and the release by the destructor, for several
clients at once. Descriptors and heap objects are numbers that are given out lowest
first and reused, so a handle released twice is a handle taken from its new owner.
`Throw` is an exception out of the constructor: what only the half-made object
knew is gone.

### WSClient

Re-entrancy is the point, so the calls in progress are data: `stack` holds an
activation record (function, program counter, loop count) for each, and the step
of the client is the step of the innermost one. Between two steps anything else
may happen: a message arrives, the clock ticks. A step reaches from one call of
the socket or a handler to the next. Nothing in the code bounds the nesting:
`close()` leaves `m_connection_open` true while its own `poll()` runs, so a handler that
closes is entered again for every frame that is there. What bounds it is the stack
of the program, `MaxDepth` records here; a call that finds it full (`Enter`) ends the
program in the phase `overflow`.

| code | actions |
|---|---|
| constructor, `connect` | `Construct`, `HandshakeRead`, `StartPinging` |
| `poll` | `CallPoll`, `PollRead` (with `PollData`, `PollPing`, `PollPong`, `PollClose` for the frame it found), `UpdatePing` |
| `close` | `CallClose` (which starts with `poll`), `CloseClear`, `CloseRead`, `CloseGivesUp` |
| `send_text`, `send_binary` | `CallSend` |
| `~WSClient` | `Destroy`, `Destroyed` |
| a handler returns | `HandlerReturns` |
| exceptions | `Throw` inside the actions that send, `ReadThrows`; `Unwind` leaves the outermost call |
| SIGINT | `Signal` |
| server, network, clock | `ServerAnswers`, `ServerSends`, `ServerGoesMute`, `Tick` |

Bytes become messages: `inq` is what arrived, `buf` the complete frames in the
parser's buffer, `part` whether an incomplete one follows. `FrameParser` justifies
this: a frame comes out exactly when its last byte is in the buffer
(`NoFrameWithheld`) and is the next one (`DeliveredInOrder`). When bytes are dropped
inside a frame, `lost` is set and later reads decode to any number of frames of the kinds
in `Garbage`. The modelled server sends no frame with a 64-bit length.
A timer that was never started, as `on_open` finds it, reads anything, negative values
included (`UnsetReadings`), and `m_last_rtt` may keep such a reading.
`m_socket.send` succeeds or throws; what a send that threw left on the wire is the
subject of `SocketSend` and `TLSSend`. Plain sockets throw on read errors and TLS sockets do not.
The end of the stream reads as "no data" with both.

Who uses the client is data as well: a `Setup` says what each handler may call (up to
`MaxCalls` calls in each activation), whether the application stops polling and sending
at the first status other than HEALTHY, when it destroys the client, whether it
catches exceptions, whether sends and reads may fail, and which frames the server
sends. A run gives the set of setups it covers.

`Handshake` is the request as a sequence of texts and line ends. A server answers
only a request whose end it can find (`Complete`): the user's `extra_headers` go into it as
they are, and without their own line end they swallow the blank line.

`Examples` gives the programs `example.cpp`, `ping.cpp` and `coinbase.cpp` as setups:
what their handlers do, and a loop over `poll` with the destructor behind it. Whether
a text is the echo on which `example.cpp` closes is left open.

`Connection` is what `status()` promises: UNKNOWN, then HEALTHY or FAILED, then
closed for good, whichever of the closed values it shows.

## 4. Runs

| run | shows |
|---|---|
| `parser` | two frames out of five kinds (each form of the length, masked, empty, fragment, payloads that look like headers), any cut into reads of 1 to 3 bytes, `close`'s reads and `clear()` anywhere: buffer safety, faithfulness, no finished frame left in front, order, promptness, the refinement of `FrameStream`, and that every frame comes out if the client keeps polling; behind a 64-bit length only the safety and the bytes of the buffer are claimed |
| `client` | three uses of the client. Handlers that only send, with every send and every read throwing at will: nothing is dispatched or sent after the end, one ping at a time, the final status is not relabelled by a late event. An `on_open` that polls and closes before the ping timer is started: whatever the timer reads, it is started once the constructor is through. Handlers that poll and close inside `poll` and `close`, where nothing throws: `on_close` comes, the ping timeout does not overlook a pong except behind `max_reads` frames. All: refinement of `Connection`, a destroyed client is closed, and the stack suffices unless a handler of data calls the client |
| `client_live` | the three example programs and a client whose handlers close, while data keep coming, sends fail and the request may be without an end: every call returns, throws or runs out of stack, a mute server is given up unless that ends the program first, and each program ends once its connection has or SIGINT has come |
| `factory` | frames of all kinds one after the other, masked or not, with payloads on both sides of 125, keys across refills of the cache, generators seeded with zeros and with ones at the ends of the words: bounds, decoding by `FrameParser`, freshness of keys, no dead generator; and the length field at each of its boundaries up to 2^31 - 1, as the RFC asks for it, and read back by the parser in the two forms whose decoding is defined |
| `socket_send` | three frame lengths, calls after exceptions, a reset at any time, on a socket of either class. `SocketWrapper`, with short writes anywhere: order on the wire, whole frames when `send` returns, and the server reads a `FrameStream`. `SSLSocketWrapper`, with a kernel without room at any record: whole frames in order until a call throws; behind it the server still gets as many bytes as were reported, each from its place in some frame. Both: `send` always ends |
| `socket_life` | two clients, TLS or plain, failing at every point, with three descriptors and five heap objects: no handle is released under another owner, and only a failed TLS `connect` leaks |

Six runs are expected to end in a violation. Each states what the repository's
README or a comment of its code says and shows a run of the code that does otherwise:

| run | what the counterexample shows |
|---|---|
| `on_close_twice` | `close()` calls `poll()`, which reads the server's CLOSE and announces it; `close()` goes on, sends CLOSE again, waits for an answer that already came and announces the end again |
| `first_frames` | frames in the same read as the end of the handshake are thrown away |
| `handshake_unfinished` | the reads of `connect` are used up with the status line there and the end of the headers not: the connection counts as open, and the rest of the headers is parsed as frames |
| `payload_lifetime` | a handler that polls or closes finds other bytes under its payload |
| `socket_send_part` | `send` throws when the socket would block in the middle of a frame: the beginning of the frame stays on the wire |
| `close_recursion` | `example.cpp` against a server that sends on: `on_text` - `close` - `poll` - `on_text` - ..., once per frame, until the stack is used up |

Bounds. The parser has no memory beyond the bytes of one frame and what follows
it, so two frames show every pair of neighbours, and a
chunk of 3 against frames of 2 to 12 bytes and a first capacity of 3 gives reads
inside each field, reads across frames and growth of the vector. `MaxGarbage`
bounds the frames after the framing is lost, about which nothing is claimed but
safety of the buffer. In the client, `MaxReads = 2` is the least value with a
second iteration, `PingEvery = PingTimeout = 1` gives a clock below, at and beyond
the limits, `MaxQueue = 2` lets a
message wait behind another in the socket or in the parser, and a stack of 4 holds
the nesting `poll` - handler - `close` - `poll`, behind which the next call overflows.
`client_live` has `MaxReads = 1`, so that a bound on reads is met by every frame, and a
stack of 6, for two closing handlers inside each other; its ping limits are 0, because
liveness asks only whether the clock has passed them. `UnsetReadings` has a value
below and one beyond all limits. `Garbage` has one kind of data frame besides the control
frames, since of the handlers of data only `on_text` does something of its own.
`ExtraHeaders` are none, a line, and a text without its line end. History counters
stop at `CloseCap`.

The encoder writes each frame from the front of its buffer, so two frames after the
initial state show every reuse of it. A cache of three keys takes one and a half
values of the generator, and the fourth of four masked frames refills it. Payloads of 65536 bytes are too long for TLC to write out: beyond 126 bytes
`LengthsDecode` checks the header alone. In `SocketSend` a kernel buffer of three
bytes against frames of 1, 3 and 7 lets a frame fit beside others, fit only alone, and
never fit at once; lengths stay below `IntHalf`, as the theorem about them assumes. In
`TLSSend` records of two bytes against the same frames make a pending record longer
than the next frame, as long, and shorter, in the first and in a later record. In `SocketLife` three descriptors for two clients run out,
and two addresses give a first, a next and a last one.

Deadlock is checked in the parser's runs and in `socket_life`. It is not checked for
the client (a destroyed or failed client really stops), nor for the encoder and
the sending loops, whose callers stop at `MaxFrames` and `MaxCalls`.

Fairness. `parser` assumes the application polls for ever and the socket
hands over bytes that have arrived. `client_live` assumes that the client's steps
are taken (the sockets never block and handlers go on), that time passes, and that
the application calls `poll` in a loop, as the README tells it to, and leaves the
scope of the client when the loop ends, as the examples do. Nothing is
assumed of the server. `socket_send` assumes that the loop of either class runs on, and
nothing of the peer: a write gives progress or an error. For `SSL_write` this leaves out a
result of 0, which the code does not treat as an error and on which it would spin.

## 5. Proofs

Each proof module has the invariant it needs first, then the lemmas, one lemma per
action, and the theorems. The assumptions are the named ones of the specifications,
which TLC evaluates in the runs.

### The parser

`WsFrameProofs` holds the lemmas about the operators of `WsFrame`, for any sequence of
bytes. Each `check_*` function keeps the bytes and stays sound, that is typed and in
bounds (`Keeps`, `Sound`), so `parse` does. `Decoding(q, f)` says of a parser with a frame
`f` at the front of its buffer what it knows of it at each stage: where `ptr` is, and
which of flags, length, key and payload are already those of `f`. Each `check_*` keeps
that as well, for the two forms of the length whose decoding is defined (`LenDecodes`,
`Ext16Decodes` and their like); `ParseDecodes` puts them together, and `DoneDecodes` says that what comes out at
the end is `f`.

`FrameParserProofs` proves for every set of frames with a representable length, every
initial capacity, chunk size and outcome of the undefined shifts `TypeCorrect`,
`BufferSafe` (`Spec => []BufferInBounds`) and `BufferFaithful` (`Spec =>
[]BufferIsStream`). `BufferInBounds` alone is not inductive (the bytes a check function
stores must be bytes and the recv must fit the space made for it) and `BufferIsStream`
needs it: `reset` moves bytes counted by `remaining()`, which is a number only while
`ptr <= size`. The invariant `Inv` joins `TypeOK` with `Holds(p, wire, rd)`: the parser
state is sound and its claimed bytes are the last ones before `rd`.

`FrameDecodeProofs` goes on to what comes out: `ParserDeliversInOrder`,
`ParserWithholdsNothing`, `ParserBufferStartsAtFrame` and the refinement
`ParserImplementsStream`. None of these is inductive: they speak of frames at the moment
they are finished, and the next step depends on how far the parser is in the frame
after. `DInv` adds to `Inv` that the offsets in `ends` cut the wire into the frames sent
(`Framed`), that while the framing is kept the parser is in step with the server
until a `clear()` inside a frame or a 64-bit length ends that
(`InStep`: either it has just returned frame `nxt - 1`, or the buffer starts with frame
`nxt`, the parser is `Decoding` it and not all of its bytes are there), and what
`delivered` and `origin` hold (`History`).

### The client

`WSClientProofs` proves for every setup, loop bound, ping limit and depth of nesting:
`ClientTypeCorrect`, the refinement `ClientImplementsConnection`,
`ClientDestroyedIsClosed`, `ClientAnnouncesClose`, `ClientQuietAfterClose`,
`ClientOnePing`, `ClientStackSuffices`, and the action properties `ClientStatusSettles`,
`ClientPongNotOverlooked` and `ClientNoDataAfterClose`. What one
call does depends on the calls around it, so the invariant is about the whole stack:

- `Nesting`: constructor and destructor are the outermost calls;
- `StatusAt`: `m_connection_open` is `m_status = HEALTHY`, and which statuses each phase of
  the object's life has (with it every step maps to a step of `Connection`);
- `Destructing`: the destructor is on the stack with an open connection only under the
  `close()` that has yet to close it;
- `Announced`: a connection that was closed has been announced, or a `close()` somewhere on
  the stack is in the loop behind which it will be;
- `AtPing`: `poll` reaches `update_ping` with its reads used up or with an empty buffer, also
  when handlers have polled in between;
- `OnePoll` and `Quiet`: for handlers that neither poll nor close, there is one `poll` at
  most, it runs on an open connection, and at most one ping is out, with
  `m_waiting_for_ping` set;
- `Room`: `on_open` is called by the constructor alone, and under `on_close` the
  connection is closed, so what these two call goes no deeper.

`CloseAnnounced` speaks of setups in which neither sends nor reads throw. The
exception for reads is needed: the read in the loop of `close()` may throw after the
status was set and before `on_close`, which leaves the connection closed and unannounced
for good, as a `send_close` does that throws in `poll()` behind the server's CLOSE.

### The sockets

`SocketLifeProofs` proves for any number of clients, descriptors, heap objects and
addresses `SocketTypeCorrect`, `SocketHandlesOwned` (`Spec => []HandlesOwned`) and
`SocketLeaksOnlyFromFailedTLS`. `HandlesOwned` is about the finished sockets and says
nothing of a `connect` half-way through; the invariant names every place a client can
keep a handle, the address list and the temporary of the move included, and says that
no two places share one and all are alive (`FdsOwned`, `HeapOwned`), what a client
holds at each point of its constructor (`Shape`), and that without a failed TLS connect
every handle in use is in one of the places (`Reached`).

`SocketSendProofs` proves for all frame lengths, kernel buffers and widths of `int`
`SendTypeCorrect` and `SendKeepsOrder` (`Spec => []WireInOrder`), and, if all
lengths fit an `int`, `SendReturnsWhole` (`Spec => []ReturnedWhole`). `WireInOrder`
speaks of neighbours on the wire, which says nothing of the write to come; the
invariant `Inv` adds `Progress`: no byte on the wire is of a later call, `total_sent`
is the place of the last byte of the call in progress, and `to_send + total_sent` is
at most the length of its frame. `Whole` adds equality there when lengths fit, and
that returned calls are complete.

### The encoder and its generator

`FrameFactoryProofs` proves for all payloads up to 2^31 - 1 bytes, all capacities and
cache sizes `FactoryTypeCorrect`, `EncodedSafe` (`Spec => []EncodedInBounds`),
`MaskingKeysFresh` (`Spec => []KeysAreFresh`), `FactoryWritesFrames` (`Spec => []Encoded`)
and `FactoryGeneratorAlive`; and, for the payloads up to 65535 bytes whose length the
parser decodes by defined shifts, `FactoryFramesDecode` (`Spec => []DecodesToRequest`) and
`FactoryLengthsDecode`, which also says how a longer length is written.
`ConstructFits` bounds header, key and payload by the room that was made; for the keys
the invariant adds that the cursor is a multiple of four (`Aligned`: otherwise the last
key would reach past the end) and that every key of the present fill lies before it
(`DrawnBehind`). `Encoded` says that the front of the shared buffer is byte for byte the
`Encode` of the request, masked or not; the lemmas of `WsFrameProofs` then give the
decoding. It assumes `FactoryAssumption` and `XorAssumption`.

`XorShiftProofs` proves for all states of the generator that neither the constructor
(`SeededAlive`) nor a step of `next64` (`NextAlive`) leads to two zero words. A step does
only if the second word is zero and the first one, `x`, satisfies `x ^ (x << 23) = 0`
behind `x ^ (x >> 17) = 0`: each one of `x` would then have another one at a fixed
distance, and 64 bits are too few. `fill_bytes` is a loop of such steps, a recursive
function here; `FillAlive` is by induction over its length. The induction theorems of
the library take an operator, which the provers cannot instantiate, so the induction
is restated for sets: a nonempty set of naturals has a least element (`LeastNatural`,
from the well-foundedness of `<`), hence `SetInduction`, hence the recursive definition
has a solution, and any solution stays within the living states.

### What is only model-checked

`ServerReadsFrames` and the invariants of `TLSSend` (planned), and the liveness properties `EveryFrameDelivered`,
`CallsReturn`, `MutePeerDetected`, `ProgramEnds`, `SendEnds` and `TLSSendEnds`, which are outside the
reach of the prover. `SendReturnsWhole` has the hypothesis that lengths fit an `int`: beyond it
the code really sends less.

## 6. Not modelled

- The inside of OpenSSL and of the kernel: they are the outcomes of calls, and the
  pending record in `TLSSend`; an `SSL_write` that returns 0 or must read first
  (renegotiation) is left out. A handler that catches the exception of a call it made:
  an exception leaves all calls up to the application. Signals
  (`SIGPIPE` of a `::send` without `MSG_NOSIGNAL`) and several threads in
  `disconnect()` are named as hazards only.
- The values of host, path and key in the handshake request: nothing looks at them
  again, since the client never checks `Sec-WebSocket-Accept`. The statistics of
  `mt19937` and of the masking keys are no property of states.
- UTF-8, reserved bits, fragmentation rules and control frame limits: the code has
  no checks of them to model.
- Logging (`verbose`), benchmarks and tests; the generated copy of the client and the
  sockets in the single header, and the parts of `plf::nanotimer` for other systems.
