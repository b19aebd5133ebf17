------------------------------ MODULE TLSSend ------------------------------
(***************************************************************************)
(* send() of SSLSocketWrapper, on a non-blocking socket below OpenSSL.  A  *)
(* frame goes out as TLS records.  The program sets no SSL_MODE: SSL_write *)
(* takes the whole frame or fails, so the loop of send() runs once, and a  *)
(* record that did not leave stays in the SSL object for the next          *)
(* SSL_write, which is expected to repeat the call that failed.  send()    *)
(* throws instead, and the next frame is another one.                      *)
(***************************************************************************)
EXTENDS Integers, SequencesExt, FiniteSetsExt

CONSTANTS
  Lengths,    \* the lengths of the frames that are sent; an int can say them
  RecLen,     \* how much of a frame a record carries
  MaxCalls    \* bound: calls of send()

VARIABLES
  calls,    \* history: the calls of send(), their lengths and outcomes
  tot,      \* how much of this SSL_write is done, kept when it fails
  pend,     \* the bytes of the record that could not leave
  wire,     \* history: the bytes in the records that left
  room,     \* the kernel has room for a record
  up        \* the connection has not failed for good

vars == <<calls, tot, pend, wire, room, up>>
----------------------------------------------------------------------------
This    == Len(calls)
Running == calls # << >> /\ calls[This].out = "running"
Ends(out) == calls' = [calls EXCEPT ![This].out = out]

Init ==
  /\ calls = << >> /\ tot = 0 /\ pend = << >> /\ wire = << >>
  /\ room = TRUE /\ up = TRUE

Call(len) ==
  /\ ~Running /\ Len(calls) < MaxCalls
  /\ calls' = Append(calls, [len |-> len, out |-> "running"])
  /\ UNCHANGED <<tot, pend, wire, room, up>>

\* Bugs: the frame is read from one byte before buf + sent; WANT_WRITE counts
\* as sent; WANT_WRITE is tried again at once.
Byte_early(j)   == [call |-> This, byte |-> tot + j - 1]
WantWrite_sent  == Ends("returned")
WantWrite_retry == UNCHANGED calls

\* SSL_write is given buf + sent: its jth byte behind those that are done.
Byte(j) == [call |-> This, byte |-> tot + j]

\* case SSL_ERROR_WANT_WRITE
WantWrite == Ends("threw")

\* The record to write: the pending one first, whatever frame it is of.
Record ==
  IF pend # << >> THEN pend
  ELSE [j \in 1 .. Min({RecLen, calls[This].len - tot}) |-> Byte(j)]

Unfinished == Running /\ (tot < calls[This].len \/ pend # << >>)

\* OpenSSL charges the pending record to the frame it is given now, and only
\* looks whether that one is long enough.
LongEnough == tot + Len(pend) <= calls[This].len

Leaves ==
  /\ Unfinished /\ up /\ room /\ LongEnough
  /\ wire' = wire \o Record /\ tot' = tot + Len(Record) /\ pend' = << >>
  /\ room' \in BOOLEAN
  /\ UNCHANGED <<calls, up>>

\* The kernel has no room: the record waits in the SSL object.
Blocks ==
  /\ Unfinished /\ up /\ ~room /\ LongEnough
  /\ pend' = Record /\ WantWrite
  /\ UNCHANGED <<tot, wire, room, up>>

\* SSL_ERROR_SSL: the frame is too short for the pending record, or the buffer
\* of FrameFactory has grown and is at another address.  Some versions of
\* OpenSSL refuse all further writes then.
BadRetry ==
  /\ Running /\ up /\ pend # << >> /\ pend[1].call # This
  /\ Ends("threw")
  /\ up' \in BOOLEAN
  /\ UNCHANGED <<tot, pend, wire, room>>

\* SSL_ERROR_SYSCALL, SSL_ERROR_ZERO_RETURN, and SSL_ERROR_SSL from then on.
Fails ==
  /\ Unfinished /\ ~up
  /\ pend' = Record /\ Ends("threw")
  /\ UNCHANGED <<tot, wire, room, up>>

Return ==
  /\ Running /\ ~Unfinished
  /\ Ends("returned") /\ tot' = 0
  /\ UNCHANGED <<pend, wire, room, up>>

\* The peer takes a record from the kernel.
PeerTakes == ~room /\ room' = TRUE /\ UNCHANGED <<calls, tot, pend, wire, up>>

Reset == up /\ up' = FALSE /\ UNCHANGED <<calls, tot, pend, wire, room>>

Send == Leaves \/ Blocks \/ BadRetry \/ Fails \/ Return

Next == (\E len \in Lengths : Call(len)) \/ Send \/ PeerTakes \/ Reset

Spec == Init /\ [][Next]_vars
----------------------------------------------------------------------------
WireByte == [call : Nat \ {0}, byte : Nat \ {0}]

\* Every variable has its type.
TypeOK ==
  /\ calls \in Seq([len : Lengths, out : {"running", "returned", "threw"}])
  /\ tot \in Nat /\ wire \in Seq(WireByte)
  /\ pend \in Seq(WireByte) /\ Len(pend) <= RecLen
  /\ room \in BOOLEAN /\ up \in BOOLEAN

\* The first n bytes of call i.
FirstBytes(i, n) == [j \in 1 .. n |-> [call |-> i, byte |-> j]]

\* What calls that returned reported as sent, and what is done of the next.
Reported ==
  FlattenSeq([i \in DOMAIN calls |->
                IF calls[i].out = "returned" THEN FirstBytes(i, calls[i].len) ELSE << >>])
  \o FirstBytes(This, tot)

\* Until a send() throws, the server gets the frames whole, in the order of the
\* calls, and of the call in progress a beginning.
WholeUntilThrow ==
  (\A i \in DOMAIN calls : calls[i].out # "threw") => wire = Reported

\* Also after send() threw and the program went on, the server is given as many
\* bytes as were reported to the program, and each of them from the place it
\* has in its frame.  Whose frame it is of is another matter: the beginning of a
\* frame whose send() returned may be that of an earlier one, left pending.
PositionsKept ==
  [k \in DOMAIN wire |-> wire[k].byte] = [k \in DOMAIN Reported |-> Reported[k].byte]

\* send() comes back although the peer may never take a record.
SendEnds == Running ~> ~Running
=============================================================================
