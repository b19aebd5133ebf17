----------------------------- MODULE ClientSend -----------------------------
(***************************************************************************)
(* What a WSClient sends through: its parameter SocketType is one of the   *)
(* two socket classes, for its whole life.                                 *)
(***************************************************************************)
EXTENDS SocketSend

CONSTANT RecLen     \* how much of a frame a TLS record carries

ASSUME RecAssumption == RecLen \in Nat \ {0}

VARIABLES
  SocketType,
  tls_calls, tot, pend, tls_wire, room, tls_up   \* of an SSLSocketWrapper

plain == vars
tls == <<tls_calls, tot, pend, tls_wire, room, tls_up>>
both == <<SocketType, plain, tls>>

TLS == INSTANCE TLSSend WITH calls <- tls_calls, wire <- tls_wire, up <- tls_up

ClientInit ==
  /\ SocketType \in {"SocketWrapper", "SSLSocketWrapper"}
  /\ Init /\ TLS!Init

ClientNext ==
  \/ SocketType = "SocketWrapper" /\ Next /\ UNCHANGED <<SocketType, tls>>
  \/ SocketType = "SSLSocketWrapper" /\ TLS!Next /\ UNCHANGED <<SocketType, plain>>

ClientSpec == ClientInit /\ [][ClientNext]_both

\* The loop of either class runs; nothing is assumed of the peer.
FairClientSpec ==
  /\ ClientSpec
  /\ WF_both(SocketType = "SocketWrapper" /\ Send /\ UNCHANGED <<SocketType, tls>>)
  /\ WF_both(SocketType = "SSLSocketWrapper" /\ TLS!Send /\ UNCHANGED <<SocketType, plain>>)
----------------------------------------------------------------------------
\* The variables of SSLSocketWrapper::send have their types.
TLSTypeOK == TLS!TypeOK

\* Until a send() over TLS throws, the server gets the frames whole and in the
\* order of the calls.
TLSWholeUntilThrow == TLS!WholeUntilThrow

\* Also after one threw, the server gets as many bytes as send() reported, each
\* from its place in a frame, though maybe in an earlier one than was reported.
TLSPositionsKept == TLS!PositionsKept

\* send() over TLS comes back although the peer may never take a record.
TLSSendEnds == TLS!SendEnds
=============================================================================
