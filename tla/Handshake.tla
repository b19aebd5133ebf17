----------------------------- MODULE Handshake -----------------------------
(***************************************************************************)
(* The request that opens the connection, as the HTTP server reads it: a   *)
(* sequence of texts and line ends that is over at the first empty line.   *)
(* The user's extra_headers go into it as they are.  The values of host    *)
(* and path are left out: no one in this code looks at them again.         *)
(***************************************************************************)
EXTENDS Integers, Sequences

CRLF == "CRLF"
Line(text) == <<text, CRLF>>

\* Random bytes in Base64, on one line: newlines are switched off.
generate_sec_websocket_key == <<"key">>

build_websocket_handshake_request(extra_headers) ==
  Line("GET") \o Line("Host") \o Line("Upgrade") \o Line("Connection")
    \o <<"Sec-WebSocket-Key">> \o generate_sec_websocket_key \o <<CRLF>>
    \o Line("Sec-WebSocket-Version")
    \o extra_headers \o <<CRLF>>

\* What the request is made of besides the extra_headers.
RequestText == {"GET", "Host", "Upgrade", "Connection", "Sec-WebSocket-Key", "key",
                "Sec-WebSocket-Version", CRLF}

\* The server has found the end of the request.
Complete(request) ==
  \E i \in 2 .. Len(request) : request[i - 1] = CRLF /\ request[i] = CRLF
=============================================================================
