------------------------------ MODULE Examples ------------------------------
(***************************************************************************)
(* The programs of examples/ as uses of WSClient: a FrameHandler, a loop   *)
(* over poll() that stops when the status is not HEALTHY, and the          *)
(* destructor behind it.  They are TLS clients, whose reads do not throw,  *)
(* and catch nothing.                                                      *)
(***************************************************************************)
EXTENDS WSClient

CONSTANT ServerFrames    \* what their servers send

\* A FrameHandler that does this in on_open and on_text and prints otherwise.
FrameHandler(on_open, on_text) ==
  [cb \in Callbacks |-> CASE cb = "on_open" -> on_open
                          [] cb = "on_text" -> on_text
                          [] OTHER -> {"return"}]

main(handlers, ends) ==
  [handlers |-> handlers, disciplined |-> TRUE, ends |-> ends, catches |-> FALSE,
   send_fails |-> TRUE, read_fails |-> FALSE, frames |-> ServerFrames]

\* example.cpp closes the connection in the handler of the text it sent.
example == main(FrameHandler({"send"}, {"return", "close"}), "loop")

\* ping.cpp only listens.
ping_example == main(FrameHandler({"send"}, {"return"}), "loop")

\* coinbase.cpp subscribes and listens until SIGINT.
coinbase == main(FrameHandler({"send"}, {"return"}), "signal")

\* Each program ends once its connection is not HEALTHY, whichever side or timeout
\* ended it and wherever in poll() or close() that was noticed, and at SIGINT,
\* whatever the server sends and with the closing handshake in between.
ProgramEnds ==
  (phase = "up" /\ setup.ends # "any" /\ (m_status # "HEALTHY" \/ ~should_run))
    ~> (phase \in {"gone", "terminated"})
=============================================================================
