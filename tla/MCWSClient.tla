----------------------------- MODULE MCWSClient -----------------------------
(***************************************************************************)
(* Instances of WSClient for TLC.  The three kinds of data frames differ   *)
(* only in the handler they reach: each setup has one of them.             *)
(***************************************************************************)
EXTENDS Examples

Use(calls, frames, fails) ==
  [handlers |-> [cb \in Callbacks |-> {"return"} \cup calls], disciplined |-> TRUE,
   ends |-> "any", catches |-> TRUE, send_fails |-> fails, read_fails |-> fails,
   frames |-> frames]

NoPings   == {"CONTINUATION", "PONG", "CLOSE"}
PassiveUse   == Use({"send"}, {"TEXT", "PING", "PONG", "CLOSE"}, TRUE)
ReentrantUse == Use({"poll", "close"}, NoPings, FALSE)
SilentUse    == Use({}, NoPings, FALSE)
OpeningUse   ==
  [Use({}, NoPings, FALSE) EXCEPT !.handlers =
     [@ EXCEPT !["on_open"] = {"return", "poll", "close"}, !["on_close"] = {"return", "poll", "close"}]]
ClosingUse   == [Use({"close"}, {"BINARY", "PONG"}, TRUE) EXCEPT !.read_fails = FALSE]

\* No header, a whole header line, a header without its line end.
SomeHeaders == {<< >>, Line("Cookie"), <<"Cookie">>}

\* Below zero, which is within the limits, and beyond them.
AnyReading == {-1, 2}

\* Of the handlers of data only on_text does something of its own.
OneDataKind == {"TEXT", "PING", "PONG", "CLOSE"}

Tested   == {PassiveUse, OpeningUse, ReentrantUse}
Programs == {ClosingUse, example, ping_example, coinbase}
Silent   == {SilentUse}
Closer   == {example}
TextOnly == {"TEXT", "PONG", "CLOSE"}
=============================================================================
