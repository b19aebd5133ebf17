---------------------------- MODULE PayloadView ----------------------------
(***************************************************************************)
(* How long the payload of a frame is valid.  Frame::payload is a view     *)
(* into the parser's buffer, and the handler that receives the frame may   *)
(* call poll() or close(), which use the same parser.  This module runs    *)
(* FrameParser with the handlers in progress beside it: for each of them,  *)
(* outermost first, the view it was given, the bytes it then showed and    *)
(* the capacity of the vector (a vector that grows moves its storage).     *)
(***************************************************************************)
EXTENDS FrameParser

CONSTANT MaxNest    \* bound: handlers in progress at the same time

VARIABLE views

viewVars == <<vars, views>>

Bytes(v) == SubSeq(p.buf, v.off + 1, v.off + v.len)

\* The handler of the frame that the parser state q returns.
Entered(q) ==
  [off |-> q.frame.payload.off, len |-> q.frame.payload.len,
   bytes |-> FrameOf(q).payload, capacity |-> Len(q.buf)]

\* poll(), from the application or from a handler.
Dispatch ==
  /\ Len(views) < MaxNest
  /\ \E u \in UndefLens : PollEmpty(u) \/ \E n \in 1 .. Chunk : PollData(n, u)
  /\ views' = IF done(p') THEN Append(views, Entered(p')) ELSE views

\* The reads of close(), which keep their frames from the handler, and its clear().
Discard ==
  /\ Clear \/ \E u \in UndefLens, n \in 0 .. Chunk : CloseRead(n, u)
  /\ UNCHANGED views

HandlerReturns ==
  /\ views # << >>
  /\ views' = SubSeq(views, 1, Len(views) - 1)
  /\ UNCHANGED vars

Sends == (\E f \in WireFrames : ServerSend(f)) /\ UNCHANGED views

ViewInit == Init /\ views = << >>

ViewNext == Sends \/ Dispatch \/ Discard \/ HandlerReturns

ViewSpec == ViewInit /\ [][ViewNext]_viewVars

\* README: the payload is valid for the duration of the handler call: its bytes
\* stay where they are and what they are until the handler returns.
PayloadValidInHandler ==
  \A i \in DOMAIN views :
    /\ views[i].len > 0 => views[i].capacity = Len(p.buf)
    /\ Bytes(views[i]) = views[i].bytes
=============================================================================
