---------------------------- MODULE FrameStream ----------------------------
(***************************************************************************)
(* What the frame parser promises its user: the frames of the server come  *)
(* out in the order they went in, one at a time.  Frames may be skipped as *)
(* a block (the client cleared its buffer between two frames); once the    *)
(* framing is lost (it cleared the buffer inside a frame, or misread the   *)
(* length of one) nothing is promised about what comes out any more.       *)
(***************************************************************************)
EXTENDS Integers, Sequences

CONSTANT Frame    \* the frames a server may send

VARIABLES
  sent,       \* all frames sent so far
  delivered,  \* all frames handed to the user so far
  nxt,        \* index of the next frame to hand over
  aligned     \* FALSE once the framing is lost

vars == <<sent, delivered, nxt, aligned>>

Init == sent = << >> /\ delivered = << >> /\ nxt = 1 /\ aligned = TRUE

Send ==
  /\ \E f \in Frame : sent' = Append(sent, f)
  /\ UNCHANGED <<delivered, nxt, aligned>>

Deliver ==
  /\ aligned
  /\ nxt <= Len(sent)
  /\ delivered' = Append(delivered, sent[nxt])
  /\ nxt' = nxt + 1
  /\ UNCHANGED <<sent, aligned>>

Skip ==
  /\ aligned
  /\ nxt' \in nxt .. Len(sent) + 1
  /\ UNCHANGED <<sent, delivered, aligned>>

OneMore ==
  /\ Len(delivered') = Len(delivered) + 1
  /\ SubSeq(delivered', 1, Len(delivered)) = delivered

LoseFraming ==
  /\ aligned
  /\ aligned' = FALSE
  /\ OneMore \/ UNCHANGED delivered
  /\ UNCHANGED <<sent, nxt>>

DeliverGarbage == ~aligned /\ OneMore /\ UNCHANGED <<sent, nxt, aligned>>

Next == Send \/ Deliver \/ Skip \/ LoseFraming \/ DeliverGarbage

Spec == Init /\ [][Next]_vars
=============================================================================
