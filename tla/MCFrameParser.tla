--------------------------- MODULE MCFrameParser ---------------------------
(***************************************************************************)
(* Instances of FrameParser for TLC.  The frames use every form of the     *)
(* length field, a masked frame, an empty payload and payload bytes that   *)
(* read as frame headers when the framing is lost.                         *)
(***************************************************************************)
EXTENDS FrameParser

Plain(op, ext, bytes) ==
  [fin |-> TRUE, opcode |-> op, mask |-> FALSE, ext |-> ext,
   masking_key |-> <<0, 0, 0, 0>>, payload |-> bytes]

Masked(op, ext, bytes) ==
  [Plain(op, ext, bytes) EXCEPT !.mask = TRUE, !.masking_key = <<1, 2, 130, 0>>]

Empty == Plain(9, 0, << >>)
Short == Plain(1, 0, <<129, 1>>)
Fragment == [Plain(2, 2, <<127>>) EXCEPT !.fin = FALSE]
OneMasked == Masked(1, 0, <<5>>)
MCFrames == {Empty, Short, Fragment, OneMasked, Plain(0, 8, <<137, 0>>)}
=============================================================================
