--------------------------- MODULE MCPayloadView ---------------------------
(***************************************************************************)
(* PayloadView with two short text frames of different payloads.           *)
(***************************************************************************)
EXTENDS PayloadView

Text(bytes) ==
  [fin |-> TRUE, opcode |-> 1, mask |-> FALSE, ext |-> 0,
   masking_key |-> <<0, 0, 0, 0>>, payload |-> bytes]

MCTexts == {Text(<<104, 105>>), Text(<<111, 107>>)}
=============================================================================
