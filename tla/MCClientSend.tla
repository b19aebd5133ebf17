---------------------------- MODULE MCClientSend ----------------------------
(***************************************************************************)
(* Instances of ClientSend for TLC, with an int of four bits.              *)
(***************************************************************************)
EXTENDS ClientSend

FitInt == {1, 3, 7}
=============================================================================
