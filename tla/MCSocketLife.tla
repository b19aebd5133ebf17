---------------------------- MODULE MCSocketLife ----------------------------
(***************************************************************************)
(* SocketLife with two clients; the handles of one kind are alike but      *)
(* given out in order, so only the clients are symmetric.                  *)
(***************************************************************************)
EXTENDS SocketLife, TLC

CONSTANTS a, b
TwoClients == {a, b}
Symmetric  == Permutations(TwoClients)
=============================================================================
