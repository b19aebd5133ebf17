--------------------------- MODULE MCFrameFactory ---------------------------
(***************************************************************************)
(* FrameFactory with short payloads, lengths on both sides of every        *)
(* boundary of the length field, and a cache of three keys.                *)
(***************************************************************************)
EXTENDS FrameFactory, Bitwise

Filler(n) == [i \in 1 .. n |-> i]
MCPayloads == {Filler(n) : n \in {0, 5, 125, 126}}
MCLengths  == {0, 1, 125, 126, 127, 128, 255, 256} \cup 65534 .. 65537
                \cup {16777215, 16777216, 2147483647}
\* Seeds that are zero, that lose their ones in the shifts, and a mixed pair.
MCSeeds    == {<<{}, {}>>, <<{63}, {0}>>, <<{0, 5, 17, 40}, {1, 2, 33, 62}>>}

ByteXor(a, b) == a ^^ b
=============================================================================
