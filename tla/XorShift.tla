------------------------------ MODULE XorShift ------------------------------
(***************************************************************************)
(* wsframe::XorShift128Plus, the generator of the masking keys.  A 64-bit  *)
(* word is the set of the positions of its ones, so that xor and shifts    *)
(* are operations on sets, and what falls out of a word is gone.           *)
(***************************************************************************)
EXTENDS Integers, Sequences

Bits == 0 .. 63
Word == SUBSET Bits

\* The states that next64() moves on from; it never leaves two zero words.
Alive == [s0 : Word, s1 : Word] \ {[s0 |-> {}, s1 |-> {}]}

BitXor(a, b)     == (a \ b) \cup (b \ a)
ShiftLeft(w, n)  == {i \in Bits : i - n \in w}
ShiftRight(w, n) == {i \in Bits : i + n \in w}

\* Addition modulo 2^64.
Plus(a, b) ==
  LET carry[i \in Bits] ==
        i > 0 /\ \/ i - 1 \in a /\ i - 1 \in b
                 \/ (i - 1 \in a \/ i - 1 \in b) /\ carry[i - 1]
  IN {i \in Bits : (i \in a) # ((i \in b) # carry[i])}

\* A bug: the seeds are taken as they come.
seeded_as_is(seed1, seed2) == [s0 |-> seed1, s1 |-> seed2]

\* The constructor.
seeded(seed1, seed2) ==
  [s0 |-> seed1, s1 |-> IF seed1 = {} /\ seed2 = {} THEN {0} ELSE seed2]

\* next64(): the state it leaves, and what it returned when it left g.
next64(g) ==
  LET x == BitXor(g.s0, ShiftLeft(g.s0, 23))
      y == g.s1
  IN [s0 |-> y, s1 |-> BitXor(BitXor(x, y), BitXor(ShiftRight(x, 17), ShiftRight(y, 26)))]

value64(g) == Plus(g.s1, g.s0)

\* Byte k of a word in memory, from 0 on.
ByteOf(w, k) ==
  LET at(b, v) == IF 8 * k + b \in w THEN v ELSE 0
  IN at(0, 1) + at(1, 2) + at(2, 4) + at(3, 8) + at(4, 16) + at(5, 32) + at(6, 64) + at(7, 128)

\* fill_bytes: eight bytes of each value, and the first ones of a last value.
fill_bytes(g, n) ==
  LET after[k \in Nat] == IF k = 0 THEN g ELSE next64(after[k - 1])
      values == [k \in 1 .. (n + 7) \div 8 |-> value64(after[k])]
  IN [state |-> after[(n + 7) \div 8],
      bytes |-> [i \in 1 .. n |-> ByteOf(values[(i + 7) \div 8], (i - 1) % 8)]]
=============================================================================
