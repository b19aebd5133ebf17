--------------------------- MODULE XorShiftProofs ---------------------------
(***************************************************************************)
(* Proofs about XorShift128Plus for all of its 2^128 states.               *)
(***************************************************************************)
EXTENDS XorShift, WellFoundedInduction, TLAPS

\* Shifts and xor of words are words.
LEMMA Words ==
  /\ \A w \in Word, n \in Nat : ShiftLeft(w, n) \in Word /\ ShiftRight(w, n) \in Word
  /\ \A a, b \in Word : BitXor(a, b) \in Word
BY DEF Word, ShiftLeft, ShiftRight, BitXor

\* Two words whose xor is zero are the same.
LEMMA XorZero == \A a, b : BitXor(a, b) = {} => a = b
BY DEF BitXor

\* w ^ (w << 23) is zero for zero only: each one of w is 23 above another one.
LEMMA LeftAlive ==
  ASSUME NEW w \in Word, BitXor(w, ShiftLeft(w, 23)) = {} PROVE w = {}
<1>1. w = ShiftLeft(w, 23) BY XorZero
<1>2. ASSUME NEW i \in w PROVE i \in Bits /\ i - 23 \in w
  <2>1. i \in ShiftLeft(w, 23) BY <1>1, Zenon
  <2> QED BY <2>1 DEF ShiftLeft
<1> SUFFICES ASSUME NEW i \in w PROVE FALSE OBVIOUS
<1>3. i - 23 \in w /\ i \in 0 .. 63 BY <1>2 DEF Bits
<1>4. (i - 23) - 23 \in w BY <1>2, <1>3
<1>5. ((i - 23) - 23) - 23 \in Bits BY <1>2, <1>4
<1> QED BY <1>3, <1>5 DEF Bits

\* w ^ (w >> 17) is zero for zero only: each one of w is 17 below another one.
LEMMA RightAlive ==
  ASSUME NEW w \in Word, BitXor(w, ShiftRight(w, 17)) = {} PROVE w = {}
<1>1. w = ShiftRight(w, 17) BY XorZero
<1>2. ASSUME NEW i \in w PROVE i \in Bits /\ i + 17 \in w
  <2>1. i \in ShiftRight(w, 17) BY <1>1, Zenon
  <2> QED BY <2>1 DEF ShiftRight
<1> SUFFICES ASSUME NEW i \in w PROVE FALSE OBVIOUS
<1>3. i + 17 \in w /\ i \in 0 .. 63 BY <1>2 DEF Bits
<1>4. (i + 17) + 17 \in w BY <1>2, <1>3
<1>5. ((i + 17) + 17) + 17 \in w BY <1>2, <1>4
<1>6. (((i + 17) + 17) + 17) + 17 \in Bits BY <1>2, <1>5
<1> QED BY <1>3, <1>6 DEF Bits

\* The constructor gives a state that next64() moves on from, whatever the seeds.
THEOREM SeededAlive == \A seed1, seed2 \in Word : seeded(seed1, seed2) \in Alive
<1> SUFFICES ASSUME NEW a \in Word, NEW b \in Word PROVE seeded(a, b) \in Alive OBVIOUS
<1>1. {0} \in Word BY DEF Word, Bits
<1>2. {0} # {} OBVIOUS
<1> QED BY <1>1, <1>2 DEF seeded, Alive

\* next64() never leads to the state of two zero words: the second word of the
\* state would be the next first one, and with that zero the step is the xor of
\* two shifts of the first word, which only zero is sent to zero by.
THEOREM NextAlive == \A g \in Alive : next64(g) \in Alive
<1> SUFFICES ASSUME NEW g \in Alive PROVE next64(g) \in Alive OBVIOUS
<1>1. g.s0 \in Word /\ g.s1 \in Word /\ g = [s0 |-> g.s0, s1 |-> g.s1] BY DEF Alive
<1> DEFINE x == BitXor(g.s0, ShiftLeft(g.s0, 23))
           y == g.s1
           z == BitXor(BitXor(x, y), BitXor(ShiftRight(x, 17), ShiftRight(y, 26)))
<1>2. next64(g) = [s0 |-> y, s1 |-> z] BY DEF next64
<1>3. x \in Word BY <1>1, Words
<1>4. z \in Word
  <2> HIDE DEF x
  <2>1. BitXor(x, y) \in Word /\ ShiftRight(x, 17) \in Word /\ ShiftRight(y, 26) \in Word
    BY <1>1, <1>3, Words
  <2> QED BY <2>1, Words
<1>5. ASSUME y = {}, z = {} PROVE FALSE
  <2> HIDE DEF x
  <2>1. ShiftRight(y, 26) = {} BY <1>5 DEF ShiftRight
  <2>2. BitXor(x, y) = x BY <1>5 DEF BitXor
  <2>3. BitXor(ShiftRight(x, 17), ShiftRight(y, 26)) = ShiftRight(x, 17) BY <2>1 DEF BitXor
  <2>4. x = {} BY <1>3, <1>5, <2>2, <2>3, RightAlive
  <2>5. g.s0 = {} BY <1>1, <2>4, LeftAlive DEF x
  <2> QED BY <1>1, <1>5, <2>5 DEF Alive
<1> HIDE DEF x, y, z
<1> QED BY <1>1, <1>2, <1>4, <1>5 DEF Alive, y
----------------------------------------------------------------------------
(***************************************************************************)
(* What fill_bytes makes of the generator is a recursive function.  The    *)
(* provers do not apply the library's induction rules, which have an       *)
(* operator as a parameter, so induction is restated for sets here, from   *)
(* the fact that < is well-founded.                                        *)
(***************************************************************************)
\* A nonempty set of natural numbers has a least one.
LEMMA LeastNatural ==
  ASSUME NEW T, T \subseteq Nat, T # {} PROVE \E x \in T : \A y \in T : x <= y
<1> DEFINE R == {ss \in Nat \X Nat : ss[1] < ss[2]}
<1>1. R = OpToRel(<, Nat) BY Zenon DEF OpToRel
<1>2. IsWellFoundedOn(R, Nat) BY <1>1, NatLessThanWellFounded, Zenon
<1> HIDE DEF R
<1>3. PICK x \in T : \A y \in T : ~ (<<y, x>> \in R) BY <1>2, WFMin, Zenon
<1>4. \A y \in T : y \in Nat /\ x \in Nat /\ ~(y < x) BY <1>3 DEF R
<1>5. \A y \in T : x <= y BY <1>4
<1> QED BY <1>5

\* Induction: a set that has 0, and n + 1 with n, has every natural number.
LEMMA SetInduction ==
  ASSUME NEW S, 0 \in S, \A n \in Nat : n \in S => n + 1 \in S PROVE Nat \subseteq S
<1> SUFFICES ASSUME Nat \ S # {} PROVE FALSE OBVIOUS
<1>1. PICK x \in Nat \ S : \A y \in Nat \ S : x <= y BY LeastNatural
<1>2. x \in Nat /\ x # 0 BY <1>1
<1>3. x - 1 \in Nat /\ ~(x <= x - 1) /\ (x - 1) + 1 = x BY <1>2
<1>4. x - 1 \in S BY <1>1, <1>3
<1> QED BY <1>1, <1>3, <1>4

\* h gives the first n + 1 values of iterating F on g.
Iterates(h, n, F, g) == h[0] = g /\ \A k \in 1 .. n : h[k] = F[h[k - 1]]

\* Any number of steps can be made.
LEMMA IteratesExist ==
  ASSUME NEW X, NEW F \in [X -> X], NEW g \in X
  PROVE  \A n \in Nat : \E h \in [0 .. n -> X] : Iterates(h, n, F, g)
<1> DEFINE S == {n \in Nat : \E h \in [0 .. n -> X] : Iterates(h, n, F, g)}
<1>1. 0 \in S
  <2> DEFINE h == [k \in 0 .. 0 |-> g]
  <2>1. h \in [0 .. 0 -> X] /\ h[0] = g OBVIOUS
  <2> HIDE DEF h
  <2>2. Iterates(h, 0, F, g) BY <2>1 DEF Iterates
  <2> QED BY <2>1, <2>2
<1>2. ASSUME NEW n \in Nat, n \in S PROVE n + 1 \in S
  <2>1. PICK h \in [0 .. n -> X] : Iterates(h, n, F, g) BY <1>2
  <2> DEFINE j == [k \in 0 .. n + 1 |-> IF k = n + 1 THEN F[h[n]] ELSE h[k]]
  <2>2. h[n] \in X BY <1>2
  <2>3. \A k \in 0 .. n + 1 : k # n + 1 => h[k] \in X BY <1>2
  <2>4. j \in [0 .. n + 1 -> X] BY <2>2, <2>3
  <2>5. j[n + 1] = F[h[n]] BY <1>2
  <2>6. \A k \in 0 .. n : j[k] = h[k] BY <1>2
  <2> HIDE DEF j
  <2>7. j[0] = g BY <1>2, <2>1, <2>6 DEF Iterates
  <2>8. ASSUME NEW k \in 1 .. n + 1 PROVE j[k] = F[j[k - 1]]
    <3>1. CASE k = n + 1
      <4>1. k - 1 = n /\ n \in 0 .. n BY <1>2, <3>1
      <4>2. j[k - 1] = h[n] BY <2>6, <4>1
      <4> QED BY <2>5, <3>1, <4>2
    <3>2. CASE k \in 1 .. n
      <4>1. k \in 0 .. n /\ k - 1 \in 0 .. n BY <1>2, <3>2
      <4>2. h[k] = F[h[k - 1]] BY <2>1, <3>2 DEF Iterates
      <4> QED BY <2>6, <4>1, <4>2
    <3> QED BY <1>2, <3>1, <3>2
  <2>9. Iterates(j, n + 1, F, g) BY <2>7, <2>8 DEF Iterates
  <2> QED BY <1>2, <2>4, <2>9
<1>3. Nat \subseteq S
  <2> HIDE DEF S
  <2> QED BY <1>1, <1>2, SetInduction
<1> QED BY <1>3

\* They are determined by where they start.
LEMMA IteratesUnique ==
  ASSUME NEW F, NEW g, NEW m \in Nat, NEW n \in Nat, m <= n,
         NEW h, Iterates(h, m, F, g), NEW j, Iterates(j, n, F, g)
  PROVE  h[m] = j[m]
<1> DEFINE S == {i \in Nat : i <= m => h[i] = j[i]}
<1>1. 0 \in S BY DEF Iterates
<1>2. ASSUME NEW i \in Nat, i \in S PROVE i + 1 \in S
  <2> SUFFICES ASSUME i + 1 <= m PROVE h[i + 1] = j[i + 1] OBVIOUS
  <2>1. i + 1 \in 1 .. m /\ i + 1 \in 1 .. n /\ (i + 1) - 1 = i /\ i <= m BY <1>2
  <2>2. h[i] = j[i] BY <1>2, <2>1
  <2>3. h[i + 1] = F[h[(i + 1) - 1]] /\ j[i + 1] = F[j[(i + 1) - 1]] BY <2>1 DEF Iterates
  <2> QED BY <2>1, <2>2, <2>3
<1>3. Nat \subseteq S
  <2> HIDE DEF S
  <2> QED BY <1>1, <1>2, SetInduction
<1>4. m \in S BY <1>3
<1> QED BY <1>4

\* h iterates F on g for ever.
Iteration(h, F, g) == h[0] = g /\ \A k \in Nat \ {0} : h[k] = F[h[k - 1]]

\* So the recursive definition has a solution.
LEMMA IterationExists ==
  ASSUME NEW X, NEW F \in [X -> X], NEW g \in X
  PROVE  \E h \in [Nat -> X] : Iteration(h, F, g)
<1> DEFINE part(n) == CHOOSE h \in [0 .. n -> X] : Iterates(h, n, F, g)
           h == [n \in Nat |-> part(n)[n]]
<1>1. ASSUME NEW n \in Nat PROVE part(n) \in [0 .. n -> X] /\ Iterates(part(n), n, F, g)
  BY IteratesExist
<1>2. ASSUME NEW n \in Nat PROVE h[n] = part(n)[n] OBVIOUS
<1>3. h \in [Nat -> X]
  <2>1. \A n \in Nat : part(n)[n] \in X
    <3> SUFFICES ASSUME NEW n \in Nat PROVE part(n)[n] \in X OBVIOUS
    <3> HIDE DEF part
    <3>1. part(n) \in [0 .. n -> X] BY <1>1
    <3>2. n \in 0 .. n OBVIOUS
    <3> QED BY <3>1, <3>2
  <2> HIDE DEF part
  <2> QED BY <2>1
<1> HIDE DEF part, h
<1>4. h[0] = g BY <1>1, <1>2 DEF Iterates
<1>5. ASSUME NEW k \in Nat \ {0} PROVE h[k] = F[h[k - 1]]
  <2>1. k - 1 \in Nat /\ k \in Nat /\ k \in 1 .. k /\ k - 1 <= k BY <1>5
  <2>2. Iterates(part(k), k, F, g) /\ Iterates(part(k - 1), k - 1, F, g) BY <1>1, <2>1
  <2>3. part(k)[k] = F[part(k)[k - 1]] BY <2>1, <2>2 DEF Iterates
  <2>4. part(k - 1)[k - 1] = part(k)[k - 1] BY <2>1, <2>2, IteratesUnique
  <2> QED BY <1>2, <2>1, <2>3, <2>4
<1>6. Iteration(h, F, g) BY <1>4, <1>5 DEF Iteration
<1> QED BY <1>3, <1>6

\* fill_bytes leaves a living generator alive, however many bytes it is asked for.
THEOREM FillAlive == \A g \in Alive, n \in Nat : fill_bytes(g, n).state \in Alive
<1> SUFFICES ASSUME NEW g \in Alive, NEW n \in Nat PROVE fill_bytes(g, n).state \in Alive
  OBVIOUS
<1> DEFINE F == [x \in Alive |-> next64(x)]
           Steps(h) == h = [k \in Nat |-> IF k = 0 THEN g ELSE next64(h[k - 1])]
           after == CHOOSE h : Steps(h)
<1>1. fill_bytes(g, n).state = after[(n + 7) \div 8] BY DEF fill_bytes
<1>2. F \in [Alive -> Alive] BY NextAlive
<1>3. \A x \in Alive : F[x] = next64(x) OBVIOUS
<1> HIDE DEF F
<1>4. PICK h \in [Nat -> Alive] : Iteration(h, F, g) BY <1>2, IterationExists
<1>5. \A k \in Nat : h[k] = IF k = 0 THEN g ELSE next64(h[k - 1])
  <2> SUFFICES ASSUME NEW k \in Nat, k # 0 PROVE h[k] = next64(h[k - 1])
    BY <1>4 DEF Iteration
  <2>1. k - 1 \in Nat /\ k \in Nat \ {0} OBVIOUS
  <2>2. h[k] = F[h[k - 1]] /\ h[k - 1] \in Alive BY <1>4, <2>1 DEF Iteration
  <2> QED BY <1>3, <2>2
<1>6. Steps(h)
  <2> DEFINE j == [k \in Nat |-> IF k = 0 THEN g ELSE next64(h[k - 1])]
  <2>1. DOMAIN h = Nat /\ h = [k \in Nat |-> h[k]] OBVIOUS
  <2>2. \A k \in Nat : j[k] = h[k] BY <1>5
  <2>3. j = [k \in Nat |-> j[k]] OBVIOUS
  <2> HIDE DEF j
  <2>4. h = j BY <2>1, <2>2, <2>3
  <2> QED BY <2>4 DEF j
<1>7. Steps(after)
  <2> HIDE DEF Steps
  <2> QED BY <1>6
<1>8. /\ after[0] = g
      /\ \A k \in Nat : after[k + 1] = next64(after[k])
  <2>1. PICK a : a = after OBVIOUS
  <2>2. a = [k \in Nat |-> IF k = 0 THEN g ELSE next64(a[k - 1])] BY <1>7, <2>1
  <2>3. a[0] = g BY <2>2
  <2>4. ASSUME NEW k \in Nat PROVE a[k + 1] = next64(a[k])
    <3>1. k + 1 \in Nat /\ k + 1 # 0 /\ (k + 1) - 1 = k BY <2>4
    <3>2. a[k + 1] = IF k + 1 = 0 THEN g ELSE next64(a[(k + 1) - 1]) BY <2>2, <3>1
    <3> QED BY <3>1, <3>2
  <2> HIDE DEF after
  <2> QED BY <2>1, <2>3, <2>4
<1> HIDE DEF after, Steps
<1> DEFINE S == {k \in Nat : after[k] \in Alive}
<1>9. 0 \in S BY <1>8
<1>10. \A k \in Nat : k \in S => k + 1 \in S BY <1>8, NextAlive
<1>11. Nat \subseteq S
  <2> HIDE DEF S
  <2> QED BY <1>9, <1>10, SetInduction
<1>12. (n + 7) \div 8 \in Nat OBVIOUS
<1> QED BY <1>1, <1>11, <1>12
=============================================================================
