-------------------------- MODULE SocketSendProofs --------------------------
(***************************************************************************)
(* Proofs about SocketSend for frames of any length, any room in the       *)
(* kernel and an int of any width.                                         *)
(***************************************************************************)
EXTENDS SocketSend, TLAPS

\* Every frame is shorter than an int can say.
FitsInt == \A l \in Lengths : l < IntHalf

Last == wire[Len(wire)]

\* What the locals of the call in progress say about the wire: total_sent bytes
\* of its frame are the last ones written, and to_send does not reach beyond it.
Progress ==
  Running =>
    /\ total_sent + to_send <= calls[This].len
    /\ IF total_sent = 0 THEN wire # << >> => Last.call < This
       ELSE wire # << >> /\ Last = [call |-> This, byte |-> total_sent]

Inv == TypeOK /\ WireInOrder /\ Progress

\* The same when the conversion to int loses nothing.
Whole ==
  /\ ReturnedWhole
  /\ Running => to_send >= 0 /\ total_sent + to_send = calls[This].len
----------------------------------------------------------------------------
\* A function on an initial segment of the positive integers is a sequence.
LEMMA SeqOfFunction ==
  ASSUME NEW S, NEW n \in Nat, NEW f \in [1 .. n -> S]
  PROVE  f \in Seq(S) /\ Len(f) = n
OBVIOUS

\* An element of a sequence is of its set.
LEMMA ElementOf ==
  ASSUME NEW S, NEW s \in Seq(S), NEW i \in DOMAIN s PROVE s[i] \in S
OBVIOUS

\* What concatenation does, index by index.
LEMMA Concatenated ==
  ASSUME NEW S, NEW s \in Seq(S), NEW t \in Seq(S), NEW l \in Nat, l = Len(s),
         NEW m \in Nat, m = Len(t)
  PROVE  /\ s \o t \in Seq(S) /\ Len(s \o t) = l + m
         /\ DOMAIN s = 1 .. l /\ DOMAIN (s \o t) = 1 .. l + m
         /\ \A k \in 1 .. l : (s \o t)[k] = s[k]
         /\ \A k \in l + 1 .. l + m : (s \o t)[k] = t[k - l]
OBVIOUS

\* The conversion never makes a length larger, and keeps one that fits.
LEMMA AsIntBound ==
  ASSUME NEW n \in Nat PROVE AsInt(n) \in Int /\ AsInt(n) <= n
<1> DEFINE d == 2 * IntHalf
           x == n + IntHalf
<1>1. d \in Nat \ {0} /\ x \in Nat BY SendAssumption
<1>2. x % d \in 0 .. d - 1 /\ x % d <= x
  <2> HIDE DEF d, x
  <2> QED BY <1>1
<1> QED BY <1>1, <1>2, SendAssumption DEF AsInt

\* A length that fits an int is not changed by the conversion.
LEMMA AsIntFits ==
  ASSUME NEW n \in Nat, n < IntHalf PROVE AsInt(n) = n
<1> DEFINE d == 2 * IntHalf
           x == n + IntHalf
<1>1. d \in Nat \ {0} /\ x \in Nat /\ x < d BY SendAssumption
<1>2. x % d = x
  <2> HIDE DEF d, x
  <2> QED BY <1>1
<1> QED BY <1>2, SendAssumption DEF AsInt

\* A step that only ends the call in progress, and one that does not touch it.
LEMMA EndsInv ==
  ASSUME Inv, Running, NEW o \in {"returned", "threw"}, Ends(o),
         UNCHANGED <<to_send, total_sent, wire, queued, up>>
  PROVE  Inv'
<1>1. calls \in Seq([len : Lengths, out : Outcome]) /\ This \in DOMAIN calls
  BY DEF Inv, TypeOK, Running, This
<1>2. calls' = [calls EXCEPT ![This].out = o] BY DEF Ends
<1>3. /\ calls' \in Seq([len : Lengths, out : Outcome]) /\ DOMAIN calls' = DOMAIN calls
      /\ Len(calls') = Len(calls)
      /\ \A i \in DOMAIN calls : calls'[i].len = calls[i].len
      /\ calls'[This].out = o
  <2> DEFINE r == [calls[This] EXCEPT !.out = o]
  <2>1. calls[This] \in [len : Lengths, out : Outcome] BY <1>1, ElementOf
  <2>2. /\ r \in [len : Lengths, out : Outcome] /\ r.len = calls[This].len /\ r.out = o
    BY <2>1 DEF Outcome
  <2>3. calls' = [calls EXCEPT ![This] = r] BY <1>2
  <2> HIDE DEF r
  <2> QED BY <1>1, <2>2, <2>3
<1>4. TypeOK' BY <1>3 DEF Inv, TypeOK
<1>5. WireInOrder' BY <1>3 DEF Inv, TypeOK, WireInOrder
<1>6. Progress' BY <1>1, <1>3 DEF Progress, Running, This
<1> QED BY <1>4, <1>5, <1>6 DEF Inv

\* A new call starts with nothing written.
LEMMA CallInv == ASSUME Inv, NEW len \in Lengths, Call(len) PROVE Inv'
<1> DEFINE c == [len |-> len, out |-> "running"]
<1>1. calls' = Append(calls, c) /\ to_send' = AsInt(len) /\ total_sent' = 0
      /\ UNCHANGED <<wire, queued, up>>
  BY DEF Call
<1>2. calls \in Seq([len : Lengths, out : Outcome]) /\ c \in [len : Lengths, out : Outcome]
  BY DEF Inv, TypeOK, Outcome
<1> HIDE DEF c
<1>3. /\ calls' \in Seq([len : Lengths, out : Outcome])
      /\ Len(calls') = Len(calls) + 1 /\ Len(calls) \in Nat
      /\ calls'[Len(calls) + 1] = c
      /\ \A i \in DOMAIN calls : i \in DOMAIN calls' /\ calls'[i] = calls[i]
  BY <1>1, <1>2
<1>4. len \in Nat BY SendAssumption
<1>5. AsInt(len) \in Int /\ AsInt(len) <= len BY <1>4, AsIntBound
<1>6. TypeOK' BY <1>1, <1>3, <1>5 DEF Inv, TypeOK
<1>7. WireInOrder' BY <1>1, <1>3 DEF Inv, TypeOK, WireInOrder
<1>8. Progress'
  <2>1. calls'[This'].len = len /\ This' = Len(calls) + 1 BY <1>3 DEF This, c
  <2>2. wire # << >> => Last.call <= Len(calls)
    <3> SUFFICES ASSUME wire # << >> PROVE Last.call <= Len(calls)
      OBVIOUS
    <3>1. Len(wire) \in DOMAIN wire BY DEF Inv, TypeOK
    <3>2. wire[Len(wire)].call \in DOMAIN calls BY <3>1 DEF Inv, WireInOrder
    <3> QED BY <1>2, <3>2 DEF Last
  <2>3. wire # << >> => Last.call \in Nat
    <3>1. wire # << >> => Len(wire) \in DOMAIN wire BY DEF Inv, TypeOK
    <3>2. wire # << >> => Last \in [call : Nat \ {0}, byte : Nat \ {0}]
      BY <3>1, ElementOf DEF Inv, TypeOK, Last
    <3> QED BY <3>2
  <2>4. Last' = Last BY <1>1 DEF Last
  <2> QED BY <1>1, <1>3, <1>4, <1>5, <2>1, <2>2, <2>3, <2>4 DEF Progress
<1> QED BY <1>6, <1>7, <1>8 DEF Inv

\* A write continues the frame where the last one stopped.
LEMMA WriteInv == ASSUME Inv, NEW n \in 1 .. to_send, Write(n) PROVE Inv'
<1> DEFINE w == Written(n)
<1>1. /\ Running /\ wire' = wire \o w /\ queued' = queued + n /\ queued + n <= SndBuf
      /\ to_send' = to_send - n /\ total_sent' = total_sent + n
      /\ UNCHANGED <<calls, up>>
  BY DEF Write, Rest
<1>2. /\ n \in Nat \ {0} /\ to_send \in Int /\ n <= to_send /\ total_sent \in Nat
      /\ This \in DOMAIN calls /\ This \in Nat \ {0} /\ queued \in Nat
  BY <1>1, SendAssumption DEF Inv, TypeOK, Running, This
<1>3. calls[This].len \in Nat \ {0} /\ total_sent + to_send <= calls[This].len
  <2>1. calls[This] \in [len : Lengths, out : Outcome] BY <1>2, ElementOf DEF Inv, TypeOK
  <2>2. calls[This].len \in Lengths BY <2>1
  <2> QED BY <1>1, <2>2, SendAssumption DEF Inv, Progress
<1>4. /\ w \in Seq([call : Nat \ {0}, byte : Nat \ {0}]) /\ Len(w) = n
      /\ \A j \in 1 .. n : w[j] = [call |-> This, byte |-> total_sent + j]
  <2>1. w \in [1 .. n -> [call : Nat \ {0}, byte : Nat \ {0}]] BY <1>2 DEF Written
  <2>2. n \in Nat BY <1>2
  <2>3. w \in Seq([call : Nat \ {0}, byte : Nat \ {0}]) /\ Len(w) = n
    <3> HIDE DEF w
    <3> QED BY <2>1, <2>2, SeqOfFunction
  <2> QED BY <1>2, <2>3 DEF Written
<1> HIDE DEF w
<1> DEFINE L == Len(wire)
           B == [call : Nat \ {0}, byte : Nat \ {0}]
<1>a. wire \in Seq(B) /\ w \in Seq(B) /\ L \in Nat BY <1>4 DEF Inv, TypeOK
<1>b. (L = 0 <=> wire = << >>) /\ Last = wire[L] BY <1>a DEF Last
<1>c. /\ wire \o w \in Seq(B) /\ Len(wire \o w) = L + n
      /\ DOMAIN wire = 1 .. L /\ DOMAIN (wire \o w) = 1 .. L + n
      /\ \A k \in 1 .. L : (wire \o w)[k] = wire[k]
      /\ \A k \in L + 1 .. L + n : (wire \o w)[k] = w[k - L]
  <2>1. n \in Nat /\ n = Len(w) /\ L = Len(wire) BY <1>2, <1>4
  <2> HIDE DEF B, L
  <2> QED BY <1>a, <2>1, Concatenated
<1>5. /\ wire' \in Seq(B) /\ Len(wire') = L + n
      /\ DOMAIN wire = 1 .. L /\ DOMAIN wire' = 1 .. L + n
      /\ Last' = wire'[L + n]
      /\ \A k \in 1 .. L : wire'[k] = wire[k]
      /\ \A k \in L + 1 .. L + n : wire'[k] = w[k - L]
  BY <1>1, <1>c DEF Last
<1>d. wire' # << >> BY <1>2, <1>5, <1>a
<1> HIDE DEF L
<1>6. \A k \in L + 1 .. L + n :
        wire'[k] = [call |-> This, byte |-> total_sent + (k - L)]
  BY <1>2, <1>4, <1>5, <1>a, <1>b
<1>7. TypeOK'
  <2>1. queued' \in 0 .. SndBuf /\ total_sent' \in Nat /\ to_send' \in Int
    BY <1>1, <1>2, SendAssumption
  <2> QED BY <1>1, <1>5, <2>1 DEF Inv, TypeOK
<1>8. WireInOrder'
  <2> SUFFICES ASSUME NEW k \in 1 .. L + n
               PROVE  /\ wire'[k].call \in DOMAIN calls
                      /\ wire'[k].byte <= calls[wire'[k].call].len
                      /\ IF wire'[k].byte = 1 THEN k > 1 => wire'[k - 1].call < wire'[k].call
                         ELSE k > 1 /\ wire'[k - 1] = [wire'[k] EXCEPT !.byte = @ - 1]
    BY <1>1, <1>5, <1>a, <1>b DEF WireInOrder
  <2>1. CASE k \in 1 .. L
    <3>1. /\ wire[k].call \in DOMAIN calls
          /\ wire[k].byte <= calls[wire[k].call].len
          /\ IF wire[k].byte = 1 THEN k > 1 => wire[k - 1].call < wire[k].call
             ELSE k > 1 /\ wire[k - 1] = [wire[k] EXCEPT !.byte = @ - 1]
      BY <1>5, <1>a, <1>b, <2>1 DEF Inv, WireInOrder
    <3>2. wire'[k] = wire[k] /\ (k > 1 => wire'[k - 1] = wire[k - 1]) BY <1>5, <1>a, <1>b, <2>1
    <3> QED BY <3>1, <3>2
  <2>2. CASE k = L + 1
    <3>1. wire'[k] = [call |-> This, byte |-> total_sent + 1] BY <1>2, <1>5, <1>a, <1>b, <1>6, <2>2
    <3>2. total_sent + 1 <= calls[This].len BY <1>2, <1>3
    <3>3. k > 1 => wire # << >> /\ wire'[k - 1] = Last BY <1>5, <1>a, <1>b, <2>2
    <3>4. CASE total_sent = 0
      <4>1. wire # << >> => Last.call < This BY <1>1, <3>4 DEF Inv, Progress
      <4> QED BY <1>2, <3>1, <3>2, <3>3, <3>4, <4>1
    <3>5. CASE total_sent # 0
      <4>1. wire # << >> /\ Last = [call |-> This, byte |-> total_sent]
        BY <1>1, <3>5 DEF Inv, Progress
      <4>2. k > 1 BY <1>5, <1>a, <1>b, <2>2, <4>1
      <4>3. [wire'[k] EXCEPT !.byte = @ - 1] = [call |-> This, byte |-> total_sent]
        BY <1>2, <3>1
      <4> QED BY <1>2, <3>1, <3>2, <3>3, <3>5, <4>1, <4>2, <4>3
    <3> QED BY <3>4, <3>5
  <2>3. CASE k \in L + 2 .. L + n
    <3>1. /\ k > 1 /\ k - 1 \in L + 1 .. L + n
          /\ k \in L + 1 .. L + n
      BY <1>2, <1>5, <1>a, <1>b, <2>3
    <3> DEFINE b == total_sent + (k - L)
    <3>2. b - 1 = total_sent + ((k - 1) - L) /\ b \in Nat /\ b # 1
      BY <1>2, <1>a, <2>3
    <3>3. b <= calls[This].len
      <4>1. k - L <= n BY <1>2, <1>a, <2>3
      <4> QED BY <1>2, <1>3, <1>a, <4>1
    <3>4. /\ wire'[k] = [call |-> This, byte |-> b]
          /\ wire'[k - 1] = [call |-> This, byte |-> b - 1]
      BY <1>6, <3>1, <3>2
    <3> HIDE DEF b
    <3> QED BY <1>2, <3>1, <3>2, <3>3, <3>4
  <2>4. k \in 1 .. L \/ k = L + 1 \/ k \in L + 2 .. L + n BY <1>2, <1>a
  <2> QED BY <2>1, <2>2, <2>3, <2>4
<1>9. Progress'
  <2>1. This' = This /\ calls'[This'] = calls[This] BY <1>1 DEF This
  <2>2. Last' = [call |-> This, byte |-> total_sent + n] /\ wire' # << >>
    <3>1. L + n \in L + 1 .. L + n /\ total_sent + ((L + n) - L) = total_sent + n
      BY <1>2, <1>5, <1>a, <1>b
    <3> QED BY <1>5, <1>6, <1>d, <3>1
  <2> QED BY <1>1, <1>2, <1>3, <2>1, <2>2 DEF Progress
<1> QED BY <1>7, <1>8, <1>9 DEF Inv

\* The invariant holds before the first call.
LEMMA InitInv == Init => Inv
BY SendAssumption DEF Init, Inv, TypeOK, WireInOrder, Progress, Running

\* Every step keeps it.
LEMMA NextInv == Inv /\ [Next]_vars => Inv'
<1> SUFFICES ASSUME Inv, [Next]_vars PROVE Inv'
  OBVIOUS
<1>1. ASSUME NEW len \in Lengths, Call(len) PROVE Inv' BY <1>1, CallInv
<1>2. ASSUME NEW n \in 1 .. to_send, Write(n) PROVE Inv' BY <1>2, WriteInv
<1>3. CASE Throw BY <1>3, EndsInv DEF Throw
<1>4. CASE Return BY <1>4, EndsInv DEF Return
<1>5. CASE PeerTakes
  <2>1. queued' \in 0 .. SndBuf BY <1>5, SendAssumption DEF PeerTakes, Inv, TypeOK
  <2> QED BY <1>5, <2>1 DEF PeerTakes, Inv, TypeOK, WireInOrder, Progress, Running, This, Last
<1>6. CASE Reset BY <1>6 DEF Reset, Inv, TypeOK, WireInOrder, Progress, Running, This, Last
<1>7. CASE UNCHANGED vars
  BY <1>7 DEF vars, Inv, TypeOK, WireInOrder, Progress, Running, This, Last
<1> QED BY <1>1, <1>2, <1>3, <1>4, <1>5, <1>6, <1>7 DEF Next, Send

\* The variables of send() and of the wire keep their types.
THEOREM SendTypeCorrect == Spec => []TypeOK
<1>1. Inv => TypeOK BY DEF Inv
<1> QED BY <1>1, InitInv, NextInv, PTL DEF Spec

\* Whatever the socket takes at a time and whichever calls throw, the wire
\* carries prefixes of the frames, in the order of the calls.
THEOREM SendKeepsOrder == Spec => []WireInOrder
<1>1. Inv => WireInOrder BY DEF Inv
<1> QED BY <1>1, InitInv, NextInv, PTL DEF Spec

\* Every step keeps Whole when lengths fit.
LEMMA WholeNext ==
  ASSUME FitsInt PROVE Inv /\ Whole /\ [Next]_vars => Whole'
<1> SUFFICES ASSUME Inv, Whole, [Next]_vars PROVE Whole'
  OBVIOUS
<1>0. calls \in Seq([len : Lengths, out : Outcome]) /\ Len(calls) \in Nat
  BY DEF Inv, TypeOK
<1>1. ASSUME NEW len \in Lengths, Call(len) PROVE Whole'
  <2>1. len \in Nat \ {0} /\ len < IntHalf BY SendAssumption DEF FitsInt
  <2>2. to_send' = len /\ total_sent' = 0 /\ wire' = wire
    BY <1>1, <2>1, AsIntFits DEF Call
  <2> DEFINE c == [len |-> len, out |-> "running"]
  <2>3. calls' = Append(calls, c) /\ c \in [len : Lengths, out : Outcome]
    BY <1>1 DEF Call, Outcome
  <2>4. c.len = len /\ c.out # "returned" OBVIOUS
  <2> HIDE DEF c
  <2>5. /\ Len(calls') = Len(calls) + 1 /\ DOMAIN calls' = 1 .. Len(calls) + 1
        /\ DOMAIN calls = 1 .. Len(calls)
        /\ calls'[Len(calls) + 1] = c /\ \A i \in DOMAIN calls : calls'[i] = calls[i]
    BY <1>0, <2>3
  <2>6. ReturnedWhole'
    <3> SUFFICES ASSUME NEW i \in DOMAIN calls', calls'[i].out = "returned"
                 PROVE  OnWire(i, calls'[i].len)
      BY <2>2 DEF ReturnedWhole, OnWire
    <3>1. i \in DOMAIN calls BY <1>0, <2>4, <2>5
    <3>2. calls'[i] = calls[i] BY <2>5, <3>1
    <3> QED BY <3>1, <3>2 DEF Whole, ReturnedWhole
  <2> QED BY <1>0, <2>1, <2>2, <2>4, <2>5, <2>6 DEF Whole, This
<1>2. ASSUME NEW n \in 1 .. to_send, Write(n) PROVE Whole'
  <2>1. /\ Running /\ wire' = wire \o Written(n) /\ calls' = calls
        /\ to_send' = to_send - n /\ total_sent' = total_sent + n
    BY <1>2 DEF Write, Rest
  <2>2. to_send \in Int /\ total_sent \in Nat /\ n \in Nat /\ n <= to_send
    BY DEF Inv, TypeOK
  <2>3. to_send' >= 0 /\ total_sent' + to_send' = total_sent + to_send BY <2>1, <2>2
  <2>4. \A k \in DOMAIN wire : k \in DOMAIN wire' /\ wire'[k] = wire[k]
    <3> DEFINE B == [call : Nat \ {0}, byte : Nat \ {0}]
               w == Written(n)
    <3>1. wire \in Seq(B) BY DEF Inv, TypeOK
    <3>3. This \in Nat \ {0} BY <1>0, <2>1 DEF Running, This
    <3>5. w \in [1 .. n -> B] BY <2>2, <3>3 DEF Written
    <3> HIDE DEF B, w
    <3>6. w \in Seq(B) /\ Len(w) = n BY <2>2, <3>5, SeqOfFunction
    <3>7. Len(wire) \in Nat /\ DOMAIN wire = 1 .. Len(wire) BY <3>1
    <3>8. /\ DOMAIN (wire \o w) = 1 .. Len(wire) + n
          /\ \A k \in 1 .. Len(wire) : (wire \o w)[k] = wire[k]
      BY <2>2, <3>1, <3>6, <3>7, Concatenated
    <3>9. 1 .. Len(wire) \subseteq 1 .. Len(wire) + n BY <2>2, <3>7
    <3> QED BY <2>1, <3>7, <3>8, <3>9 DEF w
  <2>5. \A i, b : OnWire(i, b) => OnWire(i, b)' BY <2>4 DEF OnWire
  <2>6. ReturnedWhole' BY <2>1, <2>5 DEF Whole, ReturnedWhole
  <2> QED BY <2>1, <2>3, <2>6 DEF Whole, Running, This
<1>3. ASSUME Running, NEW o \in {"returned", "threw"}, Ends(o), wire' = wire,
             o = "returned" => OnWire(This, calls[This].len)
      PROVE  Whole'
  <2>1. calls' = [calls EXCEPT ![This].out = o] /\ This \in DOMAIN calls
    BY <1>0, <1>3 DEF Ends, Running, This
  <2> DEFINE r == [calls[This] EXCEPT !.out = o]
  <2>2. calls[This] \in [len : Lengths, out : Outcome] BY <1>0, <2>1, ElementOf
  <2>3. r.len = calls[This].len /\ r.out = o BY <2>2
  <2>4. calls' = [calls EXCEPT ![This] = r] BY <2>1
  <2> HIDE DEF r
  <2>5. /\ DOMAIN calls' = DOMAIN calls /\ calls'[This] = r /\ Len(calls') = Len(calls)
        /\ \A i \in DOMAIN calls : i # This => calls'[i] = calls[i]
    BY <1>0, <2>1, <2>4
  <2>6. ~Running' BY <1>3, <2>3, <2>5 DEF Running, This
  <2>7. ReturnedWhole'
    <3> SUFFICES ASSUME NEW i \in DOMAIN calls, calls'[i].out = "returned"
                 PROVE  OnWire(i, calls'[i].len)
      BY <1>3, <2>5 DEF ReturnedWhole, OnWire
    <3>1. CASE i = This BY <1>3, <2>3, <2>5, <3>1
    <3>2. CASE i # This BY <2>5, <3>2 DEF Whole, ReturnedWhole
    <3> QED BY <3>1, <3>2
  <2> QED BY <2>6, <2>7 DEF Whole
<1>4. CASE Throw BY <1>3, <1>4 DEF Throw
<1>5. CASE Return
  <2>1. Running /\ to_send <= 0 /\ Ends("returned") /\ wire' = wire BY <1>5 DEF Return
  <2>2. This \in DOMAIN calls BY <1>0, <2>1 DEF Running, This
  <2>3. calls[This] \in [len : Lengths, out : Outcome] BY <1>0, <2>2, ElementOf
  <2>4. calls[This].len \in Nat \ {0} BY <2>3, SendAssumption
  <2>5. total_sent = calls[This].len
    BY <2>1, <2>4 DEF Inv, TypeOK, Whole
  <2>6. wire # << >> /\ Last = [call |-> This, byte |-> total_sent]
    BY <2>1, <2>4, <2>5 DEF Inv, Progress
  <2>7. Len(wire) \in DOMAIN wire BY <2>6 DEF Inv, TypeOK
  <2>8. OnWire(This, calls[This].len) BY <2>5, <2>6, <2>7 DEF OnWire, Last
  <2> QED BY <1>3, <2>1, <2>8
<1>6. CASE PeerTakes
  BY <1>6 DEF PeerTakes, Whole, ReturnedWhole, OnWire, Running, This
<1>7. CASE Reset BY <1>7 DEF Reset, Whole, ReturnedWhole, OnWire, Running, This
<1>8. CASE UNCHANGED vars BY <1>8 DEF vars, Whole, ReturnedWhole, OnWire, Running, This
<1> QED BY <1>1, <1>2, <1>4, <1>5, <1>6, <1>7, <1>8 DEF Next, Send

\* When no frame is longer than an int can say, a send() that returned has
\* written all of its frame.
THEOREM SendReturnsWhole == ASSUME FitsInt PROVE Spec => []ReturnedWhole
<1>1. Init => Whole BY DEF Init, Whole, ReturnedWhole, Running
<1>2. Inv /\ Whole /\ [Next]_vars => (Inv /\ Whole)' BY NextInv, WholeNext
<1>3. Inv /\ Whole => ReturnedWhole BY DEF Whole
<1> QED BY <1>1, <1>2, <1>3, InitInv, PTL DEF Spec
=============================================================================
