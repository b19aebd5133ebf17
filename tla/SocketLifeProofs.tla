-------------------------- MODULE SocketLifeProofs --------------------------
(***************************************************************************)
(* Proofs about SocketLife for any number of clients, descriptors, heap    *)
(* objects and addresses.                                                  *)
(***************************************************************************)
EXTENDS SocketLife, FiniteSetTheorems, WellFoundedInduction, TLAPS

\* The places where a client keeps a handle of each kind.
FdPlaces   == {"tmp", "member"}
HeapPlaces == {"addrs", "tmp_ctx", "tmp_ssl", "ctx", "ssl"}

FdAt(c, k) == IF k = "tmp" THEN tmp[c].fd ELSE m_socket[c].fd
HeapAt(c, k) ==
  IF k = "addrs" THEN addrs[c]
  ELSE IF k = "tmp_ctx" THEN tmp[c].ctx
  ELSE IF k = "tmp_ssl" THEN tmp[c].ssl
  ELSE IF k = "ctx" THEN m_socket[c].ctx ELSE m_socket[c].ssl

\* A handle in any of them is alive, and in no other place of any client.
FdsOwned ==
  \A c, d \in Clients, j, k \in FdPlaces : FdAt(c, j) # None =>
    FdAt(c, j) \in fds /\ (FdAt(c, j) = FdAt(d, k) => c = d /\ j = k)
HeapOwned ==
  \A c, d \in Clients, j, k \in HeapPlaces : HeapAt(c, j) # None =>
    HeapAt(c, j) \in heap /\ (HeapAt(c, j) = HeapAt(d, k) => c = d /\ j = k)

\* What a client holds at each point of its constructor.
Shape ==
  \A c \in Clients :
    /\ pc[c] \in {"none", "try", "handshake", "up"} => tmp[c] = NoSocket
    /\ pc[c] \in {"none", "move", "handshake", "up"} => addrs[c] = None
    /\ pc[c] = "ssl" => tls[c]
    /\ tmp[c].ctx = None => tmp[c].ssl = None

\* Without a failed TLS connect() every handle in use is in one of the places.
Reached ==
  tlsThrew \/ /\ \A h \in fds : \E c \in Clients, k \in FdPlaces : FdAt(c, k) = h
              /\ \A h \in heap : \E c \in Clients, k \in HeapPlaces : HeapAt(c, k) = h

Inv == TypeOK /\ FdsOwned /\ HeapOwned /\ Shape /\ Reached
----------------------------------------------------------------------------
\* Handles are given out from a set that is not empty: the lowest is one of it.
LEMMA LowestIn == ASSUME NEW S, S \subseteq Nat, S # {} PROVE Lowest(S) \in S
<1>1. PICK x \in S : \A y \in S : ~ (<<y, x>> \in OpToRel(<, Nat))
  BY WFMin, NatLessThanWellFounded
<1>2. \A y \in S : ~(y < x) BY <1>1 DEF OpToRel
<1>3. \E h \in S : \A g \in S : h <= g BY <1>2
<1> QED BY <1>3 DEF Lowest

\* A fresh handle of each kind.
LEMMA FreshFd ==
  ASSUME Fds \ fds # {} PROVE Lowest(Fds \ fds) \in Fds \ fds
BY HandleAssumption, LowestIn

\* The lowest free heap block is free.
LEMMA FreshBlock ==
  ASSUME NEW S, Blocks \ S # {} PROVE Lowest(Blocks \ S) \in Blocks \ S
BY HandleAssumption, LowestIn

\* With two free blocks there is one left when the first is taken.
LEMMA SecondBlock ==
  ASSUME NEW S, Cardinality(Blocks \ S) > 1
  PROVE  Blocks \ S # {} /\ \A x \in Blocks : Blocks \ (S \cup {x}) # {}
<1>1. IsFiniteSet(Blocks \ S)
  <2>1. IsFiniteSet(Fds \cup Blocks) /\ Blocks \ S \subseteq Fds \cup Blocks BY HandleAssumption
  <2> QED BY <2>1, FS_Subset
<1>2. Blocks \ S # {} BY FS_EmptySet
<1>3. ASSUME NEW x \in Blocks, Blocks \ (S \cup {x}) = {} PROVE FALSE
  <2>1. Blocks \ S = {x} BY <1>2, <1>3
  <2> QED BY <2>1, FS_Singleton
<1> QED BY <1>2, <1>3

\* No handle is None.
LEMMA NotNone == None \notin Fds /\ None \notin Blocks BY HandleAssumption DEF None
----------------------------------------------------------------------------
(* Ownership across a step.                                                *)

\* A place keeps a handle that stays alive, is emptied, or takes one that was
\* not in use: then no handle gets a second place.
LEMMA FdsStep ==
  ASSUME FdsOwned,
         \A d \in Clients, k \in FdPlaces :
           \/ FdAt(d, k)' = None
           \/ FdAt(d, k)' = FdAt(d, k) /\ FdAt(d, k) \in fds'
           \/ FdAt(d, k)' \in fds' \ fds,
         \A d, e \in Clients, j, k \in FdPlaces :
           FdAt(d, j)' \in fds' \ fds /\ FdAt(d, j)' = FdAt(e, k)' => d = e /\ j = k
  PROVE  FdsOwned'
BY DEF FdsOwned

\* The same for heap objects.
LEMMA HeapStep ==
  ASSUME HeapOwned,
         \A d \in Clients, k \in HeapPlaces :
           \/ HeapAt(d, k)' = None
           \/ HeapAt(d, k)' = HeapAt(d, k) /\ HeapAt(d, k) \in heap'
           \/ HeapAt(d, k)' \in heap' \ heap,
         \A d, e \in Clients, j, k \in HeapPlaces :
           HeapAt(d, j)' \in heap' \ heap /\ HeapAt(d, j)' = HeapAt(e, k)' => d = e /\ j = k
  PROVE  HeapOwned'
BY DEF HeapOwned

\* Nothing happens to the descriptors.
LEMMA FdsSame ==
  ASSUME FdsOwned, fds' = fds, m_socket' = m_socket, NEW c \in Clients,
         tmp' = tmp \/ tmp' = [tmp EXCEPT ![c] = NoSocket], TypeOK
  PROVE  FdsOwned'
<1>1. \A d \in Clients, k \in FdPlaces : FdAt(d, k)' = None \/ FdAt(d, k)' = FdAt(d, k)
  BY DEF FdAt, NoSocket, TypeOK
<1>2. \A d \in Clients, k \in FdPlaces : FdAt(d, k) # None => FdAt(d, k) \in fds BY DEF FdsOwned
<1> QED BY <1>1, <1>2, FdsStep

\* Nothing happens to the heap but that a client gives up what it has half made.
LEMMA HeapSame ==
  ASSUME HeapOwned, heap \subseteq heap', None \notin heap', m_socket' = m_socket, NEW c \in Clients,
         \/ tmp' = tmp /\ addrs' = addrs
         \/ tmp' = [tmp EXCEPT ![c] = NoSocket] /\ addrs' = [addrs EXCEPT ![c] = None],
         TypeOK
  PROVE  HeapOwned'
<1>1. \A d \in Clients, k \in HeapPlaces : HeapAt(d, k)' = None \/ HeapAt(d, k)' = HeapAt(d, k)
  BY DEF HeapAt, NoSocket, TypeOK
<1>2. \A d \in Clients, k \in HeapPlaces : HeapAt(d, k) # None => HeapAt(d, k) \in heap
  BY DEF HeapOwned
<1> QED BY <1>1, <1>2, HeapStep

\* NoSocket is a socket.
LEMMA NoSocketType == NoSocket \in Socket BY DEF NoSocket, Socket

\* Where an exception leaves a client.
LEMMA ThrowType ==
  ASSUME TypeOK, NEW c \in Clients, Throw(c), UNCHANGED <<tls, m_socket, fds>>,
         heap' \subseteq Blocks
  PROVE  TypeOK'
<1>1. pc' \in [Clients -> {"none", "try", "ssl", "move", "handshake", "up"}]
  BY DEF Throw, Goto, TypeOK
<1>2. left' \in [Clients -> 0 .. MaxAddrs] BY HandleAssumption DEF Throw, TypeOK
<1>3. addrs' \in [Clients -> Blocks \cup {None}] BY DEF Throw, TypeOK
<1>4. tmp' \in [Clients -> Socket] BY NoSocketType DEF Throw, TypeOK
<1>5. tlsThrew' \in BOOLEAN
  <2>1. tls[c] \in BOOLEAN /\ tlsThrew \in BOOLEAN BY DEF TypeOK
  <2>2. (pc[c] # "none") \in BOOLEAN OBVIOUS
  <2> QED BY <2>1, <2>2 DEF Throw
<1> QED BY <1>1, <1>2, <1>3, <1>4, <1>5 DEF TypeOK

\* It has nothing of the connection any more.
LEMMA ThrowShape ==
  ASSUME TypeOK, Shape, NEW c \in Clients, Throw(c), UNCHANGED tls
  PROVE  Shape'
BY DEF Throw, Goto, TypeOK, Shape, NoSocket

\* While no place loses a handle, what was in reach stays so.
LEMMA ReachedSame ==
  ASSUME Reached, tlsThrew' = tlsThrew, fds' = fds, heap' = heap,
         UNCHANGED <<tmp, m_socket, addrs>>
  PROVE  Reached'
BY DEF Reached, FdAt, HeapAt
----------------------------------------------------------------------------
(* The actions.                                                            *)

\* getaddrinfo takes a block that was free, for the place addrs of the client.
LEMMA ResolveInv == ASSUME Inv, NEW c \in Clients, Resolve(c) PROVE Inv'
<1> USE DEF Inv
<1>1. CASE Throw(c) /\ UNCHANGED heap
  <2>1. TypeOK' BY <1>1, ThrowType DEF Resolve, TypeOK
  <2>2. Shape' BY <1>1, ThrowShape DEF Resolve
  <2>3. UNCHANGED <<tmp, addrs, tlsThrew>>
    <3>1. tmp[c] = NoSocket /\ addrs[c] = None BY DEF Resolve, Shape
    <3>2. tmp' = tmp BY <1>1, <3>1 DEF Throw, TypeOK
    <3>3. addrs' = addrs BY <1>1, <3>1 DEF Throw, TypeOK
    <3>4. tlsThrew' = tlsThrew
      <4>1. tlsThrew' = (tlsThrew \/ (tls[c] /\ FALSE)) BY <1>1 DEF Throw, Resolve
      <4>2. tlsThrew \in BOOLEAN BY DEF TypeOK
      <4> QED BY <4>1, <4>2
    <3> QED BY <3>2, <3>3, <3>4
  <2>4. fds' = fds /\ heap' = heap /\ m_socket' = m_socket BY <1>1 DEF Resolve
  <2>5. FdsOwned' BY <2>3, <2>4, FdsSame
  <2>6. HeapOwned' BY <2>3, <2>4, HeapSame, NotNone DEF TypeOK
  <2>7. Reached' BY <2>3, <2>4, ReachedSame
  <2> QED BY <2>1, <2>2, <2>5, <2>6, <2>7
<1>2. CASE \E n \in 1 .. MaxAddrs :
             /\ Blocks \ heap # {}
             /\ addrs' = [addrs EXCEPT ![c] = Lowest(Blocks \ heap)]
             /\ heap' = heap \cup {addrs'[c]}
             /\ left' = [left EXCEPT ![c] = n]
             /\ Goto(c, "try")
             /\ UNCHANGED <<tmp, tlsThrew>>
  <2> DEFINE b == Lowest(Blocks \ heap)
  <2>1. b \in Blocks \ heap BY <1>2, FreshBlock
  <2> HIDE DEF b
  <2>2. /\ addrs' = [addrs EXCEPT ![c] = b] /\ addrs'[c] = b /\ heap' = heap \cup {b}
        /\ pc' = [pc EXCEPT ![c] = "try"]
        /\ UNCHANGED <<tmp, tlsThrew, tls, m_socket, fds>>
    BY <1>2 DEF b, Goto, Resolve, TypeOK
  <2>3. TypeOK'
    <3>1. left' \in [Clients -> 0 .. MaxAddrs] BY <1>2, HandleAssumption DEF TypeOK
    <3>2. addrs' \in [Clients -> Blocks \cup {None}] BY <2>1, <2>2 DEF TypeOK
    <3>3. pc' \in [Clients -> {"none", "try", "ssl", "move", "handshake", "up"}]
      BY <2>2 DEF TypeOK
    <3> QED BY <2>1, <2>2, <3>1, <3>2, <3>3 DEF TypeOK
  <2>4. Shape' BY <2>2 DEF Shape, TypeOK, Resolve
  <2>5. FdsOwned' BY <2>2, FdsSame
  <2>6. \A d \in Clients, k \in HeapPlaces :
           HeapAt(d, k)' = IF d = c /\ k = "addrs" THEN b ELSE HeapAt(d, k)
    BY <2>2 DEF HeapAt, TypeOK
  <2>7. \A d \in Clients, k \in HeapPlaces : HeapAt(d, k) = None \/ HeapAt(d, k) \in heap
    BY DEF HeapOwned
  <2>8. HeapOwned'
    <3>1. \A d \in Clients, k \in HeapPlaces :
           \/ HeapAt(d, k)' = None
           \/ HeapAt(d, k)' = HeapAt(d, k) /\ HeapAt(d, k) \in heap'
           \/ HeapAt(d, k)' \in heap' \ heap
      BY <2>1, <2>2, <2>6, <2>7
    <3>2. \A d, e \in Clients, j, k \in HeapPlaces :
           HeapAt(d, j)' \in heap' \ heap /\ HeapAt(d, j)' = HeapAt(e, k)' => d = e /\ j = k
      <4>1. b # None BY <2>1, NotNone
      <4> QED BY <2>1, <2>2, <2>6, <2>7, <4>1
    <3> QED BY <3>1, <3>2, HeapStep
  <2>9. Reached'
    <3>1. \A h \in fds' : ~tlsThrew => \E d \in Clients, k \in FdPlaces : FdAt(d, k)' = h
      BY <2>2 DEF Reached, FdAt
    <3>2. \A h \in heap' : ~tlsThrew => \E d \in Clients, k \in HeapPlaces : HeapAt(d, k)' = h
      <4>1. addrs[c] = None BY DEF Shape, Resolve
      <4>2. HeapAt(c, "addrs") = None BY <4>1 DEF HeapAt
      <4>3. None \notin heap BY NotNone DEF TypeOK
      <4>4. "addrs" \in HeapPlaces /\ HeapAt(c, "addrs")' = b BY <2>6 DEF HeapPlaces
      <4> QED BY <2>2, <2>6, <4>2, <4>3, <4>4 DEF Reached
    <3> QED BY <2>2, <3>1, <3>2 DEF Reached
  <2> QED BY <2>3, <2>4, <2>5, <2>8, <2>9
<1> QED BY <1>1, <1>2 DEF Resolve

\* No descriptor, or one that is closed again at once.
LEMMA NoDescriptorInv ==
  ASSUME Inv, NEW c \in Clients, NoDescriptor(c) \/ Refused(c) PROVE Inv'
<1> USE DEF Inv
<1>1. UNCHANGED <<tls, pc, addrs, tmp, m_socket, heap, tlsThrew>> BY DEF NoDescriptor, Refused
<1>2. fds' = fds
  <2>1. CASE NoDescriptor(c) BY <2>1 DEF NoDescriptor
  <2>2. CASE Refused(c)
    <3>1. Lowest(Fds \ fds) \notin fds BY <2>2, FreshFd DEF Refused
    <3> QED BY <2>2, <3>1 DEF Refused, Closed
  <2> QED BY <2>1, <2>2
<1>3. left' \in [Clients -> 0 .. MaxAddrs]
  BY HandleAssumption DEF NoDescriptor, Refused, Trying, TypeOK
<1>4. TypeOK' BY <1>1, <1>2, <1>3 DEF TypeOK
<1>5. Shape' BY <1>1 DEF Shape
<1>6. FdsOwned' BY <1>1, <1>2, FdsSame
<1>7. HeapOwned' BY <1>1, HeapSame, NotNone DEF TypeOK
<1>8. Reached' BY <1>1, <1>2, ReachedSame
<1> QED BY <1>4, <1>5, <1>6, <1>7, <1>8

\* freeaddrinfo releases what only the place addrs of the client holds.
LEMMA AddrsFreed ==
  ASSUME Inv, NEW c \in Clients, FreeAddrs(c), addrs' = [addrs EXCEPT ![c] = None],
         m_socket' = m_socket,
         \A d \in Clients : tmp'[d].ctx = tmp[d].ctx /\ tmp'[d].ssl = tmp[d].ssl
  PROVE  /\ HeapOwned'
         /\ ~tlsThrew => \A h \in heap' : \E d \in Clients, k \in HeapPlaces : HeapAt(d, k)' = h
<1> USE DEF Inv
<1>1. \A d \in Clients, k \in HeapPlaces :
         HeapAt(d, k)' = IF d = c /\ k = "addrs" THEN None ELSE HeapAt(d, k)
  BY DEF HeapAt, TypeOK
<1>2. HeapAt(c, "addrs") = addrs[c] /\ "addrs" \in HeapPlaces BY DEF HeapAt, HeapPlaces
<1>3. heap' = heap \ {HeapAt(c, "addrs")} BY <1>2 DEF FreeAddrs
<1>4. \A d \in Clients, k \in HeapPlaces :
         \/ HeapAt(d, k)' = None
         \/ HeapAt(d, k)' = HeapAt(d, k) /\ HeapAt(d, k) \in heap'
  BY <1>1, <1>2, <1>3 DEF HeapOwned
<1>5. HeapOwned' BY <1>3, <1>4, HeapStep
<1>6. ASSUME ~tlsThrew, NEW h \in heap'
      PROVE  \E d \in Clients, k \in HeapPlaces : HeapAt(d, k)' = h
  BY <1>1, <1>3, <1>6 DEF Reached
<1> QED BY <1>5, <1>6

\* ::connect() succeeds: the place tmp takes a descriptor that was free.
LEMMA ConnectedInv == ASSUME Inv, NEW c \in Clients, Connected(c) PROVE Inv'
<1> USE DEF Inv
<1> DEFINE f == Lowest(Fds \ fds)
<1>1. f \in Fds \ fds BY FreshFd DEF Connected
<1> HIDE DEF f
<1>2. /\ tmp' = [tmp EXCEPT ![c].fd = f] /\ tmp'[c].fd = f /\ fds' = fds \cup {f}
      /\ UNCHANGED <<tls, left, m_socket, tlsThrew>>
  BY DEF f, Connected, TypeOK, Socket
<1>3. \A d \in Clients : tmp'[d].ctx = tmp[d].ctx /\ tmp'[d].ssl = tmp[d].ssl
  BY <1>2 DEF TypeOK, Socket
<1>4. tmp' \in [Clients -> Socket] BY <1>1, <1>2 DEF TypeOK, Socket
<1>5. pc[c] = "try" /\ tmp[c] = NoSocket BY DEF Connected, Trying, Shape
<1>6. \A d \in Clients, k \in FdPlaces :
         FdAt(d, k)' = IF d = c /\ k = "tmp" THEN f ELSE FdAt(d, k)
  BY <1>2 DEF FdAt, TypeOK, Socket
<1>7. \A d \in Clients, k \in FdPlaces : FdAt(d, k) = None \/ FdAt(d, k) \in fds
  BY DEF FdsOwned
<1>8. FdsOwned'
  <2>1. \A d \in Clients, k \in FdPlaces :
         \/ FdAt(d, k)' = None
         \/ FdAt(d, k)' = FdAt(d, k) /\ FdAt(d, k) \in fds'
         \/ FdAt(d, k)' \in fds' \ fds
    BY <1>1, <1>2, <1>6, <1>7
  <2>2. \A d, e \in Clients, j, k \in FdPlaces :
         FdAt(d, j)' \in fds' \ fds /\ FdAt(d, j)' = FdAt(e, k)' => d = e /\ j = k
    <3>1. f # None BY <1>1, NotNone
    <3> QED BY <1>1, <1>2, <1>6, <1>7, <3>1
  <2> QED BY <2>1, <2>2, FdsStep
<1>9. ASSUME ~tlsThrew, NEW h \in fds'
      PROVE  \E d \in Clients, k \in FdPlaces : FdAt(d, k)' = h
  <2>1. FdAt(c, "tmp") = None BY <1>5 DEF FdAt, NoSocket
  <2>2. None \notin fds BY NotNone DEF TypeOK
  <2>3. "tmp" \in FdPlaces /\ FdAt(c, "tmp")' = f BY <1>6 DEF FdPlaces
  <2> QED BY <1>2, <1>6, <1>9, <2>1, <2>2, <2>3 DEF Reached
<1>10. CASE tls[c]
  <2>1. pc' = [pc EXCEPT ![c] = "ssl"] /\ UNCHANGED <<heap, addrs>>
    BY <1>10 DEF Connected, Goto
  <2>2. TypeOK' BY <1>1, <1>2, <1>4, <2>1 DEF TypeOK
  <2>3. Shape' BY <1>2, <1>3, <1>5, <1>10, <2>1 DEF Shape, TypeOK, NoSocket
  <2>4. \A d \in Clients, k \in HeapPlaces : HeapAt(d, k)' = HeapAt(d, k)
    BY <1>2, <1>3, <2>1 DEF HeapAt
  <2>5. HeapOwned' BY <2>1, <2>4 DEF HeapOwned
  <2>6. Reached' BY <1>2, <1>9, <2>1, <2>4 DEF Reached
  <2> QED BY <1>8, <2>2, <2>3, <2>5, <2>6
<1>11. CASE ~tls[c]
  <2>1. /\ pc' = [pc EXCEPT ![c] = "move"] /\ FreeAddrs(c)
        /\ addrs' = [addrs EXCEPT ![c] = None]
    BY <1>11 DEF Connected, Goto
  <2>2. TypeOK'
    <3>1. heap' \subseteq Blocks BY <2>1 DEF FreeAddrs, TypeOK
    <3>2. addrs' \in [Clients -> Blocks \cup {None}] BY <2>1 DEF TypeOK
    <3>3. pc' \in [Clients -> {"none", "try", "ssl", "move", "handshake", "up"}]
      BY <2>1 DEF TypeOK
    <3> QED BY <1>1, <1>2, <1>4, <3>1, <3>2, <3>3 DEF TypeOK
  <2>3. Shape' BY <1>2, <1>3, <1>5, <2>1 DEF Shape, TypeOK, NoSocket
  <2>4. /\ HeapOwned'
        /\ ~tlsThrew => \A h \in heap' : \E d \in Clients, k \in HeapPlaces : HeapAt(d, k)' = h
    BY <1>2, <1>3, <2>1, AddrsFreed
  <2>5. Reached' BY <1>2, <1>9, <2>4 DEF Reached
  <2> QED BY <1>8, <2>2, <2>3, <2>4, <2>5
<1> QED BY <1>10, <1>11

\* No address is left: a SocketWrapper frees the list, an SSLSocketWrapper leaks it.
LEMMA NotConnectedInv == ASSUME Inv, NEW c \in Clients, NotConnected(c) PROVE Inv'
<1> USE DEF Inv
<1>1. UNCHANGED <<tls, m_socket, fds>> /\ Throw(c) BY DEF NotConnected
<1>2. pc[c] = "try" /\ tmp[c] = NoSocket BY DEF NotConnected, Shape
<1>3. tmp' = tmp BY <1>1, <1>2 DEF Throw, TypeOK
<1>4. addrs' = [addrs EXCEPT ![c] = None] BY <1>1 DEF Throw
<1>5. heap' \subseteq heap BY DEF NotConnected, FreeAddrs
<1>6. heap' \subseteq Blocks BY <1>5 DEF TypeOK
<1>7. TypeOK' BY <1>1, <1>6, ThrowType
<1>8. Shape' BY <1>1, ThrowShape
<1>9. FdsOwned' BY <1>1, <1>3, FdsSame
<1>10. CASE tls[c]
  <2>1. heap' = heap BY <1>10 DEF NotConnected
  <2>2. tmp' = [tmp EXCEPT ![c] = NoSocket] BY <1>1 DEF Throw
  <2>3. HeapOwned' BY <1>1, <1>4, <2>1, <2>2, HeapSame, NotNone DEF TypeOK
  <2>4. tlsThrew' BY <1>1, <1>2, <1>10 DEF Throw
  <2> QED BY <1>7, <1>8, <1>9, <2>3, <2>4 DEF Reached
<1>11. CASE ~tls[c]
  <2>1. FreeAddrs(c) BY <1>11 DEF NotConnected
  <2>2. /\ HeapOwned'
        /\ ~tlsThrew => \A h \in heap' : \E d \in Clients, k \in HeapPlaces : HeapAt(d, k)' = h
    BY <1>1, <1>3, <1>4, <2>1, AddrsFreed
  <2>3. ~tlsThrew' => ~tlsThrew BY <1>1 DEF Throw
  <2>4. ~tlsThrew => \A h \in fds' : \E d \in Clients, k \in FdPlaces : FdAt(d, k)' = h
    BY <1>1, <1>3 DEF Reached, FdAt
  <2> QED BY <1>7, <1>8, <1>9, <2>2, <2>3, <2>4 DEF Reached
<1> QED BY <1>10, <1>11

\* SSL_CTX_new and SSL_new: two blocks that were free, or an exception, after
\* which a block may be out of reach.
LEMMA SetUpInv == ASSUME Inv, NEW c \in Clients, SetUp(c) PROVE Inv'
<1> USE DEF Inv
<1>1. UNCHANGED <<tls, m_socket, fds>> /\ pc[c] = "ssl" /\ tls[c] BY DEF SetUp, Shape
<1>2. CASE Throw(c) /\ heap \subseteq heap' /\ heap' \subseteq Blocks
  <2>1. TypeOK' BY <1>1, <1>2, ThrowType
  <2>2. Shape' BY <1>1, <1>2, ThrowShape
  <2>3. tmp' = [tmp EXCEPT ![c] = NoSocket] /\ addrs' = [addrs EXCEPT ![c] = None]
    BY <1>2 DEF Throw
  <2>4. FdsOwned' BY <1>1, <2>3, FdsSame
  <2>5. None \notin heap' BY <1>2, NotNone
  <2>6. HeapOwned' BY <1>1, <1>2, <2>3, <2>5, HeapSame
  <2>7. tlsThrew' BY <1>1, <1>2 DEF Throw
  <2> QED BY <2>1, <2>2, <2>4, <2>6, <2>7 DEF Reached
<1>3. CASE /\ Cardinality(Blocks \ heap) > 1
           /\ LET ctx == Lowest(Blocks \ heap)
                  ssl == Lowest(Blocks \ (heap \cup {ctx}))
              IN /\ tmp' = [tmp EXCEPT ![c].ctx = ctx, ![c].ssl = ssl]
                 /\ heap' = heap \cup {ctx, ssl}
           /\ UNCHANGED <<pc, left, addrs, tlsThrew>>
  <2> DEFINE x == Lowest(Blocks \ heap)
             s == Lowest(Blocks \ (heap \cup {x}))
  <2>1. x \in Blocks \ heap BY <1>3, SecondBlock, FreshBlock
  <2>2. s \in Blocks \ (heap \cup {x})
    <3> HIDE DEF x
    <3>1. Blocks \ (heap \cup {x}) # {} BY <1>3, <2>1, SecondBlock
    <3> QED BY <3>1, FreshBlock
  <2>3. tmp' = [tmp EXCEPT ![c].ctx = x, ![c].ssl = s] /\ heap' = heap \cup {x, s} BY <1>3
  <2> HIDE DEF x, s
  <2>4. tmp' \in [Clients -> Socket] BY <2>1, <2>2, <2>3 DEF TypeOK, Socket
  <2>5. TypeOK' BY <1>1, <1>3, <2>1, <2>2, <2>3, <2>4 DEF TypeOK
  <2>6. x # None /\ s # None BY <2>1, <2>2, NotNone
  <2>7. Shape' BY <1>1, <1>3, <2>3, <2>6 DEF Shape, TypeOK, Socket
  <2>8. \A d \in Clients, k \in FdPlaces : FdAt(d, k)' = FdAt(d, k)
    BY <1>1, <2>3 DEF FdAt, TypeOK, Socket
  <2>9. FdsOwned' BY <1>1, <2>8 DEF FdsOwned
  <2>10. \A d \in Clients, k \in HeapPlaces :
            HeapAt(d, k)' = IF d = c /\ k = "tmp_ctx" THEN x
                            ELSE IF d = c /\ k = "tmp_ssl" THEN s ELSE HeapAt(d, k)
    BY <1>1, <1>3, <2>3 DEF HeapAt, TypeOK, Socket
  <2>11. \A d \in Clients, k \in HeapPlaces : HeapAt(d, k) = None \/ HeapAt(d, k) \in heap
    BY DEF HeapOwned
  <2>12. HeapOwned'
    <3>1. \A d \in Clients, k \in HeapPlaces :
           \/ HeapAt(d, k)' = None
           \/ HeapAt(d, k)' = HeapAt(d, k) /\ HeapAt(d, k) \in heap'
           \/ HeapAt(d, k)' \in heap' \ heap
      BY <2>1, <2>2, <2>3, <2>10, <2>11
    <3>2. \A d, e \in Clients, j, k \in HeapPlaces :
           HeapAt(d, j)' \in heap' \ heap /\ HeapAt(d, j)' = HeapAt(e, k)' => d = e /\ j = k
      BY <2>1, <2>2, <2>3, <2>6, <2>10, <2>11
    <3> QED BY <3>1, <3>2, HeapStep
  <2>13. Reached'
    <3>1. tmp[c].ctx = None /\ tmp[c].ssl = None BY DEF SetUp, Shape
    <3>2. HeapAt(c, "tmp_ctx") = None /\ HeapAt(c, "tmp_ssl") = None BY <3>1 DEF HeapAt
    <3>3. None \notin heap BY NotNone DEF TypeOK
    <3>4. /\ "tmp_ctx" \in HeapPlaces /\ HeapAt(c, "tmp_ctx")' = x
          /\ "tmp_ssl" \in HeapPlaces /\ HeapAt(c, "tmp_ssl")' = s
      BY <2>10 DEF HeapPlaces
    <3>5. \A h \in heap' : ~tlsThrew => \E d \in Clients, k \in HeapPlaces : HeapAt(d, k)' = h
      BY <2>3, <2>10, <3>2, <3>3, <3>4 DEF Reached
    <3>6. \A h \in fds' : ~tlsThrew => \E d \in Clients, k \in FdPlaces : FdAt(d, k)' = h
      BY <1>1, <2>8 DEF Reached
    <3> QED BY <1>3, <3>5, <3>6 DEF Reached
  <2> QED BY <2>5, <2>7, <2>9, <2>12, <2>13
<1>4. heap \subseteq Blocks BY DEF TypeOK
<1>5. Blocks \ heap # {} => Lowest(Blocks \ heap) \in Blocks BY FreshBlock
<1> QED BY <1>2, <1>3, <1>4, <1>5 DEF SetUp

\* SSL_connect: an exception, or the list is freed.
LEMMA SSLConnectInv == ASSUME Inv, NEW c \in Clients, SSL_connect(c) PROVE Inv'
<1> USE DEF Inv
<1>1. UNCHANGED <<tls, m_socket, fds>> /\ pc[c] = "ssl" /\ tls[c] BY DEF SSL_connect, Shape
<1>2. CASE Throw(c) /\ UNCHANGED heap
  <2>1. TypeOK' BY <1>1, <1>2, ThrowType DEF TypeOK
  <2>2. Shape' BY <1>1, <1>2, ThrowShape
  <2>3. tmp' = [tmp EXCEPT ![c] = NoSocket] /\ addrs' = [addrs EXCEPT ![c] = None]
    BY <1>2 DEF Throw
  <2>4. FdsOwned' BY <1>1, <2>3, FdsSame
  <2>5. None \notin heap' BY <1>2, NotNone DEF TypeOK
  <2>6. HeapOwned' BY <1>1, <1>2, <2>3, <2>5, HeapSame
  <2>7. tlsThrew' BY <1>1, <1>2 DEF Throw
  <2> QED BY <2>1, <2>2, <2>4, <2>6, <2>7 DEF Reached
<1>3. CASE /\ Goto(c, "move") /\ FreeAddrs(c) /\ addrs' = [addrs EXCEPT ![c] = None]
           /\ UNCHANGED <<tmp, left, tlsThrew>>
  <2>1. heap' \subseteq Blocks BY <1>3 DEF FreeAddrs, TypeOK
  <2>2. addrs' \in [Clients -> Blocks \cup {None}] BY <1>3 DEF TypeOK
  <2>3. pc' \in [Clients -> {"none", "try", "ssl", "move", "handshake", "up"}]
    BY <1>3 DEF TypeOK, Goto
  <2>4. TypeOK' BY <1>1, <1>3, <2>1, <2>2, <2>3 DEF TypeOK
  <2>5. Shape' BY <1>1, <1>3 DEF Shape, Goto, TypeOK
  <2>6. FdsOwned' BY <1>1, <1>3, FdsSame
  <2>7. /\ HeapOwned'
        /\ ~tlsThrew => \A h \in heap' : \E d \in Clients, k \in HeapPlaces : HeapAt(d, k)' = h
    BY <1>1, <1>3, AddrsFreed
  <2>8. ~tlsThrew => \A h \in fds' : \E d \in Clients, k \in FdPlaces : FdAt(d, k)' = h
    BY <1>1, <1>3 DEF Reached, FdAt
  <2>9. Reached' BY <1>3, <2>7, <2>8 DEF Reached
  <2> QED BY <2>4, <2>5, <2>6, <2>7, <2>9
<1> QED BY <1>2, <1>3 DEF SSL_connect

\* The move: the member gives up its handles and takes those of the temporary.
LEMMA MoveInv == ASSUME Inv, NEW c \in Clients, Move(c) PROVE Inv'
<1> USE DEF Inv
<1>1. /\ m_socket' = [m_socket EXCEPT ![c] = tmp[c]] /\ tmp' = [tmp EXCEPT ![c] = NoSocket]
      /\ pc' = [pc EXCEPT ![c] = "handshake"] /\ pc[c] = "move"
      /\ UNCHANGED <<tls, left, addrs, tlsThrew>>
  BY DEF Move, Goto
<1>2. Held(NoSocket) = {} /\ Memory(NoSocket) = {} BY DEF Held, Memory, NoSocket
<1>3. fds' = fds \ Held(m_socket[c]) /\ heap' = heap \ Memory(m_socket[c])
  <2>1. /\ UNION {Held(s) : s \in {m_socket[c], NoSocket}} = Held(m_socket[c])
        /\ UNION {Memory(s) : s \in {m_socket[c], NoSocket}} = Memory(m_socket[c])
    BY <1>2
  <2> QED BY <2>1 DEF Move, Disconnect, MovedFrom
<1>4. TypeOK' BY <1>1, <1>3, NoSocketType DEF TypeOK
<1>5. Shape' BY <1>1 DEF Shape, TypeOK, NoSocket
<1>6. \A d \in Clients, k \in FdPlaces :
         FdAt(d, k)' = IF d # c THEN FdAt(d, k)
                       ELSE IF k = "tmp" THEN None ELSE FdAt(d, "tmp")
  BY <1>1 DEF FdAt, TypeOK, NoSocket
<1>7. fds' = fds \ ({FdAt(c, "member")} \ {None}) BY <1>3 DEF Held, FdAt
<1>8. {"tmp", "member"} = FdPlaces BY DEF FdPlaces
<1>9. FdsOwned' BY <1>6, <1>7, <1>8 DEF FdsOwned
<1>10. \A d \in Clients, k \in HeapPlaces :
         HeapAt(d, k)' = IF d # c \/ k = "addrs" THEN HeapAt(d, k)
                         ELSE IF k \in {"tmp_ctx", "tmp_ssl"} THEN None
                         ELSE IF k = "ctx" THEN HeapAt(d, "tmp_ctx") ELSE HeapAt(d, "tmp_ssl")
  BY <1>1 DEF HeapAt, HeapPlaces, TypeOK, NoSocket
<1>11. heap' = heap \ ({HeapAt(c, "ctx"), HeapAt(c, "ssl")} \ {None})
  BY <1>3 DEF Memory, HeapAt
<1>12. {"addrs", "tmp_ctx", "tmp_ssl", "ctx", "ssl"} = HeapPlaces BY DEF HeapPlaces
<1>13. HeapOwned' BY <1>10, <1>11, <1>12 DEF HeapOwned
<1>14. \A h \in fds' : ~tlsThrew => \E d \in Clients, k \in FdPlaces : FdAt(d, k)' = h
  <2> SUFFICES ASSUME NEW h \in fds', ~tlsThrew
               PROVE  \E d \in Clients, k \in FdPlaces : FdAt(d, k)' = h
    OBVIOUS
  <2>1. PICK d \in Clients, k \in FdPlaces : FdAt(d, k) = h BY <1>7 DEF Reached
  <2>2. h # None BY <1>4, NotNone DEF TypeOK
  <2>3. CASE d # c BY <1>6, <2>1, <2>3
  <2>4. CASE d = c /\ k = "tmp" BY <1>6, <1>8, <2>1, <2>4
  <2>5. CASE d = c /\ k = "member" BY <1>7, <2>1, <2>2, <2>5
  <2> QED BY <1>8, <2>3, <2>4, <2>5
<1>15. \A h \in heap' : ~tlsThrew => \E d \in Clients, k \in HeapPlaces : HeapAt(d, k)' = h
  <2> SUFFICES ASSUME NEW h \in heap', ~tlsThrew
               PROVE  \E d \in Clients, k \in HeapPlaces : HeapAt(d, k)' = h
    OBVIOUS
  <2>1. PICK d \in Clients, k \in HeapPlaces : HeapAt(d, k) = h BY <1>11 DEF Reached
  <2>2. h # None BY <1>4, NotNone DEF TypeOK
  <2>3. CASE d # c \/ k = "addrs" BY <1>10, <2>1, <2>3
  <2>4. CASE d = c /\ k = "tmp_ctx" BY <1>10, <1>12, <2>1, <2>4
  <2>5. CASE d = c /\ k = "tmp_ssl" BY <1>10, <1>12, <2>1, <2>5
  <2>6. CASE d = c /\ k \in {"ctx", "ssl"} BY <1>11, <2>1, <2>2, <2>6
  <2> QED BY <1>12, <2>3, <2>4, <2>5, <2>6
<1>16. Reached' BY <1>1, <1>14, <1>15 DEF Reached
<1> QED BY <1>4, <1>5, <1>9, <1>13, <1>16

\* The handshake succeeds: nothing changes hands.
LEMMA OpenedInv == ASSUME Inv, NEW c \in Clients, Opened(c) PROVE Inv'
<1> USE DEF Inv
<1>1. /\ UNCHANGED <<tls, left, addrs, tmp, m_socket, fds, heap, tlsThrew>>
      /\ pc' = [pc EXCEPT ![c] = "up"] /\ pc[c] = "handshake"
  BY DEF Opened, Goto
<1>2. TypeOK' BY <1>1 DEF TypeOK
<1>3. Shape' BY <1>1 DEF Shape, TypeOK
<1>4. FdsOwned' BY <1>1, FdsSame
<1>5. HeapOwned' BY <1>1, HeapSame, NotNone DEF TypeOK
<1>6. Reached' BY <1>1, ReachedSame
<1> QED BY <1>2, <1>3, <1>4, <1>5, <1>6

\* The destructor of the member releases what only the member holds.
LEMMA ReleaseInv == ASSUME Inv, NEW c \in Clients, Release(c) PROVE Inv'
<1> USE DEF Inv
<1>1. /\ m_socket' = [m_socket EXCEPT ![c] = NoSocket] /\ left' = [left EXCEPT ![c] = 0]
      /\ pc' = [pc EXCEPT ![c] = "none"] /\ pc[c] \in {"handshake", "up"}
      /\ UNCHANGED <<tls, addrs, tmp, tlsThrew>>
  BY DEF Release, Goto
<1>2. fds' = fds \ Held(m_socket[c]) /\ heap' = heap \ Memory(m_socket[c])
  <2>1. /\ UNION {Held(s) : s \in {m_socket[c]}} = Held(m_socket[c])
        /\ UNION {Memory(s) : s \in {m_socket[c]}} = Memory(m_socket[c])
    OBVIOUS
  <2> QED BY <2>1 DEF Release, Disconnect
<1>3. TypeOK'
  <2>1. fds' \subseteq Fds /\ heap' \subseteq Blocks BY <1>2 DEF TypeOK
  <2>2. left' \in [Clients -> 0 .. MaxAddrs] BY <1>1, HandleAssumption DEF TypeOK
  <2>3. m_socket' \in [Clients -> Socket] BY <1>1, NoSocketType DEF TypeOK
  <2>4. pc' \in [Clients -> {"none", "try", "ssl", "move", "handshake", "up"}]
    BY <1>1 DEF TypeOK
  <2> QED BY <1>1, <2>1, <2>2, <2>3, <2>4 DEF TypeOK
<1>4. Shape' BY <1>1 DEF Shape, TypeOK, NoSocket
<1>5. {"tmp", "member"} = FdPlaces BY DEF FdPlaces
<1>6. \A d \in Clients, k \in FdPlaces :
         FdAt(d, k)' = IF d = c /\ k = "member" THEN None ELSE FdAt(d, k)
  BY <1>1, <1>5 DEF FdAt, TypeOK, NoSocket
<1>7. fds' = fds \ ({FdAt(c, "member")} \ {None}) BY <1>2 DEF Held, FdAt
<1>8. FdsOwned' BY <1>5, <1>6, <1>7 DEF FdsOwned
<1>9. {"addrs", "tmp_ctx", "tmp_ssl", "ctx", "ssl"} = HeapPlaces BY DEF HeapPlaces
<1>10. \A d \in Clients, k \in HeapPlaces :
          HeapAt(d, k)' = IF d = c /\ k \in {"ctx", "ssl"} THEN None ELSE HeapAt(d, k)
  BY <1>1, <1>9 DEF HeapAt, TypeOK, NoSocket
<1>11. heap' = heap \ ({HeapAt(c, "ctx"), HeapAt(c, "ssl")} \ {None})
  BY <1>2 DEF Memory, HeapAt
<1>12. HeapOwned' BY <1>9, <1>10, <1>11 DEF HeapOwned
<1>13. None \notin fds' /\ None \notin heap' BY <1>3, NotNone DEF TypeOK
<1>14. \A h \in fds' : ~tlsThrew => \E d \in Clients, k \in FdPlaces : FdAt(d, k)' = h
  BY <1>5, <1>6, <1>7, <1>13 DEF Reached
<1>15. \A h \in heap' : ~tlsThrew => \E d \in Clients, k \in HeapPlaces : HeapAt(d, k)' = h
  BY <1>9, <1>10, <1>11, <1>13 DEF Reached
<1>16. Reached' BY <1>1, <1>14, <1>15 DEF Reached
<1> QED BY <1>3, <1>4, <1>8, <1>12, <1>16
----------------------------------------------------------------------------
(* The invariant, and what it says.                                        *)

\* Before the first connect() no handle is in use.
LEMMA InitInv == ASSUME Init PROVE Inv
<1>1. TypeOK
  <2>1. left \in [Clients -> 0 .. MaxAddrs] BY HandleAssumption DEF Init
  <2>2. tmp \in [Clients -> Socket] /\ m_socket \in [Clients -> Socket]
    BY NoSocketType DEF Init
  <2>3. addrs \in [Clients -> Blocks \cup {None}] BY DEF Init
  <2>4. pc \in [Clients -> {"none", "try", "ssl", "move", "handshake", "up"}] BY DEF Init
  <2> QED BY <2>1, <2>2, <2>3, <2>4 DEF Init, TypeOK
<1>2. FdsOwned /\ HeapOwned BY DEF Init, FdsOwned, HeapOwned, FdAt, HeapAt, NoSocket
<1>3. Shape BY DEF Init, Shape, NoSocket
<1>4. Reached BY DEF Init, Reached
<1> QED BY <1>1, <1>2, <1>3, <1>4 DEF Inv

\* Every step of every client keeps the invariant.
LEMMA NextInv == ASSUME Inv, [Next]_vars PROVE Inv'
<1>1. CASE Next
  <2>1. PICK c \in Clients :
           \/ Resolve(c) \/ NoDescriptor(c) \/ Refused(c) \/ Connected(c) \/ NotConnected(c)
           \/ SetUp(c) \/ SSL_connect(c) \/ Move(c) \/ Opened(c) \/ Release(c)
    BY <1>1 DEF Next
  <2> QED BY <2>1, ResolveInv, NoDescriptorInv, ConnectedInv, NotConnectedInv, SetUpInv,
             SSLConnectInv, MoveInv, OpenedInv, ReleaseInv
<1>2. CASE UNCHANGED vars
  BY <1>2 DEF vars, Inv, TypeOK, FdsOwned, HeapOwned, Shape, Reached, FdAt, HeapAt
<1> QED BY <1>1, <1>2

\* Every variable keeps its type: no handle outside the bounds is ever given out.
THEOREM SocketTypeCorrect == Spec => []TypeOK
<1>1. Inv => TypeOK BY DEF Inv
<1> QED BY <1>1, InitInv, NextInv, PTL DEF Spec

\* No two sockets of any clients hold the same descriptor or SSL object, and what a
\* socket holds is alive: connect(), the move and the destructor release only what
\* is theirs, in any interleaving and after any failure.
THEOREM SocketHandlesOwned == Spec => []HandlesOwned
<1>1. ASSUME Inv PROVE HandlesOwned
  <2> USE <1>1 DEF Inv
  <2>1. /\ "tmp" \in FdPlaces /\ "member" \in FdPlaces /\ "addrs" \in HeapPlaces
        /\ "tmp_ctx" \in HeapPlaces /\ "tmp_ssl" \in HeapPlaces
        /\ "ctx" \in HeapPlaces /\ "ssl" \in HeapPlaces
    BY DEF FdPlaces, HeapPlaces
  <2>2. \A c \in Clients : /\ Held(tmp[c]) = {FdAt(c, "tmp")} \ {None}
                           /\ Held(m_socket[c]) = {FdAt(c, "member")} \ {None}
    BY DEF Held, FdAt
  <2>3. \A c \in Clients :
           /\ Memory(tmp[c]) = {HeapAt(c, "tmp_ctx"), HeapAt(c, "tmp_ssl")} \ {None}
           /\ Memory(m_socket[c]) = {HeapAt(c, "ctx"), HeapAt(c, "ssl")} \ {None}
           /\ addrs[c] = HeapAt(c, "addrs")
    BY DEF Memory, HeapAt
  <2>4. InReach \subseteq fds BY <2>1, <2>2 DEF InReach, FdsOwned
  <2>5. HeapInReach \subseteq heap BY <2>1, <2>3 DEF HeapInReach, HeapOwned
  <2>6. \A c, d \in Clients :
          /\ Held(tmp[c]) \cap Held(m_socket[d]) = {}
          /\ c # d => /\ Held(tmp[c]) \cap Held(tmp[d]) = {}
                      /\ Held(m_socket[c]) \cap Held(m_socket[d]) = {}
    BY <2>1, <2>2 DEF FdsOwned
  <2>7. \A c, d \in Clients : Memory(tmp[c]) \cap Memory(m_socket[d]) = {}
    <3>1. \A c, d \in Clients : \A h \in Memory(tmp[c]) : h \notin Memory(m_socket[d])
      BY <2>1, <2>3 DEF HeapOwned
    <3> QED BY <3>1
  <2>8. \A c, d \in Clients : c # d => Memory(tmp[c]) \cap Memory(tmp[d]) = {}
    <3>1. \A c, d \in Clients : c # d => \A h \in Memory(tmp[c]) : h \notin Memory(tmp[d])
      BY <2>1, <2>3 DEF HeapOwned
    <3> QED BY <3>1
  <2>9. \A c, d \in Clients : c # d => Memory(m_socket[c]) \cap Memory(m_socket[d]) = {}
    <3>1. \A c, d \in Clients :
            c # d => \A h \in Memory(m_socket[c]) : h \notin Memory(m_socket[d])
      BY <2>1, <2>3 DEF HeapOwned
    <3> QED BY <3>1
  <2> QED BY <2>4, <2>5, <2>6, <2>7, <2>8, <2>9 DEF HandlesOwned
<1> QED BY <1>1, InitInv, NextInv, PTL DEF Spec

\* A descriptor, a list or an SSL object is out of reach only after the connect()
\* of an SSLSocketWrapper has thrown: a SocketWrapper never leaks.
THEOREM SocketLeaksOnlyFromFailedTLS == Spec => []LeaksOnlyFromFailedTLS
<1>1. ASSUME Inv PROVE LeaksOnlyFromFailedTLS
  <2> USE <1>1 DEF Inv
  <2>1. None \notin fds /\ None \notin heap BY NotNone DEF TypeOK
  <2>2. ASSUME ~tlsThrew, NEW h \in fds PROVE h \in InReach
    BY <2>1, <2>2 DEF Reached, FdAt, InReach, Held
  <2>3. ASSUME ~tlsThrew, NEW h \in heap PROVE h \in HeapInReach
    BY <2>1, <2>3 DEF Reached, HeapAt, HeapInReach, Memory
  <2> QED BY <2>2, <2>3 DEF LeaksOnlyFromFailedTLS
<1> QED BY <1>1, InitInv, NextInv, PTL DEF Spec
=============================================================================
