----------------------------- MODULE SocketLife -----------------------------
(***************************************************************************)
(* The life of the sockets of several WSClient objects: connect() of       *)
(* SocketWrapper and SSLSocketWrapper with all the ways it fails, the move *)
(* assignment into m_socket, the release when the handshake fails or the   *)
(* client is destroyed.  What connect() allocates are handles: descriptors *)
(* of the process, which are few and given out lowest first, and heap      *)
(* objects (address lists, SSL contexts, SSL sessions).  A handle that was *)
(* released is given out again, so releasing one twice hits its new owner. *)
(***************************************************************************)
EXTENDS Integers, FiniteSets

CONSTANTS
  Clients,     \* the WSClient objects of the program
  Fds,         \* bound: descriptors the process may have
  Blocks,      \* bound: heap objects alive at the same time
  MaxAddrs     \* bound: addresses a host name resolves to

ASSUME HandleAssumption ==
  /\ Fds \subseteq Nat \ {0} /\ Blocks \subseteq Nat \ {0} /\ IsFiniteSet(Fds \cup Blocks)
  /\ MaxAddrs \in Nat \ {0}

VARIABLES
  tls,          \* tls[c]: c is a TLSClient, its socket an SSLSocketWrapper
  pc,           \* pc[c]: where the constructor of c stands
  left,         \* left[c]: addresses connect() has not tried yet
  addrs,        \* addrs[c]: the list getaddrinfo returned, a local of connect()
  tmp,          \* tmp[c]: the socket under construction
  m_socket,     \* m_socket[c]: the member of the client
  fds, heap,    \* handles in use
  tlsThrew      \* history: SSLSocketWrapper::connect() threw after getaddrinfo

vars == <<tls, pc, left, addrs, tmp, m_socket, fds, heap, tlsThrew>>
----------------------------------------------------------------------------
None     == 0
NoSocket == [fd |-> None, ctx |-> None, ssl |-> None]

Lowest(S) == CHOOSE h \in S : \A g \in S : h <= g

\* The sockets that exist, the handles they hold, and all handles in reach.
Held(s)   == {s.fd} \ {None}
Memory(s) == {s.ctx, s.ssl} \ {None}
InReach   == UNION {Held(tmp[c]) \cup Held(m_socket[c]) : c \in Clients}
HeapInReach ==
  UNION {Memory(tmp[c]) \cup Memory(m_socket[c]) \cup ({addrs[c]} \ {None}) : c \in Clients}

Init ==
  /\ tls \in [Clients -> BOOLEAN]
  /\ pc = [c \in Clients |-> "none"]
  /\ left = [c \in Clients |-> 0] /\ addrs = [c \in Clients |-> None]
  /\ tmp = [c \in Clients |-> NoSocket] /\ m_socket = [c \in Clients |-> NoSocket]
  /\ fds = {} /\ heap = {} /\ tlsThrew = FALSE

Goto(c, l) == pc' = [pc EXCEPT ![c] = l]

\* An exception leaves connect(): no destructor runs for the half-made socket.
Throw(c) ==
  /\ Goto(c, "none")
  /\ tmp' = [tmp EXCEPT ![c] = NoSocket]
  /\ left' = [left EXCEPT ![c] = 0]
  /\ addrs' = [addrs EXCEPT ![c] = None]
  /\ tlsThrew' = (tlsThrew \/ (tls[c] /\ pc[c] # "none"))

\* freeaddrinfo(addrs)
FreeAddrs(c) == heap' = heap \ {addrs[c]}

\* getaddrinfo fails, or returns a list of n addresses.
Resolve(c) ==
  /\ pc[c] = "none"
  /\ \/ Throw(c) /\ UNCHANGED heap
     \/ \E n \in 1 .. MaxAddrs :
          /\ Blocks \ heap # {}
          /\ addrs' = [addrs EXCEPT ![c] = Lowest(Blocks \ heap)]
          /\ heap' = heap \cup {addrs'[c]}
          /\ left' = [left EXCEPT ![c] = n]
          /\ Goto(c, "try")
          /\ UNCHANGED <<tmp, tlsThrew>>
  /\ UNCHANGED <<tls, m_socket, fds>>

\* Bugs: the end of the list is not noticed, a descriptor is not closed, a socket
\* keeps the handles that were moved out of it.
Trying_past(c) == pc[c] = "try"
Closed_not(S, fd) == S
MovedFrom_kept(s) == s

\* The loop over the addresses.
Trying(c) == pc[c] = "try" /\ left[c] > 0

\* ::close(fd)
Closed(S, fd) == S \ {fd}

\* socket() fails: SSLSocketWrapper leaves the loop, SocketWrapper goes on.
NoDescriptor(c) ==
  /\ Trying(c)
  /\ left' = [left EXCEPT ![c] = IF tls[c] THEN 0 ELSE @ - 1]
  /\ UNCHANGED <<tls, pc, addrs, tmp, m_socket, fds, heap, tlsThrew>>

\* socket() succeeds and ::connect() fails: the descriptor is closed again.
Refused(c) ==
  /\ Trying(c) /\ Fds \ fds # {}
  /\ left' = [left EXCEPT ![c] = @ - 1]
  /\ LET fd == Lowest(Fds \ fds) IN fds' = Closed(fds \cup {fd}, fd)
  /\ UNCHANGED <<tls, pc, addrs, tmp, m_socket, heap, tlsThrew>>

\* ::connect() succeeds; SocketWrapper frees the list here.
Connected(c) ==
  /\ Trying(c) /\ Fds \ fds # {}
  /\ tmp' = [tmp EXCEPT ![c].fd = Lowest(Fds \ fds)]
  /\ fds' = fds \cup {tmp'[c].fd}
  /\ IF tls[c]
       THEN Goto(c, "ssl") /\ UNCHANGED <<heap, addrs>>
       ELSE Goto(c, "move") /\ FreeAddrs(c) /\ addrs' = [addrs EXCEPT ![c] = None]
  /\ UNCHANGED <<tls, left, m_socket, tlsThrew>>

\* No address is left; only SocketWrapper has freed the list when it throws.
NotConnected(c) ==
  /\ pc[c] = "try" /\ left[c] = 0
  /\ Throw(c)
  /\ IF tls[c] THEN UNCHANGED heap ELSE FreeAddrs(c)
  /\ UNCHANGED <<tls, m_socket, fds>>

\* SSL_CTX_new and SSL_new; without a context there is no session.
SetUp(c) ==
  /\ pc[c] = "ssl" /\ tmp[c].ctx = None
  /\ \/ Throw(c) /\ UNCHANGED heap
     \/ /\ Blocks \ heap # {}
        /\ heap' = heap \cup {Lowest(Blocks \ heap)}
        /\ Throw(c)
     \/ /\ Cardinality(Blocks \ heap) > 1
        /\ LET ctx == Lowest(Blocks \ heap)
               ssl == Lowest(Blocks \ (heap \cup {ctx}))
           IN /\ tmp' = [tmp EXCEPT ![c].ctx = ctx, ![c].ssl = ssl]
              /\ heap' = heap \cup {ctx, ssl}
        /\ UNCHANGED <<pc, left, addrs, tlsThrew>>
  /\ UNCHANGED <<tls, m_socket, fds>>

\* SSL_connect; the list is freed when it succeeds.
SSL_connect(c) ==
  /\ pc[c] = "ssl" /\ tmp[c].ctx # None
  /\ \/ Throw(c) /\ UNCHANGED heap
     \/ /\ Goto(c, "move") /\ FreeAddrs(c) /\ addrs' = [addrs EXCEPT ![c] = None]
        /\ UNCHANGED <<tmp, left, tlsThrew>>
  /\ UNCHANGED <<tls, m_socket, fds>>

\* disconnect() of the sockets in S, one after the other.
Disconnect(S) ==
  /\ fds' = fds \ UNION {Held(s) : s \in S}
  /\ heap' = heap \ UNION {Memory(s) : s \in S}

\* The socket s when its handles have been moved to another one.
MovedFrom(s) == NoSocket

\* m_socket = SocketType(host, port): m_socket is disconnected and takes the
\* handles, and the temporary they were moved from is destroyed.
Move(c) ==
  /\ pc[c] = "move"
  /\ Disconnect({m_socket[c], MovedFrom(tmp[c])})
  /\ m_socket' = [m_socket EXCEPT ![c] = tmp[c]]
  /\ tmp' = [tmp EXCEPT ![c] = NoSocket]
  /\ Goto(c, "handshake")
  /\ UNCHANGED <<tls, left, addrs, tlsThrew>>

Opened(c) ==
  /\ pc[c] = "handshake" /\ Goto(c, "up")
  /\ UNCHANGED <<tls, left, addrs, tmp, m_socket, fds, heap, tlsThrew>>

\* The handshake fails or ~WSClient runs: the member's destructor disconnects.
Release(c) ==
  /\ pc[c] \in {"handshake", "up"} /\ Goto(c, "none")
  /\ Disconnect({m_socket[c]})
  /\ m_socket' = [m_socket EXCEPT ![c] = NoSocket]
  /\ left' = [left EXCEPT ![c] = 0]
  /\ UNCHANGED <<tls, addrs, tmp, tlsThrew>>

Next ==
  \E c \in Clients :
    \/ Resolve(c) \/ NoDescriptor(c) \/ Refused(c) \/ Connected(c) \/ NotConnected(c)
    \/ SetUp(c) \/ SSL_connect(c) \/ Move(c) \/ Opened(c) \/ Release(c)

Spec == Init /\ [][Next]_vars
----------------------------------------------------------------------------
Socket == [fd : Fds \cup {None}, ctx : Blocks \cup {None}, ssl : Blocks \cup {None}]

\* Every variable has its type.
TypeOK ==
  /\ tls \in [Clients -> BOOLEAN]
  /\ pc \in [Clients -> {"none", "try", "ssl", "move", "handshake", "up"}]
  /\ left \in [Clients -> 0 .. MaxAddrs] /\ addrs \in [Clients -> Blocks \cup {None}]
  /\ tmp \in [Clients -> Socket] /\ m_socket \in [Clients -> Socket]
  /\ fds \subseteq Fds /\ heap \subseteq Blocks /\ tlsThrew \in BOOLEAN

\* Every descriptor and SSL object a socket holds is alive and held by no other
\* socket: no move, failure or destructor releases what another client uses.
HandlesOwned ==
  /\ InReach \subseteq fds /\ HeapInReach \subseteq heap
  /\ \A c, d \in Clients :
       /\ Held(tmp[c]) \cap Held(m_socket[d]) = {}
       /\ Memory(tmp[c]) \cap Memory(m_socket[d]) = {}
       /\ c # d => /\ Held(tmp[c]) \cap Held(tmp[d]) = {}
                   /\ Memory(tmp[c]) \cap Memory(tmp[d]) = {}
                   /\ Held(m_socket[c]) \cap Held(m_socket[d]) = {}
                   /\ Memory(m_socket[c]) \cap Memory(m_socket[d]) = {}

\* Nothing gets out of reach while it is in use, through any mix of refused
\* addresses, failed handshakes and destroyed clients, unless the connect() of
\* an SSLSocketWrapper threw, which keeps its descriptor and its SSL objects.
LeaksOnlyFromFailedTLS == tlsThrew \/ (fds \subseteq InReach /\ heap \subseteq HeapInReach)
=============================================================================
