-------------------------- MODULE Transport_proofs --------------------------
(***************************************************************************)
(* Theorems about the two transports, TCP and TLS over it.  First the objects*)
(* that hold them (TCPSockets and TLSObjects): for any number of objects,   *)
(* sessions, descriptors and handshakes, no connection and no OpenSSL object*)
(* is lost, closed by another, or freed twice.                              *)
(*                                                                          *)
(* Then the bytes they carry (DataLayers): for messages, records and sockets*)
(* of every size and any number of signals.  Between the sender and the reader*)
(* lies one line of elements: what the sockets hold and the rest of the write*)
(* in progress.  Over TCP the line is the bytes that follow those already   *)
(* read, unless a write was cut; over TLS every header in it stands in front*)
(* of its whole record, and the next header or the bytes still to come follow*)
(* the record, as long as nothing interrupts the connection.                *)
(*                                                                          *)
(* Last what the two endpoints exchange over them first (Handshake).        *)
(***************************************************************************)
EXTENDS TLSObjects, DataLayers, Handshake, SequenceTheorems, TLAPS

-----------------------------------------------------------------------------
(* The descriptor table.                                                    *)

LEMMA LowestIsFree ==
  ASSUME NEW fd \in Lowest
  PROVE  fd \notin DOMAIN table /\ fd \in Nat
  BY DEF Lowest, Free

LEMMA Closed ==
  ASSUME NEW files, NEW fd
  PROVE  /\ DOMAIN Close(files, fd) = DOMAIN files \ {fd}
         /\ \A other \in DOMAIN files \ {fd} : Close(files, fd)[other] = files[other]
  BY DEF Close, Restrict

\* What is left of a table when one descriptor is closed belongs to whom it did,
\* and an object whose descriptor is another one keeps it.
LEMMA PassedOn ==
  ASSUME NEW files, NEW p, NEW o
  PROVE  /\ DOMAIN Passed(files, p, o) = DOMAIN files
         /\ \A fd \in DOMAIN files :
              Passed(files, p, o)[fd] = IF files[fd] = p THEN o ELSE files[fd]
  BY DEF Passed

-----------------------------------------------------------------------------
(* The invariant of the sockets.  An object that was given no connection, or *)
(* gave it up, holds 0; the listening server still has its own descriptor,  *)
(* unless that is 0, which any of those objects may have closed.            *)

ServerType ==
  server \in [state : {"none", "listening", "destroyed", "gone"}, m_Socket : Nat]

UnconnectedHoldNothing ==
  /\ connected \subseteq Alive
  /\ \A o \in Alive \ connected : m_Socket[o] = 0

ServerListens ==
  server.state = "listening" /\ server.m_Socket # 0 =>
    server.m_Socket \in DOMAIN table /\ table[server.m_Socket] = "server"

SocketsInv ==
  /\ Alive \subseteq Objects
  /\ ServerType
  /\ UnconnectedHoldNothing
  /\ ServerListens
  /\ ConnectionsKept
  /\ ConnectionsReachable

LEMMA OwnersAreNotObjects ==
  "app" \notin Objects /\ "server" \notin Objects /\ "nobody" \notin Objects
  BY SocketsAssumption

LEMMA SocketsInitInv ==
  ASSUME SocketsInit
  PROVE  SocketsInv
  BY OwnersAreNotObjects
     DEF SocketsInit, NoServer, SocketsInv, ServerType, Alive, UnconnectedHoldNothing, ServerListens,
         ConnectionsKept, ConnectionsReachable

\* A descriptor that is handed out was nobody's.
LEMMA HandedOut ==
  ASSUME SocketsInv, NEW fd \in Lowest, NEW owner,
         table' = Opened(fd, owner), owner \notin Objects,
         UNCHANGED <<m_Socket, connected>>,
         server' = server \/ (server' = [state |-> "listening", m_Socket |-> fd]
                              /\ server.state = "none" /\ owner = "server")
  PROVE  SocketsInv'
<1>1. fd \notin DOMAIN table
  BY LowestIsFree
<1>2. /\ DOMAIN table' = DOMAIN table \cup {fd}
      /\ table'[fd] = owner
      /\ \A other \in DOMAIN table : table'[other] = table[other]
  BY <1>1 DEF Opened, Added
<1>3. Alive' = Alive
  BY DEF Alive
<1>4. UnconnectedHoldNothing'
  BY <1>3 DEF SocketsInv, UnconnectedHoldNothing
<1>5. ServerListens'
  BY <1>2 DEF SocketsInv, ServerListens
<1>6. ConnectionsKept'
  BY <1>2 DEF SocketsInv, ConnectionsKept
<1>7. ConnectionsReachable'
  BY <1>2 DEF SocketsInv, ConnectionsReachable
<1>8. ServerType'
  BY LowestIsFree DEF SocketsInv, ServerType
<1>9. QED
  BY <1>3, <1>4, <1>5, <1>6, <1>7, <1>8 DEF SocketsInv

LEMMA ServerInv ==
  ASSUME SocketsInv, ServerNext
  PROVE  SocketsInv'
<1>1. CASE Listen
  <2>1. PICK fd \in Lowest :
          table' = Opened(fd, "server")
          /\ server' = [state |-> "listening", m_Socket |-> fd]
    BY <1>1 DEF Listen
  <2>2. server.state = "none" /\ UNCHANGED <<m_Socket, connected>>
    BY <1>1 DEF Listen
  <2>3. QED
    BY <2>1, <2>2, HandedOut, OwnersAreNotObjects
<1>2. CASE ListenThrows
  <2>1. PICK fd \in Lowest : table' = Opened(fd, "nobody")
    BY <1>2 DEF ListenThrows
  <2>2. QED
    BY <1>2, <2>1, HandedOut, OwnersAreNotObjects DEF ListenThrows
<1>3. CASE DestroyServer \/ DestructServer
  <2>1. /\ server.state \in {"listening", "destroyed"}
        /\ table' = Close(table, server.m_Socket)
        /\ UNCHANGED <<m_Socket, connected>>
    BY <1>3 DEF DestroyServer, DestructServer
  <2>2. /\ server'.state # "listening"
        /\ server'.state # "gone" => server.state = "listening"
    BY <1>3 DEF DestroyServer, DestructServer, NoServer, SocketsInv, ServerType
  <2>3. QED
    <3>1. /\ DOMAIN table' = DOMAIN table \ {server.m_Socket}
          /\ \A fd \in DOMAIN table' : table'[fd] = table[fd]
      BY <2>1, Closed
    <3>2. ServerListens'
      BY <2>2 DEF ServerListens
    <3>3. ConnectionsKept'
      BY <2>1, <2>2, <3>1, OwnersAreNotObjects
         DEF SocketsInv, ConnectionsKept, ServerListens, UnconnectedHoldNothing, Alive
    <3>4. ConnectionsReachable'
      BY <2>1, <3>1 DEF SocketsInv, ConnectionsReachable
    <3>5. Alive' = Alive
      BY <2>1 DEF Alive
    <3>6. UnconnectedHoldNothing'
      BY <2>1, <3>5 DEF SocketsInv, UnconnectedHoldNothing
    <3>7. ServerType'
      BY <1>3 DEF DestroyServer, DestructServer, NoServer, SocketsInv, ServerType
    <3>8. QED
      BY <3>2, <3>3, <3>4, <3>5, <3>6, <3>7 DEF SocketsInv
<1>4. QED
  BY <1>1, <1>2, <1>3 DEF ServerNext

LEMMA ConstructsInv ==
  ASSUME SocketsInv, NEW o \in Objects, Constructs(o)
  PROVE  SocketsInv'
<1>1. PICK fd \in Lowest : table' = Opened(fd, o) /\ m_Socket' = Added(m_Socket, o, fd)
  BY DEF Constructs
<1>2. o \notin Alive /\ connected' = connected \cup {o} /\ server' = server
  BY DEF Constructs
<1>3. /\ DOMAIN table' = DOMAIN table \cup {fd}
      /\ table'[fd] = o
      /\ \A other \in DOMAIN table : table'[other] = table[other] /\ other # fd
  BY <1>1, LowestIsFree DEF Opened, Added
<1>4. /\ Alive' = Alive \cup {o}
      /\ m_Socket'[o] = fd
      /\ \A q \in Alive : m_Socket'[q] = m_Socket[q] /\ q # o
  BY <1>1, <1>2 DEF Alive, Added
<1>5. Alive' \subseteq Objects
  BY <1>4 DEF SocketsInv
<1>6. ServerType'
  BY <1>2 DEF SocketsInv, ServerType
<1>7. UnconnectedHoldNothing'
  BY <1>2, <1>4 DEF SocketsInv, UnconnectedHoldNothing
<1>8. ServerListens'
  BY <1>2, <1>3 DEF SocketsInv, ServerListens
<1>9. ConnectionsKept'
  BY <1>2, <1>3, <1>4 DEF SocketsInv, ConnectionsKept, UnconnectedHoldNothing
<1>10. ConnectionsReachable'
  <2>1. SUFFICES ASSUME NEW other \in DOMAIN table', table'[other] \in Objects
                 PROVE  table'[other] \in connected' /\ m_Socket'[table'[other]] = other
    BY DEF ConnectionsReachable
  <2>2. CASE other = fd
    BY <1>2, <1>3, <1>4, <2>2
  <2>3. CASE other \in DOMAIN table
    BY <1>2, <1>3, <1>4, <2>1, <2>3 DEF SocketsInv, ConnectionsReachable, UnconnectedHoldNothing
  <2>4. QED
    BY <1>3, <2>2, <2>3
<1>11. QED
  BY <1>5, <1>6, <1>7, <1>8, <1>9, <1>10 DEF SocketsInv

LEMMA DefaultConstructInv ==
  ASSUME SocketsInv, NEW o \in Objects, DefaultConstruct(o)
  PROVE  SocketsInv'
<1>1. o \notin Alive /\ UNCHANGED <<table, connected, server>>
  BY DEF DefaultConstruct
<1>2. /\ Alive' = Alive \cup {o}
      /\ m_Socket'[o] = 0
      /\ \A q \in Alive : m_Socket'[q] = m_Socket[q]
  BY <1>1 DEF DefaultConstruct, Alive, Added
<1>3. Alive' \subseteq Objects
  BY <1>2 DEF SocketsInv
<1>4. ServerType' /\ ServerListens'
  BY <1>1 DEF SocketsInv, ServerType, ServerListens
<1>5. UnconnectedHoldNothing'
  BY <1>1, <1>2 DEF SocketsInv, UnconnectedHoldNothing
<1>6. ConnectionsKept'
  BY <1>1, <1>2 DEF SocketsInv, ConnectionsKept, UnconnectedHoldNothing
<1>7. ConnectionsReachable'
  BY <1>1, <1>2 DEF SocketsInv, ConnectionsReachable, UnconnectedHoldNothing
<1>8. QED
  BY <1>3, <1>4, <1>5, <1>6, <1>7 DEF SocketsInv

LEMMA GrowInv ==
  ASSUME SocketsInv, SocketsGrow
  PROVE  SocketsInv'
<1>1. CASE \E o \in Objects : Accept(o) \/ ConnectToHost(o)
  BY <1>1, ConstructsInv DEF Accept, ConnectToHost
<1>2. CASE \E o \in Objects : DefaultConstruct(o)
  BY <1>2, DefaultConstructInv
<1>3. CASE ConnectThrows
  <2>1. PICK fd \in Lowest : table' = Opened(fd, "nobody")
    BY <1>3 DEF ConnectThrows
  <2>2. QED
    BY <1>3, <2>1, HandedOut, OwnersAreNotObjects DEF ConnectThrows
<1>4. QED
  BY <1>1, <1>2, <1>3 DEF SocketsGrow

\* Closing what o holds leaves every other object, and the server, with its own.
LEMMA ClosingOne ==
  ASSUME SocketsInv, NEW o \in Alive, NEW files, files = Close(table, m_Socket[o])
  PROVE  /\ \A fd \in DOMAIN files : fd \in DOMAIN table /\ files[fd] = table[fd]
         /\ \A fd \in DOMAIN files :
              files[fd] \in Objects =>
                /\ files[fd] \in connected \ {o} /\ m_Socket[files[fd]] = fd
         /\ server.state # "gone" =>
              \A q \in connected \ {o} :
                m_Socket[q] # 0 => m_Socket[q] \in DOMAIN files /\ files[m_Socket[q]] = q
         /\ server.state = "listening" /\ server.m_Socket # 0 =>
              server.m_Socket \in DOMAIN files /\ files[server.m_Socket] = "server"
<1>1. /\ DOMAIN files = DOMAIN table \ {m_Socket[o]}
      /\ \A fd \in DOMAIN files : files[fd] = table[fd]
  BY Closed
<1>2. ASSUME NEW fd \in DOMAIN files, files[fd] \in Objects
      PROVE  files[fd] \in connected \ {o} /\ m_Socket[files[fd]] = fd
  BY <1>1, <1>2 DEF SocketsInv, ConnectionsReachable
<1>3. ASSUME server.state # "gone", NEW q \in connected \ {o}, m_Socket[q] # 0
      PROVE  m_Socket[q] \in DOMAIN files /\ files[m_Socket[q]] = q
  BY <1>1, <1>3 DEF SocketsInv, ConnectionsKept, UnconnectedHoldNothing
<1>4. ASSUME server.state = "listening", server.m_Socket # 0
      PROVE  server.m_Socket \in DOMAIN files /\ files[server.m_Socket] = "server"
  BY <1>1, <1>4, OwnersAreNotObjects
     DEF SocketsInv, ServerListens, ConnectionsKept, UnconnectedHoldNothing
<1>5. QED
  BY <1>1, <1>2, <1>3, <1>4

LEMMA GivenUpInv ==
  ASSUME SocketsInv, NEW o \in Objects, Destroy(o) \/ Destruct(o)
  PROVE  SocketsInv'
<1>1. /\ o \in Alive /\ server' = server
      /\ table' = Close(table, m_Socket[o])
      /\ connected' = connected \ {o}
  BY DEF Destroy, Destruct
<1>2. /\ Alive' \subseteq Alive /\ Alive \ {o} \subseteq Alive'
      /\ \A q \in Alive \ {o} : m_Socket'[q] = m_Socket[q]
      /\ o \in Alive' => m_Socket'[o] = 0
  BY <1>1 DEF Destroy, Destruct, Restrict, Alive
<1>3. Alive' \subseteq Objects
  BY <1>2 DEF SocketsInv
<1>4. ServerType'
  BY <1>1 DEF SocketsInv, ServerType
<1>5. ServerListens'
  BY <1>1, ClosingOne DEF ServerListens
<1>6. UnconnectedHoldNothing'
  BY <1>1, <1>2 DEF SocketsInv, UnconnectedHoldNothing
<1>7. ConnectionsKept'
  <2>1. SUFFICES ASSUME server.state # "gone", NEW q \in connected \ {o}, m_Socket[q] # 0
                 PROVE  m_Socket[q] \in DOMAIN table' /\ table'[m_Socket[q]] = q
    BY <1>1, <1>2 DEF SocketsInv, ConnectionsKept, UnconnectedHoldNothing
  <2>2. QED
    BY <1>1, <2>1, ClosingOne
<1>8. ConnectionsReachable'
  <2>1. SUFFICES ASSUME NEW fd \in DOMAIN table', table'[fd] \in Objects
                 PROVE  table'[fd] \in connected \ {o} /\ m_Socket'[table'[fd]] = fd
    BY <1>1 DEF ConnectionsReachable
  <2>2. table'[fd] \in connected \ {o} /\ m_Socket[table'[fd]] = fd
    BY <1>1, <2>1, ClosingOne
  <2>3. QED
    BY <1>2, <2>2 DEF SocketsInv, UnconnectedHoldNothing
<1>9. QED
  BY <1>3, <1>4, <1>5, <1>6, <1>7, <1>8 DEF SocketsInv

LEMMA MoveAssignInv ==
  ASSUME SocketsInv, NEW o \in Objects, NEW p \in Objects, MoveAssign(o, p)
  PROVE  SocketsInv'
<1> DEFINE files == Close(table, m_Socket[o])
<1>1. o \in Alive /\ p \in Alive /\ server' = server
  BY DEF MoveAssign
<1>2. /\ DOMAIN table' = DOMAIN files
      /\ \A fd \in DOMAIN files :
           table'[fd] = IF files[fd] = p THEN o ELSE files[fd]
  BY PassedOn DEF MoveAssign
<1>3. /\ Alive' = Alive
      /\ m_Socket'[p] = 0
      /\ p # o => m_Socket'[o] = m_Socket[p]
      /\ \A q \in Alive \ {o, p} : m_Socket'[q] = m_Socket[q]
  BY <1>1 DEF MoveAssign, Alive
<1>4. /\ p \notin connected'
      /\ p # o => (o \in connected' <=> p \in connected)
      /\ \A q : q \notin {o, p} => (q \in connected' <=> q \in connected)
  BY DEF MoveAssign, MovedTo
<1>5. Alive' \subseteq Objects
  BY <1>3 DEF SocketsInv
<1>6. ServerType'
  BY <1>1 DEF SocketsInv, ServerType
<1>7. ServerListens'
  BY <1>1, <1>2, ClosingOne, OwnersAreNotObjects DEF ServerListens
<1>8. UnconnectedHoldNothing'
  BY <1>1, <1>3, <1>4 DEF SocketsInv, UnconnectedHoldNothing
<1>9. ConnectionsKept'
  <2>1. SUFFICES ASSUME server.state # "gone", NEW q \in connected', m_Socket'[q] # 0
                 PROVE  m_Socket'[q] \in DOMAIN table' /\ table'[m_Socket'[q]] = q
    BY <1>1 DEF ConnectionsKept
  <2>2. CASE q = o
    <3>1. p # o /\ p \in connected \ {o} /\ m_Socket'[q] = m_Socket[p]
      BY <1>3, <1>4, <2>2
    <3>2. m_Socket[p] \in DOMAIN files /\ files[m_Socket[p]] = p
      BY <1>1, <2>1, <3>1, ClosingOne
    <3>3. QED
      BY <1>2, <2>2, <3>1, <3>2
  <2>3. CASE q # o
    <3>1. q \notin {o, p} /\ q \in connected \ {o} /\ m_Socket'[q] = m_Socket[q]
      BY <1>3, <1>4, <2>3 DEF SocketsInv, UnconnectedHoldNothing
    <3>2. m_Socket[q] \in DOMAIN files /\ files[m_Socket[q]] = q
      BY <1>1, <2>1, <3>1, ClosingOne
    <3>3. QED
      BY <1>2, <3>1, <3>2
  <2>4. QED
    BY <2>2, <2>3
<1>10. ConnectionsReachable'
  <2>1. SUFFICES ASSUME NEW fd \in DOMAIN files, table'[fd] \in Objects
                 PROVE  table'[fd] \in connected' /\ m_Socket'[table'[fd]] = fd
    BY <1>2 DEF ConnectionsReachable
  <2>2. CASE files[fd] = p
    <3>1. p \in connected \ {o} /\ m_Socket[p] = fd
      BY <1>1, <2>2, ClosingOne
    <3>2. QED
      BY <1>2, <1>3, <1>4, <2>2, <3>1
  <2>3. CASE files[fd] # p
    <3>1. table'[fd] = files[fd]
      BY <1>2, <2>3
    <3>2. files[fd] \in connected \ {o} /\ m_Socket[files[fd]] = fd
      BY <1>1, <2>1, <3>1, ClosingOne
    <3>3. QED
      BY <1>3, <1>4, <2>3, <3>1, <3>2 DEF SocketsInv, UnconnectedHoldNothing
  <2>4. QED
    BY <2>2, <2>3
<1>11. QED
  BY <1>5, <1>6, <1>7, <1>8, <1>9, <1>10 DEF SocketsInv

LEMMA ShrinkInv ==
  ASSUME SocketsInv, NEW o \in Objects, SocketsShrink(o)
  PROVE  SocketsInv'
  BY GivenUpInv, MoveAssignInv DEF SocketsShrink

LEMMA SocketsStutter ==
  ASSUME SocketsInv, UNCHANGED socketVars
  PROVE  SocketsInv'
  BY DEF SocketsInv, socketVars, Alive, ServerType, UnconnectedHoldNothing, ServerListens,
         ConnectionsKept, ConnectionsReachable

LEMMA SocketsStep ==
  ASSUME SocketsInv, [LifetimesNext]_lifetimesVars
  PROVE  SocketsInv'
<1>1. CASE ServerNext \/ SocketsGrow
  BY <1>1, ServerInv, GrowInv
<1>2. CASE \E o \in Objects : SocketsShrink(o)
  BY <1>2, ShrinkInv
<1>3. CASE UNCHANGED socketVars
  BY <1>3, SocketsStutter
<1>4. QED
  BY <1>1, <1>2, <1>3 DEF LifetimesNext, lifetimesVars

\* Whatever is created, moved, destroyed and destructed, every open connection is
\* known to the object it belongs to and that object refers to no other file.
THEOREM ConnectionsKeptHolds == LifetimesSpec => []ConnectionsKept
<1>1. LifetimesInit => SocketsInv
  BY SocketsInitInv DEF LifetimesInit
<1>2. SocketsInv /\ [LifetimesNext]_lifetimesVars => SocketsInv'
  BY SocketsStep
<1>3. SocketsInv => ConnectionsKept
  BY DEF SocketsInv
<1>4. QED
  BY <1>1, <1>2, <1>3, PTL DEF LifetimesSpec

\* No open connection is forgotten by the objects.
THEOREM ConnectionsReachableHolds == LifetimesSpec => []ConnectionsReachable
<1>1. LifetimesInit => SocketsInv
  BY SocketsInitInv DEF LifetimesInit
<1>2. SocketsInv /\ [LifetimesNext]_lifetimesVars => SocketsInv'
  BY SocketsStep
<1>3. SocketsInv => ConnectionsReachable
  BY DEF SocketsInv
<1>4. QED
  BY <1>1, <1>2, <1>3, PTL DEF LifetimesSpec

-----------------------------------------------------------------------------
(* The OpenSSL objects.  The invariant names the three kinds of holder one   *)
(* by one and numbers what is allocated by its handshake, so that what a     *)
(* handshake allocates is nobody's yet.                                     *)

PointerTypes ==
  /\ lower \in Seq(SUBSET Objects)
  /\ tlsServer \in [ToSet(ServerKinds) -> Nat]
  /\ tlsClient \in [ToSet(ClientKinds) -> Nat]
  /\ \A s \in DOMAIN tls : tls[s] \in [ssl : Nat, meth : Nat]

Numbered == \A x \in owned : x[2] \in 1 .. Len(lower)

OwnedByOne ==
  /\ Pointed(tlsServer) \subseteq owned
  /\ Pointed(tlsClient) \subseteq owned
  /\ Pointed(tlsServer) \cap Pointed(tlsClient) = {}
  /\ \A s \in DOMAIN tls :
       /\ Pointed(tls[s]) \subseteq owned
       /\ Pointed(tls[s]) \cap Pointed(tlsServer) = {}
       /\ Pointed(tls[s]) \cap Pointed(tlsClient) = {}
  /\ \A s, t \in DOMAIN tls : s # t => Pointed(tls[s]) \cap Pointed(tls[t]) = {}

\* Handshakes that left an SSL with the server or the client object have failed.
LayersAlive ==
  /\ tlsServer["ssl"] # 0 => lower[tlsServer["ssl"]] = {}
  /\ tlsClient["ssl"] # 0 => lower[tlsClient["ssl"]] = {}
  /\ \A s \in DOMAIN tls : tls[s].ssl # 0 => lower[tls[s].ssl] \subseteq Alive

LeaksKnown ==
  \A x \in owned :
    \/ x \in overwritten \/ x \in Pointed(tlsServer) \/ x \in Pointed(tlsClient)
    \/ \E s \in DOMAIN tls : x \in Pointed(tls[s])

TLSInv == PointerTypes /\ Numbered /\ OwnedByOne /\ LayersAlive /\ LeaksKnown

LEMMA Kinds ==
  /\ Len(ServerKinds) \in Nat /\ DOMAIN ServerKinds = 1 .. Len(ServerKinds)
  /\ ToSet(ServerKinds) = {"ctx", "cert", "key", "ssl", "meth"}
  /\ Len(ClientKinds) \in Nat /\ DOMAIN ClientKinds = 1 .. Len(ClientKinds)
  /\ ToSet(ClientKinds) = {"ctx", "ssl", "meth"}
<1>1. Len(ServerKinds) = 5
  BY DEF ServerKinds
<1>2. Len(ClientKinds) = 3
  BY DEF ClientKinds
<1>3. DOMAIN ServerKinds = 1 .. 5 /\ DOMAIN ClientKinds = 1 .. 3
  BY DEF ServerKinds, ClientKinds
<1>4. 1 .. 5 = {1, 2, 3, 4, 5} /\ 1 .. 3 = {1, 2, 3}
  OBVIOUS
<1>5. ToSet(ServerKinds) = {ServerKinds[i] : i \in {1, 2, 3, 4, 5}}
  BY <1>3, <1>4 DEF ToSet
<1>6. ToSet(ServerKinds) = {"ctx", "cert", "key", "ssl", "meth"}
  BY <1>5 DEF ServerKinds
<1>7. ToSet(ClientKinds) = {ClientKinds[i] : i \in {1, 2, 3}}
  BY <1>3, <1>4 DEF ToSet
<1>8. ToSet(ClientKinds) = {"ctx", "ssl", "meth"}
  BY <1>7 DEF ClientKinds
<1>9. QED
  BY <1>1, <1>2, <1>3, <1>6, <1>8

LEMMA NullPointsNowhere ==
  ASSUME NEW kinds
  PROVE  /\ Null(kinds) \in [ToSet(kinds) -> Nat]
         /\ Pointed(Null(kinds)) = {}
  BY DEF Null, Pointed

LEMMA TLSInitInv ==
  ASSUME TLSInit
  PROVE  TLSInv
<1>1. PointerTypes
  BY NullPointsNowhere DEF TLSInit, PointerTypes
<1>2. Numbered /\ LeaksKnown
  BY DEF TLSInit, Numbered, LeaksKnown
<1>3. OwnedByOne
  BY NullPointsNowhere DEF TLSInit, OwnedByOne
<1>4. LayersAlive
  BY Kinds DEF TLSInit, LayersAlive, Null
<1>5. QED
  BY <1>1, <1>2, <1>3, <1>4 DEF TLSInv

\* The named parts are what FreedOnce and NothingElseLeaks say of all holders.
LEMMA PointersOfHolders ==
  /\ PointersOf(<<"server">>) = Pointed(tlsServer)
  /\ PointersOf(<<"client">>) = Pointed(tlsClient)
  /\ \A s \in DOMAIN tls : PointersOf(<<"session", s>>) = Pointed(tls[s])
  BY DEF PointersOf

LEMMA SSLPointer ==
  ASSUME NEW holder, NEW x \in Pointed(holder), x[1] = "ssl"
  PROVE  holder["ssl"] # 0 /\ x[2] = holder["ssl"]
  BY DEF Pointed

LEMMA FreedOnceFollows ==
  ASSUME TLSInv
  PROVE  FreedOnce
<1>1. \A h \in Holders : PointersOf(h) \subseteq owned
  BY PointersOfHolders DEF Holders, TLSInv, OwnedByOne
<1>2. ASSUME NEW h \in Holders, NEW x \in PointersOf(h), x[1] = "ssl"
      PROVE  lower[x[2]] \subseteq Alive
  <2>1. CASE h = <<"server">>
    BY <1>2, <2>1, PointersOfHolders, SSLPointer DEF TLSInv, LayersAlive
  <2>2. CASE h = <<"client">>
    BY <1>2, <2>2, PointersOfHolders, SSLPointer DEF TLSInv, LayersAlive
  <2>3. ASSUME NEW s \in DOMAIN tls, h = <<"session", s>>
        PROVE  lower[x[2]] \subseteq Alive
    <3>1. x \in Pointed(tls[s])
      BY <2>3, PointersOfHolders
    <3>2. tls[s].ssl # 0 /\ x[2] = tls[s].ssl
      BY <1>2, <3>1, SSLPointer
    <3>3. QED
      BY <3>2 DEF TLSInv, LayersAlive
  <2>4. QED
    BY <2>1, <2>2, <2>3 DEF Holders
<1>3. ASSUME NEW g \in Holders, NEW h \in Holders, g # h
      PROVE  PointersOf(g) \cap PointersOf(h) = {}
  BY <1>3, PointersOfHolders DEF Holders, TLSInv, OwnedByOne
<1>4. QED
  BY <1>1, <1>2, <1>3 DEF FreedOnce

LEMMA NothingElseLeaksFollows ==
  ASSUME TLSInv
  PROVE  NothingElseLeaks
<1>1. SUFFICES ASSUME NEW x \in owned, x \notin overwritten
               PROVE  \E h \in Holders : x \in PointersOf(h)
  BY DEF NothingElseLeaks
<1>2. QED
  BY <1>1, PointersOfHolders DEF TLSInv, LeaksKnown, Holders

-----------------------------------------------------------------------------
(* What a handshake stores.                                                 *)

LEMMA CurrentIsNew ==
  ASSUME TLSInv
  PROVE  /\ Current \in Nat \ {0}
         /\ Len(lower) \in Nat /\ Current = Len(lower) + 1
         /\ \A x \in owned : x[2] # Current
  BY DEF TLSInv, PointerTypes, Numbered, Current

LEMMA EstablishedLayers ==
  ASSUME TLSInv, NEW layers \in SUBSET Objects, Establish(layers)
  PROVE  /\ lower' \in Seq(SUBSET Objects)
         /\ Len(lower') = Current
         /\ lower'[Current] = layers
         /\ \A i \in 1 .. Len(lower) : lower'[i] = lower[i]
  BY DEF TLSInv, PointerTypes, Establish, Current

LEMMA AllocatedNumbers ==
  ASSUME NEW kinds, NEW n, NEW x \in Allocated(kinds, n)
  PROVE  x[2] = Current
  BY DEF Allocated

\* Storing over whatever the holder had: everything allocated is pointed to, and
\* so is all that was before, except what has been replaced.
LEMMA StoredPointers ==
  ASSUME TLSInv, NEW kinds, Len(kinds) \in Nat, DOMAIN kinds = 1 .. Len(kinds),
         NEW n \in 0 .. Len(kinds), NEW holder \in [ToSet(kinds) -> Nat]
  PROVE  /\ Stored(holder, kinds, n) \in [ToSet(kinds) -> Nat]
         /\ Allocated(kinds, n) \subseteq Pointed(Stored(holder, kinds, n))
         /\ Pointed(Stored(holder, kinds, n)) \subseteq Pointed(holder) \cup Allocated(kinds, n)
         /\ \A x \in Pointed(holder) :
              \/ x \in Pointed(Stored(holder, kinds, n))
              \/ \E i \in 1 .. Len(kinds) : i <= n + 1 /\ kinds[i] = x[1]
<1> DEFINE h == Stored(holder, kinds, n)
<1>1. Current \in Nat \ {0}
  BY CurrentIsNew
<1>2. DOMAIN h = ToSet(kinds) /\ DOMAIN holder = ToSet(kinds)
  BY DEF Stored
<1>3. \A i \in 1 .. n : kinds[i] \in ToSet(kinds) /\ h[kinds[i]] = Current
  BY <1>2 DEF Stored, ToSet
<1>4. \A k \in ToSet(kinds) :
        \/ h[k] = Current /\ \E i \in 1 .. n : kinds[i] = k
        \/ h[k] = 0 /\ n < Len(kinds) /\ k = kinds[n + 1]
        \/ h[k] = holder[k]
  BY <1>2 DEF Stored
<1>5. h \in [ToSet(kinds) -> Nat]
  <2>1. h = [k \in ToSet(kinds) |-> h[k]]
    BY <1>2 DEF Stored
  <2>2. \A k \in ToSet(kinds) : h[k] \in Nat
    BY <1>1, <1>4
  <2>3. QED
    BY <2>1, <2>2
<1>6. Allocated(kinds, n) \subseteq Pointed(h)
  BY <1>1, <1>2, <1>3 DEF Allocated, Pointed
<1>7. Pointed(h) \subseteq Pointed(holder) \cup Allocated(kinds, n)
  <2>1. SUFFICES ASSUME NEW k \in ToSet(kinds), h[k] # 0
                 PROVE  <<k, h[k]>> \in Pointed(holder) \cup Allocated(kinds, n)
    BY <1>2 DEF Pointed
  <2>2. QED
    BY <1>2, <1>4, <2>1 DEF Allocated, Pointed
<1>8. ASSUME NEW x \in Pointed(holder)
      PROVE  x \in Pointed(h) \/ \E i \in 1 .. Len(kinds) : i <= n + 1 /\ kinds[i] = x[1]
  <2>1. PICK k \in ToSet(kinds) : x = <<k, holder[k]>> /\ holder[k] # 0
    BY <1>2 DEF Pointed
  <2>2. CASE h[k] = holder[k]
    BY <1>2, <2>1, <2>2 DEF Pointed
  <2>3. CASE \E i \in 1 .. n : kinds[i] = k
    BY <2>1, <2>3
  <2>4. CASE n < Len(kinds) /\ k = kinds[n + 1]
    BY <2>1, <2>4
  <2>5. QED
    BY <1>4, <2>2, <2>3, <2>4
<1>9. QED
  BY <1>5, <1>6, <1>7, <1>8

\* After a successful handshake the session is the OpenSSL_TLS object's.
LEMMA GivenAway ==
  ASSUME TLSInv, NEW kinds, Len(kinds) \in Nat, DOMAIN kinds = 1 .. Len(kinds),
         {"ssl", "meth"} \subseteq ToSet(kinds),
         NEW holder \in [ToSet(kinds) -> Nat]
  PROVE  LET all == Stored(holder, kinds, Len(kinds))
             session == Session(all)
         IN
         /\ GivesAway(all) \in [ToSet(kinds) -> Nat] /\ GivesAway(all)["ssl"] = 0
         /\ session \in [ssl : Nat, meth : Nat] /\ session.ssl = Current
         /\ Pointed(GivesAway(all)) \cup Pointed(session) = Allocated(kinds, Len(kinds))
         /\ Pointed(GivesAway(all)) \cap Pointed(session) = {}
<1> DEFINE all == Stored(holder, kinds, Len(kinds))
           session == Session(all)
<1>1. Current \in Nat \ {0}
  BY CurrentIsNew
<1>2. all = [k \in ToSet(kinds) |-> Current]
  BY DEF Stored, ToSet
<1>3. GivesAway(all) = [k \in ToSet(kinds) |-> IF k \in {"ssl", "meth"} THEN 0 ELSE Current]
  BY <1>2 DEF GivesAway
<1>4. session = [ssl |-> Current, meth |-> Current]
  BY <1>2 DEF Session
<1> HIDE DEF all, session
<1>5. Pointed(GivesAway(all)) = { <<k, Current>> : k \in ToSet(kinds) \ {"ssl", "meth"} }
  BY <1>1, <1>3 DEF Pointed
<1>6. Pointed(session) = { <<k, Current>> : k \in {"ssl", "meth"} }
  BY <1>1, <1>4 DEF Pointed
<1>7. Allocated(kinds, Len(kinds)) = { <<k, Current>> : k \in ToSet(kinds) }
  BY DEF Allocated, ToSet
<1>8. QED
  BY <1>1, <1>3, <1>4, <1>5, <1>6, <1>7 DEF all, session

-----------------------------------------------------------------------------
(* The steps of the handshakes.                                             *)

\* What the layers below of the older handshakes were is what they are.
LEMMA OlderLayersAlive ==
  ASSUME TLSInv, NEW layers \in SUBSET Objects, Establish(layers), Alive' = Alive
  PROVE  /\ tlsServer["ssl"] # 0 => lower'[tlsServer["ssl"]] = {}
         /\ tlsClient["ssl"] # 0 => lower'[tlsClient["ssl"]] = {}
         /\ \A s \in DOMAIN tls : tls[s].ssl # 0 => lower'[tls[s].ssl] \subseteq Alive'
<1>1. tlsServer["ssl"] # 0 => <<"ssl", tlsServer["ssl"]>> \in Pointed(tlsServer)
  BY Kinds DEF TLSInv, PointerTypes, Pointed
<1>2. tlsClient["ssl"] # 0 => <<"ssl", tlsClient["ssl"]>> \in Pointed(tlsClient)
  BY Kinds DEF TLSInv, PointerTypes, Pointed
<1>3. \A s \in DOMAIN tls : tls[s].ssl # 0 => <<"ssl", tls[s].ssl>> \in Pointed(tls[s])
  BY DEF TLSInv, PointerTypes, Pointed
<1>4. \A n : <<"ssl", n>> \in owned => n \in 1 .. Len(lower)
  BY DEF TLSInv, Numbered
<1>5. \A i \in 1 .. Len(lower) : lower'[i] = lower[i]
  BY EstablishedLayers
<1>6. tlsServer["ssl"] # 0 => tlsServer["ssl"] \in 1 .. Len(lower)
  BY <1>1, <1>4 DEF TLSInv, OwnedByOne
<1>7. tlsClient["ssl"] # 0 => tlsClient["ssl"] \in 1 .. Len(lower)
  BY <1>2, <1>4 DEF TLSInv, OwnedByOne
<1>8. \A s \in DOMAIN tls : tls[s].ssl # 0 => tls[s].ssl \in 1 .. Len(lower)
  BY <1>3, <1>4 DEF TLSInv, OwnedByOne
<1>9. LayersAlive
  BY DEF TLSInv
<1>10. QED
  BY <1>5, <1>6, <1>7, <1>8, <1>9 DEF LayersAlive

LEMMA NumberedAfter ==
  ASSUME TLSInv, NEW layers \in SUBSET Objects, Establish(layers),
         \A x \in owned' : x \in owned \/ x[2] = Current
  PROVE  Numbered'
  BY EstablishedLayers, CurrentIsNew DEF TLSInv, Numbered

\* The server cleans up first: what it stores, it stores over nothing.
LEMMA StoredOverNothing ==
  ASSUME TLSInv, NEW n \in 0 .. Len(ServerKinds),
         NEW h, h = Stored(Null(ServerKinds), ServerKinds, n)
  PROVE  /\ h \in [ToSet(ServerKinds) -> Nat]
         /\ Pointed(h) = Allocated(ServerKinds, n)
<1>1. /\ Null(ServerKinds) \in [ToSet(ServerKinds) -> Nat]
      /\ Pointed(Null(ServerKinds)) = {}
  BY NullPointsNowhere
<1>2. /\ h \in [ToSet(ServerKinds) -> Nat]
      /\ Allocated(ServerKinds, n) \subseteq Pointed(h)
      /\ Pointed(h) \subseteq Pointed(Null(ServerKinds)) \cup Allocated(ServerKinds, n)
  BY <1>1, Kinds, StoredPointers
<1>3. QED
  BY <1>1, <1>2

LEMMA ServerHandshakeThrowsInv ==
  ASSUME TLSInv, NEW o \in Objects, ServerHandshakeThrows(o), Alive' = Alive
  PROVE  TLSInv'
<1>1. PICK n \in 0 .. Len(ServerKinds) :
        /\ tlsServer' = Stored(Null(ServerKinds), ServerKinds, n)
        /\ owned' = (owned \ Pointed(tlsServer)) \cup Allocated(ServerKinds, n)
  BY DEF ServerHandshakeThrows, Cleaned
<1>2. Establish({}) /\ UNCHANGED <<tlsClient, tls, overwritten>>
  BY DEF ServerHandshakeThrows
<1>3. /\ tlsServer' \in [ToSet(ServerKinds) -> Nat]
      /\ Pointed(tlsServer') = Allocated(ServerKinds, n)
  BY <1>1, StoredOverNothing
<1>4. \A x \in Pointed(tlsServer') : x \in owned' /\ x \notin owned /\ x[2] = Current
  BY <1>1, <1>3, AllocatedNumbers, CurrentIsNew
<1>5. PointerTypes'
  BY <1>2, <1>3, EstablishedLayers DEF TLSInv, PointerTypes
<1>6. Numbered'
  BY <1>1, <1>2, <1>3, <1>4, NumberedAfter
<1>7. OwnedByOne'
  BY <1>1, <1>2, <1>3, <1>4 DEF TLSInv, OwnedByOne
<1>8. LayersAlive'
  <2>1. tlsServer'["ssl"] # 0 => <<"ssl", tlsServer'["ssl"]>> \in Pointed(tlsServer')
    BY <1>3, Kinds DEF Pointed
  <2>2. tlsServer'["ssl"] # 0 => tlsServer'["ssl"] = Current
    BY <1>4, <2>1
  <2>3. QED
    BY <1>2, <2>2, EstablishedLayers, OlderLayersAlive DEF LayersAlive
<1>9. LeaksKnown'
  BY <1>1, <1>2, <1>3 DEF TLSInv, LeaksKnown
<1>10. QED
  BY <1>5, <1>6, <1>7, <1>8, <1>9 DEF TLSInv

LEMMA ServerHandshakeInv ==
  ASSUME TLSInv, NEW o \in Objects, NEW s, ServerHandshake(o, s), o \in Alive, Alive' = Alive
  PROVE  TLSInv'
<1> DEFINE all == Stored(Null(ServerKinds), ServerKinds, Len(ServerKinds))
           session == Session(all)
           new == Allocated(ServerKinds, Len(ServerKinds))
<1>1. /\ s \notin DOMAIN tls
      /\ tlsServer' = GivesAway(all)
      /\ tls' = Added(tls, s, session)
      /\ owned' = (owned \ Pointed(tlsServer)) \cup new
      /\ Establish({o})
      /\ UNCHANGED <<tlsClient, overwritten>>
  BY DEF ServerHandshake, Cleaned
<1>2. /\ tlsServer' \in [ToSet(ServerKinds) -> Nat] /\ tlsServer'["ssl"] = 0
      /\ session \in [ssl : Nat, meth : Nat] /\ session.ssl = Current
      /\ Pointed(tlsServer') \cup Pointed(session) = new
      /\ Pointed(tlsServer') \cap Pointed(session) = {}
  <2>1. Null(ServerKinds) \in [ToSet(ServerKinds) -> Nat]
    BY NullPointsNowhere
  <2>2. {"ssl", "meth"} \subseteq ToSet(ServerKinds)
    BY Kinds
  <2>3. QED
    BY <1>1, <2>1, <2>2, Kinds, GivenAway
<1>3. /\ DOMAIN tls' = DOMAIN tls \cup {s} /\ tls'[s] = session
      /\ \A t \in DOMAIN tls : tls'[t] = tls[t] /\ t # s
  BY <1>1 DEF Added
<1>4. \A x \in new : x \in owned' /\ x \notin owned /\ x[2] = Current
  BY <1>1, AllocatedNumbers, CurrentIsNew
<1> HIDE DEF all, session, new
<1>5. PointerTypes'
  BY <1>1, <1>2, <1>3, EstablishedLayers DEF TLSInv, PointerTypes
<1>6. Numbered'
  BY <1>1, <1>4, NumberedAfter
<1>7. OwnedByOne'
  BY <1>1, <1>2, <1>3, <1>4 DEF TLSInv, OwnedByOne
<1>8. LayersAlive'
  BY <1>1, <1>2, <1>3, EstablishedLayers, OlderLayersAlive DEF LayersAlive
<1>9. LeaksKnown'
  BY <1>1, <1>2, <1>3 DEF TLSInv, LeaksKnown
<1>10. QED
  BY <1>5, <1>6, <1>7, <1>8, <1>9 DEF TLSInv

LEMMA ClientHandshakeThrowsInv ==
  ASSUME TLSInv, NEW o \in Objects, ClientHandshakeThrows(o), Alive' = Alive
  PROVE  TLSInv'
<1>1. PICK n \in 0 .. Len(ClientKinds) :
        /\ tlsClient' = Stored(tlsClient, ClientKinds, n)
        /\ owned' = owned \cup Allocated(ClientKinds, n)
        /\ overwritten' = overwritten \cup Replaced(n)
  BY DEF ClientHandshakeThrows
<1>2. Establish({}) /\ UNCHANGED <<tlsServer, tls>>
  BY DEF ClientHandshakeThrows
<1>3. /\ tlsClient' \in [ToSet(ClientKinds) -> Nat]
      /\ Allocated(ClientKinds, n) \subseteq Pointed(tlsClient')
      /\ Pointed(tlsClient') \subseteq Pointed(tlsClient) \cup Allocated(ClientKinds, n)
      /\ \A x \in Pointed(tlsClient) : x \in Pointed(tlsClient') \/ x \in Replaced(n)
  <2>1. tlsClient \in [ToSet(ClientKinds) -> Nat]
    BY DEF TLSInv, PointerTypes
  <2>2. QED
    BY <1>1, <2>1, Kinds, StoredPointers DEF Replaced
<1>4. \A x \in Allocated(ClientKinds, n) : x \in owned' /\ x \notin owned /\ x[2] = Current
  BY <1>1, AllocatedNumbers, CurrentIsNew
<1>5. PointerTypes'
  BY <1>2, <1>3, EstablishedLayers DEF TLSInv, PointerTypes
<1>6. Numbered'
  BY <1>1, <1>2, <1>4, NumberedAfter
<1>7. OwnedByOne'
  BY <1>1, <1>2, <1>3, <1>4 DEF TLSInv, OwnedByOne
<1>8. LayersAlive'
  <2>1. tlsClient'["ssl"] # 0 => <<"ssl", tlsClient'["ssl"]>> \in Pointed(tlsClient')
    BY <1>3, Kinds DEF Pointed
  <2>2. <<"ssl", tlsClient'["ssl"]>> \in Pointed(tlsClient) =>
          tlsClient'["ssl"] = tlsClient["ssl"] /\ tlsClient["ssl"] # 0
    BY SSLPointer
  <2>3. tlsClient'["ssl"] # 0 =>
          \/ tlsClient'["ssl"] = Current
          \/ tlsClient'["ssl"] = tlsClient["ssl"] /\ tlsClient["ssl"] # 0
    BY <1>3, <1>4, <2>1, <2>2
  <2>4. QED
    BY <1>2, <2>3, EstablishedLayers, OlderLayersAlive DEF LayersAlive
<1>9. LeaksKnown'
  BY <1>1, <1>2, <1>3 DEF TLSInv, LeaksKnown
<1>10. QED
  BY <1>5, <1>6, <1>7, <1>8, <1>9 DEF TLSInv

LEMMA ClientHandshakeInv ==
  ASSUME TLSInv, NEW o \in Objects, NEW s, ClientHandshake(o, s), o \in Alive, Alive' = Alive
  PROVE  TLSInv'
<1> DEFINE all == Stored(tlsClient, ClientKinds, Len(ClientKinds))
           session == Session(all)
           new == Allocated(ClientKinds, Len(ClientKinds))
           replaced == Replaced(Len(ClientKinds))
<1>1. /\ s \notin DOMAIN tls
      /\ tlsClient' = GivesAway(all)
      /\ tls' = Added(tls, s, session)
      /\ owned' = owned \cup new
      /\ overwritten' = overwritten \cup replaced
      /\ tlsServer' = tlsServer
  BY DEF ClientHandshake
<1>2. PICK layers \in {{o}, {}} : Establish(layers)
  BY DEF ClientHandshake
<1>3. tlsClient \in [ToSet(ClientKinds) -> Nat]
  BY DEF TLSInv, PointerTypes
<1>4. /\ tlsClient' \in [ToSet(ClientKinds) -> Nat] /\ tlsClient'["ssl"] = 0
      /\ session \in [ssl : Nat, meth : Nat] /\ session.ssl = Current
      /\ Pointed(tlsClient') \cup Pointed(session) = new
      /\ Pointed(tlsClient') \cap Pointed(session) = {}
  <2>1. {"ssl", "meth"} \subseteq ToSet(ClientKinds)
    BY Kinds
  <2>2. QED
    BY <1>1, <1>3, <2>1, Kinds, GivenAway
<1>5. Pointed(tlsClient) \subseteq replaced
  <2>1. SUFFICES ASSUME NEW k \in ToSet(ClientKinds), tlsClient[k] # 0
                 PROVE  <<k, tlsClient[k]>> \in replaced
    BY <1>3 DEF Pointed
  <2>2. PICK i \in 1 .. Len(ClientKinds) : ClientKinds[i] = k
    BY Kinds DEF ToSet
  <2>3. <<k, tlsClient[k]>> \in Pointed(tlsClient)
    BY <1>3, <2>1 DEF Pointed
  <2>4. i <= Len(ClientKinds) + 1 /\ ClientKinds[i] = <<k, tlsClient[k]>>[1]
    BY <2>2, Kinds
  <2>5. QED
    BY <2>3, <2>4 DEF Replaced
<1>6. /\ DOMAIN tls' = DOMAIN tls \cup {s} /\ tls'[s] = session
      /\ \A t \in DOMAIN tls : tls'[t] = tls[t] /\ t # s
  BY <1>1 DEF Added
<1>7. \A x \in new : x \in owned' /\ x \notin owned /\ x[2] = Current
  BY <1>1, AllocatedNumbers, CurrentIsNew
<1> HIDE DEF all, session, new, replaced
<1>8. PointerTypes'
  BY <1>1, <1>2, <1>4, <1>6, EstablishedLayers DEF TLSInv, PointerTypes
<1>9. Numbered'
  BY <1>1, <1>2, <1>7, NumberedAfter
<1>10. OwnedByOne'
  BY <1>1, <1>4, <1>6, <1>7 DEF TLSInv, OwnedByOne
<1>11. LayersAlive'
  BY <1>1, <1>2, <1>4, <1>6, EstablishedLayers, OlderLayersAlive DEF LayersAlive
<1>12. LeaksKnown'
  BY <1>1, <1>4, <1>5, <1>6 DEF TLSInv, LeaksKnown
<1>13. QED
  BY <1>8, <1>9, <1>10, <1>11, <1>12 DEF TLSInv

-----------------------------------------------------------------------------
(* The other steps.                                                         *)

LEMMA DestructTLSInv ==
  ASSUME TLSInv, DestructTLSServer \/ DestructTLSClient, Alive' = Alive
  PROVE  TLSInv'
<1>1. CASE DestructTLSServer
  <2>1. /\ owned' = owned \ Pointed(tlsServer)
        /\ tlsServer' = Null(ServerKinds)
        /\ UNCHANGED <<lower, tlsClient, tls, overwritten>>
    BY <1>1 DEF DestructTLSServer, Cleaned
  <2>2. /\ tlsServer' \in [ToSet(ServerKinds) -> Nat] /\ Pointed(tlsServer') = {}
        /\ tlsServer'["ssl"] = 0
    BY <2>1, NullPointsNowhere, Kinds DEF Null
  <2>3. PointerTypes' /\ Numbered'
    BY <2>1, <2>2 DEF TLSInv, PointerTypes, Numbered
  <2>4. OwnedByOne' /\ LeaksKnown'
    BY <2>1, <2>2 DEF TLSInv, OwnedByOne, LeaksKnown
  <2>5. LayersAlive'
    BY <2>1, <2>2 DEF TLSInv, LayersAlive
  <2>6. QED
    BY <2>3, <2>4, <2>5 DEF TLSInv
<1>2. CASE DestructTLSClient
  <2>1. /\ owned' = owned \ Pointed(tlsClient)
        /\ tlsClient' = Null(ClientKinds)
        /\ UNCHANGED <<lower, tlsServer, tls, overwritten>>
    BY <1>2 DEF DestructTLSClient, Cleaned
  <2>2. /\ tlsClient' \in [ToSet(ClientKinds) -> Nat] /\ Pointed(tlsClient') = {}
        /\ tlsClient'["ssl"] = 0
    BY <2>1, NullPointsNowhere, Kinds DEF Null
  <2>3. PointerTypes' /\ Numbered'
    BY <2>1, <2>2 DEF TLSInv, PointerTypes, Numbered
  <2>4. OwnedByOne' /\ LeaksKnown'
    BY <2>1, <2>2 DEF TLSInv, OwnedByOne, LeaksKnown
  <2>5. LayersAlive'
    BY <2>1, <2>2 DEF TLSInv, LayersAlive
  <2>6. QED
    BY <2>3, <2>4, <2>5 DEF TLSInv
<1>3. QED
  BY <1>1, <1>2

LEMMA EmptySession ==
  /\ [ssl |-> 0, meth |-> 0] \in [ssl : Nat, meth : Nat]
  /\ Pointed([ssl |-> 0, meth |-> 0]) = {}
  BY DEF Pointed

\* Destroyed by hand the session stays, with null pointers.
LEMMA SessionGoneInv ==
  ASSUME TLSInv, NEW s \in DOMAIN tls, DestroySession(s) \/ DestructSession(s), Alive' = Alive
  PROVE  TLSInv'
<1>1. /\ owned' = owned \ Pointed(tls[s])
      /\ UNCHANGED <<lower, tlsServer, tlsClient, overwritten>>
  BY DEF DestroySession, DestructSession, Cleaned
<1>2. /\ DOMAIN tls \ {s} \subseteq DOMAIN tls' /\ DOMAIN tls' \subseteq DOMAIN tls
      /\ \A t \in DOMAIN tls \ {s} : tls'[t] = tls[t]
      /\ s \in DOMAIN tls' => tls'[s] = [ssl |-> 0, meth |-> 0]
  BY DEF DestroySession, DestructSession, Restrict
<1>3. s \in DOMAIN tls' =>
        tls'[s] \in [ssl : Nat, meth : Nat] /\ Pointed(tls'[s]) = {} /\ tls'[s].ssl = 0
  BY <1>2, EmptySession
<1>4. PointerTypes'
  BY <1>1, <1>2, <1>3 DEF TLSInv, PointerTypes
<1>5. Numbered'
  BY <1>1 DEF TLSInv, Numbered
<1>6. OwnedByOne'
  BY <1>1, <1>2, <1>3 DEF TLSInv, OwnedByOne
<1>7. LayersAlive'
  BY <1>1, <1>2, <1>3 DEF TLSInv, LayersAlive
<1>8. LeaksKnown'
  BY <1>1, <1>2 DEF TLSInv, LeaksKnown
<1>9. QED
  BY <1>4, <1>5, <1>6, <1>7, <1>8 DEF TLSInv

LEMMA MoveSessionInv ==
  ASSUME TLSInv, NEW s, NEW t, MoveSession(s, t), Alive' = Alive
  PROVE  TLSInv'
<1>1. /\ s \in DOMAIN tls /\ t \in DOMAIN tls
      /\ overwritten' = overwritten \cup Pointed(tls[s])
      /\ UNCHANGED <<lower, owned, tlsServer, tlsClient>>
  BY DEF MoveSession
<1>2. /\ DOMAIN tls' = DOMAIN tls
      /\ tls'[t] = [ssl |-> 0, meth |-> 0]
      /\ s # t => tls'[s] = tls[t]
      /\ \A u \in DOMAIN tls \ {s, t} : tls'[u] = tls[u]
  BY <1>1 DEF MoveSession
<1>3. tls'[t] \in [ssl : Nat, meth : Nat] /\ Pointed(tls'[t]) = {} /\ tls'[t].ssl = 0
  BY <1>2, EmptySession
<1>4. PointerTypes'
  BY <1>1, <1>2, <1>3 DEF TLSInv, PointerTypes
<1>5. Numbered'
  BY <1>1 DEF TLSInv, Numbered
<1>6. OwnedByOne'
  BY <1>1, <1>2, <1>3 DEF TLSInv, OwnedByOne
<1>7. LayersAlive'
  BY <1>1, <1>2, <1>3 DEF TLSInv, LayersAlive
<1>8. LeaksKnown'
  BY <1>1, <1>2 DEF TLSInv, LeaksKnown
<1>9. QED
  BY <1>4, <1>5, <1>6, <1>7, <1>8 DEF TLSInv

LEMMA TLSNextInv ==
  ASSUME SocketsInv, TLSInv, TLSNext, UNCHANGED socketVars
  PROVE  TLSInv'
<1>1. Alive' = Alive
  BY DEF socketVars, Alive
<1>2. ASSUME NEW o \in Objects, ServerHandshakeThrows(o) \/ ClientHandshakeThrows(o)
      PROVE  TLSInv'
  BY <1>1, <1>2, ServerHandshakeThrowsInv, ClientHandshakeThrowsInv
<1>3. ASSUME NEW o \in Objects, NEW s \in Sessions, ServerHandshake(o, s) \/ ClientHandshake(o, s)
      PROVE  TLSInv'
  <2>1. o \in Alive
    BY <1>3 DEF ServerHandshake, ClientHandshake, SocketsInv, UnconnectedHoldNothing
  <2>2. QED
    BY <1>1, <1>3, <2>1, ServerHandshakeInv, ClientHandshakeInv
<1>4. CASE DestructTLSServer \/ DestructTLSClient
  BY <1>1, <1>4, DestructTLSInv
<1>5. ASSUME NEW s \in Sessions, DestroySession(s) \/ DestructSession(s)
      PROVE  TLSInv'
  <2>1. s \in DOMAIN tls
    BY <1>5 DEF DestroySession, DestructSession
  <2>2. QED
    BY <1>1, <1>5, <2>1, SessionGoneInv
<1>6. ASSUME NEW s \in Sessions, NEW t \in Sessions, MoveSession(s, t)
      PROVE  TLSInv'
  BY <1>1, <1>6, MoveSessionInv
<1>7. QED
  BY <1>2, <1>3, <1>4, <1>5, <1>6 DEF TLSNext

\* Sockets come and go below: an object that a session needs is not destructed.
LEMMA SocketsKeepTLSInv ==
  ASSUME TLSInv, UNCHANGED tlsVars,
         \A o \in Alive : o \in Alive' \/ ~InUse(o)
  PROVE  TLSInv'
<1>1. PointerTypes' /\ Numbered' /\ OwnedByOne' /\ LeaksKnown'
  BY DEF tlsVars, TLSInv, PointerTypes, Numbered, OwnedByOne, LeaksKnown
<1>2. LayersAlive'
  <2>1. UNCHANGED <<lower, tlsServer, tlsClient, tls>> /\ LayersAlive
    BY DEF tlsVars, TLSInv
  <2>2. ASSUME NEW s \in DOMAIN tls, tls[s].ssl # 0, NEW o \in lower[tls[s].ssl]
        PROVE  o \in Alive'
    <3>1. o \in Alive
      BY <2>1, <2>2 DEF LayersAlive
    <3>2. InUse(o)
      BY <2>2 DEF InUse, Below
    <3>3. QED
      BY <3>1, <3>2
  <2>3. QED
    BY <2>1, <2>2 DEF LayersAlive
<1>3. QED
  BY <1>1, <1>2 DEF TLSInv

LEMMA AliveAfterShrink ==
  ASSUME NEW o \in Objects, SocketsShrink(o)
  PROVE  Alive \ {o} \subseteq Alive'
  BY DEF SocketsShrink, Destroy, Destruct, MoveAssign, Alive, Restrict

LEMMA AliveAfterGrowth ==
  ASSUME ServerNext \/ SocketsGrow
  PROVE  Alive \subseteq Alive'
<1>1. CASE ServerNext
  BY <1>1 DEF ServerNext, Listen, ListenThrows, DestroyServer, DestructServer, Alive
<1>2. CASE ConnectThrows
  BY <1>2 DEF ConnectThrows, Alive
<1>3. ASSUME NEW o \in Objects, Accept(o) \/ ConnectToHost(o) \/ DefaultConstruct(o)
      PROVE  Alive \subseteq Alive'
  BY <1>3 DEF Accept, ConnectToHost, Constructs, DefaultConstruct, Alive, Added
<1>4. QED
  BY <1>1, <1>2, <1>3 DEF SocketsGrow

LEMMA TLSStep ==
  ASSUME SocketsInv, TLSInv, [LifetimesNext]_lifetimesVars
  PROVE  TLSInv'
<1>1. CASE (ServerNext \/ SocketsGrow) /\ UNCHANGED tlsVars
  BY <1>1, AliveAfterGrowth, SocketsKeepTLSInv
<1>2. ASSUME NEW o \in Objects, ~InUse(o), SocketsShrink(o), UNCHANGED tlsVars
      PROVE  TLSInv'
  BY <1>2, AliveAfterShrink, SocketsKeepTLSInv
<1>3. CASE TLSNext /\ UNCHANGED socketVars
  BY <1>3, TLSNextInv
<1>4. CASE UNCHANGED lifetimesVars
  <2>1. Alive' = Alive /\ UNCHANGED tlsVars
    BY <1>4 DEF lifetimesVars, socketVars, Alive
  <2>2. QED
    BY <2>1, SocketsKeepTLSInv
<1>5. QED
  BY <1>1, <1>2, <1>3, <1>4 DEF LifetimesNext

LEMMA LifetimesInvariant == LifetimesSpec => [](SocketsInv /\ TLSInv)
<1>1. LifetimesInit => SocketsInv /\ TLSInv
  BY SocketsInitInv, TLSInitInv DEF LifetimesInit
<1>2. SocketsInv /\ TLSInv /\ [LifetimesNext]_lifetimesVars => (SocketsInv /\ TLSInv)'
  BY SocketsStep, TLSStep
<1>3. QED
  BY <1>1, <1>2, PTL DEF LifetimesSpec

\* However handshakes fail and repeat, and whatever is moved and destructed when:
\* every OpenSSL object that a pointer refers to exists and has one holder, and
\* the TCPNetwork below an established session is alive.
THEOREM FreedOnceHolds == LifetimesSpec => []FreedOnce
  BY LifetimesInvariant, FreedOnceFollows, PTL

\* What no pointer refers to any more and is not freed was assigned over, by the
\* client's next handshake or by a move into a session that was one.
THEOREM NothingElseLeaksHolds == LifetimesSpec => []NothingElseLeaks
  BY LifetimesInvariant, NothingElseLeaksFollows, PTL

-----------------------------------------------------------------------------
(* The elements that DataLayers carries.                                    *)

ByteElements == { <<"byte", b>> : b \in Nat }
HeaderElements == { <<"header", h[1], h[2]>> : h \in Nat \X (Nat \ {0}) }
Element == ByteElements \cup HeaderElements

LEMMA Elements ==
  /\ \A b \in Nat : <<"byte", b>> \in Element
  /\ \A f \in Nat : \A n \in Nat \ {0} : <<"header", f, n>> \in Element
  /\ \A e \in Element :
       e[1] = "header" => /\ e[2] \in Nat /\ e[3] \in Nat \ {0}
                          /\ e = <<"header", e[2], e[3]>>
<1>1. \A b \in Nat : <<"byte", b>> \in Element
  BY DEF Element, ByteElements
<1>2. ASSUME NEW f \in Nat, NEW n \in Nat \ {0}
      PROVE  <<"header", f, n>> \in Element
  <2>1. <<f, n>> \in Nat \X (Nat \ {0}) /\ <<f, n>>[1] = f /\ <<f, n>>[2] = n
    OBVIOUS
  <2>2. <<"header", f, n>> \in HeaderElements
    BY <2>1 DEF HeaderElements
  <2> QED
    BY <2>2 DEF Element
<1>3. ASSUME NEW e \in Element, e[1] = "header"
      PROVE  e[2] \in Nat /\ e[3] \in Nat \ {0} /\ e = <<"header", e[2], e[3]>>
  <2>1. e \in HeaderElements
    BY <1>3 DEF Element, ByteElements
  <2>2. PICK h \in Nat \X (Nat \ {0}) : e = <<"header", h[1], h[2]>>
    BY <2>1 DEF HeaderElements
  <2>3. h[1] \in Nat /\ h[2] \in Nat \ {0}
    OBVIOUS
  <2> QED
    BY <2>2, <2>3
<1> QED
  BY <1>1, <1>2, <1>3

-----------------------------------------------------------------------------
(* Sequences of elements.                                                   *)

LEMMA Joined ==
  ASSUME NEW s \in Seq(Element), NEW t \in Seq(Element)
  PROVE  /\ s \o t \in Seq(Element) /\ Len(s \o t) = Len(s) + Len(t)
         /\ \A i \in 1 .. Len(s) : (s \o t)[i] = s[i]
         /\ \A i \in 1 .. Len(t) : (s \o t)[Len(s) + i] = t[i]
  OBVIOUS

LEMMA Cut ==
  ASSUME NEW s \in Seq(Element), NEW k \in 0 .. Len(s)
  PROVE  /\ SubSeq(s, 1, k) \in Seq(Element) /\ Len(SubSeq(s, 1, k)) = k
         /\ \A i \in 1 .. k : SubSeq(s, 1, k)[i] = s[i]
         /\ SubSeq(s, k + 1, Len(s)) \in Seq(Element) /\ Len(SubSeq(s, k + 1, Len(s))) = Len(s) - k
         /\ \A i \in 1 .. Len(s) - k : SubSeq(s, k + 1, Len(s))[i] = s[k + i]
  OBVIOUS

LEMMA Same ==
  ASSUME NEW s \in Seq(Element), NEW t \in Seq(Element), Len(s) = Len(t),
         \A i \in 1 .. Len(s) : s[i] = t[i]
  PROVE  s = t
  OBVIOUS

\* s holds the bytes from the one numbered f on.
RunOf(s, f) == \A i \in 1 .. Len(s) : s[i] = <<"byte", f + i - 1>>

LEMMA BytesShape ==
  ASSUME NEW f \in Nat, NEW n \in Nat
  PROVE  Bytes(f, n) \in Seq(Element) /\ Len(Bytes(f, n)) = n /\ RunOf(Bytes(f, n), f)
<1>1. \A i \in 1 .. n : f + i - 1 \in Nat
  OBVIOUS
<1>2. \A i \in 1 .. n : <<"byte", f + i - 1>> \in Element
  BY <1>1, Elements
<1>3. Bytes(f, n) \in [1 .. n -> Element]
  BY <1>2 DEF Bytes
<1>4. Bytes(f, n) \in Seq(Element) /\ Len(Bytes(f, n)) = n
  BY <1>3
<1> QED
  BY <1>4 DEF Bytes, RunOf

LEMMA AreBytes ==
  ASSUME NEW f \in Nat, NEW s \in Seq(Element), RunOf(s, f)
  PROVE  s = Bytes(f, Len(s))
<1> DEFINE n == Len(s)
           t == Bytes(f, n)
<1>1. n \in Nat
  OBVIOUS
<1> HIDE DEF n
<1>2. t \in Seq(Element) /\ Len(t) = n /\ RunOf(t, f)
  BY <1>1, BytesShape
<1> HIDE DEF t
<1>3. \A i \in 1 .. Len(s) : s[i] = t[i]
  BY <1>2 DEF RunOf, n
<1>4. s = t
  BY <1>2, <1>3, Same DEF n
<1> QED
  BY <1>4 DEF t, n

LEMMA BytesJoined ==
  ASSUME NEW f \in Nat, NEW n \in Nat, NEW m \in Nat
  PROVE  Bytes(f, n) \o Bytes(f + n, m) = Bytes(f, n + m)
<1> DEFINE s == Bytes(f, n)
           g == f + n
           t == Bytes(g, m)
<1>1. s \in Seq(Element) /\ Len(s) = n /\ RunOf(s, f)
  BY BytesShape
<1>2. g \in Nat
  OBVIOUS
<1> HIDE DEF g
<1>3. t \in Seq(Element) /\ Len(t) = m /\ RunOf(t, g)
  BY <1>2, BytesShape
<1> HIDE DEF s, t
<1>4. /\ s \o t \in Seq(Element) /\ Len(s \o t) = n + m
      /\ \A i \in 1 .. n : (s \o t)[i] = s[i]
      /\ \A i \in 1 .. m : (s \o t)[n + i] = t[i]
  BY <1>1, <1>3, Joined
<1>5. ASSUME NEW i \in 1 .. n + m
      PROVE  (s \o t)[i] = <<"byte", f + i - 1>>
  <2>1. CASE i <= n
    <3>1. i \in 1 .. n
      BY <2>1
    <3> QED
      BY <3>1, <1>1, <1>4 DEF RunOf
  <2>2. CASE i > n
    <3> DEFINE k == i - n
    <3>1. k \in 1 .. m /\ n + k = i /\ g + k - 1 = f + i - 1
      BY <2>2 DEF g
    <3> HIDE DEF k
    <3>2. (s \o t)[n + k] = t[k] /\ t[k] = <<"byte", g + k - 1>>
      BY <3>1, <1>3, <1>4 DEF RunOf
    <3> QED
      BY <3>1, <3>2
  <2>3. i <= n \/ i > n
    OBVIOUS
  <2> QED
    BY <2>1, <2>2, <2>3
<1>6. RunOf(s \o t, f)
  BY <1>4, <1>5 DEF RunOf
<1>7. s \o t = Bytes(f, Len(s \o t))
  BY <1>4, <1>6, AreBytes
<1> QED
  BY <1>4, <1>7 DEF s, t, g

LEMMA BytesCut ==
  ASSUME NEW f \in Nat, NEW n \in Nat, NEW k \in 0 .. n
  PROVE  /\ SubSeq(Bytes(f, n), 1, k) = Bytes(f, k)
         /\ SubSeq(Bytes(f, n), k + 1, n) = Bytes(f + k, n - k)
<1> DEFINE s == Bytes(f, n)
           front == SubSeq(s, 1, k)
           back == SubSeq(s, k + 1, n)
           g == f + k
<1>1. s \in Seq(Element) /\ Len(s) = n /\ RunOf(s, f)
  BY BytesShape
<1> HIDE DEF s
<1>2. /\ front \in Seq(Element) /\ Len(front) = k
      /\ \A i \in 1 .. k : front[i] = s[i]
      /\ back \in Seq(Element) /\ Len(back) = n - k
      /\ \A i \in 1 .. n - k : back[i] = s[k + i]
  BY <1>1, Cut
<1> HIDE DEF front, back
<1>3. RunOf(front, f)
  BY <1>1, <1>2 DEF RunOf
<1>4. front = Bytes(f, Len(front))
  BY <1>2, <1>3, AreBytes
<1>5. g \in Nat /\ \A i \in 1 .. n - k : k + i \in 1 .. n /\ f + (k + i) - 1 = g + i - 1
  OBVIOUS
<1> HIDE DEF g
<1>6. RunOf(back, g)
  BY <1>1, <1>2, <1>5 DEF RunOf
<1>7. back = Bytes(g, Len(back))
  BY <1>2, <1>5, <1>6, AreBytes
<1> QED
  BY <1>2, <1>4, <1>7 DEF s, front, back, g

LEMMA NothingPadded ==
  ASSUME NEW s \in Seq(Element)
  PROVE  Padded(s, Len(s)) = s
  BY DEF Padded

-----------------------------------------------------------------------------
(* What holds in every state.                                               *)

SenderType ==
  /\ sender \in [state : {"idle", "sending", "failed"}, writes : Seq(Seq(Element)),
                 begun : BOOLEAN]
  /\ \A j \in 1 .. Len(sender.writes) : sender.writes[j] # << >>
  /\ sender.state = "sending" => sender.writes # << >>
  /\ layer = "TCP" /\ sender.state = "sending" => Len(sender.writes) = 1

ReceiverType ==
  /\ receiver \in [state : {"idle", "data", "header", "body", "failed"}, asked : Nat,
                   need : Nat, got : Seq(Element)]
  /\ layer = "TCP" => receiver.state \in {"idle", "data", "failed"}
  /\ layer = "TLS" => receiver.state \in {"idle", "header", "body", "failed"}
  /\ InTCP => Len(receiver.got) < receiver.need
  /\ receiver.state = "header" => receiver.need = 1

TransportType ==
  /\ layer \in {"TCP", "TLS"} /\ link \in {"up", "closed", "reset"} /\ signals \in Nat
  /\ given \in Nat /\ recordEnds \in SUBSET Nat /\ opened \in Nat /\ cut \in BOOLEAN
  /\ kernel \in Seq(Element) /\ plain \in Seq(Element) /\ delivered \in Seq(Element)

-----------------------------------------------------------------------------
(* The line of elements between the two ends.                               *)

\* What the sockets hold, and the rest of the write in progress.
LineOf(k, s) == IF s.state = "sending" THEN k \o s.writes[1] ELSE k
Line == LineOf(kernel, sender)

\* The bytes that the reader has taken out of it, over TCP.
Taken ==
  IF receiver.state = "data" THEN Len(delivered) + Len(receiver.got) ELSE Len(delivered)

Unbroken ==
  layer = "TCP" /\ ~cut =>
    /\ delivered = Bytes(1, Len(delivered))
    /\ receiver.state # "failed" =>
         /\ receiver.state = "data" =>
               receiver.got = Bytes(Len(delivered) + 1, Len(receiver.got))
         /\ kernel = Bytes(Taken + 1, Len(kernel))
         /\ link = "up" /\ sender.state # "failed" =>
               given >= Taken /\ Line = Bytes(Taken + 1, given - Taken)

\* What OpenSSL has opened is what was given, whatever the layer below did to it.
Decrypted ==
  layer = "TLS" =>
    /\ delivered = Bytes(1, Len(delivered))
    /\ receiver.state # "failed" =>
         /\ opened >= Len(delivered)
         /\ plain = Bytes(Len(delivered) + 1, opened - Len(delivered))
    /\ receiver.state \in {"header", "body"} => opened = Len(delivered)

\* The first byte of the record that is the j-th write, or of the data still to be given.
FirstOf(s, j, total) == IF j <= Len(s.writes) THEN s.writes[j][1][2] ELSE total + 1

\* The byte that follows the line.
ComingOf(s, total) == IF s.state = "sending" THEN FirstOf(s, 2, total) ELSE total + 1
Coming == ComingOf(sender, given)

IsRecord(w, ends) ==
  /\ w[1][2] \in Nat \ {0} /\ w[1][3] \in Nat \ {0} /\ w = Record(w[1][2], w[1][3])
  /\ w[1][2] + w[1][3] - 1 \in ends

\* The writes that have not begun are records, each the one after the one before.
PendingOf(s, total, ends) ==
  s.state = "sending" =>
    \A j \in 2 .. Len(s.writes) :
      /\ IsRecord(s.writes[j], ends)
      /\ FirstOf(s, j + 1, total) = s.writes[j][1][2] + s.writes[j][1][3]

\* Behind the i-th place of the line comes the header for the byte f, or f is what comes.
Boundary(line, i, f, coming) ==
  IF i < Len(line) THEN line[i + 1][1] = "header" /\ line[i + 1][2] = f ELSE coming = f

\* Behind the i-th place of the line, which may have been taken out of it together with
\* some of the bytes, come the n bytes of a record that begins with byte f.
RecordAt(line, i, f, n, coming, ends) ==
  /\ i + n <= Len(line) /\ f + n - 1 \in ends
  /\ \A k \in 1 .. n : i + k >= 1 => line[i + k] = <<"byte", f + k - 1>>
  /\ Boundary(line, i + n, f + n, coming)

Orderly(line, coming, ends) ==
  \A i \in 1 .. Len(line) :
    line[i][1] = "header" => RecordAt(line, i, line[i][2], line[i][3], coming, ends)

\* Where the reader is in the line.
Reads(r, line, from, coming, ends) ==
  /\ Orderly(line, coming, ends)
  /\ r.state = "body" => /\ r.got = Bytes(from + 1, Len(r.got))
                         /\ RecordAt(line, 0 - Len(r.got), from + 1, r.need, coming, ends)
  /\ r.state # "body" => Boundary(line, 0, from + 1, coming)

Undisturbed == layer = "TLS" /\ link = "up" /\ signals = 0

Stream ==
  Undisturbed =>
    /\ sender.state # "failed" /\ PendingOf(sender, given, recordEnds)
    /\ receiver.state # "failed" =>
         /\ Reads(receiver, Line, opened, Coming, recordEnds)
         /\ plain # << >> => opened \in recordEnds

TransportInv ==
  /\ TransportType /\ SenderType /\ ReceiverType
  /\ Unbroken /\ Decrypted /\ Stream /\ FailuresExplained

-----------------------------------------------------------------------------
(* What becomes of the line.                                                *)

\* Elements that are taken out of the front of the line leave the rest as it was.
LEMMA BoundaryConsumed ==
  ASSUME NEW line \in Seq(Element), NEW k \in 0 .. Len(line), NEW i \in Nat, i >= k,
         NEW f, NEW coming, Boundary(line, i, f, coming)
  PROVE  Boundary(SubSeq(line, k + 1, Len(line)), i - k, f, coming)
<1> DEFINE rest == SubSeq(line, k + 1, Len(line))
<1>1. rest \in Seq(Element) /\ Len(rest) = Len(line) - k
      /\ \A m \in 1 .. Len(line) - k : rest[m] = line[k + m]
  BY Cut
<1> HIDE DEF rest
<1>2. CASE i < Len(line)
  <2>1. (i - k) + 1 \in 1 .. Len(line) - k /\ k + ((i - k) + 1) = i + 1
    BY <1>2
  <2>2. rest[(i - k) + 1] = line[i + 1]
    BY <2>1, <1>1
  <2>3. i - k < Len(rest)
    BY <1>1, <1>2
  <2> QED
    BY <2>2, <2>3, <1>2 DEF Boundary, rest
<1>3. CASE ~(i < Len(line))
  <2>1. ~(i - k < Len(rest))
    BY <1>1, <1>3
  <2> QED
    BY <2>1, <1>3 DEF Boundary, rest
<1> QED
  BY <1>2, <1>3

LEMMA RecordConsumed ==
  ASSUME NEW line \in Seq(Element), NEW k \in 0 .. Len(line), NEW i \in Int, NEW n \in Nat,
         NEW f, NEW coming, NEW ends, i + n >= k, RecordAt(line, i, f, n, coming, ends)
  PROVE  RecordAt(SubSeq(line, k + 1, Len(line)), i - k, f, n, coming, ends)
<1> DEFINE rest == SubSeq(line, k + 1, Len(line))
<1>1. rest \in Seq(Element) /\ Len(rest) = Len(line) - k
      /\ \A m \in 1 .. Len(line) - k : rest[m] = line[k + m]
  BY Cut
<1>2. /\ i + n <= Len(line) /\ f + n - 1 \in ends
      /\ \A m \in 1 .. n : i + m >= 1 => line[i + m] = <<"byte", f + m - 1>>
      /\ Boundary(line, i + n, f + n, coming)
  BY DEF RecordAt
<1>3. i + n \in Nat /\ (i + n) - k = (i - k) + n
  OBVIOUS
<1> DEFINE next == f + n
<1> HIDE DEF next
<1>4. Boundary(rest, (i + n) - k, next, coming)
  BY <1>2, <1>3, BoundaryConsumed DEF next
<1> HIDE DEF rest
<1>5. ASSUME NEW m \in 1 .. n, (i - k) + m >= 1
      PROVE  rest[(i - k) + m] = <<"byte", f + m - 1>>
  <2>1. Len(line) \in Int /\ k \in Int /\ k >= 0 /\ m \in Int /\ m <= n
    OBVIOUS
  <2>2. i + n <= Len(line) /\ (i - k) + m >= 1 /\ i \in Int /\ n \in Int
    BY <1>2, <1>5
  <2>3. (i - k) + m \in 1 .. Len(line) - k /\ k + ((i - k) + m) = i + m /\ i + m >= 1
    BY ONLY <2>1, <2>2
  <2> QED
    BY <2>3, <1>1, <1>2
<1>6. (i - k) + n <= Len(rest)
  BY <1>1, <1>2
<1> QED
  BY <1>2, <1>3, <1>4, <1>5, <1>6 DEF RecordAt, rest, next

LEMMA OrderlyConsumed ==
  ASSUME NEW line \in Seq(Element), NEW k \in 0 .. Len(line), NEW coming, NEW ends,
         Orderly(line, coming, ends)
  PROVE  Orderly(SubSeq(line, k + 1, Len(line)), coming, ends)
<1> DEFINE rest == SubSeq(line, k + 1, Len(line))
<1>1. rest \in Seq(Element) /\ Len(rest) = Len(line) - k
      /\ \A m \in 1 .. Len(line) - k : rest[m] = line[k + m]
  BY Cut
<1> SUFFICES ASSUME NEW i \in 1 .. Len(rest), rest[i][1] = "header"
             PROVE  RecordAt(rest, i, rest[i][2], rest[i][3], coming, ends)
  BY DEF Orderly
<1> DEFINE j == k + i
<1>2. j \in 1 .. Len(line) /\ rest[i] = line[j] /\ line[j] \in Element /\ j - k = i
  BY <1>1
<1> HIDE DEF j
<1>3. RecordAt(line, j, line[j][2], line[j][3], coming, ends)
  BY <1>2 DEF Orderly
<1>4. line[j][3] \in Nat
  BY <1>2, Elements
<1>5. RecordAt(rest, j - k, line[j][2], line[j][3], coming, ends)
  BY <1>2, <1>3, <1>4, RecordConsumed
<1> QED
  BY <1>2, <1>5

LEMMA RecordShape ==
  ASSUME NEW f \in Nat, NEW n \in Nat \ {0}
  PROVE  /\ Record(f, n) \in Seq(Element) /\ Len(Record(f, n)) = n + 1
         /\ Record(f, n)[1] = <<"header", f, n>>
         /\ \A k \in 1 .. n : Record(f, n)[k + 1] = <<"byte", f + k - 1>>
<1> DEFINE head == << <<"header", f, n>> >>
           body == Bytes(f, n)
<1>1. body \in Seq(Element) /\ Len(body) = n /\ RunOf(body, f)
  BY BytesShape
<1> HIDE DEF body
<1>2. head \in Seq(Element) /\ Len(head) = 1 /\ head[1] = <<"header", f, n>>
  <2>1. <<"header", f, n>> \in Element
    BY Elements
  <2> QED
    BY <2>1
<1> HIDE DEF head
<1>3. /\ head \o body \in Seq(Element) /\ Len(head \o body) = Len(head) + Len(body)
      /\ \A i \in 1 .. Len(head) : (head \o body)[i] = head[i]
      /\ \A i \in 1 .. Len(body) : (head \o body)[Len(head) + i] = body[i]
  BY <1>1, <1>2, Joined
<1> DEFINE w == head \o body
<1>4. Record(f, n) = w
  BY DEF Record, head, body
<1> HIDE DEF w
<1>5. w \in Seq(Element) /\ Len(w) = n + 1
  BY <1>1, <1>2, <1>3 DEF w
<1>6. w[1] = <<"header", f, n>>
  BY <1>2, <1>3 DEF w
<1>7. ASSUME NEW k \in 1 .. n
      PROVE  w[k + 1] = <<"byte", f + k - 1>>
  <2>1. w[1 + k] = body[k] /\ body[k] = <<"byte", f + k - 1>>
    BY <1>1, <1>2, <1>3 DEF RunOf, w
  <2>2. 1 + k = k + 1
    OBVIOUS
  <2> QED
    BY <2>1, <2>2
<1> QED
  BY <1>4, <1>5, <1>6, <1>7

\* The record of which the first byte was to come joins the line.
LEMMA BoundaryExtended ==
  ASSUME NEW line \in Seq(Element), NEW i \in 0 .. Len(line), NEW g,
         NEW f \in Nat, NEW n \in Nat \ {0}, NEW coming, Boundary(line, i, g, f)
  PROVE  Boundary(line \o Record(f, n), i, g, coming)
<1> DEFINE w == Record(f, n)
<1>1. w \in Seq(Element) /\ Len(w) = n + 1 /\ w[1] = <<"header", f, n>>
  BY RecordShape
<1> HIDE DEF w
<1>2. /\ Len(line \o w) = Len(line) + Len(w)
      /\ \A m \in 1 .. Len(line) : (line \o w)[m] = line[m]
      /\ \A m \in 1 .. Len(w) : (line \o w)[Len(line) + m] = w[m]
  BY <1>1, Joined
<1>3. i < Len(line \o w)
  BY <1>1, <1>2
<1>4. CASE i < Len(line)
  <2>1. (line \o w)[i + 1] = line[i + 1]
    BY <1>2, <1>4
  <2> QED
    BY <2>1, <1>3, <1>4 DEF Boundary, w
<1>5. CASE i = Len(line)
  <2>1. (line \o w)[i + 1] = <<"header", f, n>>
    BY <1>1, <1>2, <1>5
  <2>2. g = f
    BY <1>5 DEF Boundary
  <2> QED
    BY <2>1, <2>2, <1>3 DEF Boundary, w
<1> QED
  BY <1>4, <1>5

LEMMA RecordExtended ==
  ASSUME NEW line \in Seq(Element), NEW i \in Int, NEW m \in Nat, i + m >= 0, NEW g, NEW ends,
         NEW f \in Nat, NEW n \in Nat \ {0}, NEW coming, NEW more, ends \subseteq more,
         RecordAt(line, i, g, m, f, ends)
  PROVE  RecordAt(line \o Record(f, n), i, g, m, coming, more)
<1> DEFINE w == Record(f, n)
<1>1. w \in Seq(Element) /\ Len(w) = n + 1
  BY RecordShape
<1>2. /\ i + m <= Len(line) /\ g + m - 1 \in ends
      /\ \A k \in 1 .. m : i + k >= 1 => line[i + k] = <<"byte", g + k - 1>>
      /\ Boundary(line, i + m, g + m, f)
  BY DEF RecordAt
<1> DEFINE at == i + m
           next == g + m
<1>3. at \in 0 .. Len(line)
  BY <1>2
<1> HIDE DEF at, next
<1>4. Boundary(line \o w, at, next, coming)
  BY <1>2, <1>3, BoundaryExtended DEF at, next
<1> HIDE DEF w
<1>5. /\ Len(line \o w) = Len(line) + Len(w)
      /\ \A k \in 1 .. Len(line) : (line \o w)[k] = line[k]
  BY <1>1, Joined
<1>6. ASSUME NEW k \in 1 .. m, i + k >= 1
      PROVE  (line \o w)[i + k] = <<"byte", g + k - 1>>
  <2>1. i + k \in 1 .. Len(line)
    BY <1>2, <1>6
  <2> QED
    BY <2>1, <1>2, <1>5, <1>6
<1>7. i + m <= Len(line \o w)
  BY <1>1, <1>2, <1>5
<1> QED
  BY <1>2, <1>4, <1>6, <1>7 DEF RecordAt, w, at, next

LEMMA OrderlyExtended ==
  ASSUME NEW line \in Seq(Element), NEW ends, NEW f \in Nat, NEW n \in Nat \ {0},
         NEW more, ends \subseteq more, f + n - 1 \in more, Orderly(line, f, ends)
  PROVE  Orderly(line \o Record(f, n), f + n, more)
<1> DEFINE w == Record(f, n)
           both == line \o w
           next == f + n
<1>1. /\ w \in Seq(Element) /\ Len(w) = n + 1 /\ w[1] = <<"header", f, n>>
      /\ \A k \in 1 .. n : w[k + 1] = <<"byte", f + k - 1>>
  BY RecordShape
<1>2. /\ both \in Seq(Element) /\ Len(both) = Len(line) + n + 1
      /\ \A k \in 1 .. Len(line) : both[k] = line[k]
      /\ \A k \in 1 .. n + 1 : both[Len(line) + k] = w[k]
  <2> HIDE DEF w
  <2>1. /\ both \in Seq(Element) /\ Len(both) = Len(line) + Len(w)
        /\ \A k \in 1 .. Len(line) : both[k] = line[k]
        /\ \A k \in 1 .. Len(w) : both[Len(line) + k] = w[k]
    BY <1>1, Joined
  <2> HIDE DEF both
  <2> QED
    BY <2>1, <1>1
<1> SUFFICES ASSUME NEW i \in 1 .. Len(both), both[i][1] = "header"
             PROVE  RecordAt(both, i, both[i][2], both[i][3], next, more)
  BY DEF Orderly
<1>3. CASE i <= Len(line)
  <2>1. i \in 1 .. Len(line) /\ both[i] = line[i] /\ line[i] \in Element
    BY <1>2, <1>3
  <2>2. RecordAt(line, i, line[i][2], line[i][3], f, ends)
    BY <2>1 DEF Orderly
  <2>3. line[i][3] \in Nat
    BY <2>1, Elements
  <2>4. i \in Int /\ i + line[i][3] >= 0
    BY <2>3
  <2> HIDE DEF next
  <2>5. RecordAt(line \o Record(f, n), i, line[i][2], line[i][3], next, more)
    BY <2>2, <2>3, <2>4, RecordExtended
  <2> QED
    BY <2>1, <2>5
<1>4. CASE i = Len(line) + 1
  <2> HIDE DEF w, both
  <2>1. both[i] = <<"header", f, n>>
    BY <1>1, <1>2, <1>4
  <2>2. ASSUME NEW k \in 1 .. n
        PROVE  both[i + k] = <<"byte", f + k - 1>>
    <3>1. i + k = Len(line) + (k + 1) /\ k + 1 \in 1 .. n + 1
      BY <1>4
    <3> QED
      BY <3>1, <1>1, <1>2
  <2>3. i + n <= Len(both) /\ ~(i + n < Len(both))
    BY <1>2, <1>4
  <2>4. Boundary(both, i + n, f + n, next)
    BY <2>3 DEF Boundary
  <2>5. RecordAt(both, i, f, n, next, more)
    BY <2>2, <2>3, <2>4 DEF RecordAt
  <2> QED
    BY <2>1, <2>5
<1>5. CASE i > Len(line) + 1
  <2> DEFINE k == i - Len(line) - 1
  <2>1. k \in 1 .. n /\ Len(line) + (k + 1) = i /\ k + 1 \in 1 .. n + 1
    BY <1>2, <1>5
  <2> HIDE DEF w, both, k
  <2>2. both[i] = <<"byte", f + k - 1>>
    BY <2>1, <1>1, <1>2
  <2> QED
    BY <2>2
<1>6. i \in Nat /\ Len(line) \in Nat
  BY <1>2
<1> QED
  BY <1>3, <1>4, <1>5, <1>6

LEMMA ReadsExtended ==
  ASSUME NEW r, NEW line \in Seq(Element), NEW from \in Nat, NEW ends,
         r.got \in Seq(Element), r.need \in Nat, r.state = "body" => Len(r.got) < r.need,
         NEW f \in Nat, NEW n \in Nat \ {0}, NEW more, ends \subseteq more, f + n - 1 \in more,
         Reads(r, line, from, f, ends)
  PROVE  Reads(r, line \o Record(f, n), from, f + n, more)
<1> DEFINE next == f + n
<1>1. Orderly(line \o Record(f, n), next, more)
  BY OrderlyExtended DEF Reads
<1> HIDE DEF next
<1>2. ASSUME r.state = "body"
      PROVE  RecordAt(line \o Record(f, n), 0 - Len(r.got), from + 1, r.need, next, more)
  <2> DEFINE i == 0 - Len(r.got)
             g == from + 1
  <2>1. i \in Int /\ i + r.need >= 0
    BY <1>2
  <2> HIDE DEF i, g
  <2>2. RecordAt(line, i, g, r.need, f, ends)
    BY <1>2 DEF Reads, i, g
  <2>3. RecordAt(line \o Record(f, n), i, g, r.need, next, more)
    BY <2>1, <2>2, RecordExtended
  <2> QED
    BY <2>3 DEF i, g
<1>3. ASSUME r.state # "body"
      PROVE  Boundary(line \o Record(f, n), 0, from + 1, next)
  <2>1. Boundary(line, 0, from + 1, f)
    BY <1>3 DEF Reads
  <2>2. 0 \in 0 .. Len(line)
    OBVIOUS
  <2> QED
    BY <2>1, <2>2, BoundaryExtended
<1>4. Reads(r, line \o Record(f, n), from, next, more)
  BY <1>1, <1>2, <1>3 DEF Reads
<1> QED
  BY <1>4 DEF next

\* An element that the socket takes moves within the line.
LEMMA Moved ==
  ASSUME NEW k \in Seq(Element), NEW w \in Seq(Element), w # << >>
  PROVE  /\ Append(k, w[1]) \in Seq(Element) /\ Len(Append(k, w[1])) = Len(k) + 1
         /\ Len(w) = 1 => Append(k, w[1]) = k \o w
         /\ Len(w) # 1 => Tail(w) \in Seq(Element) /\ Tail(w) # << >>
         /\ Append(k, w[1]) \o Tail(w) = k \o w
<1> DEFINE s == Append(k, w[1])
           t == Tail(w)
<1>1. w[1] \in Element /\ Len(w) \in Nat \ {0}
  OBVIOUS
<1>2. /\ s \in Seq(Element) /\ Len(s) = Len(k) + 1 /\ s[Len(k) + 1] = w[1]
      /\ \A i \in 1 .. Len(k) : s[i] = k[i]
  BY <1>1
<1>3. /\ t \in Seq(Element) /\ Len(t) = Len(w) - 1
      /\ \A i \in 1 .. Len(w) - 1 : t[i] = w[i + 1]
  BY <1>1
<1> HIDE DEF s, t
<1>4. /\ k \o w \in Seq(Element) /\ Len(k \o w) = Len(k) + Len(w)
      /\ \A i \in 1 .. Len(k) : (k \o w)[i] = k[i]
      /\ \A i \in 1 .. Len(w) : (k \o w)[Len(k) + i] = w[i]
  BY Joined
<1>5. /\ s \o t \in Seq(Element) /\ Len(s \o t) = Len(s) + Len(t)
      /\ \A i \in 1 .. Len(s) : (s \o t)[i] = s[i]
      /\ \A i \in 1 .. Len(t) : (s \o t)[Len(s) + i] = t[i]
  BY <1>2, <1>3, Joined
<1>6. ASSUME NEW i \in 1 .. Len(k) + Len(w)
      PROVE  (s \o t)[i] = (k \o w)[i]
  <2>0. i \in Nat /\ Len(k) \in Nat /\ Len(w) \in Nat /\ i <= Len(k) + Len(w)
    OBVIOUS
  <2>1. CASE i <= Len(k)
    <3>1. i \in 1 .. Len(k) /\ i \in 1 .. Len(s)
      BY <2>1, <1>2
    <3> QED
      BY <3>1, <1>2, <1>4, <1>5
  <2>2. CASE i = Len(k) + 1
    <3>1. i \in 1 .. Len(s) /\ 1 \in 1 .. Len(w)
      BY <2>2, <1>1, <1>2
    <3>2. (k \o w)[i] = w[1]
      BY <2>2, <3>1, <1>4
    <3>3. (s \o t)[i] = s[i]
      BY <3>1, <1>5
    <3> QED
      BY <3>2, <3>3, <2>2, <1>2
  <2>3. CASE i > Len(k) + 1
    <3> DEFINE m == i - Len(k) - 1
    <3>1. /\ m \in 1 .. Len(t) /\ m \in 1 .. Len(w) - 1 /\ Len(s) + m = i
          /\ m + 1 \in 1 .. Len(w) /\ Len(k) + (m + 1) = i
      <4> DEFINE a == Len(k)
                 b == Len(w)
      <4>1. /\ a \in Nat /\ b \in Nat /\ i \in Nat /\ i <= a + b /\ i > a + 1
            /\ Len(t) = b - 1 /\ Len(s) = a + 1
        BY <2>3, <2>0, <1>2, <1>3
      <4> HIDE DEF a, b
      <4>2. /\ i - a - 1 \in 1 .. b - 1 /\ (a + 1) + (i - a - 1) = i
            /\ (i - a - 1) + 1 \in 1 .. b /\ a + ((i - a - 1) + 1) = i
        BY <4>1
      <4> QED
        BY <4>1, <4>2 DEF a, b
    <3> HIDE DEF m
    <3>2. (s \o t)[i] = t[m]
      BY <3>1, <1>5
    <3>3. t[m] = w[m + 1]
      BY <3>1, <1>3
    <3>4. (k \o w)[i] = w[m + 1]
      BY <3>1, <1>4
    <3> QED
      BY <3>2, <3>3, <3>4
  <2>4. i <= Len(k) \/ i = Len(k) + 1 \/ i > Len(k) + 1
    BY <2>0
  <2> QED
    BY <2>1, <2>2, <2>3, <2>4
<1>7. Len(s \o t) = Len(k) + Len(w)
  BY <1>1, <1>2, <1>3, <1>5
<1>8. s \o t = k \o w
  BY <1>4, <1>5, <1>6, <1>7, Same
<1>9. ASSUME Len(w) = 1
      PROVE  s = k \o w
  <2>1. Len(s) = Len(k \o w)
    BY <1>2, <1>4, <1>9
  <2>2. ASSUME NEW i \in 1 .. Len(s)
        PROVE  s[i] = (k \o w)[i]
    <3>1. CASE i <= Len(k)
      BY <3>1, <1>2, <1>4
    <3>2. CASE i = Len(k) + 1
      BY <3>2, <1>2, <1>4, <1>9
    <3> QED
      BY <3>1, <3>2, <1>2
  <2> QED
    BY <2>1, <2>2, <1>2, <1>4, Same
<1>10. Len(w) # 1 => t # << >>
  BY <1>1, <1>3
<1> QED
  BY <1>2, <1>3, <1>8, <1>9, <1>10 DEF s, t

\* What is read comes off the part of the line that the sockets hold.
LEMMA TakenOff ==
  ASSUME NEW k \in Seq(Element), NEW w \in Seq(Element), NEW n \in 0 .. Len(k)
  PROVE  SubSeq(k \o w, n + 1, Len(k \o w)) = SubSeq(k, n + 1, Len(k)) \o w
<1> DEFINE both == k \o w
           a == SubSeq(both, n + 1, Len(both))
           b == SubSeq(k, n + 1, Len(k))
<1>1. /\ both \in Seq(Element) /\ Len(both) = Len(k) + Len(w)
      /\ \A i \in 1 .. Len(k) : both[i] = k[i]
      /\ \A i \in 1 .. Len(w) : both[Len(k) + i] = w[i]
  BY Joined
<1> HIDE DEF both
<1>2. n \in 0 .. Len(both)
  BY <1>1
<1>3. /\ a \in Seq(Element) /\ Len(a) = Len(both) - n
      /\ \A i \in 1 .. Len(both) - n : a[i] = both[n + i]
  BY <1>1, <1>2, Cut
<1>4. /\ b \in Seq(Element) /\ Len(b) = Len(k) - n
      /\ \A i \in 1 .. Len(k) - n : b[i] = k[n + i]
  BY Cut
<1> HIDE DEF a, b
<1>5. /\ b \o w \in Seq(Element) /\ Len(b \o w) = Len(b) + Len(w)
      /\ \A i \in 1 .. Len(b) : (b \o w)[i] = b[i]
      /\ \A i \in 1 .. Len(w) : (b \o w)[Len(b) + i] = w[i]
  BY <1>4, Joined
<1>6. Len(a) = Len(b \o w)
  BY <1>1, <1>3, <1>4, <1>5
<1>7. ASSUME NEW i \in 1 .. Len(a)
      PROVE  a[i] = (b \o w)[i]
  <2>1. i \in 1 .. Len(both) - n /\ n + i \in 1 .. Len(both)
    BY <1>1, <1>3
  <2>2. a[i] = both[n + i]
    BY <2>1, <1>3
  <2>3. CASE i <= Len(b)
    <3>1. i \in 1 .. Len(b) /\ i \in 1 .. Len(k) - n /\ n + i \in 1 .. Len(k)
      BY <2>3, <1>4
    <3> QED
      BY <3>1, <2>2, <1>1, <1>4, <1>5
  <2>4. CASE i > Len(b)
    <3> DEFINE m == i - Len(b)
    <3>1. m \in 1 .. Len(w) /\ Len(k) + m = n + i /\ Len(b) + m = i
      BY <2>1, <2>4, <1>1, <1>4
    <3> HIDE DEF m
    <3>2. both[n + i] = w[m]
      BY <3>1, <1>1
    <3>3. (b \o w)[i] = w[m]
      BY <3>1, <1>5
    <3> QED
      BY <2>2, <3>2, <3>3
  <2>5. i \in Nat /\ Len(b) \in Nat
    BY <1>4
  <2>6. i <= Len(b) \/ i > Len(b)
    BY <2>5
  <2> QED
    BY <2>3, <2>4, <2>6
<1>8. a = b \o w
  BY <1>3, <1>5, <1>6, <1>7, Same
<1> QED
  BY <1>8 DEF a, b, both

-----------------------------------------------------------------------------
(* The records of one call of SSL_write.                                    *)

LEMMA WholeRecords ==
  ASSUME NEW n \in Nat \ {0}
  PROVE  /\ RecordCount(n) \in Nat \ {0}
         /\ (RecordCount(n) - 1) * RecordLimit < n
         /\ n <= RecordCount(n) * RecordLimit
<1> DEFINE c == RecordCount(n)
           a == n + RecordLimit - 1
<1>1. a \in Nat /\ RecordLimit \in Nat \ {0} /\ a >= RecordLimit
  BY LayersAssumption
<1>2. c = a \div RecordLimit
  BY DEF RecordCount
<1> HIDE DEF a, c
<1>3. c \in Nat /\ c * RecordLimit <= a /\ a < c * RecordLimit + RecordLimit
  BY <1>1, <1>2
<1>4. c # 0
  BY <1>1, <1>3
<1>5. (c - 1) * RecordLimit = c * RecordLimit - RecordLimit
  BY <1>1, <1>3
<1>6. c * RecordLimit \in Int
  BY <1>1, <1>3
<1>7. (c - 1) * RecordLimit < n /\ n <= c * RecordLimit
  <2> DEFINE p == c * RecordLimit
  <2>1. p \in Int /\ p <= n + RecordLimit - 1 /\ n + RecordLimit - 1 < p + RecordLimit
    BY <1>3, <1>6 DEF a
  <2> HIDE DEF p
  <2>2. p - RecordLimit < n /\ n <= p
    BY <2>1, <1>1
  <2> QED
    BY <2>2, <1>5 DEF p
<1> QED
  BY <1>3, <1>4, <1>7 DEF c

LEMMA RecordParts ==
  ASSUME NEW f \in Nat, NEW n \in Nat \ {0}, NEW i \in 1 .. RecordCount(n)
  PROVE  /\ RecordFirst(f, i) \in Nat /\ RecordFirst(f, i) >= f
         /\ RecordLength(n, i) \in Nat \ {0}
         /\ i < RecordCount(n) =>
              RecordFirst(f, i + 1) = RecordFirst(f, i) + RecordLength(n, i)
         /\ i = RecordCount(n) => f + n = RecordFirst(f, i) + RecordLength(n, i)
<1> DEFINE c == RecordCount(n)
           before == (i - 1) * RecordLimit
<1>1. /\ c \in Nat \ {0} /\ (c - 1) * RecordLimit < n /\ n <= c * RecordLimit
  BY WholeRecords
<1>2. RecordLimit \in Nat \ {0}
  BY LayersAssumption
<1>3. RecordFirst(f, i) = f + before /\ RecordLength(n, i) = Smaller(RecordLimit, n - before)
  BY DEF RecordFirst, RecordLength
<1>4. i \in 1 .. c
  OBVIOUS
<1> HIDE DEF c
<1>5. before \in Nat
  BY <1>1, <1>2, <1>4
<1>6. before + RecordLimit = i * RecordLimit
  BY <1>1, <1>2, <1>4
<1>7. RecordFirst(f, i + 1) = f + (before + RecordLimit)
  <2>1. (i + 1) - 1 = i
    BY <1>1, <1>4
  <2> QED
    BY <2>1, <1>6 DEF RecordFirst
<1>8. CASE i < c
  <2>1. i * RecordLimit <= (c - 1) * RecordLimit
    BY <1>8, <1>1, <1>2, <1>4
  <2>2. before + RecordLimit < n
    <3>1. i * RecordLimit \in Int /\ (c - 1) * RecordLimit \in Int
      BY <1>1, <1>2, <1>4
    <3> QED
      BY <3>1, <2>1, <1>1, <1>6
  <2> HIDE DEF before
  <2>3. RecordLength(n, i) = RecordLimit
    BY <2>2, <1>2, <1>3, <1>5 DEF Smaller
  <2> QED
    BY <2>3, <1>2, <1>3, <1>5, <1>7, <1>8 DEF c
<1>9. CASE i = c
  <2>1. before < n /\ n <= before + RecordLimit
    BY <1>1, <1>6, <1>9
  <2> HIDE DEF before
  <2>2. RecordLength(n, i) = n - before
    BY <2>1, <1>2, <1>3, <1>5 DEF Smaller
  <2> QED
    BY <2>1, <2>2, <1>3, <1>5, <1>9 DEF c
<1> QED
  BY <1>1, <1>4, <1>8, <1>9

LEMMA RecordsShape ==
  ASSUME NEW f \in Nat \ {0}, NEW n \in Nat \ {0}
  PROVE  /\ Records(f, n) \in Seq(Seq(Element)) /\ Len(Records(f, n)) = RecordCount(n)
         /\ \A i \in 1 .. RecordCount(n) :
              Records(f, n)[i] = Record(RecordFirst(f, i), RecordLength(n, i))
<1>1. RecordCount(n) \in Nat \ {0}
  BY WholeRecords
<1>2. ASSUME NEW i \in 1 .. RecordCount(n)
      PROVE  Record(RecordFirst(f, i), RecordLength(n, i)) \in Seq(Element)
  BY RecordParts, RecordShape
<1>3. Records(f, n) \in [1 .. RecordCount(n) -> Seq(Element)]
  BY <1>2 DEF Records
<1>4. Records(f, n) \in Seq(Seq(Element)) /\ Len(Records(f, n)) = RecordCount(n)
  BY <1>1, <1>3
<1> QED
  BY <1>4 DEF Records

\* Each of them is whole and is followed by the next, or by what was not given yet.
LEMMA RecordsFollow ==
  ASSUME NEW f \in Nat \ {0}, NEW n \in Nat \ {0}, NEW i \in 1 .. RecordCount(n), NEW ends
  PROVE  /\ IsRecord(Records(f, n)[i], ends \cup Ends(f, n))
         /\ Records(f, n)[i] # << >>
         /\ Records(f, n)[i] = Record(RecordFirst(f, i), RecordLength(n, i))
         /\ Records(f, n)[i][1][2] = RecordFirst(f, i)
         /\ Records(f, n)[i][1][3] = RecordLength(n, i)
         /\ RecordFirst(f, i) + RecordLength(n, i) - 1 \in Ends(f, n)
<1> DEFINE g == RecordFirst(f, i)
           m == RecordLength(n, i)
           w == Records(f, n)[i]
<1>1. g \in Nat \ {0} /\ m \in Nat \ {0}
  <2>1. f \in Nat
    OBVIOUS
  <2>2. g \in Nat /\ g >= f /\ m \in Nat \ {0}
    BY <2>1, RecordParts
  <2> HIDE DEF g
  <2> QED
    BY <2>2
<1>2. w = Record(g, m)
  BY RecordsShape
<1>3. g + m - 1 \in Ends(f, n)
  BY DEF Ends
<1> HIDE DEF g, m, w
<1>4. w \in Seq(Element) /\ Len(w) = m + 1 /\ w[1] = <<"header", g, m>>
  BY <1>1, <1>2, RecordShape
<1>5. w[1][2] = g /\ w[1][3] = m /\ w # << >>
  BY <1>1, <1>4
<1>6. IsRecord(w, ends \cup Ends(f, n))
  BY <1>1, <1>2, <1>3, <1>5 DEF IsRecord
<1> QED
  BY <1>2, <1>3, <1>5, <1>6 DEF g, m, w

-----------------------------------------------------------------------------
(* Types.                                                                   *)

\* What the sender has to do next when the write at the head goes on or is done with.
LEMMA HeadWrite ==
  ASSUME SenderType, sender.state = "sending"
  PROVE  /\ Head(sender.writes) = sender.writes[1] /\ 1 \in 1 .. Len(sender.writes)
         /\ sender.writes[1] \in Seq(Element) /\ sender.writes[1] # << >>
<1>1. sender.writes \in Seq(Seq(Element)) /\ sender.writes # << >>
  BY DEF SenderType
<1> DEFINE s == sender.writes
<1> HIDE DEF s
<1>2. s \in Seq(Seq(Element)) /\ s # << >>
  BY <1>1 DEF s
<1>3. Head(s) = s[1] /\ 1 \in 1 .. Len(s) /\ s[1] \in Seq(Element)
  BY <1>2
<1> QED
  BY <1>3 DEF s, SenderType

LEMMA DoneWriting ==
  ASSUME SenderType, sender.state = "sending"
  PROVE  /\ NextWrite \in [state : {"idle", "sending"}, writes : Seq(Seq(Element)),
                           begun : BOOLEAN]
         /\ NextWrite.begun = FALSE
         /\ NextWrite.state = "sending" <=> Len(sender.writes) # 1
         /\ Len(NextWrite.writes) = Len(sender.writes) - 1
         /\ \A j \in 1 .. Len(sender.writes) - 1 : NextWrite.writes[j] = sender.writes[j + 1]
<1> DEFINE s == sender.writes
           t == Tail(s)
<1>1. NextWrite.writes = t
  BY DEF NextWrite
<1>2. s \in Seq(Seq(Element)) /\ s # << >>
  BY DEF SenderType
<1> HIDE DEF s
<1>3. t \in Seq(Seq(Element)) /\ Len(t) = Len(s) - 1 /\ \A j \in 1 .. Len(s) - 1 : t[j] = s[j + 1]
  BY <1>2
<1> HIDE DEF t
<1>4. /\ NextWrite.begun = FALSE
      /\ NextWrite.state = "sending" <=> Len(s) # 1
  BY DEF NextWrite, s
<1>5. NextWrite \in [state : {"idle", "sending"}, writes : Seq(Seq(Element)), begun : BOOLEAN]
  BY <1>1, <1>3 DEF NextWrite
<1> QED
  BY <1>1, <1>3, <1>4, <1>5 DEF s

MoreWritten == [sender EXCEPT !.begun = TRUE, !.writes[1] = Tail(@)]

LEMMA GoesOnWriting ==
  ASSUME SenderType, sender.state = "sending", Len(sender.writes[1]) # 1
  PROVE  /\ MoreWritten \in [state : {"sending"}, writes : Seq(Seq(Element)), begun : {TRUE}]
         /\ Len(MoreWritten.writes) = Len(sender.writes)
         /\ MoreWritten.writes[1] = Tail(sender.writes[1]) /\ Tail(sender.writes[1]) # << >>
         /\ \A j \in 2 .. Len(sender.writes) : MoreWritten.writes[j] = sender.writes[j]
<1> DEFINE s == sender.writes
           t == [s EXCEPT ![1] = Tail(s[1])]
<1>1. /\ MoreWritten.writes = t
      /\ t \in Seq(Seq(Element)) =>
           MoreWritten \in [state : {"sending"}, writes : Seq(Seq(Element)), begun : {TRUE}]
  <2>1. sender \in [state : {"idle", "sending", "failed"}, writes : Seq(Seq(Element)),
                    begun : BOOLEAN]
    BY DEF SenderType
  <2> QED
    BY <2>1 DEF MoreWritten
<1>2. s \in Seq(Seq(Element)) /\ 1 \in 1 .. Len(s) /\ s[1] \in Seq(Element) /\ s[1] # << >>
  BY HeadWrite DEF SenderType
<1>3. Len(s[1]) # 1
  OBVIOUS
<1> HIDE DEF s
<1> DEFINE w == s[1]
<1>4. Tail(w) \in Seq(Element) /\ Tail(w) # << >>
  <2> HIDE DEF w
  <2>1. w \in Seq(Element) /\ w # << >> /\ Len(w) # 1
    BY <1>2, <1>3 DEF w
  <2>2. Tail(w) \in Seq(Element) /\ Len(Tail(w)) = Len(w) - 1 /\ Len(w) \in Nat \ {0, 1}
    BY <2>1
  <2>3. Len(Tail(w)) # 0 /\ Len(<< >>) = 0
    BY <2>2
  <2>4. Tail(w) # << >>
    BY <2>3
  <2> QED
    BY <2>2, <2>4
<1>5. /\ t \in Seq(Seq(Element)) /\ Len(t) = Len(s) /\ t[1] = Tail(s[1])
      /\ \A j \in 2 .. Len(s) : t[j] = s[j]
  BY <1>2, <1>4
<1> HIDE DEF t
<1> QED
  BY <1>1, <1>4, <1>5 DEF s

-----------------------------------------------------------------------------
(* What a call of read comes to.                                            *)

Got(r) == receiver.got \o SubSeq(kernel, 1, r)

ReadFails ==
  /\ receiver' = [receiver EXCEPT !.state = "failed"] /\ kernel' = kernel
  /\ signals' \in Nat /\ (link # "up" \/ signals' > 0)
  /\ UNCHANGED <<layer, link, given, recordEnds, sender, cut, plain, opened, delivered>>

Takes(r) ==
  /\ kernel' = SubSeq(kernel, r + 1, Len(kernel))
  /\ UNCHANGED <<layer, link, signals, given, recordEnds, sender, cut>>

ReadsPart(r) ==
  /\ Takes(r) /\ Len(Got(r)) < receiver.need
  /\ receiver' = [receiver EXCEPT !.got = Got(r)]
  /\ UNCHANGED <<plain, opened, delivered>>

ReadsData(r) ==
  /\ Takes(r) /\ Len(Got(r)) = receiver.need /\ receiver.state = "data"
  /\ receiver' = [receiver EXCEPT !.state = "idle"]
  /\ delivered' = delivered \o Got(r)
  /\ UNCHANGED <<plain, opened>>

ReadsHeader(r) ==
  /\ Takes(r) /\ Len(Got(r)) = receiver.need /\ receiver.state = "header"
  /\ Got(r)[1][1] = "header"
  /\ receiver' = [state |-> "body", asked |-> receiver.asked, need |-> Got(r)[1][3], got |-> << >>]
  /\ UNCHANGED <<plain, opened, delivered>>

ReadsBody(r) ==
  /\ Takes(r) /\ Len(Got(r)) = receiver.need /\ receiver.state = "body"
  /\ Got(r) = Bytes(opened + 1, receiver.need)
  /\ opened' = opened + receiver.need
  /\ Return(receiver.asked, Got(r))

FindsNoRecord(r) ==
  /\ Takes(r) /\ Len(Got(r)) = receiver.need /\ InTCP
  /\ receiver.state # "data"
  /\ ~(receiver.state = "header" /\ Got(r)[1][1] = "header")
  /\ ~(receiver.state = "body" /\ Got(r) = Bytes(opened + 1, receiver.need))
  /\ receiver' = [receiver EXCEPT !.state = "failed"]
  /\ UNCHANGED <<plain, opened, delivered>>

LEMMA GotSome ==
  ASSUME TransportType, ReceiverType, NEW r \in Nat, r <= Len(kernel)
  PROVE  /\ Got(r) \in Seq(Element) /\ Len(Got(r)) = Len(receiver.got) + r
         /\ \A i \in 1 .. Len(receiver.got) : Got(r)[i] = receiver.got[i]
         /\ \A i \in 1 .. r : Got(r)[Len(receiver.got) + i] = kernel[i]
<1> DEFINE g == receiver.got
           k == kernel
           t == SubSeq(k, 1, r)
<1>1. g \in Seq(Element) /\ k \in Seq(Element) /\ r \in 0 .. Len(k)
  BY DEF TransportType, ReceiverType
<1> HIDE DEF g, k
<1>2. t \in Seq(Element) /\ Len(t) = r /\ \A i \in 1 .. r : t[i] = k[i]
  BY <1>1, Cut
<1> HIDE DEF t
<1>3. /\ g \o t \in Seq(Element) /\ Len(g \o t) = Len(g) + Len(t)
      /\ \A i \in 1 .. Len(g) : (g \o t)[i] = g[i]
      /\ \A i \in 1 .. Len(t) : (g \o t)[Len(g) + i] = t[i]
  BY <1>1, <1>2, Joined
<1>4. Got(r) = g \o t
  BY DEF Got, g, t, k
<1>5. /\ g \o t \in Seq(Element) /\ Len(g \o t) = Len(g) + r
      /\ \A i \in 1 .. Len(g) : (g \o t)[i] = g[i]
      /\ \A i \in 1 .. r : (g \o t)[Len(g) + i] = k[i]
  BY <1>2, <1>3
<1> HIDE DEF Got
<1> QED
  BY <1>4, <1>5 DEF g, k

LEMMA Continuing ==
  ASSUME TransportType, ReceiverType, InTCP, NEW r \in Nat, r <= Len(kernel), Takes(r),
         Len(Got(r)) = receiver.need, Continue(Got(r))
  PROVE  ReadsData(r) \/ ReadsHeader(r) \/ ReadsBody(r) \/ FindsNoRecord(r)
<1> DEFINE got == Got(r)
<1> HIDE DEF got
<1>1. Continue(got) /\ Len(got) = receiver.need
  BY DEF got
<1>2. CASE receiver.state = "data"
  <2>1. /\ receiver' = [receiver EXCEPT !.state = "idle"]
        /\ delivered' = delivered \o got
        /\ UNCHANGED <<plain, opened>>
    BY <1>1, <1>2 DEF Continue
  <2> QED
    BY <2>1, <1>2 DEF ReadsData, got
<1>3. CASE receiver.state = "header" /\ got[1][1] = "header"
  <2>1. /\ TCPReceive("body", got[1][3], receiver.asked)
        /\ UNCHANGED <<plain, opened, delivered>>
    BY <1>1, <1>3 DEF Continue
  <2> QED
    BY <2>1, <1>3 DEF ReadsHeader, TCPReceive, got
<1>4. CASE receiver.state = "body" /\ got = Bytes(opened + 1, receiver.need)
  <2>1. receiver.state = "body" /\ got = Bytes(opened + 1, Len(got))
    BY <1>1, <1>4
  <2>2. opened' = opened + Len(got) /\ Return(receiver.asked, got)
    BY <1>1, <2>1 DEF Continue
  <2> QED
    BY <1>1, <2>2, <1>4 DEF ReadsBody, got
<1>5. CASE /\ receiver.state # "data" /\ ~(receiver.state = "header" /\ got[1][1] = "header")
           /\ ~(receiver.state = "body" /\ got = Bytes(opened + 1, receiver.need))
  <2>1. ~(receiver.state = "body" /\ got = Bytes(opened + 1, Len(got)))
    BY <1>1, <1>5
  <2>2. /\ receiver' = [receiver EXCEPT !.state = "failed"]
        /\ UNCHANGED <<plain, opened, delivered>>
    BY <1>1, <2>1, <1>5 DEF Continue
  <2> QED
    BY <2>2, <1>5 DEF FindsNoRecord, got
<1> QED
  BY <1>2, <1>3, <1>4, <1>5

LEMMA Reading ==
  ASSUME TransportType, ReceiverType, Read
  PROVE  \/ ReadFails
         \/ \E r \in 1 .. Len(kernel) :
              ReadsPart(r) \/ ReadsData(r) \/ ReadsHeader(r) \/ ReadsBody(r) \/ FindsNoRecord(r)
<1>1. InTCP
  BY DEF Read
<1>2. PICK r \in ReadResults :
        /\ Interrupted(r)
        /\ LET n == IF r > 0 THEN r ELSE 0
               got == receiver.got \o SubSeq(kernel, 1, n)
           IN /\ kernel' = SubSeq(kernel, n + 1, Len(kernel))
              /\ \/ /\ Fails(r)
                    /\ receiver' = [receiver EXCEPT !.state = "failed"]
                    /\ UNCHANGED <<plain, opened, delivered>>
                 \/ /\ ~Fails(r) /\ Fills(r)
                    /\ Continue(Padded(got, receiver.need))
                 \/ /\ ~Fails(r) /\ ~Fills(r)
                    /\ receiver' = [receiver EXCEPT !.got = got]
                    /\ UNCHANGED <<plain, opened, delivered>>
  BY DEF Read
<1>3. UNCHANGED <<layer, link, given, recordEnds, sender, cut>>
  BY DEF Read
<1>4. kernel \in Seq(Element) /\ Len(kernel) \in Nat
  BY DEF TransportType
<1>5. Len(receiver.got) \in Nat /\ receiver.need \in Nat /\ Len(receiver.got) < receiver.need
  BY <1>1 DEF ReceiverType
<1>6. Missing \in Nat \ {0} /\ Missing = receiver.need - Len(receiver.got)
  BY <1>5 DEF Missing
<1>7. CASE kernel # << >>
  <2>1. r \in 1 .. Smaller(Missing, Len(kernel))
    BY <1>7 DEF ReadResults
  <2>2. r \in 1 .. Len(kernel) /\ r <= Missing
    BY <2>1, <1>4, <1>6 DEF Smaller
  <2>3. r > 0 /\ r # -1 /\ ~Fails(r) /\ r \in Nat /\ r <= Len(kernel)
    BY <2>2, <1>4 DEF Fails
  <2>4. Takes(r)
    BY <1>2, <1>3, <2>3 DEF Takes, Interrupted
  <2>5. Got(r) \in Seq(Element) /\ Len(Got(r)) = Len(receiver.got) + r
    BY <2>3, GotSome
  <2>6. CASE Fills(r)
    <3>1. r = Missing
      BY <2>2, <2>6, <1>6 DEF Fills
    <3>2. Len(Got(r)) = receiver.need
      BY <3>1, <2>5, <1>5, <1>6
    <3>3. Padded(Got(r), receiver.need) = Got(r)
      BY <3>2, <2>5, NothingPadded
    <3>4. Continue(Padded(Got(r), receiver.need))
      BY <1>2, <2>3, <2>6 DEF Got
    <3>5. Continue(Got(r))
      BY <3>3, <3>4
    <3> QED
      BY <3>2, <3>5, <2>2, <2>3, <2>4, <1>1, Continuing
  <2>7. CASE ~Fills(r)
    <3>1. Len(Got(r)) < receiver.need
      BY <2>5, <2>7, <2>3, <1>5, <1>6 DEF Fills
    <3>2. receiver' = [receiver EXCEPT !.got = Got(r)] /\ UNCHANGED <<plain, opened, delivered>>
      BY <1>2, <2>3, <2>7 DEF Got
    <3> QED
      BY <3>1, <3>2, <2>2, <2>4 DEF ReadsPart
  <2> QED
    BY <2>6, <2>7
<1>8. CASE kernel = << >>
  <2>1. \/ r = 0 /\ link = "closed"
        \/ r = -1 /\ link = "reset"
        \/ r = -1 /\ link # "closed" /\ link # "reset"
    BY <1>2, <1>8 DEF ReadResults
  <2>2. r <= 0 /\ Fails(r) /\ ~(r > 0)
    BY <2>1 DEF Fails
  <2>3. kernel' = kernel
    BY <1>2, <2>2, <1>8, <1>4
  <2>4. signals' \in Nat /\ (link # "up" \/ signals' > 0)
    BY <1>2, <2>1 DEF Interrupted, TransportType
  <2>5. receiver' = [receiver EXCEPT !.state = "failed"] /\ UNCHANGED <<plain, opened, delivered>>
    BY <1>2, <2>2
  <2> QED
    BY <2>3, <2>4, <2>5, <1>3 DEF ReadFails
<1> QED
  BY <1>7, <1>8

-----------------------------------------------------------------------------
(* Types are kept.                                                          *)

LEMMA InitTypes ==
  ASSUME Init
  PROVE  TransportType /\ SenderType /\ ReceiverType
<1>1. << >> \in Seq(Element) /\ << >> \in Seq(Seq(Element)) /\ Len(<< >>) = 0
  OBVIOUS
<1>2. TransportType
  BY <1>1 DEF Init, TransportType
<1>3. SenderType
  BY <1>1 DEF Init, SenderType
<1>4. ReceiverType
  BY <1>1 DEF Init, ReceiverType, InTCP
<1> QED
  BY <1>2, <1>3, <1>4

LEMMA SameSender ==
  ASSUME SenderType, UNCHANGED <<layer, sender>>
  PROVE  SenderType'
BY DEF SenderType

LEMMA SameReceiver ==
  ASSUME ReceiverType, UNCHANGED <<layer, receiver>>
  PROVE  ReceiverType'
BY DEF ReceiverType, InTCP

LEMMA DisconnectTypes ==
  ASSUME TransportType, Disconnect
  PROVE  TransportType'
<1>1. PICK n \in 0 .. Len(kernel) : kernel' = SubSeq(kernel, 1, n)
  BY DEF Disconnect
<1>2. kernel' \in Seq(Element)
  BY <1>1, Cut DEF TransportType
<1> QED
  BY <1>2 DEF Disconnect, TransportType

LEMMA SendDataTypes ==
  ASSUME TransportType, SenderType, NEW n \in Sizes, SendData(n)
  PROVE  TransportType' /\ SenderType'
<1>1. n \in Nat \ {0} /\ given \in Nat /\ given + 1 \in Nat \ {0} /\ given + n \in Nat
  BY LayersAssumption DEF TransportType
<1> DEFINE f == given + 1
<1> HIDE DEF f
<1>2. f \in Nat \ {0} /\ f \in Nat
  BY <1>1 DEF f
<1>3. Ends(f, n) \in SUBSET Nat
  <2>1. ASSUME NEW i \in 1 .. RecordCount(n)
        PROVE  RecordFirst(f, i) + RecordLength(n, i) - 1 \in Nat
    <3> DEFINE first == RecordFirst(f, i)
               length == RecordLength(n, i)
    <3>1. first \in Nat /\ length \in Nat \ {0}
      BY <1>1, <1>2, RecordParts
    <3> HIDE DEF first, length
    <3>2. first + length - 1 \in Nat
      BY <3>1
    <3> QED
      BY <3>2 DEF first, length
  <2> QED
    BY <2>1 DEF Ends
<1>4. TransportType'
  BY <1>1, <1>3 DEF SendData, TransportType, f
<1>5. CASE layer = "TCP"
  <2> DEFINE w == Bytes(f, n)
  <2>1. w \in Seq(Element) /\ Len(w) = n
    BY <1>1, <1>2, BytesShape
  <2>2. sender' = [state |-> "sending", begun |-> FALSE, writes |-> << w >>]
    BY <1>5 DEF SendData, f
  <2> HIDE DEF w
  <2>3. w # << >>
    BY <2>1, <1>1
  <2>4. << w >> \in Seq(Seq(Element)) /\ Len(<< w >>) = 1 /\ << w >>[1] = w /\ << w >> # << >>
    BY <2>1
  <2>5. \A j \in 1 .. Len(<< w >>) : << w >>[j] # << >>
    BY <2>3, <2>4
  <2> DEFINE s == << w >>
  <2> HIDE DEF s
  <2>6. /\ sender' \in [state : {"sending"}, writes : Seq(Seq(Element)), begun : {FALSE}]
        /\ sender'.writes = s
    BY <2>2, <2>4 DEF s
  <2> QED
    BY <2>4, <2>5, <2>6, <1>4 DEF SenderType, s
<1>6. CASE layer = "TLS"
  <2> DEFINE s == Records(f, n)
  <2>1. s \in Seq(Seq(Element)) /\ Len(s) = RecordCount(n) /\ RecordCount(n) \in Nat \ {0}
    BY <1>1, <1>2, RecordsShape, WholeRecords
  <2>2. ASSUME NEW j \in 1 .. Len(s)
        PROVE  s[j] # << >>
    <3>1. j \in 1 .. RecordCount(n)
      BY <2>1
    <3> QED
      BY <3>1, <1>1, <1>2, RecordsFollow
  <2>3. sender' = [state |-> "sending", begun |-> FALSE, writes |-> s]
    BY <1>6 DEF SendData, f
  <2>4. layer' = "TLS"
    BY <1>6 DEF SendData
  <2> HIDE DEF s
  <2>5. s # << >>
    BY <2>1
  <2>6. /\ sender' \in [state : {"sending"}, writes : Seq(Seq(Element)), begun : {FALSE}]
        /\ sender'.writes = s
    BY <2>1, <2>3
  <2> QED
    BY <2>1, <2>2, <2>4, <2>5, <2>6, <1>4 DEF SenderType
<1> QED
  BY <1>5, <1>6 DEF TransportType

LEMMA NextWriteTypes ==
  ASSUME SenderType, sender.state = "sending", sender' = NextWrite, layer' = layer
  PROVE  SenderType'
<1>1. /\ NextWrite \in [state : {"idle", "sending"}, writes : Seq(Seq(Element)), begun : BOOLEAN]
      /\ NextWrite.state = "sending" <=> Len(sender.writes) # 1
      /\ Len(NextWrite.writes) = Len(sender.writes) - 1
      /\ \A j \in 1 .. Len(sender.writes) - 1 : NextWrite.writes[j] = sender.writes[j + 1]
  BY DoneWriting
<1>2. Len(sender.writes) \in Nat /\ \A j \in 1 .. Len(sender.writes) : sender.writes[j] # << >>
  BY DEF SenderType
<1>3. \A j \in 1 .. Len(NextWrite.writes) : NextWrite.writes[j] # << >>
  <2> TAKE j \in 1 .. Len(NextWrite.writes)
  <2>1. j \in 1 .. Len(sender.writes) - 1 /\ j + 1 \in 1 .. Len(sender.writes)
    BY <1>1, <1>2
  <2>2. NextWrite.writes[j] = sender.writes[j + 1]
    BY <2>1, <1>1
  <2> QED
    BY <2>1, <2>2, <1>2
<1>4. NextWrite.state = "sending" => Len(NextWrite.writes) # 0
  BY <1>1, <1>2
<1>5. NextWrite.state = "sending" => NextWrite.writes # << >>
  BY <1>4
<1>6. layer = "TCP" => NextWrite.state # "sending"
  BY <1>1 DEF SenderType
<1> DEFINE s == NextWrite
<1> HIDE DEF s
<1>7. sender' = s
  BY DEF s
<1> QED
  BY <1>1, <1>3, <1>5, <1>6, <1>7 DEF SenderType, s

LEMMA WriteMoreTypes ==
  ASSUME TransportType, SenderType, WriteMore
  PROVE  TransportType' /\ SenderType'
<1>1. sender.state = "sending"
  BY DEF WriteMore
<1>2. /\ Head(sender.writes) = sender.writes[1] /\ 1 \in 1 .. Len(sender.writes)
      /\ sender.writes[1] \in Seq(Element) /\ sender.writes[1] # << >>
  BY <1>1, HeadWrite
<1>3. kernel' = Append(kernel, sender.writes[1][1]) /\ kernel' \in Seq(Element)
  BY <1>2, Moved DEF WriteMore, TransportType
<1>4. TransportType'
  BY <1>3 DEF WriteMore, TransportType
<1>5. CASE Len(sender.writes[1]) = 1
  BY <1>1, <1>2, <1>4, <1>5, NextWriteTypes DEF WriteMore
<1>6. CASE Len(sender.writes[1]) # 1
  <2>1. sender' = MoreWritten /\ layer' = layer
    BY <1>2, <1>6 DEF WriteMore, MoreWritten
  <2> DEFINE s == MoreWritten
  <2>2. /\ s \in [state : {"sending"}, writes : Seq(Seq(Element)), begun : {TRUE}]
        /\ Len(s.writes) = Len(sender.writes)
        /\ s.writes[1] # << >>
        /\ \A j \in 2 .. Len(sender.writes) : s.writes[j] = sender.writes[j]
    BY <1>1, <1>6, GoesOnWriting
  <2>3. Len(sender.writes) \in Nat /\ \A j \in 1 .. Len(sender.writes) : sender.writes[j] # << >>
    BY DEF SenderType
  <2> HIDE DEF s
  <2>4. ASSUME NEW j \in 1 .. Len(s.writes)
        PROVE  s.writes[j] # << >>
    <3>1. j = 1 \/ j \in 2 .. Len(sender.writes)
      BY <2>2, <2>3
    <3> QED
      BY <3>1, <2>2, <2>3, <2>4
  <2>5. Len(s.writes) # 0
    BY <1>2, <2>2, <2>3
  <2>6. s.writes # << >>
    BY <2>5
  <2>7. sender' = s
    BY <2>1 DEF s
  <2>8. layer = "TCP" => Len(s.writes) = 1
    BY <1>1, <2>2 DEF SenderType
  <2>9. SenderType'
    BY <2>1, <2>2, <2>4, <2>6, <2>7, <2>8 DEF SenderType
  <2> QED
    BY <2>9, <1>4
<1> QED
  BY <1>5, <1>6

LEMMA WriteStopsTypes ==
  ASSUME TransportType, SenderType, WriteStops
  PROVE  TransportType' /\ SenderType'
<1>1. signals' \in Nat
  BY DEF WriteStops, Interrupted, TransportType
<1>2. (cut \/ sender.begun) \in BOOLEAN
  BY DEF TransportType, SenderType
<1>3. cut' \in BOOLEAN
  BY <1>2 DEF WriteStops
<1>4. TransportType'
  BY <1>1, <1>3 DEF WriteStops, TransportType
<1>5. CASE sender.begun
  BY <1>4, <1>5, NextWriteTypes DEF WriteStops
<1>6. CASE ~sender.begun
  <2>1. /\ sender' \in [state : {"failed"}, writes : Seq(Seq(Element)), begun : BOOLEAN]
        /\ sender'.writes = sender.writes /\ layer' = layer
    BY <1>6 DEF WriteStops, Throws, SenderType
  <2> QED
    BY <2>1, <1>4 DEF SenderType
<1> QED
  BY <1>5, <1>6

\* Return leaves OpenSSL with the rest of the bytes.
LEMMA Returned ==
  ASSUME ReceiverType, NEW n \in Nat, NEW bytes \in Seq(Element), Return(n, bytes),
         delivered \in Seq(Element)
  PROVE  /\ plain' \in Seq(Element) /\ delivered' \in Seq(Element)
         /\ receiver' \in [state : {"idle", "failed"}, asked : {n}, need : Nat,
                           got : Seq(Element)]
         /\ Len(bytes) < n => /\ receiver'.state = "failed"
                              /\ delivered' = delivered
         /\ ~(Len(bytes) < n) => /\ receiver'.state = "idle"
                                 /\ plain' = SubSeq(bytes, n + 1, Len(bytes))
                                 /\ delivered' = delivered \o SubSeq(bytes, 1, n)
<1>1. plain' = SubSeq(bytes, n + 1, Len(bytes)) /\ plain' \in Seq(Element)
  BY DEF Return
<1>2. receiver \in [state : {"idle", "data", "header", "body", "failed"}, asked : Nat,
                    need : Nat, got : Seq(Element)]
  BY DEF ReceiverType
<1>3. CASE Len(bytes) < n
  BY <1>1, <1>2, <1>3 DEF Return
<1>4. CASE ~(Len(bytes) < n)
  <2>1. /\ receiver' = [receiver EXCEPT !.state = "idle", !.asked = n]
        /\ delivered' = delivered \o SubSeq(bytes, 1, n)
    BY <1>4 DEF Return
  <2>2. n \in 0 .. Len(bytes)
    BY <1>4
  <2>3. SubSeq(bytes, 1, n) \in Seq(Element)
    BY <2>2, Cut
  <2>4. delivered' \in Seq(Element)
    BY <2>1, <2>3, Joined
  <2> QED
    BY <2>1, <2>4, <1>1, <1>2, <1>4
<1> QED
  BY <1>3, <1>4

LEMMA ReceiveDataTypes ==
  ASSUME TransportType, ReceiverType, NEW n \in Sizes, ReceiveData(n)
  PROVE  TransportType' /\ ReceiverType'
<1>1. n \in Nat \ {0}
  BY LayersAssumption
<1>2. CASE layer = "TLS" /\ plain # << >>
  <2>1. Return(n, plain)
    BY <1>2 DEF ReceiveData
  <2>2. plain \in Seq(Element) /\ delivered \in Seq(Element) /\ n \in Nat
    BY <1>1 DEF TransportType
  <2>3. /\ plain' \in Seq(Element) /\ delivered' \in Seq(Element)
        /\ receiver' \in [state : {"idle", "failed"}, asked : {n}, need : Nat,
                          got : Seq(Element)]
    BY <2>1, <2>2, Returned
  <2> QED
    BY <2>2, <2>3 DEF ReceiveData, TransportType, ReceiverType, InTCP
<1>3. CASE ~(layer = "TLS" /\ plain # << >>)
  <2> DEFINE stage == IF layer = "TCP" THEN "data" ELSE "header"
             need == IF layer = "TCP" THEN n ELSE 1
  <2>1. /\ receiver' = [state |-> stage, asked |-> n, need |-> need, got |-> << >>]
        /\ UNCHANGED <<plain, delivered>>
    BY <1>3 DEF ReceiveData, TCPReceive
  <2>2. << >> \in Seq(Element) /\ Len(<< >>) = 0
    OBVIOUS
  <2>3. TransportType'
    BY <2>1 DEF ReceiveData, TransportType
  <2>4. ReceiverType'
    BY <2>1, <2>2, <1>1 DEF ReceiveData, TransportType, ReceiverType, InTCP
  <2> QED
    BY <2>3, <2>4
<1> QED
  BY <1>2, <1>3

LEMMA TakesTypes ==
  ASSUME TransportType, NEW r \in 1 .. Len(kernel), Takes(r)
  PROVE  kernel' \in Seq(Element) /\ Len(kernel') = Len(kernel) - r
<1> DEFINE k == kernel
<1>1. k \in Seq(Element) /\ r \in 0 .. Len(k)
  BY DEF TransportType
<1> HIDE DEF k
<1>2. SubSeq(k, r + 1, Len(k)) \in Seq(Element) /\ Len(SubSeq(k, r + 1, Len(k))) = Len(k) - r
  BY <1>1, Cut
<1> QED
  BY <1>2 DEF Takes, k

LEMMA ReadTypes ==
  ASSUME TransportType, ReceiverType, Read
  PROVE  TransportType' /\ ReceiverType'
<1>1. receiver \in [state : {"idle", "data", "header", "body", "failed"}, asked : Nat,
                    need : Nat, got : Seq(Element)]
  BY DEF ReceiverType
<1>2. CASE ReadFails
  BY <1>1, <1>2 DEF ReadFails, TransportType, ReceiverType, InTCP
<1>3. ASSUME NEW r \in 1 .. Len(kernel),
             ReadsPart(r) \/ ReadsData(r) \/ ReadsHeader(r) \/ ReadsBody(r) \/ FindsNoRecord(r)
      PROVE  TransportType' /\ ReceiverType'
  <2>1. Takes(r)
    BY <1>3 DEF ReadsPart, ReadsData, ReadsHeader, ReadsBody, FindsNoRecord
  <2>2. /\ kernel' \in Seq(Element)
        /\ UNCHANGED <<layer, link, signals, given, recordEnds, sender, cut>>
    BY <2>1, TakesTypes DEF Takes
  <2>3. Len(kernel) \in Nat
    BY DEF TransportType
  <2>4. Got(r) \in Seq(Element) /\ Len(Got(r)) = Len(receiver.got) + r
    BY <2>3, GotSome
  <2> DEFINE g == Got(r)
  <2> HIDE DEF g
  <2>5. CASE ReadsPart(r)
    <3>1. receiver' = [receiver EXCEPT !.got = g] /\ Len(g) < receiver.need
          /\ UNCHANGED <<plain, opened, delivered>>
      BY <2>5 DEF ReadsPart, g
    <3>2. g \in Seq(Element)
      BY <2>4 DEF g
    <3> QED
      BY <1>1, <2>2, <3>1, <3>2 DEF TransportType, ReceiverType, InTCP
  <2>6. CASE ReadsData(r)
    <3>1. /\ receiver' = [receiver EXCEPT !.state = "idle"] /\ delivered' = delivered \o g
          /\ UNCHANGED <<plain, opened>>
      BY <2>6 DEF ReadsData, g
    <3>2. delivered' \in Seq(Element)
      BY <2>4, <3>1, Joined DEF g, TransportType
    <3>3. TransportType'
      BY <2>2, <3>1, <3>2 DEF TransportType
    <3>4. ReceiverType'
      BY <1>1, <2>2, <3>1 DEF ReceiverType, InTCP
    <3> QED
      BY <3>3, <3>4
  <2>7. CASE ReadsHeader(r)
    <3>1. /\ receiver' = [state |-> "body", asked |-> receiver.asked, need |-> g[1][3],
                          got |-> << >>]
          /\ UNCHANGED <<plain, opened, delivered>> /\ g[1][1] = "header"
          /\ receiver.state = "header"
      BY <2>7 DEF ReadsHeader, g
    <3>2. g \in Seq(Element) /\ Len(g) # 0 /\ Len(g) \in Nat
      BY <2>4, <1>1 DEF g
    <3>3. g[1] \in Element
      BY <3>2
    <3> DEFINE n == g[1][3]
    <3>4. n \in Nat \ {0}
      BY <3>1, <3>3, Elements
    <3> HIDE DEF n
    <3>5. << >> \in Seq(Element) /\ Len(<< >>) = 0
      OBVIOUS
    <3>6. receiver' = [state |-> "body", asked |-> receiver.asked, need |-> n, got |-> << >>]
      BY <3>1 DEF n
    <3>7. layer = "TLS" /\ layer' = "TLS"
      BY <2>2, <3>1 DEF ReceiverType, TransportType
    <3>8. ReceiverType'
      BY <1>1, <3>4, <3>5, <3>6, <3>7 DEF ReceiverType, InTCP
    <3> QED
      BY <2>2, <3>1, <3>8 DEF TransportType
  <2>8. CASE ReadsBody(r)
    <3>1. opened' = opened + receiver.need /\ Return(receiver.asked, g)
      BY <2>8 DEF ReadsBody, g
    <3>2. receiver.asked \in Nat /\ delivered \in Seq(Element) /\ g \in Seq(Element)
      BY <1>1, <2>4 DEF TransportType, g
    <3>3. /\ plain' \in Seq(Element) /\ delivered' \in Seq(Element)
          /\ receiver' \in [state : {"idle", "failed"}, asked : {receiver.asked}, need : Nat,
                            got : Seq(Element)]
      BY <3>1, <3>2, Returned
    <3>4. opened' \in Nat
      BY <1>1, <3>1 DEF TransportType
    <3>5. ReceiverType'
      BY <1>1, <3>3, <2>2 DEF ReceiverType, InTCP
    <3> QED
      BY <2>2, <3>3, <3>4, <3>5 DEF TransportType
  <2>9. CASE FindsNoRecord(r)
    <3>1. receiver' = [receiver EXCEPT !.state = "failed"] /\ UNCHANGED <<plain, opened, delivered>>
      BY <2>9 DEF FindsNoRecord
    <3> QED
      BY <1>1, <2>2, <3>1 DEF TransportType, ReceiverType, InTCP
  <2> QED
    BY <1>3, <2>5, <2>6, <2>7, <2>8, <2>9
<1> QED
  BY <1>2, <1>3, Reading

LEMMA TypesKept ==
  ASSUME TransportType, SenderType, ReceiverType, [Next]_vars
  PROVE  TransportType' /\ SenderType' /\ ReceiverType'
<1>1. CASE Disconnect
  BY <1>1, DisconnectTypes, SameSender, SameReceiver DEF Disconnect
<1>2. CASE \E n \in Sizes : SendData(n)
  BY <1>2, SendDataTypes, SameReceiver DEF SendData
<1>3. CASE WriteMore
  BY <1>3, WriteMoreTypes, SameReceiver DEF WriteMore
<1>4. CASE WriteStops
  BY <1>4, WriteStopsTypes, SameReceiver DEF WriteStops
<1>5. CASE \E n \in Sizes : ReceiveData(n)
  BY <1>5, ReceiveDataTypes, SameSender DEF ReceiveData
<1>6. CASE Read
  BY <1>6, ReadTypes, SameSender DEF Read
<1>7. CASE UNCHANGED vars
  BY <1>7, SameSender, SameReceiver DEF vars, TransportType
<1> QED
  BY <1>1, <1>2, <1>3, <1>4, <1>5, <1>6, <1>7 DEF Next, Sending, Receiving, Writing

-----------------------------------------------------------------------------
(* The line when an element is written or some are read.                    *)

LEMMA LineShape ==
  ASSUME TransportType, SenderType
  PROVE  Line \in Seq(Element) /\ Len(kernel) <= Len(Line)
<1>1. CASE sender.state = "sending"
  <2>1. /\ sender.writes[1] \in Seq(Element) /\ kernel \in Seq(Element)
        /\ Line = kernel \o sender.writes[1]
    BY <1>1, HeadWrite DEF TransportType, Line, LineOf
  <2> DEFINE k == kernel
             w == sender.writes[1]
  <2> HIDE DEF k, w
  <2>2. k \in Seq(Element) /\ w \in Seq(Element) /\ Line = k \o w
    BY <2>1 DEF k, w
  <2>3. k \o w \in Seq(Element) /\ Len(k \o w) = Len(k) + Len(w)
    BY <2>2, Joined
  <2>4. Len(k) \in Nat /\ Len(w) \in Nat
    BY <2>2
  <2> QED
    BY <2>2, <2>3, <2>4 DEF k
<1>2. CASE sender.state # "sending"
  <2>1. Line = kernel /\ kernel \in Seq(Element)
    BY <1>2 DEF TransportType, Line, LineOf
  <2>2. Len(kernel) \in Nat
    BY <2>1
  <2> QED
    BY <2>1, <2>2
<1> QED
  BY <1>1, <1>2

LEMMA LineTaken ==
  ASSUME TransportType, SenderType, NEW r \in 1 .. Len(kernel), Takes(r)
  PROVE  Line' = SubSeq(Line, r + 1, Len(Line)) /\ r \in 0 .. Len(Line)
<1> DEFINE k == kernel
           w == sender.writes[1]
<1>1. k \in Seq(Element) /\ r \in 0 .. Len(k) /\ Len(k) \in Nat
  BY DEF TransportType
<1>2. r \in 0 .. Len(Line)
  BY <1>1, LineShape
<1>3. kernel' = SubSeq(k, r + 1, Len(k)) /\ sender' = sender
  BY DEF Takes
<1>4. CASE sender.state = "sending"
  <2>1. w \in Seq(Element)
    BY <1>4, HeadWrite
  <2>2. Line = k \o w /\ Line' = SubSeq(k, r + 1, Len(k)) \o w
    BY <1>3, <1>4 DEF Line, LineOf
  <2> HIDE DEF k, w
  <2>3. SubSeq(k \o w, r + 1, Len(k \o w)) = SubSeq(k, r + 1, Len(k)) \o w
    BY <1>1, <2>1, TakenOff
  <2> QED
    BY <2>2, <2>3, <1>2
<1>5. CASE sender.state # "sending"
  BY <1>2, <1>3, <1>5 DEF Line, LineOf
<1> QED
  BY <1>4, <1>5

LEMMA LineWritten ==
  ASSUME TransportType, SenderType, WriteMore
  PROVE  /\ sender.state = "sending" /\ link = "up"
         /\ Len(kernel') = Len(kernel) + 1 /\ kernel' \in Seq(Element)
         /\ Len(sender.writes[1]) = 1 => sender' = NextWrite /\ kernel' = Line
         /\ Len(sender.writes[1]) # 1 => sender' = MoreWritten /\ Line' = Line
         /\ \E w \in Seq(Element) : Line = kernel' \o w
<1> DEFINE k == kernel
           w == sender.writes[1]
<1>1. sender.state = "sending" /\ link = "up"
  BY DEF WriteMore
<1>2. Head(sender.writes) = w /\ w \in Seq(Element) /\ w # << >> /\ k \in Seq(Element)
  BY <1>1, HeadWrite DEF TransportType
<1>3. /\ kernel' = Append(k, w[1])
      /\ sender' = IF Len(w) = 1 THEN NextWrite ELSE MoreWritten
  BY <1>2 DEF WriteMore, MoreWritten
<1>4. Line = k \o w
  BY <1>1 DEF Line, LineOf
<1>5. /\ Append(k, w[1]) \in Seq(Element) /\ Len(Append(k, w[1])) = Len(k) + 1
      /\ Len(w) = 1 => Append(k, w[1]) = k \o w
      /\ Len(w) # 1 => Tail(w) \in Seq(Element) /\ Tail(w) # << >>
      /\ Append(k, w[1]) \o Tail(w) = k \o w
  <2> HIDE DEF k, w
  <2> QED
    BY <1>2, Moved
<1>6. ASSUME Len(w) # 1
      PROVE  Line' = Line /\ Tail(w) \in Seq(Element) /\ Line = kernel' \o Tail(w)
  <2>1. sender'.state = "sending" /\ sender'.writes[1] = Tail(w)
    BY <1>1, <1>3, <1>6, GoesOnWriting
  <2>2. Line' = kernel' \o Tail(w)
    BY <2>1 DEF Line, LineOf
  <2> HIDE DEF k, w
  <2> QED
    BY <2>2, <1>3, <1>4, <1>5, <1>6
<1>7. \E u \in Seq(Element) : Line = kernel' \o u
  <2>1. CASE Len(w) = 1
    <3>1. kernel' = Line /\ kernel' \in Seq(Element)
      BY <2>1, <1>3, <1>4, <1>5
    <3>2. kernel' \o << >> = kernel' /\ << >> \in Seq(Element)
      BY <3>1
    <3> QED
      BY <3>1, <3>2
  <2>2. CASE Len(w) # 1
    BY <2>2, <1>6
  <2> QED
    BY <2>1, <2>2
<1> HIDE DEF k, w
<1> QED
  BY <1>1, <1>3, <1>4, <1>5, <1>6, <1>7 DEF k, w

-----------------------------------------------------------------------------
(* Over TCP the line is consecutive bytes.                                  *)

LEMMA FrontOfBytes ==
  ASSUME NEW k \in Seq(Element), NEW w \in Seq(Element), NEW f \in Nat, NEW n \in Nat,
         k \o w = Bytes(f, n)
  PROVE  k = Bytes(f, Len(k)) /\ Len(k) <= n
<1> DEFINE both == Bytes(f, n)
<1>1. /\ k \o w \in Seq(Element) /\ Len(k \o w) = Len(k) + Len(w)
      /\ \A i \in 1 .. Len(k) : (k \o w)[i] = k[i]
  BY Joined
<1>2. Len(both) = n /\ RunOf(both, f)
  BY BytesShape
<1>3. Len(k) \in Nat /\ Len(w) \in Nat
  OBVIOUS
<1> HIDE DEF both
<1>4. k \o w = both
  BY DEF both
<1>5. Len(k) <= n
  BY <1>1, <1>2, <1>3, <1>4
<1>6. ASSUME NEW i \in 1 .. Len(k)
      PROVE  k[i] = <<"byte", f + i - 1>>
  <2>1. i \in 1 .. Len(both)
    BY <1>1, <1>3, <1>4
  <2> QED
    BY <2>1, <1>1, <1>2, <1>4 DEF RunOf
<1>7. RunOf(k, f)
  BY <1>6 DEF RunOf
<1> QED
  BY <1>5, <1>7, AreBytes

LEMMA PartsOfBytes ==
  ASSUME NEW k \in Seq(Element), NEW f \in Nat, NEW r \in 0 .. Len(k), k = Bytes(f, Len(k))
  PROVE  /\ SubSeq(k, 1, r) = Bytes(f, r)
         /\ SubSeq(k, r + 1, Len(k)) = Bytes(f + r, Len(k) - r)
<1> DEFINE n == Len(k)
<1>1. n \in Nat /\ r \in 0 .. n /\ k = Bytes(f, n)
  OBVIOUS
<1> HIDE DEF n
<1>2. /\ SubSeq(Bytes(f, n), 1, r) = Bytes(f, r)
      /\ SubSeq(Bytes(f, n), r + 1, n) = Bytes(f + r, n - r)
  BY <1>1, BytesCut
<1> QED
  BY <1>1, <1>2 DEF n

LEMMA InitUnbroken ==
  ASSUME Init
  PROVE  Unbroken
<1> DEFINE e == << >>
<1>1. e \in Seq(Element) /\ Len(e) = 0 /\ \A f \in Nat : RunOf(e, f)
  BY DEF RunOf
<1> HIDE DEF e
<1>2. e = Bytes(1, 0)
  BY <1>1, AreBytes
<1>3. delivered = e /\ kernel = e /\ receiver.state = "idle" /\ sender.state = "idle" /\ given = 0
  BY DEF Init, e
<1>4. Taken = 0 /\ Line = e
  BY <1>1, <1>3 DEF Taken, Line, LineOf
<1> QED
  BY <1>1, <1>2, <1>3, <1>4 DEF Unbroken

LEMMA TakenNumber ==
  ASSUME TransportType, ReceiverType
  PROVE  Taken \in Nat /\ Len(delivered) \in Nat /\ Len(kernel) \in Nat /\ given \in Nat
BY DEF Taken, TransportType, ReceiverType

LEMMA DisconnectUnbroken ==
  ASSUME TransportType, SenderType, ReceiverType, Unbroken, Disconnect
  PROVE  Unbroken'
<1> SUFFICES ASSUME layer = "TCP", ~cut
             PROVE  Unbroken'
  BY DEF Unbroken, Disconnect
<1> DEFINE k == kernel
           f == Taken + 1
<1>1. /\ link' # "up"
      /\ UNCHANGED <<receiver, delivered>>
  BY DEF Disconnect
<1>2. Taken' = Taken
  BY <1>1 DEF Taken
<1>3. PICK n \in 0 .. Len(k) : kernel' = SubSeq(k, 1, n)
  BY DEF Disconnect
<1>4. k \in Seq(Element) /\ f \in Nat
  BY TakenNumber DEF TransportType
<1>5. Len(kernel') = n
  <2> HIDE DEF k
  <2> QED
    BY <1>3, <1>4, Cut
<1>6. ASSUME receiver.state # "failed"
      PROVE  kernel' = Bytes(Taken' + 1, Len(kernel'))
  <2>1. k = Bytes(f, Len(k))
    BY <1>6 DEF Unbroken
  <2> HIDE DEF k, f
  <2>2. SubSeq(k, 1, n) = Bytes(f, n)
    BY <1>4, <2>1, PartsOfBytes
  <2> QED
    BY <2>2, <1>2, <1>3, <1>5 DEF f
<1>7. /\ delivered = Bytes(1, Len(delivered))
      /\ receiver.state # "failed" => (receiver.state = "data" =>
                               receiver.got = Bytes(Len(delivered) + 1, Len(receiver.got)))
  BY DEF Unbroken
<1> QED
  BY <1>1, <1>6, <1>7 DEF Unbroken

LEMMA SendDataUnbroken ==
  ASSUME TransportType, SenderType, ReceiverType, Unbroken, NEW n \in Sizes, SendData(n)
  PROVE  Unbroken'
<1> SUFFICES ASSUME layer = "TCP", ~cut
             PROVE  Unbroken'
  BY DEF Unbroken, SendData
<1>1. /\ UNCHANGED <<link, receiver, delivered, kernel>> /\ given' = given + n
      /\ sender.state = "idle"
      /\ sender' = [state |-> "sending", begun |-> FALSE, writes |-> << Bytes(given + 1, n) >>]
  BY DEF SendData
<1>2. Taken' = Taken /\ Taken \in Nat /\ given \in Nat /\ n \in Nat
  BY <1>1, TakenNumber, LayersAssumption DEF Taken
<1>3. sender'.state = "sending" /\ sender'.writes[1] = Bytes(given + 1, n)
  BY <1>1
<1>4. Line = kernel /\ Line' = kernel \o Bytes(given + 1, n)
  BY <1>1, <1>3 DEF Line, LineOf
<1>5. ASSUME receiver.state # "failed", link = "up"
      PROVE  given' >= Taken' /\ Line' = Bytes(Taken' + 1, given' - Taken')
  <2>1. given >= Taken /\ Line = Bytes(Taken + 1, given - Taken)
    BY <1>1, <1>5 DEF Unbroken
  <2> DEFINE f == Taken + 1
             m == given - Taken
  <2>2. f \in Nat /\ m \in Nat /\ f + m = given + 1 /\ m + n = given + n - Taken
    BY <1>2, <2>1
  <2>3. Bytes(f, m) \o Bytes(f + m, n) = Bytes(f, m + n)
    BY <2>2, <1>2, BytesJoined
  <2> HIDE DEF f, m
  <2>4. Line' = Bytes(f, given + n - Taken)
    BY <2>1, <2>2, <2>3, <1>4 DEF f, m
  <2> QED
    BY <2>1, <2>4, <1>1, <1>2 DEF f
<1> QED
  BY <1>1, <1>2, <1>5 DEF Unbroken

LEMMA WriteMoreUnbroken ==
  ASSUME TransportType, SenderType, ReceiverType, Unbroken, WriteMore
  PROVE  Unbroken'
<1> SUFFICES ASSUME layer = "TCP", ~cut
             PROVE  Unbroken'
  BY DEF Unbroken, WriteMore
<1>1. UNCHANGED <<link, receiver, delivered, given>>
  BY DEF WriteMore
<1>2. /\ sender.state = "sending" /\ link = "up" /\ kernel' \in Seq(Element)
      /\ Len(sender.writes[1]) = 1 => sender' = NextWrite /\ kernel' = Line
      /\ Len(sender.writes[1]) # 1 => sender' = MoreWritten /\ Line' = Line
      /\ \E w \in Seq(Element) : Line = kernel' \o w
  BY LineWritten
<1>3. Len(sender.writes) = 1
  BY <1>2 DEF SenderType
<1>4. Line' = Line
  <2>1. CASE Len(sender.writes[1]) = 1
    <3>1. sender'.state # "sending"
      BY <1>2, <1>3, <2>1, DoneWriting
    <3> QED
      BY <3>1, <2>1, <1>2 DEF Line, LineOf
  <2> QED
    BY <2>1, <1>2
<1>5. Taken' = Taken /\ Taken \in Nat
  BY <1>1, TakenNumber DEF Taken
<1>6. ASSUME receiver.state # "failed"
      PROVE  /\ kernel' = Bytes(Taken + 1, Len(kernel'))
             /\ given >= Taken /\ Line = Bytes(Taken + 1, given - Taken)
  <2>1. given >= Taken /\ Line = Bytes(Taken + 1, given - Taken)
    BY <1>2, <1>6 DEF Unbroken
  <2> DEFINE f == Taken + 1
             m == given - Taken
  <2>2. f \in Nat /\ m \in Nat
    BY <1>5, <2>1, TakenNumber
  <2>3. PICK w \in Seq(Element) : Line = kernel' \o w
    BY <1>2
  <2>4. kernel' \o w = Bytes(f, m)
    BY <2>1, <2>3
  <2> HIDE DEF f, m
  <2>5. kernel' = Bytes(f, Len(kernel'))
    <3>1. PICK k \in Seq(Element) : k = kernel'
      BY <1>2
    <3>2. k \o w = Bytes(f, m)
      BY <3>1, <2>4
    <3>3. k = Bytes(f, Len(k))
      BY <3>2, <2>2, FrontOfBytes
    <3> QED
      BY <3>1, <3>3
  <2> QED
    BY <2>1, <2>5 DEF f
<1>7. /\ delivered = Bytes(1, Len(delivered))
      /\ receiver.state # "failed" => (receiver.state = "data" =>
                               receiver.got = Bytes(Len(delivered) + 1, Len(receiver.got)))
  BY DEF Unbroken
<1> QED
  BY <1>1, <1>4, <1>5, <1>6, <1>7 DEF Unbroken

LEMMA WriteStopsUnbroken ==
  ASSUME SenderType, Unbroken, WriteStops
  PROVE  Unbroken'
<1> SUFFICES ASSUME layer = "TCP", ~cut'
             PROVE  Unbroken'
  BY DEF Unbroken, WriteStops
<1>1. /\ ~cut /\ UNCHANGED <<link, receiver, delivered, given, kernel>>
      /\ sender' = Throws
  BY DEF WriteStops
<1>2. sender'.state = "failed"
  BY <1>1 DEF Throws, SenderType
<1>3. Taken' = Taken
  BY <1>1 DEF Taken
<1> QED
  BY <1>1, <1>2, <1>3 DEF Unbroken

LEMMA ReceiveDataUnbroken ==
  ASSUME TransportType, ReceiverType, Unbroken, NEW n \in Sizes, ReceiveData(n)
  PROVE  Unbroken'
<1> SUFFICES ASSUME layer = "TCP", ~cut
             PROVE  Unbroken'
  BY DEF Unbroken, ReceiveData
<1>1. /\ UNCHANGED <<link, delivered, given, kernel, sender>> /\ receiver.state = "idle"
      /\ receiver' = [state |-> "data", asked |-> n, need |-> n, got |-> << >>]
  BY DEF ReceiveData, TCPReceive
<1> DEFINE e == << >>
           f == Len(delivered) + 1
<1>2. e \in Seq(Element) /\ Len(e) = 0 /\ RunOf(e, f)
  BY DEF RunOf
<1>3. f \in Nat /\ Len(delivered) \in Nat
  BY TakenNumber
<1> HIDE DEF e, f
<1>4. e = Bytes(f, Len(e))
  BY <1>2, <1>3, AreBytes
<1>5. receiver'.got = e /\ receiver'.state = "data"
  BY <1>1 DEF e
<1>6. Taken' = Taken
  BY <1>1, <1>2, <1>3, <1>5 DEF Taken
<1>7. Line' = Line
  BY <1>1 DEF Line, LineOf
<1> QED
  BY <1>1, <1>4, <1>5, <1>6, <1>7 DEF Unbroken, f

\* What read takes off the line is what was to be read, and what is left follows it.
LEMMA TakenInOrder ==
  ASSUME TransportType, SenderType, ReceiverType, Unbroken, layer = "TCP", ~cut,
         NEW r \in 1 .. Len(kernel), Takes(r), receiver.state = "data"
  PROVE  /\ Got(r) = Bytes(Len(delivered) + 1, Len(Got(r)))
         /\ Len(Got(r)) = Len(receiver.got) + r
         /\ kernel' = Bytes(Taken + r + 1, Len(kernel'))
         /\ link = "up" /\ sender.state # "failed" =>
              given >= Taken + r /\ Line' = Bytes(Taken + r + 1, given - (Taken + r))
<1> DEFINE k == kernel
           g == receiver.got
           d == Len(delivered)
           f == Taken + 1
<1>1. /\ k \in Seq(Element) /\ Len(k) \in Nat /\ r \in 0 .. Len(k) /\ r \in Nat /\ r <= Len(k)
      /\ d \in Nat /\ f \in Nat /\ Taken \in Nat /\ given \in Nat
      /\ g \in Seq(Element) /\ Len(g) \in Nat /\ f = (d + 1) + Len(g)
  BY TakenNumber DEF TransportType, ReceiverType, Taken
<1>2. k = Bytes(f, Len(k)) /\ g = Bytes(d + 1, Len(g))
  BY DEF Unbroken
<1>3. Got(r) \in Seq(Element) /\ Len(Got(r)) = Len(g) + r
  BY <1>1, GotSome
<1>4. Got(r) = g \o SubSeq(k, 1, r) /\ kernel' = SubSeq(k, r + 1, Len(k))
  BY DEF Got, Takes
<1>5. ASSUME link = "up", sender.state # "failed"
      PROVE  given >= Taken /\ Line = Bytes(f, given - Taken)
  BY <1>5 DEF Unbroken
<1> HIDE DEF k, g, d, f
<1>6. /\ SubSeq(k, 1, r) = Bytes(f, r)
      /\ SubSeq(k, r + 1, Len(k)) = Bytes(f + r, Len(k) - r)
      /\ Len(SubSeq(k, r + 1, Len(k))) = Len(k) - r
  BY <1>1, <1>2, PartsOfBytes, Cut
<1>7. Got(r) = Bytes(d + 1, Len(g) + r)
  <2> DEFINE a == d + 1
             n == Len(g)
  <2>1. a \in Nat /\ n \in Nat /\ r \in Nat /\ a + n = f
    BY <1>1
  <2> HIDE DEF a, n
  <2>2. Bytes(a, n) \o Bytes(a + n, r) = Bytes(a, n + r)
    BY <2>1, BytesJoined
  <2>3. Bytes(a, n) \o Bytes(f, r) = Bytes(a, n + r)
    BY <2>1, <2>2
  <2> QED
    BY <2>3, <1>2, <1>4, <1>6 DEF a, n
<1>8. kernel' = Bytes(f + r, Len(kernel'))
  BY <1>4, <1>6
<1>9. ASSUME link = "up", sender.state # "failed"
      PROVE  given >= Taken + r /\ Line' = Bytes(f + r, given - (Taken + r))
  <2> DEFINE l == Line
             m == given - Taken
  <2>1. l \in Seq(Element) /\ Line' = SubSeq(l, r + 1, Len(l)) /\ r \in 0 .. Len(l)
    BY LineShape, LineTaken
  <2>2. m \in Nat /\ l = Bytes(f, m) /\ given - (Taken + r) = m - r
    BY <1>1, <1>5, <1>9
  <2> HIDE DEF l, m
  <2>3. Len(l) = m
    BY <2>2, <1>1, BytesShape
  <2>4. SubSeq(l, r + 1, Len(l)) = Bytes(f + r, m - r)
    <3>1. l = Bytes(f, Len(l)) /\ f \in Nat
      BY <2>2, <2>3, <1>1
    <3>2. SubSeq(l, r + 1, Len(l)) = Bytes(f + r, Len(l) - r)
      BY <3>1, <2>1, PartsOfBytes
    <3> QED
      BY <3>2, <2>3
  <2>5. r <= m
    BY <2>1, <2>3
  <2>6. given >= Taken + r
    BY <2>5, <1>1 DEF m
  <2> QED
    BY <2>1, <2>2, <2>4, <2>6
<1>10. f + r = Taken + r + 1
  BY <1>1 DEF f
<1> QED
  BY <1>3, <1>7, <1>8, <1>9, <1>10 DEF g, d

LEMMA ReadUnbroken ==
  ASSUME TransportType, SenderType, ReceiverType, Unbroken, Read
  PROVE  Unbroken'
<1> SUFFICES ASSUME layer = "TCP", ~cut
             PROVE  Unbroken'
  BY DEF Unbroken, Read
<1>1. delivered = Bytes(1, Len(delivered)) /\ receiver.state \in {"idle", "data", "failed"}
  BY DEF Unbroken, ReceiverType
<1>2. CASE ReadFails
  <2>1. receiver'.state = "failed" /\ delivered' = delivered
    BY <1>2 DEF ReadFails, ReceiverType
  <2> QED
    BY <1>1, <2>1 DEF Unbroken
<1>3. ASSUME NEW r \in 1 .. Len(kernel), ReadsPart(r) \/ ReadsData(r)
      PROVE  Unbroken'
  <2>1. Takes(r) /\ UNCHANGED <<link, given, sender>>
    BY <1>3 DEF ReadsPart, ReadsData, Takes
  <2>2. receiver.state = "data"
    BY <1>1 DEF Read, InTCP
  <2>3. /\ Got(r) = Bytes(Len(delivered) + 1, Len(Got(r)))
        /\ Len(Got(r)) = Len(receiver.got) + r
        /\ kernel' = Bytes(Taken + r + 1, Len(kernel'))
        /\ link = "up" /\ sender.state # "failed" =>
             given >= Taken + r /\ Line' = Bytes(Taken + r + 1, given - (Taken + r))
    BY <2>1, <2>2, TakenInOrder
  <2>4. Taken = Len(delivered) + Len(receiver.got) /\ Len(delivered) \in Nat
        /\ Len(receiver.got) \in Nat /\ r \in Nat
    BY <2>2, TakenNumber DEF Taken, ReceiverType
  <2>5. CASE ReadsPart(r)
    <3>1. receiver'.state = "data" /\ receiver'.got = Got(r) /\ delivered' = delivered
      BY <2>2, <2>5 DEF ReadsPart, ReceiverType
    <3>2. Taken' = Taken + r
      BY <3>1, <2>3, <2>4 DEF Taken
    <3> QED
      BY <1>1, <2>1, <2>3, <3>1, <3>2 DEF Unbroken
  <2>6. CASE ReadsData(r)
    <3>1. receiver'.state = "idle" /\ delivered' = delivered \o Got(r)
      BY <2>6 DEF ReadsData, ReceiverType
    <3> DEFINE n == Len(Got(r))
               d == Len(delivered)
    <3>2. n \in Nat /\ d \in Nat /\ d + n = Taken + r
      BY <2>3, <2>4
    <3>3. delivered = Bytes(1, d) /\ Got(r) = Bytes(d + 1, n)
      BY <1>1, <2>3
    <3> HIDE DEF n, d
    <3>4. Bytes(1, d) \o Bytes(1 + d, n) = Bytes(1, d + n)
      BY <3>2, BytesJoined
    <3>5. 1 + d = d + 1 /\ d + n \in Nat
      BY <3>2
    <3>6. delivered' = Bytes(1, d + n)
      BY <3>1, <3>3, <3>4, <3>5
    <3>7. Len(delivered') = d + n
      BY <3>5, <3>6, BytesShape
    <3>8. Taken' = Taken + r
      BY <3>1, <3>2, <3>7 DEF Taken
    <3>9. delivered' = Bytes(1, Len(delivered'))
      BY <3>6, <3>7
    <3> QED
      BY <2>1, <2>3, <3>1, <3>8, <3>9 DEF Unbroken
  <2> QED
    BY <1>3, <2>5, <2>6
<1>4. ASSUME NEW r \in 1 .. Len(kernel), ReadsHeader(r) \/ ReadsBody(r) \/ FindsNoRecord(r)
      PROVE  FALSE
  BY <1>1, <1>4 DEF ReadsHeader, ReadsBody, FindsNoRecord, InTCP
<1> QED
  BY <1>2, <1>3, <1>4, Reading

-----------------------------------------------------------------------------
(* Over TLS what is opened is what was given, in order.                     *)

LEMMA InitOpened ==
  ASSUME Init
  PROVE  Decrypted
<1> DEFINE e == << >>
<1>1. e \in Seq(Element) /\ Len(e) = 0 /\ \A f \in Nat : RunOf(e, f)
  BY DEF RunOf
<1> HIDE DEF e
<1>2. e = Bytes(1, 0)
  BY <1>1, AreBytes
<1>3. delivered = e /\ plain = e /\ receiver.state = "idle" /\ opened = 0
  BY DEF Init, e
<1> QED
  BY <1>1, <1>2, <1>3 DEF Decrypted

LEMMA OpenedUnchanged ==
  ASSUME Decrypted, UNCHANGED <<layer, receiver, opened, plain, delivered>>
  PROVE  Decrypted'
BY DEF Decrypted

LEMMA ReturnedInOrder ==
  ASSUME TransportType, ReceiverType, NEW n \in Nat, NEW m \in Nat, NEW bytes,
         bytes = Bytes(Len(delivered) + 1, m), Return(n, bytes),
         delivered = Bytes(1, Len(delivered)), opened' = Len(delivered) + m
  PROVE  Decrypted'
<1> DEFINE d == Len(delivered)
           f == d + 1
<1>1. d \in Nat /\ f \in Nat /\ delivered \in Seq(Element)
  BY DEF TransportType
<1>2. bytes = Bytes(f, m) /\ delivered = Bytes(1, d) /\ opened' = d + m
  OBVIOUS
<1> HIDE DEF d, f
<1>3. bytes \in Seq(Element) /\ Len(bytes) = m
  BY <1>1, <1>2, BytesShape
<1>4. /\ m < n => receiver'.state = "failed" /\ delivered' = delivered
      /\ ~(m < n) => /\ receiver'.state = "idle"
                     /\ plain' = SubSeq(bytes, n + 1, m)
                     /\ delivered' = delivered \o SubSeq(bytes, 1, n)
  BY <1>1, <1>3, Returned
<1>5. CASE m < n
  BY <1>2, <1>4, <1>5 DEF Decrypted, d
<1>6. CASE ~(m < n)
  <2>1. n \in 0 .. m /\ m - n \in Nat /\ d + n \in Nat
    BY <1>1, <1>6
  <2>2. SubSeq(bytes, 1, n) = Bytes(f, n) /\ plain' = Bytes(f + n, m - n)
    <3>1. /\ SubSeq(Bytes(f, m), 1, n) = Bytes(f, n)
          /\ SubSeq(Bytes(f, m), n + 1, m) = Bytes(f + n, m - n)
      BY <2>1, <1>1, BytesCut
    <3> QED
      BY <3>1, <1>2, <1>4, <1>6
  <2>3. Bytes(1, d) \o Bytes(1 + d, n) = Bytes(1, d + n)
    BY <1>1, BytesJoined
  <2>4. 1 + d = f /\ f + n = (d + n) + 1 /\ opened' - (d + n) = m - n /\ opened' >= d + n
    BY <1>1, <1>2, <2>1 DEF f
  <2>5. delivered' = Bytes(1, d + n)
    BY <2>2, <2>3, <2>4, <1>2, <1>4, <1>6
  <2>6. Len(delivered') = d + n
    BY <2>1, <2>5, BytesShape
  <2>7. delivered' = Bytes(1, Len(delivered'))
    BY <2>5, <2>6
  <2>8. plain' = Bytes(Len(delivered') + 1, opened' - Len(delivered'))
    BY <2>2, <2>4, <2>6
  <2> QED
    BY <2>4, <2>6, <2>7, <2>8, <1>4, <1>6 DEF Decrypted
<1> QED
  BY <1>5, <1>6

LEMMA NothingPlain ==
  ASSUME TransportType, Decrypted, layer = "TLS", receiver.state # "failed"
  PROVE  /\ Len(plain) = opened - Len(delivered) /\ Len(delivered) \in Nat /\ opened \in Nat
         /\ opened >= Len(delivered)
         /\ plain = << >> => opened = Len(delivered)
<1> DEFINE d == Len(delivered)
           m == opened - d
           f == d + 1
<1>1. d \in Nat /\ f \in Nat /\ opened \in Nat
  BY DEF TransportType
<1>2. opened >= d /\ plain = Bytes(f, m)
  BY DEF Decrypted
<1>3. m \in Nat
  BY <1>1, <1>2
<1> HIDE DEF f, m, d
<1>4. Len(plain) = m
  BY <1>1, <1>2, <1>3, BytesShape
<1>5. plain = << >> => m = 0
  BY <1>4
<1> QED
  BY <1>1, <1>2, <1>4, <1>5 DEF m, d

LEMMA ReceiveDataOpened ==
  ASSUME TransportType, ReceiverType, Decrypted, NEW n \in Sizes, ReceiveData(n)
  PROVE  Decrypted'
<1> SUFFICES ASSUME layer = "TLS"
             PROVE  Decrypted'
  BY DEF Decrypted, ReceiveData
<1>1. receiver.state = "idle" /\ opened' = opened /\ n \in Nat
  BY LayersAssumption DEF ReceiveData
<1>2. CASE plain # << >>
  <2>1. Return(n, plain)
    BY <1>2 DEF ReceiveData
  <2> DEFINE m == opened - Len(delivered)
  <2>2. m \in Nat /\ opened' = Len(delivered) + m
    BY <1>1, NothingPlain
  <2>3. plain = Bytes(Len(delivered) + 1, m) /\ delivered = Bytes(1, Len(delivered))
    BY <1>1 DEF Decrypted
  <2> HIDE DEF m
  <2> QED
    BY <2>1, <2>2, <2>3, <1>1, ReturnedInOrder
<1>3. CASE plain = << >>
  <2>1. receiver'.state = "header" /\ UNCHANGED <<plain, delivered>>
    BY <1>3 DEF ReceiveData, TCPReceive
  <2>2. opened = Len(delivered)
    BY <1>1, <1>3, NothingPlain
  <2> QED
    BY <1>1, <2>1, <2>2 DEF Decrypted
<1> QED
  BY <1>2, <1>3

LEMMA ReadOpened ==
  ASSUME TransportType, ReceiverType, Decrypted, Read
  PROVE  Decrypted'
<1> SUFFICES ASSUME layer = "TLS"
             PROVE  Decrypted'
  BY DEF Decrypted, Read
<1>1. receiver.state \in {"header", "body"} /\ receiver.state # "failed"
  BY DEF Read, InTCP, ReceiverType
<1>2. opened = Len(delivered) /\ delivered = Bytes(1, Len(delivered))
  BY <1>1 DEF Decrypted
<1>3. CASE ReadFails
  BY <1>2, <1>3 DEF ReadFails, ReceiverType, Decrypted
<1>4. ASSUME NEW r \in 1 .. Len(kernel),
             ReadsPart(r) \/ ReadsData(r) \/ ReadsHeader(r) \/ ReadsBody(r) \/ FindsNoRecord(r)
      PROVE  Decrypted'
  <2>1. CASE ReadsPart(r)
    <3>1. receiver'.state = receiver.state /\ UNCHANGED <<plain, opened, delivered>>
      BY <2>1 DEF ReadsPart, ReceiverType
    <3> QED
      BY <3>1, <1>1 DEF Decrypted
  <2>2. CASE ReadsData(r)
    BY <2>2, <1>1 DEF ReadsData
  <2>3. CASE ReadsHeader(r)
    <3>1. receiver'.state = "body" /\ UNCHANGED <<plain, opened, delivered>>
      BY <2>3 DEF ReadsHeader
    <3> QED
      BY <3>1, <1>1 DEF Decrypted
  <2>4. CASE ReadsBody(r)
    <3> DEFINE m == receiver.need
               bytes == Got(r)
    <3>1. m \in Nat /\ receiver.asked \in Nat
      BY DEF ReceiverType
    <3>2. bytes = Bytes(Len(delivered) + 1, m) /\ opened' = Len(delivered) + m
          /\ Return(receiver.asked, bytes)
      BY <1>2, <2>4 DEF ReadsBody
    <3> HIDE DEF m, bytes
    <3> QED
      BY <3>1, <3>2, <1>2, ReturnedInOrder
  <2>5. CASE FindsNoRecord(r)
    <3>1. receiver'.state = "failed" /\ UNCHANGED <<plain, opened, delivered>>
      BY <2>5 DEF FindsNoRecord, ReceiverType
    <3> QED
      BY <3>1, <1>2 DEF Decrypted
  <2> QED
    BY <1>4, <2>1, <2>2, <2>3, <2>4, <2>5
<1> QED
  BY <1>3, <1>4, Reading

-----------------------------------------------------------------------------
(* Over TLS the line is records, as long as nothing disturbs it.            *)

LEMMA InitStream ==
  ASSUME Init
  PROVE  Stream
<1>1. Line = << >> /\ Len(<< >>) = 0 /\ Coming = 1
  BY DEF Init, Line, LineOf, Coming, ComingOf
<1>2. Orderly(Line, Coming, recordEnds) /\ Boundary(Line, 0, opened + 1, Coming)
  BY <1>1 DEF Orderly, Boundary, Init
<1> QED
  BY <1>2 DEF Stream, Reads, PendingOf, Init

\* The first of the records begins where the line ends, and each begins where the one
\* before it ends.
LEMMA SentRecords ==
  ASSUME TransportType, NEW n \in Sizes, SendData(n), layer = "TLS"
  PROVE  LET f == given + 1 IN
         /\ sender'.state = "sending" /\ sender'.writes = Records(f, n)
         /\ Len(sender'.writes) = RecordCount(n)
         /\ \A i \in 1 .. RecordCount(n) :
              FirstOf(sender', i + 1, given') = RecordFirst(f, i) + RecordLength(n, i)
<1> DEFINE f == given + 1
           c == RecordCount(n)
           R == Records(f, n)
<1>1. n \in Nat \ {0} /\ f \in Nat \ {0} /\ f \in Nat /\ given' + 1 = f + n
  BY LayersAssumption DEF TransportType, SendData
<1>2. sender'.state = "sending" /\ sender'.writes = R
  BY DEF SendData
<1> HIDE DEF f
<1>3. Len(R) = c /\ c \in Nat \ {0}
  BY <1>1, RecordsShape, WholeRecords
<1>4. ASSUME NEW i \in 1 .. c
      PROVE  FirstOf(sender', i + 1, given') = RecordFirst(f, i) + RecordLength(n, i)
  <2>1. CASE i < c
    <3>1. i + 1 \in 1 .. c /\ i + 1 <= Len(R)
      BY <2>1, <1>3
    <3>2. FirstOf(sender', i + 1, given') = R[i + 1][1][2]
      BY <3>1, <1>2 DEF FirstOf
    <3>3. R[i + 1][1][2] = RecordFirst(f, i + 1)
      BY <3>1, <1>1, RecordsFollow
    <3>4. RecordFirst(f, i + 1) = RecordFirst(f, i) + RecordLength(n, i)
      BY <2>1, <1>1, RecordParts
    <3> QED
      BY <3>2, <3>3, <3>4
  <2>2. CASE i = c
    <3>1. ~(i + 1 <= Len(R))
      BY <2>2, <1>3
    <3>2. FirstOf(sender', i + 1, given') = given' + 1
      BY <3>1, <1>2 DEF FirstOf
    <3>3. f + n = RecordFirst(f, i) + RecordLength(n, i)
      BY <2>2, <1>1, RecordParts
    <3> QED
      BY <3>2, <3>3, <1>1
  <2> QED
    BY <2>1, <2>2, <1>3
<1> QED
  BY <1>2, <1>3, <1>4 DEF f

LEMMA SendDataStream ==
  ASSUME TransportType, SenderType, ReceiverType, Stream, NEW n \in Sizes, SendData(n)
  PROVE  Stream'
<1> SUFFICES ASSUME Undisturbed
             PROVE  Stream'
  BY DEF Stream, SendData, Undisturbed
<1> DEFINE f == given + 1
           c == RecordCount(n)
           m == RecordLength(n, 1)
<1>1. n \in Nat \ {0} /\ f \in Nat \ {0} /\ f \in Nat
  BY LayersAssumption DEF TransportType
<1>2. /\ sender.state = "idle" /\ UNCHANGED <<receiver, kernel, opened, plain>>
      /\ recordEnds' = recordEnds \cup Ends(f, n) /\ layer = "TLS"
  BY DEF SendData, Undisturbed
<1>3. /\ sender'.state = "sending" /\ sender'.writes = Records(f, n)
      /\ Len(sender'.writes) = c
      /\ \A i \in 1 .. c :
           FirstOf(sender', i + 1, given') = RecordFirst(f, i) + RecordLength(n, i)
  BY <1>2, SentRecords
<1>4. Line = kernel /\ Coming = f /\ Line \in Seq(Element)
  BY <1>2 DEF Line, LineOf, Coming, ComingOf, TransportType
<1> HIDE DEF f
<1>5. c \in Nat \ {0}
  BY <1>1, WholeRecords
<1> HIDE DEF c
<1>6. 1 \in 1 .. RecordCount(n) /\ 1 \in 1 .. c
  BY <1>5 DEF c
<1>7. RecordFirst(f, 1) = f
  <2>1. (1 - 1) * RecordLimit = 0
    BY LayersAssumption
  <2> QED
    BY <2>1, <1>1 DEF RecordFirst
<1>8. m \in Nat \ {0} /\ Records(f, n)[1] = Record(f, m) /\ f + m - 1 \in Ends(f, n)
  <2>1. m \in Nat \ {0}
    BY <1>1, <1>6, RecordParts
  <2>2. /\ Records(f, n)[1] = Record(RecordFirst(f, 1), RecordLength(n, 1))
        /\ RecordFirst(f, 1) + RecordLength(n, 1) - 1 \in Ends(f, n)
    BY <1>1, <1>6, RecordsFollow
  <2> QED
    BY <2>1, <2>2, <1>7
<1> HIDE DEF m
<1>9. Line' = Line \o Record(f, m)
  BY <1>2, <1>3, <1>4, <1>8 DEF Line, LineOf
<1>10. Coming' = f + m
  <2>1. FirstOf(sender', 1 + 1, given') = RecordFirst(f, 1) + RecordLength(n, 1)
    BY <1>3, <1>6
  <2>2. 1 + 1 = 2
    OBVIOUS
  <2> QED
    BY <2>1, <2>2, <1>3, <1>7 DEF Coming, ComingOf, m
<1>11. PendingOf(sender', given', recordEnds')
  <2> SUFFICES ASSUME NEW j \in 2 .. Len(sender'.writes)
               PROVE  /\ IsRecord(sender'.writes[j], recordEnds')
                      /\ FirstOf(sender', j + 1, given')
                           = sender'.writes[j][1][2] + sender'.writes[j][1][3]
    BY DEF PendingOf
  <2>1. j \in 1 .. RecordCount(n) /\ j \in 1 .. c
    BY <1>3, <1>5 DEF c
  <2>2. /\ IsRecord(Records(f, n)[j], recordEnds \cup Ends(f, n))
        /\ Records(f, n)[j][1][2] = RecordFirst(f, j)
        /\ Records(f, n)[j][1][3] = RecordLength(n, j)
    BY <2>1, <1>1, RecordsFollow
  <2> QED
    BY <2>1, <2>2, <1>2, <1>3
<1>12. ASSUME receiver.state # "failed"
       PROVE  Reads(receiver, Line', opened, Coming', recordEnds')
  <2> DEFINE r == receiver
             line == Line
             ends == recordEnds
             more == recordEnds'
             from == opened
  <2>1. /\ r.got \in Seq(Element) /\ r.need \in Nat
        /\ r.state = "body" => Len(r.got) < r.need
    BY DEF ReceiverType, InTCP
  <2>2. from \in Nat /\ line \in Seq(Element)
    BY <1>4 DEF TransportType
  <2>3. Reads(r, line, from, f, ends)
    BY <1>4, <1>12 DEF Stream
  <2>4. ends \subseteq more /\ f + m - 1 \in more
    BY <1>2, <1>8
  <2> HIDE DEF r, line, ends, more, from
  <2>5. Reads(r, line \o Record(f, m), from, f + m, more)
    BY <2>1, <2>2, <2>3, <2>4, <1>1, <1>8, ReadsExtended
  <2> QED
    BY <2>5, <1>9, <1>10 DEF r, line, more, from
<1>13. receiver.state # "failed" => (plain # << >> => opened \in recordEnds')
  BY <1>2 DEF Stream
<1> QED
  BY <1>2, <1>3, <1>11, <1>12, <1>13 DEF Stream

\* The write that is next when the one at the head is done with joins the line.
LEMMA NextRecord ==
  ASSUME TransportType, SenderType, WriteMore, Len(sender.writes[1]) = 1,
         Len(sender.writes) # 1, PendingOf(sender, given, recordEnds)
  PROVE  /\ Coming \in Nat /\ sender.writes[2][1][3] \in Nat \ {0}
         /\ Line' = Line \o Record(Coming, sender.writes[2][1][3])
         /\ Coming' = Coming + sender.writes[2][1][3]
         /\ Coming + sender.writes[2][1][3] - 1 \in recordEnds
         /\ PendingOf(sender', given', recordEnds')
<1> DEFINE w == sender.writes
           v == NextWrite.writes
<1>1. /\ sender.state = "sending" /\ sender' = NextWrite /\ kernel' = Line
      /\ UNCHANGED <<given, recordEnds>>
  BY LineWritten DEF WriteMore
<1>2. /\ NextWrite.state = "sending" /\ Len(v) = Len(w) - 1
      /\ \A j \in 1 .. Len(w) - 1 : v[j] = w[j + 1]
  BY <1>1, DoneWriting
<1>3. Len(w) \in Nat /\ Len(w) >= 2
  <2>1. w \in Seq(Seq(Element)) /\ w # << >>
    BY <1>1 DEF SenderType
  <2> HIDE DEF w
  <2>2. Len(w) \in Nat /\ Len(w) # 0
    BY <2>1
  <2>3. Len(w) # 1
    BY DEF w
  <2> DEFINE n == Len(w)
  <2>4. n \in Nat /\ n # 0 /\ n # 1
    BY <2>2, <2>3
  <2> HIDE DEF n
  <2>5. n \in Nat /\ n >= 2
    BY <2>4
  <2> QED
    BY <2>5 DEF n
<1>4. \A j \in 2 .. Len(w) :
        /\ IsRecord(w[j], recordEnds)
        /\ FirstOf(sender, j + 1, given) = w[j][1][2] + w[j][1][3]
  BY <1>1 DEF PendingOf
<1>5. sender'.writes = v /\ sender'.state = "sending"
  BY <1>1, <1>2
<1>6. ASSUME NEW j \in Nat
      PROVE  FirstOf(sender', j + 1, given') = FirstOf(sender, (j + 1) + 1, given)
  <2>1. CASE j + 1 <= Len(w) - 1
    <3>1. j + 1 \in 1 .. Len(w) - 1 /\ j + 1 <= Len(v) /\ (j + 1) + 1 <= Len(w)
      BY <2>1, <1>2, <1>3
    <3> QED
      BY <3>1, <1>2, <1>5 DEF FirstOf
  <2>2. CASE ~(j + 1 <= Len(w) - 1)
    <3>1. ~(j + 1 <= Len(v)) /\ ~((j + 1) + 1 <= Len(w))
      BY <2>2, <1>2, <1>3
    <3> QED
      BY <3>1, <1>1, <1>5 DEF FirstOf
  <2> QED
    BY <2>1, <2>2
<1> HIDE DEF v
<1>7. Coming = w[2][1][2]
  BY <1>1, <1>3 DEF Coming, ComingOf, FirstOf
<1>8. /\ IsRecord(w[2], recordEnds) /\ FirstOf(sender, 2 + 1, given) = w[2][1][2] + w[2][1][3]
  BY <1>3, <1>4
<1>9. /\ Coming \in Nat /\ w[2][1][3] \in Nat \ {0}
      /\ w[2] = Record(Coming, w[2][1][3]) /\ Coming + w[2][1][3] - 1 \in recordEnds
  BY <1>7, <1>8 DEF IsRecord
<1>10. Line' = Line \o w[2]
  <2>1. v[1] = w[2]
    BY <1>2, <1>3
  <2> QED
    BY <2>1, <1>1, <1>5 DEF Line, LineOf
<1>11. Coming' = w[2][1][2] + w[2][1][3]
  <2>1. FirstOf(sender', 1 + 1, given') = FirstOf(sender, (1 + 1) + 1, given)
    BY <1>6
  <2>2. Coming' = FirstOf(sender', 2, given')
    BY <1>5 DEF Coming, ComingOf
  <2> QED
    BY <2>1, <2>2, <1>8
<1>12. PendingOf(sender', given', recordEnds')
  <2> SUFFICES ASSUME NEW j \in 2 .. Len(sender'.writes)
               PROVE  /\ IsRecord(sender'.writes[j], recordEnds')
                      /\ FirstOf(sender', j + 1, given')
                           = sender'.writes[j][1][2] + sender'.writes[j][1][3]
    BY DEF PendingOf
  <2>1. j \in 1 .. Len(w) - 1 /\ j + 1 \in 2 .. Len(w) /\ j \in Nat
    BY <1>2, <1>3, <1>5
  <2>2. sender'.writes[j] = w[j + 1]
    BY <2>1, <1>2, <1>5
  <2>3. FirstOf(sender', j + 1, given') = FirstOf(sender, (j + 1) + 1, given)
    BY <2>1, <1>6
  <2>4. /\ IsRecord(w[j + 1], recordEnds)
        /\ FirstOf(sender, (j + 1) + 1, given) = w[j + 1][1][2] + w[j + 1][1][3]
    BY <2>1, <1>4
  <2> QED
    BY <2>2, <2>3, <2>4, <1>1
<1> QED
  BY <1>7, <1>9, <1>10, <1>11, <1>12

LEMMA LineStays ==
  ASSUME TransportType, SenderType, WriteMore, PendingOf(sender, given, recordEnds),
         Len(sender.writes[1]) # 1 \/ Len(sender.writes) = 1
  PROVE  Line' = Line /\ Coming' = Coming /\ PendingOf(sender', given', recordEnds')
<1>1. /\ sender.state = "sending" /\ UNCHANGED <<given, recordEnds>>
      /\ Len(sender.writes[1]) = 1 => sender' = NextWrite /\ kernel' = Line
      /\ Len(sender.writes[1]) # 1 => sender' = MoreWritten /\ Line' = Line
  BY LineWritten DEF WriteMore
<1>2. CASE Len(sender.writes[1]) # 1
  <2> DEFINE s == MoreWritten
             w == sender.writes
  <2>1. /\ s.state = "sending" /\ Len(s.writes) = Len(w)
        /\ \A j \in 2 .. Len(w) : s.writes[j] = w[j]
    BY <1>1, <1>2, GoesOnWriting
  <2>2. sender' = s /\ Line' = Line
    BY <1>1, <1>2
  <2>3. Len(w) \in Nat
    BY DEF SenderType
  <2> HIDE DEF s
  <2>4. ASSUME NEW j \in Nat \ {0, 1}
        PROVE  FirstOf(s, j, given) = FirstOf(sender, j, given)
    <3>1. CASE j <= Len(w)
      <4>1. j \in 2 .. Len(w)
        BY <3>1, <2>3
      <4> QED
        BY <4>1, <3>1, <2>1 DEF FirstOf
    <3>2. CASE ~(j <= Len(w))
      BY <3>2, <2>1 DEF FirstOf
    <3> QED
      BY <3>1, <3>2
  <2>5. Coming' = Coming
    BY <1>1, <2>1, <2>2, <2>4 DEF Coming, ComingOf
  <2>6. PendingOf(sender', given', recordEnds')
    <3> SUFFICES ASSUME NEW j \in 2 .. Len(w)
                 PROVE  /\ IsRecord(s.writes[j], recordEnds)
                        /\ FirstOf(s, j + 1, given) = s.writes[j][1][2] + s.writes[j][1][3]
      BY <1>1, <2>1, <2>2 DEF PendingOf
    <3>1. j + 1 \in Nat \ {0, 1} /\ s.writes[j] = w[j]
      BY <2>1, <2>3
    <3>2. FirstOf(s, j + 1, given) = FirstOf(sender, j + 1, given)
      BY <3>1, <2>4
    <3>3. /\ IsRecord(w[j], recordEnds)
          /\ FirstOf(sender, j + 1, given) = w[j][1][2] + w[j][1][3]
      BY <1>1 DEF PendingOf
    <3> QED
      BY <3>1, <3>2, <3>3
  <2> QED
    BY <2>2, <2>5, <2>6
<1>3. CASE Len(sender.writes[1]) = 1 /\ Len(sender.writes) = 1
  <2>1. sender'.state # "sending" /\ kernel' = Line
    BY <1>1, <1>3, DoneWriting
  <2>2. Line' = Line /\ Coming' = given + 1
    BY <2>1, <1>1 DEF Line, LineOf, Coming, ComingOf
  <2>3. Coming = given + 1
    BY <1>1, <1>3 DEF Coming, ComingOf, FirstOf
  <2> QED
    BY <2>1, <2>2, <2>3 DEF PendingOf
<1> QED
  BY <1>2, <1>3

LEMMA WriteMoreStream ==
  ASSUME TransportType, SenderType, ReceiverType, Stream, WriteMore
  PROVE  Stream'
<1> SUFFICES ASSUME Undisturbed
             PROVE  Stream'
  BY DEF Stream, WriteMore, Undisturbed
<1>1. /\ PendingOf(sender, given, recordEnds)
      /\ UNCHANGED <<receiver, opened, plain, recordEnds>> /\ sender.state = "sending"
  BY DEF Stream, WriteMore
<1>2. sender'.state # "failed"
  <2>1. /\ Len(sender.writes[1]) = 1 => sender' = NextWrite
        /\ Len(sender.writes[1]) # 1 => sender' = MoreWritten
    BY LineWritten
  <2> QED
    BY <2>1, <1>1, DoneWriting, GoesOnWriting
<1>3. ASSUME receiver.state # "failed"
      PROVE  Reads(receiver, Line, opened, Coming, recordEnds)
             /\ (plain # << >> => opened \in recordEnds)
  BY <1>3 DEF Stream
<1>4. CASE Len(sender.writes[1]) # 1 \/ Len(sender.writes) = 1
  <2>1. Line' = Line /\ Coming' = Coming /\ PendingOf(sender', given', recordEnds')
    BY <1>1, <1>4, LineStays
  <2> QED
    BY <2>1, <1>1, <1>2, <1>3 DEF Stream
<1>5. CASE Len(sender.writes[1]) = 1 /\ Len(sender.writes) # 1
  <2> DEFINE n == sender.writes[2][1][3]
             f == Coming
             line == Line
             r == receiver
             ends == recordEnds
             from == opened
  <2>1. /\ f \in Nat /\ n \in Nat \ {0} /\ Line' = line \o Record(f, n) /\ Coming' = f + n
        /\ f + n - 1 \in ends /\ PendingOf(sender', given', recordEnds')
    BY <1>1, <1>5, NextRecord
  <2>2. /\ r.got \in Seq(Element) /\ r.need \in Nat
        /\ r.state = "body" => Len(r.got) < r.need
    BY DEF ReceiverType, InTCP
  <2>3. from \in Nat /\ line \in Seq(Element)
    BY LineShape DEF TransportType
  <2>4. r.state # "failed" => Reads(r, line, from, f, ends)
    BY <1>3
  <2> HIDE DEF n, f, line, r, ends, from
  <2>5. r.state # "failed" => Reads(r, line \o Record(f, n), from, f + n, ends)
    BY <2>1, <2>2, <2>3, <2>4, ReadsExtended
  <2>6. r = receiver' /\ from = opened' /\ ends = recordEnds'
    BY <1>1 DEF r, from, ends
  <2>7. receiver'.state # "failed" => Reads(receiver', Line', opened', Coming', recordEnds')
    BY <2>1, <2>5, <2>6
  <2> QED
    BY <2>1, <2>7, <1>1, <1>2, <1>3 DEF Stream
<1> QED
  BY <1>4, <1>5

LEMMA ReceiveDataStream ==
  ASSUME TransportType, ReceiverType, Stream, NEW n \in Sizes, ReceiveData(n)
  PROVE  Stream'
<1> SUFFICES ASSUME Undisturbed
             PROVE  Stream'
  BY DEF Stream, ReceiveData, Undisturbed
<1>1. /\ UNCHANGED <<given, recordEnds, sender, kernel, opened>> /\ receiver.state = "idle"
      /\ layer = "TLS" /\ n \in Nat
  BY LayersAssumption DEF ReceiveData, Undisturbed
<1>2. /\ sender.state # "failed" /\ PendingOf(sender, given, recordEnds)
      /\ Reads(receiver, Line, opened, Coming, recordEnds)
      /\ plain # << >> => opened \in recordEnds
  BY <1>1 DEF Stream
<1>3. receiver'.state # "body"
  <2>1. CASE plain # << >>
    <3>1. Return(n, plain) /\ plain \in Seq(Element) /\ delivered \in Seq(Element)
      BY <1>1, <2>1 DEF ReceiveData, TransportType
    <3> QED
      BY <3>1, <1>1, Returned
  <2>2. CASE plain = << >>
    BY <1>1, <2>2 DEF ReceiveData, TCPReceive
  <2> QED
    BY <2>1, <2>2
<1>4. Line' = Line /\ Coming' = Coming
  BY <1>1 DEF Line, LineOf, Coming, ComingOf, FirstOf
<1>5. Reads(receiver', Line, opened, Coming, recordEnds)
  BY <1>1, <1>2, <1>3 DEF Reads
<1>6. plain' # << >> => opened \in recordEnds
  <2>1. CASE plain # << >>
    BY <2>1, <1>2
  <2>2. CASE plain = << >>
    BY <1>1, <2>2 DEF ReceiveData
  <2> QED
    BY <2>1, <2>2, <1>2
<1> QED
  BY <1>1, <1>2, <1>4, <1>5, <1>6 DEF Stream

LEMMA FrontOfLine ==
  ASSUME TransportType, SenderType, NEW i \in 1 .. Len(kernel)
  PROVE  Line[i] = kernel[i] /\ i \in 1 .. Len(Line)
<1> DEFINE k == kernel
           w == sender.writes[1]
<1>1. k \in Seq(Element) /\ i \in 1 .. Len(k) /\ Len(k) \in Nat
  BY DEF TransportType
<1>2. Line \in Seq(Element) /\ Len(k) <= Len(Line)
  BY LineShape
<1>3. i \in 1 .. Len(Line)
  BY <1>1, <1>2
<1>4. CASE sender.state = "sending"
  <2>1. w \in Seq(Element) /\ Line = k \o w
    BY <1>4, HeadWrite DEF Line, LineOf
  <2> HIDE DEF k, w
  <2>2. (k \o w)[i] = k[i]
    BY <1>1, <2>1, Joined
  <2> QED
    BY <2>1, <2>2, <1>3 DEF k
<1>5. CASE sender.state # "sending"
  BY <1>3, <1>5 DEF Line, LineOf
<1> QED
  BY <1>4, <1>5

\* What a reader of a header finds in front of it, and what a reader of a body does.
LEMMA HeaderInFront ==
  ASSUME TransportType, SenderType, ReceiverType, Stream, Undisturbed,
         receiver.state = "header", NEW r \in 1 .. Len(kernel), Len(Got(r)) <= receiver.need
  PROVE  /\ r = 1 /\ Len(Got(r)) = receiver.need
         /\ Got(r)[1] = Line[1] /\ 1 \in 1 .. Len(Line)
         /\ Line[1][1] = "header" /\ Line[1][2] = opened + 1 /\ Line[1][3] \in Nat \ {0}
         /\ RecordAt(Line, 1, opened + 1, Line[1][3], Coming, recordEnds)
<1>1. Len(kernel) \in Nat /\ Len(receiver.got) \in Nat /\ receiver.need = 1
  BY DEF TransportType, ReceiverType
<1>2. /\ Len(Got(r)) = Len(receiver.got) + r
      /\ \A i \in 1 .. r : Got(r)[Len(receiver.got) + i] = kernel[i]
  BY <1>1, GotSome
<1>3. r = 1 /\ Len(receiver.got) = 0
  BY <1>1, <1>2
<1>4. Got(r)[1] = kernel[1]
  <2>1. 1 \in 1 .. r /\ Len(receiver.got) + 1 = 1
    BY <1>3
  <2> QED
    BY <2>1, <1>2
<1>5. kernel[1] = Line[1] /\ 1 \in 1 .. Len(Line)
  BY <1>3, FrontOfLine
<1>6. Line \in Seq(Element)
  BY LineShape
<1>7. Boundary(Line, 0, opened + 1, Coming) /\ Orderly(Line, Coming, recordEnds)
  BY DEF Stream, Reads
<1>8. Line[1][1] = "header" /\ Line[1][2] = opened + 1
  <2>1. 0 < Len(Line) /\ 0 + 1 = 1
    BY <1>5, <1>6
  <2> QED
    BY <2>1, <1>7 DEF Boundary
<1>9. Line[1] \in Element
  BY <1>5, <1>6
<1>10. Line[1][3] \in Nat \ {0}
  BY <1>8, <1>9, Elements
<1>11. RecordAt(Line, 1, Line[1][2], Line[1][3], Coming, recordEnds)
  BY <1>5, <1>7, <1>8 DEF Orderly
<1> QED
  BY <1>1, <1>2, <1>3, <1>4, <1>5, <1>8, <1>10, <1>11

LEMMA BodyInFront ==
  ASSUME TransportType, SenderType, ReceiverType, Stream, Undisturbed,
         receiver.state = "body", NEW r \in 1 .. Len(kernel), Len(Got(r)) <= receiver.need
  PROVE  Got(r) = Bytes(opened + 1, Len(Got(r))) /\ Len(Got(r)) = Len(receiver.got) + r
<1> DEFINE g == receiver.got
           n == receiver.need
           f == opened + 1
           s == Got(r)
<1>1. Len(kernel) \in Nat /\ g \in Seq(Element) /\ Len(g) \in Nat /\ n \in Nat /\ f \in Nat
  BY DEF TransportType, ReceiverType
<1>2. /\ s \in Seq(Element) /\ Len(s) = Len(g) + r
      /\ \A i \in 1 .. Len(g) : s[i] = g[i]
      /\ \A i \in 1 .. r : s[Len(g) + i] = kernel[i]
  BY <1>1, GotSome
<1>3. g = Bytes(f, Len(g)) /\ RecordAt(Line, 0 - Len(g), f, n, Coming, recordEnds)
  BY DEF Stream, Reads
<1>4. Len(s) <= n
  OBVIOUS
<1> HIDE DEF g, n, f, s
<1>5. RunOf(g, f)
  BY <1>1, <1>3, BytesShape
<1>6. \A k \in 1 .. n : (0 - Len(g)) + k >= 1 => Line[(0 - Len(g)) + k] = <<"byte", f + k - 1>>
  BY <1>3 DEF RecordAt
<1>7. ASSUME NEW k \in 1 .. Len(s)
      PROVE  s[k] = <<"byte", f + k - 1>>
  <2>1. CASE k <= Len(g)
    <3>1. k \in 1 .. Len(g)
      BY <2>1, <1>1
    <3> QED
      BY <3>1, <1>2, <1>5 DEF RunOf
  <2>2. CASE k > Len(g)
    <3> DEFINE i == k - Len(g)
    <3>1. /\ i \in 1 .. r /\ Len(g) + i = k /\ (0 - Len(g)) + k = i /\ k \in 1 .. n
          /\ i >= 1 /\ i \in 1 .. Len(kernel)
      BY <2>2, <1>1, <1>2, <1>4
    <3> HIDE DEF i
    <3>2. Line[i] = kernel[i]
      BY <3>1, FrontOfLine
    <3>3. s[k] = kernel[i]
      BY <3>1, <1>2
    <3>4. Line[i] = <<"byte", f + k - 1>>
      BY <3>1, <1>6
    <3> QED
      BY <3>2, <3>3, <3>4
  <2>3. k \in Nat /\ (k <= Len(g) \/ k > Len(g))
    BY <1>1, <1>2
  <2> QED
    BY <2>1, <2>2, <2>3
<1>8. RunOf(s, f)
  BY <1>7 DEF RunOf
<1>9. s = Bytes(f, Len(s))
  BY <1>1, <1>2, <1>8, AreBytes
<1> QED
  BY <1>2, <1>9 DEF s, f, g

\* The reader stands behind what it has taken.
LEMMA LineAfter ==
  ASSUME TransportType, SenderType, NEW r \in 1 .. Len(kernel), Takes(r), NEW coming, NEW ends,
         Orderly(Line, coming, ends)
  PROVE  /\ Orderly(Line', coming, ends)
         /\ \A i \in Nat : \A f :
              i >= r /\ Boundary(Line, i, f, coming) => Boundary(Line', i - r, f, coming)
         /\ \A i \in Int : \A n \in Nat : \A f :
              i + n >= r /\ RecordAt(Line, i, f, n, coming, ends)
                => RecordAt(Line', i - r, f, n, coming, ends)
<1> DEFINE line == Line
<1>1. line \in Seq(Element) /\ Line' = SubSeq(line, r + 1, Len(line)) /\ r \in 0 .. Len(line)
      /\ Orderly(line, coming, ends)
  BY LineShape, LineTaken
<1> HIDE DEF line
<1>2. Orderly(Line', coming, ends)
  BY <1>1, OrderlyConsumed
<1>3. ASSUME NEW i \in Nat, NEW f, i >= r, Boundary(line, i, f, coming)
      PROVE  Boundary(Line', i - r, f, coming)
  BY <1>1, <1>3, BoundaryConsumed
<1>4. ASSUME NEW i \in Int, NEW n \in Nat, NEW f, i + n >= r, RecordAt(line, i, f, n, coming, ends)
      PROVE  RecordAt(Line', i - r, f, n, coming, ends)
  BY <1>1, <1>4, RecordConsumed
<1> QED
  BY <1>2, <1>3, <1>4 DEF line

LEMMA ReadStream ==
  ASSUME TransportType, SenderType, ReceiverType, Stream, Read
  PROVE  Stream'
<1> SUFFICES ASSUME Undisturbed, Undisturbed'
             PROVE  Stream'
  <2>1. layer' = layer /\ link' = link
    BY DEF Read
  <2>2. ASSUME Undisturbed'
        PROVE  Undisturbed
    <3>1. CASE ReadFails
      BY <2>1, <2>2, <3>1 DEF ReadFails, Undisturbed, TransportType
    <3>2. CASE ~ReadFails
      <4>1. signals' = signals
        BY <3>2, Reading DEF ReadsPart, ReadsData, ReadsHeader, ReadsBody, FindsNoRecord, Takes
      <4> QED
        BY <2>1, <2>2, <4>1 DEF Undisturbed
    <3> QED
      BY <3>1, <3>2
  <2> QED
    BY <2>2 DEF Stream
<1>1. /\ sender.state # "failed" /\ PendingOf(sender, given, recordEnds)
      /\ UNCHANGED <<given, recordEnds, sender>> /\ layer = "TLS"
  BY DEF Read, Stream, Undisturbed
<1>2. /\ receiver.state \in {"header", "body"} /\ receiver.state # "failed"
      /\ Len(receiver.got) < receiver.need
      /\ receiver.need \in Nat /\ Len(receiver.got) \in Nat /\ opened \in Nat
  BY <1>1 DEF Read, InTCP, ReceiverType, TransportType
<1>3. /\ Reads(receiver, Line, opened, Coming, recordEnds)
      /\ plain # << >> => opened \in recordEnds
  BY <1>2 DEF Stream
<1>4. Coming' = Coming
  BY <1>1 DEF Coming, ComingOf, FirstOf
<1>5. CASE ReadFails
  BY <1>5 DEF ReadFails, Undisturbed
<1>6. ASSUME NEW r \in 1 .. Len(kernel),
             ReadsPart(r) \/ ReadsData(r) \/ ReadsHeader(r) \/ ReadsBody(r) \/ FindsNoRecord(r)
      PROVE  Stream'
  <2>1. Takes(r) /\ Len(Got(r)) \in Nat /\ Len(Got(r)) <= receiver.need /\ r \in Nat
    <3>1. Takes(r) /\ (Len(Got(r)) = receiver.need \/ Len(Got(r)) < receiver.need)
      BY <1>6 DEF ReadsPart, ReadsData, ReadsHeader, ReadsBody, FindsNoRecord
    <3>2. Len(kernel) \in Nat
      BY DEF TransportType
    <3>3. Len(Got(r)) = Len(receiver.got) + r
      BY <3>2, GotSome
    <3> QED
      BY <3>1, <3>2, <3>3, <1>2
  <2>2. /\ Orderly(Line', Coming, recordEnds)
        /\ \A i \in Nat : \A f :
             i >= r /\ Boundary(Line, i, f, Coming) => Boundary(Line', i - r, f, Coming)
        /\ \A i \in Int : \A n \in Nat : \A f :
             i + n >= r /\ RecordAt(Line, i, f, n, Coming, recordEnds)
               => RecordAt(Line', i - r, f, n, Coming, recordEnds)
    BY <2>1, <1>3, LineAfter DEF Reads
  <2>3. CASE ReadsPart(r)
    <3>1. receiver.state = "body"
      BY <2>1, <2>3, <1>2, HeaderInFront DEF ReadsPart
    <3>2. Got(r) = Bytes(opened + 1, Len(Got(r))) /\ Len(Got(r)) = Len(receiver.got) + r
      BY <2>1, <3>1, BodyInFront
    <3>3. /\ receiver'.state = "body" /\ receiver'.got = Got(r) /\ receiver'.need = receiver.need
          /\ UNCHANGED <<opened, plain>>
      BY <2>3, <3>1 DEF ReadsPart, ReceiverType
    <3> DEFINE i == 0 - Len(receiver.got)
               f == opened + 1
               n == receiver.need
    <3>4. RecordAt(Line, i, f, n, Coming, recordEnds)
      BY <3>1, <1>3 DEF Reads
    <3>5. i \in Int /\ n \in Nat /\ i + n >= r /\ i - r = 0 - Len(Got(r))
      BY <3>2, <2>1, <1>2
    <3> HIDE DEF i, f, n
    <3>6. RecordAt(Line', i - r, f, n, Coming, recordEnds)
      BY <3>4, <3>5, <2>2
    <3>7. RecordAt(Line', 0 - Len(receiver'.got), opened' + 1, receiver'.need, Coming', recordEnds')
      BY <3>3, <3>5, <3>6, <1>1, <1>4 DEF f, n
    <3>8. receiver'.got = Bytes(opened' + 1, Len(receiver'.got))
      BY <3>2, <3>3
    <3>9. Reads(receiver', Line', opened', Coming', recordEnds')
      BY <3>3, <3>7, <3>8, <2>2, <1>1, <1>4 DEF Reads
    <3> QED
      BY <3>3, <3>9, <1>1, <1>3 DEF Stream
  <2>4. CASE ReadsData(r)
    BY <2>4, <1>2 DEF ReadsData
  <2>5. CASE ReadsHeader(r)
    <3>1. receiver.state = "header"
      BY <2>5 DEF ReadsHeader
    <3> DEFINE n == Line[1][3]
               f == opened + 1
    <3>2. /\ r = 1 /\ Got(r)[1] = Line[1] /\ n \in Nat \ {0}
          /\ RecordAt(Line, 1, f, n, Coming, recordEnds)
      BY <2>1, <3>1, HeaderInFront
    <3> DEFINE e == << >>
    <3>3. e \in Seq(Element) /\ Len(e) = 0 /\ RunOf(e, f)
      BY DEF RunOf
    <3>4. /\ receiver'.state = "body" /\ receiver'.got = e /\ receiver'.need = Got(r)[1][3]
          /\ UNCHANGED <<opened, plain>>
      BY <2>5 DEF ReadsHeader
    <3> HIDE DEF e, n
    <3>5. receiver'.need = n
      BY <3>2, <3>4 DEF n
    <3>6. f \in Nat
      BY <1>2
    <3> HIDE DEF f
    <3>7. e = Bytes(f, Len(e))
      BY <3>3, <3>6, AreBytes
    <3>8. RecordAt(Line', 1 - r, f, n, Coming, recordEnds)
      <4> DEFINE i == 1
      <4>1. i \in Int /\ n \in Nat /\ i + n >= r /\ RecordAt(Line, i, f, n, Coming, recordEnds)
        BY <3>2, <2>1
      <4> HIDE DEF i
      <4>2. RecordAt(Line', i - r, f, n, Coming, recordEnds)
        BY <4>1, <2>2
      <4> QED
        BY <4>2 DEF i
    <3>9. 1 - r = 0 - Len(e)
      BY <3>2, <3>3
    <3>10. Reads(receiver', Line', opened', Coming', recordEnds')
      BY <3>4, <3>5, <3>7, <3>8, <3>9, <2>2, <1>1, <1>4 DEF Reads, f
    <3> QED
      BY <3>4, <3>10, <1>1, <1>3 DEF Stream
  <2>6. CASE ReadsBody(r)
    <3>1. receiver.state = "body" /\ Len(Got(r)) = receiver.need
          /\ opened' = opened + receiver.need /\ Return(receiver.asked, Got(r))
      BY <2>6 DEF ReadsBody
    <3> DEFINE i == 0 - Len(receiver.got)
               f == opened + 1
               n == receiver.need
    <3>2. RecordAt(Line, i, f, n, Coming, recordEnds) /\ n = Len(receiver.got) + r
      BY <3>1, <2>1, <1>3, BodyInFront DEF Reads
    <3>3. /\ i + n = r /\ f + n - 1 = opened' /\ f + n = opened' + 1
      <4> DEFINE p == Len(receiver.got)
                 o == opened
      <4>1. p \in Nat /\ o \in Nat /\ r \in Nat /\ n = p + r /\ opened' = o + n
        BY <3>1, <3>2, <2>1, <1>2
      <4> HIDE DEF p, o, n
      <4>2. (0 - p) + n = r /\ (o + 1) + n - 1 = opened' /\ (o + 1) + n = opened' + 1
        BY <4>1
      <4> QED
        BY <4>2 DEF p, o
    <3>4. Boundary(Line, i + n, f + n, Coming) /\ f + n - 1 \in recordEnds
      BY <3>2 DEF RecordAt
    <3> HIDE DEF i, f, n
    <3>5. opened' \in recordEnds /\ Boundary(Line, r, opened' + 1, Coming)
      BY <3>3, <3>4
    <3>6. Boundary(Line', r - r, opened' + 1, Coming)
      BY <3>5, <2>1, <2>2
    <3>7. r - r = 0
      BY <2>1
    <3>8. receiver'.state # "body"
      <4>1. receiver.asked \in Nat /\ Got(r) \in Seq(Element) /\ delivered \in Seq(Element)
        <5>1. Len(kernel) \in Nat
          BY DEF TransportType
        <5> QED
          BY <5>1, GotSome DEF TransportType, ReceiverType
      <4> QED
        BY <4>1, <3>1, Returned
    <3>9. Reads(receiver', Line', opened', Coming', recordEnds')
      BY <3>6, <3>7, <3>8, <2>2, <1>1, <1>4 DEF Reads
    <3> QED
      BY <3>5, <3>9, <1>1 DEF Stream
  <2>7. CASE FindsNoRecord(r)
    <3>1. receiver'.state = "failed"
      BY <2>7 DEF FindsNoRecord, ReceiverType
    <3> QED
      BY <3>1, <1>1 DEF Stream
  <2> QED
    BY <1>6, <2>3, <2>4, <2>5, <2>6, <2>7
<1> QED
  BY <1>5, <1>6, Reading

-----------------------------------------------------------------------------
(* A receiver that failed had a reason to.                                  *)

LEMMA StillExplained ==
  ASSUME FailuresExplained, UNCHANGED <<layer, receiver, delivered>>,
         recordEnds \subseteq recordEnds',
         (link # "up" \/ signals > 0) => (link' # "up" \/ signals' > 0)
  PROVE  FailuresExplained'
BY DEF FailuresExplained

\* ...to return less than it was asked for, at the end of a record.
LEMMA FailsAtRecordEnd ==
  ASSUME TransportType, ReceiverType, NEW n \in Nat, NEW bytes \in Seq(Element), Return(n, bytes),
         layer' = "TLS", NEW e \in recordEnds', Len(delivered) < e,
         e = Len(delivered) + Len(bytes)
  PROVE  FailuresExplained'
<1>1. delivered \in Seq(Element) /\ Len(delivered) \in Nat /\ Len(bytes) \in Nat
  BY DEF TransportType
<1>2. /\ Len(bytes) < n => receiver'.state = "failed" /\ delivered' = delivered
      /\ ~(Len(bytes) < n) => receiver'.state = "idle"
      /\ receiver'.asked = n
  BY <1>1, Returned
<1>3. CASE Len(bytes) < n
  <2>1. e < Len(delivered') + receiver'.asked /\ Len(delivered') < e
    BY <1>1, <1>2, <1>3
  <2> QED
    BY <2>1 DEF FailuresExplained
<1>4. CASE ~(Len(bytes) < n)
  BY <1>2, <1>4 DEF FailuresExplained
<1> QED
  BY <1>3, <1>4

LEMMA ReceiveDataExplained ==
  ASSUME TransportType, ReceiverType, Decrypted, Stream, NEW n \in Sizes, ReceiveData(n)
  PROVE  FailuresExplained'
<1>1. /\ receiver.state = "idle" /\ n \in Nat
      /\ UNCHANGED <<layer, link, signals, recordEnds>>
  BY LayersAssumption DEF ReceiveData
<1>2. CASE layer = "TLS" /\ plain # << >>
  <2>1. Return(n, plain) /\ plain \in Seq(Element) /\ Len(plain) \in Nat
    BY <1>2 DEF ReceiveData, TransportType
  <2>2. CASE link # "up" \/ signals > 0
    BY <2>2, <1>1 DEF FailuresExplained
  <2>3. CASE link = "up" /\ ~(signals > 0)
    <3>1. Undisturbed
      BY <2>3, <1>2 DEF Undisturbed, TransportType
    <3> DEFINE e == opened
    <3>2. e \in recordEnds'
      BY <3>1, <1>1, <1>2 DEF Stream
    <3>3. Len(plain) = e - Len(delivered) /\ Len(delivered) \in Nat /\ e \in Nat
      BY <1>1, <1>2, NothingPlain
    <3> HIDE DEF e
    <3>4. Len(plain) # 0
      BY <1>2, <2>1
    <3>5. Len(delivered) < e /\ e = Len(delivered) + Len(plain)
      BY <2>1, <3>3, <3>4
    <3>6. layer' = "TLS"
      BY <1>1, <1>2
    <3> QED
      BY <2>1, <3>2, <3>5, <3>6, <1>1, FailsAtRecordEnd
  <2> QED
    BY <2>2, <2>3
<1>3. CASE ~(layer = "TLS" /\ plain # << >>)
  <2>1. receiver'.state # "failed"
    BY <1>3 DEF ReceiveData, TCPReceive
  <2> QED
    BY <2>1 DEF FailuresExplained
<1> QED
  BY <1>2, <1>3

LEMMA ReadExplained ==
  ASSUME TransportType, SenderType, ReceiverType, Decrypted, Stream, Read
  PROVE  FailuresExplained'
<1>1. UNCHANGED <<layer, link, recordEnds>> /\ InTCP
  BY DEF Read
<1>2. CASE ReadFails
  BY <1>1, <1>2 DEF ReadFails, FailuresExplained
<1>3. ASSUME NEW r \in 1 .. Len(kernel),
             ReadsPart(r) \/ ReadsData(r) \/ ReadsHeader(r) \/ ReadsBody(r) \/ FindsNoRecord(r)
      PROVE  FailuresExplained'
  <2>1. Takes(r) /\ signals' = signals
    BY <1>3 DEF ReadsPart, ReadsData, ReadsHeader, ReadsBody, FindsNoRecord, Takes
  <2>2. CASE ReadsPart(r) \/ ReadsData(r) \/ ReadsHeader(r)
    <3>1. receiver'.state # "failed"
      BY <1>1, <2>2 DEF ReadsPart, ReadsData, ReadsHeader, ReceiverType, InTCP
    <3> QED
      BY <3>1 DEF FailuresExplained
  <2>3. CASE (ReadsBody(r) \/ FindsNoRecord(r)) /\ (link # "up" \/ signals > 0)
    BY <2>3, <2>1, <1>1 DEF FailuresExplained
  <2>4. CASE (ReadsBody(r) \/ FindsNoRecord(r)) /\ ~(link # "up" \/ signals > 0)
    <3>1. layer = "TLS" /\ receiver.state \in {"header", "body"}
      BY <2>4, <1>1 DEF ReadsBody, FindsNoRecord, ReceiverType, TransportType, InTCP
    <3>2. Undisturbed
      BY <2>4, <3>1 DEF Undisturbed, TransportType
    <3>3. Len(Got(r)) = receiver.need /\ receiver.need \in Nat /\ Len(Got(r)) <= receiver.need
      <4>1. Len(Got(r)) = receiver.need /\ receiver.need \in Nat
        BY <2>4 DEF ReadsBody, FindsNoRecord, ReceiverType
      <4> QED
        BY <4>1
    <3>4. CASE receiver.state = "header"
      <4>1. Got(r)[1][1] = "header"
        BY <3>2, <3>3, <3>4, HeaderInFront
      <4> QED
        BY <4>1, <3>4, <2>4 DEF ReadsBody, FindsNoRecord
    <3>5. CASE receiver.state = "body"
      <4>1. Got(r) = Bytes(opened + 1, receiver.need)
        BY <3>2, <3>3, <3>5, BodyInFront
      <4>2. ReadsBody(r)
        BY <4>1, <3>5, <2>4 DEF FindsNoRecord
      <4> DEFINE n == receiver.need
                 e == opened + n
                 bytes == Got(r)
                 asked == receiver.asked
      <4>3. opened' = e /\ Return(asked, bytes)
        BY <4>2 DEF ReadsBody
      <4>4. Len(kernel) \in Nat /\ asked \in Nat /\ opened \in Nat
        BY DEF TransportType, ReceiverType
      <4>5. bytes \in Seq(Element) /\ Len(bytes) = n
        BY <4>4, <3>3, GotSome
      <4>6. opened = Len(delivered)
        BY <3>1, <3>5 DEF Decrypted
      <4>7. RecordAt(Line, 0 - Len(receiver.got), opened + 1, n, Coming, recordEnds)
        BY <3>2, <3>5 DEF Stream, Reads
      <4>8. e \in recordEnds'
        <5>1. (opened + 1) + n - 1 \in recordEnds
          BY <4>7 DEF RecordAt
        <5>2. (opened + 1) + n - 1 = e
          BY <3>3, <4>4
        <5> QED
          BY <5>1, <5>2, <1>1
      <4>9. n > 0
        <5>1. Len(receiver.got) < n /\ Len(receiver.got) \in Nat
          BY <1>1 DEF ReceiverType
        <5> QED
          BY <5>1, <3>3
      <4>10. Len(delivered) < e /\ e = Len(delivered) + Len(bytes)
        BY <4>4, <4>5, <4>6, <4>9, <3>3
      <4>11. layer' = "TLS"
        BY <3>1, <1>1
      <4> HIDE DEF n, e, bytes, asked
      <4> QED
        BY <4>3, <4>4, <4>5, <4>8, <4>10, <4>11, FailsAtRecordEnd
    <3> QED
      BY <3>1, <3>4, <3>5
  <2> QED
    BY <1>3, <2>2, <2>3, <2>4
<1> QED
  BY <1>2, <1>3, Reading

-----------------------------------------------------------------------------
(* The invariant and the theorems.                                          *)

LEMMA InitTransport ==
  ASSUME Init
  PROVE  TransportInv
<1>1. FailuresExplained
  BY DEF Init, FailuresExplained
<1> QED
  BY <1>1, InitTypes, InitUnbroken, InitOpened, InitStream DEF TransportInv

LEMMA TransportStep ==
  ASSUME TransportInv, [Next]_vars
  PROVE  TransportInv'
<1>1. /\ TransportType /\ SenderType /\ ReceiverType
      /\ Unbroken /\ Decrypted /\ Stream /\ FailuresExplained
  BY DEF TransportInv
<1>2. TransportType' /\ SenderType' /\ ReceiverType'
  BY <1>1, TypesKept
<1>3. CASE Disconnect
  <2>1. /\ UNCHANGED <<layer, receiver, opened, plain, delivered, recordEnds>> /\ link' # "up"
    BY <1>3 DEF Disconnect
  <2>2. Stream'
    BY <2>1 DEF Stream, Undisturbed
  <2>3. FailuresExplained'
    BY <2>1 DEF FailuresExplained
  <2> QED
    BY <1>1, <1>2, <1>3, <2>1, <2>2, <2>3, DisconnectUnbroken, OpenedUnchanged DEF TransportInv
<1>4. CASE \E n \in Sizes : SendData(n)
  <2>1. PICK n \in Sizes : SendData(n)
    BY <1>4
  <2>2. /\ UNCHANGED <<layer, link, signals, receiver, opened, plain, delivered>>
        /\ recordEnds \subseteq recordEnds'
    BY <2>1 DEF SendData
  <2> QED
    BY <1>1, <1>2, <2>1, <2>2, SendDataUnbroken, OpenedUnchanged, SendDataStream, StillExplained
    DEF TransportInv
<1>5. CASE WriteMore
  <2>1. /\ UNCHANGED <<layer, link, signals, receiver, opened, plain, delivered>>
        /\ recordEnds \subseteq recordEnds'
    BY <1>5 DEF WriteMore
  <2> QED
    BY <1>1, <1>2, <1>5, <2>1, WriteMoreUnbroken, OpenedUnchanged, WriteMoreStream, StillExplained
    DEF TransportInv
<1>6. CASE WriteStops
  <2>1. /\ UNCHANGED <<layer, link, receiver, opened, plain, delivered, recordEnds>>
        /\ link' # "up" \/ signals' > 0
    BY <1>1, <1>6 DEF WriteStops, Interrupted, TransportType
  <2>2. Stream'
    BY <2>1 DEF Stream, Undisturbed
  <2>3. FailuresExplained'
    BY <2>1 DEF FailuresExplained
  <2> QED
    BY <1>1, <1>2, <1>6, <2>1, <2>2, <2>3, WriteStopsUnbroken, OpenedUnchanged DEF TransportInv
<1>7. CASE \E n \in Sizes : ReceiveData(n)
  <2>1. PICK n \in Sizes : ReceiveData(n)
    BY <1>7
  <2> QED
    BY <1>1, <1>2, <2>1, ReceiveDataUnbroken, ReceiveDataOpened, ReceiveDataStream,
       ReceiveDataExplained
    DEF TransportInv
<1>8. CASE Read
  BY <1>1, <1>2, <1>8, ReadUnbroken, ReadOpened, ReadStream, ReadExplained DEF TransportInv
<1>9. CASE UNCHANGED vars
  <2>1. UNCHANGED <<layer, link, signals, given, recordEnds, sender, cut, kernel, receiver,
                    opened, plain, delivered>>
    BY <1>9 DEF vars
  <2>2. Line' = Line /\ Coming' = Coming /\ Taken' = Taken
    BY <2>1 DEF Line, LineOf, Coming, ComingOf, FirstOf, Taken
  <2>3. Unbroken'
    BY <1>1, <2>1, <2>2 DEF Unbroken
  <2>4. Stream'
    BY <1>1, <2>1, <2>2 DEF Stream, Undisturbed
  <2> QED
    BY <1>1, <1>2, <2>1, <2>3, <2>4, OpenedUnchanged, StillExplained DEF TransportInv
<1> QED
  BY <1>3, <1>4, <1>5, <1>6, <1>7, <1>8, <1>9 DEF Next, Sending, Receiving, Writing

LEMMA TransportInvariant == Spec => []TransportInv
<1>1. Init => TransportInv
  BY InitTransport
<1>2. TransportInv /\ [Next]_vars => TransportInv'
  BY TransportStep
<1> QED
  BY <1>1, <1>2, PTL DEF Spec

LEMMA InvDelivers ==
  ASSUME TransportInv
  PROVE  DeliveredAsGiven
BY DEF TransportInv, TransportType, Unbroken, Decrypted, DeliveredAsGiven

\* receive_data returns the bytes that were given to send_data, in their order, none lost
\* and none twice, for calls, records and buffers of every size and however the system
\* calls split them: over TLS always, over TCP unless a write was interrupted half way
\* (src/data_layers/tcp_network.cpp:34 does not look at how much was written).
THEOREM DeliveredAsGivenHolds == Spec => []DeliveredAsGiven
<1>1. TransportInv => DeliveredAsGiven
  BY InvDelivers
<1> QED
  BY <1>1, TransportInvariant, PTL

\* receive_data fails only when the connection is down or a signal came, or, over TLS,
\* when the call asks for bytes beyond the end of a record
\* (src/data_layers/openssl_tls.cpp throws if SSL_read returns less than was asked for).
THEOREM FailuresExplainedHolds == Spec => []FailuresExplained
<1>1. TransportInv => FailuresExplained
  BY DEF TransportInv
<1> QED
  BY <1>1, TransportInvariant, PTL

-----------------------------------------------------------------------------
(* The handshake, for every block length and every capacity.  The invariant *)
(* counts bytes: what an end has written is what the other has read and what*)
(* is still on its way.                                                     *)

\* Bytes of the handshake that end s has written, and read.
Written(s) ==
  CASE step[s] = 1 -> 1 - left[s]
    [] step[s] = 2 -> 1 + (BlockLen - left[s])
    [] step[s] = 3 -> 1 + BlockLen
    [] step[s] = 4 -> 1 + BlockLen
    [] step[s] = 5 -> 1 + BlockLen + (BlockLen - left[s])
    [] step[s] = 6 -> 1 + BlockLen + BlockLen
    [] step[s] = 7 -> 1 + BlockLen + BlockLen

ReadSoFar(s) ==
  CASE step[s] = 1 -> 0
    [] step[s] = 2 -> 0
    [] step[s] = 3 -> 1 - left[s]
    [] step[s] = 4 -> 1 + (BlockLen - left[s])
    [] step[s] = 5 -> 1 + BlockLen
    [] step[s] = 6 -> 1 + BlockLen + (BlockLen - left[s])
    [] step[s] = 7 -> 1 + BlockLen + BlockLen

\* The transfer under way is never over; only a refusal of S0 or the return
\* leaves nothing to move.
Underway ==
  \A s \in Side :
    /\ step[s] \in {1, 3} => left[s] <= 1
    /\ left[s] = 0 => step[s] = 7 \/ (step[s] = 3 /\ s \in failed)

Balance ==
  \A s \in Side :
    /\ pipe[s] + ReadSoFar(Other(s)) <= Written(s)
    /\ up => pipe[s] + ReadSoFar(Other(s)) = Written(s)

VersionChecked == \A s \in Side : step[s] > 3 => version[Other(s)] = 3

HandshakeInv == TypeOK /\ Underway /\ Balance /\ VersionChecked

-----------------------------------------------------------------------------
LEMMA Constants ==
  /\ BlockLen \in Int /\ BlockLen > 0
  /\ \A s \in Side : Capacity[s] \in Int /\ Capacity[s] > 0
  BY HandshakeAssumption

LEMMA OtherSide ==
  ASSUME NEW s \in Side
  PROVE  Other(s) \in Side /\ Other(s) # s /\ Other(Other(s)) = s
         /\ \A t \in Side : t = s \/ t = Other(s)
  BY DEF Side, Other

LEMMA HandshakeInitInv ==
  ASSUME HandshakeInit
  PROVE  HandshakeInv
<1>1. TypeOK
  BY Constants DEF HandshakeInit, TypeOK, LastStep
<1>2. Underway /\ VersionChecked
  BY OtherSide DEF HandshakeInit, Underway, VersionChecked
<1>3. Balance
  BY OtherSide, Constants DEF HandshakeInit, Balance, Written, ReadSoFar
<1> QED
  BY <1>1, <1>2, <1>3 DEF HandshakeInv

-----------------------------------------------------------------------------
(* What a step of one end does to its own counts.                           *)

LEMMA Lengths ==
  /\ Length[2] = BlockLen /\ Length[3] = 1 /\ Length[4] = BlockLen
  /\ Length[5] = BlockLen /\ Length[6] = BlockLen
  BY DEF Length

\* The three outcomes of moving n bytes: more to move, refused, next transfer.
Continues(s, n) ==
  n < left[s] /\ step'[s] = step[s] /\ left'[s] = left[s] - n /\ failed' = failed

Stops(s, n) ==
  /\ n = left[s] /\ step[s] = 3 /\ step'[s] = 3 /\ left'[s] = 0
  /\ failed' = failed \cup {s}

Advances(s, n) ==
  /\ n = left[s] /\ step'[s] = step[s] + 1 /\ failed' = failed
  /\ left'[s] = IF step[s] < 6 THEN Length[step[s] + 1] ELSE 0
  /\ step[s] = 3 => version[Other(s)] = 3

LEMMA MovesCases ==
  ASSUME HandshakeInv, NEW s \in Side, NEW n \in 1 .. BlockLen, n <= left[s], Moves(s, n)
  PROVE  /\ Continues(s, n) \/ Stops(s, n) \/ Advances(s, n)
         /\ step'[Other(s)] = step[Other(s)] /\ left'[Other(s)] = left[Other(s)]
         /\ step' = [step EXCEPT ![s] = step'[s]]
         /\ left' = [left EXCEPT ![s] = left'[s]]
<1>1. /\ step \in [Side -> 1 .. 7] /\ left \in [Side -> 0 .. BlockLen]
      /\ left[s] \in Int /\ n \in Int /\ Other(s) \in Side /\ Other(s) # s
  BY OtherSide, Constants DEF HandshakeInv, TypeOK, LastStep
<1>2. CASE n < left[s]
  BY <1>1, <1>2 DEF Moves, Continues
<1>3. CASE ~(n < left[s]) /\ Refuses(s)
  BY <1>1, <1>3 DEF Moves, Stops, Refuses
<1>4. CASE ~(n < left[s]) /\ ~Refuses(s)
  BY <1>1, <1>4 DEF Moves, Advances, Refuses, LastStep
<1> QED
  BY <1>2, <1>3, <1>4

\* The transfer stays within its bounds and the byte counts follow it.
LEMMA MovesCounts ==
  ASSUME HandshakeInv, NEW s \in Side, NEW n \in 1 .. BlockLen, n <= left[s], step[s] <= 6,
         Continues(s, n) \/ Stops(s, n) \/ Advances(s, n)
  PROVE  /\ step'[s] \in 1 .. 7 /\ left'[s] \in 0 .. BlockLen
         /\ step'[s] \in {1, 3} => left'[s] <= 1
         /\ left'[s] = 0 => step'[s] = 7 \/ (step'[s] = 3 /\ s \in failed')
         /\ step[s] \in Sends => Written(s)' = Written(s) + n /\ ReadSoFar(s)' = ReadSoFar(s)
         /\ step[s] \notin Sends => Written(s)' = Written(s) /\ ReadSoFar(s)' = ReadSoFar(s) + n
<1>1. /\ step[s] \in 1 .. 6 /\ left[s] \in 0 .. BlockLen /\ n \in Int /\ n >= 1
      /\ step[s] \in {1, 3} => left[s] <= 1
      /\ BlockLen \in Int /\ BlockLen > 0
  BY Constants DEF HandshakeInv, TypeOK, LastStep, Underway
<1>2. CASE step[s] = 1
  BY <1>1, <1>2, Lengths DEF Continues, Stops, Advances, Written, ReadSoFar, Sends
<1>3. CASE step[s] = 2
  BY <1>1, <1>3, Lengths DEF Continues, Stops, Advances, Written, ReadSoFar, Sends
<1>4. CASE step[s] = 3
  BY <1>1, <1>4, Lengths DEF Continues, Stops, Advances, Written, ReadSoFar, Sends
<1>5. CASE step[s] = 4
  BY <1>1, <1>5, Lengths DEF Continues, Stops, Advances, Written, ReadSoFar, Sends
<1>6. CASE step[s] = 5
  BY <1>1, <1>6, Lengths DEF Continues, Stops, Advances, Written, ReadSoFar, Sends
<1>7. CASE step[s] = 6
  BY <1>1, <1>7, Lengths DEF Continues, Stops, Advances, Written, ReadSoFar, Sends
<1> QED
  BY <1>1, <1>2, <1>3, <1>4, <1>5, <1>6, <1>7

LEMMA CountsAreIntegers ==
  ASSUME HandshakeInv, NEW s \in Side
  PROVE  Written(s) \in Int /\ ReadSoFar(s) \in Int /\ pipe[s] \in Int /\ pipe[s] >= 0
<1>1. step[s] \in 1 .. 7 /\ left[s] \in Int /\ BlockLen \in Int /\ pipe[s] \in Nat
  BY Constants DEF HandshakeInv, TypeOK, LastStep
<1> QED
  BY <1>1 DEF Written, ReadSoFar

-----------------------------------------------------------------------------
(* Every step preserves the invariant.                                      *)

\* The parts of the invariant about steps and what is left of them.
LEMMA MovesInv ==
  ASSUME HandshakeInv, NEW s \in Side, NEW n \in 1 .. BlockLen, n <= left[s], Running(s),
         Moves(s, n), version' = version
  PROVE  /\ version' \in [Side -> {3, 6}] /\ step' \in [Side -> 1 .. 7]
         /\ left' \in [Side -> 0 .. BlockLen] /\ failed' \subseteq Side
         /\ Underway' /\ VersionChecked'
<1> DEFINE o == Other(s)
<1>1. /\ version \in [Side -> {3, 6}] /\ step \in [Side -> 1 .. 7]
      /\ left \in [Side -> 0 .. BlockLen] /\ failed \subseteq Side /\ step[s] <= 6
      /\ \A t \in Side : t = s \/ t = o
      /\ o \in Side
  BY OtherSide DEF HandshakeInv, TypeOK, LastStep, Running, HasReturned
<1>2. /\ Continues(s, n) \/ Stops(s, n) \/ Advances(s, n)
      /\ step'[o] = step[o] /\ left'[o] = left[o]
      /\ step' = [step EXCEPT ![s] = step'[s]]
      /\ left' = [left EXCEPT ![s] = left'[s]]
  BY MovesCases
<1>3. /\ step'[s] \in 1 .. 7 /\ left'[s] \in 0 .. BlockLen
      /\ step'[s] \in {1, 3} => left'[s] <= 1
      /\ left'[s] = 0 => step'[s] = 7 \/ (step'[s] = 3 /\ s \in failed')
  BY <1>1, <1>2, MovesCounts
<1>4. failed' \subseteq Side /\ failed \subseteq failed'
  BY <1>1, <1>2 DEF Continues, Stops, Advances
<1>5. step' \in [Side -> 1 .. 7] /\ left' \in [Side -> 0 .. BlockLen]
  BY <1>1, <1>2, <1>3
<1>6. Underway'
  <2>1. /\ step[o] \in {1, 3} => left[o] <= 1
        /\ left[o] = 0 => step[o] = 7 \/ (step[o] = 3 /\ o \in failed)
    BY <1>1 DEF HandshakeInv, Underway
  <2> QED
    BY <1>1, <1>2, <1>3, <1>4, <2>1 DEF Underway
<1>7. VersionChecked'
  <2>1. step'[s] > 3 => version[o] = 3
    BY <1>1, <1>2 DEF Continues, Stops, Advances, HandshakeInv, VersionChecked
  <2>2. step'[o] > 3 => version[Other(o)] = 3
    BY <1>1, <1>2 DEF HandshakeInv, VersionChecked
  <2> QED
    BY <1>1, <2>1, <2>2 DEF VersionChecked
<1> QED
  BY <1>1, <1>4, <1>5, <1>6, <1>7

\* The counts of an end depend on its own step and what is left of it.
LEMMA CountsUnchanged ==
  ASSUME NEW o \in Side, step'[o] = step[o], left'[o] = left[o]
  PROVE  Written(o)' = Written(o) /\ ReadSoFar(o)' = ReadSoFar(o)
  BY DEF Written, ReadSoFar

LEMMA SendSomeInv ==
  ASSUME HandshakeInv, NEW s \in Side, NEW n \in 1 .. BlockLen, SendSome(s, n)
  PROVE  HandshakeInv'
<1> DEFINE o == Other(s)
<1>1. /\ Running(s) /\ step[s] \in Sends /\ n <= left[s] /\ Moves(s, n) /\ version' = version
      /\ pipe' = [pipe EXCEPT ![s] = @ + n] /\ up' = up /\ up
      /\ o \in Side /\ o # s /\ Other(o) = s /\ \A t \in Side : t = s \/ t = o
      /\ n \in Nat
  BY OtherSide, Constants DEF SendSome
<1>2. pipe \in [Side -> Nat] /\ up \in BOOLEAN
  BY DEF HandshakeInv, TypeOK
<1>3. pipe'[s] = pipe[s] + n /\ pipe'[o] = pipe[o] /\ pipe' \in [Side -> Nat]
  BY <1>1, <1>2
<1>4. /\ Written(s)' = Written(s) + n /\ ReadSoFar(s)' = ReadSoFar(s)
      /\ Written(o)' = Written(o) /\ ReadSoFar(o)' = ReadSoFar(o)
  BY <1>1, MovesCases, MovesCounts, CountsUnchanged DEF Sends
<1>5. pipe[s] + ReadSoFar(o) = Written(s) /\ pipe[o] + ReadSoFar(s) = Written(o)
  BY <1>1 DEF HandshakeInv, Balance
<1>6. /\ pipe'[s] + ReadSoFar(o)' = Written(s)' /\ pipe'[o] + ReadSoFar(s)' = Written(o)'
      /\ Written(s)' \in Int /\ Written(o)' \in Int
  BY <1>1, <1>3, <1>4, <1>5, CountsAreIntegers
<1>7. Balance'
  BY <1>1, <1>6 DEF Balance
<1>8. TypeOK'
  BY <1>1, <1>2, <1>3, MovesInv DEF TypeOK, LastStep
<1> QED
  BY <1>1, <1>7, <1>8, MovesInv DEF HandshakeInv

LEMMA ReceiveSomeInv ==
  ASSUME HandshakeInv, NEW s \in Side, NEW n \in 1 .. BlockLen, ReceiveSome(s, n)
  PROVE  HandshakeInv'
<1> DEFINE o == Other(s)
<1>1. /\ Running(s) /\ step[s] \notin Sends /\ n <= left[s] /\ n <= pipe[o]
      /\ Moves(s, n) /\ version' = version
      /\ pipe' = [pipe EXCEPT ![o] = @ - n] /\ up' = up
      /\ o \in Side /\ o # s /\ Other(o) = s /\ \A t \in Side : t = s \/ t = o
      /\ n \in Nat
  BY OtherSide, Constants DEF ReceiveSome
<1>2. pipe \in [Side -> Nat] /\ up \in BOOLEAN
  BY DEF HandshakeInv, TypeOK
<1>3. pipe'[o] = pipe[o] - n /\ pipe'[s] = pipe[s] /\ pipe' \in [Side -> Nat]
  BY <1>1, <1>2
<1>4. /\ Written(s)' = Written(s) /\ ReadSoFar(s)' = ReadSoFar(s) + n
      /\ Written(o)' = Written(o) /\ ReadSoFar(o)' = ReadSoFar(o)
  <2>1. step[s] <= 6
    BY <1>1 DEF Running, HasReturned, LastStep, HandshakeInv, TypeOK
  <2> QED
    BY <1>1, <2>1, MovesCases, MovesCounts, CountsUnchanged
<1>5. /\ pipe[s] + ReadSoFar(o) <= Written(s) /\ pipe[o] + ReadSoFar(s) <= Written(o)
      /\ up => pipe[s] + ReadSoFar(o) = Written(s) /\ pipe[o] + ReadSoFar(s) = Written(o)
  BY <1>1 DEF HandshakeInv, Balance
<1>6. /\ pipe'[s] + ReadSoFar(o)' <= Written(s)' /\ pipe'[o] + ReadSoFar(s)' <= Written(o)'
      /\ up => pipe'[s] + ReadSoFar(o)' = Written(s)' /\ pipe'[o] + ReadSoFar(s)' = Written(o)'
  BY <1>1, <1>3, <1>4, <1>5, CountsAreIntegers
<1>7. Balance'
  BY <1>1, <1>6 DEF Balance
<1>8. TypeOK'
  BY <1>1, <1>2, <1>3, MovesInv DEF TypeOK, LastStep
<1> QED
  BY <1>1, <1>7, <1>8, MovesInv DEF HandshakeInv

LEMMA TransportThrowsInv ==
  ASSUME HandshakeInv, NEW s \in Side, TransportThrows(s)
  PROVE  HandshakeInv'
<1> USE DEF TransportThrows
<1>1. TypeOK' /\ Underway' /\ VersionChecked'
  BY DEF HandshakeInv, TypeOK, Underway, VersionChecked
<1>2. Balance'
  BY DEF HandshakeInv, Balance, Written, ReadSoFar
<1> QED
  BY <1>1, <1>2 DEF HandshakeInv

LEMMA BreakInv ==
  ASSUME HandshakeInv, Break
  PROVE  HandshakeInv'
<1>1. /\ pipe' \in [Side -> Nat] /\ \A s \in Side : pipe'[s] <= pipe[s]
      /\ up' = FALSE /\ UNCHANGED <<version, step, left, failed>>
  <2>1. pipe["client"] \in Nat /\ pipe["server"] \in Nat
    BY DEF HandshakeInv, TypeOK, Side
  <2> QED
    BY <2>1 DEF Break, Side
<1>2. TypeOK' /\ Underway' /\ VersionChecked'
  BY <1>1 DEF HandshakeInv, TypeOK, Underway, VersionChecked
<1>3. \A s \in Side : Written(s)' = Written(s) /\ ReadSoFar(s)' = ReadSoFar(s)
  BY <1>1, CountsUnchanged
<1>4. ASSUME NEW s \in Side
      PROVE  pipe'[s] + ReadSoFar(Other(s))' <= Written(s)'
  <2>1. pipe[s] + ReadSoFar(Other(s)) <= Written(s) /\ Other(s) \in Side
    BY OtherSide DEF HandshakeInv, Balance
  <2>2. pipe'[s] <= pipe[s] /\ pipe'[s] \in Int
    BY <1>1
  <2>3. ReadSoFar(Other(s))' = ReadSoFar(Other(s)) /\ Written(s)' = Written(s)
    BY <1>3, <2>1
  <2> QED
    BY <2>1, <2>2, <2>3, CountsAreIntegers
<1>5. Balance'
  BY <1>1, <1>4 DEF Balance
<1> QED
  BY <1>2, <1>5 DEF HandshakeInv

LEMMA HandshakeInvPreserved == HandshakeInv /\ [HandshakeNext]_handshakeVars => HandshakeInv'
<1>1. ASSUME HandshakeInv, NEW s \in Side, DoHandshake(s)
      PROVE  HandshakeInv'
  BY <1>1, SendSomeInv, ReceiveSomeInv, TransportThrowsInv DEF DoHandshake
<1>2. ASSUME HandshakeInv, UNCHANGED handshakeVars
      PROVE  HandshakeInv'
  BY <1>2
     DEF handshakeVars, HandshakeInv, TypeOK, Underway, Balance, VersionChecked, Written, ReadSoFar
<1> QED
  BY <1>1, <1>2, BreakInv DEF HandshakeNext

\* The byte counts agree in every reachable state.
THEOREM HandshakeInvariant == HandshakeSpec => []HandshakeInv
  BY HandshakeInitInv, HandshakeInvPreserved, PTL DEF HandshakeSpec

-----------------------------------------------------------------------------
(* What the counts imply.                                                   *)

\* What the invariant says of an end and of its peer.
LEMMA BothEnds ==
  ASSUME HandshakeInv, NEW s \in Side, NEW o, o = Other(s)
  PROVE  /\ o \in Side /\ Other(o) = s
         /\ step[s] \in 1 .. 7 /\ step[o] \in 1 .. 7
         /\ left[s] \in 0 .. BlockLen /\ left[o] \in 0 .. BlockLen
         /\ step[s] \in {1, 3} => left[s] <= 1
         /\ step[o] \in {1, 3} => left[o] <= 1
         /\ left[s] = 0 => step[s] \in {3, 7}
         /\ left[o] = 0 => step[o] \in {3, 7}
         /\ pipe[s] \in Int /\ pipe[s] >= 0 /\ pipe[o] \in Int /\ pipe[o] >= 0
         /\ pipe[s] + ReadSoFar(o) <= Written(s) /\ pipe[o] + ReadSoFar(s) <= Written(o)
         /\ up => pipe[s] + ReadSoFar(o) = Written(s) /\ pipe[o] + ReadSoFar(s) = Written(o)
         /\ BlockLen \in Int /\ BlockLen > 0
<1>1. o \in Side /\ Other(o) = s
  BY OtherSide
<1>2. step \in [Side -> 1 .. 7] /\ left \in [Side -> 0 .. BlockLen] /\ pipe \in [Side -> Nat]
  BY DEF HandshakeInv, TypeOK, LastStep
<1>3. Underway /\ Balance
  BY DEF HandshakeInv
<1> QED
  BY <1>1, <1>2, <1>3, Constants DEF Underway, Balance

LEMMA EchoCounted == HandshakeInv => ReturnedAfterEcho
<1> SUFFICES ASSUME HandshakeInv, NEW s \in Side, HasReturned(s)
             PROVE  step[Other(s)] > 5
  BY DEF ReturnedAfterEcho
<1> DEFINE o == Other(s)
<1>1. step[s] = 7
  BY BothEnds DEF HasReturned, LastStep
<1>2. ReadSoFar(s) = 1 + BlockLen + BlockLen
  BY <1>1 DEF ReadSoFar
<1>3. pipe[o] + (1 + BlockLen + BlockLen) <= Written(o)
  BY <1>2, BothEnds
<1> HIDE DEF o
<1> QED
  BY <1>3, BothEnds DEF Written, o

LEMMA AllTaken == HandshakeInv => NothingLeftOver
<1> SUFFICES ASSUME HandshakeInv, NEW s \in Side, HasReturned(s)
             PROVE  pipe[Other(s)] = 0 /\ version[Other(s)] = 3
  BY DEF NothingLeftOver
<1> DEFINE o == Other(s)
<1>1. step[s] = 7
  BY BothEnds DEF HasReturned, LastStep
<1>2. version[o] = 3
  BY <1>1 DEF HandshakeInv, VersionChecked
<1>3. pipe[o] + (1 + BlockLen + BlockLen) <= Written(o)
  BY <1>1, BothEnds DEF ReadSoFar
<1>4. Written(o) <= 1 + BlockLen + BlockLen
  BY BothEnds DEF Written
<1>5. pipe[o] = 0
  BY <1>3, <1>4, BothEnds, CountsAreIntegers, OtherSide
<1> QED
  BY <1>2, <1>5

\* Two ends cannot both be inside a write: the one whose buffers hold C0 and C1
\* would have had to write more than that.
LEMMA NotBothSending ==
  ASSUME HandshakeInv, up, NEW s \in Side, NEW o, o = Other(s),
         step[s] \in Sends, step[o] \in Sends, pipe[s] >= 1 + BlockLen
  PROVE  FALSE
  BY BothEnds DEF Sends, Written, ReadSoFar

\* Nor both inside a read with nothing on its way.
LEMMA NotBothReading ==
  ASSUME HandshakeInv, up, NEW s \in Side, NEW o, o = Other(s), Running(s), Running(o),
         step[s] \notin Sends, step[o] \notin Sends, pipe[s] = 0, pipe[o] = 0
  PROVE  FALSE
<1>1. step[s] \in {3, 4, 6} /\ step[o] \in {3, 4, 6}
  BY BothEnds DEF Running, HasReturned, LastStep, Sends
<1>2. left[s] # 0 /\ left[o] # 0
  <2>1. \A t \in Side : left[t] = 0 => step[t] = 7 \/ t \in failed
    BY DEF HandshakeInv, Underway
  <2> QED
    BY <1>1, <2>1, BothEnds DEF Running
<1>3. left[s] >= 1 /\ left[o] >= 1
  BY <1>2, BothEnds
<1>4. ReadSoFar(o) = Written(s) /\ ReadSoFar(s) = Written(o)
  BY BothEnds, CountsAreIntegers
<1> QED
  BY <1>1, <1>3, <1>4, BothEnds DEF Written, ReadSoFar

LEMMA NoDeadlock == HandshakeInv => NeverStuck
<1> SUFFICES ASSUME HandshakeInv, Blocked("client"), Blocked("server")
             PROVE  FALSE
  BY DEF NeverStuck
<1>1. PICK s \in Side : Capacity[s] >= 1 + BlockLen
  BY HandshakeAssumption
<1> DEFINE o == Other(s)
<1>2. o \in Side /\ Blocked(s) /\ Blocked(o) /\ Other(o) = s
  BY OtherSide DEF Side, Other
<1>3. /\ pipe[s] \in Int /\ pipe[o] \in Int
      /\ Capacity[s] \in Int /\ Capacity[o] \in Int /\ Capacity[o] > 0 /\ Capacity[s] > 0
  BY <1>2, BothEnds, Constants
<1>4. CASE step[s] \in Sends /\ step[o] \in Sends
  <2>1. up /\ pipe[s] >= Capacity[s]
    BY <1>2, <1>4 DEF Blocked
  <2>2. pipe[s] >= 1 + BlockLen
    BY <1>1, <1>3, <2>1, Constants
  <2> QED
    BY <1>4, <2>1, <2>2, NotBothSending
<1>5. CASE step[s] \notin Sends /\ step[o] \notin Sends
  BY <1>2, <1>5, NotBothReading DEF Blocked
<1>6. CASE step[s] \in Sends /\ step[o] \notin Sends
  BY <1>2, <1>3, <1>6 DEF Blocked
<1>7. CASE step[s] \notin Sends /\ step[o] \in Sends
  BY <1>2, <1>3, <1>7 DEF Blocked
<1> QED
  BY <1>4, <1>5, <1>6, <1>7

\* DoHandshake returns on one end only after the other has written its echo.
THEOREM HandshakeEchoed == HandshakeSpec => []ReturnedAfterEcho
  BY HandshakeInvariant, EchoCounted, PTL

\* DoHandshake takes exactly the peer's handshake, and only of version 3.
THEOREM HandshakeConsumed == HandshakeSpec => []NothingLeftOver
  BY HandshakeInvariant, AllTaken, PTL

\* The two ends never wait for each other inside DoHandshake, if one direction
\* of the transport can hold C0 and C1.
THEOREM HandshakeNeverStuck == HandshakeSpec => []NeverStuck
  BY HandshakeInvariant, NoDeadlock, PTL
=============================================================================
