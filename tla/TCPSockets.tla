----------------------------- MODULE TCPSockets -----------------------------
(***************************************************************************)
(* Who closes which descriptor: TCPNetwork, TCPServer and TCPClient over    *)
(* the descriptor table of the process (the POSIX branch of the code).      *)
(* A descriptor is a small number that the system hands out again, lowest   *)
(* first, as soon as it is closed; an object only remembers the number.     *)
(* The application that creates, moves and destroys the objects is the      *)
(* environment; it keeps to C++: an object is destructed once.              *)
(***************************************************************************)
EXTENDS Naturals, Functions

CONSTANTS
  Objects,   \* TCPNetwork objects
  MaxFd      \* bound on the descriptors of the process

ASSUME SocketsAssumption == MaxFd \in Nat /\ Objects \cap {"app", "server", "nobody"} = {}

VARIABLES
  table,      \* open descriptor -> whose file it is: "app", "server", "nobody", an object
  m_Socket,   \* TCPNetwork::m_Socket of every object that is alive
  connected,  \* the objects that were given a connection and have not given it up
  server      \* the TCPServer: m_Socket, and "none", "listening", "destroyed" by hand
              \* or "gone": destructed after that

socketVars == <<table, m_Socket, connected, server>>

-----------------------------------------------------------------------------
(* The system: the lowest free descriptor is handed out; closing one that   *)
(* is not open has no effect.                                               *)

Free == 0 .. MaxFd \ DOMAIN table
Lowest == { fd \in Free : \A other \in Free : fd <= other }
Added(f, x, v) == [y \in DOMAIN f \cup {x} |-> IF y = x THEN v ELSE f[y]]
Opened(fd, owner) == Added(table, fd, owner)
Close(files, fd) == Restrict(files, DOMAIN files \ {fd})

NoServer == [state |-> "none", m_Socket |-> 0]

\* Standard input is open when the program starts.
SocketsInit ==
  /\ table = [fd \in {0} |-> "app"]
  /\ m_Socket = << >>
  /\ connected = {}
  /\ server = NoServer

-----------------------------------------------------------------------------
(* TCPServer.                                                               *)

Listen ==
  /\ server.state = "none"
  /\ \E fd \in Lowest :
       /\ table' = Opened(fd, "server")
       /\ server' = [state |-> "listening", m_Socket |-> fd]
  /\ UNCHANGED <<m_Socket, connected>>

\* bind or listen failed: the constructor throws, so that no destructor runs.
ListenThrows ==
  /\ server.state = "none"
  /\ \E fd \in Lowest : table' = Opened(fd, "nobody")
  /\ UNCHANGED <<m_Socket, connected, server>>

\* TCPServer::destroy, which leaves m_Socket as it is.
DestroyServer ==
  /\ server.state = "listening"
  /\ table' = Close(table, server.m_Socket)
  /\ server' = [server EXCEPT !.state = "destroyed"]
  /\ UNCHANGED <<m_Socket, connected>>

DestructServer ==
  /\ server.state \in {"listening", "destroyed"}
  /\ table' = Close(table, server.m_Socket)
  /\ server' = IF server.state = "listening" THEN NoServer ELSE [server EXCEPT !.state = "gone"]
  /\ UNCHANGED <<m_Socket, connected>>

-----------------------------------------------------------------------------
(* TCPNetwork.                                                              *)

Alive == DOMAIN m_Socket

\* TCPNetwork(sock), from accept or ConnectToHost.
Constructs(o) ==
  /\ o \notin Alive
  /\ \E fd \in Lowest :
       /\ table' = Opened(fd, o)
       /\ m_Socket' = Added(m_Socket, o, fd)
  /\ connected' = connected \cup {o}
  /\ UNCHANGED server

\* On a descriptor that is not the server's socket any more ::accept fails.
Accept(o) ==
  /\ server.state = "listening"
  /\ server.m_Socket \in DOMAIN table /\ table[server.m_Socket] = "server"
  /\ Constructs(o)

ConnectToHost(o) == Constructs(o)

\* gethostbyname or connect failed after the socket was created.
ConnectThrows ==
  /\ \E fd \in Lowest : table' = Opened(fd, "nobody")
  /\ UNCHANGED <<m_Socket, connected, server>>

DefaultConstruct(o) ==
  /\ o \notin Alive
  /\ m_Socket' = Added(m_Socket, o, 0)
  /\ UNCHANGED <<table, connected, server>>

\* TCPNetwork::destroy
Destroy(o) ==
  /\ o \in Alive
  /\ table' = Close(table, m_Socket[o])
  /\ m_Socket' = [m_Socket EXCEPT ![o] = 0]
  /\ connected' = connected \ {o}
  /\ UNCHANGED server

Destruct(o) ==
  /\ o \in Alive
  /\ table' = Close(table, m_Socket[o])
  /\ m_Socket' = Restrict(m_Socket, Alive \ {o})
  /\ connected' = connected \ {o}
  /\ UNCHANGED server

\* The file of descriptor fd, when it is p's, is o's from here on.
Passed(files, p, o) ==
  [fd \in DOMAIN files |-> IF files[fd] = p THEN o ELSE files[fd]]

MovedTo(o, p) == IF p \in connected \ {o} THEN {o} ELSE {}

\* Wrong on purpose, for the mutation runs: the source keeps its descriptor.
MoveAssignCopies(o, p) ==
  /\ o \in Alive /\ p \in Alive /\ o # p
  /\ table' = Passed(Close(table, m_Socket[o]), p, o)
  /\ m_Socket' = [m_Socket EXCEPT ![o] = m_Socket[p]]
  /\ connected' = (connected \ {o, p}) \cup MovedTo(o, p)
  /\ UNCHANGED server

\* Wrong on purpose, for the mutation runs: the target is not destroyed first.
MoveAssignForgets(o, p) ==
  /\ o \in Alive /\ p \in Alive
  /\ table' = Passed(table, p, o)
  /\ m_Socket' = [m_Socket EXCEPT ![o] = m_Socket[p], ![p] = 0]
  /\ connected' = (connected \ {o, p}) \cup MovedTo(o, p)
  /\ UNCHANGED server

\* o = std::move(p): o is destroyed first, then takes the descriptor of p, which
\* may be o itself.
MoveAssign(o, p) ==
  /\ o \in Alive /\ p \in Alive
  /\ table' = Passed(Close(table, m_Socket[o]), p, o)
  /\ m_Socket' = [m_Socket EXCEPT ![o] = IF p = o THEN 0 ELSE m_Socket[p], ![p] = 0]
  /\ connected' = (connected \ {o, p}) \cup MovedTo(o, p)
  /\ UNCHANGED server

ServerNext == Listen \/ ListenThrows \/ DestroyServer \/ DestructServer

\* What leaves the objects that are connected as they are.
SocketsGrow ==
  \/ \E o \in Objects : Accept(o) \/ ConnectToHost(o) \/ DefaultConstruct(o)
  \/ ConnectThrows

\* What closes the connection of an object, or gives it to another one.
SocketsShrink(o) ==
  Destroy(o) \/ Destruct(o) \/ \E p \in Objects : MoveAssign(o, p) \/ MoveAssign(p, o)

-----------------------------------------------------------------------------
\* Whatever is created, moved and destroyed, the descriptor of a connected object
\* refers to its own connection: nobody closes it and the system does not hand it
\* out again.  Except descriptor 0, which every object closes that holds
\* nothing; and except after a TCPServer was destroyed by hand and destructed,
\* which closes its old number twice.
ConnectionsKept ==
  server.state # "gone" =>
    \A o \in connected :
      m_Socket[o] # 0 => m_Socket[o] \in DOMAIN table /\ table[m_Socket[o]] = o

\* No connection is forgotten: as long as one is open, its object remembers the
\* descriptor and will close it.  Only setups that failed leave some behind.
ConnectionsReachable ==
  \A fd \in DOMAIN table :
    table[fd] \in Objects =>
      table[fd] \in connected /\ m_Socket[table[fd]] = fd

=============================================================================
