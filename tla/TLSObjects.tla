----------------------------- MODULE TLSObjects -----------------------------
(***************************************************************************)
(* Who frees which OpenSSL object: OpenSSL_TLS_Server and _Client, whose    *)
(* handshakes may fail after any allocation and may be repeated, and the    *)
(* OpenSSL_TLS objects they return.  An object allocated by handshake h is  *)
(* the pair <<kind, h>>; a member pointer holds h, or 0 for null.           *)
(* owned is what the program must free.  A BIO is not counted: SSL_free     *)
(* frees the one given to SSL_set_bio, and bio and m_BIO are not used after  *)
(* that.  An SSL refers to its context, which OpenSSL counts.               *)
(***************************************************************************)
EXTENDS TCPSockets, Sequences, SequencesExt

CONSTANTS
  Sessions,      \* OpenSSL_TLS objects
  MaxHandshakes  \* bound on the handshakes of the program

ASSUME HandshakesAssumption == MaxHandshakes \in Nat

VARIABLES
  lower,        \* handshake -> the TCPNetwork its SSL works with, {} if it failed
  owned,        \* <<kind, handshake>> allocated and not freed
  tlsServer,    \* member pointers of the OpenSSL_TLS_Server
  tlsClient,    \* and of the OpenSSL_TLS_Client
  tls,          \* m_SSL and m_BioMethod of every OpenSSL_TLS that is alive
  overwritten   \* objects whose member pointer was assigned over

tlsVars == <<lower, owned, tlsServer, tlsClient, tls, overwritten>>
lifetimesVars == <<socketVars, tlsVars>>

-----------------------------------------------------------------------------
\* What a handshake allocates, in that order.
ServerKinds == << "ctx", "cert", "key", "ssl", "meth" >>
ClientKinds == << "ctx", "ssl", "meth" >>

Null(kinds) == [k \in ToSet(kinds) |-> 0]

\* The objects that the pointers of a holder refer to.
Pointed(holder) == { <<k, holder[k]>> : k \in { j \in DOMAIN holder : holder[j] # 0 } }

TLSInit ==
  /\ lower = << >>
  /\ owned = {}
  /\ tlsServer = Null(ServerKinds)
  /\ tlsClient = Null(ClientKinds)
  /\ tls = << >>
  /\ overwritten = {}

Current == Len(lower) + 1

\* Wrong on purpose, for the mutation runs: the private key is forgotten.
CleanedWithoutKey(holder) == Pointed(holder) \ ({"key"} \X Nat)

\* What cleanup, destroy and the destructors free.
Cleaned(holder) == Pointed(holder)

\* Wrong on purpose, for the mutation runs: the session keeps its owner.
KeepsSession(holder) == [holder EXCEPT !["meth"] = 0]

\* The session is the OpenSSL_TLS object's from here on.
GivesAway(holder) == [holder EXCEPT !["ssl"] = 0, !["meth"] = 0]
Session(holder) == [ssl |-> holder["ssl"], meth |-> holder["meth"]]

\* The first n of kinds are allocated and stored; the next one, if the handshake
\* came to it, is null.
Stored(holder, kinds, n) ==
  [k \in DOMAIN holder |->
     IF \E i \in 1 .. n : kinds[i] = k THEN Current
     ELSE IF n < Len(kinds) /\ k = kinds[n + 1] THEN 0
     ELSE holder[k]]

Allocated(kinds, n) == { <<kinds[i], Current>> : i \in 1 .. n }

Establish(layers) == lower' = Append(lower, layers)

\* Each step of the handshake may throw, the last one after all allocations.
ServerHandshakeThrows(o) ==
  /\ Current <= MaxHandshakes /\ o \in connected
  /\ \E n \in 0 .. Len(ServerKinds) :
       /\ tlsServer' = Stored(Null(ServerKinds), ServerKinds, n)
       /\ owned' = (owned \ Cleaned(tlsServer)) \cup Allocated(ServerKinds, n)
  /\ Establish({})
  /\ UNCHANGED <<tlsClient, tls, overwritten>>

ServerHandshake(o, s) ==
  /\ Current <= MaxHandshakes /\ o \in connected /\ s \notin DOMAIN tls
  /\ LET all == Stored(Null(ServerKinds), ServerKinds, Len(ServerKinds)) IN
       /\ tlsServer' = GivesAway(all)
       /\ tls' = Added(tls, s, Session(all))
  /\ owned' = (owned \ Cleaned(tlsServer)) \cup Allocated(ServerKinds, Len(ServerKinds))
  /\ Establish({o})
  /\ UNCHANGED <<tlsClient, overwritten>>

\* The client does not clean up first: what a handshake stores replaces what an
\* earlier one has left.
Replaced(n) ==
  { x \in Pointed(tlsClient) :
      \E i \in 1 .. Len(ClientKinds) : i <= n + 1 /\ ClientKinds[i] = x[1] }

ClientHandshakeThrows(o) ==
  /\ Current <= MaxHandshakes /\ o \in connected
  /\ \E n \in 0 .. Len(ClientKinds) :
       /\ tlsClient' = Stored(tlsClient, ClientKinds, n)
       /\ owned' = owned \cup Allocated(ClientKinds, n)
       /\ overwritten' = overwritten \cup Replaced(n)
  /\ Establish({})
  /\ UNCHANGED <<tlsServer, tls>>

\* SSL_connect returns 0 when the peer ended the handshake in good order: that
\* counts as success, with a session that is not established.
ClientHandshake(o, s) ==
  /\ Current <= MaxHandshakes /\ o \in connected /\ s \notin DOMAIN tls
  /\ LET all == Stored(tlsClient, ClientKinds, Len(ClientKinds)) IN
       /\ tlsClient' = GivesAway(all)
       /\ tls' = Added(tls, s, Session(all))
  /\ owned' = owned \cup Allocated(ClientKinds, Len(ClientKinds))
  /\ overwritten' = overwritten \cup Replaced(Len(ClientKinds))
  /\ \E layers \in {{o}, {}} : Establish(layers)
  /\ UNCHANGED tlsServer

\* ~OpenSSL_TLS_Server and ~OpenSSL_TLS_Client, and a new object in its place.
DestructTLSServer ==
  /\ tlsServer # Null(ServerKinds)
  /\ owned' = owned \ Cleaned(tlsServer)
  /\ tlsServer' = Null(ServerKinds)
  /\ UNCHANGED <<lower, tlsClient, tls, overwritten>>

DestructTLSClient ==
  /\ tlsClient # Null(ClientKinds)
  /\ owned' = owned \ Cleaned(tlsClient)
  /\ tlsClient' = Null(ClientKinds)
  /\ UNCHANGED <<lower, tlsServer, tls, overwritten>>

DestroySession(s) ==
  /\ s \in DOMAIN tls /\ tls[s].ssl # 0
  /\ owned' = owned \ Cleaned(tls[s])
  /\ tls' = [tls EXCEPT ![s] = [ssl |-> 0, meth |-> 0]]
  /\ UNCHANGED <<lower, tlsServer, tlsClient, overwritten>>

DestructSession(s) ==
  /\ s \in DOMAIN tls
  /\ owned' = owned \ Cleaned(tls[s])
  /\ tls' = Restrict(tls, DOMAIN tls \ {s})
  /\ UNCHANGED <<lower, tlsServer, tlsClient, overwritten>>

\* s = std::move(t), which frees nothing of s; t may be s itself.
MoveSession(s, t) ==
  /\ s \in DOMAIN tls /\ t \in DOMAIN tls
  /\ tls' = [tls EXCEPT ![s] = tls[t], ![t] = [ssl |-> 0, meth |-> 0]]
  /\ overwritten' = overwritten \cup Pointed(tls[s])
  /\ UNCHANGED <<lower, owned, tlsServer, tlsClient>>

TLSNext ==
  \/ \E o \in Objects :
       \/ ServerHandshakeThrows(o) \/ ClientHandshakeThrows(o)
       \/ \E s \in Sessions : ServerHandshake(o, s) \/ ClientHandshake(o, s)
  \/ DestructTLSServer \/ DestructTLSClient
  \/ \E s \in Sessions :
       \/ DestroySession(s) \/ DestructSession(s)
       \/ \E t \in Sessions : MoveSession(s, t)

-----------------------------------------------------------------------------
\* The session that an OpenSSL_TLS object works with uses the TCPNetwork it was
\* made on; the application does not take that away first.
Below(s) == IF tls[s].ssl = 0 THEN {} ELSE lower[tls[s].ssl]
InUse(o) == \E s \in DOMAIN tls : o \in Below(s)

LifetimesInit == SocketsInit /\ TLSInit

LifetimesNext ==
  \/ (ServerNext \/ SocketsGrow) /\ UNCHANGED tlsVars
  \/ \E o \in Objects : ~InUse(o) /\ SocketsShrink(o) /\ UNCHANGED tlsVars
  \/ TLSNext /\ UNCHANGED socketVars

LifetimesSpec == LifetimesInit /\ [][LifetimesNext]_lifetimesVars

-----------------------------------------------------------------------------
\* The holders of member pointers.
Holders == {<<"server">>, <<"client">>} \cup { <<"session", s>> : s \in DOMAIN tls }
PointersOf(h) ==
  CASE h[1] = "server" -> Pointed(tlsServer)
    [] h[1] = "client" -> Pointed(tlsClient)
    [] OTHER -> Pointed(tls[h[2]])

\* However handshakes fail and repeat and whoever is destructed first: what a
\* destructor will free is still there, and no other object will free it.  Before it
\* frees an SSL whose handshake succeeded, SSL_shutdown writes to the layer below,
\* whose address the BIO keeps: that layer is alive.
FreedOnce ==
  /\ \A h \in Holders : PointersOf(h) \subseteq owned
  /\ \A h \in Holders : \A x \in PointersOf(h) :
       x[1] = "ssl" => lower[x[2]] \subseteq Alive
  /\ \A g, h \in Holders : g # h => PointersOf(g) \cap PointersOf(h) = {}

\* What the program owns has an object that will free it.  What leaks was assigned
\* over: by a client handshake after another one of the same object, or by moving
\* into a session that still was one.
NothingElseLeaks ==
  owned \subseteq overwritten \cup UNION { PointersOf(h) : h \in Holders }

=============================================================================
