-------------------------- MODULE ServiceDirectory --------------------------
(***************************************************************************)
(* The Service Directory: the daemon that connects a client's interface to *)
(* the server of the service it is bound to.  One thread runs a handler to *)
(* its end for each thing that happens on a socket, so a handler is one    *)
(* action.  What makes it hard is that a handler runs through lists whose  *)
(* members the calls inside the loop destroy: sending a client to a server *)
(* may fail, which closes the server's connection, which takes it out of   *)
(* every binding that points to it.                                        *)
(*                                                                         *)
(* A client's interface and a service are both named by a user and a name. *)
(* The list of a user's unbound clients is kept here per interface name,   *)
(* which is how the code selects from it.                                  *)
(***************************************************************************)
EXTENDS Integers, Sequences, FiniteSets

CONSTANTS
    Users, Names, Protocols,    \* protocol: its identifier and message size
    Clients, Servers,           \* the connections that can exist at a time
    HardCoded,                  \* what CreateHardCodedBindings binds
    NoServer, NoService, NoConn

Interfaces == Users \X Names

VARIABLES
    client,     \* ClientConnection_t of each client, or NoConn
    server,     \* ServerConnection_t of each server, or NoConn
    target,     \* the service each interface is bound to, or NoService
    serving,    \* serverConnectionPtr of each binding, or NoServer
    waiting,    \* waitingClientsList of each binding
    unbound     \* unboundClientsList, per interface

dirVars == <<client, server, target, serving, waiting, unbound>>

\* wait is what the request asked for: the connection object does not keep it.
Client == [state : {"unbound", "waiting"}, of : Interfaces, protocol : Protocols,
           wait : BOOLEAN]
          \cup [state : {"unknown"}, user : Users]
Server == [state : {"serving"}, of : Interfaces, protocol : Protocols]
          \cup [state : {"connected"}, user : Users]

ASSUME DirectoryConstants ==
    /\ HardCoded \subseteq Interfaces
    /\ NoServer \notin Servers /\ NoService \notin Interfaces
    /\ NoConn \notin Client \cup Server
    /\ IsFiniteSet(Clients)

Elements(q) == {q[i] : i \in DOMAIN q}
Without(q, c) ==
    LET at == CHOOSE i \in DOMAIN q : q[i] = c
    IN  [i \in 1 .. Len(q) - 1 |-> IF i < at THEN q[i] ELSE q[i + 1]]

DirectoryInit ==
    /\ client = [c \in Clients |-> NoConn] /\ server = [s \in Servers |-> NoConn]
    /\ target = [k \in Interfaces |-> IF k \in HardCoded THEN k ELSE NoService]
    /\ serving = [k \in Interfaces |-> NoServer]
    /\ waiting = [k \in Interfaces |-> <<>>] /\ unbound = [k \in Interfaces |-> <<>>]

Serves(s, t) == server[s] # NoConn /\ server[s].state = "serving" /\ server[s].of = t
FindService(t) ==
    IF \E s \in Servers : Serves(s, t) THEN CHOOSE s \in Servers : Serves(s, t) ELSE NoServer

-----------------------------------------------------------------------------
(* Connections end.                                                           *)

\* Mutant: the bindings keep their pointer to the server.
MutStillServed(ss, srv) == srv

\* ServerConnectionDestructor takes its server out of the bindings.
Disassociate(ss, srv) == [k \in Interfaces |-> IF srv[k] \in ss THEN NoServer ELSE srv[k]]

CloseServerConnection(s) ==
    /\ server[s] # NoConn
    /\ server' = [server EXCEPT ![s] = NoConn]
    /\ serving' = Disassociate({s}, serving)
    /\ UNCHANGED <<client, target, waiting, unbound>>

\* ClientConnectionDestructor takes it out of the list that its state names.
CloseClientConnection(c) ==
    LET in == client[c].state
        from(lists) == [lists EXCEPT ![client[c].of] = Without(@, c)]
    IN  /\ client[c] # NoConn
        /\ client' = [client EXCEPT ![c] = NoConn]
        /\ waiting' = IF in = "waiting" THEN from(waiting) ELSE waiting
        /\ unbound' = IF in = "unbound" THEN from(unbound) ELSE unbound
        /\ UNCHANGED <<server, target, serving>>

-----------------------------------------------------------------------------
(* Clients are dispatched.                                                    *)

\* What the loop over the clients of a list comes to.  n clients from its front
\* are done with, sent to the server or rejected for they disagree with it on
\* the protocol.  The next one could not be sent, for the server has failed.
FailsAt(k, n, q, srv, cl, sv) ==
    /\ srv[k] # NoServer /\ n[k] < Len(q[k])
    /\ cl[q[k][n[k] + 1]].protocol = sv[srv[k]].protocol
Failed(ks, n, q, srv, cl, sv) == {srv[k] : k \in {j \in ks : FailsAt(j, n, q, srv, cl, sv)}}
Done(ks, n, q) == UNION {Elements(SubSeq(q[k], 1, n[k])) : k \in ks}

\* A server that fails is no longer there for the bindings that come after.
\* The order in which the handler comes to the bindings of the server is that
\* of two lists, and not kept here: of the other bindings any may have been
\* done, and the rest not come to.
MayDispatch(ks, n, q, srv, cl, sv) ==
    /\ \A k \in ks :
         /\ n[k] <= Len(q[k])
         /\ srv[k] = NoServer => n[k] = 0
         /\ srv[k] \in Servers \ Failed(ks, n, q, srv, cl, sv) => n[k] = Len(q[k])
    /\ \A s \in Failed(ks, n, q, srv, cl, sv) :
         \E f \in ks : /\ srv[f] = s /\ FailsAt(f, n, q, srv, cl, sv)
                       /\ \A k \in ks \ {f} : srv[k] = s => n[k] \in {0, Len(q[k])}

\* DispatchToServer, called for the clients of the lists q of the bindings ks,
\* each with the server srv of its binding; cl and sv are the connections as the
\* handler has left them.  The connection of a client that is done with is
\* closed, and that of a server that has failed; its client stays.
Dispatch(ks, q, srv, cl, sv) ==
    \E n \in [ks -> 0 .. Cardinality(Clients)] :
        /\ MayDispatch(ks, n, q, srv, cl, sv)
        /\ client' = [c \in Clients |-> IF c \in Done(ks, n, q) THEN NoConn ELSE cl[c]]
        /\ server' = [s \in Servers |->
                        IF s \in Failed(ks, n, q, srv, cl, sv) THEN NoConn ELSE sv[s]]
        /\ serving' = Disassociate(Failed(ks, n, q, srv, cl, sv), srv)
        /\ waiting' = [k \in Interfaces |->
                         IF k \in ks THEN SubSeq(q[k], n[k] + 1, Len(q[k])) ELSE q[k]]

\* The clients of the lists q of the interfaces ks, in a new state.
Moved(ks, q, to) ==
    LET moved == UNION {Elements(q[k]) : k \in ks}
    IN  [c \in Clients |-> IF c \in moved THEN [client[c] EXCEPT !.state = to] ELSE client[c]]

-----------------------------------------------------------------------------
(* Bindings.                                                                  *)

\* Mutant: the last client to wait is the first to be unbound.
MutUnbindStacked(k) ==
    unbound[k] \o [i \in DOMAIN waiting[k] |-> waiting[k][Len(waiting[k]) + 1 - i]]

\* BindingDestructor: its clients are processed as new ones, and are unbound.
BindingDestructor(k) == unbound[k] \o waiting[k]

\* Mutant: the clients that were unbound are not looked at.
MutUnboundForgotten(k, t) ==
    /\ target[k] # t
    /\ target' = [target EXCEPT ![k] = t]
    /\ serving' = [serving EXCEPT ![k] = FindService(t)]
    /\ waiting' = [waiting EXCEPT ![k] = <<>>]
    /\ unbound' = [unbound EXCEPT ![k] = BindingDestructor(k)]
    /\ client' = Moved({k}, waiting, "unbound")
    /\ UNCHANGED server

\* A binding that is there already is left alone.  Any other one of the
\* interface is deleted first; then all its clients follow the new one.
CreateBinding(k, t) ==
    LET q == [waiting EXCEPT ![k] = BindingDestructor(k)]
    IN  \/ target[k] = t /\ UNCHANGED dirVars
        \/ /\ target[k] # t
           /\ target' = [target EXCEPT ![k] = t]
           /\ unbound' = [unbound EXCEPT ![k] = <<>>]
           /\ Dispatch({k}, q, [serving EXCEPT ![k] = FindService(t)],
                       Moved({k}, q, "waiting"), server)

SdirToolBind(k, t) == CreateBinding(k, t)

\* All bindings are deleted, and the built-in ones made again.
SdirToolUnbindAll ==
    LET all == [k \in Interfaces |-> BindingDestructor(k)]
        rest == Interfaces \ HardCoded
        asUnbound == Moved(rest, all, "unbound")
        asWaiting == Moved(HardCoded, all, "waiting")
        bound == UNION {Elements(all[k]) : k \in HardCoded}
    IN  /\ target' = [k \in Interfaces |-> IF k \in HardCoded THEN k ELSE NoService]
        /\ unbound' = [k \in Interfaces |-> IF k \in HardCoded THEN <<>> ELSE all[k]]
        /\ Dispatch(HardCoded,
                    [k \in Interfaces |-> IF k \in HardCoded THEN all[k] ELSE <<>>],
                    [k \in Interfaces |-> IF k \in HardCoded THEN FindService(k) ELSE NoServer],
                    [c \in Clients |-> IF c \in bound THEN asWaiting[c] ELSE asUnbound[c]],
                    server)

-----------------------------------------------------------------------------
(* Clients.                                                                   *)

\* CreateClientConnection: the user is known from the socket's credentials.
ClientConnectHandler(c, u) ==
    /\ client[c] = NoConn
    /\ client' = [client EXCEPT ![c] = [state |-> "unknown", user |-> u]]
    /\ UNCHANGED <<server, target, serving, waiting, unbound>>

\* RejectClient of a client on no list: it is told why, and dropped.
Reject(c) ==
    /\ client' = [client EXCEPT ![c] = NoConn]
    /\ UNCHANGED <<server, target, serving, waiting, unbound>>

\* With no server the client waits, or is rejected at once.
FollowBinding(c, k, cl, wait) ==
    \/ /\ serving[k] # NoServer
       /\ Dispatch({k}, [waiting EXCEPT ![k] = Append(@, c)], serving, cl, server)
       /\ UNCHANGED <<target, unbound>>
    \/ /\ serving[k] = NoServer /\ wait
       /\ client' = cl
       /\ waiting' = [waiting EXCEPT ![k] = Append(@, c)]
       /\ UNCHANGED <<server, target, serving, unbound>>
    \/ serving[k] = NoServer /\ ~wait /\ Reject(c)

\* ClientReadHandler receives the open request, the first thing to be sent.
ProcessOpenRequestFromClient(c, name, p, wait) ==
    LET k == <<client[c].user, name>>
        as(state) == [client EXCEPT ![c] =
                         [state |-> state, of |-> k, protocol |-> p, wait |-> wait]]
    IN  /\ client[c] # NoConn /\ client[c].state = "unknown"
        /\ \/ target[k] # NoService /\ FollowBinding(c, k, as("waiting"), wait)
           \/ /\ target[k] = NoService /\ wait
              /\ client' = as("unbound")
              /\ unbound' = [unbound EXCEPT ![k] = Append(@, c)]
              /\ UNCHANGED <<server, target, serving, waiting>>
           \/ target[k] = NoService /\ ~wait /\ Reject(c)

\* The client hangs up, its socket fails, or it sends what it should not.
ClientHangUpHandler(c) == CloseClientConnection(c)

-----------------------------------------------------------------------------
(* Servers.                                                                   *)

ServerConnectHandler(s, u) ==
    /\ server[s] = NoConn
    /\ server' = [server EXCEPT ![s] = [state |-> "connected", user |-> u]]
    /\ UNCHANGED <<client, target, serving, waiting, unbound>>

\* Every binding to the service gets the server, and its clients with it.
ResolveBindingsToServer(s, t, sv) ==
    LET ks == {k \in Interfaces : target[k] = t}
    IN  /\ Dispatch(ks, waiting,
                    [k \in Interfaces |-> IF k \in ks THEN s ELSE serving[k]], client, sv)
        /\ UNCHANGED <<target, unbound>>

IsDuplicateService(t) == FindService(t) # NoServer

\* ServerReadHandler receives the advertisement, the first thing to be sent.
ProcessAdvertisementFromServer(s, name, p) ==
    LET t == <<server[s].user, name>>
        advertised == [state |-> "serving", of |-> t, protocol |-> p]
    IN  /\ server[s] # NoConn /\ server[s].state = "connected"
        /\ \/ IsDuplicateService(t) /\ CloseServerConnection(s)
           \/ /\ ~IsDuplicateService(t)
              /\ ResolveBindingsToServer(s, t, [server EXCEPT ![s] = advertised])

\* The server hangs up, its socket fails, or it sends what it should not.
ServerHangUpHandler(s) == CloseServerConnection(s)

-----------------------------------------------------------------------------

DirectoryNext ==
    \/ \E c \in Clients :
         \/ \E u \in Users : ClientConnectHandler(c, u)
         \/ \E name \in Names, p \in Protocols, wait \in BOOLEAN :
               ProcessOpenRequestFromClient(c, name, p, wait)
         \/ ClientHangUpHandler(c)
    \/ \E s \in Servers :
         \/ \E u \in Users : ServerConnectHandler(s, u)
         \/ \E name \in Names, p \in Protocols : ProcessAdvertisementFromServer(s, name, p)
         \/ ServerHangUpHandler(s)
    \/ \E k, t \in Interfaces : SdirToolBind(k, t)
    \/ SdirToolUnbindAll

DirectorySpec == DirectoryInit /\ [][DirectoryNext]_dirVars

-----------------------------------------------------------------------------
(* Properties.                                                                *)

\* Type correctness of connections, bindings and lists.
DirectoryType ==
    /\ client \in [Clients -> Client \cup {NoConn}]
    /\ server \in [Servers -> Server \cup {NoConn}]
    /\ target \in [Interfaces -> Interfaces \cup {NoService}]
    /\ serving \in [Interfaces -> Servers \cup {NoServer}]
    /\ waiting \in [Interfaces -> Seq(Clients)] /\ unbound \in [Interfaces -> Seq(Clients)]

\* The pointer a binding keeps to its server is the one a look-up would find:
\* never to a connection that was closed, and never missing while the service
\* is there, however servers, bindings and failed sends came in between.
BindingsResolved ==
    \A k \in Interfaces :
        serving[k] = IF target[k] = NoService THEN NoServer ELSE FindService(target[k])

\* No client waits for what is there.  An unbound client has no binding to
\* follow, a client waiting at a binding has no server to be sent to, and each
\* is on the list that its destructor will look for it in, and on no other.
NobodyWaitsInVain ==
    \A k \in Interfaces :
        /\ unbound[k] # <<>> => target[k] = NoService
        /\ waiting[k] # <<>> => target[k] # NoService /\ serving[k] = NoServer
        /\ \A c \in Clients :
             LET is(state) == client[c] # NoConn /\ client[c].state = state /\ client[c].of = k
             IN  /\ c \in Elements(unbound[k]) <=> is("unbound")
                 /\ c \in Elements(waiting[k]) <=> is("waiting")

\* The clients of an interface are served in the order they came in.  Whatever
\* happens to bindings and servers, a client leaves from the front, or because
\* its own connection ends, and joins at the end.
Queue(k) == unbound[k] \o waiting[k]
ServedInOrder ==
    [][\A k \in Interfaces :
         \/ \E n \in 0 .. Len(Queue(k)) : Queue(k)' = SubSeq(Queue(k), n + 1, Len(Queue(k)))
         \/ \E c \in Clients :
               \/ Queue(k)' = Append(Queue(k), c)
               \/ /\ c \in Elements(Queue(k)) /\ client'[c] = NoConn
                  /\ Queue(k)' = Without(Queue(k), c)]_dirVars

\* A client that asked not to wait is answered at once: it is sent to the
\* server or told that there is none (le_msg_TryOpenSessionSync).
TryDoesNotWait ==
    \A c \in Clients : client[c] # NoConn /\ client[c].state # "unknown" => client[c].wait

=============================================================================
