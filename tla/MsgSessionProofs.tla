-------------------------- MODULE MsgSessionProofs --------------------------
(***************************************************************************)
(* Proofs about MsgSession, for any messages, any number of connections,   *)
(* any size of the sockets and any number of indications.                  *)
(***************************************************************************)
EXTENDS MsgSession, TLAPS

-----------------------------------------------------------------------------
(* Facts about sequences, in the form in which the proofs below use them.  *)

LEMMA ElementOfSeq ==
    ASSUME NEW S, NEW q \in Seq(S), NEW i \in 1 .. Len(q)
    PROVE  q[i] \in S
OBVIOUS

LEMMA EmptySeq ==
    ASSUME NEW S
    PROVE  /\ <<>> \in Seq(S) /\ Len(<<>>) = 0
           /\ \A q \in Seq(S) : q # <<>> => Len(q) \in Nat \ {0}
OBVIOUS

LEMMA LenProperties ==
    ASSUME NEW S, NEW q \in Seq(S)
    PROVE  Len(q) \in Nat /\ q \in [1 .. Len(q) -> S] /\ DOMAIN q = 1 .. Len(q)
OBVIOUS

LEMMA SeqEqual ==
    ASSUME NEW S, NEW p \in Seq(S), NEW q \in Seq(S), Len(p) = Len(q),
           \A i \in 1 .. Len(p) : p[i] = q[i]
    PROVE  p = q
OBVIOUS

LEMMA ConcatProperties ==
    ASSUME NEW S, NEW p \in Seq(S), NEW q \in Seq(S)
    PROVE  /\ p \o q \in Seq(S) /\ Len(p \o q) = Len(p) + Len(q)
           /\ \A i \in 1 .. Len(p) + Len(q) :
                 (p \o q)[i] = IF i <= Len(p) THEN p[i] ELSE q[i - Len(p)]
OBVIOUS

LEMMA ConcatAssociative ==
    ASSUME NEW S, NEW p \in Seq(S), NEW q \in Seq(S), NEW r \in Seq(S)
    PROVE  (p \o q) \o r = p \o (q \o r)
OBVIOUS

LEMMA HeadTailProperties ==
    ASSUME NEW S, NEW q \in Seq(S), q # <<>>
    PROVE  /\ Head(q) \in S /\ Tail(q) \in Seq(S) /\ Len(Tail(q)) = Len(q) - 1
           /\ \A i \in 1 .. Len(Tail(q)) : Tail(q)[i] = q[i + 1]
OBVIOUS

LEMMA AppendProperties ==
    ASSUME NEW S, NEW q \in Seq(S), NEW e \in S
    PROVE  Append(q, e) \in Seq(S) /\ Len(Append(q, e)) = Len(q) + 1
OBVIOUS

LEMMA AppendIsConcat ==
    ASSUME NEW S, NEW q \in Seq(S), NEW e \in S
    PROVE  Append(q, e) = q \o <<e>>
OBVIOUS

-----------------------------------------------------------------------------
(* The inductive invariant.                                                *)

\* The type invariant in three parts: what is Boolean, the rest of the client,
\* and the server with the sockets.
BoolType == pollOut \in BOOLEAN /\ syncSent \in BOOLEAN /\ reported \in Events

ClientType ==
    /\ state \in {"closed", "opening", "opensync", "open", "dead"} /\ conn \in 0 .. MaxConn
    /\ txnMap \subseteq Reqs /\ txnList \subseteq Reqs
    /\ transmitQueue \in Seq(ToServer) /\ receiveQueue \in Seq(ToClient)
    /\ deferred \in Nat /\ frame \in {"idle", "loop", "deferred", "after"}
    /\ sync \in Reqs \cup {NoReq}
    /\ via \in [Reqs -> 0 .. MaxConn] /\ seen \in 0 .. MaxInd

ServerType ==
    /\ srv \in [Conns -> Session] /\ held \subseteq [id : Reqs, c : Conns]
    /\ sFrame \in 0 .. MaxConn
    /\ c2s \in [Conns -> Seq(ToServer)] /\ s2c \in [Conns -> Seq(ToClient)]

\* What the client has: nothing is queued unless its session is open, and only
\* then is it blocked in a request.
ClientInv ==
    /\ state \in {"opening", "opensync", "open"} => conn # 0
    /\ state # "open" => transmitQueue = <<>> /\ receiveQueue = <<>> /\ sync = NoReq

\* What the sockets and the server have.
ConnInv ==
    \A c \in Conns :
        /\ Len(c2s[c]) <= SockCap /\ Len(s2c[c]) <= SockCap
        /\ srv[c].state = "none" => s2c[c] = <<>>
        /\ srv[c].state # "none" => c <= conn
        /\ srv[c].state # "open" => srv[c].tq = <<>>

\* The inductive invariant.
MsgInv ==
    /\ BoolType /\ ClientType /\ ServerType
    /\ ClientInv /\ ConnInv /\ ReceiveQueueWatched /\ TransmitQueueWatched

\* What a step of the server may do to a connection.
ConnStep(d) ==
    /\ srv[d].state = "closed" => srv'[d].state = "closed"
    /\ Len(c2s'[d]) <= SockCap /\ Len(s2c'[d]) <= SockCap
    /\ srv'[d].state = "none" => s2c'[d] = <<>>
    /\ srv'[d].state # "none" => d <= conn
    /\ srv'[d].state # "open" => srv'[d].tq = <<>>
    /\ srv'[d].tq # <<>> => srv'[d].pollOut \/ ClientGone(d)

-----------------------------------------------------------------------------
(* The parts of the actions.                                               *)

\* A message put into a queue, or taken from it, leaves a queue.
LEMMA Queues ==
    ASSUME NEW S, NEW q \in Seq(S), NEW k \in 0 .. Len(q)
    PROVE  /\ SubSeq(q, 1, k) \in Seq(S) /\ Len(SubSeq(q, 1, k)) = k
           /\ SubSeq(q, k + 1, Len(q)) \in Seq(S)
           /\ Len(SubSeq(q, k + 1, Len(q))) = Len(q) - k
           /\ SubSeq(q, k + 1, Len(q)) # <<>> => k < Len(q)
<1>1. /\ SubSeq(q, 1, k) \in Seq(S) /\ Len(SubSeq(q, 1, k)) = k
    OBVIOUS
<1>2. /\ SubSeq(q, k + 1, Len(q)) \in Seq(S)
      /\ Len(SubSeq(q, k + 1, Len(q))) = Len(q) - k
    OBVIOUS
<1>3. SubSeq(q, k + 1, Len(q)) # <<>> => k < Len(q)
    BY <1>2, EmptySeq, LenProperties
<1> QED BY Zenon, <1>1, <1>2, <1>3

\* The lesser of two numbers is at most each of them.
LEMMA LeastOfTwo ==
    ASSUME NEW a \in Nat, NEW b \in Nat
    PROVE  Least(a, b) \in 0 .. b /\ Least(a, b) <= a
BY DEF Least

\* What SendFromTransmitQueue cannot send stays queued with POLLOUT enabled, or
\* the server has gone (messagingSession.c:1012).
LEMMA Sending ==
    ASSUME MsgInv, conn \in Conns, NEW q \in Seq(ToServer), SendFromTransmitQueue(q)
    PROVE  /\ transmitQueue' \in Seq(ToServer) /\ pollOut' \in BOOLEAN
           /\ txnList' \subseteq Reqs /\ c2s' \in [Conns -> Seq(ToServer)]
           /\ \A c \in Conns : Len(c2s'[c]) <= SockCap
           /\ transmitQueue' # <<>> => pollOut' \/ ServerGone(conn)
<1>1. CASE ServerGone(conn)
    BY Zenon, <1>1 DEF SendFromTransmitQueue, MsgInv, BoolType, ClientType, ServerType, ConnInv
<1>2. CASE ~ServerGone(conn)
    <2> DEFINE k == Least(SockCap - Len(c2s[conn]), Len(q))
    <2>1. /\ c2s[conn] \in Seq(ToServer) /\ Len(c2s[conn]) \in 0 .. SockCap
          /\ SockCap - Len(c2s[conn]) \in Nat
        BY MsgConstants, LenProperties DEF MsgInv, ClientType, ServerType, ConnInv
    <2>2. k \in 0 .. Len(q) /\ k <= SockCap - Len(c2s[conn])
        BY Zenon, <2>1, MsgConstants, LenProperties, LeastOfTwo
    <2>3. /\ SubSeq(q, 1, k) \in Seq(ToServer) /\ Len(SubSeq(q, 1, k)) = k
          /\ SubSeq(q, k + 1, Len(q)) \in Seq(ToServer)
          /\ SubSeq(q, k + 1, Len(q)) # <<>> => k < Len(q)
        BY <2>2, Queues
    <2>4. /\ c2s[conn] \o SubSeq(q, 1, k) \in Seq(ToServer)
          /\ Len(c2s[conn] \o SubSeq(q, 1, k)) <= SockCap
        BY <2>1, <2>2, <2>3, ConcatProperties, MsgConstants
    <2>5. /\ c2s' = [c2s EXCEPT ![conn] = @ \o SubSeq(q, 1, k)]
          /\ txnList' = txnList \cup {q[i].id : i \in {j \in 1 .. k : q[j].kind = "req"}}
          /\ transmitQueue' = SubSeq(q, k + 1, Len(q))
          /\ pollOut' = (k < Len(q))
        BY Zenon, <1>2 DEF SendFromTransmitQueue
    <2>6. \A j \in 1 .. k : q[j] \in ToServer
        BY <2>2, ElementOfSeq
    <2>7. txnList' \subseteq Reqs
        BY Zenon, <2>5, <2>6 DEF MsgInv, ClientType, ToServer
    <2> HIDE DEF k
    <2> DEFINE left == k < Len(q)
    <2>8. pollOut' = left /\ left \in BOOLEAN
        BY <2>5
    <2> HIDE DEF left
    <2>9. c2s' \in [Conns -> Seq(ToServer)] /\ \A c \in Conns : Len(c2s'[c]) <= SockCap
        BY Zenon, <2>4, <2>5 DEF MsgInv, ClientType, ServerType, ConnInv
    <2>10. transmitQueue' \in Seq(ToServer) /\ (transmitQueue' # <<>> => pollOut')
        BY Zenon, <2>2, <2>3, <2>5, LenProperties
    <2> QED BY Zenon, <2>7, <2>8, <2>9, <2>10
<1> QED BY Zenon, <1>1, <1>2

\* SendFromTransmitQueue on the server side.
LEMMA SendingToClient ==
    ASSUME MsgInv, NEW c \in Conns, srv[c].state = "open",
           NEW q \in Seq(ToClient), NEW n \in 0 .. MaxInd, SendToClient(c, q, n)
    PROVE  /\ srv' \in [Conns -> Session] /\ s2c' \in [Conns -> Seq(ToClient)]
           /\ \A d \in Conns : d # c => srv'[d] = srv[d] /\ s2c'[d] = s2c[d]
           /\ srv'[c].state = "open" /\ Len(s2c'[c]) <= SockCap
           /\ srv'[c].tq # <<>> => srv'[c].pollOut \/ ClientGone(c)
<1>0. srv[c] \in Session /\ srv \in [Conns -> Session] /\ s2c \in [Conns -> Seq(ToClient)]
    BY Zenon DEF MsgInv, ServerType
<1>1. CASE ClientGone(c)
    <2>1. srv' = [srv EXCEPT ![c] = [@ EXCEPT !.tq = q, !.inds = n]] /\ s2c' = s2c
        BY Zenon, <1>1, <1>0 DEF SendToClient
    <2>2. [srv[c] EXCEPT !.tq = q, !.inds = n] \in Session
        BY Zenon, <1>0 DEF Session
    <2> QED BY Zenon, <1>0, <1>1, <2>1, <2>2 DEF MsgInv, ConnInv, Session
<1>2. CASE ~ClientGone(c)
    <2> DEFINE k == Least(SockCap - Len(s2c[c]), Len(q))
               rest == SubSeq(q, k + 1, Len(q))
               left == k < Len(q)
    <2>1. /\ s2c[c] \in Seq(ToClient) /\ Len(s2c[c]) \in 0 .. SockCap
          /\ SockCap - Len(s2c[c]) \in Nat
        BY MsgConstants, LenProperties DEF MsgInv, ClientType, ServerType, ConnInv
    <2>2. k \in 0 .. Len(q) /\ k <= SockCap - Len(s2c[c])
        BY Zenon, <2>1, MsgConstants, LenProperties, LeastOfTwo
    <2>3. /\ SubSeq(q, 1, k) \in Seq(ToClient) /\ Len(SubSeq(q, 1, k)) = k
          /\ rest \in Seq(ToClient) /\ (rest # <<>> => left)
        BY <2>2, Queues
    <2>4. /\ s2c[c] \o SubSeq(q, 1, k) \in Seq(ToClient)
          /\ Len(s2c[c] \o SubSeq(q, 1, k)) <= SockCap
        BY <2>1, <2>2, <2>3, ConcatProperties, MsgConstants
    <2>5. /\ s2c' = [s2c EXCEPT ![c] = @ \o SubSeq(q, 1, k)]
          /\ srv' = [srv EXCEPT ![c].tq = rest, ![c].pollOut = left, ![c].inds = n]
        BY Zenon, <1>2 DEF SendToClient
    <2>6. left \in BOOLEAN
        OBVIOUS
    <2> HIDE DEF k, rest, left
    <2>7. srv' = [srv EXCEPT ![c] = [@ EXCEPT !.tq = rest, !.pollOut = left, !.inds = n]]
        BY Zenon, <2>5, <1>0
    <2>8. [srv[c] EXCEPT !.tq = rest, !.pollOut = left, !.inds = n] \in Session
        BY Zenon, <1>0, <2>3, <2>6 DEF Session
    <2>9. s2c' \in [Conns -> Seq(ToClient)] /\ Len(s2c'[c]) <= SockCap
          /\ \A d \in Conns : d # c => s2c'[d] = s2c[d]
        BY Zenon, <1>0, <2>4, <2>5
    <2>10. /\ srv' \in [Conns -> Session] /\ srv'[c].state = "open"
           /\ \A d \in Conns : d # c => srv'[d] = srv[d]
           /\ srv'[c].tq = rest /\ srv'[c].pollOut = left
        BY Zenon, <1>0, <2>7, <2>8 DEF Session
    <2> QED BY Zenon, <2>3, <2>9, <2>10
<1> QED BY Zenon, <1>1, <1>2

\* The empty queue is a queue of either direction.
LEMMA EmptyQueue ==
    <<>> \in Seq(ToServer) /\ <<>> \in Seq(ToClient) /\ Len(<<>>) = 0
BY Zenon, EmptySeq

\* Session objects that are new or closed have nothing to send.
LEMMA EmptySessions ==
    /\ NewSession \in Session /\ ClosedSession \in Session
    /\ NewSession.state = "none" /\ NewSession.tq = <<>>
    /\ ClosedSession.state = "closed" /\ ClosedSession.tq = <<>>
<1> DEFINE f == FALSE
<1>0. NewSession = [state |-> "none", rq |-> <<>>, tq |-> <<>>, pollOut |-> f, inds |-> 0]
    BY Zenon DEF NewSession
<1>f. f \in BOOLEAN BY Zenon
<1> HIDE DEF f
<1>1. ClosedSession = [state |-> "closed", rq |-> <<>>, tq |-> <<>>, pollOut |-> f,
                       inds |-> 0]
    BY <1>0 DEF ClosedSession
<1>2. 0 \in 0 .. MaxInd
    BY MsgConstants
<1> QED BY Zenon, <1>0, <1>1, <1>2, <1>f, EmptyQueue DEF Session

\* A closed socket empties one direction, and perhaps the other.
LEMMA ClientCloses ==
    ASSUME MsgInv, conn \in Conns, CloseSession
    PROVE  /\ txnMap' \subseteq Reqs /\ pollOut' = FALSE
           /\ transmitQueue' = <<>> /\ transmitQueue' \in Seq(ToServer)
           /\ receiveQueue' = <<>> /\ receiveQueue' \in Seq(ToClient)
           /\ c2s' \in [Conns -> Seq(ToServer)] /\ s2c' \in [Conns -> Seq(ToClient)]
           /\ \A c \in Conns : /\ Len(c2s'[c]) <= SockCap /\ Len(s2c'[c]) <= SockCap
                               /\ s2c[c] = <<>> => s2c'[c] = <<>>
<1>1. /\ s2c' = [s2c EXCEPT ![conn] = <<>>]
      /\ c2s' = c2s \/ c2s' = [c2s EXCEPT ![conn] = <<>>]
    BY Zenon DEF CloseSession, CloseSocket
<1>2. c2s \in [Conns -> Seq(ToServer)] /\ s2c \in [Conns -> Seq(ToClient)]
    BY Zenon DEF MsgInv, ServerType
<1>3. /\ s2c' \in [Conns -> Seq(ToClient)] /\ c2s' \in [Conns -> Seq(ToServer)]
      /\ s2c'[conn] = <<>> /\ Len(s2c'[conn]) = 0
      /\ c2s'[conn] = c2s[conn] \/ Len(c2s'[conn]) = 0
      /\ \A d \in Conns : d # conn => s2c'[d] = s2c[d] /\ c2s'[d] = c2s[d]
    BY Zenon, <1>1, <1>2, EmptyQueue
<1>4. ASSUME NEW c \in Conns
      PROVE  /\ Len(c2s'[c]) <= SockCap /\ Len(s2c'[c]) <= SockCap
             /\ s2c[c] = <<>> => s2c'[c] = <<>>
    <2>1. Len(c2s[c]) <= SockCap /\ Len(s2c[c]) <= SockCap /\ 0 <= SockCap
        BY MsgConstants DEF MsgInv, ConnInv
    <2> QED BY Zenon, <1>3, <2>1
<1> QED BY Zenon, <1>3, <1>4, EmptyQueue DEF CloseSession, MsgInv, ClientType

-----------------------------------------------------------------------------
(* The actions, and the theorems about types and watched queues.           *)

\* The inductive invariant: what the client, the server and the sockets hold
\* fits together.  A session that is not open has nothing queued, on either side
\* (messagingSession.c:472).
THEOREM MsgInvariant == MsgSpec => []MsgInv

\* DeleteSession on the server side touches one connection only
\* (messagingSession.c:518).
<1>ServerCloses.
    ASSUME MsgInv, NEW c \in Conns, DeleteSession(c)
    PROVE  /\ srv' \in [Conns -> Session] /\ srv'[c] = ClosedSession
           /\ \A d \in Conns : d # c => srv'[d] = srv[d]
           /\ c2s' \in [Conns -> Seq(ToServer)] /\ s2c' \in [Conns -> Seq(ToClient)]
           /\ \A d \in Conns : /\ Len(c2s'[d]) <= SockCap /\ Len(s2c'[d]) <= SockCap
                               /\ s2c[d] = <<>> => s2c'[d] = <<>>
    <2> USE <1>ServerCloses
    <2>1. /\ c2s' = [c2s EXCEPT ![c] = <<>>]
          /\ s2c' = s2c \/ s2c' = [s2c EXCEPT ![c] = <<>>]
        BY Zenon DEF DeleteSession, CloseSocket
    <2>2. c2s \in [Conns -> Seq(ToServer)] /\ s2c \in [Conns -> Seq(ToClient)]
          /\ srv \in [Conns -> Session]
        BY Zenon DEF MsgInv, ServerType
    <2>3. /\ s2c' \in [Conns -> Seq(ToClient)] /\ c2s' \in [Conns -> Seq(ToServer)]
          /\ c2s'[c] = <<>> /\ Len(c2s'[c]) = 0
          /\ s2c'[c] = s2c[c] \/ (s2c'[c] = <<>> /\ Len(s2c'[c]) = 0)
          /\ \A d \in Conns : d # c => s2c'[d] = s2c[d] /\ c2s'[d] = c2s[d]
        BY Zenon, <2>1, <2>2, EmptyQueue
    <2>4. ASSUME NEW d \in Conns
          PROVE  /\ Len(c2s'[d]) <= SockCap /\ Len(s2c'[d]) <= SockCap
                 /\ s2c[d] = <<>> => s2c'[d] = <<>>
        <3>1. Len(c2s[d]) <= SockCap /\ Len(s2c[d]) <= SockCap /\ 0 <= SockCap
            BY MsgConstants DEF MsgInv, ConnInv
        <3> QED BY Zenon, <2>3, <3>1
    <2> QED BY Zenon, <2>2, <2>3, <2>4, EmptySessions DEF DeleteSession

\* The invariant holds before the first connection.
<1>MsgInitInv. MsgInit => MsgInv
    <2> SUFFICES ASSUME MsgInit PROVE MsgInv
        BY Zenon
    <2>1. BoolType
        <3>1. pollOut \in BOOLEAN /\ syncSent \in BOOLEAN
            BY Zenon DEF MsgInit
        <3>2. reported \in Events
            BY MsgConstants DEF MsgInit, Events, NoEvents
        <3> QED BY Zenon, <3>1, <3>2 DEF BoolType
    <2>2. ClientType /\ ServerType
        BY EmptyQueue, EmptySessions, MsgConstants DEF MsgInit, ClientType, ServerType
    <2>3. ConnInv
        BY EmptyQueue, EmptySessions, MsgConstants DEF MsgInit, ConnInv
    <2>4. ClientInv /\ ReceiveQueueWatched /\ TransmitQueueWatched
        BY Zenon, EmptySessions DEF MsgInit, ClientInv, ReceiveQueueWatched, TransmitQueueWatched
    <2> QED BY Zenon, <2>1, <2>2, <2>3, <2>4 DEF MsgInv

\* A step of the client that leaves the server and the sockets alone, or empties
\* them, keeps what is known of them.
<1>ConnKept.
    ASSUME MsgInv, UNCHANGED server, conn' \in {conn, conn + 1},
           conn' = conn /\ state \in {"closed", "dead"} => state' \in {"closed", "dead"},
           \A c \in Conns : /\ Len(c2s'[c]) <= SockCap /\ Len(s2c'[c]) <= SockCap
                            /\ s2c[c] = <<>> => s2c'[c] = <<>>
    PROVE  /\ ConnInv'
           /\ \A c \in Conns : srv'[c].tq # <<>> => srv'[c].pollOut \/ ClientGone(c)'
    <2> USE <1>ConnKept
    <2>1. srv' = srv /\ conn \in Nat BY DEF server, MsgInv, ClientType
    <2>2. ConnInv'
        BY <2>1 DEF MsgInv, ConnInv, Conns
    <2>3. ASSUME NEW c \in Conns, srv'[c].tq # <<>>
          PROVE  srv'[c].pollOut \/ ClientGone(c)'
        <3>1. c <= conn /\ (srv[c].pollOut \/ ClientGone(c))
            BY Zenon, <2>1, <2>3 DEF MsgInv, ConnInv, TransmitQueueWatched
        <3> QED BY <2>1, <3>1 DEF ClientGone, Conns
    <2> QED BY Zenon, <2>2, <2>3

\* The same for a step that leaves the sockets alone too.
<1>ClientOnly.
    ASSUME MsgInv, UNCHANGED <<server, c2s, s2c>>, conn' \in {conn, conn + 1},
           conn' = conn /\ state \in {"closed", "dead"} => state' \in {"closed", "dead"}
    PROVE  /\ ServerType' /\ ConnInv'
           /\ \A c \in Conns : srv'[c].tq # <<>> => srv'[c].pollOut \/ ClientGone(c)'
    <2> USE <1>ClientOnly
    <2>1. ServerType'
        BY Zenon DEF server, MsgInv, ServerType
    <2> QED BY Zenon, <2>1, <1>ConnKept DEF MsgInv, ConnInv

\* The client opens a session that is closed.
<1>OpenSteps.
    ASSUME MsgInv, le_msg_OpenSession \/ le_msg_OpenSessionSync
    PROVE  MsgInv'
    <2> USE <1>OpenSteps
    <2> USE DEF le_msg_OpenSession, le_msg_OpenSessionSync
    <2>1. BoolType'
        BY Zenon DEF MsgInv, BoolType
    <2>2. ClientType'
        BY MsgConstants DEF StartSessionOpenAttempt, MsgInv, ClientType
    <2>3. ClientInv' /\ ReceiveQueueWatched' /\ transmitQueue' = <<>>
        BY DEF StartSessionOpenAttempt, MsgInv, ClientType, ClientInv, ReceiveQueueWatched
    <2>4. /\ ServerType' /\ ConnInv'
          /\ \A c \in Conns : srv'[c].tq # <<>> => srv'[c].pollOut \/ ClientGone(c)'
        <3>1. UNCHANGED <<server, c2s, s2c>> /\ conn' \in {conn, conn + 1}
              /\ (conn' = conn => state' = "dead")
            BY DEF StartSessionOpenAttempt, MsgInv, ClientType
        <3> QED BY Zenon, <3>1, <1>ClientOnly
    <2> QED BY Zenon, <2>1, <2>2, <2>3, <2>4 DEF MsgInv, TransmitQueueWatched

\* The event loop polls, or goes on to the next thing.
<1>LoopSteps.
    ASSUME MsgInv, Poll \/ Discard \/ NothingToRead \/ LoopEnds
    PROVE  MsgInv'
    <2> USE <1>LoopSteps
    <2>1. /\ UNCHANGED <<state, conn, txnMap, transmitQueue, txnList, receiveQueue, pollOut,
                         deferred, sync, syncSent, via, seen>>
          /\ UNCHANGED <<server, c2s, s2c>>
        BY Zenon DEF Poll, Discard, NothingToRead, LoopEnds, Dispatched
    <2>2. reported' \in Events
        <3>1. CASE Poll
            <4> DEFINE i == s2c[conn] # <<>> \/ ServerGone(conn)
                       h == ServerGone(conn)
                       o == pollOut /\ Len(c2s[conn]) < SockCap
            <4>1. reported' = [mon |-> conn, in |-> i, hup |-> h, out |-> o]
                BY Zenon, <3>1 DEF Poll
            <4>2. i \in BOOLEAN /\ h \in BOOLEAN /\ o \in BOOLEAN
                BY Zenon DEF ServerGone
            <4> HIDE DEF i, h, o
            <4> QED BY Zenon, <4>1, <4>2 DEF Events, MsgInv, ClientType
        <3>2. CASE Discard
            BY <3>2, MsgConstants DEF Discard, Events, NoEvents
        <3>3. CASE NothingToRead
            <4> DEFINE o == reported.out /\ pollOut
            <4>1. reported' = [reported EXCEPT !.out = o]
                BY Zenon, <3>3 DEF NothingToRead, Dispatched
            <4>2. o \in BOOLEAN
                BY Zenon
            <4> HIDE DEF o
            <4> QED BY Zenon, <4>1, <4>2 DEF Events, MsgInv, BoolType
        <3>4. CASE LoopEnds
            BY <3>4, Zenon DEF LoopEnds, MsgInv, BoolType
        <3> QED BY Zenon, <3>1, <3>2, <3>3, <3>4
    <2>3. BoolType'
        BY <2>1, <2>2, Zenon DEF MsgInv, BoolType
    <2>4. ClientType' /\ ClientInv'
        BY Zenon, <2>1 DEF Poll, Discard, NothingToRead, LoopEnds, MsgInv, ClientType, ClientInv
    <2>5. ReceiveQueueWatched'
        BY Zenon, <2>1 DEF Poll, Discard, NothingToRead, Dispatched, EventLoop, LoopEnds, MsgInv,
           ReceiveQueueWatched
    <2>6. /\ ServerType' /\ ConnInv'
          /\ \A c \in Conns : srv'[c].tq # <<>> => srv'[c].pollOut \/ ClientGone(c)'
        BY Zenon, <2>1, <1>ClientOnly
    <2>7. transmitQueue' # <<>> => pollOut' \/ ServerGone(conn)'
        BY <2>1, Zenon DEF MsgInv, TransmitQueueWatched, ServerGone, server
    <2> QED BY Zenon, <2>3, <2>4, <2>5, <2>6, <2>7 DEF MsgInv, TransmitQueueWatched

\* Messages received before are processed.
<1>QueueSteps.
    ASSUME MsgInv, ProcessDeferredMessages \/ ProcessReceivedMessages
    PROVE  MsgInv'
    <2> USE <1>QueueSteps
    <2>1. /\ UNCHANGED <<state, conn, transmitQueue, pollOut, reported, sync, syncSent, via>>
          /\ UNCHANGED <<server, c2s, s2c>>
        BY Zenon DEF ProcessDeferredMessages, ProcessReceivedMessages
    <2>2. BoolType'
        BY <2>1, Zenon DEF MsgInv, BoolType
    <2>3. ASSUME ProcessDeferredMessages
          PROVE  ClientType' /\ ClientInv' /\ ReceiveQueueWatched'
        <3>1. ClientType' /\ ClientInv' /\ ReceiveQueueWatched'
            BY <2>1, <2>3 DEF ProcessDeferredMessages, MsgInv, ClientType, ClientInv,
               ReceiveQueueWatched
        <3> QED BY Zenon, <3>1
    <2>4. ASSUME ProcessReceivedMessages
          PROVE  ClientType' /\ ClientInv' /\ ReceiveQueueWatched'
        <3>1. receiveQueue \in Seq(ToClient) /\ receiveQueue # <<>>
            BY Zenon, <2>4 DEF ProcessReceivedMessages, MsgInv, ClientType
        <3>2. Head(receiveQueue) \in ToClient /\ Tail(receiveQueue) \in Seq(ToClient)
            BY Zenon, <3>1, HeadTailProperties
        <3>3. seen' \in 0 .. MaxInd
            <4>1. CASE Head(receiveQueue).kind = "ind"
                <5>1. Head(receiveQueue).id \in 1 .. MaxInd BY Zenon, <3>2, <4>1 DEF ToClient
                <5>2. seen' = Head(receiveQueue).id
                    BY Zenon, <2>4, <4>1 DEF ProcessReceivedMessages, ProcessMessageFromServer
                <5> QED BY <5>1, <5>2
            <4>2. CASE Head(receiveQueue).kind # "ind"
                BY Zenon, <2>4, <4>2 DEF ProcessReceivedMessages, ProcessMessageFromServer, MsgInv,
                   ClientType
            <4> QED BY Zenon, <4>1, <4>2
        <3>4. ClientType'
            BY Zenon, <2>1, <2>4, <3>2, <3>3 DEF ProcessReceivedMessages, ProcessMessageFromServer, MsgInv,
               ClientType
        <3>5. ClientInv' /\ ReceiveQueueWatched'
            BY Zenon, <2>1, <2>4, <3>1 DEF ProcessReceivedMessages, MsgInv, ClientInv, ReceiveQueueWatched
        <3> QED BY Zenon, <3>4, <3>5
    <2>5. /\ ServerType' /\ ConnInv'
          /\ \A c \in Conns : srv'[c].tq # <<>> => srv'[c].pollOut \/ ClientGone(c)'
        BY Zenon, <2>1, <1>ClientOnly
    <2>6. transmitQueue' # <<>> => pollOut' \/ ServerGone(conn)'
        BY <2>1, Zenon DEF MsgInv, TransmitQueueWatched, ServerGone, server
    <2>7. ClientType' /\ ClientInv' /\ ReceiveQueueWatched'
        BY Zenon, <2>3, <2>4
    <2> QED BY Zenon, <2>2, <2>5, <2>6, <2>7 DEF MsgInv, TransmitQueueWatched

\* The client reads from its socket.
<1>Reading.
    ASSUME MsgInv, conn \in Conns, s2c[conn] # <<>>
    PROVE  /\ Head(s2c[conn]) \in ToClient
           /\ [s2c EXCEPT ![conn] = Tail(@)] \in [Conns -> Seq(ToClient)]
           /\ \A c \in Conns : /\ Len([s2c EXCEPT ![conn] = Tail(@)][c]) <= SockCap
                               /\ s2c[c] = <<>> => [s2c EXCEPT ![conn] = Tail(@)][c] = <<>>
    <2> USE <1>Reading
    <2>1. s2c[conn] \in Seq(ToClient) /\ s2c \in [Conns -> Seq(ToClient)]
          /\ \A c \in Conns : Len(s2c[c]) <= SockCap
        BY Zenon DEF MsgInv, ServerType, ConnInv
    <2>2. /\ Head(s2c[conn]) \in ToClient /\ Tail(s2c[conn]) \in Seq(ToClient)
          /\ Len(Tail(s2c[conn])) = Len(s2c[conn]) - 1 /\ Len(s2c[conn]) \in Nat
        BY Zenon, <2>1, HeadTailProperties, LenProperties
    <2>3. Len(Tail(s2c[conn])) <= SockCap
        BY <2>1, <2>2, MsgConstants
    <2> QED BY Zenon, <2>1, <2>2, <2>3

\* The conclusion about a step of the client from its parts.
<1>ClientStep.
    ASSUME MsgInv, UNCHANGED server, conn' \in {conn, conn + 1},
           conn' = conn /\ state \in {"closed", "dead"} => state' \in {"closed", "dead"},
           c2s' \in [Conns -> Seq(ToServer)], s2c' \in [Conns -> Seq(ToClient)],
           \A c \in Conns : /\ Len(c2s'[c]) <= SockCap /\ Len(s2c'[c]) <= SockCap
                            /\ s2c[c] = <<>> => s2c'[c] = <<>>,
           BoolType', ClientType', ClientInv', ReceiveQueueWatched',
           transmitQueue' # <<>> => pollOut' \/ ServerGone(conn)'
    PROVE  MsgInv'
    <2> USE <1>ClientStep
    <2>1. ServerType'
        BY Zenon DEF server, MsgInv, ServerType
    <2> QED BY Zenon, <2>1, <1>ConnKept DEF MsgInv, TransmitQueueWatched

\* The reported events stay events when the handler is called.
<1>DispatchedEvents. ASSUME MsgInv, Dispatched PROVE reported' \in Events
    <2> USE <1>DispatchedEvents
    <2> DEFINE o == reported.out /\ pollOut
    <2>1. reported' = [reported EXCEPT !.out = o]
        BY Zenon DEF Dispatched
    <2>2. o \in BOOLEAN
        BY Zenon
    <2> HIDE DEF o
    <2> QED BY Zenon, <2>1, <2>2 DEF Events, MsgInv, BoolType

\* A blocking request takes messages from the socket.
<1>SyncReceiveStep.
    ASSUME MsgInv, SyncReceive
    PROVE  MsgInv'
    <2> USE <1>SyncReceiveStep
    <2>0. state = "open" /\ conn \in Conns /\ sync \in Reqs
        BY DEF SyncReceive, MsgInv, ClientType, ClientInv, Conns
    <2>1. UNCHANGED <<state, conn, transmitQueue, txnList, pollOut, reported, frame, via, seen>>
          /\ UNCHANGED <<server, c2s>>
        BY Zenon DEF SyncReceive
    <2>2. BoolType'
        <3>1. syncSent' \in BOOLEAN
            BY Zenon DEF SyncReceive, SyncDone, MsgInv, BoolType
        <3> QED BY <2>1, <3>1, Zenon DEF MsgInv, BoolType
    <2>3. ASSUME SyncDone, UNCHANGED <<receiveQueue, deferred>>
          PROVE  ClientType' /\ ClientInv' /\ ReceiveQueueWatched'
        BY Zenon, <2>0, <2>1, <2>3 DEF SyncDone, MsgInv, ClientType, ClientInv, ReceiveQueueWatched
    <2>4. ASSUME NEW m \in ToClient, QueueForLater(m), UNCHANGED <<sync, syncSent, txnMap>>
          PROVE  ClientType' /\ ClientInv' /\ ReceiveQueueWatched'
        <3>1. receiveQueue' \in Seq(ToClient) /\ deferred' \in Nat
            BY <2>4, AppendProperties DEF QueueForLater, MsgInv, ClientType
        <3>2. ClientType' /\ ClientInv'
            BY Zenon, <2>0, <2>1, <2>4, <3>1 DEF MsgInv, ClientType, ClientInv
        <3>3. ReceiveQueueWatched'
            BY <2>1, <2>4, <3>1 DEF QueueForLater, MsgInv, ClientType, ReceiveQueueWatched
        <3> QED BY Zenon, <3>2, <3>3
    <2>5. /\ s2c' \in [Conns -> Seq(ToClient)]
          /\ \A c \in Conns : Len(s2c'[c]) <= SockCap /\ (s2c[c] = <<>> => s2c'[c] = <<>>)
          /\ ClientType' /\ ClientInv' /\ ReceiveQueueWatched'
        <3>1. CASE s2c[conn] # <<>> /\ s2c' = [s2c EXCEPT ![conn] = Tail(@)]
            BY Zenon, <2>0, <2>3, <2>4, <3>1, <1>Reading DEF SyncReceive
        <3>2. CASE s2c[conn] = <<>>
            BY Zenon, <2>3, <3>2 DEF SyncReceive, MsgInv, ServerType, ConnInv
        <3> QED BY Zenon, <3>1, <3>2 DEF SyncReceive
    <2>6. c2s' \in [Conns -> Seq(ToServer)] /\ \A c \in Conns : Len(c2s'[c]) <= SockCap
        BY Zenon, <2>1 DEF MsgInv, ServerType, ConnInv
    <2>7. transmitQueue' # <<>> => pollOut' \/ ServerGone(conn)'
        BY <2>1, Zenon DEF MsgInv, TransmitQueueWatched, ServerGone, server
    <2> QED BY Zenon, <2>0, <2>1, <2>2, <2>5, <2>6, <2>7, <1>ClientStep

\* The socket of an open session is readable.
<1>ClientSocketReadableStep.
    ASSUME MsgInv, ClientSocketReadable
    PROVE  MsgInv'
    <2> USE <1>ClientSocketReadableStep
    <2>0. state = "open" /\ conn \in Conns
        BY DEF ClientSocketReadable, MsgInv, ClientType, ClientInv, Conns
    <2>1. UNCHANGED <<state, conn, txnMap, transmitQueue, txnList, pollOut, deferred,
                      sync, syncSent, via, seen>>
          /\ UNCHANGED <<server, c2s>>
        BY Zenon DEF ClientSocketReadable
    <2>2. BoolType'
        BY <2>1, <1>DispatchedEvents, Zenon DEF ClientSocketReadable, MsgInv, BoolType
    <2>3. s2c[conn] \in Seq(ToClient) /\ receiveQueue \in Seq(ToClient)
        BY Zenon, <2>0 DEF MsgInv, ClientType, ServerType
    <2>4. receiveQueue' \in Seq(ToClient)
        BY Zenon, <2>3, ConcatProperties DEF ClientSocketReadable
    <2>5. ClientType' /\ ClientInv' /\ ReceiveQueueWatched'
        BY Zenon, <2>0, <2>1, <2>4 DEF ClientSocketReadable, MsgInv, ClientType, ClientInv,
           ReceiveQueueWatched
    <2>6. /\ s2c' \in [Conns -> Seq(ToClient)] /\ c2s' \in [Conns -> Seq(ToServer)]
          /\ \A c \in Conns : /\ Len(c2s'[c]) <= SockCap /\ Len(s2c'[c]) <= SockCap
                              /\ s2c[c] = <<>> => s2c'[c] = <<>>
        BY <2>0, <2>1, EmptyQueue, MsgConstants DEF ClientSocketReadable, MsgInv, ServerType, ConnInv
    <2>7. transmitQueue' # <<>> => pollOut' \/ ServerGone(conn)'
        BY <2>1, Zenon DEF MsgInv, TransmitQueueWatched, ServerGone, server
    <2> QED BY Zenon, <2>0, <2>1, <2>2, <2>5, <2>6, <2>7, <1>ClientStep

\* An attempt to open ends, with the answer or with another attempt.
<1>OpenAnswered.
    ASSUME MsgInv, AttemptOpenSync \/ ReceiveSessionOpenResponse
    PROVE  MsgInv'
    <2> USE <1>OpenAnswered
    <2>0. state \in {"opensync", "opening"} /\ conn \in Conns /\ sync = NoReq
          /\ transmitQueue = <<>> /\ receiveQueue = <<>>
        BY DEF AttemptOpenSync, ReceiveSessionOpenResponse, MsgInv, ClientType, ClientInv, Conns
    <2>1. UNCHANGED <<txnList, deferred, sync, syncSent, via, server>>
          /\ frame' \in {"idle", "loop", "deferred", "after"}
        BY Zenon DEF AttemptOpenSync, ReceiveSessionOpenResponse, MsgInv, ClientType
    <2>2. reported' \in Events
        <3>1. CASE AttemptOpenSync
            BY <3>1, Zenon DEF AttemptOpenSync, MsgInv, BoolType
        <3>2. CASE ReceiveSessionOpenResponse
            BY Zenon, <3>2, <1>DispatchedEvents DEF ReceiveSessionOpenResponse
        <3> QED BY Zenon, <3>1, <3>2
    <2>3. CASE /\ s2c[conn] # <<>> /\ s2c' = [s2c EXCEPT ![conn] = Tail(@)] /\ state' = "open"
               /\ UNCHANGED <<conn, txnMap, transmitQueue, receiveQueue, pollOut, seen, c2s>>
        <3>1. BoolType'
            BY <2>1, <2>2, <2>3, Zenon DEF MsgInv, BoolType
        <3>2. ClientType' /\ ClientInv' /\ ReceiveQueueWatched' /\ transmitQueue' = <<>>
            BY Zenon, <2>0, <2>1, <2>3 DEF MsgInv, ClientType, ClientInv, ReceiveQueueWatched, Conns
        <3>3. /\ s2c' \in [Conns -> Seq(ToClient)] /\ c2s' \in [Conns -> Seq(ToServer)]
              /\ \A c \in Conns : /\ Len(c2s'[c]) <= SockCap /\ Len(s2c'[c]) <= SockCap
                                  /\ s2c[c] = <<>> => s2c'[c] = <<>>
            BY Zenon, <2>0, <2>3, <1>Reading DEF MsgInv, ServerType, ConnInv
        <3> QED BY Zenon, <2>0, <2>1, <2>3, <3>1, <3>2, <3>3, <1>ClientStep
    <2>4. ASSUME NEW as \in {"opensync", "opening"}, CloseSession, StartSessionOpenAttempt(as)
          PROVE  MsgInv'
        <3>0. pollOut' = FALSE
            BY Zenon, <2>4 DEF CloseSession
        <3>1. BoolType'
            BY <2>1, <2>2, <3>0, Zenon DEF MsgInv, BoolType
        <3>2. /\ conn' \in {conn, conn + 1} /\ conn' \in 0 .. MaxConn /\ conn' # 0
              /\ seen' \in 0 .. MaxInd /\ state' \in {"opensync", "opening", "dead"}
            <4>1. MaxConn \in Nat /\ MaxInd \in Nat /\ conn \in 1 .. MaxConn
                BY Zenon, <2>0, MsgConstants DEF Conns
            <4>2. /\ seen' = 0
                  /\ \/ conn < MaxConn /\ conn' = conn + 1 /\ state' = as
                     \/ state' = "dead" /\ conn' = conn
                BY Zenon, <2>4 DEF StartSessionOpenAttempt
            <4>3. state' \in {"opensync", "opening", "dead"} /\ conn' \in {conn, conn + 1}
                BY <2>4, <4>2, Zenon
            <4>4. conn' = conn \/ (conn < MaxConn /\ conn' = conn + 1)
                BY Zenon, <4>2
            <4>5. conn' \in 0 .. MaxConn /\ conn' # 0
                BY <4>1, <4>4
            <4>6. seen' \in 0 .. MaxInd
                BY <4>1, <4>2
            <4> QED BY Zenon, <4>3, <4>5, <4>6
        <3>3. ClientType'
            <4>1. /\ txnMap' \subseteq Reqs /\ transmitQueue' \in Seq(ToServer)
                  /\ receiveQueue' \in Seq(ToClient)
                BY Zenon, <2>0, <2>4, ClientCloses
            <4> QED BY Zenon, <2>1, <3>2, <4>1 DEF MsgInv, ClientType
        <3>4. ClientInv' /\ ReceiveQueueWatched' /\ transmitQueue' = <<>>
            BY Zenon, <2>0, <2>1, <2>4, <3>2, ClientCloses DEF ClientInv, ReceiveQueueWatched
        <3>5. /\ c2s' \in [Conns -> Seq(ToServer)] /\ s2c' \in [Conns -> Seq(ToClient)]
              /\ \A c \in Conns : /\ Len(c2s'[c]) <= SockCap /\ Len(s2c'[c]) <= SockCap
                                  /\ s2c[c] = <<>> => s2c'[c] = <<>>
            BY Zenon, <2>0, <2>4, ClientCloses
        <3> QED BY Zenon, <2>0, <2>1, <3>1, <3>2, <3>3, <3>4, <3>5, <1>ClientStep
    <2> QED BY Zenon, <2>3, <2>4 DEF AttemptOpenSync, ReceiveSessionOpenResponse

\* The client closes the session, or finds that the server has gone.
<1>CloseSteps.
    ASSUME MsgInv, le_msg_CloseSession \/ ClientSocketHangUp
    PROVE  MsgInv'
    <2> USE <1>CloseSteps
    <2>0. sync = NoReq /\ UNCHANGED <<txnList, deferred, sync, syncSent, via, server>>
          /\ frame' \in {"idle", "loop", "deferred", "after"}
        BY Zenon DEF le_msg_CloseSession, ClientSocketHangUp, ClientRuns, MsgInv, ClientType
    <2>1. reported' \in Events
        <3>1. CASE le_msg_CloseSession
            BY <3>1, Zenon DEF le_msg_CloseSession, MsgInv, BoolType
        <3>2. CASE ClientSocketHangUp
            BY <3>2, MsgConstants DEF ClientSocketHangUp, Events, NoEvents
        <3> QED BY Zenon, <3>1, <3>2
    <2>2. ASSUME conn \in Conns, CloseSession, conn' \in {conn, conn + 1}, conn' \in 0 .. MaxConn,
                 seen' \in 0 .. MaxInd, state' \in {"closed", "opening", "dead"},
                 state \in {"opening", "open"}
          PROVE  MsgInv'
        <3>0. pollOut' = FALSE
            BY Zenon, <2>2 DEF CloseSession
        <3>1. BoolType'
            BY <2>0, <2>1, <3>0, Zenon DEF MsgInv, BoolType
        <3>2. ClientType'
            BY Zenon, <2>0, <2>2, ClientCloses, MsgConstants DEF MsgInv, ClientType
        <3>3. ClientInv' /\ ReceiveQueueWatched' /\ transmitQueue' = <<>>
            BY <2>0, <2>2, ClientCloses DEF ClientInv, ReceiveQueueWatched, Conns
        <3>4. /\ c2s' \in [Conns -> Seq(ToServer)] /\ s2c' \in [Conns -> Seq(ToClient)]
              /\ \A c \in Conns : /\ Len(c2s'[c]) <= SockCap /\ Len(s2c'[c]) <= SockCap
                                  /\ s2c[c] = <<>> => s2c'[c] = <<>>
            BY Zenon, <2>2, ClientCloses
        <3> QED BY Zenon, <2>0, <2>2, <3>1, <3>2, <3>3, <3>4, <1>ClientStep
    <2>3. state \in {"opening", "open"} => conn \in Conns
        BY DEF MsgInv, ClientType, ClientInv, Conns
    <2>4. CASE le_msg_CloseSession
        BY Zenon, <2>2, <2>3, <2>4 DEF le_msg_CloseSession, MsgInv, ClientType
    <2>5. CASE ClientSocketHangUp
        <3>1. CASE state = "opening"
            <4>1. CloseSession /\ StartSessionOpenAttempt("opening")
                BY Zenon, <2>5, <3>1 DEF ClientSocketHangUp
            <4>2. /\ conn' \in {conn, conn + 1} /\ conn' \in 0 .. MaxConn
                  /\ seen' \in 0 .. MaxInd /\ state' \in {"closed", "opening", "dead"}
                BY <2>3, <3>1, <4>1, MsgConstants DEF StartSessionOpenAttempt, MsgInv, ClientType
            <4> QED BY Zenon, <2>2, <2>3, <3>1, <4>1, <4>2
        <3>2. CASE state = "open"
            <4>1. CloseSession /\ state' = "closed" /\ UNCHANGED <<conn, seen>>
                BY Zenon, <2>5, <3>2 DEF ClientSocketHangUp
            <4> QED BY Zenon, <2>2, <2>3, <3>2, <4>1 DEF MsgInv, ClientType
        <3>3. CASE state = "closed"
            <4>1. state' = "dead" /\ UNCHANGED <<conn, txnMap, transmitQueue, receiveQueue,
                                                  pollOut, seen, c2s, s2c>>
                BY Zenon, <2>5, <3>3 DEF ClientSocketHangUp
            <4>2. BoolType'
                BY <2>0, <2>1, <4>1, Zenon DEF MsgInv, BoolType
            <4>3. ClientType' /\ ClientInv' /\ ReceiveQueueWatched' /\ transmitQueue' = <<>>
                BY Zenon, <2>0, <3>3, <4>1 DEF MsgInv, ClientType, ClientInv, ReceiveQueueWatched
            <4>4. /\ c2s' \in [Conns -> Seq(ToServer)] /\ s2c' \in [Conns -> Seq(ToClient)]
                  /\ \A c \in Conns : /\ Len(c2s'[c]) <= SockCap /\ Len(s2c'[c]) <= SockCap
                                      /\ s2c[c] = <<>> => s2c'[c] = <<>>
                BY Zenon, <4>1 DEF MsgInv, ServerType, ConnInv
            <4> QED BY Zenon, <2>0, <4>1, <4>2, <4>3, <4>4, <1>ClientStep
        <3> QED BY Zenon, <2>5, <3>1, <3>2, <3>3 DEF ClientSocketHangUp, ClientRuns, MsgInv, ClientType
    <2> QED BY Zenon, <2>4, <2>5

\* The client sends.
<1>SendSteps.
    ASSUME MsgInv,
           \/ \E r \in Reqs : le_msg_Send(r) \/ le_msg_RequestResponse(r)
           \/ ClientSocketWriteable
    PROVE  MsgInv'
    <2> USE <1>SendSteps
    <2>0. /\ UNCHANGED <<conn, receiveQueue, deferred, sync, syncSent, seen, server, s2c>>
          /\ state' = state \/ (state = "closed" /\ state' = "dead")
        BY Zenon DEF le_msg_Send, le_msg_RequestResponse, ClientSocketWriteable
    <2>1. /\ txnMap' \subseteq Reqs /\ via' \in [Reqs -> 0 .. MaxConn]
          /\ frame' = frame \/ (frame = "after" /\ frame' = "idle")
        BY Zenon DEF le_msg_Send, le_msg_RequestResponse, ClientSocketWriteable, Make, MsgInv, ClientType
    <2>2. reported' \in Events
        <3>1. CASE \E r \in Reqs : le_msg_Send(r) \/ le_msg_RequestResponse(r)
            BY <3>1, Zenon DEF le_msg_Send, le_msg_RequestResponse, MsgInv, BoolType
        <3>2. CASE ClientSocketWriteable
            BY <3>2, MsgConstants DEF ClientSocketWriteable, Events, NoEvents
        <3> QED BY Zenon, <3>1, <3>2
    <2>3. /\ transmitQueue' \in Seq(ToServer) /\ txnList' \subseteq Reqs
          /\ c2s' \in [Conns -> Seq(ToServer)] /\ \A c \in Conns : Len(c2s'[c]) <= SockCap
          /\ transmitQueue' # <<>> => pollOut' \/ ServerGone(conn)
          /\ pollOut' \in BOOLEAN /\ (state # "open" => transmitQueue' = <<>>)
        <3>1. CASE UNCHANGED <<transmitQueue, txnList, pollOut, c2s>>
            <4>1. pollOut' \in BOOLEAN BY <3>1, Zenon DEF MsgInv, BoolType
            <4>2. transmitQueue' # <<>> => pollOut' \/ ServerGone(conn)
                BY <3>1, Zenon DEF MsgInv, TransmitQueueWatched
            <4> QED BY Zenon, <3>1, <4>1, <4>2 DEF MsgInv, ClientType, ServerType, ConnInv, ClientInv
        <3>2. ASSUME state = "open", NEW q \in Seq(ToServer), SendFromTransmitQueue(q)
              PROVE  /\ transmitQueue' \in Seq(ToServer) /\ txnList' \subseteq Reqs
                     /\ c2s' \in [Conns -> Seq(ToServer)]
                     /\ \A c \in Conns : Len(c2s'[c]) <= SockCap
                     /\ transmitQueue' # <<>> => pollOut' \/ ServerGone(conn)
                     /\ pollOut' \in BOOLEAN
            <4>1. conn \in Conns BY <3>2 DEF MsgInv, ClientType, ClientInv, Conns
            <4> QED BY Zenon, <3>2, <4>1, Sending
        <3>3. transmitQueue \in Seq(ToServer)
            BY Zenon DEF MsgInv, ClientType
        <3>4. ASSUME NEW m \in ToServer PROVE Append(transmitQueue, m) \in Seq(ToServer)
            BY Zenon, <3>3, AppendProperties
        <3>5. \A r \in Reqs : Msg("note", r) \in ToServer /\ Msg("req", r) \in ToServer
            BY Zenon DEF Msg, ToServer
        <3>6. \/ UNCHANGED <<transmitQueue, txnList, pollOut, c2s>>
              \/ state = "open" /\ \E q \in Seq(ToServer) : SendFromTransmitQueue(q)
            BY Zenon, <3>3, <3>4, <3>5 DEF le_msg_Send, le_msg_RequestResponse, ClientSocketWriteable
        <3> QED BY Zenon, <3>1, <3>2, <3>6
    <2>4. BoolType'
        BY <2>0, <2>2, <2>3, Zenon DEF MsgInv, BoolType
    <2>5. ClientType' /\ ClientInv'
        BY Zenon, <2>0, <2>1, <2>3 DEF MsgInv, ClientType, ClientInv
    <2>6. ReceiveQueueWatched'
        BY Zenon, <2>0, <2>1 DEF MsgInv, ReceiveQueueWatched
    <2>7. transmitQueue' # <<>> => pollOut' \/ ServerGone(conn)'
        BY <2>0, <2>3, Zenon DEF ServerGone, server
    <2>8. /\ s2c' \in [Conns -> Seq(ToClient)]
          /\ \A c \in Conns : Len(s2c'[c]) <= SockCap /\ (s2c[c] = <<>> => s2c'[c] = <<>>)
        BY Zenon, <2>0 DEF MsgInv, ServerType, ConnInv
    <2> QED BY Zenon, <2>0, <2>3, <2>4, <2>5, <2>6, <2>7, <2>8, <1>ClientStep

\* A blocking request starts, and is sent.
<1>SyncSteps.
    ASSUME MsgInv, SyncSend \/ \E r \in Reqs : le_msg_RequestSyncResponse(r)
    PROVE  MsgInv'
    <2> USE <1>SyncSteps
    <2>0. /\ UNCHANGED <<state, conn, transmitQueue, txnList, receiveQueue, pollOut, deferred,
                         reported, frame, seen, server, s2c>>
          /\ state = "open" /\ conn \in Conns
        BY DEF SyncSend, le_msg_RequestSyncResponse, MsgInv, ClientType, ClientInv, Conns
    <2>1. syncSent' \in BOOLEAN
        BY Zenon DEF SyncSend, le_msg_RequestSyncResponse
    <2>2. BoolType'
        BY <2>0, <2>1, Zenon DEF MsgInv, BoolType
    <2>3. ClientType' /\ ClientInv' /\ ReceiveQueueWatched'
        BY Zenon, <2>0 DEF SyncSend, le_msg_RequestSyncResponse, Make, MsgInv, ClientType, ClientInv,
           ReceiveQueueWatched, Conns
    <2>4. c2s' \in [Conns -> Seq(ToServer)] /\ \A c \in Conns : Len(c2s'[c]) <= SockCap
        <3>1. CASE c2s' = c2s
            BY Zenon, <3>1 DEF MsgInv, ServerType, ConnInv
        <3>2. CASE /\ c2s' = [c2s EXCEPT ![conn] = Append(@, Msg("req", sync))]
                   /\ Len(c2s[conn]) < SockCap /\ sync \in Reqs
            <4>1. Msg("req", sync) \in ToServer /\ c2s[conn] \in Seq(ToServer)
                BY Zenon, <2>0, <3>2 DEF Msg, ToServer, MsgInv, ServerType
            <4>2. /\ Append(c2s[conn], Msg("req", sync)) \in Seq(ToServer)
                  /\ Len(Append(c2s[conn], Msg("req", sync))) = Len(c2s[conn]) + 1
                  /\ Len(c2s[conn]) \in Nat
                BY Zenon, <4>1, AppendProperties, LenProperties
            <4>3. Len(Append(c2s[conn], Msg("req", sync))) <= SockCap
                BY <3>2, <4>2, MsgConstants
            <4> QED BY Zenon, <3>2, <4>2, <4>3 DEF MsgInv, ServerType, ConnInv
        <3> QED BY Zenon, <3>1, <3>2 DEF SyncSend, le_msg_RequestSyncResponse, MsgInv, ClientType
    <2>5. transmitQueue' # <<>> => pollOut' \/ ServerGone(conn)'
        BY <2>0, Zenon DEF MsgInv, TransmitQueueWatched, ServerGone, server
    <2>6. /\ s2c' \in [Conns -> Seq(ToClient)]
          /\ \A c \in Conns : Len(s2c'[c]) <= SockCap /\ (s2c[c] = <<>> => s2c'[c] = <<>>)
        BY Zenon, <2>0 DEF MsgInv, ServerType, ConnInv
    <2> QED BY Zenon, <2>0, <2>2, <2>3, <2>4, <2>5, <2>6, <1>ClientStep

\* The conclusion about a step of the server.
<1>ServerStep.
    ASSUME MsgInv, UNCHANGED client, ServerType', \A d \in Conns : ConnStep(d)
    PROVE  MsgInv'
    <2> USE <1>ServerStep
    <2>1. BoolType'
        BY Zenon DEF client, MsgInv, BoolType
    <2>2. ClientType' /\ ClientInv' /\ ReceiveQueueWatched'
        BY Zenon DEF client, MsgInv, ClientType, ClientInv, ReceiveQueueWatched
    <2>3. ConnInv'
        BY Zenon DEF client, ConnInv, ConnStep
    <2>4. transmitQueue # <<>> => conn \in Conns
        BY DEF MsgInv, ClientType, ClientInv, Conns
    <2>5. transmitQueue' # <<>> => pollOut' \/ ServerGone(conn)'
        BY <2>4, Zenon DEF client, MsgInv, TransmitQueueWatched, ServerGone, ConnStep
    <2>6. \A c \in Conns : ClientGone(c)' = ClientGone(c)
        BY Zenon DEF client, ClientGone
    <2>7. \A c \in Conns : srv'[c].tq # <<>> => srv'[c].pollOut \/ ClientGone(c)'
        BY Zenon, <2>6 DEF ConnStep
    <2> QED BY Zenon, <2>1, <2>2, <2>3, <2>5, <2>7 DEF MsgInv, TransmitQueueWatched

\* A session ends on the server side.
<1>ServerEnds.
    ASSUME MsgInv, NEW c \in Conns, c <= conn, DeleteSession(c), UNCHANGED client,
           held' \subseteq [id : Reqs, c : Conns], sFrame' \in 0 .. MaxConn
    PROVE  MsgInv'
    <2> USE <1>ServerEnds
    <2>1. ServerType'
        BY Zenon, <1>ServerCloses DEF ServerType
    <2>2. \A d \in Conns : srv'[d] = srv[d] \/ (d = c /\ srv'[d] = ClosedSession)
        BY Zenon, <1>ServerCloses
    <2>3. ASSUME NEW d \in Conns
          PROVE  ConnStep(d)
        <3>1. /\ Len(c2s'[d]) <= SockCap /\ Len(s2c'[d]) <= SockCap
              /\ s2c[d] = <<>> => s2c'[d] = <<>>
            BY Zenon, <1>ServerCloses
        <3>2. CASE srv'[d] = srv[d]
            BY Zenon, <3>1, <3>2 DEF MsgInv, ConnInv, TransmitQueueWatched, ConnStep
        <3>3. CASE d = c /\ srv'[d] = ClosedSession
            BY Zenon, <3>1, <3>3, EmptySessions DEF ConnStep
        <3> QED BY Zenon, <2>2, <3>2, <3>3
    <2> QED BY Zenon, <2>1, <2>3, <1>ServerStep

\* A connection is accepted, or closed before that.
<1>AcceptSteps.
    ASSUME MsgInv, NEW c \in Conns, CreateServerSideSession(c) \/ RefuseConnection(c)
    PROVE  MsgInv'
    <2> USE <1>AcceptSteps
    <2>0. /\ UNCHANGED <<client, held, sFrame, c2s>> /\ c <= conn /\ srv[c].state = "none"
          /\ srv[c] \in Session /\ srv \in [Conns -> Session] /\ s2c \in [Conns -> Seq(ToClient)]
        BY Zenon DEF CreateServerSideSession, RefuseConnection, MsgInv, ServerType
    <2>1. CASE srv' = [srv EXCEPT ![c] = ClosedSession] /\ s2c' = s2c
        <3>1. ServerType'
            BY Zenon, <2>0, <2>1, EmptySessions DEF MsgInv, ServerType
        <3>2. ASSUME NEW d \in Conns
              PROVE  ConnStep(d)
            <4>1. CASE d = c
                BY Zenon, <2>0, <2>1, <4>1, EmptySessions DEF MsgInv, ConnInv, ConnStep
            <4>2. CASE d # c
                BY Zenon, <2>0, <2>1, <4>2 DEF MsgInv, ConnInv, TransmitQueueWatched, ConnStep
            <4> QED BY Zenon, <4>1, <4>2
        <3> QED BY Zenon, <2>0, <3>1, <3>2, <1>ServerStep
    <2>2. CASE /\ srv' = [srv EXCEPT ![c].state = "open"]
               /\ s2c' = [s2c EXCEPT ![c] = <<Msg("hello", 0)>>]
        <3> DEFINE hello == <<Msg("hello", 0)>>
        <3>1. hello \in Seq(ToClient) /\ Len(hello) = 1
            <4>1. Msg("hello", 0) \in ToClient BY Zenon DEF Msg, ToClient
            <4> QED BY <4>1
        <3>2. 1 <= SockCap BY MsgConstants
        <3> HIDE DEF hello
        <3>3. srv' = [srv EXCEPT ![c] = [@ EXCEPT !.state = "open"]]
              /\ [srv[c] EXCEPT !.state = "open"] \in Session
            BY Zenon, <2>0, <2>2 DEF Session
        <3>4. srv'[c].state = "open" /\ srv'[c].tq = <<>> /\ s2c'[c] = hello
            <4>1. srv[c].tq = <<>> BY Zenon, <2>0 DEF MsgInv, ConnInv
            <4> QED BY <2>0, <2>2, <3>3, <4>1 DEF Session, hello
        <3>5. ServerType'
            BY Zenon, <2>0, <2>2, <3>1, <3>3 DEF MsgInv, ServerType, hello
        <3>6. \A d \in Conns : d # c => srv'[d] = srv[d] /\ s2c'[d] = s2c[d]
            BY Zenon, <2>0, <2>2, <3>3
        <3>7. ASSUME NEW d \in Conns
              PROVE  ConnStep(d)
            <4>1. CASE d = c
                BY Zenon, <2>0, <3>1, <3>2, <3>4, <4>1 DEF MsgInv, ConnInv, ConnStep
            <4>2. CASE d # c
                BY Zenon, <2>0, <3>6, <4>2 DEF MsgInv, ConnInv, TransmitQueueWatched, ConnStep
            <4> QED BY Zenon, <4>1, <4>2
        <3> QED BY Zenon, <2>0, <3>5, <3>7, <1>ServerStep
    <2> QED BY Zenon, <2>1, <2>2 DEF CreateServerSideSession, RefuseConnection

\* The server reads from a connection, and processes what it read.
<1>ServerReads.
    ASSUME MsgInv,
           ProcessMessageFromClient \/ \E c \in Conns : ServerSocketReadable(c)
    PROVE  MsgInv'
    <2> USE <1>ServerReads
    <2>0. UNCHANGED <<client, s2c>> /\ srv \in [Conns -> Session]
          /\ c2s \in [Conns -> Seq(ToServer)] /\ s2c \in [Conns -> Seq(ToClient)]
        BY Zenon DEF ProcessMessageFromClient, ServerSocketReadable, MsgInv, ServerType
    <2>1. ASSUME NEW c \in Conns, NEW q \in Seq(ToServer), srv' = [srv EXCEPT ![c].rq = q],
                 held' \subseteq [id : Reqs, c : Conns], sFrame' \in 0 .. MaxConn,
                 c2s' = c2s \/ c2s' = [c2s EXCEPT ![c] = <<>>]
          PROVE  MsgInv'
        <3>0. srv[c] \in Session
            BY Zenon, <2>0
        <3>1. srv' = [srv EXCEPT ![c] = [@ EXCEPT !.rq = q]]
              /\ [srv[c] EXCEPT !.rq = q] \in Session
            <4>1. srv' = [srv EXCEPT ![c] = [@ EXCEPT !.rq = q]]
                BY Zenon, <2>0, <2>1
            <4>2. [srv[c] EXCEPT !.rq = q] \in Session
                BY Zenon, <3>0 DEF Session
            <4> QED BY Zenon, <4>1, <4>2
        <3>2. ServerType'
            BY Zenon, <2>0, <2>1, <3>1, EmptyQueue DEF ServerType
        <3>3. \A d \in Conns : /\ srv'[d].state = srv[d].state /\ srv'[d].tq = srv[d].tq
                               /\ srv'[d].pollOut = srv[d].pollOut
            BY Zenon, <2>0, <3>1 DEF Session
        <3>4. \A d \in Conns : Len(c2s'[d]) <= SockCap
            <4>1. \A d \in Conns : c2s'[d] = c2s[d] \/ c2s'[d] = <<>>
                BY Zenon, <2>0, <2>1
            <4>2. 0 <= SockCap /\ \A d \in Conns : Len(c2s[d]) <= SockCap
                BY MsgConstants DEF MsgInv, ConnInv
            <4> QED BY Zenon, <4>1, <4>2, EmptyQueue
        <3>5. ASSUME NEW d \in Conns PROVE ConnStep(d)
            BY Zenon, <2>0, <3>3, <3>4 DEF MsgInv, ConnInv, TransmitQueueWatched, ConnStep
        <3> QED BY Zenon, <2>0, <3>2, <3>5, <1>ServerStep
    <2>2. ASSUME NEW c \in Conns, ServerSocketReadable(c) PROVE MsgInv'
        <3>1. srv[c].rq \in Seq(ToServer) /\ c2s[c] \in Seq(ToServer)
            BY Zenon, <2>0 DEF Session
        <3>2. srv[c].rq \o c2s[c] \in Seq(ToServer)
            BY Zenon, <3>1, ConcatProperties
        <3>3. /\ srv' = [srv EXCEPT ![c].rq = srv[c].rq \o c2s[c]]
              /\ held' \subseteq [id : Reqs, c : Conns] /\ sFrame' \in 0 .. MaxConn
              /\ c2s' = [c2s EXCEPT ![c] = <<>>]
            BY <2>0, <2>2 DEF ServerSocketReadable, MsgInv, ServerType, Conns
        <3> QED BY Zenon, <2>1, <3>2, <3>3
    <2>3. CASE ProcessMessageFromClient
        <3>0. sFrame \in Conns
            BY <2>3 DEF ProcessMessageFromClient, MsgInv, ServerType, Conns
        <3>1. srv[sFrame].rq \in Seq(ToServer) /\ srv[sFrame].rq # <<>>
            BY Zenon, <2>0, <2>3, <3>0 DEF ProcessMessageFromClient, Session
        <3>2. Head(srv[sFrame].rq) \in ToServer /\ Tail(srv[sFrame].rq) \in Seq(ToServer)
            BY Zenon, <3>1, HeadTailProperties
        <3>3. held' \subseteq [id : Reqs, c : Conns]
            BY <2>3, <3>0, <3>2 DEF ProcessMessageFromClient, MsgInv, ServerType, ToServer
        <3>4. /\ srv' = [srv EXCEPT ![sFrame].rq = Tail(srv[sFrame].rq)]
              /\ c2s' = c2s /\ sFrame' \in 0 .. MaxConn
            BY Zenon, <2>0, <2>3, <3>0 DEF ProcessMessageFromClient, MsgInv, ServerType
        <3> QED BY Zenon, <2>1, <3>0, <3>2, <3>3, <3>4
    <2> QED BY Zenon, <2>2, <2>3

\* The server sends.
<1>ServerSends.
    ASSUME MsgInv,
           \/ \E c \in Conns : ServerSocketWriteable(c) \/ SendIndication(c)
           \/ \E h \in held : le_msg_Respond(h)
    PROVE  MsgInv'
    <2> USE <1>ServerSends
    <2>0. UNCHANGED <<client, sFrame, c2s>> /\ srv \in [Conns -> Session] /\ held' \subseteq held
          /\ held \subseteq [id : Reqs, c : Conns]
        BY Zenon DEF ServerSocketWriteable, SendIndication, le_msg_Respond, MsgInv, ServerType
    <2>1. ASSUME NEW c \in Conns, srv[c].state = "open", NEW q \in Seq(ToClient),
                 NEW n \in 0 .. MaxInd, SendToClient(c, q, n)
          PROVE  MsgInv'
        <3>1. ServerType'
            BY Zenon, <2>0, <2>1, SendingToClient DEF MsgInv, ServerType
        <3>2. ASSUME NEW d \in Conns PROVE ConnStep(d)
            <4>1. CASE d = c
                BY Zenon, <2>0, <2>1, <4>1, SendingToClient DEF MsgInv, ConnInv, ConnStep
            <4>2. CASE d # c
                BY Zenon, <2>0, <2>1, <4>2, SendingToClient DEF MsgInv, ConnInv, TransmitQueueWatched,
                   ConnStep
            <4> QED BY Zenon, <4>1, <4>2
        <3> QED BY Zenon, <2>0, <3>1, <3>2, <1>ServerStep
    <2>2. ASSUME NEW c \in Conns
          PROVE  srv[c].tq \in Seq(ToClient) /\ srv[c].inds \in 0 .. MaxInd
        <3>1. srv[c] \in Session BY Zenon, <2>0
        <3> QED BY Zenon, <3>1 DEF Session
    <2>3. ASSUME NEW c \in Conns, ServerSocketWriteable(c) PROVE MsgInv'
        BY Zenon, <2>1, <2>2, <2>3 DEF ServerSocketWriteable
    <2>4. ASSUME NEW c \in Conns, SendIndication(c) PROVE MsgInv'
        <3>1. srv[c].inds + 1 \in 1 .. MaxInd /\ srv[c].inds + 1 \in 0 .. MaxInd
            BY <2>2, <2>4, MsgConstants DEF SendIndication
        <3>2. Msg("ind", srv[c].inds + 1) \in ToClient
            BY Zenon, <3>1 DEF Msg, ToClient
        <3>3. Append(srv[c].tq, Msg("ind", srv[c].inds + 1)) \in Seq(ToClient)
            BY Zenon, <2>2, <3>2, AppendProperties
        <3> QED BY Zenon, <2>1, <2>4, <3>1, <3>3 DEF SendIndication
    <2>5. ASSUME NEW h \in held, le_msg_Respond(h) PROVE MsgInv'
        <3>1. h.c \in Conns /\ h.id \in Reqs
            BY Zenon, <2>0
        <3>2. CASE srv[h.c].state = "open"
            <4>1. Msg("rsp", h.id) \in ToClient
                BY Zenon, <3>1 DEF Msg, ToClient
            <4>2. Append(srv[h.c].tq, Msg("rsp", h.id)) \in Seq(ToClient)
                BY Zenon, <2>2, <3>1, <4>1, AppendProperties
            <4> QED BY Zenon, <2>1, <2>2, <2>5, <3>1, <3>2, <4>2 DEF le_msg_Respond
        <3>3. CASE srv[h.c].state # "open"
            <4>1. UNCHANGED <<srv, s2c>>
                BY Zenon, <2>5, <3>3 DEF le_msg_Respond
            <4>2. ServerType'
                BY Zenon, <2>0, <4>1 DEF MsgInv, ServerType
            <4>3. ASSUME NEW d \in Conns PROVE ConnStep(d)
                BY Zenon, <2>0, <4>1 DEF MsgInv, ConnInv, TransmitQueueWatched, ConnStep
            <4> QED BY Zenon, <2>0, <4>2, <4>3, <1>ServerStep
        <3> QED BY Zenon, <3>2, <3>3
    <2> QED BY Zenon, <2>3, <2>4, <2>5

\* The server's process ends, and with it every session.
<1>ServerCrashStep.
    ASSUME MsgInv, ServerCrash
    PROVE  MsgInv'
    <2> USE <1>ServerCrashStep
    <2>0. UNCHANGED client /\ held' = {} /\ sFrame' = 0 /\ srv \in [Conns -> Session]
          /\ c2s \in [Conns -> Seq(ToServer)] /\ s2c \in [Conns -> Seq(ToClient)]
        BY Zenon DEF ServerCrash, MsgInv, ServerType
    <2>1. /\ srv' = [c \in Conns |-> IF srv[c].state = "open" THEN ClosedSession ELSE srv[c]]
          /\ c2s' = [c \in Conns |-> IF srv[c].state = "open" THEN <<>> ELSE c2s[c]]
          /\ \/ s2c' = s2c
             \/ s2c' = [c \in Conns |-> IF srv[c].state = "open" /\ c2s[c] # <<>> THEN <<>>
                                        ELSE s2c[c]]
        BY Zenon DEF ServerCrash
    <2>2. srv' \in [Conns -> Session] /\ c2s' \in [Conns -> Seq(ToServer)]
        BY Zenon, <2>0, <2>1, EmptySessions, EmptyQueue
    <2>3. s2c' \in [Conns -> Seq(ToClient)]
        BY Zenon, <2>0, <2>1, EmptyQueue
    <2>4. ServerType'
        BY <2>0, <2>2, <2>3, MsgConstants DEF ServerType
    <2>5. ASSUME NEW d \in Conns PROVE ConnStep(d)
        <3>1. s2c'[d] = s2c[d] \/ s2c'[d] = <<>>
            BY Zenon, <2>1
        <3>2. Len(c2s[d]) <= SockCap /\ Len(s2c[d]) <= SockCap /\ 0 <= SockCap
            BY MsgConstants DEF MsgInv, ConnInv
        <3>3. CASE srv[d].state = "open"
            <4>1. srv'[d] = ClosedSession /\ c2s'[d] = <<>> /\ d <= conn
                BY Zenon, <2>1, <3>3 DEF MsgInv, ConnInv
            <4> QED BY Zenon, <3>1, <3>2, <3>3, <4>1, EmptySessions, EmptyQueue DEF ConnStep
        <3>4. CASE srv[d].state # "open"
            <4>1. srv'[d] = srv[d] /\ c2s'[d] = c2s[d]
                BY Zenon, <2>1, <3>4
            <4> QED BY Zenon, <3>1, <3>2, <3>4, <4>1, EmptyQueue DEF MsgInv, ConnInv, TransmitQueueWatched,
                       ConnStep
        <3> QED BY Zenon, <3>3, <3>4
    <2> QED BY Zenon, <2>0, <2>4, <2>5, <1>ServerStep

\* A session ends, on a request of the server's code or when the client has gone.
<1>EndSteps.
    ASSUME MsgInv,
           \/ ServerLoopEnds \/ ServerCrash
           \/ \E c \in Conns : ServerSocketHangUp(c) \/ ServerCloseSession(c)
           \/ \E h \in held : le_msg_ReleaseMsg(h)
    PROVE  MsgInv'
    <2> USE <1>EndSteps
    <2>0. \A c \in Conns : srv[c].state = "open" => c <= conn
        BY Zenon DEF MsgInv, ConnInv
    <2>1. ASSUME NEW c \in Conns, srv[c].state = "open", DeleteSession(c), UNCHANGED client,
                 held' \subseteq held, sFrame' \in {0, sFrame}
          PROVE  MsgInv'
        <3>1. held' \subseteq [id : Reqs, c : Conns] /\ sFrame' \in 0 .. MaxConn
            BY <2>1, MsgConstants DEF MsgInv, ServerType
        <3>2. c <= conn
            BY Zenon, <2>0, <2>1
        <3> QED BY Zenon, <2>1, <3>1, <3>2, <1>ServerEnds
    <2>2. ASSUME UNCHANGED <<client, srv, c2s, s2c>>, held' \subseteq held, sFrame' \in {0, sFrame}
          PROVE  MsgInv'
        <3>1. ServerType'
            BY <2>2, MsgConstants DEF MsgInv, ServerType
        <3>2. ASSUME NEW d \in Conns PROVE ConnStep(d)
            BY Zenon, <2>2 DEF MsgInv, ConnInv, TransmitQueueWatched, ConnStep
        <3> QED BY Zenon, <2>2, <3>1, <3>2, <1>ServerStep
    <2>3. ASSUME NEW c \in Conns, ServerSocketHangUp(c) \/ ServerCloseSession(c)
          PROVE  MsgInv'
        BY Zenon, <2>1, <2>3 DEF ServerSocketHangUp, ServerCloseSession
    <2>4. ASSUME NEW h \in held, le_msg_ReleaseMsg(h) PROVE MsgInv'
        <3>1. h.c \in Conns
            BY Zenon DEF MsgInv, ServerType
        <3>2. UNCHANGED client /\ held' \subseteq held /\ sFrame' \in {0, sFrame}
            BY Zenon, <2>4 DEF le_msg_ReleaseMsg
        <3>3. CASE srv[h.c].state = "open"
            <4>1. DeleteSession(h.c) BY Zenon, <2>4, <3>3 DEF le_msg_ReleaseMsg
            <4> QED BY Zenon, <2>1, <3>1, <3>2, <3>3, <4>1
        <3>4. CASE srv[h.c].state # "open"
            <4>1. UNCHANGED <<srv, c2s, s2c>> BY Zenon, <2>4, <3>4 DEF le_msg_ReleaseMsg
            <4> QED BY Zenon, <2>2, <3>2, <4>1
        <3> QED BY Zenon, <3>3, <3>4
    <2>5. CASE ServerLoopEnds
        <3>1. sFrame \in Conns
            BY <2>5 DEF ServerLoopEnds, MsgInv, ServerType, Conns
        <3>2. CASE sFrame' = 0 /\ UNCHANGED <<client, srv, held, c2s, s2c>>
            BY Zenon, <2>2, <3>2
        <3>3. CASE /\ srv[sFrame].state = "open" /\ DeleteSession(sFrame)
                   /\ sFrame' = 0 /\ UNCHANGED <<client, held>>
            <4>1. PICK c \in Conns : c = sFrame BY Zenon, <3>1
            <4>2. DeleteSession(c) /\ srv[c].state = "open"
                BY Zenon, <3>3, <4>1 DEF DeleteSession, CloseSocket
            <4> QED BY Zenon, <2>1, <3>3, <4>2
        <3>4. CASE ServerCrash
            BY Zenon, <3>4, <1>ServerCrashStep
        <3> QED BY Zenon, <2>5, <3>2, <3>3, <3>4 DEF ServerLoopEnds
    <2> QED BY Zenon, <2>3, <2>4, <2>5, <1>ServerCrashStep

<1>1. ASSUME MsgInv, MsgNext PROVE MsgInv'
    <2>1. CASE ClientApp
        BY Zenon, <1>1, <2>1, <1>OpenSteps, <1>CloseSteps, <1>SendSteps, <1>SyncSteps DEF ClientApp
    <2>2. CASE ClientThread \/ ProcessDeferredMessages
        BY Zenon, <1>1, <2>2, <1>OpenAnswered, <1>SyncSteps, <1>SyncReceiveStep, <1>LoopSteps, <1>QueueSteps,
           <1>ClientSocketReadableStep, <1>CloseSteps, <1>SendSteps DEF ClientThread
    <2>3. CASE ServerThread
        BY Zenon, <1>1, <2>3, <1>ServerReads, <1>EndSteps, <1>AcceptSteps, <1>ServerSends DEF ServerThread
    <2>4. CASE ServerApp \/ \E h \in held : le_msg_Respond(h)
        BY Zenon, <1>1, <2>4, <1>EndSteps, <1>ServerSends DEF ServerApp
    <2>5. CASE ServerCrash \/ \E c \in Conns : RefuseConnection(c)
        BY Zenon, <1>1, <2>5, <1>EndSteps, <1>AcceptSteps
    <2> QED BY Zenon, <1>1, <2>1, <2>2, <2>3, <2>4, <2>5 DEF MsgNext
<1>2. ASSUME MsgInv, UNCHANGED vars PROVE MsgInv'
    <2>1. UNCHANGED <<client, server, c2s, s2c>> BY Zenon, <1>2 DEF vars
    <2>2. ServerType'
        BY Zenon, <1>2, <2>1 DEF server, MsgInv, ServerType
    <2>3. ASSUME NEW d \in Conns PROVE ConnStep(d)
        BY Zenon, <1>2, <2>1 DEF server, MsgInv, ConnInv, TransmitQueueWatched, ConnStep
    <2> QED BY Zenon, <1>2, <2>1, <2>2, <2>3, <1>ServerStep
<1> QED BY <1>1, <1>2, <1>MsgInitInv, PTL DEF MsgSpec

\* Type correctness.
THEOREM MsgTypeCorrect == MsgSpec => []MsgType
<1>1. MsgInv => MsgType
    BY Zenon DEF MsgInv, BoolType, ClientType, ServerType, MsgType
<1> QED BY <1>1, MsgInvariant, PTL

\* Received messages are never forgotten in the receive queue, even when the
\* session is closed and opened again meanwhile (messagingSession.c:1498, 1686).
THEOREM ReceivedIsWatched == MsgSpec => []ReceiveQueueWatched
<1>1. MsgInv => ReceiveQueueWatched
    BY Zenon DEF MsgInv
<1> QED BY <1>1, MsgInvariant, PTL

\* Nor are messages that wait to be sent, by either side
\* (messagingSession.c:1012).
THEOREM SendingIsWatched == MsgSpec => []TransmitQueueWatched
<1>1. MsgInv => TransmitQueueWatched
    BY Zenon DEF MsgInv
<1> QED BY <1>1, MsgInvariant, PTL

-----------------------------------------------------------------------------
(* The messages on their way to the client.                                *)

\* A queue is its head followed by the rest.
LEMMA HeadAndRest ==
    ASSUME NEW S, NEW q \in Seq(S), q # <<>>
    PROVE  /\ Head(q) \in S /\ Tail(q) \in Seq(S) /\ <<Head(q)>> \in Seq(S)
           /\ q = <<Head(q)>> \o Tail(q)
<1>1. Head(q) \in S /\ Tail(q) \in Seq(S) /\ Len(Tail(q)) = Len(q) - 1
    BY Zenon, HeadTailProperties
<1>2. \A i \in 1 .. Len(Tail(q)) : Tail(q)[i] = q[i + 1]
    BY Zenon, HeadTailProperties
<1>3. Len(q) \in Nat \ {0} /\ Head(q) = q[1]
    <2>1. Len(q) \in Nat \ {0} BY Zenon, EmptySeq
    <2>2. Head(q) = q[1] BY <2>1
    <2> QED BY Zenon, <2>1, <2>2
<1> DEFINE h == <<Head(q)>>
           t == Tail(q)
           c == h \o t
<1>4. h \in Seq(S) /\ Len(h) = 1 /\ h[1] = Head(q) BY <1>1
<1> HIDE DEF h, t
<1>5. /\ c \in Seq(S) /\ Len(c) = 1 + Len(t)
      /\ \A i \in 1 .. 1 + Len(t) : c[i] = IF i <= 1 THEN h[i] ELSE t[i - 1]
    <2>1. h \in Seq(S) /\ t \in Seq(S) BY Zenon, <1>1, <1>4 DEF t
    <2>2. /\ c \in Seq(S) /\ Len(c) = Len(h) + Len(t)
          /\ \A i \in 1 .. Len(h) + Len(t) : c[i] = IF i <= Len(h) THEN h[i] ELSE t[i - Len(h)]
        BY Zenon, <2>1, ConcatProperties
    <2> QED BY Zenon, <1>4, <2>2
<1>6. Len(t) = Len(q) - 1 /\ \A i \in 1 .. Len(t) : t[i] = q[i + 1] BY Zenon, <1>1, <1>2 DEF t
<1> HIDE DEF c
<1>7. Len(c) = Len(q) BY <1>3, <1>5, <1>6
<1>8. ASSUME NEW i \in 1 .. Len(q) PROVE q[i] = c[i]
    <2>1. i \in 1 .. 1 + Len(t) BY <1>3, <1>6
    <2>2. CASE i = 1 BY <1>3, <1>4, <1>5, <2>1, <2>2
    <2>3. CASE i # 1
        <3>1. i - 1 \in 1 .. Len(t) /\ (i - 1) + 1 = i /\ ~(i <= 1) BY <1>3, <1>6, <2>3
        <3>2. c[i] = t[i - 1] BY Zenon, <1>5, <2>1, <3>1
        <3>3. t[i - 1] = q[(i - 1) + 1] BY Zenon, <1>6, <3>1
        <3> QED BY Zenon, <3>1, <3>2, <3>3
    <2> QED BY Zenon, <2>2, <2>3
<1>9. q = c BY Zenon, <1>5, <1>7, <1>8, SeqEqual
<1> QED BY Zenon, <1>1, <1>4, <1>9 DEF c, h, t

\* From the server to the client of connection c, and of the current one with
\* what the client has received.
Down(c) == s2c[c] \o srv[c].tq

Coming == receiveQueue \o Down(conn)

\* There is a connection that the client has not closed.
Live == state \in {"opening", "opensync", "open"}

\* The queues are queues.
QueueType ==
    /\ transmitQueue \in Seq(ToServer) /\ receiveQueue \in Seq(ToClient)
    /\ \A c \in Conns : /\ c2s[c] \in Seq(ToServer) /\ s2c[c] \in Seq(ToClient)
                        /\ srv[c].rq \in Seq(ToServer) /\ srv[c].tq \in Seq(ToClient)
                        /\ srv[c].inds \in 0 .. MaxInd /\ Down(c) \in Seq(ToClient)
                        /\ srv[c].state \in {"none", "open", "closed"}
    /\ Live => conn \in Conns /\ Coming \in Seq(ToClient)

LEMMA QueueTypes == MsgInv => QueueType
<1> SUFFICES ASSUME MsgInv PROVE QueueType BY Zenon
<1>1. transmitQueue \in Seq(ToServer) /\ receiveQueue \in Seq(ToClient)
    BY Zenon DEF MsgInv, ClientType
<1>2. ASSUME NEW c \in Conns
      PROVE  /\ c2s[c] \in Seq(ToServer) /\ s2c[c] \in Seq(ToClient)
             /\ srv[c].rq \in Seq(ToServer) /\ srv[c].tq \in Seq(ToClient)
             /\ srv[c].inds \in 0 .. MaxInd /\ Down(c) \in Seq(ToClient)
             /\ srv[c].state \in {"none", "open", "closed"}
    <2>1. srv[c] \in Session /\ c2s[c] \in Seq(ToServer) /\ s2c[c] \in Seq(ToClient)
        BY Zenon DEF MsgInv, ServerType
    <2>2. /\ srv[c].rq \in Seq(ToServer) /\ srv[c].tq \in Seq(ToClient)
          /\ srv[c].inds \in 0 .. MaxInd /\ srv[c].state \in {"none", "open", "closed"}
        BY Zenon, <2>1 DEF Session
    <2>3. Down(c) \in Seq(ToClient) BY Zenon, <2>1, <2>2, ConcatProperties DEF Down
    <2> QED BY Zenon, <2>1, <2>2, <2>3
<1>3. Live => conn \in Conns BY DEF Live, MsgInv, ClientType, ClientInv, Conns
<1>4. Live => Coming \in Seq(ToClient)
    BY Zenon, <1>1, <1>2, <1>3, ConcatProperties DEF Coming
<1> QED BY Zenon, <1>1, <1>2, <1>3, <1>4 DEF QueueType

\* The front of a queue is moved behind another one.
LEMMA MovedFront ==
    ASSUME NEW S, NEW p \in Seq(S), NEW q \in Seq(S), NEW k \in 0 .. Len(q)
    PROVE  (p \o SubSeq(q, 1, k)) \o SubSeq(q, k + 1, Len(q)) = p \o q
<1>1. SubSeq(q, 1, k) \in Seq(S) /\ SubSeq(q, k + 1, Len(q)) \in Seq(S) BY Zenon, Queues
<1>2. SubSeq(q, 1, k) \o SubSeq(q, k + 1, Len(q)) = q
    <2>1. /\ SubSeq(q, 1, k) \in Seq(S) /\ Len(SubSeq(q, 1, k)) = k
          /\ SubSeq(q, k + 1, Len(q)) \in Seq(S)
          /\ Len(SubSeq(q, k + 1, Len(q))) = Len(q) - k
        BY Queues
    <2>2. /\ \A i \in 1 .. k : SubSeq(q, 1, k)[i] = q[i]
          /\ \A i \in 1 .. Len(q) - k : SubSeq(q, k + 1, Len(q))[i] = q[i + k]
        <3>1. \A i \in 1 .. k : SubSeq(q, 1, k)[i] = q[i] BY SMTT(30)
        <3>2. ASSUME NEW i \in 1 .. Len(q) - k
              PROVE  SubSeq(q, k + 1, Len(q))[i] = q[i + k]
            BY SMTT(30)
        <3> QED BY Zenon, <3>1, <3>2
    <2>3. PICK a \in Seq(S) : a = SubSeq(q, 1, k) BY Zenon, <2>1
    <2>4. PICK b \in Seq(S) : b = SubSeq(q, k + 1, Len(q)) BY Zenon, <2>1
    <2>5. PICK n \in Nat : n = Len(q) OBVIOUS
    <2>6. /\ Len(a) = k /\ \A i \in 1 .. k : a[i] = q[i]
          /\ Len(b) = n - k /\ \A i \in 1 .. n - k : b[i] = q[i + k]
          /\ k \in 0 .. n
        BY Zenon, <2>1, <2>2, <2>3, <2>4, <2>5
    <2>c. /\ a \o b \in Seq(S) /\ Len(a \o b) = Len(a) + Len(b)
          /\ \A i \in 1 .. Len(a) + Len(b) :
                (a \o b)[i] = IF i <= Len(a) THEN a[i] ELSE b[i - Len(a)]
        BY Zenon, ConcatProperties
    <2>7. PICK w \in Seq(S) : w = a \o b BY Zenon, <2>c
    <2>8. Len(w) = n /\ \A i \in 1 .. n : w[i] = q[i]
        <3>1. Len(a) = k /\ Len(b) = n - k /\ k \in 0 .. n BY Zenon, <2>6
        <3>2. Len(w) = Len(a) + Len(b) BY Zenon, <2>7, <2>c
        <3>3. Len(w) = n BY SMTT(30), <3>1, <3>2
        <3>4. ASSUME NEW i \in 1 .. n PROVE w[i] = q[i]
            <4>1. i \in 1 .. Len(a) + Len(b) BY SMTT(30), <3>1
            <4>2. w[i] = IF i <= k THEN a[i] ELSE b[i - k] BY Zenon, <2>7, <2>c, <3>1, <4>1
            <4>3. CASE i <= k
                <5>1. i \in 1 .. k BY SMTT(30), <3>1, <4>3
                <5> QED BY Zenon, <2>6, <4>2, <4>3, <5>1
            <4>4. CASE ~(i <= k)
                <5>1. i - k \in 1 .. n - k /\ (i - k) + k = i BY SMTT(30), <3>1, <4>4
                <5>2. b[i - k] = q[(i - k) + k] BY Zenon, <2>6, <5>1
                <5>3. w[i] = b[i - k] BY Zenon, <4>2, <4>4
                <5> QED BY Zenon, <5>1, <5>2, <5>3
            <4> QED BY Zenon, <4>3, <4>4
        <3> QED BY Zenon, <3>3, <3>4
    <2>9. w = q
        <3>1. Len(w) = Len(q) /\ \A i \in 1 .. Len(w) : w[i] = q[i] BY Zenon, <2>5, <2>8
        <3> QED BY Zenon, <3>1, SeqEqual
    <2> QED BY Zenon, <2>3, <2>4, <2>7, <2>9
<1> DEFINE a == SubSeq(q, 1, k)
           b == SubSeq(q, k + 1, Len(q))
<1> HIDE DEF a, b
<1>3. a \in Seq(S) /\ b \in Seq(S) BY Zenon, <1>1 DEF a, b
<1>4. (p \o a) \o b = p \o (a \o b) BY SMTT(30), <1>3, ConcatAssociative
<1>5. a \o b = q BY Zenon, <1>2 DEF a, b
<1> QED BY Zenon, <1>4, <1>5 DEF a, b

\* The same on the server side.
LEMMA SentDown ==
    ASSUME MsgInv, NEW c \in Conns, srv[c].state = "open",
           NEW q \in Seq(ToClient), NEW n \in 0 .. MaxInd, SendToClient(c, q, n)
    PROVE  /\ Down(c)' = s2c[c] \o q
           /\ srv'[c].state = "open" /\ srv'[c].rq = srv[c].rq /\ srv'[c].inds = n
           /\ \A d \in Conns : d # c => srv'[d] = srv[d] /\ s2c'[d] = s2c[d]
<1>0. srv[c] \in Session /\ srv \in [Conns -> Session] /\ s2c \in [Conns -> Seq(ToClient)]
    BY Zenon DEF MsgInv, ServerType
<1>1. /\ \A d \in Conns : d # c => srv'[d] = srv[d] /\ s2c'[d] = s2c[d]
      /\ srv'[c].state = "open"
    BY Zenon, SendingToClient
<1>2. CASE ClientGone(c)
    <2>1. srv' = [srv EXCEPT ![c] = [@ EXCEPT !.tq = q, !.inds = n]] /\ s2c' = s2c
        BY Zenon, <1>2, <1>0 DEF SendToClient
    <2>2. srv'[c].tq = q /\ srv'[c].rq = srv[c].rq /\ srv'[c].inds = n
        BY Zenon, <1>0, <2>1 DEF Session
    <2> QED BY Zenon, <1>1, <2>1, <2>2 DEF Down
<1>3. CASE ~ClientGone(c)
    <2> DEFINE k == Least(SockCap - Len(s2c[c]), Len(q))
               rest == SubSeq(q, k + 1, Len(q))
               left == k < Len(q)
    <2>1. Len(s2c[c]) \in 0 .. SockCap /\ SockCap - Len(s2c[c]) \in Nat
        BY <1>0, MsgConstants, LenProperties DEF MsgInv, ConnInv
    <2>2. k \in 0 .. Len(q) BY Zenon, <2>1, MsgConstants, LenProperties, LeastOfTwo
    <2>3. /\ s2c' = [s2c EXCEPT ![c] = @ \o SubSeq(q, 1, k)]
          /\ srv' = [srv EXCEPT ![c].tq = rest, ![c].pollOut = left, ![c].inds = n]
        BY Zenon, <1>3 DEF SendToClient
    <2> HIDE DEF k
    <2>4. (s2c[c] \o SubSeq(q, 1, k)) \o rest = s2c[c] \o q
        BY ZenonT(40), <1>0, <2>2, MovedFront
    <2> HIDE DEF rest, left
    <2>5. srv' = [srv EXCEPT ![c] = [@ EXCEPT !.tq = rest, !.pollOut = left, !.inds = n]]
        BY Zenon, <2>3, <1>0
    <2>6. srv'[c].tq = rest /\ srv'[c].rq = srv[c].rq /\ srv'[c].inds = n
        BY Zenon, <1>0, <2>5 DEF Session
    <2>7. s2c'[c] = s2c[c] \o SubSeq(q, 1, k) BY Zenon, <1>0, <2>3
    <2> QED BY Zenon, <1>1, <2>4, <2>6, <2>7 DEF Down
<1> QED BY Zenon, <1>2, <1>3

\* Nothing before or behind a queue.
LEMMA NothingAdded ==
    ASSUME NEW S, NEW q \in Seq(S)
    PROVE  <<>> \in Seq(S) /\ q \o <<>> = q /\ <<>> \o q = q
OBVIOUS

\* Three queues behind one another, whichever two are joined first.
Regrouped(a, b, c) == (a \o b) \o c = a \o (b \o c)

LEMMA Regroup ==
    ASSUME NEW S, NEW a \in Seq(S), NEW b \in Seq(S), NEW c \in Seq(S)
    PROVE  Regrouped(a, b, c)
BY ConcatAssociative DEF Regrouped

\* A message put behind the last of three queues.
Behind(r, s, t, m) == r \o (s \o Append(t, m)) = (r \o (s \o t)) \o <<m>>

LEMMA AddedLast ==
    ASSUME NEW S, NEW r \in Seq(S), NEW s \in Seq(S), NEW t \in Seq(S), NEW m \in S
    PROVE  Behind(r, s, t, m)
<1> DEFINE one == <<m>>
           st == s \o t
<1>1. one \in Seq(S) OBVIOUS
<1>2. st \in Seq(S) BY Zenon, ConcatProperties
<1>3. Append(t, m) = t \o one BY Zenon, AppendIsConcat
<1> HIDE DEF one
<1>4. (s \o t) \o one = s \o (t \o one) BY SMTT(30), <1>1, ConcatAssociative
<1>5. s \o Append(t, m) = st \o one BY Zenon, <1>3, <1>4
<1> HIDE DEF st
<1>6. Regrouped(r, st, one) BY Zenon, <1>1, <1>2, Regroup
<1>7. r \o (s \o Append(t, m)) = (r \o st) \o one BY Zenon, <1>5, <1>6 DEF Regrouped
<1> QED BY Zenon, <1>7 DEF st, one, Behind

\* The client reads one message from the socket.
LEMMA SocketHead ==
    ASSUME MsgInv, conn \in Conns, s2c[conn] # <<>>, s2c' = [s2c EXCEPT ![conn] = Tail(@)],
           UNCHANGED <<conn, srv>>
    PROVE  /\ Head(s2c[conn]) \in ToClient /\ <<Head(s2c[conn])>> \in Seq(ToClient)
           /\ Down(conn)' \in Seq(ToClient)
           /\ Down(conn) = <<Head(s2c[conn])>> \o Down(conn)'
<1>1. /\ s2c[conn] \in Seq(ToClient) /\ srv[conn].tq \in Seq(ToClient)
      /\ s2c \in [Conns -> Seq(ToClient)]
    BY Zenon, QueueTypes DEF QueueType, MsgInv, ServerType
<1>2. PICK s \in Seq(ToClient), t \in Seq(ToClient) : s = s2c[conn] /\ t = srv[conn].tq
    BY Zenon, <1>1
<1> DEFINE one == <<Head(s)>>
           rest == Tail(s)
<1>3. /\ Head(s) \in ToClient /\ rest \in Seq(ToClient) /\ one \in Seq(ToClient)
      /\ s = one \o rest
    BY Zenon, <1>2, HeadAndRest
<1>4. Down(conn)' = rest \o t BY Zenon, <1>1, <1>2 DEF Down
<1>5. Down(conn) = s \o t BY Zenon, <1>2 DEF Down
<1> HIDE DEF one, rest
<1>6. Regrouped(one, rest, t) BY Zenon, <1>3, Regroup
<1>7. s \o t = one \o (rest \o t) BY Zenon, <1>3, <1>6 DEF Regrouped
<1>8. rest \o t \in Seq(ToClient) BY Zenon, <1>3, ConcatProperties
<1> QED BY Zenon, <1>2, <1>3, <1>4, <1>5, <1>7, <1>8 DEF one

\* Messages go from the socket to the receive queue, in order: one that a
\* blocking request puts aside (messagingSession.c:1498) ...
LEMMA PutAside ==
    ASSUME MsgInv, conn \in Conns, s2c[conn] # <<>>, s2c' = [s2c EXCEPT ![conn] = Tail(@)],
           UNCHANGED <<conn, srv>>, receiveQueue' = Append(receiveQueue, Head(s2c[conn]))
    PROVE  Coming' = Coming
<1>1. receiveQueue \in Seq(ToClient) BY Zenon DEF MsgInv, ClientType
<1> DEFINE m == Head(s2c[conn])
           one == <<m>>
           d == Down(conn)'
<1>2. /\ m \in ToClient /\ one \in Seq(ToClient) /\ d \in Seq(ToClient)
      /\ Down(conn) = one \o d
    BY Zenon, SocketHead
<1>3. receiveQueue' = Append(receiveQueue, m) BY Zenon
<1>4. Coming' = receiveQueue' \o d BY Zenon DEF Coming, Down
<1> HIDE DEF m, d
<1>5. Append(receiveQueue, m) = receiveQueue \o one BY Zenon, <1>1, <1>2, AppendIsConcat
<1> HIDE DEF one
<1>6. Regrouped(receiveQueue, one, d) BY Zenon, <1>1, <1>2, Regroup
<1> QED BY Zenon, <1>2, <1>3, <1>4, <1>5, <1>6 DEF Regrouped, Coming

\* ... or all of them (ReceiveMessages).
LEMMA AllReceived ==
    ASSUME MsgInv, ClientSocketReadable
    PROVE  Coming' = Coming
<1>1. conn \in Conns /\ UNCHANGED <<conn, srv>> /\ receiveQueue \in Seq(ToClient)
    BY DEF ClientSocketReadable, MsgInv, ClientType, ClientInv, Conns, server
<1>2. PICK s \in Seq(ToClient), t \in Seq(ToClient) : s = s2c[conn] /\ t = srv[conn].tq
    BY Zenon, <1>1, QueueTypes DEF QueueType
<1>3. receiveQueue' = receiveQueue \o s /\ s2c'[conn] = <<>>
    BY Zenon, <1>1, <1>2 DEF ClientSocketReadable, MsgInv, ServerType
<1>4. Down(conn)' = t
    <2>1. <<>> \o t = t BY Zenon, NothingAdded
    <2> QED BY Zenon, <1>1, <1>2, <1>3, <2>1 DEF Down
<1>5. Down(conn) = s \o t BY Zenon, <1>2 DEF Down
<1>6. Regrouped(receiveQueue, s, t) BY Zenon, <1>1, <1>2, Regroup
<1>7. Coming' = receiveQueue' \o Down(conn)' BY Zenon DEF Coming, Down
<1> QED BY Zenon, <1>3, <1>4, <1>5, <1>6, <1>7 DEF Regrouped, Coming

\* The loop processes the first message.
LEMMA FirstProcessed ==
    ASSUME MsgInv, ProcessReceivedMessages
    PROVE  /\ Live /\ Head(receiveQueue) \in ToClient
           /\ Coming' \in Seq(ToClient) /\ Coming = <<Head(receiveQueue)>> \o Coming'
<1>1. /\ receiveQueue \in Seq(ToClient) /\ receiveQueue # <<>>
      /\ receiveQueue' = Tail(receiveQueue) /\ UNCHANGED <<conn, s2c, srv>>
    BY Zenon DEF ProcessReceivedMessages, MsgInv, ClientType, server
<1>2. Live BY Zenon, <1>1 DEF MsgInv, ClientInv, Live
<1>3. PICK d \in Seq(ToClient) : d = Down(conn) BY Zenon, <1>2, QueueTypes DEF QueueType
<1> DEFINE one == <<Head(receiveQueue)>>
           rest == Tail(receiveQueue)
<1>4. /\ Head(receiveQueue) \in ToClient /\ rest \in Seq(ToClient) /\ one \in Seq(ToClient)
      /\ receiveQueue = one \o rest
    BY Zenon, <1>1, HeadAndRest
<1>5. Coming' = rest \o d BY Zenon, <1>1, <1>3 DEF Coming, Down
<1>6. Coming = receiveQueue \o d BY Zenon, <1>3 DEF Coming
<1> HIDE DEF one, rest
<1>7. Regrouped(one, rest, d) BY Zenon, <1>4, Regroup
<1>8. receiveQueue \o d = one \o (rest \o d) BY Zenon, <1>4, <1>7 DEF Regrouped
<1>9. rest \o d \in Seq(ToClient) BY Zenon, <1>4, ConcatProperties
<1> QED BY Zenon, <1>2, <1>4, <1>5, <1>6, <1>8, <1>9 DEF one

\* Nothing is in the receive queue while the session opens.
LEMMA OnlyDown ==
    ASSUME MsgInv, conn \in Conns, receiveQueue = <<>>
    PROVE  Coming = Down(conn)
<1>1. PICK d \in Seq(ToClient) : d = Down(conn) BY Zenon, QueueTypes DEF QueueType
<1>2. <<>> \o d = d BY Zenon, NothingAdded
<1> QED BY Zenon, <1>1, <1>2 DEF Coming

\* The server has accepted the connection of a session that is open.
Accepted == state = "open" => srv[conn].state # "none"

\* The client gets its session open by an answer of the server, which keeps
\* its session object until it closes it.
THEOREM AlwaysAccepted == MsgSpec => []Accepted
<1>AcceptedStep.
    ASSUME MsgInv, Accepted, MsgNext
    PROVE  Accepted'
    <2> USE <1>AcceptedStep
    <2>0. state \in {"opening", "opensync", "open"} => conn \in Conns
        BY DEF MsgInv, ClientType, ClientInv, Conns
    <2>1. ASSUME UNCHANGED srv,
                 state' = "open" => /\ conn' = conn
                                    /\ \/ state = "open"
                                       \/ state \in {"opening", "opensync"} /\ s2c[conn] # <<>>
          PROVE  Accepted'
        BY Zenon, <2>0, <2>1 DEF Accepted, MsgInv, ConnInv
    <2>2. CASE ClientApp
        <3>1. UNCHANGED srv
            BY Zenon, <2>2 DEF ClientApp, le_msg_OpenSession, le_msg_OpenSessionSync, le_msg_CloseSession,
               le_msg_Send, le_msg_RequestResponse, le_msg_RequestSyncResponse, server
        <3>2. state' = "open" => conn' = conn /\ state = "open"
            BY Zenon, <2>2 DEF ClientApp, le_msg_OpenSession, le_msg_OpenSessionSync, le_msg_CloseSession,
               le_msg_Send, le_msg_RequestResponse, le_msg_RequestSyncResponse,
               StartSessionOpenAttempt
        <3> QED BY Zenon, <2>1, <3>1, <3>2
    <2>3. CASE ClientThread \/ ProcessDeferredMessages
        <3>1. CASE AttemptOpenSync \/ ReceiveSessionOpenResponse \/ ClientSocketHangUp
            <4>1. UNCHANGED srv
                BY Zenon, <3>1 DEF AttemptOpenSync, ReceiveSessionOpenResponse, ClientSocketHangUp, server
            <4>2. state' = "open" => /\ conn' = conn /\ s2c[conn] # <<>>
                                     /\ state \in {"opening", "opensync"}
                BY Zenon, <3>1 DEF AttemptOpenSync, ReceiveSessionOpenResponse, ClientSocketHangUp,
                   StartSessionOpenAttempt, ClientRuns, MsgInv, ClientType
            <4> QED BY Zenon, <2>1, <4>1, <4>2
        <3>2. CASE \/ SyncSend \/ SyncReceive \/ Poll \/ Discard \/ ClientSocketReadable
                   \/ NothingToRead \/ ProcessReceivedMessages \/ LoopEnds
                   \/ ProcessDeferredMessages
            <4>1. UNCHANGED <<srv, state, conn>>
                BY Zenon, <3>2 DEF SyncSend, SyncReceive, Poll, Discard, ClientSocketReadable,
                   NothingToRead, ProcessReceivedMessages, LoopEnds, ProcessDeferredMessages, server
            <4> QED BY Zenon, <2>1, <4>1
        <3>3. CASE ClientSocketWriteable
            <4>1. UNCHANGED <<srv, conn>> /\ (state' = "open" => state = "open")
                BY Zenon, <3>3 DEF ClientSocketWriteable, server
            <4> QED BY Zenon, <2>1, <4>1
        <3> QED BY Zenon, <2>3, <3>1, <3>2, <3>3 DEF ClientThread
    <2>4. ASSUME UNCHANGED client,
                 \A d \in Conns : srv'[d].state = "none" => srv[d].state = "none"
          PROVE  Accepted'
        BY Zenon, <2>0, <2>4 DEF Accepted, client
    <2>5. srv \in [Conns -> Session] BY Zenon DEF MsgInv, ServerType
    <2>6. ASSUME NEW c \in Conns, DeleteSession(c) \/ RefuseConnection(c), UNCHANGED client
          PROVE  Accepted'
        <3>1. srv' = [srv EXCEPT ![c] = ClosedSession]
            BY Zenon, <2>6 DEF DeleteSession, RefuseConnection
        <3>2. \A d \in Conns : srv'[d].state = "none" => srv[d].state = "none"
            BY Zenon, <2>5, <3>1, EmptySessions
        <3> QED BY Zenon, <2>4, <2>6, <3>2
    <2>7. CASE ServerCrash
        <3>1. UNCHANGED client /\ \A d \in Conns : srv'[d].state = "none" => srv[d].state = "none"
            BY Zenon, <2>7, EmptySessions DEF ServerCrash
        <3> QED BY Zenon, <2>4, <3>1
    <2>8. ASSUME NEW c \in Conns, NEW q \in Seq(ToClient), NEW n \in 0 .. MaxInd,
                 srv[c].state = "open", SendToClient(c, q, n), UNCHANGED client
          PROVE  Accepted'
        BY Zenon, <2>4, <2>8, SentDown
    <2>9. \A c \in Conns : srv[c].tq \in Seq(ToClient) /\ srv[c].inds \in 0 .. MaxInd
        BY Zenon, QueueTypes DEF QueueType
    <2>10. CASE ServerThread
        <3>1. CASE ProcessMessageFromClient
            <4>1. UNCHANGED client /\ srv' = [srv EXCEPT ![sFrame].rq = Tail(@)]
                BY Zenon, <3>1 DEF ProcessMessageFromClient
            <4>2. \A d \in Conns : srv'[d].state = srv[d].state BY Zenon, <2>5, <4>1 DEF Session
            <4> QED BY Zenon, <2>4, <4>1, <4>2
        <3>2. CASE ServerLoopEnds
            <4>1. CASE sFrame' = 0 /\ UNCHANGED <<client, srv, held, c2s, s2c>> BY Zenon, <2>4, <4>1
            <4>2. CASE DeleteSession(sFrame) /\ UNCHANGED client
                <5>1. PICK c \in Conns : c = sFrame
                    BY <3>2 DEF ServerLoopEnds, MsgInv, ServerType, Conns
                <5>2. DeleteSession(c) BY Zenon, <4>2, <5>1 DEF DeleteSession, CloseSocket
                <5> QED BY Zenon, <2>6, <4>2, <5>2
            <4> QED BY Zenon, <2>7, <3>2, <4>1, <4>2 DEF ServerLoopEnds
        <3>3. ASSUME NEW c \in Conns, CreateServerSideSession(c) PROVE Accepted'
            <4>1. UNCHANGED client BY Zenon, <3>3 DEF CreateServerSideSession
            <4>2. \/ srv' = [srv EXCEPT ![c] = ClosedSession]
                  \/ srv' = [srv EXCEPT ![c].state = "open"]
                BY Zenon, <3>3 DEF CreateServerSideSession
            <4>3. \A d \in Conns : srv'[d].state = "none" => srv[d].state = "none"
                BY ZenonT(40), <2>5, <4>2, EmptySessions DEF Session
            <4> QED BY Zenon, <2>4, <4>1, <4>3
        <3>4. ASSUME NEW c \in Conns, ServerSocketReadable(c) PROVE Accepted'
            <4>1. UNCHANGED client /\ srv' = [srv EXCEPT ![c].rq = @ \o c2s[c]]
                BY Zenon, <3>4 DEF ServerSocketReadable
            <4>2. \A d \in Conns : srv'[d].state = srv[d].state BY Zenon, <2>5, <4>1 DEF Session
            <4> QED BY Zenon, <2>4, <4>1, <4>2
        <3>5. ASSUME NEW c \in Conns, ServerSocketHangUp(c) PROVE Accepted'
            BY Zenon, <2>6, <3>5 DEF ServerSocketHangUp
        <3>6. ASSUME NEW c \in Conns, ServerSocketWriteable(c) PROVE Accepted'
            BY Zenon, <2>8, <2>9, <3>6 DEF ServerSocketWriteable
        <3> QED BY Zenon, <2>10, <3>1, <3>2, <3>3, <3>4, <3>5, <3>6 DEF ServerThread
    <2>11. ASSUME NEW h \in held, le_msg_ReleaseMsg(h) \/ le_msg_Respond(h) PROVE Accepted'
        <3>1. PICK c \in Conns : c = h.c BY Zenon DEF MsgInv, ServerType
        <3>2. UNCHANGED client BY Zenon, <2>11 DEF le_msg_ReleaseMsg, le_msg_Respond
        <3>3. CASE UNCHANGED srv BY Zenon, <2>4, <3>2, <3>3
        <3>4. CASE srv[h.c].state = "open" /\ le_msg_ReleaseMsg(h)
            <4>1. DeleteSession(c) BY Zenon, <3>1, <3>4 DEF le_msg_ReleaseMsg, DeleteSession, CloseSocket
            <4> QED BY Zenon, <2>6, <3>2, <4>1
        <3>5. CASE srv[h.c].state = "open" /\ le_msg_Respond(h)
            <4>1. srv[c].state = "open" /\ SendToClient(c, Append(srv[c].tq, Msg("rsp", h.id)), srv[c].inds)
                BY Zenon, <3>1, <3>5 DEF le_msg_Respond, SendToClient, ClientGone
            <4>2. Msg("rsp", h.id) \in ToClient BY Zenon DEF Msg, ToClient, MsgInv, ServerType
            <4>3. Append(srv[c].tq, Msg("rsp", h.id)) \in Seq(ToClient)
                BY Zenon, <2>9, <4>2, AppendProperties
            <4> QED BY Zenon, <2>8, <2>9, <3>2, <4>1, <4>3
        <3> QED BY Zenon, <2>11, <3>3, <3>4, <3>5 DEF le_msg_ReleaseMsg, le_msg_Respond
    <2>12. CASE ServerApp
        <3>1. ASSUME NEW c \in Conns, SendIndication(c) PROVE Accepted'
            <4> DEFINE n == srv[c].inds + 1
                       m == Msg("ind", n)
            <4>1. /\ srv[c].state = "open" /\ SendToClient(c, Append(srv[c].tq, m), n)
                  /\ srv[c].inds < MaxInd /\ UNCHANGED client
                BY Zenon, <3>1 DEF SendIndication
            <4>2. n \in 1 .. MaxInd /\ n \in 0 .. MaxInd BY <2>9, <4>1, MsgConstants
            <4>3. m \in ToClient BY Zenon, <4>2 DEF Msg, ToClient
            <4> HIDE DEF m, n
            <4>4. Append(srv[c].tq, m) \in Seq(ToClient) BY Zenon, <2>9, <4>3, AppendProperties
            <4> QED BY Zenon, <2>8, <4>1, <4>2, <4>4
        <3>2. ASSUME NEW c \in Conns, ServerCloseSession(c) PROVE Accepted'
            BY Zenon, <2>6, <3>2 DEF ServerCloseSession
        <3> QED BY Zenon, <2>11, <2>12, <3>1, <3>2 DEF ServerApp
    <2>13. ASSUME NEW c \in Conns, RefuseConnection(c) PROVE Accepted'
        <3>1. UNCHANGED client BY Zenon, <2>13 DEF RefuseConnection
        <3> QED BY Zenon, <2>6, <2>13, <3>1
    <2> QED BY Zenon, <2>2, <2>3, <2>7, <2>10, <2>11, <2>12, <2>13 DEF MsgNext
<1>1. MsgInit => Accepted BY Zenon DEF MsgInit, Accepted
<1>2. MsgInv /\ Accepted /\ [MsgNext]_vars => Accepted'
    <2>1. UNCHANGED vars /\ Accepted => Accepted' BY Zenon DEF vars, client, server, Accepted
    <2> QED BY Zenon, <2>1, <1>AcceptedStep
<1> QED BY <1>1, <1>2, MsgInvariant, PTL DEF MsgSpec

-----------------------------------------------------------------------------
(* The places of a request.                                               *)

\* How often m is in q.
Times(q, m) == Cardinality(Has(q, m))

\* What the steps below use of that number.  It is proved in MsgQueueProofs, from
\* what is known of finite sets; here nothing else is needed of them.
Counting ==
    /\ \A q, m : Has(q, m) = {} => Times(q, m) = 0
    /\ \A a, m : Times(<<a>>, m) = IF a = m THEN 1 ELSE 0
    /\ \A S : \A p, q \in Seq(S) : \A m :
          /\ Times(p, m) \in Nat /\ Times(q, m) \in Nat
          /\ Times(p \o q, m) = Times(p, m) + Times(q, m)

\* The messages of q that were made for some connection were made for c.
MadeFor(q, v, c) ==
    \A i \in DOMAIN q : q[i].kind \in {"req", "note", "rsp"} => v[q[i].id] = c

\* Whatever is queued or held was made, by the history v of messages, for the
\* connection that it is on.
MadeBy(v) ==
    /\ MadeFor(transmitQueue, v, conn)
    /\ Live => MadeFor(Coming, v, conn)
    /\ \A c \in Conns : MadeFor(c2s[c], v, c) /\ MadeFor(srv[c].rq, v, c)
    /\ \A h \in held : v[h.id] = h.c
    /\ sync # NoReq => v[sync] = conn

\* The requests that wait for a response were made, none of them for a session
\* that is only opening.
PlaceInv ==
    /\ MadeBy(via)
    /\ \A r \in Reqs : via[r] <= conn
    /\ \A r \in txnMap : via[r] # 0 /\ (state \in {"opening", "opensync"} => via[r] # conn)

\* The places of a request.
Waiting(r) == IF [id |-> r, c |-> via[r]] \in held THEN 1 ELSE 0

Blocked(r) == IF sync = r /\ ~syncSent THEN 1 ELSE 0

Places(r) ==
    Times(transmitQueue, Msg("req", r)) + Times(c2s[conn], Msg("req", r))
    + Times(srv[conn].rq, Msg("req", r)) + Waiting(r) + Times(Coming, Msg("rsp", r))
    + Blocked(r)

Here(r) == via[r] = conn /\ state = "open" /\ ~ServerGone(conn)

OnePlace == \A r \in txnMap : Here(r) => Places(r) = 1

\* A request that is in no place yet.
Nowhere(s) ==
    /\ Times(c2s[conn], Msg("req", s)) = 0 /\ Times(srv[conn].rq, Msg("req", s)) = 0
    /\ Times(Coming, Msg("rsp", s)) = 0 /\ [id |-> s, c |-> conn] \notin held /\ sync # s

LEMMA MadeForConcat ==
    ASSUME NEW S, NEW p \in Seq(S), NEW q \in Seq(S), NEW v, NEW c
    PROVE  MadeFor(p \o q, v, c) <=> MadeFor(p, v, c) /\ MadeFor(q, v, c)
<1> DEFINE n == Len(p)
           k == Len(q)
           r == p \o q
<1>1. n \in Nat /\ k \in Nat /\ DOMAIN p = 1 .. n /\ DOMAIN q = 1 .. k BY Zenon, LenProperties
<1>2. r \in Seq(S) /\ Len(r) = n + k BY Zenon, ConcatProperties
<1>3. DOMAIN r = 1 .. n + k BY Zenon, <1>2, LenProperties
<1>4. \A i \in 1 .. n + k : r[i] = IF i <= n THEN p[i] ELSE q[i - n]
    BY Zenon, ConcatProperties
<1> HIDE DEF n, k, r
<1>5. \A i \in 1 .. n : i \in 1 .. n + k /\ r[i] = p[i] BY <1>1, <1>4
<1>6. ASSUME NEW i \in 1 .. k PROVE i + n \in 1 .. n + k /\ r[i + n] = q[i]
    <2>1. i + n \in 1 .. n + k /\ ~(i + n <= n) /\ (i + n) - n = i BY <1>1
    <2>2. r[i + n] = q[(i + n) - n] BY Zenon, <1>4, <2>1
    <2> QED BY Zenon, <2>1, <2>2
<1>7. ASSUME NEW i \in 1 .. n + k
      PROVE  \/ i \in 1 .. n /\ r[i] = p[i]
             \/ i - n \in 1 .. k /\ r[i] = q[i - n]
    BY <1>1, <1>4
<1>8. MadeFor(r, v, c) => MadeFor(p, v, c) BY Zenon, <1>1, <1>3, <1>5 DEF MadeFor
<1>9. MadeFor(r, v, c) => MadeFor(q, v, c) BY <1>1, <1>3, <1>6 DEF MadeFor
<1>10. MadeFor(p, v, c) /\ MadeFor(q, v, c) => MadeFor(r, v, c)
    BY <1>1, <1>3, <1>7 DEF MadeFor
<1> QED BY Zenon, <1>8, <1>9, <1>10 DEF r

\* A queue of one message, and one of none.
LEMMA MadeForOne ==
    ASSUME NEW v, NEW c, NEW m
    PROVE  /\ MadeFor(<<>>, v, c)
           /\ MadeFor(<<m>>, v, c) <=> (m.kind \in {"req", "note", "rsp"} => v[m.id] = c)
<1> DEFINE s == <<m>>
<1>1. DOMAIN s = {1} /\ s[1] = m OBVIOUS
<1> HIDE DEF s
<1>2. MadeFor(s, v, c) <=> (m.kind \in {"req", "note", "rsp"} => v[m.id] = c)
    BY Zenon, <1>1 DEF MadeFor
<1>3. MadeFor(<<>>, v, c) BY DEF MadeFor
<1> QED BY Zenon, <1>2, <1>3 DEF s

\* A message that is new changes nothing for the others.
LEMMA MadeForNew ==
    ASSUME NEW q, q \in Seq(ToServer) \/ q \in Seq(ToClient), NEW v, NEW c, MadeFor(q, v, c),
           NEW w, NEW r, v[r] # c, \A s \in Reqs : s # r => w[s] = v[s]
    PROVE  MadeFor(q, w, c)
<1>1. DOMAIN q = 1 .. Len(q) /\ \A i \in 1 .. Len(q) : q[i] \in ToServer \cup ToClient
    BY Zenon, LenProperties, ElementOfSeq
<1>2. \A m \in ToServer \cup ToClient : m.kind \in {"req", "note", "rsp"} => m.id \in Reqs
    BY Zenon DEF ToServer, ToClient
<1> QED BY Zenon, <1>1, <1>2 DEF MadeFor

\* SendFromTransmitQueue neither loses nor reorders: the socket and the queue
\* together hold what they held (messagingSession.c:1012).
LEMMA SentUp ==
    ASSUME MsgInv, conn \in Conns, NEW q \in Seq(ToServer), SendFromTransmitQueue(q)
    PROVE  /\ c2s'[conn] \in Seq(ToServer) /\ transmitQueue' \in Seq(ToServer)
           /\ c2s'[conn] \o transmitQueue' = c2s[conn] \o q
           /\ \A d \in Conns : d # conn => c2s'[d] = c2s[d]
<1>0. c2s \in [Conns -> Seq(ToServer)] /\ c2s[conn] \in Seq(ToServer)
    BY Zenon DEF MsgInv, ServerType
<1>1. c2s'[conn] \in Seq(ToServer) /\ transmitQueue' \in Seq(ToServer) BY Zenon, Sending
<1>2. CASE ServerGone(conn)
    BY Zenon, <1>0, <1>1, <1>2 DEF SendFromTransmitQueue
<1>3. CASE ~ServerGone(conn)
    <2> DEFINE k == Least(SockCap - Len(c2s[conn]), Len(q))
    <2>1. Len(c2s[conn]) \in 0 .. SockCap /\ SockCap - Len(c2s[conn]) \in Nat
        BY <1>0, MsgConstants, LenProperties DEF MsgInv, ConnInv
    <2>2. k \in 0 .. Len(q) BY Zenon, <2>1, MsgConstants, LenProperties, LeastOfTwo
    <2>3. /\ c2s' = [c2s EXCEPT ![conn] = @ \o SubSeq(q, 1, k)]
          /\ transmitQueue' = SubSeq(q, k + 1, Len(q))
        BY Zenon, <1>3 DEF SendFromTransmitQueue
    <2> HIDE DEF k
    <2>4. c2s'[conn] = c2s[conn] \o SubSeq(q, 1, k) BY Zenon, <1>0, <2>3
    <2>5. (c2s[conn] \o SubSeq(q, 1, k)) \o SubSeq(q, k + 1, Len(q)) = c2s[conn] \o q
        BY ZenonT(40), <1>0, <2>2, MovedFront
    <2>6. \A d \in Conns : d # conn => c2s'[d] = c2s[d] BY Zenon, <1>0, <2>3
    <2> QED BY Zenon, <1>1, <2>3, <2>4, <2>5, <2>6
<1> QED BY Zenon, <1>2, <1>3

\* The places are counted in numbers.
LEMMA PlaceNumbers ==
    ASSUME Counting, MsgInv, Live, NEW r
    PROVE  /\ conn \in Conns
           /\ Times(transmitQueue, Msg("req", r)) \in Nat
           /\ Times(c2s[conn], Msg("req", r)) \in Nat
           /\ Times(srv[conn].rq, Msg("req", r)) \in Nat
           /\ Times(Coming, Msg("rsp", r)) \in Nat
           /\ Waiting(r) \in {0, 1} /\ Blocked(r) \in {0, 1}
<1>1. /\ conn \in Conns /\ transmitQueue \in Seq(ToServer) /\ c2s[conn] \in Seq(ToServer)
      /\ srv[conn].rq \in Seq(ToServer) /\ Coming \in Seq(ToClient)
    BY Zenon, QueueTypes DEF QueueType
<1>2. Waiting(r) \in {0, 1} /\ Blocked(r) \in {0, 1} BY Zenon DEF Waiting, Blocked
<1> QED BY Zenon, <1>1, <1>2 DEF Counting

\* One queue behind another has the messages of both.
LEMMA TimesConcat ==
    ASSUME Counting, NEW S, NEW p \in Seq(S), NEW q \in Seq(S), NEW m
    PROVE  /\ Times(p, m) \in Nat /\ Times(q, m) \in Nat
           /\ Times(p \o q, m) = Times(p, m) + Times(q, m)
BY DEF Counting

\* A queue of one message, and one of none.
LEMMA TimesOfOne ==
    ASSUME Counting, NEW a, NEW m
    PROVE  Times(<<>>, m) = 0 /\ Times(<<a>>, m) = IF a = m THEN 1 ELSE 0
<1>1. Has(<<>>, m) = {} BY DEF Has
<1> QED BY Zenon, <1>1 DEF Counting

\* A message made for another connection is not in the queue.
LEMMA MadeForOther ==
    ASSUME Counting, NEW q, NEW v, NEW c, MadeFor(q, v, c), NEW kind \in {"req", "note", "rsp"},
           NEW r, v[r] # c
    PROVE  Times(q, Msg(kind, r)) = 0
<1>1. Msg(kind, r).kind = kind /\ Msg(kind, r).id = r BY Zenon DEF Msg
<1>2. Has(q, Msg(kind, r)) = {}
    BY Zenon, <1>1 DEF Has, MadeFor
<1> QED BY Zenon, <1>2 DEF Counting

\* A step that moves nothing, or messages from the socket to the receive queue.
LEMMA PlaceStill ==
    ASSUME Counting, MsgInv, PlaceInv, OnePlace,
           UNCHANGED <<conn, txnMap, transmitQueue, via, held, sync, syncSent, c2s>>,
           \A d \in Conns : srv'[d].state = srv[d].state /\ srv'[d].rq = srv[d].rq,
           Live' => state' = state /\ Coming' = Coming
    PROVE  PlaceInv' /\ OnePlace'
<1>1. Live' => Live /\ conn \in Conns BY Zenon, QueueTypes DEF QueueType, Live
<1>2. Live' => Coming' = Coming BY Zenon
<1>3. \A c \in Conns : MadeFor(c2s'[c], via', c) /\ MadeFor(srv'[c].rq, via', c)
    BY Zenon DEF PlaceInv, MadeBy
<1>4. MadeFor(transmitQueue', via', conn') BY Zenon DEF PlaceInv, MadeBy
<1>5. Live' => MadeFor(Coming', via', conn') BY Zenon, <1>1, <1>2 DEF PlaceInv, MadeBy
<1>6. MadeBy(via)' BY Zenon, <1>3, <1>4, <1>5 DEF PlaceInv, MadeBy, MadeFor
<1>7. PlaceInv' BY Zenon, <1>1, <1>6 DEF PlaceInv, Live
<1>8. ASSUME NEW r \in txnMap', Here(r)' PROVE Places(r)' = 1
    <2>1. Live' /\ state' = state /\ Live BY Zenon, <1>1, <1>8 DEF Here, Live
    <2>2. conn \in Conns /\ srv'[conn].rq = srv[conn].rq /\ srv'[conn].state = srv[conn].state
        BY Zenon, <1>1, <2>1
    <2>3. r \in txnMap /\ Here(r) BY Zenon, <1>8, <2>1, <2>2 DEF Here, ServerGone
    <2>4. Waiting(r)' = Waiting(r) BY Zenon DEF Waiting
    <2>5. Blocked(r)' = Blocked(r) BY Zenon DEF Blocked
    <2>6. Coming' = Coming BY Zenon, <1>2, <2>1
    <2>7. Places(r)' = Places(r) BY Zenon, <2>2, <2>4, <2>5, <2>6 DEF Places, Times, Has
    <2> QED BY Zenon, <2>3, <2>7 DEF OnePlace
<1> QED BY Zenon, <1>7, <1>8 DEF OnePlace

\* A step that moves nothing.
LEMMA PlaceSame ==
    ASSUME Counting, MsgInv, PlaceInv, OnePlace,
           UNCHANGED <<conn, txnMap, transmitQueue, receiveQueue, via, held, sync, syncSent,
                       c2s, s2c>>,
           \A d \in Conns : /\ srv'[d].state = srv[d].state /\ srv'[d].rq = srv[d].rq
                            /\ srv'[d].tq = srv[d].tq,
           Live' => state' = state
    PROVE  PlaceInv' /\ OnePlace'
<1>1. Live' => conn \in Conns BY Zenon, QueueTypes DEF QueueType, Live
<1>2. Live' => Coming' = Coming BY Zenon, <1>1 DEF Coming, Down
<1> QED BY Zenon, <1>2, PlaceStill

\* The client gives the connection up.
LEMMA PlaceShuts ==
    ASSUME Counting, MsgInv, PlaceInv, UNCHANGED <<via, held, srv, sync>>, sync = NoReq,
           transmitQueue' = <<>>, receiveQueue' = <<>>, txnMap' \subseteq txnMap,
           \A c \in Conns : c2s'[c] = c2s[c] \/ c2s'[c] = <<>>,
           \A c \in Conns : s2c[c] = <<>> => s2c'[c] = <<>>,
           \/ conn' = conn /\ state' \in {"closed", "dead"}
           \/ conn < MaxConn /\ conn' = conn + 1 /\ state' \in {"opening", "opensync"}
    PROVE  PlaceInv' /\ OnePlace'
<1>1. OnePlace' BY Zenon DEF OnePlace, Here
<1>2. MadeFor(transmitQueue', via', conn') BY Zenon, MadeForOne
<1>3. \A c \in Conns : MadeFor(c2s'[c], via', c) /\ MadeFor(srv'[c].rq, via', c)
    BY Zenon, MadeForOne DEF PlaceInv, MadeBy
<1>4. Live' => MadeFor(Coming', via', conn')
    <2> SUFFICES ASSUME Live' PROVE MadeFor(Coming', via', conn')
        BY Zenon
    <2>1. conn < MaxConn /\ conn' = conn + 1 BY Zenon DEF Live
    <2>2. conn' \in Conns /\ ~(conn' <= conn) BY <2>1, MsgConstants DEF MsgInv, ClientType, Conns
    <2>3. s2c[conn'] = <<>> /\ srv[conn'].tq = <<>> BY Zenon, <2>2 DEF MsgInv, ConnInv
    <2>4. Coming' = <<>> \o (<<>> \o <<>>) BY Zenon, <2>2, <2>3 DEF Coming, Down
    <2>5. Coming' = <<>> BY Zenon, <2>4, EmptyQueue, NothingAdded
    <2> QED BY Zenon, <2>5, MadeForOne
<1>5. \A h \in held' : via'[h.id] = h.c BY Zenon DEF PlaceInv, MadeBy
<1>6. MadeBy(via)' BY Zenon, <1>2, <1>3, <1>4, <1>5 DEF MadeBy, MadeFor
<1>7. /\ \A r \in Reqs : via'[r] <= conn'
      /\ \A r \in txnMap' : /\ via'[r] # 0
                            /\ state' \in {"opening", "opensync"} => via'[r] # conn'
    <2>1. conn \in Nat /\ \A r \in Reqs : via[r] \in Nat /\ via[r] <= conn
        BY DEF MsgInv, ClientType, PlaceInv
    <2>2. \A r \in Reqs : via'[r] <= conn' BY <2>1
    <2>3. \A r \in txnMap' : r \in txnMap /\ r \in Reqs /\ via[r] # 0
        BY Zenon DEF MsgInv, ClientType, PlaceInv
    <2> QED BY <2>1, <2>2, <2>3
<1>8. PlaceInv' BY Zenon, <1>6, <1>7 DEF PlaceInv
<1> QED BY Zenon, <1>1, <1>8

\* A message is made: it is nowhere yet, and the others are where they were.
LEMMA NewMessage ==
    ASSUME Counting, MsgInv, PlaceInv, NEW r \in Reqs, Make(r)
    PROVE  /\ MadeBy(via') /\ via'[r] = conn /\ r \notin txnMap /\ conn # 0
           /\ \A s \in Reqs : via'[s] <= conn /\ (s # r => via'[s] = via[s])
           /\ Live => /\ Times(transmitQueue, Msg("req", r)) = 0
                      /\ Times(c2s[conn], Msg("req", r)) = 0
                      /\ Times(srv[conn].rq, Msg("req", r)) = 0
                      /\ Times(Coming, Msg("rsp", r)) = 0
                      /\ [id |-> r, c |-> conn] \notin held
           /\ sync # r
<1>1. /\ via[r] = 0 /\ conn > 0 /\ conn \in Nat /\ via \in [Reqs -> 0 .. MaxConn]
      /\ via' = [via EXCEPT ![r] = conn]
    BY DEF Make, MsgInv, ClientType
<1>2. /\ via'[r] = conn /\ conn # 0 /\ conn <= conn
      /\ \A s \in Reqs : s # r => via'[s] = via[s]
    BY <1>1
<1>3. \A s \in Reqs : via'[s] <= conn BY Zenon, <1>2 DEF PlaceInv
<1>4. r \notin txnMap BY Zenon, <1>1 DEF PlaceInv
<1>5. \A c \in Conns : via[r] # c BY <1>1 DEF Conns
<1>6. via[r] # conn BY <1>1
<1> DEFINE w == via'
<1>7. \A s \in Reqs : s # r => w[s] = via[s] BY Zenon, <1>2
<1> HIDE DEF w
<1>8. MadeFor(transmitQueue, w, conn)
    BY Zenon, <1>6, <1>7, QueueTypes, MadeForNew DEF QueueType, PlaceInv, MadeBy
<1>9. Live => MadeFor(Coming, w, conn)
    BY ZenonT(40), <1>6, <1>7, QueueTypes, MadeForNew DEF QueueType, PlaceInv, MadeBy
<1>10. \A c \in Conns : MadeFor(c2s[c], w, c) /\ MadeFor(srv[c].rq, w, c)
    <2> TAKE c \in Conns
    <2>1. c2s[c] \in Seq(ToServer) /\ srv[c].rq \in Seq(ToServer) BY Zenon, QueueTypes DEF QueueType
    <2>2. MadeFor(c2s[c], via, c) /\ MadeFor(srv[c].rq, via, c) BY Zenon DEF PlaceInv, MadeBy
    <2>3. via[r] # c BY Zenon, <1>5
    <2> QED BY Zenon, <1>7, <2>1, <2>2, <2>3, MadeForNew
<1>11. \A h \in held : w[h.id] = h.c
    <2> TAKE h \in held
    <2>1. h.id \in Reqs /\ h.c \in Conns /\ via[h.id] = h.c
        BY Zenon DEF MsgInv, ServerType, PlaceInv, MadeBy
    <2>2. h.id # r BY Zenon, <1>5, <2>1
    <2> QED BY Zenon, <1>7, <2>1, <2>2
<1>12. sync # r /\ (sync # NoReq => w[sync] = conn)
    <2>1. sync # NoReq => sync \in Reqs /\ via[sync] = conn
        BY Zenon DEF MsgInv, ClientType, PlaceInv, MadeBy
    <2>2. sync # r BY Zenon, <1>6, <2>1, MsgConstants
    <2> QED BY Zenon, <1>7, <2>1, <2>2
<1>13. MadeBy(w) BY Zenon, <1>8, <1>9, <1>10, <1>11, <1>12 DEF MadeBy
<1>14. ASSUME Live
       PROVE  /\ Times(transmitQueue, Msg("req", r)) = 0
              /\ Times(c2s[conn], Msg("req", r)) = 0
              /\ Times(srv[conn].rq, Msg("req", r)) = 0
              /\ Times(Coming, Msg("rsp", r)) = 0
              /\ [id |-> r, c |-> conn] \notin held
    <2>1. conn \in Conns BY Zenon, <1>14, QueueTypes DEF QueueType
    <2>2. /\ MadeFor(transmitQueue, via, conn) /\ MadeFor(Coming, via, conn)
          /\ MadeFor(c2s[conn], via, conn) /\ MadeFor(srv[conn].rq, via, conn)
        BY Zenon, <1>14, <2>1 DEF PlaceInv, MadeBy
    <2>3. [id |-> r, c |-> conn] \notin held BY Zenon, <1>6 DEF PlaceInv, MadeBy
    <2> QED BY Zenon, <1>6, <2>2, <2>3, MadeForOther
<1> QED BY Zenon, <1>2, <1>3, <1>4, <1>12, <1>13, <1>14 DEF w

\* What SendFromTransmitQueue does to the places.
LEMMA SentUpPlaces ==
    ASSUME Counting, MsgInv, conn \in Conns, NEW q \in Seq(ToServer), SendFromTransmitQueue(q)
    PROVE  /\ \A m : /\ Times(c2s'[conn], m) \in Nat /\ Times(transmitQueue', m) \in Nat
                     /\ Times(c2s'[conn], m) + Times(transmitQueue', m)
                        = Times(c2s[conn], m) + Times(q, m)
           /\ \A v : MadeFor(c2s[conn], v, conn) /\ MadeFor(q, v, conn)
                     => MadeFor(c2s'[conn], v, conn) /\ MadeFor(transmitQueue', v, conn)
<1>1. PICK a \in Seq(ToServer), b \in Seq(ToServer), c \in Seq(ToServer) :
        a = c2s'[conn] /\ b = transmitQueue' /\ c = c2s[conn]
    BY Zenon, SentUp, QueueTypes DEF QueueType
<1>2. a \o b = c \o q BY Zenon, <1>1, SentUp
<1>3. \A m : Times(a, m) \in Nat /\ Times(b, m) \in Nat /\ Times(a \o b, m) = Times(a, m) + Times(b, m)
    BY Zenon, TimesConcat
<1>4. \A m : Times(c \o q, m) = Times(c, m) + Times(q, m)
    BY Zenon, TimesConcat
<1>5. \A v : MadeFor(a \o b, v, conn) <=> MadeFor(a, v, conn) /\ MadeFor(b, v, conn)
    BY Zenon, MadeForConcat
<1>6. \A v : MadeFor(c \o q, v, conn) <=> MadeFor(c, v, conn) /\ MadeFor(q, v, conn)
    BY Zenon, MadeForConcat
<1>7. \A m : /\ Times(a, m) \in Nat /\ Times(b, m) \in Nat
             /\ Times(a, m) + Times(b, m) = Times(c, m) + Times(q, m)
    BY Zenon, <1>2, <1>3, <1>4
<1>8. \A v : MadeFor(c, v, conn) /\ MadeFor(q, v, conn) => MadeFor(a, v, conn) /\ MadeFor(b, v, conn)
    BY Zenon, <1>2, <1>5, <1>6
<1> QED BY Zenon, <1>1, <1>7, <1>8

\* One more message in a queue.
LEMMA OneMore ==
    ASSUME Counting, NEW S, NEW q \in Seq(S), NEW m \in S
    PROVE  /\ Append(q, m) \in Seq(S)
           /\ \A x : Times(q, x) \in Nat /\ Times(Append(q, m), x) = Times(q, x) + (IF m = x THEN 1 ELSE 0)
           /\ \A v, c : MadeFor(Append(q, m), v, c)
                        <=> /\ MadeFor(q, v, c)
                            /\ m.kind \in {"req", "note", "rsp"} => v[m.id] = c
<1> DEFINE one == <<m>>
<1>1. one \in Seq(S) OBVIOUS
<1>2. Append(q, m) = q \o one BY Zenon, AppendIsConcat
<1>3. \A x : Times(one, x) = IF m = x THEN 1 ELSE 0 BY Zenon, TimesOfOne
<1>4. \A v, c : MadeFor(one, v, c) <=> (m.kind \in {"req", "note", "rsp"} => v[m.id] = c)
    BY Zenon, MadeForOne
<1> HIDE DEF one
<1>5. \A x : Times(q, x) \in Nat /\ Times(q \o one, x) = Times(q, x) + Times(one, x)
    BY Zenon, <1>1, TimesConcat
<1>6. \A v, c : MadeFor(q \o one, v, c) <=> MadeFor(q, v, c) /\ MadeFor(one, v, c)
    BY Zenon, <1>1, MadeForConcat
<1>7. Append(q, m) \in Seq(S) BY Zenon, AppendProperties
<1>8. \A x : Times(Append(q, m), x) = Times(q, x) + (IF m = x THEN 1 ELSE 0)
    BY Zenon, <1>2, <1>3, <1>5
<1>9. \A v, c : MadeFor(Append(q, m), v, c)
                <=> /\ MadeFor(q, v, c)
                    /\ m.kind \in {"req", "note", "rsp"} => v[m.id] = c
    BY Zenon, <1>2, <1>4, <1>6
<1> QED BY Zenon, <1>5, <1>7, <1>8, <1>9

\* The client sends from its transmit queue, with what was put into it.
LEMMA PlaceSent ==
    ASSUME Counting, MsgInv, PlaceInv, OnePlace, state = "open",
           UNCHANGED <<state, conn, receiveQueue, sync, syncSent, held, srv, s2c>>,
           NEW q \in Seq(ToServer), SendFromTransmitQueue(q),
           MadeBy(via'), MadeFor(q, via', conn), \A s \in Reqs : via'[s] <= conn,
           \A s \in txnMap' : via'[s] # 0,
           \A s \in txnMap' : via'[s] = conn =>
               \/ /\ s \in txnMap /\ via[s] = conn
                  /\ Times(q, Msg("req", s)) = Times(transmitQueue, Msg("req", s))
               \/ Nowhere(s) /\ Times(q, Msg("req", s)) = 1
    PROVE  PlaceInv' /\ OnePlace'
<1>0. Live /\ conn \in Conns BY Zenon, QueueTypes DEF QueueType, Live
<1>1. /\ \A m : /\ Times(c2s'[conn], m) \in Nat /\ Times(transmitQueue', m) \in Nat
                /\ Times(c2s'[conn], m) + Times(transmitQueue', m)
                   = Times(c2s[conn], m) + Times(q, m)
      /\ \A v : MadeFor(c2s[conn], v, conn) /\ MadeFor(q, v, conn)
                => MadeFor(c2s'[conn], v, conn) /\ MadeFor(transmitQueue', v, conn)
    BY Zenon, <1>0, SentUpPlaces
<1>2. \A d \in Conns : d # conn => c2s'[d] = c2s[d] BY Zenon, <1>0, SentUp
<1>3. Coming' = Coming BY Zenon DEF Coming, Down
<1>4. MadeFor(c2s'[conn], via', conn) /\ MadeFor(transmitQueue', via', conn)
    BY Zenon, <1>0, <1>1 DEF MadeBy
<1>5. MadeFor(Coming', via', conn) BY Zenon, <1>0, <1>3 DEF MadeBy
<1>6. \A c \in Conns : MadeFor(c2s'[c], via', c) /\ MadeFor(srv'[c].rq, via', c)
    <2> TAKE c \in Conns
    <2>1. CASE c = conn BY Zenon, <1>4, <2>1 DEF MadeBy
    <2>2. CASE c # conn BY Zenon, <1>2, <2>2 DEF MadeBy
    <2> QED BY Zenon, <2>1, <2>2
<1>7. (\A h \in held' : via'[h.id] = h.c) /\ (sync' # NoReq => via'[sync'] = conn')
    BY Zenon DEF MadeBy
<1>8. MadeBy(via)' BY Zenon, <1>4, <1>5, <1>6, <1>7 DEF MadeBy, MadeFor
<1>9. PlaceInv' BY Zenon, <1>8 DEF PlaceInv
<1>10. ASSUME NEW s \in txnMap', Here(s)' PROVE Places(s)' = 1
    <2> DEFINE rq == Msg("req", s)
               rs == Msg("rsp", s)
    <2>1. via'[s] = conn /\ ~ServerGone(conn) BY Zenon, <1>10 DEF Here, ServerGone
    <2>2. /\ Times(c2s'[conn], rq) \in Nat /\ Times(transmitQueue', rq) \in Nat
          /\ Times(c2s'[conn], rq) + Times(transmitQueue', rq)
             = Times(c2s[conn], rq) + Times(q, rq)
        BY Zenon, <1>1
    <2>3. /\ Times(transmitQueue, rq) \in Nat /\ Times(c2s[conn], rq) \in Nat
          /\ Times(srv[conn].rq, rq) \in Nat /\ Times(Coming, rs) \in Nat
          /\ Waiting(s) \in {0, 1} /\ Blocked(s) \in {0, 1}
        BY Zenon, <1>0, PlaceNumbers
    <2>4. Waiting(s)' = IF [id |-> s, c |-> conn] \in held THEN 1 ELSE 0
        BY Zenon, <2>1 DEF Waiting
    <2>5. Blocked(s)' = Blocked(s) BY Zenon DEF Blocked
    <2>6. Places(s)' = Times(transmitQueue', rq) + Times(c2s'[conn], rq)
                       + Times(srv[conn].rq, rq) + Waiting(s)' + Times(Coming, rs) + Blocked(s)
        BY Zenon, <1>3, <2>5 DEF Places, Times, Has
    <2>7. CASE s \in txnMap /\ via[s] = conn /\ Times(q, rq) = Times(transmitQueue, rq)
        <3>1. Here(s) BY Zenon, <2>1, <2>7 DEF Here
        <3>2. Waiting(s)' = Waiting(s) BY Zenon, <2>4, <2>7 DEF Waiting
        <3>3. Places(s) = Times(transmitQueue, rq) + Times(c2s[conn], rq)
                          + Times(srv[conn].rq, rq) + Waiting(s) + Times(Coming, rs) + Blocked(s)
            BY Zenon DEF Places
        <3>4. Places(s) = 1 BY Zenon, <2>7, <3>1 DEF OnePlace
        <3> HIDE DEF rq, rs
        <3> QED BY <2>2, <2>3, <2>6, <2>7, <3>2, <3>3, <3>4
    <2>8. CASE Nowhere(s) /\ Times(q, rq) = 1
        <3>1. Waiting(s)' = 0 /\ Blocked(s) = 0 BY Zenon, <2>4, <2>8 DEF Nowhere, Blocked
        <3>2. Times(c2s[conn], rq) = 0 /\ Times(srv[conn].rq, rq) = 0 /\ Times(Coming, rs) = 0
            BY Zenon, <2>8 DEF Nowhere
        <3> HIDE DEF rq, rs
        <3> QED BY <2>2, <2>6, <2>8, <3>1, <3>2
    <2> QED BY Zenon, <2>1, <2>7, <2>8
<1> QED BY Zenon, <1>9, <1>10 DEF OnePlace

\* The steps of the client that send.
LEMMA PlaceSends ==
    ASSUME Counting, MsgInv, PlaceInv, OnePlace,
           \/ \E r \in Reqs : le_msg_Send(r) \/ le_msg_RequestResponse(r)
           \/ ClientSocketWriteable
    PROVE  PlaceInv' /\ OnePlace'
<1>0. transmitQueue \in Seq(ToServer) /\ txnMap \subseteq Reqs BY Zenon DEF MsgInv, ClientType
<1>1. ASSUME NEW r \in Reqs, le_msg_Send(r) PROVE PlaceInv' /\ OnePlace'
    <2>0. Make(r) /\ UNCHANGED <<state, conn, txnMap, receiveQueue, sync, syncSent, held, srv, s2c>>
        BY Zenon, <1>1 DEF le_msg_Send, server
    <2>1. /\ MadeBy(via') /\ via'[r] = conn /\ r \notin txnMap
          /\ \A s \in Reqs : via'[s] <= conn /\ (s # r => via'[s] = via[s])
        BY Zenon, <2>0, NewMessage
    <2>2. \A s \in txnMap' : via'[s] = via[s] /\ via'[s] # 0 /\ s # r
        BY Zenon, <1>0, <2>0, <2>1 DEF PlaceInv
    <2>3. CASE state = "open"
        <3> DEFINE m == Msg("note", r)
                   q == Append(transmitQueue, m)
        <3>1. m \in ToServer /\ m.kind = "note" /\ m.id = r BY Zenon DEF Msg, ToServer
        <3>2. \A s : m # Msg("req", s) BY Zenon DEF Msg
        <3>3. SendFromTransmitQueue(q) BY Zenon, <1>1, <2>3 DEF le_msg_Send
        <3> HIDE DEF m
        <3>4. /\ q \in Seq(ToServer)
              /\ \A x : Times(transmitQueue, x) \in Nat
                        /\ Times(q, x) = Times(transmitQueue, x) + (IF m = x THEN 1 ELSE 0)
              /\ MadeFor(q, via', conn)
            BY <1>0, <2>1, <3>1, OneMore DEF MadeBy
        <3> HIDE DEF q
        <3>5. \A s \in txnMap' : Times(q, Msg("req", s)) = Times(transmitQueue, Msg("req", s))
            BY <3>2, <3>4
        <3> QED BY Zenon, <2>0, <2>1, <2>2, <2>3, <3>3, <3>4, <3>5, PlaceSent
    <2>4. CASE state # "open"
        <3>1. UNCHANGED <<transmitQueue, c2s>> BY Zenon, <1>1, <2>4 DEF le_msg_Send
        <3>2. Coming' = Coming BY Zenon, <2>0 DEF Coming, Down
        <3>3. MadeBy(via)'
            BY Zenon, <2>0, <2>1, <3>1, <3>2 DEF MadeBy, MadeFor, Live
        <3>4. \A s \in txnMap' : state' \in {"opening", "opensync"} => via'[s] # conn'
            BY Zenon, <2>0, <2>2 DEF PlaceInv
        <3>5. PlaceInv' BY Zenon, <2>0, <2>1, <2>2, <3>3, <3>4 DEF PlaceInv
        <3>6. OnePlace' BY Zenon, <2>0, <2>4 DEF OnePlace, Here
        <3> QED BY Zenon, <3>5, <3>6
    <2> QED BY Zenon, <2>3, <2>4
<1>2. ASSUME NEW r \in Reqs, le_msg_RequestResponse(r) PROVE PlaceInv' /\ OnePlace'
    <2>0. /\ Make(r) /\ UNCHANGED <<state, conn, receiveQueue, sync, syncSent, held, srv, s2c>>
          /\ state = "open" /\ txnMap' = txnMap \cup {r} /\ Live
        BY Zenon, <1>2 DEF le_msg_RequestResponse, server, Live
    <2>1. /\ MadeBy(via') /\ via'[r] = conn /\ r \notin txnMap /\ conn # 0 /\ Nowhere(r)
          /\ Times(transmitQueue, Msg("req", r)) = 0
          /\ \A s \in Reqs : via'[s] <= conn /\ (s # r => via'[s] = via[s])
        BY Zenon, <2>0, NewMessage DEF Nowhere
    <2>2. \A s \in txnMap' : via'[s] # 0 /\ (s # r => s \in txnMap /\ via'[s] = via[s])
        BY Zenon, <1>0, <2>0, <2>1 DEF PlaceInv
    <2> DEFINE m == Msg("req", r)
               q == Append(transmitQueue, m)
    <2>3. m \in ToServer /\ m.kind = "req" /\ m.id = r BY Zenon DEF Msg, ToServer
    <2>4. \A s : s # r => m # Msg("req", s) BY Zenon DEF Msg
    <2>5. SendFromTransmitQueue(q) BY Zenon, <1>2 DEF le_msg_RequestResponse
    <2>6. m = Msg("req", r) BY Zenon
    <2> HIDE DEF m
    <2>7. /\ q \in Seq(ToServer)
          /\ \A x : Times(transmitQueue, x) \in Nat
                    /\ Times(q, x) = Times(transmitQueue, x) + (IF m = x THEN 1 ELSE 0)
          /\ MadeFor(q, via', conn)
        BY <1>0, <2>1, <2>3, OneMore DEF MadeBy
    <2> HIDE DEF q
    <2>8. \A s \in txnMap' : s # r => Times(q, Msg("req", s)) = Times(transmitQueue, Msg("req", s))
        BY <2>4, <2>7
    <2>9. Times(q, Msg("req", r)) = 1 BY <2>1, <2>6, <2>7
    <2> QED BY Zenon, <2>0, <2>1, <2>2, <2>5, <2>7, <2>8, <2>9, PlaceSent
<1>3. CASE ClientSocketWriteable
    <2>0. UNCHANGED <<conn, txnMap, receiveQueue, sync, syncSent, held, srv, s2c, via>>
        BY Zenon, <1>3 DEF ClientSocketWriteable, server
    <2>1. CASE reported.out /\ state = "open"
        <3>1. SendFromTransmitQueue(transmitQueue) /\ state' = state
            BY Zenon, <1>3, <2>1 DEF ClientSocketWriteable
        <3>2. MadeBy(via') /\ MadeFor(transmitQueue, via', conn)
            BY Zenon, <2>0 DEF PlaceInv, MadeBy
        <3> QED BY Zenon, <1>0, <2>0, <2>1, <3>1, <3>2, PlaceSent DEF PlaceInv
    <2>2. CASE ~(reported.out /\ state = "open")
        <3>1. UNCHANGED <<transmitQueue, c2s>> /\ (state' = state \/ state' = "dead")
            BY Zenon, <1>3, <2>2 DEF ClientSocketWriteable
        <3> QED BY Zenon, <2>0, <3>1, PlaceSame DEF Live
    <2> QED BY Zenon, <2>1, <2>2
<1> QED BY Zenon, <1>1, <1>2, <1>3

=============================================================================
