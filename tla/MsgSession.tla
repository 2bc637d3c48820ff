----------------------------- MODULE MsgSession -----------------------------
(* A session of the messaging library, from one client thread to one server   *)
(* thread over Unix sockets (framework/liblegato/linux/messagingSession.c and *)
(* messagingMessage.c, with the event dispatch of fdMonitor.c).               *)
(*                                                                            *)
(* The client opens the session, makes requests, with a callback or blocking, *)
(* and may open it again after it closed: every attempt is a new connection,  *)
(* with a session object of its own on the server side.  Both threads have an *)
(* event loop.  What a callback of the client or of the server does to the    *)
(* session are actions of their own, taken while the loop that calls the      *)
(* callback stands still.                                                     *)
EXTENDS Integers, Sequences, FiniteSets

CONSTANTS
    Reqs,       \* the messages that the client may send
    NoReq,
    MaxConn,    \* bound: connections made
    SockCap,    \* messages that a socket takes in one direction
    MaxInd      \* bound: indications sent on a connection

ASSUME MsgConstants ==
    /\ NoReq \notin Reqs
    /\ MaxConn \in Nat \ {0} /\ SockCap \in Nat \ {0} /\ MaxInd \in Nat

Conns == 1 .. MaxConn

VARIABLES
    state,          \* client: Session_t.state, or "dead" after LE_FATAL
    conn,           \* client: the number of connections made
    txnMap,         \* client: the transaction IDs that are known
    transmitQueue,  \* client: messages that wait for room in the socket
    txnList,        \* client: requests sent, not answered
    receiveQueue,   \* client: messages received, not processed
    pollOut,        \* client: is POLLOUT enabled in the FD Monitor?
    deferred,       \* client: queued calls of ProcessDeferredMessages
    reported,       \* client: the events that the last poll reported
    frame,          \* client: what the event loop is doing
    sync,           \* client: the request that the thread is blocked in
    syncSent,       \* client: has that one been sent?
    srv,            \* server: the session object of each connection
    held,           \* server: the requests that its code has to answer
    sFrame,         \* server: the session whose messages it is processing
    c2s, s2c,       \* the two directions of each connection
    via,            \* history: the connection that a message was made for
    seen            \* history: the last indication processed on this one

client == <<state, conn, txnMap, transmitQueue, txnList, receiveQueue, pollOut,
            deferred, reported, frame, sync, syncSent, via, seen>>
server == <<srv, held, sFrame>>
vars == <<client, server, c2s, s2c>>

\* Client to server: a request, or a message that needs no response.
ToServer == [kind : {"req", "note"}, id : Reqs]
\* Server to client: the open response, a response, an indication.
ToClient == [kind : {"rsp"}, id : Reqs]
            \cup [kind : {"ind"}, id : 1 .. MaxInd] \cup [kind : {"hello"}, id : {0}]
Msg(kind, id) == [kind |-> kind, id |-> id]

Elements(q) == {q[i] : i \in DOMAIN q}
Least(a, b) == IF a < b THEN a ELSE b

\* The events of a poll, and the monitor (one per connection) they are for.
NoEvents == [mon |-> 0, in |-> FALSE, hup |-> FALSE, out |-> FALSE]
Events == [mon : 0 .. MaxConn, in : BOOLEAN, hup : BOOLEAN, out : BOOLEAN]

\* A server-side session object.  "none": the Service Directory has the
\* connection, or the server has not accepted it.  "inds" (history): the number
\* of indications sent.
Session == [state : {"none", "open", "closed"}, rq : Seq(ToServer),
            tq : Seq(ToClient), pollOut : BOOLEAN, inds : 0 .. MaxInd]
NewSession ==
    [state |-> "none", rq |-> <<>>, tq |-> <<>>, pollOut |-> FALSE, inds |-> 0]
ClosedSession == [NewSession EXCEPT !.state = "closed"]

\* Who has closed a connection, as the other side sees it.
ClientGone(c) == c < conn \/ state \in {"closed", "dead"}
ServerGone(c) == srv[c].state = "closed"

MsgInit ==
    /\ state = "closed" /\ conn = 0
    /\ txnMap = {} /\ transmitQueue = <<>> /\ txnList = {} /\ receiveQueue = <<>>
    /\ pollOut = FALSE /\ deferred = 0
    /\ reported = NoEvents /\ frame = "idle"
    /\ sync = NoReq /\ syncSent = FALSE
    /\ srv = [c \in Conns |-> NewSession] /\ held = {} /\ sFrame = 0
    /\ c2s = [c \in Conns |-> <<>>] /\ s2c = [c \in Conns |-> <<>>]
    /\ via = [r \in Reqs |-> 0]  /\ seen = 0

-----------------------------------------------------------------------------
(* The client: opening and closing.                                           *)

\* StartSessionOpenAttempt, and LE_FATAL when the Service Directory cannot be
\* reached.  The thread that opens a session synchronously waits for the answer
\* and has no monitor yet ("opensync").
StartSessionOpenAttempt(as) ==
    /\ seen' = 0
    /\ \/ conn < MaxConn /\ conn' = conn + 1 /\ state' = as
       \/ state' = "dead" /\ UNCHANGED conn

\* One side closes its socket.  What it had not read is lost, and then what it
\* sent may be lost too: the other side gets an error instead.
CloseSocket(c, unread, other) ==
    /\ unread' = [unread EXCEPT ![c] = <<>>]
    /\ \/ UNCHANGED other
       \/ unread[c] # <<>> /\ other' = [other EXCEPT ![c] = <<>>]

\* CloseSession, with PurgeTransmitQueue (a request there ends without a
\* response) and PurgeReceiveQueue.  Nothing purges the transaction list on
\* the client side.
CloseSession ==
    /\ CloseSocket(conn, s2c, c2s)
    /\ txnMap' = txnMap \ {m.id : m \in Elements(transmitQueue)}
    /\ transmitQueue' = <<>> /\ receiveQueue' = <<>> /\ pollOut' = FALSE

\* The callbacks and the other handlers of the client's thread run whenever it
\* is not blocked.
ClientRuns == sync = NoReq /\ state \notin {"dead", "opensync"}

le_msg_OpenSession ==
    /\ ClientRuns /\ state = "closed"
    /\ StartSessionOpenAttempt("opening")
    /\ UNCHANGED <<txnMap, transmitQueue, txnList, receiveQueue, pollOut, deferred,
                   reported, frame, sync, syncSent, via, server, c2s, s2c>>

le_msg_OpenSessionSync ==
    /\ ClientRuns /\ state = "closed"
    /\ StartSessionOpenAttempt("opensync")
    /\ UNCHANGED <<txnMap, transmitQueue, txnList, receiveQueue, pollOut, deferred,
                   reported, frame, sync, syncSent, via, server, c2s, s2c>>

\* AttemptOpenSync: the answer comes, or the connection ends and it tries again.
AttemptOpenSync ==
    /\ state = "opensync"
    /\ \/ /\ s2c[conn] # <<>> /\ s2c' = [s2c EXCEPT ![conn] = Tail(@)]
          /\ state' = "open"
          /\ UNCHANGED <<conn, txnMap, transmitQueue, receiveQueue, pollOut, seen, c2s>>
       \/ /\ s2c[conn] = <<>> /\ ServerGone(conn)
          /\ CloseSession /\ StartSessionOpenAttempt("opensync")
    /\ UNCHANGED <<txnList, deferred, reported, frame, sync, syncSent, via, server>>

le_msg_CloseSession ==
    /\ ClientRuns /\ state \in {"opening", "open"}
    /\ CloseSession /\ state' = "closed"
    /\ UNCHANGED <<conn, txnList, deferred, reported, frame, sync, syncSent, via, seen,
                   server>>

-----------------------------------------------------------------------------
(* The client: sending.                                                       *)

\* Each message of the model is made once.
Make(r) == via[r] = 0 /\ conn > 0 /\ via' = [via EXCEPT ![r] = conn]

\* Mutant: POLLOUT stays disabled when the socket is full.
MutNotEnabled(q) ==
    IF ServerGone(conn)
    THEN transmitQueue' = q /\ UNCHANGED <<pollOut, txnList, c2s>>
    ELSE LET k == Least(SockCap - Len(c2s[conn]), Len(q))
         IN  /\ c2s' = [c2s EXCEPT ![conn] = @ \o SubSeq(q, 1, k)]
             /\ txnList' = txnList \cup {q[i].id : i \in {j \in 1 .. k : q[j].kind = "req"}}
             /\ transmitQueue' = SubSeq(q, k + 1, Len(q))
             /\ pollOut' = FALSE

\* SendFromTransmitQueue: until the queue is empty, and then POLLOUT is
\* disabled; until the socket is full, and then it is enabled; or until an
\* error, and then the message goes back to the queue.
SendFromTransmitQueue(q) ==
    IF ServerGone(conn)
    THEN transmitQueue' = q /\ UNCHANGED <<pollOut, txnList, c2s>>
    ELSE LET k == Least(SockCap - Len(c2s[conn]), Len(q))
         IN  /\ c2s' = [c2s EXCEPT ![conn] = @ \o SubSeq(q, 1, k)]
             /\ txnList' = txnList \cup {q[i].id : i \in {j \in 1 .. k : q[j].kind = "req"}}
             /\ transmitQueue' = SubSeq(q, k + 1, Len(q))
             /\ pollOut' = (k < Len(q))

\* msgSession_SendMessage: discarded when the session is not open.
le_msg_Send(r) ==
    /\ ClientRuns /\ Make(r)
    /\ IF state = "open"
       THEN SendFromTransmitQueue(Append(transmitQueue, Msg("note", r)))
       ELSE UNCHANGED <<transmitQueue, txnList, pollOut, c2s>>
    /\ UNCHANGED <<state, conn, txnMap, receiveQueue, deferred, reported, frame,
                   sync, syncSent, seen, server, s2c>>

le_msg_RequestResponse(r) ==
    /\ ClientRuns /\ state = "open" /\ Make(r)
    /\ txnMap' = txnMap \cup {r}
    /\ SendFromTransmitQueue(Append(transmitQueue, Msg("req", r)))
    /\ UNCHANGED <<state, conn, receiveQueue, deferred, reported, frame, sync, syncSent, seen,
                   server, s2c>>

\* msgSession_DoSyncRequestResponse: the thread blocks, first in the send,
\* which passes the messages of the transmit queue ...
le_msg_RequestSyncResponse(r) ==
    /\ ClientRuns /\ state = "open" /\ Make(r)
    /\ txnMap' = txnMap \cup {r} /\ sync' = r /\ syncSent' = FALSE
    /\ UNCHANGED <<state, conn, transmitQueue, txnList, receiveQueue, pollOut, deferred,
                   reported, frame, seen, server, c2s, s2c>>

\* ... (nobody looks at its result) ...
SyncSend ==
    /\ sync # NoReq /\ ~syncSent
    /\ ServerGone(conn) \/ Len(c2s[conn]) < SockCap
    /\ c2s' = IF ServerGone(conn) THEN c2s
              ELSE [c2s EXCEPT ![conn] = Append(@, Msg("req", sync))]
    /\ syncSent' = TRUE
    /\ UNCHANGED <<state, conn, txnMap, transmitQueue, txnList, receiveQueue, pollOut,
                   deferred, reported, frame, sync, via, seen, server, s2c>>

\* Mutant: deferred processing is not asked for.
MutNotDeferred(m) ==
    receiveQueue' = Append(receiveQueue, m) /\ UNCHANGED deferred

\* Another message came: it goes to the receive queue and, when that was
\* empty, ProcessDeferredMessages is queued to the event loop.
QueueForLater(m) ==
    /\ deferred' = IF receiveQueue = <<>> THEN deferred + 1 ELSE deferred
    /\ receiveQueue' = Append(receiveQueue, m)

SyncDone == sync' = NoReq /\ syncSent' = FALSE /\ txnMap' = txnMap \ {sync}

\* ... then in the receive, until the response or the end of the connection.
SyncReceive ==
    /\ sync # NoReq /\ syncSent
    /\ \/ /\ s2c[conn] # <<>> /\ s2c' = [s2c EXCEPT ![conn] = Tail(@)]
          /\ IF Head(s2c[conn]) = Msg("rsp", sync)
             THEN SyncDone /\ UNCHANGED <<receiveQueue, deferred>>
             ELSE QueueForLater(Head(s2c[conn])) /\ UNCHANGED <<sync, syncSent, txnMap>>
       \/ /\ s2c[conn] = <<>> /\ ServerGone(conn) /\ SyncDone
          /\ UNCHANGED <<s2c, receiveQueue, deferred>>
    /\ UNCHANGED <<state, conn, transmitQueue, txnList, pollOut, reported, frame, via,
                   seen, server, c2s>>

-----------------------------------------------------------------------------
(* The client: events.                                                        *)

EventLoop == ClientRuns /\ frame = "idle"

\* epoll_wait reports what is true now; the handler is queued and runs later,
\* after other functions of the thread.
Poll ==
    /\ EventLoop /\ reported = NoEvents /\ state \in {"opening", "open"}
    /\ LET e == [mon |-> conn,
                 in |-> s2c[conn] # <<>> \/ ServerGone(conn),
                 hup |-> ServerGone(conn),
                 out |-> pollOut /\ Len(c2s[conn]) < SockCap]
       IN  (e.in \/ e.hup \/ e.out) /\ reported' = e
    /\ UNCHANGED <<state, conn, txnMap, transmitQueue, txnList, receiveQueue, pollOut,
                   deferred, frame, sync, syncSent, via, seen, server, c2s, s2c>>

\* DispatchToHandler finds the monitor deleted.
Discard ==
    /\ EventLoop /\ reported # NoEvents
    /\ reported.mon # conn \/ state = "closed"
    /\ reported' = NoEvents
    /\ UNCHANGED <<state, conn, txnMap, transmitQueue, txnList, receiveQueue, pollOut,
                   deferred, frame, sync, syncSent, via, seen, server, c2s, s2c>>

\* It finds it, and drops an event that was disabled meanwhile.
Dispatched ==
    /\ EventLoop /\ reported.mon = conn /\ state \in {"opening", "open"}
    /\ reported' = [reported EXCEPT !.out = @ /\ pollOut]

\* ClientSocketReadable, session open: ReceiveMessages, then the loop of
\* ProcessReceivedMessages.
ClientSocketReadable ==
    /\ Dispatched /\ reported.in /\ state = "open"
    /\ receiveQueue' = receiveQueue \o s2c[conn]
    /\ s2c' = [s2c EXCEPT ![conn] = <<>>]
    /\ frame' = "loop"
    /\ UNCHANGED <<state, conn, txnMap, transmitQueue, txnList, pollOut, deferred,
                   sync, syncSent, via, seen, server, c2s>>

\* ... and while it opens: the answer of the server, or RetryOpen.
ReceiveSessionOpenResponse ==
    /\ Dispatched /\ reported.in /\ state = "opening"
    /\ \/ /\ s2c[conn] # <<>> /\ s2c' = [s2c EXCEPT ![conn] = Tail(@)]
          /\ state' = "open"
          /\ UNCHANGED <<conn, txnMap, transmitQueue, receiveQueue, pollOut, seen, c2s>>
       \/ /\ s2c[conn] = <<>>
          /\ CloseSession /\ StartSessionOpenAttempt("opening")
    /\ frame' = "after"
    /\ UNCHANGED <<txnList, deferred, sync, syncSent, via, server>>

NothingToRead ==
    /\ Dispatched /\ ~reported.in /\ frame' = "after"
    /\ UNCHANGED <<state, conn, txnMap, transmitQueue, txnList, receiveQueue, pollOut,
                   deferred, sync, syncSent, via, seen, server, c2s, s2c>>

\* The queued call.  It may find the session closed, or open again.
ProcessDeferredMessages ==
    /\ EventLoop /\ deferred > 0
    /\ deferred' = deferred - 1 /\ frame' = "deferred"
    /\ UNCHANGED <<state, conn, txnMap, transmitQueue, txnList, receiveQueue, pollOut,
                   reported, sync, syncSent, via, seen, server, c2s, s2c>>

\* ProcessMessageFromServer: a response whose request is known ends it,
\* anything else goes to the receive handler.
ProcessMessageFromServer(m) ==
    /\ IF m.kind = "rsp" /\ m.id \in txnMap
       THEN txnMap' = txnMap \ {m.id} /\ txnList' = txnList \ {m.id}
       ELSE UNCHANGED <<txnMap, txnList>>
    /\ seen' = IF m.kind = "ind" THEN m.id ELSE seen

ProcessReceivedMessages ==
    /\ ClientRuns /\ frame \in {"loop", "deferred"} /\ receiveQueue # <<>>
    /\ ProcessMessageFromServer(Head(receiveQueue))
    /\ receiveQueue' = Tail(receiveQueue)
    /\ UNCHANGED <<state, conn, transmitQueue, pollOut, deferred, reported, frame, sync, syncSent,
                   via, server, c2s, s2c>>

LoopEnds ==
    /\ ClientRuns /\ frame \in {"loop", "deferred"} /\ receiveQueue = <<>>
    /\ frame' = IF frame = "loop" THEN "after" ELSE "idle"
    /\ UNCHANGED <<state, conn, txnMap, transmitQueue, txnList, receiveQueue, pollOut,
                   deferred, reported, sync, syncSent, via, seen, server, c2s, s2c>>

\* ClientSocketHangUp: the handler of POLLIN ran before it, and may have left
\* the session closed or opening again.  The client has a close handler.
ClientSocketHangUp ==
    /\ ClientRuns /\ frame = "after" /\ reported.hup
    /\ CASE state = "opening" ->
                CloseSession /\ StartSessionOpenAttempt("opening")
         [] state = "open" ->
                CloseSession /\ state' = "closed" /\ UNCHANGED <<conn, seen>>
         [] state = "closed" ->
                /\ state' = "dead"
                /\ UNCHANGED <<conn, txnMap, transmitQueue, receiveQueue, pollOut, seen,
                               c2s, s2c>>
    /\ frame' = "idle" /\ reported' = NoEvents
    /\ UNCHANGED <<txnList, deferred, sync, syncSent, via, server>>

\* ClientSocketWriteable, or nothing more to do.
ClientSocketWriteable ==
    /\ ClientRuns /\ frame = "after" /\ ~reported.hup
    /\ IF reported.out /\ state = "open"
       THEN SendFromTransmitQueue(transmitQueue)
       ELSE UNCHANGED <<transmitQueue, txnList, pollOut, c2s>>
    /\ state' = IF reported.out /\ state = "closed" THEN "dead" ELSE state
    /\ frame' = "idle" /\ reported' = NoEvents
    /\ UNCHANGED <<conn, txnMap, receiveQueue, deferred, sync, syncSent, via, seen, server,
                   s2c>>

-----------------------------------------------------------------------------
(* The server.                                                                *)

\* The Service Directory hands the connection over: the server's session object
\* is created and the client told (msgSession_CreateServerSideSession).  A
\* client that has gone meanwhile is found out by the next event.
CreateServerSideSession(c) ==
    /\ c <= conn /\ srv[c].state = "none" /\ sFrame = 0
    /\ IF ClientGone(c)
       THEN srv' = [srv EXCEPT ![c] = ClosedSession] /\ UNCHANGED s2c
       ELSE /\ srv' = [srv EXCEPT ![c].state = "open"]
            /\ s2c' = [s2c EXCEPT ![c] = <<Msg("hello", 0)>>]
    /\ UNCHANGED <<client, held, sFrame, c2s>>

\* The connection is closed before (the server ended while it was waiting).
RefuseConnection(c) ==
    /\ c <= conn /\ srv[c].state = "none"
    /\ srv' = [srv EXCEPT ![c] = ClosedSession]
    /\ UNCHANGED <<client, held, sFrame, c2s, s2c>>

\* DeleteSession on the server side.
DeleteSession(c) ==
    srv' = [srv EXCEPT ![c] = ClosedSession] /\ CloseSocket(c, c2s, s2c)

\* Mutant: the message that found no room goes back to the tail of the queue.
MutUnPopAtTail(c, q, n) ==
    IF ClientGone(c)
    THEN srv' = [srv EXCEPT ![c].tq = q, ![c].inds = n] /\ UNCHANGED s2c
    ELSE LET k == Least(SockCap - Len(s2c[c]), Len(q))
         IN  /\ s2c' = [s2c EXCEPT ![c] = @ \o SubSeq(q, 1, k)]
             /\ srv' = [srv EXCEPT ![c].tq = SubSeq(q, k + 2, Len(q)) \o SubSeq(q, k + 1, Least(k + 1, Len(q))),
                                   ![c].pollOut = k < Len(q), ![c].inds = n]

\* The same SendFromTransmitQueue, on the server side.
SendToClient(c, q, n) ==
    IF ClientGone(c)
    THEN srv' = [srv EXCEPT ![c].tq = q, ![c].inds = n] /\ UNCHANGED s2c
    ELSE LET k == Least(SockCap - Len(s2c[c]), Len(q))
         IN  /\ s2c' = [s2c EXCEPT ![c] = @ \o SubSeq(q, 1, k)]
             /\ srv' = [srv EXCEPT ![c].tq = SubSeq(q, k + 1, Len(q)),
                                   ![c].pollOut = k < Len(q), ![c].inds = n]

\* ServerSocketReadable: ReceiveMessages, then ProcessReceivedMessages.
ServerSocketReadable(c) ==
    /\ sFrame = 0 /\ srv[c].state = "open" /\ c2s[c] # <<>>
    /\ srv' = [srv EXCEPT ![c].rq = @ \o c2s[c]]
    /\ c2s' = [c2s EXCEPT ![c] = <<>>]
    /\ sFrame' = c
    /\ UNCHANGED <<client, held, s2c>>

\* The receive handler of the service gets the message: it keeps a request and
\* releases anything else.
ProcessMessageFromClient ==
    /\ sFrame # 0 /\ srv[sFrame].rq # <<>>
    /\ LET m == Head(srv[sFrame].rq)
       IN  held' = IF m.kind = "req" THEN held \cup {[id |-> m.id, c |-> sFrame]} ELSE held
    /\ srv' = [srv EXCEPT ![sFrame].rq = Tail(@)]
    /\ UNCHANGED <<client, sFrame, c2s, s2c>>

\* The end of the loop, and ServerSocketHangUp when the same poll reported that
\* the client has gone: the process stops when its code closed the session.
ServerCrash ==
    /\ \E c \in Conns : srv[c].state = "open"
    /\ srv' = [c \in Conns |-> IF srv[c].state = "open" THEN ClosedSession ELSE srv[c]]
    /\ c2s' = [c \in Conns |-> IF srv[c].state = "open" THEN <<>> ELSE c2s[c]]
    /\ held' = {} /\ sFrame' = 0
    /\ \/ UNCHANGED s2c
       \/ s2c' = [c \in Conns |-> IF srv[c].state = "open" /\ c2s[c] # <<>> THEN <<>>
                                  ELSE s2c[c]]
    /\ UNCHANGED client

ServerLoopEnds ==
    /\ sFrame # 0 /\ srv[sFrame].rq = <<>>
    /\ \/ sFrame' = 0 /\ UNCHANGED <<client, srv, held, c2s, s2c>>
       \/ /\ ClientGone(sFrame) /\ srv[sFrame].state = "open"
          /\ DeleteSession(sFrame) /\ sFrame' = 0 /\ UNCHANGED <<client, held>>
       \/ /\ ClientGone(sFrame) /\ srv[sFrame].state # "open"
          /\ ServerCrash

ServerSocketHangUp(c) ==
    /\ sFrame = 0 /\ srv[c].state = "open" /\ c2s[c] = <<>> /\ ClientGone(c)
    /\ DeleteSession(c)
    /\ UNCHANGED <<client, held, sFrame>>

ServerSocketWriteable(c) ==
    /\ sFrame = 0 /\ srv[c].state = "open" /\ srv[c].pollOut /\ Len(s2c[c]) < SockCap
    /\ SendToClient(c, srv[c].tq, srv[c].inds)
    /\ UNCHANGED <<client, held, sFrame, c2s>>

\* le_msg_Respond: discarded when the session is not open.
le_msg_Respond(h) ==
    /\ h \in held /\ held' = held \ {h}
    /\ IF srv[h.c].state = "open"
       THEN SendToClient(h.c, Append(srv[h.c].tq, Msg("rsp", h.id)), srv[h.c].inds)
       ELSE UNCHANGED <<srv, s2c>>
    /\ UNCHANGED <<client, sFrame, c2s>>

\* Mutant: a request that is released leaves the session open.
MutReleaseQuietly(h) ==
    /\ h \in held /\ held' = held \ {h}
    /\ UNCHANGED <<srv, s2c, client, sFrame, c2s>>

\* MessageDestructor: a request that is released without a response closes the
\* session.
le_msg_ReleaseMsg(h) ==
    /\ h \in held /\ held' = held \ {h}
    /\ IF srv[h.c].state = "open" THEN DeleteSession(h.c) ELSE UNCHANGED <<srv, c2s, s2c>>
    /\ UNCHANGED <<client, sFrame>>

\* The server sends an indication, or closes the session.
SendIndication(c) ==
    /\ srv[c].state = "open" /\ srv[c].inds < MaxInd
    /\ SendToClient(c, Append(srv[c].tq, Msg("ind", srv[c].inds + 1)), srv[c].inds + 1)
    /\ UNCHANGED <<client, held, sFrame, c2s>>

ServerCloseSession(c) ==
    /\ srv[c].state = "open" /\ DeleteSession(c)
    /\ UNCHANGED <<client, held, sFrame>>

-----------------------------------------------------------------------------
ClientApp ==
    \/ le_msg_OpenSession \/ le_msg_OpenSessionSync \/ le_msg_CloseSession
    \/ \E r \in Reqs : le_msg_Send(r) \/ le_msg_RequestResponse(r)
                       \/ le_msg_RequestSyncResponse(r)

\* What the client's thread does by itself.
ClientThread ==
    \/ AttemptOpenSync \/ SyncSend \/ SyncReceive
    \/ Poll \/ Discard \/ ClientSocketReadable \/ ReceiveSessionOpenResponse
    \/ NothingToRead \/ ProcessReceivedMessages \/ LoopEnds
    \/ ClientSocketHangUp \/ ClientSocketWriteable

ServerThread ==
    \/ ProcessMessageFromClient \/ ServerLoopEnds
    \/ \E c \in Conns : CreateServerSideSession(c) \/ ServerSocketReadable(c)
                        \/ ServerSocketHangUp(c) \/ ServerSocketWriteable(c)

ServerApp ==
    \/ \E h \in held : le_msg_ReleaseMsg(h)
    \/ \E c \in Conns : SendIndication(c) \/ ServerCloseSession(c)

MsgNext ==
    \/ ClientApp \/ ClientThread \/ ProcessDeferredMessages
    \/ ServerThread \/ ServerApp \/ (\E h \in held : le_msg_Respond(h))
    \/ ServerCrash \/ \E c \in Conns : RefuseConnection(c)

MsgSpec == MsgInit /\ [][MsgNext]_vars

\* Both threads run, the event loop comes to a queued function (they are queued
\* in order), and the server answers each request (le_messaging.h:447: "the
\* server must eventually respond").
MsgFairSpec ==
    /\ MsgSpec
    /\ WF_vars(ClientThread) /\ SF_vars(ProcessDeferredMessages) /\ WF_vars(ServerThread)
    /\ \A r \in Reqs : \A c \in Conns : WF_vars(le_msg_Respond([id |-> r, c |-> c]))

-----------------------------------------------------------------------------
(* Properties                                                                 *)

\* Type correctness of the session on both sides and of the two sockets.
MsgType ==
    /\ state \in {"closed", "opening", "opensync", "open", "dead"} /\ conn \in 0 .. MaxConn
    /\ txnMap \subseteq Reqs /\ txnList \subseteq Reqs
    /\ transmitQueue \in Seq(ToServer) /\ receiveQueue \in Seq(ToClient)
    /\ pollOut \in BOOLEAN /\ deferred \in Nat /\ reported \in Events
    /\ frame \in {"idle", "loop", "deferred", "after"}
    /\ sync \in Reqs \cup {NoReq} /\ syncSent \in BOOLEAN
    /\ srv \in [Conns -> Session] /\ held \subseteq [id : Reqs, c : Conns]
    /\ sFrame \in 0 .. MaxConn
    /\ c2s \in [Conns -> Seq(ToServer)] /\ s2c \in [Conns -> Seq(ToClient)]
    /\ via \in [Reqs -> 0 .. MaxConn] /\ seen \in 0 .. MaxInd

\* Messages that wait in the receive queue will be processed: the loop is at
\* it, or a deferred call is queued (messagingSession.c:1686).
ReceiveQueueWatched ==
    receiveQueue # <<>> => frame \in {"loop", "deferred"} \/ deferred > 0

\* Messages that wait in a transmit queue will be sent when there is room, or
\* end with the session: POLLOUT is enabled, unless the other side has gone
\* (messagingSession.c:1012).
TransmitQueueWatched ==
    /\ transmitQueue # <<>> => pollOut \/ ServerGone(conn)
    /\ \A c \in Conns : srv[c].tq # <<>> => srv[c].pollOut \/ ClientGone(c)

Has(q, m) == {i \in DOMAIN q : q[i] = m}

\* A request of the client that is not completed, on a session that neither
\* side has closed, is in exactly one place: it is never lost and never there
\* twice, so that it is completed once.
RequestInOnePlace ==
    \A r \in txnMap :
        via[r] = conn /\ state = "open" /\ ~ServerGone(conn) =>
            Cardinality(Has(transmitQueue, Msg("req", r)))
            + Cardinality(Has(c2s[conn], Msg("req", r)))
            + Cardinality(Has(srv[conn].rq, Msg("req", r)))
            + Cardinality({h \in held : h.id = r})
            + Cardinality(Has(srv[conn].tq, Msg("rsp", r)))
            + Cardinality(Has(s2c[conn], Msg("rsp", r)))
            + Cardinality(Has(receiveQueue, Msg("rsp", r)))
            + (IF sync = r /\ ~syncSent THEN 1 ELSE 0) = 1

\* The number of indications up to the i-th message of q.
Indications(q, i) == Cardinality({j \in 1 .. i : q[j].kind = "ind"})

\* Indications are processed in the order they were sent, although some are
\* put aside by a blocking request: what is under way comes after what was
\* processed, in order.
IndicationsInOrder ==
    state = "open" =>
        LET q == receiveQueue \o s2c[conn] \o srv[conn].tq
        IN  \A i \in DOMAIN q : q[i].kind = "ind" => q[i].id = seen + Indications(q, i)

\* A request is completed, or its session ends.
RequestsComplete ==
    \A r \in Reqs :
        (r \in txnMap /\ state = "open" /\ via[r] = conn)
            ~> (r \notin txnMap \/ state # "open" \/ via[r] # conn)

\* messagingMessage.c:658: the callback is "to be called when the response
\* arrives or the transaction terminates without a response (due to the
\* session terminating ...)".  A request that was sent stays in the
\* transaction list of the client when the session closes.
RequestEndsWithSession == state = "closed" => txnMap = {}

=============================================================================
