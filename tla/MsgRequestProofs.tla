-------------------------- MODULE MsgRequestProofs --------------------------
(***************************************************************************)
(* Proofs about the requests of a session, for any messages, any number of *)
(* connections and any size of the sockets: the steps of the client and of *)
(* the server keep a request that is not completed in exactly one place.   *)
(***************************************************************************)
EXTENDS MsgSessionProofs

-----------------------------------------------------------------------------
(* The steps of the client and of the server.                             *)

\* A blocking request starts, and is sent past the transmit queue.
LEMMA PlaceSync ==
    ASSUME Counting, MsgInv, PlaceInv, OnePlace,
           SyncSend \/ \E r \in Reqs : le_msg_RequestSyncResponse(r)
    PROVE  PlaceInv' /\ OnePlace'
<1>0. /\ UNCHANGED <<state, conn, transmitQueue, receiveQueue, held, srv, s2c>>
      /\ state = "open" /\ Live
    BY Zenon DEF SyncSend, le_msg_RequestSyncResponse, server, MsgInv, ClientInv, Live
<1>1. conn \in Conns /\ txnMap \subseteq Reqs BY Zenon, <1>0, QueueTypes DEF QueueType, MsgInv, ClientType
<1>2. Coming' = Coming BY Zenon, <1>0 DEF Coming, Down
<1>3. ASSUME NEW r \in Reqs, le_msg_RequestSyncResponse(r) PROVE PlaceInv' /\ OnePlace'
    <2>0. /\ Make(r) /\ txnMap' = txnMap \cup {r} /\ sync' = r /\ ~syncSent' /\ sync = NoReq
          /\ UNCHANGED c2s
        BY Zenon, <1>3 DEF le_msg_RequestSyncResponse, ClientRuns
    <2>1. /\ MadeBy(via') /\ via'[r] = conn /\ r \notin txnMap /\ conn # 0 /\ Nowhere(r)
          /\ Times(transmitQueue, Msg("req", r)) = 0
          /\ \A s \in Reqs : via'[s] <= conn /\ (s # r => via'[s] = via[s])
        BY Zenon, <1>0, <2>0, NewMessage DEF Nowhere
    <2>2. \A s \in txnMap' : via'[s] # 0 /\ (s # r => s \in txnMap /\ via'[s] = via[s])
        BY Zenon, <1>1, <2>0, <2>1 DEF PlaceInv
    <2>3. MadeBy(via)' BY Zenon, <1>0, <1>2, <2>0, <2>1 DEF MadeBy, MadeFor
    <2>4. PlaceInv' BY Zenon, <1>0, <2>1, <2>2, <2>3 DEF PlaceInv
    <2>5. ASSUME NEW s \in txnMap', Here(s)' PROVE Places(s)' = 1
        <3> DEFINE rq == Msg("req", s)
                   rs == Msg("rsp", s)
        <3>1. via'[s] = conn /\ ~ServerGone(conn) BY Zenon, <1>0, <2>5 DEF Here, ServerGone
        <3>2. Places(s)' = Times(transmitQueue, rq) + Times(c2s[conn], rq)
                           + Times(srv[conn].rq, rq) + Waiting(s)' + Times(Coming, rs)
                           + Blocked(s)'
            BY Zenon, <1>0, <1>2, <2>0 DEF Places, Times, Has
        <3>3. Waiting(s)' = IF [id |-> s, c |-> conn] \in held THEN 1 ELSE 0
            BY Zenon, <1>0, <3>1 DEF Waiting
        <3>4. CASE s = r
            <4>1. Waiting(s)' = 0 /\ Blocked(s)' = 1
                BY Zenon, <2>0, <2>1, <3>3, <3>4 DEF Nowhere, Blocked
            <4> QED BY <2>1, <3>2, <3>4, <4>1 DEF Nowhere
        <3>5. CASE s # r
            <4>1. s \in txnMap /\ via[s] = conn /\ Here(s) BY Zenon, <1>0, <2>2, <3>1, <3>5 DEF Here
            <4>2. Waiting(s)' = Waiting(s) BY Zenon, <3>3, <4>1 DEF Waiting
            <4>3. Blocked(s)' = 0 /\ Blocked(s) = 0
                BY Zenon, <1>1, <2>0, <3>5, <4>1, MsgConstants DEF Blocked
            <4>4. Places(s)' = Places(s) BY Zenon, <3>2, <4>2, <4>3 DEF Places
            <4> QED BY Zenon, <4>1, <4>4 DEF OnePlace
        <3> QED BY Zenon, <3>4, <3>5
    <2> QED BY Zenon, <2>4, <2>5 DEF OnePlace
<1>4. CASE SyncSend
    <2>0. /\ sync \in Reqs /\ ~syncSent /\ syncSent' /\ via[sync] = conn
          /\ UNCHANGED <<txnMap, sync, via>>
        BY Zenon, <1>4 DEF SyncSend, MsgInv, ClientType, PlaceInv, MadeBy
    <2>1. CASE ServerGone(conn)
        <3>1. c2s' = c2s BY Zenon, <1>4, <2>1 DEF SyncSend
        <3>2. MadeBy(via)' BY Zenon, <1>0, <1>2, <2>0, <3>1 DEF PlaceInv, MadeBy, MadeFor
        <3>3. PlaceInv' BY Zenon, <1>0, <2>0, <3>2 DEF PlaceInv
        <3>4. OnePlace' BY Zenon, <1>0, <2>1 DEF OnePlace, Here, ServerGone
        <3> QED BY Zenon, <3>3, <3>4
    <2>2. CASE ~ServerGone(conn)
        <3> DEFINE m == Msg("req", sync)
                   q == Append(c2s[conn], m)
        <3>1. c2s' = [c2s EXCEPT ![conn] = q] BY Zenon, <1>4, <2>2 DEF SyncSend
        <3>2. /\ m \in ToServer /\ m.kind = "req" /\ m.id = sync
              /\ \A s : m = Msg("req", s) <=> s = sync
            BY Zenon, <2>0 DEF Msg, ToServer
        <3>3. c2s[conn] \in Seq(ToServer) /\ MadeFor(c2s[conn], via, conn)
            BY Zenon, <1>1, QueueTypes DEF QueueType, PlaceInv, MadeBy
        <3> HIDE DEF m
        <3>4. /\ \A x : /\ Times(c2s[conn], x) \in Nat
                        /\ Times(q, x) = Times(c2s[conn], x) + (IF m = x THEN 1 ELSE 0)
              /\ MadeFor(q, via, conn)
            BY <2>0, <3>2, <3>3, OneMore
        <3> HIDE DEF q
        <3>5. c2s'[conn] = q /\ \A d \in Conns : d # conn => c2s'[d] = c2s[d]
            BY Zenon, <1>1, <3>1 DEF MsgInv, ServerType
        <3>6. \A c \in Conns : MadeFor(c2s'[c], via', c) /\ MadeFor(srv'[c].rq, via', c)
            <4> TAKE c \in Conns
            <4>1. CASE c = conn BY Zenon, <1>0, <2>0, <3>4, <3>5, <4>1 DEF PlaceInv, MadeBy
            <4>2. CASE c # conn BY Zenon, <1>0, <2>0, <3>5, <4>2 DEF PlaceInv, MadeBy
            <4> QED BY Zenon, <4>1, <4>2
        <3>7. MadeFor(transmitQueue', via', conn') /\ MadeFor(Coming', via', conn')
            BY Zenon, <1>0, <1>2, <2>0 DEF PlaceInv, MadeBy
        <3>8. MadeBy(via)' BY Zenon, <1>0, <2>0, <3>6, <3>7 DEF PlaceInv, MadeBy, MadeFor
        <3>9. PlaceInv' BY Zenon, <1>0, <2>0, <3>8 DEF PlaceInv
        <3>10. ASSUME NEW s \in txnMap', Here(s)' PROVE Places(s)' = 1
            <4> DEFINE rq == Msg("req", s)
                       rs == Msg("rsp", s)
            <4>1. Here(s) /\ s \in txnMap BY Zenon, <1>0, <2>0, <3>10 DEF Here, ServerGone
            <4>2. Waiting(s)' = Waiting(s) BY Zenon, <1>0, <2>0 DEF Waiting
            <4>3. Blocked(s)' = 0 /\ Blocked(s) = IF s = sync THEN 1 ELSE 0
                BY Zenon, <2>0 DEF Blocked
            <4>4. Places(s)' = Times(transmitQueue, rq) + Times(q, rq)
                               + Times(srv[conn].rq, rq) + Waiting(s) + Times(Coming, rs)
                               + Blocked(s)'
                BY Zenon, <1>0, <1>2, <3>5, <4>2 DEF Places, Times, Has
            <4>5. Places(s) = Times(transmitQueue, rq) + Times(c2s[conn], rq)
                              + Times(srv[conn].rq, rq) + Waiting(s) + Times(Coming, rs)
                              + Blocked(s)
                BY Zenon DEF Places
            <4>6. /\ Times(transmitQueue, rq) \in Nat /\ Times(c2s[conn], rq) \in Nat
                  /\ Times(srv[conn].rq, rq) \in Nat /\ Times(Coming, rs) \in Nat
                  /\ Waiting(s) \in {0, 1}
                BY Zenon, <1>0, PlaceNumbers
            <4>7. Times(q, rq) = Times(c2s[conn], rq) + (IF s = sync THEN 1 ELSE 0)
                BY Zenon, <3>2, <3>4
            <4>8. Places(s) = 1 BY Zenon, <4>1 DEF OnePlace
            <4> HIDE DEF rq, rs
            <4>9. CASE s = sync BY <4>3, <4>4, <4>5, <4>6, <4>7, <4>8, <4>9
            <4>10. CASE s # sync BY <4>3, <4>4, <4>5, <4>6, <4>7, <4>8, <4>10
            <4> QED BY Zenon, <4>9, <4>10
        <3> QED BY Zenon, <3>9, <3>10 DEF OnePlace
    <2> QED BY Zenon, <2>1, <2>2
<1> QED BY Zenon, <1>3, <1>4

\* The client takes a message from what is on its way.
LEMMA PlaceTakes ==
    ASSUME Counting, MsgInv, PlaceInv, OnePlace, UNCHANGED <<conn, transmitQueue, via, held, c2s, srv>>,
           Live, state' = "open", txnMap' \subseteq txnMap, sync' \in {sync, NoReq},
           MadeFor(Coming', via, conn),
           \A s \in txnMap' : via[s] = conn =>
               /\ state = "open" /\ Times(Coming', Msg("rsp", s)) = Times(Coming, Msg("rsp", s))
               /\ Blocked(s)' = Blocked(s)
    PROVE  PlaceInv' /\ OnePlace'
<1>1. MadeBy(via)'
    <2>1. MadeFor(Coming', via', conn') BY Zenon
    <2>2. sync' # NoReq => via'[sync'] = conn' BY Zenon DEF PlaceInv, MadeBy
    <2> QED BY Zenon, <2>1, <2>2 DEF PlaceInv, MadeBy, MadeFor
<1>2. PlaceInv' BY Zenon, <1>1 DEF PlaceInv
<1>3. ASSUME NEW s \in txnMap', Here(s)' PROVE Places(s)' = 1
    <2> DEFINE rs == Msg("rsp", s)
    <2>1. via[s] = conn /\ ~ServerGone(conn) /\ s \in txnMap BY Zenon, <1>3 DEF Here, ServerGone
    <2>2. /\ state = "open" /\ Times(Coming', rs) = Times(Coming, rs)
          /\ Blocked(s)' = Blocked(s)
        BY Zenon, <2>1
    <2>3. Here(s) BY Zenon, <2>1, <2>2 DEF Here
    <2>4. Waiting(s)' = Waiting(s) BY Zenon DEF Waiting
    <2>5. Places(s)' = Times(transmitQueue, Msg("req", s)) + Times(c2s[conn], Msg("req", s))
                       + Times(srv[conn].rq, Msg("req", s)) + Waiting(s) + Times(Coming', rs)
                       + Blocked(s)
        BY Zenon, <2>2, <2>4 DEF Places, Times, Has
    <2>6. Places(s)' = Places(s) BY Zenon, <2>2, <2>5 DEF Places
    <2> QED BY Zenon, <2>1, <2>3, <2>6 DEF OnePlace
<1> QED BY Zenon, <1>2, <1>3 DEF OnePlace

\* The steps of the client that take messages.
LEMMA PlaceReceives ==
    ASSUME Counting, MsgInv, MsgInv', PlaceInv, OnePlace,
           \/ AttemptOpenSync \/ ReceiveSessionOpenResponse
           \/ SyncReceive \/ ClientSocketReadable \/ ProcessReceivedMessages
    PROVE  PlaceInv' /\ OnePlace'
<1>0. Live /\ conn \in Conns /\ UNCHANGED <<via, srv, held>> /\ receiveQueue \in Seq(ToClient)
    BY DEF AttemptOpenSync, ReceiveSessionOpenResponse, SyncReceive, ClientSocketReadable,
       ProcessReceivedMessages, MsgInv, ClientType, ClientInv, Conns, Live, server
<1>m. MadeFor(Coming, via, conn) /\ txnMap \subseteq Reqs
    BY Zenon, <1>0 DEF PlaceInv, MadeBy, MsgInv, ClientType
<1>1. CASE AttemptOpenSync \/ ReceiveSessionOpenResponse
    <2>1. /\ state \in {"opening", "opensync"} /\ receiveQueue = <<>> /\ sync = NoReq
          /\ sync' = sync
        BY Zenon, <1>1 DEF AttemptOpenSync, ReceiveSessionOpenResponse, MsgInv, ClientInv
    <2>2. CASE /\ s2c[conn] # <<>> /\ s2c' = [s2c EXCEPT ![conn] = Tail(@)] /\ state' = "open"
               /\ UNCHANGED <<conn, txnMap, transmitQueue, receiveQueue, c2s>>
        <3>1. PICK m \in ToClient : /\ <<m>> \in Seq(ToClient) /\ Down(conn)' \in Seq(ToClient)
                                    /\ Down(conn) = <<m>> \o Down(conn)'
            BY Zenon, <1>0, <2>2, SocketHead
        <3>2. Coming = Down(conn) BY Zenon, <1>0, <2>1, OnlyDown
        <3>3. Coming' = Down(conn)'
            <4>1. PICK d \in Seq(ToClient) : d = Down(conn)' BY Zenon, <3>1
            <4>2. <<>> \o d = d BY Zenon, NothingAdded
            <4>3. Coming' = <<>> \o Down(conn)' BY Zenon, <2>1, <2>2 DEF Coming, Down
            <4> QED BY Zenon, <4>1, <4>2, <4>3
        <3>4. MadeFor(Coming', via, conn)
            <4> DEFINE one == <<m>>
                       d == Down(conn)'
            <4>1. one \in Seq(ToClient) /\ d \in Seq(ToClient) /\ MadeFor(one \o d, via, conn)
                BY Zenon, <1>m, <3>1, <3>2
            <4> HIDE DEF one, d
            <4>2. MadeFor(d, via, conn) BY Zenon, <4>1, MadeForConcat
            <4> QED BY Zenon, <3>3, <4>2 DEF d
        <3>5. \A s \in txnMap' : via[s] # conn BY Zenon, <2>1, <2>2 DEF PlaceInv
        <3> QED BY Zenon, <1>0, <2>1, <2>2, <3>4, <3>5, PlaceTakes
    <2>3. CASE CloseSession /\ \E as \in {"opening", "opensync"} : StartSessionOpenAttempt(as)
        <3>1. /\ transmitQueue' = <<>> /\ receiveQueue' = <<>> /\ txnMap' \subseteq txnMap
              /\ s2c' = [s2c EXCEPT ![conn] = <<>>]
              /\ c2s' = c2s \/ c2s' = [c2s EXCEPT ![conn] = <<>>]
            BY Zenon, <2>3 DEF CloseSession, CloseSocket
        <3>2. /\ \A c \in Conns : c2s'[c] = c2s[c] \/ c2s'[c] = <<>>
              /\ \A c \in Conns : s2c[c] = <<>> => s2c'[c] = <<>>
            BY Zenon, <3>1 DEF MsgInv, ServerType
        <3>3. \/ conn' = conn /\ state' \in {"closed", "dead"}
              \/ conn < MaxConn /\ conn' = conn + 1 /\ state' \in {"opening", "opensync"}
            BY Zenon, <2>3 DEF StartSessionOpenAttempt
        <3> QED BY Zenon, <1>0, <2>1, <3>1, <3>2, <3>3, PlaceShuts
    <2> QED BY Zenon, <1>1, <2>2, <2>3 DEF AttemptOpenSync, ReceiveSessionOpenResponse
<1>2. CASE ClientSocketReadable
    <2>1. Coming' = Coming BY Zenon, <1>2, AllReceived
    <2>2. UNCHANGED <<conn, txnMap, transmitQueue, via, held, sync, syncSent, c2s, state>>
        BY Zenon, <1>0, <1>2 DEF ClientSocketReadable
    <2> QED BY Zenon, <1>0, <2>1, <2>2, PlaceStill
<1>3. CASE SyncReceive
    <2>0. /\ UNCHANGED <<state, conn, transmitQueue, via, held, c2s>> /\ state = "open"
          /\ sync \in Reqs /\ syncSent
        BY Zenon, <1>0, <1>3 DEF SyncReceive, server, MsgInv, ClientInv, ClientType
    <2>1. CASE s2c[conn] # <<>> /\ s2c' = [s2c EXCEPT ![conn] = Tail(@)]
        <3> DEFINE m == Head(s2c[conn])
                   one == <<m>>
                   d == Down(conn)'
        <3>1. /\ m \in ToClient /\ one \in Seq(ToClient) /\ d \in Seq(ToClient)
              /\ Down(conn) = one \o d
            BY Zenon, <1>0, <2>0, <2>1, SocketHead
        <3>2. CASE QueueForLater(m) /\ UNCHANGED <<sync, syncSent, txnMap>>
            <4>1. receiveQueue' = Append(receiveQueue, Head(s2c[conn]))
                BY Zenon, <3>2 DEF QueueForLater
            <4>2. Coming' = Coming BY Zenon, <1>0, <2>0, <2>1, <4>1, PutAside
            <4> QED BY Zenon, <1>0, <2>0, <3>2, <4>2, PlaceStill
        <3>3. CASE m = Msg("rsp", sync) /\ SyncDone /\ UNCHANGED receiveQueue
            <4>1. sync' = NoReq /\ txnMap' = txnMap \ {sync} BY Zenon, <3>3 DEF SyncDone
            <4>2. \A s : s # sync => m # Msg("rsp", s) BY <3>3 DEF Msg
            <4>3. Coming' = receiveQueue \o d BY Zenon, <2>0, <3>3 DEF Coming, Down
            <4>4. Coming = receiveQueue \o (one \o d) BY Zenon, <3>1 DEF Coming
            <4>5. \A x : Times(one, x) = IF m = x THEN 1 ELSE 0 BY Zenon, TimesOfOne
            <4> HIDE DEF m, one, d
            <4>6. one \o d \in Seq(ToClient) BY Zenon, <3>1, ConcatProperties
            <4>7. \A x : /\ Times(d, x) \in Nat /\ Times(one \o d, x) = Times(one, x) + Times(d, x)
                BY Zenon, <3>1, TimesConcat
            <4>8. \A x : /\ Times(receiveQueue, x) \in Nat
                         /\ Times(Coming', x) = Times(receiveQueue, x) + Times(d, x)
                BY Zenon, <1>0, <3>1, <4>3, TimesConcat
            <4>9. \A x : Times(Coming, x) = Times(receiveQueue, x) + Times(one \o d, x)
                BY ZenonT(40), <1>0, <4>4, <4>6, TimesConcat
            <4>10. \A x : x # m => Times(Coming', x) = Times(Coming, x)
                BY <4>5, <4>7, <4>8, <4>9
            <4>11. MadeFor(receiveQueue, via, conn) /\ MadeFor(d, via, conn)
                <5>1. MadeFor(receiveQueue, via, conn) /\ MadeFor(one \o d, via, conn)
                    BY Zenon, <1>0, <1>m, <4>4, <4>6, MadeForConcat
                <5> QED BY Zenon, <3>1, <5>1, MadeForConcat
            <4>12. MadeFor(Coming', via, conn) BY Zenon, <1>0, <3>1, <4>3, <4>11, MadeForConcat
            <4>13. \A s \in txnMap' : s # sync /\ s # NoReq
                BY Zenon, <1>m, <4>1, MsgConstants
            <4>14. \A s \in txnMap' : Blocked(s)' = 0 /\ Blocked(s) = 0
                BY Zenon, <4>1, <4>13 DEF Blocked
            <4> QED BY Zenon, <1>0, <2>0, <4>1, <4>2, <4>10, <4>12, <4>13, <4>14, PlaceTakes
        <3> QED BY Zenon, <1>3, <2>1, <3>2, <3>3 DEF SyncReceive
    <2>2. CASE s2c[conn] = <<>>
        <3>1. /\ ServerGone(conn) /\ sync' = NoReq /\ txnMap' \subseteq txnMap
              /\ UNCHANGED <<s2c, receiveQueue>>
            BY Zenon, <1>3, <2>2 DEF SyncReceive, SyncDone
        <3>2. Coming' = Coming BY Zenon, <1>0, <2>0, <3>1 DEF Coming, Down
        <3>3. MadeBy(via)' BY <1>0, <2>0, <3>1, <3>2 DEF PlaceInv, MadeBy, MadeFor, Live
        <3>4. PlaceInv' BY Zenon, <1>0, <2>0, <3>1, <3>3 DEF PlaceInv
        <3>5. OnePlace' BY Zenon, <1>0, <2>0, <3>1 DEF OnePlace, Here, ServerGone
        <3> QED BY Zenon, <3>4, <3>5
    <2> QED BY Zenon, <1>3, <2>1, <2>2 DEF SyncReceive
<1>4. CASE ProcessReceivedMessages
    <2> DEFINE m == Head(receiveQueue)
               one == <<m>>
               d == Coming'
    <2>1. m \in ToClient /\ d \in Seq(ToClient) /\ Coming = one \o d
        BY Zenon, <1>4, FirstProcessed
    <2>2. /\ UNCHANGED <<conn, transmitQueue, via, held, c2s, sync, syncSent, state>>
          /\ state = "open" /\ txnMap' \subseteq txnMap
          /\ m.kind = "rsp" => m.id \notin txnMap'
        BY Zenon, <1>0, <1>4 DEF ProcessReceivedMessages, ProcessMessageFromServer, MsgInv, ClientInv
    <2>3. \A s \in txnMap' : m # Msg("rsp", s) BY <2>2 DEF Msg
    <2>4. \A x : Times(one, x) = IF m = x THEN 1 ELSE 0 BY Zenon, TimesOfOne
    <2>5. one \in Seq(ToClient) BY <2>1
    <2> HIDE DEF m, one, d
    <2>6. \A x : Times(d, x) \in Nat /\ Times(one \o d, x) = Times(one, x) + Times(d, x)
        BY Zenon, <2>1, <2>5, TimesConcat
    <2>7. \A s \in txnMap' : Times(d, Msg("rsp", s)) = Times(Coming, Msg("rsp", s))
        BY <2>1, <2>3, <2>4, <2>6
    <2>8. MadeFor(d, via, conn) BY Zenon, <1>m, <2>1, <2>5, MadeForConcat
    <2>9. \A s : Blocked(s)' = Blocked(s) BY <2>2, Zenon DEF Blocked
    <2> QED BY Zenon, <1>0, <2>2, <2>7, <2>8, <2>9, PlaceTakes DEF d
<1> QED BY Zenon, <1>1, <1>2, <1>3, <1>4

\* The other steps of the client.
LEMMA PlaceClient ==
    ASSUME Counting, MsgInv, MsgInv', PlaceInv, OnePlace,
           ClientApp \/ ClientThread \/ ProcessDeferredMessages
    PROVE  PlaceInv' /\ OnePlace'
<1>1. ASSUME UNCHANGED <<conn, txnMap, transmitQueue, receiveQueue, via, held, sync, syncSent,
                         c2s, s2c, srv>>,
             Live' => state' = state
      PROVE  PlaceInv' /\ OnePlace'
    BY Zenon, <1>1, PlaceSame
<1>2. ASSUME conn \in Conns, sync = NoReq, CloseSession, UNCHANGED <<via, held, srv, sync>>,
             \/ conn' = conn /\ state' \in {"closed", "dead"}
             \/ \E as \in {"opening", "opensync"} : StartSessionOpenAttempt(as)
      PROVE  PlaceInv' /\ OnePlace'
    <2>1. /\ transmitQueue' = <<>> /\ receiveQueue' = <<>> /\ txnMap' \subseteq txnMap
          /\ s2c' = [s2c EXCEPT ![conn] = <<>>]
          /\ c2s' = c2s \/ c2s' = [c2s EXCEPT ![conn] = <<>>]
        BY Zenon, <1>2 DEF CloseSession, CloseSocket
    <2>2. /\ \A c \in Conns : c2s'[c] = c2s[c] \/ c2s'[c] = <<>>
          /\ \A c \in Conns : s2c[c] = <<>> => s2c'[c] = <<>>
        BY Zenon, <2>1 DEF MsgInv, ServerType
    <2>3. \/ conn' = conn /\ state' \in {"closed", "dead"}
          \/ conn < MaxConn /\ conn' = conn + 1 /\ state' \in {"opening", "opensync"}
        BY Zenon, <1>2 DEF StartSessionOpenAttempt
    <2> QED BY Zenon, <1>2, <2>1, <2>2, <2>3, PlaceShuts
<1>3. CASE le_msg_OpenSession \/ le_msg_OpenSessionSync
    <2>1. /\ UNCHANGED <<via, held, srv, sync, txnMap, c2s, s2c, transmitQueue, receiveQueue>>
          /\ sync = NoReq /\ transmitQueue = <<>> /\ receiveQueue = <<>>
          /\ \E as \in {"opening", "opensync"} : StartSessionOpenAttempt(as)
        BY Zenon, <1>3 DEF le_msg_OpenSession, le_msg_OpenSessionSync, server, MsgInv, ClientInv
    <2>2. \/ conn' = conn /\ state' \in {"closed", "dead"}
          \/ conn < MaxConn /\ conn' = conn + 1 /\ state' \in {"opening", "opensync"}
        BY Zenon, <2>1 DEF StartSessionOpenAttempt
    <2> QED BY Zenon, <2>1, <2>2, PlaceShuts
<1>4. CASE le_msg_CloseSession
    <2>1. /\ conn \in Conns /\ sync = NoReq /\ CloseSession /\ UNCHANGED <<via, held, srv, sync>>
          /\ conn' = conn /\ state' = "closed"
        BY <1>4 DEF le_msg_CloseSession, ClientRuns, server, MsgInv, ClientType, ClientInv, Conns
    <2> QED BY Zenon, <1>2, <2>1
<1>5. CASE Poll \/ Discard \/ NothingToRead \/ LoopEnds \/ ProcessDeferredMessages
    <2>1. UNCHANGED <<conn, txnMap, transmitQueue, receiveQueue, via, held, sync, syncSent,
                      c2s, s2c, srv, state>>
        BY Zenon, <1>5 DEF Poll, Discard, NothingToRead, LoopEnds, ProcessDeferredMessages, server
    <2> QED BY Zenon, <1>1, <2>1
<1>6. CASE ClientSocketHangUp
    <2>1. sync = NoReq /\ UNCHANGED <<via, held, srv, sync, syncSent>>
        BY Zenon, <1>6 DEF ClientSocketHangUp, ClientRuns, server
    <2>2. CASE state \in {"opening", "open"}
        <3>1. conn \in Conns BY <2>2 DEF MsgInv, ClientType, ClientInv, Conns
        <3>2. /\ CloseSession
              /\ \/ conn' = conn /\ state' \in {"closed", "dead"}
                 \/ \E as \in {"opening", "opensync"} : StartSessionOpenAttempt(as)
            BY Zenon, <1>6, <2>2 DEF ClientSocketHangUp
        <3> QED BY Zenon, <1>2, <2>1, <3>1, <3>2
    <2>3. CASE state = "closed"
        <3>1. /\ state' = "dead"
              /\ UNCHANGED <<conn, txnMap, transmitQueue, receiveQueue, c2s, s2c>>
            BY Zenon, <1>6, <2>3 DEF ClientSocketHangUp
        <3> QED BY Zenon, <1>1, <2>1, <3>1 DEF Live
    <2> QED BY Zenon, <1>6, <2>2, <2>3 DEF ClientSocketHangUp, ClientRuns, MsgInv, ClientType
<1> QED BY Zenon, <1>3, <1>4, <1>5, <1>6, PlaceReceives, PlaceSends, PlaceSync DEF ClientApp, ClientThread

\* What a step of the server has to keep.
LEMMA PlaceServes ==
    ASSUME Counting, MsgInv, PlaceInv, OnePlace, UNCHANGED client,
           \A c \in Conns : MadeFor(c2s'[c], via, c) /\ MadeFor(srv'[c].rq, via, c),
           Live => MadeFor(Coming', via, conn), \A h \in held' : via[h.id] = h.c,
           \A s \in txnMap : Here(s)' => Here(s) /\ (Places(s) = 1 => Places(s)' = 1)
    PROVE  PlaceInv' /\ OnePlace'
<1>1. UNCHANGED <<state, conn, txnMap, transmitQueue, via, sync, syncSent>> BY Zenon DEF client
<1>2. Live' => MadeFor(Coming', via', conn') BY Zenon, <1>1 DEF Live
<1>3. MadeFor(transmitQueue', via', conn') /\ (sync' # NoReq => via'[sync'] = conn')
    BY Zenon, <1>1 DEF PlaceInv, MadeBy
<1>4. \A c \in Conns : MadeFor(c2s'[c], via', c) /\ MadeFor(srv'[c].rq, via', c) BY Zenon, <1>1
<1>5. \A h \in held' : via'[h.id] = h.c BY Zenon, <1>1
<1>6. MadeBy(via)' BY Zenon, <1>2, <1>3, <1>4, <1>5 DEF MadeBy, MadeFor
<1>7. PlaceInv' BY Zenon, <1>1, <1>6 DEF PlaceInv
<1>8. OnePlace' BY Zenon, <1>1 DEF OnePlace
<1> QED BY Zenon, <1>7, <1>8

\* Connections end on the server's side.
LEMMA PlaceEnds ==
    ASSUME Counting, MsgInv, PlaceInv, OnePlace, UNCHANGED client,
           \A d \in Conns : \/ srv'[d] = srv[d] /\ s2c'[d] = s2c[d] /\ c2s'[d] = c2s[d]
                            \/ /\ srv'[d] = ClosedSession
                               /\ s2c'[d] = s2c[d] \/ s2c'[d] = <<>>
                               /\ c2s'[d] = c2s[d] \/ c2s'[d] = <<>>,
           held' \subseteq held,
           \A h \in held : h \notin held' /\ h.c = conn /\ state = "open"
                           => srv'[conn].state = "closed"
    PROVE  PlaceInv' /\ OnePlace'
<1>1. UNCHANGED <<state, conn, txnMap, transmitQueue, receiveQueue, via, sync, syncSent>>
    BY Zenon DEF client
<1>2. ClosedSession.rq = <<>> /\ ClosedSession.tq = <<>> /\ ClosedSession.state = "closed"
    BY Zenon DEF ClosedSession, NewSession
<1>3. \A c \in Conns : MadeFor(c2s'[c], via, c) /\ MadeFor(srv'[c].rq, via, c)
    BY Zenon, <1>2, MadeForOne DEF PlaceInv, MadeBy
<1>4. ASSUME Live PROVE MadeFor(Coming', via, conn)
    <2>1. /\ conn \in Conns /\ receiveQueue \in Seq(ToClient) /\ s2c[conn] \in Seq(ToClient)
          /\ srv[conn].tq \in Seq(ToClient) /\ Down(conn) \in Seq(ToClient)
          /\ MadeFor(Coming, via, conn)
        BY Zenon, <1>4, QueueTypes DEF QueueType, PlaceInv, MadeBy
    <2>2. CASE srv'[conn] = srv[conn] /\ s2c'[conn] = s2c[conn]
        <3>1. Coming' = Coming BY Zenon, <1>1, <2>2 DEF Coming, Down
        <3> QED BY Zenon, <2>1, <3>1
    <2>3. CASE srv'[conn] = ClosedSession /\ (s2c'[conn] = s2c[conn] \/ s2c'[conn] = <<>>)
        <3>1. MadeFor(receiveQueue, via, conn) /\ MadeFor(Down(conn), via, conn)
            BY Zenon, <2>1, MadeForConcat DEF Coming
        <3>2. MadeFor(s2c[conn], via, conn) BY Zenon, <2>1, <3>1, MadeForConcat DEF Down
        <3>3. PICK r \in Seq(ToClient), s \in Seq(ToClient) :
                /\ r = receiveQueue /\ s = s2c'[conn]
                /\ MadeFor(r, via, conn) /\ MadeFor(s, via, conn)
            BY Zenon, <2>1, <2>3, <3>1, <3>2, EmptyQueue, MadeForOne
        <3>4. s \o <<>> = s BY Zenon, NothingAdded
        <3>5. Coming' = r \o s BY Zenon, <1>1, <1>2, <2>3, <3>3, <3>4 DEF Coming, Down
        <3> QED BY Zenon, <3>3, <3>5, MadeForConcat
    <2> QED BY Zenon, <2>1, <2>2, <2>3
<1>5. \A h \in held' : via[h.id] = h.c BY Zenon DEF PlaceInv, MadeBy
<1>6. ASSUME NEW s \in txnMap, Here(s)' PROVE Here(s) /\ Places(s)' = Places(s)
    <2>1. via[s] = conn /\ state = "open" /\ srv'[conn].state # "closed"
        BY Zenon, <1>1, <1>6 DEF Here, ServerGone
    <2>2. conn \in Conns BY Zenon, <2>1, QueueTypes DEF QueueType, Live
    <2>3. srv'[conn] = srv[conn] /\ s2c'[conn] = s2c[conn] /\ c2s'[conn] = c2s[conn]
        BY Zenon, <1>2, <2>1, <2>2
    <2>4. Here(s) BY Zenon, <2>1, <2>3 DEF Here, ServerGone
    <2>5. [id |-> s, c |-> via[s]] \in held <=> [id |-> s, c |-> via[s]] \in held'
        BY Zenon, <2>1
    <2>6. Waiting(s)' = Waiting(s) BY Zenon, <1>1, <2>5 DEF Waiting
    <2>7. Blocked(s)' = Blocked(s) BY <1>1, Zenon DEF Blocked
    <2>8. Coming' = Coming BY Zenon, <1>1, <2>3 DEF Coming, Down
    <2>9. Places(s)' = Places(s) BY Zenon, <1>1, <2>3, <2>6, <2>7, <2>8 DEF Places, Times, Has
    <2> QED BY Zenon, <2>4, <2>9
<1> QED BY Zenon, <1>3, <1>4, <1>5, <1>6, PlaceServes

\* A connection is accepted.
LEMMA PlaceAccepts ==
    ASSUME Counting, MsgInv, PlaceInv, OnePlace, Accepted, NEW c \in Conns, CreateServerSideSession(c)
    PROVE  PlaceInv' /\ OnePlace'
<1>0. /\ UNCHANGED <<client, held, c2s>> /\ c <= conn /\ srv[c].state = "none"
      /\ srv[c] \in Session /\ srv \in [Conns -> Session] /\ s2c \in [Conns -> Seq(ToClient)]
      /\ conn \in Nat
    BY DEF CreateServerSideSession, MsgInv, ServerType, ClientType
<1>1. CASE ClientGone(c)
    <2>1. srv' = [srv EXCEPT ![c] = ClosedSession] /\ s2c' = s2c
        BY Zenon, <1>1 DEF CreateServerSideSession
    <2>2. \A d \in Conns : srv'[d] = srv[d] \/ srv'[d] = ClosedSession
        BY Zenon, <1>0, <2>1
    <2> QED BY Zenon, <1>0, <2>1, <2>2, PlaceEnds
<1>2. CASE ~ClientGone(c)
    <2> DEFINE hello == Msg("hello", 0)
               one == <<hello>>
    <2>1. c = conn /\ state \in {"opening", "opensync"}
        BY <1>0, <1>2 DEF ClientGone, MsgInv, ClientType, Conns, Accepted
    <2>2. srv' = [srv EXCEPT ![c].state = "open"] /\ s2c' = [s2c EXCEPT ![c] = one]
        BY Zenon, <1>2 DEF CreateServerSideSession
    <2>3. hello \in ToClient /\ hello.kind = "hello" BY Zenon DEF Msg, ToClient
    <2> HIDE DEF hello
    <2>4. one \in Seq(ToClient) /\ MadeFor(one, via, conn) BY <2>3, MadeForOne
    <2> HIDE DEF one
    <2>5. srv[c].tq = <<>> /\ receiveQueue = <<>>
        BY Zenon, <1>0, <2>1 DEF MsgInv, ConnInv, ClientInv
    <2>6. /\ srv'[c].tq = <<>> /\ s2c'[c] = one /\ \A d \in Conns : srv'[d].rq = srv[d].rq
        <3>1. srv' = [srv EXCEPT ![c] = [@ EXCEPT !.state = "open"]] BY Zenon, <1>0, <2>2
        <3> QED BY <1>0, <2>2, <2>5, <3>1 DEF Session
    <2>7. UNCHANGED <<state, conn, receiveQueue>> BY Zenon, <1>0 DEF client
    <2>8. Coming' = one
        <3>1. Coming' = <<>> \o (one \o <<>>) BY Zenon, <2>1, <2>5, <2>6, <2>7 DEF Coming, Down
        <3>2. one \o <<>> = one /\ <<>> \o one = one BY Zenon, <2>4, NothingAdded
        <3> QED BY Zenon, <3>1, <3>2
    <2>9. \A d \in Conns : MadeFor(c2s'[d], via, d) /\ MadeFor(srv'[d].rq, via, d)
        BY Zenon, <1>0, <2>6 DEF PlaceInv, MadeBy
    <2>10. \A s : ~Here(s)' BY Zenon, <2>1, <2>7 DEF Here
    <2>11. \A h \in held' : via[h.id] = h.c BY Zenon, <1>0 DEF PlaceInv, MadeBy
    <2> QED BY Zenon, <1>0, <2>4, <2>8, <2>9, <2>10, <2>11, PlaceServes
<1> QED BY Zenon, <1>1, <1>2

\* The server reads its socket.
LEMMA PlaceReads ==
    ASSUME Counting, MsgInv, PlaceInv, OnePlace, NEW c \in Conns, ServerSocketReadable(c)
    PROVE  PlaceInv' /\ OnePlace'
<1> DEFINE q == srv[c].rq
           p == c2s[c]
<1>0. UNCHANGED <<client, held, s2c>> BY Zenon DEF ServerSocketReadable
<1>1. q \in Seq(ToServer) /\ p \in Seq(ToServer) BY Zenon, QueueTypes DEF QueueType
<1>2. /\ srv'[c].rq = q \o p /\ c2s'[c] = <<>>
      /\ \A d \in Conns : /\ srv'[d].state = srv[d].state /\ srv'[d].tq = srv[d].tq
                          /\ d # c => srv'[d].rq = srv[d].rq /\ c2s'[d] = c2s[d]
    <2>1. srv \in [Conns -> Session] /\ c2s \in [Conns -> Seq(ToServer)] /\ srv[c] \in Session
        BY Zenon DEF MsgInv, ServerType
    <2>2. /\ srv' = [srv EXCEPT ![c] = [@ EXCEPT !.rq = q \o p]]
          /\ c2s' = [c2s EXCEPT ![c] = <<>>]
        BY Zenon, <2>1 DEF ServerSocketReadable
    <2> HIDE DEF p, q
    <2> QED BY Zenon, <2>1, <2>2 DEF Session
<1>3. MadeFor(q, via, c) /\ MadeFor(p, via, c) BY Zenon DEF PlaceInv, MadeBy
<1>4. \A x : /\ Times(q, x) \in Nat /\ Times(p, x) \in Nat
             /\ Times(q \o p, x) = Times(q, x) + Times(p, x) /\ Times(<<>>, x) = 0
    <2> HIDE DEF p, q
    <2>1. \A x : /\ Times(q, x) \in Nat /\ Times(p, x) \in Nat
                 /\ Times(q \o p, x) = Times(q, x) + Times(p, x)
        BY Zenon, <1>1, TimesConcat
    <2>2. \A x : Times(<<>>, x) = 0 BY Zenon, TimesOfOne
    <2> QED BY Zenon, <2>1, <2>2
<1>5. MadeFor(q \o p, via, c) /\ MadeFor(<<>>, via, c)
    <2> HIDE DEF p, q
    <2> QED BY Zenon, <1>1, <1>3, MadeForConcat, MadeForOne
<1>6. \A d \in Conns : MadeFor(c2s'[d], via, d) /\ MadeFor(srv'[d].rq, via, d)
    <2> HIDE DEF p, q
    <2> QED BY Zenon, <1>2, <1>5 DEF PlaceInv, MadeBy
<1>7. UNCHANGED <<state, conn, transmitQueue, receiveQueue, via, sync, syncSent>>
    BY Zenon, <1>0 DEF client
<1>8. Live => conn \in Conns /\ Coming' = Coming
    <2>1. Live => conn \in Conns BY Zenon, QueueTypes DEF QueueType
    <2> QED BY Zenon, <1>0, <1>2, <1>7, <2>1 DEF Coming, Down
<1>9. Live => MadeFor(Coming', via, conn) BY Zenon, <1>8 DEF PlaceInv, MadeBy
<1>10. \A h \in held' : via[h.id] = h.c BY Zenon, <1>0 DEF PlaceInv, MadeBy
<1>11. ASSUME NEW s \in txnMap, Here(s)' PROVE Here(s) /\ Places(s)' = Places(s)
    <2> DEFINE rq == Msg("req", s)
    <2>1. state = "open" /\ Live BY Zenon, <1>7, <1>11 DEF Here, Live
    <2>2. Here(s) BY Zenon, <1>2, <1>7, <1>8, <1>11, <2>1 DEF Here, ServerGone
    <2>3. Times(c2s'[conn], rq) + Times(srv'[conn].rq, rq)
          = Times(c2s[conn], rq) + Times(srv[conn].rq, rq)
        <3>1. CASE conn = c
            <4> HIDE DEF rq
            <4>1. Times(<<>>, rq) + Times(q \o p, rq) = Times(p, rq) + Times(q, rq) BY <1>4
            <4> QED BY Zenon, <1>2, <3>1, <4>1
        <3>2. CASE conn # c BY Zenon, <1>2, <1>8, <2>1, <3>2
        <3> QED BY Zenon, <3>1, <3>2
    <2>4. /\ Times(c2s'[conn], rq) \in Nat /\ Times(srv'[conn].rq, rq) \in Nat
        <3>1. CASE conn = c
            <4> HIDE DEF rq
            <4>1. Times(<<>>, rq) \in Nat /\ Times(q \o p, rq) \in Nat BY <1>4
            <4> QED BY Zenon, <1>2, <3>1, <4>1
        <3>2. CASE conn # c BY Zenon, <1>2, <1>8, <2>1, <3>2, PlaceNumbers
        <3> QED BY Zenon, <3>1, <3>2
    <2>5. Waiting(s)' = Waiting(s) BY Zenon, <1>0, <1>7 DEF Waiting
    <2>6. Blocked(s)' = Blocked(s) BY <1>7, Zenon DEF Blocked
    <2>7. Places(s)' = Times(transmitQueue, rq) + Times(c2s'[conn], rq)
                       + Times(srv'[conn].rq, rq) + Waiting(s) + Times(Coming, Msg("rsp", s))
                       + Blocked(s)
        BY Zenon, <1>7, <1>8, <2>1, <2>5, <2>6 DEF Places, Times, Has
    <2>8. /\ Times(transmitQueue, rq) \in Nat /\ Times(c2s[conn], rq) \in Nat
          /\ Times(srv[conn].rq, rq) \in Nat /\ Waiting(s) \in Nat
          /\ Times(Coming, Msg("rsp", s)) \in Nat /\ Blocked(s) \in Nat
        BY <2>1, PlaceNumbers
    <2> HIDE DEF rq
    <2>9. Places(s) = Times(transmitQueue, rq) + Times(c2s[conn], rq)
                       + Times(srv[conn].rq, rq) + Waiting(s) + Times(Coming, Msg("rsp", s))
                       + Blocked(s)
        BY Zenon DEF Places, rq
    <2> QED BY <2>2, <2>3, <2>4, <2>7, <2>8, <2>9
<1> QED BY Zenon, <1>0, <1>6, <1>9, <1>10, <1>11, PlaceServes

\* The receive handler of the server gets a message, and keeps a request.
LEMMA PlaceProcesses ==
    ASSUME Counting, MsgInv, PlaceInv, OnePlace, ProcessMessageFromClient
    PROVE  PlaceInv' /\ OnePlace'
<1>1. PICK c \in Conns : c = sFrame
    BY DEF ProcessMessageFromClient, MsgInv, ServerType, Conns
<1> DEFINE m == Head(srv[c].rq)
           one == <<m>>
           t == Tail(srv[c].rq)
<1>2. UNCHANGED <<client, c2s, s2c>> BY Zenon DEF ProcessMessageFromClient
<1>3. m \in ToServer /\ t \in Seq(ToServer) /\ one \in Seq(ToServer) /\ srv[c].rq = one \o t
    <2>1. srv[c].rq \in Seq(ToServer) /\ srv[c].rq # <<>>
        BY Zenon, <1>1, QueueTypes DEF QueueType, ProcessMessageFromClient
    <2> QED BY Zenon, <2>1, HeadAndRest
<1>4. /\ srv'[c].rq = t
      /\ \A d \in Conns : /\ srv'[d].state = srv[d].state /\ srv'[d].tq = srv[d].tq
                          /\ d # c => srv'[d].rq = srv[d].rq
    <2>1. srv \in [Conns -> Session] /\ srv[c] \in Session BY Zenon DEF MsgInv, ServerType
    <2>2. srv' = [srv EXCEPT ![c] = [@ EXCEPT !.rq = t]]
        BY Zenon, <1>1, <2>1 DEF ProcessMessageFromClient
    <2> HIDE DEF t
    <2> QED BY Zenon, <2>1, <2>2 DEF Session
<1>5. held' = IF m.kind = "req" THEN held \cup {[id |-> m.id, c |-> c]} ELSE held
    BY Zenon, <1>1 DEF ProcessMessageFromClient
<1>6. \A x : Times(one, x) = IF m = x THEN 1 ELSE 0 BY Zenon, TimesOfOne
<1>7. MadeFor(one, via, c) <=> (m.kind \in {"req", "note", "rsp"} => via[m.id] = c)
    BY Zenon, MadeForOne
<1>8. m.kind = "req" => m = Msg("req", m.id) BY Zenon, <1>3 DEF ToServer, Msg
<1>9. \A s : Msg("req", s).kind = "req" /\ Msg("req", s).id = s BY Zenon DEF Msg
<1> HIDE DEF m, one, t
<1>10. \A x : /\ Times(t, x) \in Nat /\ Times(srv[c].rq, x) = Times(one, x) + Times(t, x)
    BY <1>3, TimesConcat
<1>11. MadeFor(one, via, c) /\ MadeFor(t, via, c)
    <2>1. MadeFor(one \o t, via, c) BY Zenon, <1>3 DEF PlaceInv, MadeBy
    <2> QED BY Zenon, <1>3, <2>1, MadeForConcat
<1>12. \A d \in Conns : MadeFor(c2s'[d], via, d) /\ MadeFor(srv'[d].rq, via, d)
    BY Zenon, <1>2, <1>4, <1>11 DEF PlaceInv, MadeBy
<1>13. \A h \in held' : via[h.id] = h.c
    BY <1>5, <1>7, <1>11 DEF PlaceInv, MadeBy
<1>14. UNCHANGED <<state, conn, transmitQueue, receiveQueue, via, sync, syncSent>>
    BY Zenon, <1>2 DEF client
<1>15. Live => conn \in Conns /\ Coming' = Coming
    <2>1. Live => conn \in Conns BY Zenon, QueueTypes DEF QueueType
    <2> QED BY Zenon, <1>2, <1>4, <1>14, <2>1 DEF Coming, Down
<1>16. Live => MadeFor(Coming', via, conn) BY Zenon, <1>15 DEF PlaceInv, MadeBy
<1>17. ASSUME NEW s \in txnMap, Here(s)'
       PROVE  Here(s) /\ (Places(s) = 1 => Places(s)' = 1)
    <2> DEFINE rq == Msg("req", s)
               me == [id |-> s, c |-> via[s]]
    <2>1. state = "open" /\ Live /\ via[s] = conn BY Zenon, <1>14, <1>17 DEF Here, Live
    <2>2. Here(s) BY Zenon, <1>4, <1>14, <1>15, <1>17, <2>1 DEF Here, ServerGone
    <2>3. Blocked(s)' = Blocked(s) BY <1>14, Zenon DEF Blocked
    <2>4. Places(s)' = Times(transmitQueue, rq) + Times(c2s[conn], rq)
                       + Times(srv'[conn].rq, rq) + Waiting(s)' + Times(Coming, Msg("rsp", s))
                       + Blocked(s)
        BY Zenon, <1>2, <1>14, <1>15, <2>1, <2>3 DEF Places, Times, Has
    <2>5. /\ Times(transmitQueue, rq) \in Nat /\ Times(c2s[conn], rq) \in Nat
          /\ Times(srv[conn].rq, rq) \in Nat /\ Waiting(s) \in {0, 1}
          /\ Times(Coming, Msg("rsp", s)) \in Nat /\ Blocked(s) \in Nat
        BY <2>1, PlaceNumbers
    <2>6. Waiting(s) = (IF me \in held THEN 1 ELSE 0)
          /\ Waiting(s)' = (IF me \in held' THEN 1 ELSE 0)
        BY Zenon, <1>14 DEF Waiting
    <2>7. Places(s) = Times(transmitQueue, rq) + Times(c2s[conn], rq)
                      + Times(srv[conn].rq, rq) + Waiting(s) + Times(Coming, Msg("rsp", s))
                      + Blocked(s)
        BY Zenon DEF Places
    <2>8. CASE m = rq /\ c = conn
        <3>1. m.kind = "req" /\ m.id = s BY Zenon, <1>9, <2>8
        <3>2. me \in held' BY Zenon, <1>5, <2>1, <2>8, <3>1
        <3>3. Times(one, rq) = 1 BY Zenon, <1>6, <2>8
        <3> HIDE DEF rq, me
        <3>4. Times(t, rq) \in Nat /\ Times(srv[c].rq, rq) = 1 + Times(t, rq) BY Zenon, <1>10, <3>3
        <3>5. Times(t, rq) \in Nat /\ Times(srv[conn].rq, rq) = 1 + Times(srv'[conn].rq, rq)
              /\ srv'[conn].rq = t
            BY Zenon, <1>4, <2>8, <3>4
        <3>6. Waiting(s)' = 1 BY Zenon, <2>6, <3>2
        <3>7. Places(s) = 1 => Waiting(s) = 0 /\ Times(srv[conn].rq, rq) = 1
            BY <2>5, <2>7, <3>5
        <3>8. Places(s) = 1 => Places(s)' = 1
            BY <2>4, <2>5, <2>7, <3>5, <3>6, <3>7
        <3> QED BY Zenon, <2>2, <3>8
    <2>9. CASE ~(m = rq /\ c = conn)
        <3>1. me \in held' <=> me \in held
            <4>1. m.kind = "req" => me # [id |-> m.id, c |-> c]
                <5> SUFFICES ASSUME m.kind = "req", me = [id |-> m.id, c |-> c] PROVE FALSE
                    BY Zenon
                <5>1. m.id = s /\ c = conn BY Zenon, <2>1
                <5> QED BY Zenon, <1>8, <2>9, <5>1
            <4> QED BY Zenon, <1>5, <4>1
        <3>2. Times(srv'[conn].rq, rq) = Times(srv[conn].rq, rq)
            <4>1. CASE c = conn
                <5>1. Times(one, rq) = 0 BY Zenon, <1>6, <2>9, <4>1
                <5> HIDE DEF rq
                <5>2. Times(srv[c].rq, rq) = Times(t, rq) BY <1>10, <5>1
                <5> QED BY Zenon, <1>4, <4>1, <5>2
            <4>2. CASE c # conn BY Zenon, <1>4, <1>15, <2>1, <4>2
            <4> QED BY Zenon, <4>1, <4>2
        <3> HIDE DEF rq, me
        <3>3. Waiting(s)' = Waiting(s) BY Zenon, <2>6, <3>1
        <3> QED BY Zenon, <2>2, <2>4, <2>7, <3>2, <3>3
    <2> QED BY Zenon, <2>8, <2>9
<1> QED BY Zenon, <1>2, <1>12, <1>13, <1>16, <1>17, PlaceServes

\* One place more and one less among the places of a request.
LEMMA SumsKept ==
    ASSUME NEW a \in Nat, NEW b \in Nat, NEW d \in Nat, NEW w \in Nat, NEW t \in Nat,
           NEW x \in Nat, NEW u \in Nat, NEW k \in Nat, x + u = w + t
    PROVE  a + b + d + x + u + k = a + b + d + w + t + k
OBVIOUS

\* The server sends on connection c: what it had queued, an indication, or the
\* response to a request that it held.
LEMMA PlaceSendsDown ==
    ASSUME Counting, MsgInv, PlaceInv, OnePlace, NEW c \in Conns, srv[c].state = "open",
           NEW q \in Seq(ToClient), NEW n \in 0 .. MaxInd, SendToClient(c, q, n),
           UNCHANGED <<client, c2s>>,
           \/ q = srv[c].tq /\ held' = held
           \/ \E m \in ToClient :
                /\ q = Append(srv[c].tq, m)
                /\ \/ m.kind = "ind" /\ held' = held
                   \/ \E h \in held : m = Msg("rsp", h.id) /\ h.c = c /\ held' = held \ {h}
    PROVE  PlaceInv' /\ OnePlace'
<1>0. UNCHANGED <<state, conn, transmitQueue, receiveQueue, via, sync, syncSent>>
    BY Zenon DEF client
<1>1. /\ Down(c)' = s2c[c] \o q
      /\ \A d \in Conns : srv'[d].state = srv[d].state /\ srv'[d].rq = srv[d].rq
      /\ \A d \in Conns : d # c => srv'[d] = srv[d] /\ s2c'[d] = s2c[d]
    <2>1. /\ Down(c)' = s2c[c] \o q /\ srv'[c].state = "open" /\ srv'[c].rq = srv[c].rq
          /\ \A d \in Conns : d # c => srv'[d] = srv[d] /\ s2c'[d] = s2c[d]
        BY Zenon, SentDown
    <2> QED BY Zenon, <2>1
<1>2. \A d \in Conns : MadeFor(c2s'[d], via, d) /\ MadeFor(srv'[d].rq, via, d)
    BY Zenon, <1>1 DEF PlaceInv, MadeBy
<1>3. held' \subseteq held /\ \A h \in held : via[h.id] = h.c BY Zenon DEF PlaceInv, MadeBy
<1>4. held \subseteq [id : Reqs, c : Conns] BY Zenon DEF MsgInv, ServerType
<1>5. Live => /\ conn \in Conns /\ Coming \in Seq(ToClient) /\ receiveQueue \in Seq(ToClient)
              /\ MadeFor(Coming, via, conn)
    BY Zenon, QueueTypes DEF QueueType, PlaceInv, MadeBy
<1>6. ASSUME Live, c # conn \/ q = srv[c].tq PROVE Coming' = Coming
    <2>1. CASE c # conn BY Zenon, <1>0, <1>1, <1>5, <1>6, <2>1 DEF Coming, Down
    <2>2. CASE c = conn /\ q = srv[c].tq BY Zenon, <1>0, <1>1, <2>2 DEF Coming, Down
    <2> QED BY Zenon, <1>6, <2>1, <2>2
<1>7. ASSUME Live, c = conn, NEW m \in ToClient, q = Append(srv[c].tq, m)
      PROVE  Coming' = Append(Coming, m)
    <2>1. PICK r \in Seq(ToClient), s \in Seq(ToClient), t \in Seq(ToClient) :
             r = receiveQueue /\ s = s2c[c] /\ t = srv[c].tq
        BY Zenon, QueueTypes DEF QueueType
    <2>2. Behind(r, s, t, m) BY Zenon, AddedLast
    <2>3. Coming' = r \o (s \o Append(t, m)) BY Zenon, <1>0, <1>1, <1>7, <2>1 DEF Coming, Down
    <2>4. Coming = r \o (s \o t) BY Zenon, <1>7, <2>1 DEF Coming, Down
    <2>5. Append(Coming, m) = Coming \o <<m>> BY Zenon, <1>5, <1>7, AppendIsConcat
    <2> QED BY Zenon, <2>2, <2>3, <2>4, <2>5 DEF Behind
<1>8. ASSUME Live PROVE MadeFor(Coming', via, conn)
    <2>1. CASE c # conn \/ q = srv[c].tq BY Zenon, <1>5, <1>6, <1>8, <2>1
    <2>2. CASE c = conn /\ q # srv[c].tq
        <3>1. PICK m \in ToClient :
                /\ q = Append(srv[c].tq, m)
                /\ m.kind = "ind" \/ \E h \in held : m = Msg("rsp", h.id) /\ h.c = c
            BY Zenon, <2>2
        <3>2. m.kind \in {"req", "note", "rsp"} => via[m.id] = conn
            BY <1>3, <2>2, <3>1 DEF Msg
        <3>3. Coming' = Append(Coming, m) BY Zenon, <1>7, <1>8, <2>2, <3>1
        <3>4. MadeFor(Append(Coming, m), via, conn) BY Zenon, <1>5, <1>8, <3>2, OneMore
        <3> QED BY Zenon, <3>3, <3>4
    <2> QED BY Zenon, <2>1, <2>2
<1>9. ASSUME NEW s \in txnMap, Here(s)' PROVE Here(s) /\ Places(s)' = Places(s)
    <2> DEFINE rs == Msg("rsp", s)
               me == [id |-> s, c |-> via[s]]
    <2>1. state = "open" /\ Live /\ via[s] = conn /\ conn \in Conns
        BY Zenon, <1>0, <1>5, <1>9 DEF Here, Live
    <2>2. Here(s) BY Zenon, <1>0, <1>1, <1>9, <2>1 DEF Here, ServerGone
    <2>3. Blocked(s)' = Blocked(s) BY <1>0, Zenon DEF Blocked
    <2>4. Places(s)' = Times(transmitQueue, Msg("req", s)) + Times(c2s[conn], Msg("req", s))
                       + Times(srv[conn].rq, Msg("req", s)) + Waiting(s)' + Times(Coming', rs)
                       + Blocked(s)
        BY Zenon, <1>0, <1>1, <2>1, <2>3 DEF Places, Times, Has
    <2>5. /\ Times(transmitQueue, Msg("req", s)) \in Nat
          /\ Times(c2s[conn], Msg("req", s)) \in Nat
          /\ Times(srv[conn].rq, Msg("req", s)) \in Nat /\ Waiting(s) \in {0, 1}
          /\ Times(Coming, rs) \in Nat /\ Blocked(s) \in Nat
        BY <2>1, PlaceNumbers
    <2>6. Waiting(s) = (IF me \in held THEN 1 ELSE 0)
          /\ Waiting(s)' = (IF me \in held' THEN 1 ELSE 0)
        BY Zenon, <1>0 DEF Waiting
    <2> DEFINE Kept == /\ Waiting(s)' \in {0, 1} /\ Times(Coming', rs) \in Nat
                       /\ Waiting(s)' + Times(Coming', rs) = Waiting(s) + Times(Coming, rs)
    <2>7. Kept
        <3>1. CASE q = srv[c].tq /\ held' = held
            BY Zenon, <1>6, <2>1, <2>5, <2>6, <3>1
        <3>2. ASSUME NEW m \in ToClient, q = Append(srv[c].tq, m), m.kind = "ind", held' = held
              PROVE  Kept
            <4>1. m # rs
                <5>1. rs.kind = "rsp" BY Zenon DEF Msg
                <5> QED BY Zenon, <3>2, <5>1
            <4> HIDE DEF rs, me
            <4>2. Times(Coming', rs) = Times(Coming, rs)
                <5>1. CASE c # conn BY Zenon, <1>6, <2>1, <5>1
                <5>2. CASE c = conn
                    <6>1. Coming' = Append(Coming, m) BY Zenon, <1>7, <2>1, <3>2, <5>2
                    <6>2. Times(Append(Coming, m), rs) = Times(Coming, rs) + 0
                        BY <1>5, <2>1, <4>1, OneMore
                    <6> QED BY <2>5, <6>1, <6>2
                <5> QED BY Zenon, <5>1, <5>2
            <4> QED BY Zenon, <2>5, <2>6, <3>2, <4>2
        <3>3. ASSUME NEW h \in held, Msg("rsp", h.id) \in ToClient,
                     q = Append(srv[c].tq, Msg("rsp", h.id)), h.c = c, held' = held \ {h}
              PROVE  Kept
            <4> DEFINE m == Msg("rsp", h.id)
            <4>1. m.kind = "rsp" /\ m.id = h.id /\ (m = rs <=> h.id = s) BY Zenon DEF Msg
            <4>2. h = me <=> h.id = s /\ c = conn BY <1>3, <1>4, <2>1, <3>3
            <4> HIDE DEF rs, me
            <4>3. CASE c # conn
                <5>1. Times(Coming', rs) = Times(Coming, rs) BY Zenon, <1>6, <2>1, <4>3
                <5>2. me \in held' <=> me \in held BY Zenon, <3>3, <4>2, <4>3
                <5> QED BY Zenon, <2>5, <2>6, <5>1, <5>2
            <4>4. CASE c = conn
                <5>1. m \in ToClient /\ q = Append(srv[c].tq, m) BY Zenon, <3>3
                <5> HIDE DEF m
                <5>2. Coming' = Append(Coming, m) BY Zenon, <1>7, <2>1, <4>4, <5>1
                <5>3. Times(Append(Coming, m), rs) = Times(Coming, rs) + (IF m = rs THEN 1 ELSE 0)
                    BY <1>5, <2>1, <5>1, OneMore
                <5>4. Times(Coming', rs) = Times(Coming, rs) + (IF m = rs THEN 1 ELSE 0)
                    BY Zenon, <5>2, <5>3
                <5>5. CASE h = me
                    <6>1. me \in held /\ me \notin held' /\ m = rs BY Zenon, <3>3, <4>1, <4>2, <5>5
                    <6> QED BY SMTT(30), <2>5, <2>6, <5>4, <6>1
                <5>6. CASE h # me
                    <6>1. (me \in held' <=> me \in held) /\ m # rs
                        BY Zenon, <3>3, <4>1, <4>2, <4>4, <5>6
                    <6> QED BY <2>5, <2>6, <5>4, <6>1
                <5> QED BY Zenon, <5>5, <5>6
            <4> QED BY Zenon, <4>3, <4>4
        <3> QED BY Zenon, <3>1, <3>2, <3>3
    <2>8. Places(s) = Times(transmitQueue, Msg("req", s)) + Times(c2s[conn], Msg("req", s))
                      + Times(srv[conn].rq, Msg("req", s)) + Waiting(s) + Times(Coming, rs)
                      + Blocked(s)
        BY Zenon DEF Places
    <2>9. /\ Waiting(s)' \in Nat /\ Times(Coming', rs) \in Nat /\ Waiting(s) \in Nat
          /\ Waiting(s)' + Times(Coming', rs) = Waiting(s) + Times(Coming, rs)
        BY SMTT(30), <2>5, <2>7
    <2> HIDE DEF rs, Kept
    <2>10. Places(s)' = Places(s)
        <3>1. PICK a \in Nat : a = Times(transmitQueue, Msg("req", s)) BY Zenon, <2>5
        <3>2. PICK b \in Nat : b = Times(c2s[conn], Msg("req", s)) BY Zenon, <2>5
        <3>3. PICK d \in Nat : d = Times(srv[conn].rq, Msg("req", s)) BY Zenon, <2>5
        <3>4. PICK w \in Nat : w = Waiting(s) BY Zenon, <2>9
        <3>5. PICK t \in Nat : t = Times(Coming, rs) BY Zenon, <2>5
        <3>6. PICK x \in Nat : x = Waiting(s)' BY Zenon, <2>9
        <3>7. PICK u \in Nat : u = Times(Coming', rs) BY Zenon, <2>9
        <3>8. PICK k \in Nat : k = Blocked(s) BY Zenon, <2>5
        <3>9. x + u = w + t BY Zenon, <2>9, <3>4, <3>5, <3>6, <3>7
        <3>10. a + b + d + x + u + k = a + b + d + w + t + k BY SMTT(30), <3>9, SumsKept
        <3> QED BY Zenon, <2>4, <2>8, <3>1, <3>2, <3>3, <3>4, <3>5, <3>6, <3>7, <3>8, <3>10
    <2> QED BY Zenon, <2>2, <2>10
<1>10. \A h \in held' : via[h.id] = h.c BY Zenon, <1>3
<1>11. \A s \in txnMap : Here(s)' => Here(s) /\ (Places(s) = 1 => Places(s)' = 1) BY Zenon, <1>9
<1> QED BY Zenon, <1>2, <1>8, <1>10, <1>11, PlaceServes

\* Steps of the server, and the place of a request.
LEMMA PlaceServer ==
    ASSUME Counting, MsgInv, PlaceInv, OnePlace, Accepted,
           \/ ServerThread \/ ServerApp \/ ServerCrash
           \/ \E h \in held : le_msg_Respond(h)
           \/ \E c \in Conns : RefuseConnection(c)
    PROVE  PlaceInv' /\ OnePlace'
<1>0. /\ srv \in [Conns -> Session] /\ s2c \in [Conns -> Seq(ToClient)]
      /\ c2s \in [Conns -> Seq(ToServer)] /\ held \subseteq [id : Reqs, c : Conns]
    BY Zenon DEF MsgInv, ServerType
<1>t. \A c \in Conns : /\ srv[c].tq \in Seq(ToClient) /\ srv[c].inds \in 0 .. MaxInd
                       /\ srv[c].state \in {"none", "open", "closed"}
    BY Zenon, QueueTypes DEF QueueType
<1>a. state = "open" => conn \in Conns /\ srv[conn].state \in {"open", "closed"}
    BY Zenon, <1>t, QueueTypes DEF QueueType, Live, Accepted
<1>1. ASSUME NEW c \in Conns, DeleteSession(c) \/ RefuseConnection(c), UNCHANGED client,
             held' \subseteq held, \A h \in held : h \notin held' => h.c = c
      PROVE  PlaceInv' /\ OnePlace'
    <2>1. srv' = [srv EXCEPT ![c] = ClosedSession]
        BY Zenon, <1>1 DEF DeleteSession, RefuseConnection
    <2>2. /\ s2c' = s2c \/ s2c' = [s2c EXCEPT ![c] = <<>>]
          /\ c2s' = c2s \/ c2s' = [c2s EXCEPT ![c] = <<>>]
        BY Zenon, <1>1 DEF DeleteSession, CloseSocket, RefuseConnection
    <2>3. \A d \in Conns : \/ srv'[d] = srv[d] /\ s2c'[d] = s2c[d] /\ c2s'[d] = c2s[d]
                           \/ /\ srv'[d] = ClosedSession
                              /\ s2c'[d] = s2c[d] \/ s2c'[d] = <<>>
                              /\ c2s'[d] = c2s[d] \/ c2s'[d] = <<>>
        BY Zenon, <1>0, <2>1, <2>2
    <2>4. srv'[c].state = "closed" BY Zenon, <1>0, <2>1, EmptySessions
    <2> QED BY Zenon, <1>1, <2>3, <2>4, PlaceEnds
<1>2. CASE ServerCrash
    <2>1. UNCHANGED client /\ held' \subseteq held BY Zenon, <1>2 DEF ServerCrash
    <2>2. \A d \in Conns : \/ srv'[d] = srv[d] /\ s2c'[d] = s2c[d] /\ c2s'[d] = c2s[d]
                           \/ /\ srv'[d] = ClosedSession
                              /\ s2c'[d] = s2c[d] \/ s2c'[d] = <<>>
                              /\ c2s'[d] = c2s[d] \/ c2s'[d] = <<>>
        BY Zenon, <1>2 DEF ServerCrash
    <2>3. state = "open" => srv'[conn].state = "closed"
        BY Zenon, <1>2, <1>a, EmptySessions DEF ServerCrash
    <2> QED BY Zenon, <2>1, <2>2, <2>3, PlaceEnds
<1>3. ASSUME NEW h \in held, held' = held \ {h}, srv[h.c].state # "open",
             UNCHANGED <<client, srv, c2s, s2c>>
      PROVE  PlaceInv' /\ OnePlace'
    <2>1. h.c = conn /\ state = "open" => srv'[conn].state = "closed" BY Zenon, <1>3, <1>a
    <2> QED BY Zenon, <1>3, <2>1, PlaceEnds
<1>4. ASSUME NEW h \in held, le_msg_Respond(h) PROVE PlaceInv' /\ OnePlace'
    <2>1. UNCHANGED <<client, c2s>> /\ held' = held \ {h} /\ h.c \in Conns /\ h.id \in Reqs
        BY Zenon, <1>0, <1>4 DEF le_msg_Respond
    <2>2. CASE srv[h.c].state = "open"
        <3> DEFINE m == Msg("rsp", h.id)
        <3>1. SendToClient(h.c, Append(srv[h.c].tq, m), srv[h.c].inds)
            BY Zenon, <1>4, <2>2 DEF le_msg_Respond
        <3>2. m \in ToClient /\ m = Msg("rsp", h.id) BY Zenon, <2>1 DEF Msg, ToClient
        <3> HIDE DEF m
        <3>3. PICK c \in Conns : c = h.c BY Zenon, <2>1
        <3>4. Append(srv[c].tq, m) \in Seq(ToClient) BY Zenon, <1>t, <3>2, AppendProperties
        <3>5. SendToClient(c, Append(srv[c].tq, m), srv[c].inds)
            BY Zenon, <3>1, <3>3 DEF SendToClient, ClientGone
        <3>6. srv[c].state = "open" BY Zenon, <2>2, <3>3
        <3> QED BY Zenon, <1>t, <2>1, <3>2, <3>3, <3>4, <3>5, <3>6, PlaceSendsDown
    <2>3. CASE srv[h.c].state # "open"
        <3>1. UNCHANGED <<srv, s2c>> BY Zenon, <1>4, <2>3 DEF le_msg_Respond
        <3> QED BY Zenon, <1>3, <2>1, <2>3, <3>1
    <2> QED BY Zenon, <2>2, <2>3
<1>5. ASSUME NEW c \in Conns, SendIndication(c) PROVE PlaceInv' /\ OnePlace'
    <2> DEFINE n == srv[c].inds + 1
               m == Msg("ind", n)
    <2>1. /\ srv[c].state = "open" /\ SendToClient(c, Append(srv[c].tq, m), n)
          /\ srv[c].inds < MaxInd /\ UNCHANGED <<client, c2s, held>>
        BY Zenon, <1>5 DEF SendIndication
    <2>2. n \in 1 .. MaxInd /\ n \in 0 .. MaxInd BY <1>t, <2>1, MsgConstants
    <2>3. m \in ToClient /\ m.kind = "ind" BY Zenon, <2>2 DEF Msg, ToClient
    <2> HIDE DEF m, n
    <2>4. Append(srv[c].tq, m) \in Seq(ToClient) BY Zenon, <1>t, <2>3, AppendProperties
    <2> QED BY Zenon, <2>1, <2>2, <2>3, <2>4, PlaceSendsDown
<1>6. ASSUME NEW c \in Conns, ServerSocketWriteable(c) PROVE PlaceInv' /\ OnePlace'
    <2>1. /\ srv[c].state = "open" /\ SendToClient(c, srv[c].tq, srv[c].inds)
          /\ UNCHANGED <<client, c2s, held>>
        BY Zenon, <1>6 DEF ServerSocketWriteable
    <2> QED BY Zenon, <1>t, <2>1, PlaceSendsDown
<1>7. ASSUME NEW c \in Conns, ServerSocketHangUp(c) \/ ServerCloseSession(c)
      PROVE  PlaceInv' /\ OnePlace'
    <2>1. DeleteSession(c) /\ UNCHANGED <<client, held>>
        BY Zenon, <1>7 DEF ServerSocketHangUp, ServerCloseSession
    <2> QED BY Zenon, <1>1, <2>1
<1>8. ASSUME NEW c \in Conns, RefuseConnection(c) PROVE PlaceInv' /\ OnePlace'
    <2>1. UNCHANGED <<client, held>> BY Zenon, <1>8 DEF RefuseConnection
    <2> QED BY Zenon, <1>1, <1>8, <2>1
<1>9. CASE ServerLoopEnds
    <2>1. CASE sFrame' = 0 /\ UNCHANGED <<client, srv, held, c2s, s2c>>
        BY Zenon, <2>1, PlaceEnds
    <2>2. CASE DeleteSession(sFrame) /\ UNCHANGED <<client, held>>
        <3>1. PICK c \in Conns : c = sFrame
            BY <1>9 DEF ServerLoopEnds, MsgInv, ServerType, Conns
        <3>2. DeleteSession(c) BY Zenon, <2>2, <3>1 DEF DeleteSession, CloseSocket
        <3> QED BY Zenon, <1>1, <2>2, <3>2
    <2> QED BY Zenon, <1>2, <1>9, <2>1, <2>2 DEF ServerLoopEnds
<1>10. ASSUME NEW h \in held, le_msg_ReleaseMsg(h) PROVE PlaceInv' /\ OnePlace'
    <2>1. PICK c \in Conns : c = h.c BY Zenon, <1>0
    <2>2. UNCHANGED client /\ held' = held \ {h} BY Zenon, <1>10 DEF le_msg_ReleaseMsg
    <2>3. CASE srv[h.c].state # "open"
        <3>1. UNCHANGED <<srv, c2s, s2c>> BY Zenon, <1>10, <2>3 DEF le_msg_ReleaseMsg
        <3> QED BY Zenon, <1>3, <2>2, <2>3, <3>1
    <2>4. CASE DeleteSession(h.c)
        <3>1. DeleteSession(c) BY Zenon, <2>1, <2>4 DEF DeleteSession, CloseSocket
        <3> QED BY Zenon, <1>1, <2>1, <2>2, <3>1
    <2> QED BY Zenon, <1>10, <2>3, <2>4 DEF le_msg_ReleaseMsg
<1> QED BY Zenon, <1>2, <1>4, <1>5, <1>6, <1>7, <1>8, <1>9, <1>10, PlaceAccepts, PlaceReads,
       PlaceProcesses DEF ServerThread, ServerApp

\* Every step keeps a request in one place.
LEMMA PlaceStep ==
    ASSUME Counting
    PROVE  /\ MsgInit => PlaceInv /\ OnePlace
           /\ MsgInv /\ MsgInv' /\ Accepted /\ PlaceInv /\ OnePlace /\ [MsgNext]_vars
              => (PlaceInv /\ OnePlace)'
<1>1. MsgInit => PlaceInv /\ OnePlace
    <2> SUFFICES ASSUME MsgInit PROVE PlaceInv /\ OnePlace BY Zenon
    <2>1. /\ transmitQueue = <<>> /\ held = {} /\ sync = NoReq /\ txnMap = {} /\ ~Live
          /\ conn = 0 /\ via = [r \in Reqs |-> 0]
          /\ \A c \in Conns : c2s[c] = <<>> /\ srv[c].rq = <<>>
        BY Zenon DEF MsgInit, Live, NewSession
    <2>2. MadeBy(via) BY ZenonT(40), <2>1, MadeForOne DEF MadeBy
    <2>3. PlaceInv BY <2>1, <2>2 DEF PlaceInv
    <2> QED BY Zenon, <2>1, <2>3 DEF OnePlace
<1>2. ASSUME MsgInv, MsgInv', Accepted, PlaceInv, OnePlace, MsgNext PROVE PlaceInv' /\ OnePlace'
    BY Zenon, <1>2, PlaceClient, PlaceServer DEF MsgNext
<1>3. ASSUME MsgInv, PlaceInv, OnePlace, UNCHANGED vars PROVE PlaceInv' /\ OnePlace'
    <2>1. UNCHANGED <<conn, txnMap, transmitQueue, receiveQueue, via, held, sync, syncSent,
                      c2s, s2c, srv, state>>
        BY Zenon, <1>3 DEF vars, client, server
    <2> QED BY Zenon, <1>3, <2>1, PlaceSame
<1> QED BY Zenon, <1>1, <1>2, <1>3

=============================================================================
