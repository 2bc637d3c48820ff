-------------------------- MODULE MsgQueueProofs --------------------------
(***************************************************************************)
(* Proofs about what is in the queues of a session, for any messages, any  *)
(* number of connections, any size of the sockets and any number of        *)
(* indications: a request that is not completed is in exactly one place,   *)
(* and indications stay in order.                                          *)
(***************************************************************************)
EXTENDS MsgRequestProofs, FiniteSetTheorems

-----------------------------------------------------------------------------
(* Counting the messages of queues.                                        *)

\* A finite set of numbers moved up by n.
LEMMA ShiftedSet ==
    ASSUME NEW B \in SUBSET Nat, IsFiniteSet(B), NEW n \in Nat
    PROVE  /\ IsFiniteSet({j + n : j \in B})
           /\ Cardinality({j + n : j \in B}) = Cardinality(B)
<1> DEFINE T == {j + n : j \in B}
           f == [j \in B |-> j + n]
<1>1. f \in [B -> T] BY Zenon
<1>2. \A a, b \in B : f[a] = f[b] => a = b OBVIOUS
<1>3. \A t \in T : \E a \in B : f[a] = t BY Zenon
<1>4. f \in Bijection(B, T)
    <2> HIDE DEF f, T
    <2>1. f \in Injection(B, T) BY Zenon, <1>1, <1>2 DEF Injection, IsInjective
    <2>2. f \in Surjection(B, T) BY Zenon, <1>1, <1>3 DEF Surjection
    <2> QED BY Zenon, <2>1, <2>2 DEF Bijection
<1>5. ExistsBijection(B, T) BY Zenon, <1>4 DEF ExistsBijection
<1> HIDE DEF T
<1>6. IsFiniteSet(T) /\ Cardinality(T) = Cardinality(B) BY Zenon, <1>5, FS_Bijection
<1> QED BY Zenon, <1>6 DEF T

\* C is the positions A of n and, moved up by n, the positions B of m.
Joins(C, A, n, B, m) ==
    /\ n \in Nat /\ m \in Nat /\ A \subseteq 1 .. n /\ B \subseteq 1 .. m
    /\ \A i : i \in C <=> i \in A \/ \E j \in B : i = j + n

\* A set of positions, some up to n and the others after it.
LEMMA TwoParts ==
    ASSUME NEW C, NEW A, NEW n, NEW B, NEW m, Joins(C, A, n, B, m)
    PROVE  /\ Cardinality(A) \in Nat /\ Cardinality(B) \in Nat
           /\ Cardinality(C) = Cardinality(A) + Cardinality(B)
<1> DEFINE T == {j + n : j \in B}
<1> USE DEF Joins
<1>1. IsFiniteSet(1 .. n) /\ IsFiniteSet(1 .. m)
    <2>1. 1 \in Int /\ n \in Int /\ m \in Int OBVIOUS
    <2> QED BY Zenon, <2>1, FS_Interval
<1>2. IsFiniteSet(A) /\ IsFiniteSet(B) BY Zenon, <1>1, FS_Subset
<1>3. B \in SUBSET Nat OBVIOUS
<1>4. IsFiniteSet(T) /\ Cardinality(T) = Cardinality(B) BY Zenon, <1>2, <1>3, ShiftedSet
<1>5. A \cap T = {} OBVIOUS
<1>6. C = A \cup T BY Zenon
<1> HIDE DEF T
<1>7. Cardinality(A) \in Nat /\ Cardinality(B) \in Nat BY Zenon, <1>2, FS_CardinalityType
<1>8. Cardinality(A \cup T) = Cardinality(A) + Cardinality(T) - Cardinality(A \cap T)
    BY Zenon, <1>2, <1>4, FS_Union
<1>9. Cardinality(A \cap T) = 0 BY Zenon, <1>5, FS_EmptySet
<1>10. Cardinality(C) = Cardinality(A) + Cardinality(B) BY <1>4, <1>6, <1>7, <1>8, <1>9
<1> QED BY Zenon, <1>7, <1>10

\* One queue behind another has the messages of both.
LEMMA CountConcat ==
    ASSUME NEW S, NEW p \in Seq(S), NEW q \in Seq(S), NEW m
    PROVE  /\ Times(p, m) \in Nat /\ Times(q, m) \in Nat
           /\ Times(p \o q, m) = Times(p, m) + Times(q, m)
<1> DEFINE A == Has(p, m)
           B == Has(q, m)
           n == Len(p)
           k == Len(q)
<1>1. n \in Nat /\ k \in Nat /\ DOMAIN p = 1 .. n /\ DOMAIN q = 1 .. k BY Zenon, LenProperties
<1>2. p \o q \in Seq(S) /\ Len(p \o q) = n + k BY Zenon, ConcatProperties
<1>3. DOMAIN (p \o q) = 1 .. n + k BY Zenon, <1>2, LenProperties
<1>4. \A i \in 1 .. n + k : (p \o q)[i] = IF i <= n THEN p[i] ELSE q[i - n]
    BY Zenon, ConcatProperties
<1>5. A \subseteq 1 .. n /\ B \subseteq 1 .. k BY Zenon, <1>1 DEF Has
<1> DEFINE C == Has(p \o q, m)
<1>6. Joins(C, A, n, B, k)
    <2> DEFINE r == p \o q
    <2>1. DOMAIN r = 1 .. n + k BY Zenon, <1>3
    <2>2. \A i \in 1 .. n + k : r[i] = IF i <= n THEN p[i] ELSE q[i - n] BY Zenon, <1>4
    <2>3. /\ \A i : i \in A <=> i \in 1 .. n /\ p[i] = m
          /\ \A i : i \in B <=> i \in 1 .. k /\ q[i] = m
        BY Zenon, <1>1 DEF Has
    <2> HIDE DEF A, B, n, k, r
    <2>4. ASSUME NEW i \in 1 .. n + k, r[i] = m PROVE i \in A \/ \E j \in B : i = j + n
        <3>1. CASE i <= n BY <1>1, <2>2, <2>3, <2>4, <3>1
        <3>2. CASE i > n
            <4>1. i - n \in 1 .. k /\ (i - n) + n = i BY <1>1, <3>2
            <4>2. q[i - n] = m BY <1>1, <2>2, <2>4, <3>2
            <4> QED BY Zenon, <2>3, <4>1, <4>2
        <3> QED BY <1>1, <3>1, <3>2
    <2>5. ASSUME NEW i \in A PROVE i \in 1 .. n + k /\ r[i] = m
        <3>1. i \in 1 .. n /\ p[i] = m BY Zenon, <2>3
        <3>2. i \in 1 .. n + k /\ i <= n BY <1>1, <3>1
        <3> QED BY Zenon, <2>2, <3>1, <3>2
    <2>6. ASSUME NEW j \in B PROVE j + n \in 1 .. n + k /\ r[j + n] = m
        <3>1. j \in 1 .. k /\ q[j] = m BY Zenon, <2>3
        <3>2. j + n \in 1 .. n + k /\ ~(j + n <= n) /\ (j + n) - n = j BY <1>1, <3>1
        <3>3. r[j + n] = q[(j + n) - n] BY Zenon, <2>2, <3>2
        <3> QED BY Zenon, <3>1, <3>2, <3>3
    <2>7. \A i : i \in C <=> i \in 1 .. n + k /\ r[i] = m BY Zenon, <2>1 DEF Has, r
    <2> HIDE DEF C
    <2> QED BY Zenon, <1>1, <1>5, <2>4, <2>5, <2>6, <2>7 DEF Joins
<1> HIDE DEF A, B, C, n, k
<1>7. /\ Cardinality(A) \in Nat /\ Cardinality(B) \in Nat
      /\ Cardinality(C) = Cardinality(A) + Cardinality(B)
    BY <1>6, TwoParts
<1> QED BY Zenon, <1>7 DEF Times, A, B, C

\* A queue of one message, and one of none.
LEMMA CountOfOne ==
    ASSUME NEW a, NEW m
    PROVE  Times(<<>>, m) = 0 /\ Times(<<a>>, m) = IF a = m THEN 1 ELSE 0
<1>1. Has(<<>>, m) = {} BY DEF Has
<1>2. a = m => Has(<<a>>, m) = {1} BY DEF Has
<1>3. a # m => Has(<<a>>, m) = {} BY DEF Has
<1> QED BY Zenon, <1>1, <1>2, <1>3, FS_EmptySet, FS_Singleton DEF Times

\* The steps of PlaceStep may count.
LEMMA Counts == Counting
<1>1. ASSUME NEW q, NEW m, Has(q, m) = {} PROVE Times(q, m) = 0
    BY Zenon, <1>1, FS_EmptySet DEF Times
<1> QED BY Zenon, <1>1, CountConcat, CountOfOne DEF Counting

\* A request waits with the server at most once, under the connection it was
\* made for.
LEMMA HeldOnce ==
    ASSUME MsgInv, PlaceInv, NEW r \in Reqs
    PROVE  Cardinality({h \in held : h.id = r}) = Waiting(r)
<1> DEFINE H == {h \in held : h.id = r}
           me == [id |-> r, c |-> via[r]]
<1>1. \A h \in held : h.id = r => h = me
    BY DEF MsgInv, ServerType, PlaceInv, MadeBy
<1>2. CASE me \in held
    <2>1. H = {me} BY <1>1, <1>2
    <2> QED BY Zenon, <1>2, <2>1, FS_Singleton DEF Waiting
<1>3. CASE me \notin held
    <2>1. H = {} BY Zenon, <1>1, <1>3
    <2> QED BY Zenon, <1>3, <2>1, FS_EmptySet DEF Waiting
<1> QED BY Zenon, <1>2, <1>3

\* The places of requests, invariantly.
THEOREM PlaceInvariant == MsgSpec => [](PlaceInv /\ OnePlace)
<1>1. MsgInit => PlaceInv /\ OnePlace BY Zenon, Counts, PlaceStep
<1>2. /\ MsgInv /\ MsgInv' /\ Accepted /\ PlaceInv /\ OnePlace /\ [MsgNext]_vars
      => (PlaceInv /\ OnePlace)'
    BY Zenon, Counts, PlaceStep
<1> QED BY <1>1, <1>2, MsgInvariant, AlwaysAccepted, PTL DEF MsgSpec

\* A request that is not completed, on a session that neither side has closed,
\* is in exactly one of the transmit queue, the two sockets, the server's
\* receive queue, its handler's hands, its transmit queue, the client's receive
\* queue and the blocked caller: the queues of messagingSession.c neither lose
\* nor repeat it (SendFromTransmitQueue, ProcessDeferredMessages).
THEOREM RequestsInOnePlace == MsgSpec => []RequestInOnePlace
<1>1. MsgInv /\ PlaceInv /\ OnePlace => RequestInOnePlace
    <2> SUFFICES ASSUME MsgInv, PlaceInv, OnePlace, NEW r \in txnMap,
                        via[r] = conn /\ state = "open" /\ ~ServerGone(conn)
                 PROVE  Times(transmitQueue, Msg("req", r)) + Times(c2s[conn], Msg("req", r))
                        + Times(srv[conn].rq, Msg("req", r))
                        + Cardinality({h \in held : h.id = r})
                        + Times(srv[conn].tq, Msg("rsp", r)) + Times(s2c[conn], Msg("rsp", r))
                        + Times(receiveQueue, Msg("rsp", r))
                        + (IF sync = r /\ ~syncSent THEN 1 ELSE 0) = 1
        BY Zenon DEF RequestInOnePlace, Times
    <2> DEFINE rs == Msg("rsp", r)
    <2>1. r \in Reqs /\ Live /\ Here(r) BY Zenon DEF MsgInv, ClientType, Live, Here
    <2>2. Places(r) = 1 BY Zenon, <2>1 DEF OnePlace
    <2>3. Cardinality({h \in held : h.id = r}) = Waiting(r) BY Zenon, <2>1, HeldOnce
    <2>4. (IF sync = r /\ ~syncSent THEN 1 ELSE 0) = Blocked(r) BY Zenon DEF Blocked
    <2>5. PICK x \in Seq(ToClient), y \in Seq(ToClient), z \in Seq(ToClient) :
            x = receiveQueue /\ y = s2c[conn] /\ z = srv[conn].tq
        BY Zenon, <2>1, QueueTypes DEF QueueType
    <2>6. Coming = x \o (y \o z) BY Zenon, <2>5 DEF Coming, Down
    <2>7. y \o z \in Seq(ToClient) BY Zenon, ConcatProperties
    <2> HIDE DEF rs
    <2>8. /\ Times(y, rs) \in Nat /\ Times(z, rs) \in Nat
          /\ Times(y \o z, rs) = Times(y, rs) + Times(z, rs)
        BY Zenon, CountConcat
    <2>9. Times(x, rs) \in Nat /\ Times(x \o (y \o z), rs) = Times(x, rs) + Times(y \o z, rs)
        BY ZenonT(40), <2>7, CountConcat
    <2>10. Times(Coming, rs) = Times(x, rs) + Times(y, rs) + Times(z, rs)
        BY <2>6, <2>8, <2>9
    <2>11. /\ Times(transmitQueue, Msg("req", r)) \in Nat
           /\ Times(c2s[conn], Msg("req", r)) \in Nat
           /\ Times(srv[conn].rq, Msg("req", r)) \in Nat
           /\ Waiting(r) \in Nat /\ Blocked(r) \in Nat
        BY <2>1, Counts, PlaceNumbers
    <2>12. Times(transmitQueue, Msg("req", r)) + Times(c2s[conn], Msg("req", r))
           + Times(srv[conn].rq, Msg("req", r)) + Waiting(r) + Times(Coming, rs) + Blocked(r) = 1
        BY Zenon, <2>2 DEF Places, rs
    <2>13. PICK a \in Nat, b \in Nat, e \in Nat, w \in Nat, d \in Nat :
             /\ a = Times(transmitQueue, Msg("req", r)) /\ b = Times(c2s[conn], Msg("req", r))
             /\ e = Times(srv[conn].rq, Msg("req", r)) /\ w = Waiting(r) /\ d = Blocked(r)
        BY Zenon, <2>11
    <2>14. PICK i \in Nat, j \in Nat, k \in Nat :
             i = Times(x, rs) /\ j = Times(y, rs) /\ k = Times(z, rs)
        BY Zenon, <2>8, <2>9
    <2>15. a + b + e + w + (i + j + k) + d = 1 BY Zenon, <2>10, <2>12, <2>13, <2>14
    <2>16. a + b + e + w + k + j + i + d = 1 BY <2>15
    <2> QED BY Zenon, <2>3, <2>4, <2>5, <2>13, <2>14, <2>16 DEF rs
<1> QED BY <1>1, MsgInvariant, PlaceInvariant, PTL

-----------------------------------------------------------------------------
(* The order of indications.                                              *)

\* The indications of q have the numbers after a.
Ordered(q, a) == \A i \in DOMAIN q : q[i].kind = "ind" => q[i].id = a + Indications(q, i)

\* How many they are.
AllIndications(q) == Indications(q, Len(q))

\* The indications of one queue behind another.
LEMMA IndicationsConcat ==
    ASSUME NEW S, NEW p \in Seq(S), NEW q \in Seq(S)
    PROVE  /\ AllIndications(p) \in Nat /\ AllIndications(q) \in Nat
           /\ \A i \in 1 .. Len(p) : Indications(p \o q, i) = Indications(p, i)
           /\ \A i \in 0 .. Len(q) : /\ Indications(q, i) \in Nat
                                     /\ Indications(p \o q, i + Len(p))
                                        = AllIndications(p) + Indications(q, i)
<1> DEFINE n == Len(p)
           k == Len(q)
           r == p \o q
           A == {j \in 1 .. n : p[j].kind = "ind"}
<1>1. n \in Nat /\ k \in Nat BY Zenon, LenProperties
<1>2. \A i \in 1 .. n + k : r[i] = IF i <= n THEN p[i] ELSE q[i - n]
    BY Zenon, ConcatProperties
<1> HIDE DEF n, k, r
<1>3. ASSUME NEW i \in 1 .. n PROVE Indications(r, i) = Indications(p, i)
    <2>1. \A j \in 1 .. i : r[j] = p[j] BY <1>1, <1>2
    <2>2. {j \in 1 .. i : r[j].kind = "ind"} = {j \in 1 .. i : p[j].kind = "ind"} BY Zenon, <2>1
    <2> QED BY Zenon, <2>2 DEF Indications
<1>4. ASSUME NEW i \in 0 .. k
      PROVE  /\ Indications(q, i) \in Nat /\ AllIndications(p) \in Nat
             /\ Indications(r, i + n) = AllIndications(p) + Indications(q, i)
    <2> DEFINE B == {j \in 1 .. i : q[j].kind = "ind"}
               C == {j \in 1 .. i + n : r[j].kind = "ind"}
    <2>1. \A j \in 1 .. n : j \in 1 .. i + n /\ r[j] = p[j] BY <1>1, <1>2
    <2>2. ASSUME NEW j \in 1 .. i PROVE j + n \in 1 .. i + n /\ r[j + n] = q[j]
        <3>1. j + n \in 1 .. i + n /\ j + n \in 1 .. n + k /\ ~(j + n <= n) /\ (j + n) - n = j
            BY <1>1
        <3>2. r[j + n] = q[(j + n) - n] BY Zenon, <1>2, <3>1
        <3> QED BY Zenon, <3>1, <3>2
    <2>3. ASSUME NEW j \in 1 .. i + n
          PROVE  \/ j \in 1 .. n /\ r[j] = p[j]
                 \/ j - n \in 1 .. i /\ j = (j - n) + n /\ r[j] = q[j - n]
        BY <1>1, <1>2
    <2>4. ASSUME NEW j \in C PROVE j \in A \/ \E x \in B : j = x + n
        <3>1. CASE j \in 1 .. n /\ r[j] = p[j] BY Zenon, <3>1
        <3>2. CASE j - n \in 1 .. i /\ j = (j - n) + n /\ r[j] = q[j - n]
            <4>1. j - n \in B BY Zenon, <3>2
            <4> QED BY Zenon, <3>2, <4>1
        <3> QED BY Zenon, <2>3, <3>1, <3>2
    <2>5. \A j \in A : j \in C BY Zenon, <2>1
    <2>6. \A x \in B : x + n \in C BY Zenon, <2>2
    <2>7. A \subseteq 1 .. n /\ B \subseteq 1 .. i /\ i \in Nat BY <1>1
    <2> HIDE DEF A, B, C
    <2>8. Joins(C, A, n, B, i) BY Zenon, <1>1, <2>4, <2>5, <2>6, <2>7 DEF Joins
    <2>9. /\ Cardinality(A) \in Nat /\ Cardinality(B) \in Nat
          /\ Cardinality(C) = Cardinality(A) + Cardinality(B)
        BY <2>8, TwoParts
    <2> QED BY Zenon, <2>9 DEF Indications, AllIndications, A, B, C, n
<1>5. 0 \in 0 .. k /\ k \in 0 .. k BY <1>1
<1>6. AllIndications(p) \in Nat BY Zenon, <1>4, <1>5
<1>7. AllIndications(q) \in Nat BY Zenon, <1>4, <1>5 DEF AllIndications, k
<1> QED BY Zenon, <1>3, <1>4, <1>6, <1>7 DEF n, k, r

\* One queue in order behind another.
LEMMA OrderedConcat ==
    ASSUME NEW S, NEW p \in Seq(S), NEW q \in Seq(S), NEW a \in Nat
    PROVE  /\ Ordered(p \o q, a) <=> Ordered(p, a) /\ Ordered(q, a + AllIndications(p))
           /\ AllIndications(p \o q) = AllIndications(p) + AllIndications(q)
<1> DEFINE n == Len(p)
           k == Len(q)
           r == p \o q
           b == AllIndications(p)
<1>1. n \in Nat /\ k \in Nat /\ DOMAIN p = 1 .. n /\ DOMAIN q = 1 .. k BY Zenon, LenProperties
<1>2. r \in Seq(S) /\ Len(r) = n + k BY Zenon, ConcatProperties
<1>3. DOMAIN r = 1 .. n + k BY Zenon, <1>2, LenProperties
<1>4. \A i \in 1 .. n + k : r[i] = IF i <= n THEN p[i] ELSE q[i - n]
    BY Zenon, ConcatProperties
<1>5. /\ b \in Nat
      /\ \A i \in 1 .. n : Indications(r, i) = Indications(p, i)
      /\ \A i \in 0 .. k : Indications(q, i) \in Nat /\ Indications(r, i + n) = b + Indications(q, i)
    BY IndicationsConcat
<1>6. AllIndications(r) = b + AllIndications(q)
    <2>1. k \in 0 .. k /\ k + n = n + k BY <1>1
    <2>2. Indications(r, k + n) = b + Indications(q, k) BY Zenon, <1>5, <2>1
    <2> QED BY Zenon, <1>2, <2>1, <2>2 DEF AllIndications
<1> HIDE DEF n, k, r, b
<1>7. \A i \in 1 .. n : i \in 1 .. n + k /\ r[i] = p[i] BY <1>1, <1>4
<1>8. ASSUME NEW i \in 1 .. k
      PROVE  /\ i + n \in 1 .. n + k /\ r[i + n] = q[i]
             /\ a + Indications(r, i + n) = (a + b) + Indications(q, i)
    <2>1. i + n \in 1 .. n + k /\ ~(i + n <= n) /\ (i + n) - n = i /\ i \in 0 .. k BY <1>1
    <2>2. r[i + n] = q[(i + n) - n] BY Zenon, <1>4, <2>1
    <2>3. Indications(q, i) \in Nat /\ Indications(r, i + n) = b + Indications(q, i)
        BY Zenon, <1>5, <2>1
    <2> QED BY <1>5, <2>1, <2>2, <2>3
<1>9. Ordered(r, a) => Ordered(p, a)
    <2> SUFFICES ASSUME Ordered(r, a), NEW i \in 1 .. n, p[i].kind = "ind"
                 PROVE  p[i].id = a + Indications(p, i)
        BY Zenon, <1>1 DEF Ordered
    <2>1. r[i].kind = "ind" /\ i \in DOMAIN r /\ r[i] = p[i] BY Zenon, <1>3, <1>7
    <2>2. r[i].id = a + Indications(r, i) BY Zenon, <2>1 DEF Ordered
    <2> QED BY Zenon, <1>5, <2>1, <2>2
<1>10. Ordered(r, a) => Ordered(q, a + b)
    <2> SUFFICES ASSUME Ordered(r, a), NEW i \in 1 .. k, q[i].kind = "ind"
                 PROVE  q[i].id = (a + b) + Indications(q, i)
        BY Zenon, <1>1 DEF Ordered
    <2>1. r[i + n] = q[i] /\ r[i + n].kind = "ind" /\ i + n \in DOMAIN r BY Zenon, <1>3, <1>8
    <2>2. r[i + n].id = a + Indications(r, i + n) BY Zenon, <2>1 DEF Ordered
    <2>3. a + Indications(r, i + n) = (a + b) + Indications(q, i) BY Zenon, <1>8
    <2> QED BY Zenon, <2>1, <2>2, <2>3
<1>11. Ordered(p, a) /\ Ordered(q, a + b) => Ordered(r, a)
    <2> SUFFICES ASSUME Ordered(p, a), Ordered(q, a + b), NEW i \in 1 .. n + k,
                        r[i].kind = "ind"
                 PROVE  r[i].id = a + Indications(r, i)
        BY Zenon, <1>3 DEF Ordered
    <2>1. CASE i \in 1 .. n
        <3>1. r[i] = p[i] /\ i \in DOMAIN p /\ Indications(r, i) = Indications(p, i)
            BY Zenon, <1>1, <1>5, <1>7, <2>1
        <3> QED BY Zenon, <3>1 DEF Ordered
    <2>2. CASE i \notin 1 .. n
        <3>1. PICK j \in 1 .. k : i = j + n
            <4>1. i - n \in 1 .. k /\ i = (i - n) + n BY <1>1, <2>2
            <4> QED BY Zenon, <4>1
        <3>2. r[i] = q[j] /\ a + Indications(r, i) = (a + b) + Indications(q, j)
            BY Zenon, <1>8, <3>1
        <3>3. q[j].id = (a + b) + Indications(q, j) BY Zenon, <1>1, <3>2 DEF Ordered
        <3> QED BY Zenon, <3>2, <3>3
    <2> QED BY Zenon, <2>1, <2>2
<1>12. Ordered(r, a) <=> Ordered(p, a) /\ Ordered(q, a + b) BY Zenon, <1>9, <1>10, <1>11
<1> QED BY Zenon, <1>6, <1>12 DEF r, b

\* A queue of one message, and one of none.
LEMMA OrderedOne ==
    ASSUME NEW a \in Nat, NEW m
    PROVE  /\ Ordered(<<>>, a) /\ AllIndications(<<>>) = 0
           /\ AllIndications(<<m>>) = IF m.kind = "ind" THEN 1 ELSE 0
           /\ Ordered(<<m>>, a) <=> (m.kind = "ind" => m.id = a + 1)
<1>1. Ordered(<<>>, a) BY DEF Ordered
<1>2. AllIndications(<<>>) = 0
    <2>1. Len(<<>>) = 0 /\ 1 .. 0 = {} OBVIOUS
    <2>2. {j \in 1 .. Len(<<>>) : <<>>[j].kind = "ind"} = {} BY Zenon, <2>1
    <2> QED BY Zenon, <2>2, FS_EmptySet DEF AllIndications, Indications
<1> DEFINE s == <<m>>
           B == {j \in 1 .. 1 : s[j].kind = "ind"}
<1>3. DOMAIN s = {1} /\ s[1] = m /\ Len(s) = 1 OBVIOUS
<1> HIDE DEF s
<1>4. m.kind = "ind" => B = {1} BY <1>3
<1>5. m.kind # "ind" => B = {} BY <1>3
<1> HIDE DEF B
<1>6. Cardinality(B) = IF m.kind = "ind" THEN 1 ELSE 0
    BY Zenon, <1>4, <1>5, FS_EmptySet, FS_Singleton
<1>7. Indications(s, 1) = IF m.kind = "ind" THEN 1 ELSE 0 BY Zenon, <1>6 DEF Indications, B
<1>8. AllIndications(s) = IF m.kind = "ind" THEN 1 ELSE 0 BY Zenon, <1>3, <1>7 DEF AllIndications
<1>9. Ordered(s, a) <=> (m.kind = "ind" => m.id = a + 1) BY Zenon, <1>3, <1>7 DEF Ordered
<1> QED BY Zenon, <1>1, <1>2, <1>8, <1>9 DEF s

\* The same after a step.
LEMMA QueueTypesNext == MsgInv' => QueueType'
BY QueueTypes, PTL

\* The head of a queue stays its head when something is put behind it.
LEMMA HeadOfConcat ==
    ASSUME NEW S, NEW p \in Seq(S), NEW q \in Seq(S), p # <<>>
    PROVE  p \o q # <<>> /\ Head(p \o q) = Head(p)
<1>1. Len(p) \in Nat \ {0} /\ Len(q) \in Nat BY Zenon, EmptySeq, LenProperties
<1>2. p \o q \in Seq(S) /\ Len(p \o q) = Len(p) + Len(q)
      /\ \A i \in 1 .. Len(p) + Len(q) : (p \o q)[i] = IF i <= Len(p) THEN p[i] ELSE q[i - Len(p)]
    BY Zenon, ConcatProperties
<1> DEFINE r == p \o q
<1>3. r \in Seq(S) /\ Len(r) \in Nat \ {0} /\ r[1] = p[1]
    <2>1. 1 \in 1 .. Len(p) + Len(q) /\ 1 <= Len(p) BY <1>1
    <2> QED BY <1>1, <1>2, <2>1
<1> HIDE DEF r
<1>4. ASSUME NEW s \in Seq(S), Len(s) # 0 PROVE s # <<>> /\ Head(s) = s[1]
    BY <1>4
<1>5. r # <<>> /\ Head(r) = r[1] BY Zenon, <1>3, <1>4
<1>6. Head(p) = p[1] BY Zenon, <1>1, <1>4
<1> QED BY Zenon, <1>3, <1>5, <1>6 DEF r

\* What waits in the socket is not overtaken.
LEMMA SentBehind ==
    ASSUME MsgInv, NEW c \in Conns, NEW q \in Seq(ToClient), NEW n, SendToClient(c, q, n),
           s2c[c] # <<>>
    PROVE  s2c'[c] # <<>> /\ Head(s2c'[c]) = Head(s2c[c])
<1>0. s2c \in [Conns -> Seq(ToClient)] /\ s2c[c] \in Seq(ToClient)
    BY Zenon DEF MsgInv, ServerType
<1>1. CASE ClientGone(c) BY Zenon, <1>1 DEF SendToClient
<1>2. CASE ~ClientGone(c)
    <2> DEFINE k == Least(SockCap - Len(s2c[c]), Len(q))
    <2>1. Len(s2c[c]) \in 0 .. SockCap /\ SockCap - Len(s2c[c]) \in Nat
        BY <1>0, MsgConstants, LenProperties DEF MsgInv, ConnInv
    <2>2. k \in 0 .. Len(q) BY Zenon, <2>1, MsgConstants, LenProperties, LeastOfTwo
    <2>3. s2c' = [s2c EXCEPT ![c] = @ \o SubSeq(q, 1, k)]
        BY Zenon, <1>2 DEF SendToClient
    <2> HIDE DEF k
    <2>4. s2c'[c] = s2c[c] \o SubSeq(q, 1, k) /\ SubSeq(q, 1, k) \in Seq(ToClient)
        BY Zenon, <1>0, <2>2, <2>3, Queues
    <2> QED BY Zenon, <1>0, <2>4, HeadOfConcat
<1> QED BY Zenon, <1>1, <1>2

\* The inductive invariant: what is on its way is in order after what was
\* processed, up to what the server has counted; while the session opens, the
\* answer to that comes first.
OrderInv ==
    /\ \A c \in Conns : srv[c].state = "none" => srv[c].inds = 0
    /\ Live => Ordered(Coming, seen)
    /\ Live /\ srv[conn].state # "closed" => srv[conn].inds = seen + AllIndications(Coming)
    /\ state \in {"opening", "opensync"} =>
         /\ s2c[conn] # <<>> => Head(s2c[conn]).kind = "hello"
         /\ srv[conn].state = "open" => s2c[conn] # <<>>

\* A queue without its first message, or without one in the middle that is not
\* an indication.
LEMMA OrderedRest ==
    ASSUME NEW S, NEW p \in Seq(S), NEW q \in Seq(S), NEW m \in S, NEW a \in Nat,
           Ordered(p \o (<<m>> \o q), a), m.kind # "ind"
    PROVE  Ordered(p \o q, a) /\ AllIndications(p \o q) = AllIndications(p \o (<<m>> \o q))
<1> DEFINE b == AllIndications(p)
           one == <<m>>
           r == one \o q
<1>1. one \in Seq(S) /\ b \in Nat /\ AllIndications(q) \in Nat BY IndicationsConcat
<1>2. AllIndications(one) = 0 BY Zenon, OrderedOne
<1> HIDE DEF one
<1>3. r \in Seq(S) BY Zenon, <1>1, ConcatProperties
<1>4. /\ Ordered(p \o r, a) <=> Ordered(p, a) /\ Ordered(r, a + b)
      /\ AllIndications(p \o r) = b + AllIndications(r)
    BY Zenon, <1>3, OrderedConcat
<1>5. /\ Ordered(r, a + b) <=> Ordered(one, a + b) /\ Ordered(q, (a + b) + 0)
      /\ AllIndications(r) = 0 + AllIndications(q)
    BY <1>1, <1>2, OrderedConcat
<1>6. /\ Ordered(p \o q, a) <=> Ordered(p, a) /\ Ordered(q, a + b)
      /\ AllIndications(p \o q) = b + AllIndications(q)
    BY Zenon, OrderedConcat
<1>7. (a + b) + 0 = a + b /\ 0 + AllIndications(q) = AllIndications(q) BY <1>1
<1>8. Ordered(p \o r, a) BY Zenon DEF r, one
<1> HIDE DEF b, r
<1>9. Ordered(p \o q, a) /\ AllIndications(p \o q) = AllIndications(p \o r)
    BY Zenon, <1>4, <1>5, <1>6, <1>7, <1>8
<1> QED BY Zenon, <1>9 DEF r, one

\* A queue without its first message.
LEMMA OrderedTail ==
    ASSUME NEW S, NEW q \in Seq(S), NEW m \in S, NEW a \in Nat, Ordered(<<m>> \o q, a)
    PROVE  /\ m.kind = "ind" => /\ m.id = a + 1 /\ Ordered(q, a + 1)
                                /\ AllIndications(<<m>> \o q) = 1 + AllIndications(q)
           /\ m.kind # "ind" => /\ Ordered(q, a)
                                /\ AllIndications(<<m>> \o q) = AllIndications(q)
           /\ AllIndications(q) \in Nat
<1> DEFINE one == <<m>>
           i == IF m.kind = "ind" THEN 1 ELSE 0
<1>1. one \in Seq(S) /\ AllIndications(q) \in Nat BY IndicationsConcat
<1>2. AllIndications(one) = i /\ (Ordered(one, a) <=> (m.kind = "ind" => m.id = a + 1))
    BY Zenon, OrderedOne
<1>3. Ordered(one \o q, a) BY Zenon
<1> HIDE DEF one, i
<1>4. Ordered(one, a) /\ Ordered(q, a + i) /\ AllIndications(one \o q) = i + AllIndications(q)
    BY Zenon, <1>1, <1>2, <1>3, OrderedConcat
<1>5. (m.kind = "ind" => i = 1) /\ (m.kind # "ind" => i = 0) BY Zenon DEF i
<1>6. a + 0 = a /\ 0 + AllIndications(q) = AllIndications(q) BY <1>1
<1> QED BY Zenon, <1>1, <1>2, <1>4, <1>5, <1>6 DEF one

\* A message is put behind what is on its way.
LEMMA OrderedMore ==
    ASSUME NEW S, NEW q \in Seq(S), NEW m \in S, NEW a \in Nat, Ordered(q, a),
           m.kind = "ind" => m.id = a + AllIndications(q) + 1
    PROVE  /\ Ordered(q \o <<m>>, a) /\ AllIndications(q) \in Nat
           /\ AllIndications(q \o <<m>>)
              = AllIndications(q) + (IF m.kind = "ind" THEN 1 ELSE 0)
<1> DEFINE one == <<m>>
           b == AllIndications(q)
<1>1. one \in Seq(S) /\ b \in Nat BY IndicationsConcat
<1>2. a + b \in Nat BY <1>1
<1> HIDE DEF b
<1>3. /\ AllIndications(one) = IF m.kind = "ind" THEN 1 ELSE 0
      /\ Ordered(one, a + b) <=> (m.kind = "ind" => m.id = (a + b) + 1)
    BY Zenon, <1>2, OrderedOne
<1>4. Ordered(one, a + b) BY Zenon, <1>3 DEF b
<1> HIDE DEF one
<1>5. Ordered(q \o one, a) /\ AllIndications(q \o one) = b + AllIndications(one)
    BY Zenon, <1>1, <1>4, OrderedConcat DEF b
<1> QED BY Zenon, <1>1, <1>3, <1>5 DEF one, b

\* The order of indications, invariantly.
THEOREM OrderInvariant == MsgSpec => []OrderInv
\* A step that changes nothing on its way from the server.
<1>OrderSame.
    ASSUME MsgInv, OrderInv, UNCHANGED <<conn, receiveQueue, s2c, seen>>,
           Live' => state' = state,
           \A d \in Conns : /\ srv'[d].state = srv[d].state /\ srv'[d].tq = srv[d].tq
                            /\ srv'[d].inds = srv[d].inds
    PROVE  OrderInv'
    <2> USE <1>OrderSame
    <2>1. \A c \in Conns : srv'[c].state = "none" => srv'[c].inds = 0 BY Zenon DEF OrderInv
    <2>2. CASE ~Live'
        BY Zenon, <2>1, <2>2 DEF OrderInv, Live
    <2>3. CASE Live'
        <3>1. Live /\ conn \in Conns /\ state' = state BY Zenon, <2>3, QueueTypes DEF QueueType, Live
        <3>2. Coming' = Coming BY Zenon, <3>1 DEF Coming, Down
        <3>3. Ordered(Coming', seen') BY Zenon, <3>1, <3>2 DEF OrderInv
        <3>4. srv'[conn].state # "closed" => srv'[conn].inds = seen' + AllIndications(Coming')
            BY Zenon, <3>1, <3>2 DEF OrderInv
        <3>5. state \in {"opening", "opensync"} =>
                /\ s2c'[conn] # <<>> => Head(s2c'[conn]).kind = "hello"
                /\ srv'[conn].state = "open" => s2c'[conn] # <<>>
            BY Zenon, <3>1 DEF OrderInv
        <3> QED BY Zenon, <2>1, <3>1, <3>3, <3>4, <3>5 DEF OrderInv, Ordered, AllIndications, Indications
    <2> QED BY Zenon, <2>2, <2>3

\* An attempt to open makes a connection that nothing was sent on.
<1>OrderOpens.
    ASSUME MsgInv, OrderInv, NEW as \in {"opening", "opensync"}, StartSessionOpenAttempt(as),
           UNCHANGED srv, receiveQueue' = <<>>,
           \A c \in Conns : s2c[c] = <<>> => s2c'[c] = <<>>
    PROVE  OrderInv'
    <2> USE <1>OrderOpens
    <2>1. \A c \in Conns : srv'[c].state = "none" => srv'[c].inds = 0 BY Zenon DEF OrderInv
    <2>2. CASE state' = "dead" BY Zenon, <2>1, <2>2 DEF OrderInv, Live
    <2>3. CASE conn < MaxConn /\ conn' = conn + 1 /\ seen' = 0
        <3>1. conn' \in Conns /\ ~(conn' <= conn) BY <2>3, MsgConstants DEF MsgInv, ClientType, Conns
        <3>2. srv[conn'].state = "none" /\ s2c[conn'] = <<>> /\ srv[conn'].tq = <<>>
            BY Zenon, <3>1 DEF MsgInv, ConnInv
        <3>3. srv'[conn'].state = "none" /\ srv'[conn'].inds = 0 /\ s2c'[conn'] = <<>>
            BY Zenon, <2>1, <3>1, <3>2
        <3>4. Coming' = <<>>
            <4>1. Coming' = <<>> \o (<<>> \o <<>>) BY Zenon, <3>2, <3>3 DEF Coming, Down
            <4> QED BY Zenon, <4>1, EmptyQueue, NothingAdded
        <3>5. Ordered(Coming', seen') /\ AllIndications(Coming') = 0
            BY Zenon, <2>3, <3>4, OrderedOne
        <3>6. srv'[conn'].inds = seen' + AllIndications(Coming') BY <2>3, <3>3, <3>5
        <3> QED BY Zenon, <2>1, <3>3, <3>5, <3>6 DEF OrderInv, Ordered, AllIndications, Indications
    <2> QED BY Zenon, <2>2, <2>3 DEF StartSessionOpenAttempt

\* Sessions that end on the server side send nothing more.
<1>OrderEnds.
    ASSUME MsgInv, OrderInv, UNCHANGED client,
           \A d \in Conns : \/ srv'[d] = srv[d] /\ s2c'[d] = s2c[d]
                            \/ /\ srv'[d] = ClosedSession
                               /\ s2c'[d] = s2c[d] \/ s2c'[d] = <<>>
    PROVE  OrderInv'
    <2> USE <1>OrderEnds
    <2>1. \A c \in Conns : srv'[c].state = "none" => srv'[c].inds = 0
        BY Zenon, EmptySessions DEF OrderInv
    <2>2. UNCHANGED <<state, conn, receiveQueue, seen>> BY Zenon DEF client
    <2>3. CASE ~Live
        BY Zenon, <2>1, <2>2, <2>3 DEF OrderInv, Live
    <2>4. CASE Live
        <3>0. /\ conn \in Conns /\ receiveQueue \in Seq(ToClient) /\ Down(conn) \in Seq(ToClient)
              /\ s2c[conn] \in Seq(ToClient) /\ srv[conn].tq \in Seq(ToClient) /\ seen \in Nat
            BY <2>4, QueueTypes DEF QueueType, MsgInv, ClientType
        <3>1. CASE srv'[conn] = srv[conn] /\ s2c'[conn] = s2c[conn]
            <4>1. Coming' = Coming BY Zenon, <2>2, <3>1 DEF Coming, Down
            <4> QED BY Zenon, <2>1, <2>2, <2>4, <3>1, <4>1
                   DEF OrderInv, Ordered, AllIndications, Indications, Live
        <3>2. CASE srv'[conn] = ClosedSession /\ (s2c'[conn] = s2c[conn] \/ s2c'[conn] = <<>>)
            <4>1. srv'[conn].state = "closed" /\ srv'[conn].tq = <<>> BY Zenon, <3>2, EmptySessions
            <4>2. Coming' = receiveQueue \o s2c'[conn]
                <5>1. s2c'[conn] \in Seq(ToClient) BY Zenon, <3>0, <3>2, EmptyQueue
                <5>2. s2c'[conn] \o <<>> = s2c'[conn] BY Zenon, <5>1, NothingAdded
                <5> QED BY Zenon, <2>2, <4>1, <5>2 DEF Coming, Down
            <4> DEFINE a == seen + AllIndications(receiveQueue)
            <4>3. a \in Nat BY <3>0, IndicationsConcat
            <4>4. Ordered(receiveQueue, seen) /\ Ordered(Down(conn), a)
                BY Zenon, <2>4, <3>0, OrderedConcat DEF OrderInv, Coming
            <4>5. Ordered(s2c[conn], a)
                <5> HIDE DEF a
                <5> QED BY SMTT(30), <3>0, <4>3, <4>4, OrderedConcat DEF Down
            <4>6. Ordered(s2c'[conn], a)
                <5> HIDE DEF a
                <5> QED BY Zenon, <3>2, <4>3, <4>5, OrderedOne
            <4>7. Ordered(receiveQueue \o s2c'[conn], seen)
                <5>1. s2c'[conn] \in Seq(ToClient) BY Zenon, <3>0, <3>2, EmptyQueue
                <5> QED BY Zenon, <3>0, <4>4, <4>6, <5>1, OrderedConcat
            <4>8. Ordered(Coming', seen') BY Zenon, <2>2, <4>2, <4>7
            <4>9. state \in {"opening", "opensync"} =>
                    (s2c'[conn] # <<>> => Head(s2c'[conn]).kind = "hello")
                BY Zenon, <3>2 DEF OrderInv
            <4> QED BY Zenon, <2>1, <2>2, <4>1, <4>8, <4>9
                   DEF OrderInv, Ordered, AllIndications, Indications
        <3> QED BY Zenon, <3>0, <3>1, <3>2
    <2> QED BY Zenon, <2>3, <2>4

\* The server sends: what it had queued, or one message more.
<1>OrderSends.
    ASSUME MsgInv, OrderInv,
           \/ \E c \in Conns : ServerSocketWriteable(c) \/ SendIndication(c)
           \/ \E h \in held : le_msg_Respond(h)
    PROVE  OrderInv'
    <2> USE <1>OrderSends
    <2>0. UNCHANGED <<state, conn, receiveQueue, seen>>
        BY Zenon DEF ServerSocketWriteable, SendIndication, le_msg_Respond, client
    <2>t. seen \in Nat /\ \A c \in Conns :
            /\ srv[c].tq \in Seq(ToClient) /\ s2c[c] \in Seq(ToClient) /\ Down(c) \in Seq(ToClient)
            /\ srv[c].inds \in 0 .. MaxInd
        <3>1. seen \in Nat BY DEF MsgInv, ClientType
        <3> QED BY Zenon, <3>1, QueueTypes DEF QueueType
    <2>1. ASSUME NEW c \in Conns, srv[c].state = "open", NEW q \in Seq(ToClient),
                 NEW n \in 0 .. MaxInd, SendToClient(c, q, n),
                 \/ q = srv[c].tq /\ n = srv[c].inds
                 \/ \E m \in ToClient :
                      /\ q = Append(srv[c].tq, m)
                      /\ IF m.kind = "ind" THEN m.id = n /\ n = srv[c].inds + 1 ELSE n = srv[c].inds
          PROVE  OrderInv'
        <3>1. /\ Down(c)' = s2c[c] \o q /\ srv'[c].state = "open" /\ srv'[c].inds = n
              /\ \A d \in Conns : d # c => srv'[d] = srv[d] /\ s2c'[d] = s2c[d]
            BY Zenon, <2>1, SentDown
        <3>2. \A d \in Conns : srv'[d].state = "none" => srv'[d].inds = 0
            BY Zenon, <3>1 DEF OrderInv
        <3>3. CASE ~Live BY Zenon, <2>0, <3>2, <3>3 DEF OrderInv, Live
        <3>4. CASE Live /\ c # conn
            <4>1. conn \in Conns BY Zenon, <3>4, QueueTypes DEF QueueType
            <4>2. srv'[conn] = srv[conn] /\ s2c'[conn] = s2c[conn] BY Zenon, <3>1, <3>4, <4>1
            <4>3. Coming' = Coming BY Zenon, <2>0, <4>2 DEF Coming, Down
            <4> QED BY Zenon, <2>0, <3>2, <3>4, <4>2, <4>3
                   DEF OrderInv, Ordered, AllIndications, Indications, Live
        <3>5. CASE Live /\ c = conn
            <4>1. /\ Coming \in Seq(ToClient) /\ receiveQueue \in Seq(ToClient)
                  /\ Ordered(Coming, seen) /\ srv[c].inds = seen + AllIndications(Coming)
                BY Zenon, <2>1, <3>5, QueueTypes DEF QueueType, OrderInv
            <4>2. Coming' = receiveQueue \o (s2c[c] \o q)
                BY Zenon, <2>0, <3>1, <3>5 DEF Coming, Down
            <4>3. Ordered(Coming', seen) /\ n = seen + AllIndications(Coming')
                <5>1. CASE q = srv[c].tq /\ n = srv[c].inds
                    <6>1. Coming' = Coming BY Zenon, <3>5, <4>2, <5>1 DEF Coming, Down
                    <6> QED BY Zenon, <4>1, <5>1, <6>1
                <5>2. ASSUME NEW m \in ToClient, q = Append(srv[c].tq, m),
                             IF m.kind = "ind" THEN m.id = n /\ n = srv[c].inds + 1
                             ELSE n = srv[c].inds
                      PROVE  Ordered(Coming', seen) /\ n = seen + AllIndications(Coming')
                    <6> DEFINE one == <<m>>
                    <6>1. one \in Seq(ToClient) /\ q = srv[c].tq \o one
                        BY SMTT(30), <2>t, <5>2, AppendIsConcat
                    <6>2. seen + AllIndications(Coming) + 1 = srv[c].inds + 1 BY Zenon, <4>1
                    <6>3. m.kind = "ind" => m.id = seen + AllIndications(Coming) + 1
                        BY Zenon, <5>2, <6>2
                    <6>4. /\ Ordered(Coming \o one, seen) /\ AllIndications(Coming) \in Nat
                          /\ AllIndications(Coming \o one)
                             = AllIndications(Coming) + (IF m.kind = "ind" THEN 1 ELSE 0)
                        BY Zenon, <2>t, <4>1, <6>3, OrderedMore
                    <6> HIDE DEF one
                    <6>6. Coming' = Coming \o one
                        <7>1. PICK r \in Seq(ToClient), s \in Seq(ToClient), t \in Seq(ToClient) :
                                 r = receiveQueue /\ s = s2c[c] /\ t = srv[c].tq
                            BY Zenon, <2>t, <4>1
                        <7>2. Behind(r, s, t, m) BY Zenon, AddedLast
                        <7>3. Coming' = r \o (s \o Append(t, m)) BY Zenon, <4>2, <5>2, <7>1
                        <7>4. Coming = r \o (s \o t) BY Zenon, <3>5, <7>1 DEF Coming, Down
                        <7> QED BY Zenon, <7>2, <7>3, <7>4 DEF one, Behind
                    <6>7. n = srv[c].inds + (IF m.kind = "ind" THEN 1 ELSE 0)
                        BY <2>t, <5>2
                    <6>8. n = seen + AllIndications(Coming \o one)
                        BY SMTT(30), <2>t, <4>1, <6>4, <6>7
                    <6> QED BY Zenon, <6>4, <6>6, <6>8
                <5> QED BY Zenon, <2>1, <5>1, <5>2
            <4>4. state \in {"opening", "opensync"} =>
                    s2c'[c] # <<>> /\ Head(s2c'[c]).kind = "hello"
                <5>1. state \in {"opening", "opensync"} =>
                        s2c[c] # <<>> /\ Head(s2c[c]).kind = "hello"
                    BY Zenon, <2>1, <3>5 DEF OrderInv
                <5>2. s2c[c] # <<>> => s2c'[c] # <<>> /\ Head(s2c'[c]) = Head(s2c[c])
                    BY Zenon, <2>1, SentBehind
                <5> QED BY Zenon, <5>1, <5>2
            <4> QED BY Zenon, <2>0, <3>1, <3>2, <3>5, <4>3, <4>4
                   DEF OrderInv, Ordered, AllIndications, Indications
        <3> QED BY Zenon, <3>3, <3>4, <3>5
    <2>2. ASSUME NEW c \in Conns, ServerSocketWriteable(c) PROVE OrderInv'
        <3>1. srv[c].state = "open" /\ SendToClient(c, srv[c].tq, srv[c].inds)
            BY Zenon, <2>2 DEF ServerSocketWriteable
        <3> QED BY Zenon, <2>1, <2>t, <3>1
    <2>3. ASSUME NEW c \in Conns, SendIndication(c) PROVE OrderInv'
        <3> DEFINE n == srv[c].inds + 1
                   m == Msg("ind", n)
        <3>1. srv[c].state = "open" /\ SendToClient(c, Append(srv[c].tq, m), n)
              /\ srv[c].inds < MaxInd
            BY Zenon, <2>3 DEF SendIndication
        <3>2. n \in 1 .. MaxInd /\ n \in 0 .. MaxInd BY <2>t, <3>1, MsgConstants
        <3>3. m \in ToClient /\ m.kind = "ind" /\ m.id = n BY Zenon, <3>2 DEF Msg, ToClient
        <3>4. n = srv[c].inds + 1 BY Zenon
        <3> HIDE DEF m, n
        <3>5. Append(srv[c].tq, m) \in Seq(ToClient) BY Zenon, <2>t, <3>3, AppendProperties
        <3> QED BY Zenon, <2>1, <3>1, <3>2, <3>3, <3>4, <3>5
    <2>4. ASSUME NEW h \in held, le_msg_Respond(h) PROVE OrderInv'
        <3>1. h.c \in Conns /\ h.id \in Reqs BY Zenon DEF MsgInv, ServerType
        <3>2. CASE srv[h.c].state = "open"
            <4> DEFINE m == Msg("rsp", h.id)
            <4>1. SendToClient(h.c, Append(srv[h.c].tq, m), srv[h.c].inds)
                BY Zenon, <2>4, <3>2 DEF le_msg_Respond
            <4>2. m \in ToClient /\ m.kind # "ind" BY Zenon, <3>1 DEF Msg, ToClient
            <4> HIDE DEF m
            <4>3. Append(srv[h.c].tq, m) \in Seq(ToClient) BY Zenon, <2>t, <3>1, <4>2, AppendProperties
            <4>4. PICK c \in Conns : c = h.c BY Zenon, <3>1
            <4>5. SendToClient(c, Append(srv[c].tq, m), srv[c].inds)
                BY Zenon, <4>1, <4>4 DEF SendToClient, ClientGone
            <4> QED BY Zenon, <2>1, <2>t, <3>2, <4>2, <4>3, <4>4, <4>5
        <3>3. CASE srv[h.c].state # "open"
            <4>1. UNCHANGED <<srv, s2c>> BY Zenon, <2>4, <3>3 DEF le_msg_Respond
            <4> QED BY Zenon, <2>0, <4>1, <1>OrderSame
        <3> QED BY Zenon, <3>2, <3>3
    <2> QED BY Zenon, <2>2, <2>3, <2>4

\* A connection is accepted.
<1>OrderAccepts.
    ASSUME MsgInv, OrderInv, NEW c \in Conns, CreateServerSideSession(c),
           state = "open" => srv[conn].state # "none"
    PROVE  OrderInv'
    <2> USE <1>OrderAccepts
    <2>0. /\ UNCHANGED client /\ c <= conn /\ srv[c].state = "none" /\ srv[c] \in Session
          /\ srv \in [Conns -> Session] /\ s2c \in [Conns -> Seq(ToClient)] /\ conn \in Nat
        BY DEF CreateServerSideSession, MsgInv, ServerType, ClientType
    <2>1. CASE ClientGone(c)
        <3>1. srv' = [srv EXCEPT ![c] = ClosedSession] /\ s2c' = s2c
            BY Zenon, <2>1 DEF CreateServerSideSession
        <3>2. \A d \in Conns : srv'[d] = srv[d] \/ srv'[d] = ClosedSession
            BY Zenon, <2>0, <3>1
        <3> QED BY Zenon, <2>0, <3>1, <3>2, <1>OrderEnds
    <2>2. CASE ~ClientGone(c)
        <3> DEFINE hello == Msg("hello", 0)
                   one == <<hello>>
        <3>1. c = conn /\ state \in {"opening", "opensync"}
            BY <2>0, <2>2 DEF ClientGone, MsgInv, ClientType, Conns
        <3>2. srv' = [srv EXCEPT ![c].state = "open"] /\ s2c' = [s2c EXCEPT ![c] = one]
            BY Zenon, <2>2 DEF CreateServerSideSession
        <3>3. hello \in ToClient /\ hello.kind = "hello" BY Zenon DEF Msg, ToClient
        <3> HIDE DEF hello
        <3>4. one \in Seq(ToClient) /\ one # <<>> /\ Head(one) = hello BY <3>3
        <3>5. \A a \in Nat : Ordered(one, a) /\ AllIndications(one) = 0 BY Zenon, <3>3, OrderedOne
        <3> HIDE DEF one
        <3>6. srv[c].tq = <<>> /\ srv[c].inds = 0 /\ s2c[c] = <<>> /\ receiveQueue = <<>>
            BY Zenon, <2>0, <3>1 DEF MsgInv, ConnInv, ClientInv, OrderInv
        <3>7. /\ srv'[c].state = "open" /\ srv'[c].tq = <<>> /\ srv'[c].inds = 0 /\ s2c'[c] = one
              /\ \A d \in Conns : d # c => srv'[d] = srv[d]
            <4>1. srv' = [srv EXCEPT ![c] = [@ EXCEPT !.state = "open"]] BY Zenon, <2>0, <3>2
            <4> QED BY SMTT(30), <2>0, <3>2, <3>6, <4>1 DEF Session
        <3>8. UNCHANGED <<state, conn, receiveQueue, seen>> BY Zenon, <2>0 DEF client
        <3>9. Coming' = one
            <4>1. Coming' = <<>> \o (one \o <<>>) BY Zenon, <3>1, <3>6, <3>7, <3>8 DEF Coming, Down
            <4>2. one \o <<>> = one /\ <<>> \o one = one BY Zenon, <3>4, NothingAdded
            <4> QED BY Zenon, <4>1, <4>2
        <3>10. seen = 0
            <4>1. Coming = <<>> \o (<<>> \o <<>>) BY Zenon, <3>1, <3>6 DEF Coming, Down
            <4>2. Coming = <<>> BY Zenon, <4>1, EmptyQueue, NothingAdded
            <4>3. AllIndications(<<>>) = 0 BY Zenon, OrderedOne
            <4>4. srv[conn].inds = seen + AllIndications(Coming)
                BY Zenon, <2>0, <3>1 DEF OrderInv, Live
            <4>5. seen \in Nat BY DEF MsgInv, ClientType
            <4> QED BY SMTT(30), <3>1, <3>6, <4>2, <4>3, <4>4, <4>5
        <3>11. Ordered(Coming', seen') /\ srv'[conn].inds = seen' + AllIndications(Coming')
            BY SMTT(30), <3>1, <3>5, <3>7, <3>8, <3>9, <3>10
        <3>12. \A d \in Conns : srv'[d].state = "none" => srv'[d].inds = 0
            BY Zenon, <3>7 DEF OrderInv
        <3> QED BY Zenon, <3>1, <3>3, <3>4, <3>7, <3>8, <3>11, <3>12
               DEF OrderInv, Ordered, AllIndications, Indications
    <2> QED BY Zenon, <2>1, <2>2

\* The client takes the next message from what it received, or the answer to
\* its opening from the socket, or the response that it waits for.
<1>OrderTakes.
    ASSUME MsgInv, OrderInv, MsgInv', UNCHANGED <<conn, srv>>, Live, state' = "open",
           NEW m \in ToClient,
           \/ Coming = <<m>> \o Coming' /\ seen' = IF m.kind = "ind" THEN m.id ELSE seen
           \/ /\ m.kind # "ind" /\ seen' = seen /\ receiveQueue' = receiveQueue
              /\ Down(conn) = <<m>> \o Down(conn)'
    PROVE  OrderInv'
    <2> USE <1>OrderTakes
    <2>1. /\ conn \in Conns /\ receiveQueue \in Seq(ToClient) /\ Down(conn)' \in Seq(ToClient)
          /\ Coming' \in Seq(ToClient) /\ seen \in Nat
        <3>1. Live' /\ conn' = conn BY Zenon DEF Live
        <3>2. seen \in Nat BY DEF MsgInv, ClientType
        <3> QED BY Zenon, <3>1, <3>2, QueueTypes, QueueTypesNext DEF QueueType
    <2>2. /\ Ordered(Coming, seen)
          /\ srv[conn].state # "closed" => srv[conn].inds = seen + AllIndications(Coming)
        BY Zenon DEF OrderInv
    <2>3. /\ Ordered(Coming', seen') /\ AllIndications(Coming') \in Nat
          /\ seen' + AllIndications(Coming') = seen + AllIndications(Coming)
        <3>1. CASE Coming = <<m>> \o Coming' /\ seen' = IF m.kind = "ind" THEN m.id ELSE seen
            <4> DEFINE q == Coming'
            <4>0. q \in Seq(ToClient) /\ Ordered(<<m>> \o q, seen) BY Zenon, <2>1, <2>2, <3>1
            <4> HIDE DEF q
            <4>1. /\ m.kind = "ind" => /\ m.id = seen + 1 /\ Ordered(q, seen + 1)
                                       /\ AllIndications(<<m>> \o q) = 1 + AllIndications(q)
                  /\ m.kind # "ind" => /\ Ordered(q, seen)
                                       /\ AllIndications(<<m>> \o q) = AllIndications(q)
                  /\ AllIndications(q) \in Nat
                BY Zenon, <2>1, <4>0, OrderedTail
            <4>2. Coming = <<m>> \o q BY Zenon, <3>1 DEF q
            <4>3. CASE m.kind = "ind"
                <5>1. /\ seen' = seen + 1 /\ Ordered(q, seen') /\ AllIndications(q) \in Nat
                      /\ AllIndications(Coming) = 1 + AllIndications(q)
                    BY Zenon, <3>1, <4>1, <4>2, <4>3
                <5> QED BY <2>1, <5>1 DEF q
            <4>4. CASE m.kind # "ind"
                <5>1. /\ seen' = seen /\ Ordered(q, seen') /\ AllIndications(q) \in Nat
                      /\ AllIndications(Coming) = AllIndications(q)
                    BY Zenon, <3>1, <4>1, <4>2, <4>4
                <5> QED BY Zenon, <2>1, <5>1 DEF q
            <4> QED BY Zenon, <4>3, <4>4
        <3>2. CASE /\ m.kind # "ind" /\ seen' = seen /\ receiveQueue' = receiveQueue
                   /\ Down(conn) = <<m>> \o Down(conn)'
            <4> DEFINE q == Down(conn)'
            <4>1. Coming = receiveQueue \o (<<m>> \o q) BY Zenon, <3>2 DEF Coming
            <4>2. Coming' = receiveQueue \o q BY Zenon, <3>2 DEF Coming, Down
            <4>3. q \in Seq(ToClient) /\ Ordered(receiveQueue \o (<<m>> \o q), seen)
                BY Zenon, <2>1, <2>2, <4>1
            <4> HIDE DEF q
            <4>4. /\ Ordered(receiveQueue \o q, seen)
                  /\ AllIndications(receiveQueue \o q) = AllIndications(receiveQueue \o (<<m>> \o q))
                BY Zenon, <2>1, <3>2, <4>3, OrderedRest
            <4>5. AllIndications(Coming') \in Nat BY Zenon, <2>1, IndicationsConcat
            <4> QED BY Zenon, <3>2, <4>1, <4>2, <4>4, <4>5
        <3> QED BY Zenon, <3>1, <3>2
    <2>4. \A c \in Conns : srv'[c].state = "none" => srv'[c].inds = 0 BY Zenon DEF OrderInv
    <2>5. srv'[conn'].state # "closed" => srv'[conn'].inds = seen' + AllIndications(Coming')
        BY Zenon, <2>2, <2>3
    <2> QED BY Zenon, <2>3, <2>4, <2>5 DEF OrderInv, Ordered, AllIndications, Indications

\* Steps of the client, and the order.
<1>OrderClient.
    ASSUME MsgInv, MsgInv', OrderInv, ClientApp \/ ClientThread \/ ProcessDeferredMessages
    PROVE  OrderInv'
    <2> USE <1>OrderClient
    <2>0. \A c \in Conns : srv[c].state = "none" => srv[c].inds = 0 BY Zenon DEF OrderInv
    <2>1. ASSUME UNCHANGED <<conn, receiveQueue, s2c, seen, srv>>, Live' => state' = state
          PROVE  OrderInv'
        BY Zenon, <2>1, <1>OrderSame
    <2>2. ASSUME UNCHANGED srv, state' \in {"closed", "dead"}
          PROVE  OrderInv'
        BY Zenon, <2>0, <2>2 DEF OrderInv, Live
    <2>3. ASSUME NEW as \in {"opening", "opensync"}, conn \in Conns, CloseSession,
                 StartSessionOpenAttempt(as), UNCHANGED srv
          PROVE  OrderInv'
        BY Zenon, <2>3, ClientCloses, <1>OrderOpens
    <2>4. CASE le_msg_OpenSession \/ le_msg_OpenSessionSync
        <3>1. /\ UNCHANGED <<srv, receiveQueue, s2c>> /\ receiveQueue = <<>>
              /\ \E as \in {"opening", "opensync"} : StartSessionOpenAttempt(as)
            BY Zenon, <2>4 DEF le_msg_OpenSession, le_msg_OpenSessionSync, server, MsgInv, ClientInv
        <3> QED BY Zenon, <3>1, <1>OrderOpens
    <2>5. CASE le_msg_CloseSession
        BY Zenon, <2>2, <2>5 DEF le_msg_CloseSession, server
    <2>6. CASE \/ \E r \in Reqs : le_msg_Send(r) \/ le_msg_RequestResponse(r)
                                  \/ le_msg_RequestSyncResponse(r)
               \/ SyncSend \/ Poll \/ Discard \/ NothingToRead \/ LoopEnds
               \/ ProcessDeferredMessages
        <3>1. UNCHANGED <<conn, receiveQueue, s2c, seen, srv, state>>
            BY Zenon, <2>6 DEF le_msg_Send, le_msg_RequestResponse, le_msg_RequestSyncResponse, SyncSend,
               Poll, Discard, NothingToRead, LoopEnds, ProcessDeferredMessages, server
        <3> QED BY Zenon, <2>1, <3>1
    <2>7. CASE ClientSocketWriteable
        <3>1. UNCHANGED <<conn, receiveQueue, s2c, seen, srv>> /\ (Live' => state' = state)
            BY Zenon, <2>7 DEF ClientSocketWriteable, server, Live
        <3> QED BY Zenon, <2>1, <3>1
    <2>8. CASE AttemptOpenSync \/ ReceiveSessionOpenResponse
        <3>1. /\ state \in {"opening", "opensync"} /\ Live /\ conn \in Conns /\ UNCHANGED srv
              /\ receiveQueue = <<>>
            BY <2>8 DEF AttemptOpenSync, ReceiveSessionOpenResponse, server, MsgInv, ClientType,
               ClientInv, Conns, Live
        <3>2. CASE /\ s2c[conn] # <<>> /\ s2c' = [s2c EXCEPT ![conn] = Tail(@)]
                   /\ state' = "open" /\ UNCHANGED <<conn, receiveQueue, seen>>
            <4> DEFINE m == Head(s2c[conn])
            <4>1. m \in ToClient /\ Down(conn) = <<m>> \o Down(conn)'
                BY Zenon, <3>1, <3>2, SocketHead
            <4>2. m.kind # "ind" BY Zenon, <3>1, <3>2 DEF OrderInv
            <4> HIDE DEF m
            <4> QED BY Zenon, <3>1, <3>2, <4>1, <4>2, <1>OrderTakes
        <3>3. CASE CloseSession /\ \E as \in {"opening", "opensync"} : StartSessionOpenAttempt(as)
            BY Zenon, <2>3, <3>1, <3>3
        <3> QED BY Zenon, <2>8, <3>2, <3>3 DEF AttemptOpenSync, ReceiveSessionOpenResponse
    <2>9. CASE ClientSocketHangUp
        <3>1. UNCHANGED srv BY Zenon, <2>9 DEF ClientSocketHangUp, server
        <3>2. CASE state = "opening"
            <4>1. conn \in Conns BY <3>2 DEF MsgInv, ClientType, ClientInv, Conns
            <4> QED BY Zenon, <2>3, <2>9, <3>1, <3>2, <4>1 DEF ClientSocketHangUp
        <3>3. CASE state \in {"open", "closed"}
            <4>1. state' \in {"closed", "dead"} BY Zenon, <2>9, <3>3 DEF ClientSocketHangUp
            <4> QED BY Zenon, <2>2, <3>1, <4>1
        <3> QED BY Zenon, <2>9, <3>2, <3>3 DEF ClientSocketHangUp, ClientRuns, MsgInv, ClientType
    <2>10. CASE SyncReceive
        <3>1. /\ state = "open" /\ Live /\ conn \in Conns /\ state' = "open"
              /\ UNCHANGED <<srv, conn, seen>>
            BY <2>10 DEF SyncReceive, server, MsgInv, ClientType, ClientInv, Conns, Live
        <3>2. CASE s2c[conn] # <<>> /\ s2c' = [s2c EXCEPT ![conn] = Tail(@)]
            <4> DEFINE m == Head(s2c[conn])
            <4>1. m \in ToClient /\ Down(conn) = <<m>> \o Down(conn)'
                BY Zenon, <3>1, <3>2, SocketHead
            <4>2. CASE m = Msg("rsp", sync) /\ UNCHANGED receiveQueue
                <5>1. m.kind # "ind" BY <4>2 DEF Msg
                <5> HIDE DEF m
                <5> QED BY Zenon, <3>1, <4>1, <4>2, <5>1, <1>OrderTakes
            <4>3. CASE QueueForLater(m)
                <5>1. receiveQueue' = Append(receiveQueue, Head(s2c[conn]))
                    BY Zenon, <4>3 DEF QueueForLater
                <5>2. Coming' = Coming BY Zenon, <3>1, <3>2, <5>1, PutAside
                <5> QED BY Zenon, <2>0, <3>1, <5>2 DEF OrderInv, Ordered, AllIndications, Indications
            <4> QED BY Zenon, <2>10, <3>2, <4>2, <4>3 DEF SyncReceive
        <3>3. CASE UNCHANGED <<s2c, receiveQueue>> BY Zenon, <2>1, <3>1, <3>3
        <3> QED BY Zenon, <2>10, <3>2, <3>3 DEF SyncReceive
    <2>11. CASE ClientSocketReadable
        <3>1. state = "open" /\ Live /\ state' = "open" /\ UNCHANGED <<srv, conn, seen>>
            BY Zenon, <2>11 DEF ClientSocketReadable, server, Live
        <3>2. Coming' = Coming BY Zenon, <2>11, AllReceived
        <3> QED BY Zenon, <2>0, <3>1, <3>2 DEF OrderInv, Ordered, AllIndications, Indications
    <2>12. CASE ProcessReceivedMessages
        <3> DEFINE m == Head(receiveQueue)
        <3>1. Live /\ m \in ToClient /\ Coming = <<m>> \o Coming' BY Zenon, <2>12, FirstProcessed
        <3>2. /\ state = "open" /\ state' = "open" /\ UNCHANGED <<srv, conn>>
              /\ seen' = IF m.kind = "ind" THEN m.id ELSE seen
            BY Zenon, <2>12 DEF ProcessReceivedMessages, ProcessMessageFromServer, server, MsgInv, ClientInv
        <3> HIDE DEF m
        <3> QED BY Zenon, <3>1, <3>2, <1>OrderTakes
    <2> QED BY SMTT(30), <2>4, <2>5, <2>6, <2>7, <2>8, <2>9, <2>10, <2>11, <2>12
           DEF ClientApp, ClientThread

\* Steps of the server, and the order.
<1>OrderServer.
    ASSUME MsgInv, OrderInv, Accepted,
           \/ ServerThread \/ ServerApp \/ ServerCrash
           \/ \E h \in held : le_msg_Respond(h)
           \/ \E c \in Conns : RefuseConnection(c)
    PROVE  OrderInv'
    <2> USE <1>OrderServer
    <2>0. srv \in [Conns -> Session] /\ s2c \in [Conns -> Seq(ToClient)]
        BY Zenon DEF MsgInv, ServerType
    <2>1. ASSUME UNCHANGED <<client, s2c>>,
                 \A d \in Conns : /\ srv'[d].state = srv[d].state /\ srv'[d].tq = srv[d].tq
                                  /\ srv'[d].inds = srv[d].inds
          PROVE  OrderInv'
        <3>1. UNCHANGED <<conn, receiveQueue, s2c, seen, state>> BY Zenon, <2>1 DEF client
        <3> QED BY Zenon, <2>1, <3>1, <1>OrderSame
    <2>2. ASSUME NEW c \in Conns, DeleteSession(c) \/ RefuseConnection(c), UNCHANGED client
          PROVE  OrderInv'
        <3>1. srv' = [srv EXCEPT ![c] = ClosedSession]
            BY Zenon, <2>2 DEF DeleteSession, RefuseConnection
        <3>2. s2c' = s2c \/ s2c' = [s2c EXCEPT ![c] = <<>>]
            BY Zenon, <2>2 DEF DeleteSession, CloseSocket, RefuseConnection
        <3>3. \A d \in Conns : \/ srv'[d] = srv[d] /\ s2c'[d] = s2c[d]
                               \/ /\ srv'[d] = ClosedSession
                                  /\ s2c'[d] = s2c[d] \/ s2c'[d] = <<>>
            BY Zenon, <2>0, <3>1, <3>2
        <3> QED BY Zenon, <2>2, <3>3, <1>OrderEnds
    <2>3. CASE ServerCrash
        <3>1. UNCHANGED client BY Zenon, <2>3 DEF ServerCrash
        <3>2. \A d \in Conns : \/ srv'[d] = srv[d] /\ s2c'[d] = s2c[d]
                               \/ /\ srv'[d] = ClosedSession
                                  /\ s2c'[d] = s2c[d] \/ s2c'[d] = <<>>
            BY Zenon, <2>3 DEF ServerCrash
        <3> QED BY Zenon, <3>1, <3>2, <1>OrderEnds
    <2>4. CASE \/ \E c \in Conns : ServerSocketWriteable(c) \/ SendIndication(c)
               \/ \E h \in held : le_msg_Respond(h)
        BY Zenon, <2>4, <1>OrderSends
    <2>5. ASSUME NEW c \in Conns, CreateServerSideSession(c) PROVE OrderInv'
        BY Zenon, <2>5, <1>OrderAccepts DEF Accepted
    <2>6. ASSUME NEW c \in Conns, ServerSocketHangUp(c) \/ ServerCloseSession(c) PROVE OrderInv'
        BY Zenon, <2>2, <2>6 DEF ServerSocketHangUp, ServerCloseSession
    <2>7. ASSUME NEW c \in Conns, RefuseConnection(c) PROVE OrderInv'
        <3>1. UNCHANGED client BY Zenon, <2>7 DEF RefuseConnection
        <3> QED BY Zenon, <2>2, <2>7, <3>1
    <2>8. CASE ProcessMessageFromClient
        <3>1. UNCHANGED <<client, s2c>> /\ srv' = [srv EXCEPT ![sFrame].rq = Tail(@)]
            BY Zenon, <2>8 DEF ProcessMessageFromClient
        <3>2. \A d \in Conns : /\ srv'[d].state = srv[d].state /\ srv'[d].tq = srv[d].tq
                               /\ srv'[d].inds = srv[d].inds
            BY Zenon, <2>0, <3>1 DEF Session
        <3> QED BY Zenon, <2>1, <3>1, <3>2
    <2>9. ASSUME NEW c \in Conns, ServerSocketReadable(c) PROVE OrderInv'
        <3>1. UNCHANGED <<client, s2c>> /\ srv' = [srv EXCEPT ![c].rq = @ \o c2s[c]]
            BY Zenon, <2>9 DEF ServerSocketReadable
        <3>2. \A d \in Conns : /\ srv'[d].state = srv[d].state /\ srv'[d].tq = srv[d].tq
                               /\ srv'[d].inds = srv[d].inds
            BY Zenon, <2>0, <3>1 DEF Session
        <3> QED BY Zenon, <2>1, <3>1, <3>2
    <2>10. CASE ServerLoopEnds
        <3>1. CASE sFrame' = 0 /\ UNCHANGED <<client, srv, held, c2s, s2c>> BY Zenon, <2>1, <3>1
        <3>2. CASE DeleteSession(sFrame) /\ UNCHANGED client
            <4>1. PICK c \in Conns : c = sFrame
                BY <2>10 DEF ServerLoopEnds, MsgInv, ServerType, Conns
            <4>2. DeleteSession(c) BY Zenon, <3>2, <4>1 DEF DeleteSession, CloseSocket
            <4> QED BY Zenon, <2>2, <3>2, <4>2
        <3> QED BY Zenon, <2>3, <2>10, <3>1, <3>2 DEF ServerLoopEnds
    <2>11. ASSUME NEW h \in held, le_msg_ReleaseMsg(h) PROVE OrderInv'
        <3>1. PICK c \in Conns : c = h.c BY Zenon DEF MsgInv, ServerType
        <3>2. UNCHANGED client BY Zenon, <2>11 DEF le_msg_ReleaseMsg
        <3>3. CASE UNCHANGED <<srv, c2s, s2c>> BY Zenon, <2>1, <3>2, <3>3
        <3>4. CASE DeleteSession(h.c)
            <4>1. DeleteSession(c) BY Zenon, <3>1, <3>4 DEF DeleteSession, CloseSocket
            <4> QED BY Zenon, <2>2, <3>2, <4>1
        <3> QED BY Zenon, <2>11, <3>3, <3>4 DEF le_msg_ReleaseMsg
    <2> QED BY SMTT(30), <2>3, <2>4, <2>5, <2>6, <2>7, <2>8, <2>9, <2>10, <2>11 DEF ServerThread, ServerApp

<1>1. MsgInit => OrderInv
    <2> SUFFICES ASSUME MsgInit PROVE OrderInv BY Zenon
    <2>1. state = "closed" /\ \A c \in Conns : srv[c].inds = 0
        BY Zenon DEF MsgInit, NewSession
    <2> QED BY Zenon, <2>1 DEF OrderInv, Live
<1>2. ASSUME MsgInv, MsgInv', OrderInv, Accepted, MsgNext PROVE OrderInv'
    BY Zenon, <1>2, <1>OrderClient, <1>OrderServer DEF MsgNext
<1>3. ASSUME MsgInv, OrderInv, UNCHANGED vars PROVE OrderInv'
    <2>1. UNCHANGED <<conn, receiveQueue, s2c, seen, srv, state>>
        BY Zenon, <1>3 DEF vars, client, server
    <2> QED BY Zenon, <1>3, <2>1, <1>OrderSame
<1>4. OrderInv /\ Accepted /\ MsgInv /\ MsgInv' /\ [MsgNext]_vars => OrderInv'
    BY Zenon, <1>2, <1>3
<1> QED BY <1>1, <1>4, MsgInvariant, AlwaysAccepted, PTL DEF MsgSpec

\* Indications reach the client's handler in the order in which the server sent
\* them, whatever is put aside by blocking requests, held back by a full socket
\* or cut off when a side closes (messagingSession.c:1498, 1012, 1686).
THEOREM IndicationsKeepOrder == MsgSpec => []IndicationsInOrder
<1>1. MsgInv /\ OrderInv => IndicationsInOrder
    <2> SUFFICES ASSUME MsgInv, OrderInv, state = "open" PROVE IndicationsInOrder
        BY Zenon DEF IndicationsInOrder
    <2>1. Live /\ conn \in Conns /\ receiveQueue \in Seq(ToClient) BY Zenon, QueueTypes DEF QueueType, Live
    <2>2. PICK r \in Seq(ToClient), s \in Seq(ToClient), t \in Seq(ToClient) :
            r = receiveQueue /\ s = s2c[conn] /\ t = srv[conn].tq
        BY Zenon, <2>1, QueueTypes DEF QueueType
    <2>3. Regrouped(r, s, t) BY Zenon, Regroup
    <2>4. Coming = (r \o s) \o t BY Zenon, <2>2, <2>3 DEF Regrouped, Coming, Down
    <2>5. Ordered((r \o s) \o t, seen) BY Zenon, <2>1, <2>4 DEF OrderInv
    <2> QED BY Zenon, <2>2, <2>5 DEF IndicationsInOrder, Ordered
<1> QED BY <1>1, MsgInvariant, OrderInvariant, PTL

===========================================================================
