----------------------- MODULE ServiceDirectoryProofs -----------------------
(***************************************************************************)
(* Proofs about ServiceDirectory, for any users, names, protocols, built-in*)
(* bindings and any number of connections.                                 *)
(***************************************************************************)
EXTENDS ServiceDirectory, SequenceTheorems, TLAPS

Once(q) == \A i, j \in DOMAIN q : q[i] = q[j] => i = j

\* Client c of cl is in the state st of the interface k.
In(cl, c, st, k) == cl[c] # NoConn /\ cl[c].state = st /\ cl[c].of = k

-----------------------------------------------------------------------------
(* Lists of different clients.                                                *)

\* What is left of a list after its first n are done with.
LEMMA RestOfList ==
    ASSUME NEW S, NEW q \in Seq(S), Once(q), NEW n \in 0 .. Len(q)
    PROVE  /\ SubSeq(q, n + 1, Len(q)) \in Seq(S)
           /\ Once(SubSeq(q, n + 1, Len(q)))
           /\ Elements(SubSeq(q, n + 1, Len(q))) = Elements(q) \ Elements(SubSeq(q, 1, n))
           /\ Elements(SubSeq(q, 1, n)) \subseteq Elements(q)
           /\ SubSeq(q, n + 1, Len(q)) # <<>> => n < Len(q)
<1> DEFINE r == SubSeq(q, n + 1, Len(q))
           f == SubSeq(q, 1, n)
<1>1. Len(q) \in Nat /\ DOMAIN q = 1 .. Len(q) /\ \A i \in 1 .. Len(q) : q[i] \in S
    BY Zenon, LenProperties, ElementOfSeq
<1>2. /\ r \in Seq(S) /\ Len(r) = Len(q) - n
      /\ \A i \in 1 .. Len(q) - n : r[i] = q[n + i]
    <2>1. \A i \in n + 1 .. Len(q) : q[i] \in S BY <1>1
    <2>2. /\ r \in Seq(S)
          /\ Len(r) = IF n + 1 <= Len(q) THEN Len(q) - (n + 1) + 1 ELSE 0
          /\ \A i \in 1 .. Len(q) - (n + 1) + 1 : r[i] = q[(n + 1) + i - 1]
        BY <1>1, <2>1, SubSeqProperties
    <2> HIDE DEF r
    <2>a. Len(q) \in Nat /\ Len(r) = IF n + 1 <= Len(q) THEN Len(q) - (n + 1) + 1 ELSE 0
        BY Zenon, <1>1, <2>2
    <2>3. Len(r) = Len(q) - n
        <3>1. CASE n + 1 <= Len(q) BY <2>a, <3>1
        <3>2. CASE n = Len(q) BY <2>a, <3>2
        <3> QED BY <2>a, <3>1, <3>2
    <2>4. ASSUME NEW i \in 1 .. Len(q) - n PROVE r[i] = q[n + i]
        <3>1. i \in 1 .. Len(q) - (n + 1) + 1 /\ (n + 1) + i - 1 = n + i BY <1>1
        <3> QED BY Zenon, <2>2, <3>1
    <2> QED BY Zenon, <2>2, <2>3, <2>4
<1>3. /\ f \in Seq(S) /\ Len(f) = n
      /\ \A i \in 1 .. n : f[i] = q[i]
    <2>1. \A i \in 1 .. n : q[i] \in S BY <1>1
    <2>2. /\ f \in Seq(S)
          /\ Len(f) = IF 1 <= n THEN n - 1 + 1 ELSE 0
          /\ \A i \in 1 .. n - 1 + 1 : f[i] = q[1 + i - 1]
        BY <1>1, <2>1, SubSeqProperties
    <2> QED BY <1>1, <2>2
<1>4. DOMAIN r = 1 .. Len(q) - n /\ DOMAIN f = 1 .. n
    BY Zenon, <1>2, <1>3, LenProperties
<1> HIDE DEF r, f
<1>a. \A i \in 1 .. Len(q) - n : n + i \in 1 .. Len(q) /\ ~(n + i \in 1 .. n) BY <1>1
<1>5. Once(r)
    <2> SUFFICES ASSUME NEW i \in 1 .. Len(q) - n, NEW j \in 1 .. Len(q) - n, r[i] = r[j]
                 PROVE  i = j
        BY Zenon, <1>4 DEF Once
    <2>1. q[n + i] = q[n + j] BY Zenon, <1>2
    <2>2. n + i = n + j BY Zenon, <1>1, <1>a, <2>1 DEF Once
    <2> QED BY <1>1, <2>2
<1>6. Elements(f) \subseteq Elements(q) BY <1>1, <1>3, <1>4 DEF Elements
<1>7. Elements(r) \subseteq Elements(q) \ Elements(f)
    <2> SUFFICES ASSUME NEW i \in 1 .. Len(q) - n
                 PROVE  r[i] \in Elements(q) /\ r[i] \notin Elements(f)
        BY Zenon, <1>4 DEF Elements
    <2>1. r[i] = q[n + i] /\ n + i \in 1 .. Len(q) BY Zenon, <1>2, <1>a
    <2>2. ASSUME NEW j \in 1 .. n, r[i] = f[j] PROVE FALSE
        <3>1. q[n + i] = q[j] /\ j \in 1 .. Len(q) BY <1>1, <1>3, <2>1, <2>2
        <3>2. n + i = j BY Zenon, <1>1, <2>1, <3>1 DEF Once
        <3> QED BY Zenon, <1>a, <3>2
    <2> QED BY Zenon, <1>1, <1>4, <2>1, <2>2 DEF Elements
<1>8. ASSUME NEW x \in Elements(q) \ Elements(f) PROVE x \in Elements(r)
    <2>1. PICK i \in 1 .. Len(q) : q[i] = x BY Zenon, <1>1 DEF Elements
    <2>2. ~(i \in 1 .. n) BY Zenon, <1>3, <1>4, <2>1 DEF Elements
    <2>3. i - n \in 1 .. Len(q) - n /\ r[i - n] = x BY <1>1, <1>2, <2>1, <2>2
    <2> QED BY Zenon, <1>4, <2>3 DEF Elements
<1>9. r # <<>> => n < Len(q) BY <1>1, <1>2, EmptySeq
<1>10. /\ r \in Seq(S) /\ Once(r) /\ Elements(r) = Elements(q) \ Elements(f)
       /\ Elements(f) \subseteq Elements(q) /\ (r # <<>> => n < Len(q))
    BY Zenon, <1>2, <1>5, <1>6, <1>7, <1>8, <1>9
<1> QED BY Zenon, <1>10 DEF r, f

\* A list that one of its members has left.
LEMMA ListWithout ==
    ASSUME NEW S, NEW q \in Seq(S), Once(q), NEW c \in Elements(q)
    PROVE  /\ Without(q, c) \in Seq(S) /\ Once(Without(q, c))
           /\ Elements(Without(q, c)) = Elements(q) \ {c}
           /\ q # <<>>
<1> DEFINE at == CHOOSE i \in DOMAIN q : q[i] = c
           w == [i \in 1 .. Len(q) - 1 |-> IF i < at THEN q[i] ELSE q[i + 1]]
<1>1. Len(q) \in Nat /\ DOMAIN q = 1 .. Len(q) /\ \A i \in 1 .. Len(q) : q[i] \in S
    BY Zenon, LenProperties, ElementOfSeq
<1>2. at \in 1 .. Len(q) /\ q[at] = c BY Zenon, <1>1 DEF Elements
<1>3. Without(q, c) = w BY Zenon DEF Without
<1> HIDE DEF at
<1>4. DOMAIN w = 1 .. Len(q) - 1 /\ Len(q) - 1 \in Nat BY <1>1, <1>2
<1>5. w \in Seq(S)
    <2>1. \A i \in 1 .. Len(q) - 1 : w[i] \in S BY <1>1, <1>2
    <2> QED BY <1>4, <2>1, IsASeq
<1>6. \A i \in 1 .. Len(q) - 1 : w[i] = IF i < at THEN q[i] ELSE q[i + 1] BY Zenon
<1> HIDE DEF w
<1>a. ASSUME NEW i \in 1 .. Len(q) - 1
      PROVE  \E n \in 1 .. Len(q) : /\ w[i] = q[n] /\ n # at
                                    /\ n = IF i < at THEN i ELSE i + 1
    <2>1. CASE i < at
        <3>1. w[i] = q[i] /\ i \in 1 .. Len(q) /\ i # at BY <1>1, <1>2, <1>6, <2>1
        <3> QED BY Zenon, <2>1, <3>1
    <2>2. CASE ~(i < at)
        <3>1. w[i] = q[i + 1] BY Zenon, <1>6, <2>2
        <3>2. i + 1 \in 1 .. Len(q) /\ i + 1 # at BY <1>1, <1>2, <2>2
        <3> QED BY Zenon, <2>2, <3>1, <3>2
    <2> QED BY Zenon, <2>1, <2>2
<1>7. Once(w)
    <2> SUFFICES ASSUME NEW i \in 1 .. Len(q) - 1, NEW j \in 1 .. Len(q) - 1, w[i] = w[j]
                 PROVE  i = j
        BY Zenon, <1>4 DEF Once
    <2>1. PICK m \in 1 .. Len(q) : w[i] = q[m] /\ m = IF i < at THEN i ELSE i + 1 BY Zenon, <1>a
    <2>2. PICK n \in 1 .. Len(q) : w[j] = q[n] /\ n = IF j < at THEN j ELSE j + 1 BY Zenon, <1>a
    <2>3. m = n BY Zenon, <1>1, <2>1, <2>2 DEF Once
    <2> QED BY <1>1, <1>2, <2>1, <2>2, <2>3
<1>8. Elements(w) \subseteq Elements(q) \ {c}
    <2> SUFFICES ASSUME NEW i \in 1 .. Len(q) - 1 PROVE w[i] \in Elements(q) \ {c}
        BY Zenon, <1>4 DEF Elements
    <2>1. PICK n \in 1 .. Len(q) : w[i] = q[n] /\ n # at BY Zenon, <1>a
    <2>2. q[n] # c BY Zenon, <1>1, <1>2, <2>1 DEF Once
    <2>3. q[n] \in Elements(q) BY Zenon, <1>1 DEF Elements
    <2> QED BY Zenon, <2>1, <2>2, <2>3
<1>9. ASSUME NEW x \in Elements(q) \ {c} PROVE x \in Elements(w)
    <2>1. PICK i \in 1 .. Len(q) : q[i] = x BY Zenon, <1>1 DEF Elements
    <2>2. CASE i < at
        <3>1. i \in 1 .. Len(q) - 1 /\ w[i] = x BY <1>1, <1>2, <1>6, <2>1, <2>2
        <3> QED BY Zenon, <1>4, <3>1 DEF Elements
    <2>3. CASE ~(i < at)
        <3>1. i # at BY Zenon, <1>2, <2>1
        <3>2. i - 1 \in 1 .. Len(q) - 1 /\ ~(i - 1 < at) BY <1>1, <1>2, <2>1, <2>3, <3>1
        <3>3. w[i - 1] = x BY <1>6, <2>1, <3>2
        <3> QED BY Zenon, <1>4, <3>2, <3>3 DEF Elements
    <2> QED BY Zenon, <2>2, <2>3
<1>10. q # <<>> BY <1>1, <1>2
<1> QED BY Zenon, <1>3, <1>5, <1>7, <1>8, <1>9, <1>10

\* A list with one more member.
LEMMA ListAppend ==
    ASSUME NEW S, NEW q \in Seq(S), Once(q), NEW c \in S, c \notin Elements(q)
    PROVE  /\ Append(q, c) \in Seq(S) /\ Once(Append(q, c))
           /\ Elements(Append(q, c)) = Elements(q) \cup {c}
<1> DEFINE a == Append(q, c)
<1>1. Len(q) \in Nat /\ DOMAIN q = 1 .. Len(q) BY Zenon, LenProperties
<1>2. /\ a \in Seq(S) /\ Len(a) = Len(q) + 1
      /\ \A i \in 1 .. Len(q) : a[i] = q[i]
      /\ a[Len(q) + 1] = c
    BY AppendProperties
<1>3. DOMAIN a = 1 .. Len(q) + 1 BY Zenon, <1>2, LenProperties
<1> HIDE DEF a
<1>4. \A i \in 1 .. Len(q) + 1 : i \in 1 .. Len(q) \/ i = Len(q) + 1 BY <1>1
<1>5. Once(a)
    <2> SUFFICES ASSUME NEW i \in 1 .. Len(q) + 1, NEW j \in 1 .. Len(q) + 1, a[i] = a[j]
                 PROVE  i = j
        BY Zenon, <1>3 DEF Once
    <2>1. CASE i \in 1 .. Len(q) /\ j \in 1 .. Len(q) BY Zenon, <1>1, <1>2, <2>1 DEF Once
    <2>2. CASE i = Len(q) + 1 /\ j \in 1 .. Len(q) BY Zenon, <1>1, <1>2, <2>2 DEF Elements
    <2>3. CASE i \in 1 .. Len(q) /\ j = Len(q) + 1 BY Zenon, <1>1, <1>2, <2>3 DEF Elements
    <2> QED BY Zenon, <1>4, <2>1, <2>2, <2>3
<1>6. Elements(a) \subseteq Elements(q) \cup {c} BY Zenon, <1>1, <1>2, <1>3, <1>4 DEF Elements
<1>7. Elements(q) \subseteq Elements(a)
    <2> SUFFICES ASSUME NEW i \in 1 .. Len(q) PROVE q[i] \in Elements(a) BY Zenon, <1>1 DEF Elements
    <2>1. i \in 1 .. Len(q) + 1 /\ a[i] = q[i] BY <1>1, <1>2
    <2> QED BY Zenon, <1>3, <2>1 DEF Elements
<1>8. c \in Elements(a)
    <2>1. Len(q) + 1 \in DOMAIN a BY <1>1, <1>3
    <2> QED BY Zenon, <1>2, <2>1 DEF Elements
<1>9. a \in Seq(S) /\ Once(a) /\ Elements(a) = Elements(q) \cup {c}
    BY Zenon, <1>2, <1>5, <1>6, <1>7, <1>8
<1> QED BY Zenon, <1>9 DEF a

\* Two lists, one of which is empty.
LEMMA ListConcat ==
    ASSUME NEW S, NEW p \in Seq(S), NEW q \in Seq(S), Once(p), Once(q), p = <<>> \/ q = <<>>
    PROVE  /\ p \o q \in Seq(S) /\ Once(p \o q)
           /\ Elements(p \o q) = Elements(p) \cup Elements(q)
<1>1. Elements(<<>>) = {} BY DEF Elements
<1>2. CASE p = <<>>
    <2>1. p \o q = q BY Zenon, <1>2, ConcatEmptySeq
    <2> QED BY Zenon, <1>1, <1>2, <2>1
<1>3. CASE q = <<>>
    <2>1. p \o q = p BY Zenon, <1>3, ConcatEmptySeq
    <2> QED BY Zenon, <1>1, <1>3, <2>1
<1> QED BY Zenon, <1>2, <1>3

-----------------------------------------------------------------------------
(* The inductive invariant.  Each part is stated of any connections, lists    *)
(* and pointers, for a handler passes through states of its own.              *)

\* A client is on the list that its state names, and there once.
Lists(cl, w, u) ==
    \A k \in Interfaces :
        /\ Once(w[k]) /\ Once(u[k])
        /\ \A c \in Clients : /\ c \in Elements(w[k]) <=> In(cl, c, "waiting", k)
                              /\ c \in Elements(u[k]) <=> In(cl, c, "unbound", k)

\* A list has clients only when there is nothing to do with them.
Waits(tg, pt, w, u) ==
    \A k \in Interfaces : /\ u[k] # <<>> => tg[k] = NoService
                          /\ w[k] # <<>> => tg[k] # NoService /\ pt[k] = NoServer

\* A service has one server, and its bindings point to it.
IsServing(sv, s, t) == sv[s] # NoConn /\ sv[s].state = "serving" /\ sv[s].of = t
OneServer(sv) ==
    \A s, r \in Servers : \A t \in Interfaces :
        IsServing(sv, s, t) /\ IsServing(sv, r, t) => s = r
Pointers(sv, tg, pt) ==
    \A k \in Interfaces : \A s \in Servers :
        pt[k] = s <=> tg[k] # NoService /\ IsServing(sv, s, tg[k])

Typed(cl, sv, tg, pt, w, u) ==
    /\ cl \in [Clients -> Client \cup {NoConn}]
    /\ sv \in [Servers -> Server \cup {NoConn}]
    /\ tg \in [Interfaces -> Interfaces \cup {NoService}]
    /\ pt \in [Interfaces -> Servers \cup {NoServer}]
    /\ w \in [Interfaces -> Seq(Clients)] /\ u \in [Interfaces -> Seq(Clients)]

Consistent(cl, sv, tg, pt, w, u) ==
    /\ Typed(cl, sv, tg, pt, w, u)
    /\ Lists(cl, w, u) /\ Waits(tg, pt, w, u)
    /\ OneServer(sv) /\ Pointers(sv, tg, pt)

DirectoryInv == Consistent(client, server, target, serving, waiting, unbound)

-----------------------------------------------------------------------------
(* Dispatching.                                                               *)

ClientsLeft(ks, n, q, cl) == [c \in Clients |-> IF c \in Done(ks, n, q) THEN NoConn ELSE cl[c]]
ServersLeft(failed, sv) == [s \in Servers |-> IF s \in failed THEN NoConn ELSE sv[s]]
WaitingLeft(ks, n, q) ==
    [k \in Interfaces |-> IF k \in ks THEN SubSeq(q[k], n[k] + 1, Len(q[k])) ELSE q[k]]

\* The lists of clients after DispatchToServer.
LEMMA ListsLeft ==
    ASSUME NEW ks \in SUBSET Interfaces, NEW n \in [ks -> Nat],
           NEW q \in [Interfaces -> Seq(Clients)], NEW u,
           NEW cl \in [Clients -> Client \cup {NoConn}],
           Lists(cl, q, u), \A k \in ks : n[k] <= Len(q[k])
    PROVE  /\ ClientsLeft(ks, n, q, cl) \in [Clients -> Client \cup {NoConn}]
           /\ WaitingLeft(ks, n, q) \in [Interfaces -> Seq(Clients)]
           /\ Lists(ClientsLeft(ks, n, q, cl), WaitingLeft(ks, n, q), u)
           /\ \A k \in Interfaces :
                WaitingLeft(ks, n, q)[k] # <<>> => q[k] # <<>> /\ (k \in ks => n[k] < Len(q[k]))
<1> DEFINE cl2 == ClientsLeft(ks, n, q, cl)
           w == WaitingLeft(ks, n, q)
           gone == Done(ks, n, q)
           first(k) == Elements(SubSeq(q[k], 1, n[k]))
<1>3. /\ gone = UNION {first(k) : k \in ks}
      /\ cl2 = [c \in Clients |-> IF c \in gone THEN NoConn ELSE cl[c]]
      /\ w = [k \in Interfaces |-> IF k \in ks THEN SubSeq(q[k], n[k] + 1, Len(q[k])) ELSE q[k]]
    BY Zenon DEF Done, ClientsLeft, WaitingLeft
<1>4. \A k \in Interfaces : q[k] \in Seq(Clients) /\ Once(q[k]) /\ Len(q[k]) \in Nat
    BY Zenon, LenProperties DEF Lists
<1>5. \A k \in ks : n[k] \in 0 .. Len(q[k])
    BY <1>4
<1> HIDE DEF cl2, w, gone
<1>6. ASSUME NEW k \in ks
      PROVE  /\ w[k] \in Seq(Clients) /\ Once(w[k])
             /\ Elements(w[k]) = Elements(q[k]) \ first(k)
             /\ first(k) \subseteq Elements(q[k])
             /\ w[k] # <<>> => n[k] < Len(q[k])
    <2>1. w[k] = SubSeq(q[k], n[k] + 1, Len(q[k])) BY Zenon, <1>3
    <2> QED BY <1>4, <1>5, <2>1, RestOfList
<1>7. ASSUME NEW k \in Interfaces \ ks PROVE w[k] = q[k] BY Zenon, <1>3
<1> HIDE DEF first
<1>8. cl2 \in [Clients -> Client \cup {NoConn}] BY Zenon, <1>3
<1>9. w \in [Interfaces -> Seq(Clients)]
    <2>1. \A k \in Interfaces : w[k] \in Seq(Clients) BY Zenon, <1>4, <1>6, <1>7
    <2> QED BY Zenon, <1>3, <2>1
<1>10. ASSUME NEW k \in Interfaces, w[k] # <<>>
       PROVE  q[k] # <<>> /\ (k \in ks => n[k] < Len(q[k]))
    <2>1. CASE k \notin ks BY Zenon, <1>7, <1>10, <2>1
    <2>2. CASE k \in ks
        <3>1. n[k] < Len(q[k]) BY Zenon, <1>6, <1>10, <2>2
        <3>2. q[k] # <<>> BY <1>4, <1>5, <2>2, <3>1
        <3> QED BY Zenon, <3>1, <3>2
    <2> QED BY Zenon, <2>1, <2>2
<1>11. ASSUME NEW c \in gone, NEW k \in Interfaces
       PROVE  c \notin Elements(w[k]) /\ ~In(cl, c, "unbound", k)
    <2>1. PICK j \in ks : c \in first(j) BY Zenon, <1>3
    <2>2. c \in Elements(q[j]) BY Zenon, <1>6, <2>1
    <2>3. c \in Clients BY <1>4, <2>2 DEF Elements
    <2>4. In(cl, c, "waiting", j) BY Zenon, <2>2, <2>3 DEF Lists
    <2>5. c \in Elements(q[k]) => In(cl, c, "waiting", k) BY Zenon, <2>3 DEF Lists
    <2>6. c \in Elements(q[k]) => k = j BY Zenon, <2>4, <2>5 DEF In
    <2>7. c \notin Elements(w[k])
        <3>1. CASE k \in ks BY Zenon, <1>6, <2>1, <2>6, <3>1
        <3>2. CASE k \notin ks BY Zenon, <1>7, <2>1, <2>6, <3>2
        <3> QED BY Zenon, <3>1, <3>2
    <2>8. ~In(cl, c, "unbound", k) BY Zenon, <2>4 DEF In
    <2> QED BY Zenon, <2>7, <2>8
<1>12. ASSUME NEW c \in Clients, c \notin gone, NEW k \in Interfaces
       PROVE  c \in Elements(w[k]) <=> c \in Elements(q[k])
    <2>1. CASE k \in ks
        <3>1. c \notin first(k) BY Zenon, <1>3, <1>12, <2>1
        <3> QED BY Zenon, <1>6, <2>1, <3>1
    <2>2. CASE k \notin ks BY Zenon, <1>7, <2>2
    <2> QED BY Zenon, <2>1, <2>2
<1>13. Lists(cl2, w, u)
    <2> SUFFICES ASSUME NEW k \in Interfaces
                 PROVE  /\ Once(w[k]) /\ Once(u[k])
                        /\ \A c \in Clients :
                             /\ c \in Elements(w[k]) <=> In(cl2, c, "waiting", k)
                             /\ c \in Elements(u[k]) <=> In(cl2, c, "unbound", k)
        BY Zenon DEF Lists
    <2>1. Once(w[k]) /\ Once(u[k]) BY Zenon, <1>4, <1>6, <1>7 DEF Lists
    <2>2. ASSUME NEW c \in Clients
          PROVE  /\ c \in Elements(w[k]) <=> In(cl2, c, "waiting", k)
                 /\ c \in Elements(u[k]) <=> In(cl2, c, "unbound", k)
        <3>1. /\ c \in Elements(q[k]) <=> In(cl, c, "waiting", k)
              /\ c \in Elements(u[k]) <=> In(cl, c, "unbound", k)
            BY Zenon DEF Lists
        <3>2. CASE c \in gone
            <4>1. cl2[c] = NoConn BY Zenon, <1>3, <3>2
            <4> QED BY Zenon, <1>11, <3>1, <3>2, <4>1 DEF In
        <3>3. CASE c \notin gone
            <4>1. cl2[c] = cl[c] BY Zenon, <1>3, <3>3
            <4> QED BY Zenon, <1>12, <3>1, <3>3, <4>1 DEF In
        <3> QED BY Zenon, <3>2, <3>3
    <2> QED BY Zenon, <2>1, <2>2
<1> QED BY Zenon, <1>8, <1>9, <1>10, <1>13 DEF cl2, w

\* Servers whose connections are closed leave no pointer behind.
LEMMA ServersLost ==
    ASSUME NEW failed, NEW tg,
           NEW srv \in [Interfaces -> Servers \cup {NoServer}],
           NEW sv \in [Servers -> Server \cup {NoConn}],
           OneServer(sv), Pointers(sv, tg, srv)
    PROVE  /\ ServersLeft(failed, sv) \in [Servers -> Server \cup {NoConn}]
           /\ Disassociate(failed, srv) \in [Interfaces -> Servers \cup {NoServer}]
           /\ OneServer(ServersLeft(failed, sv))
           /\ Pointers(ServersLeft(failed, sv), tg, Disassociate(failed, srv))
<1> DEFINE left == ServersLeft(failed, sv)
           pt == Disassociate(failed, srv)
<1>1. left \in [Servers -> Server \cup {NoConn}] BY Zenon DEF ServersLeft
<1>2. /\ pt \in [Interfaces -> Servers \cup {NoServer}]
      /\ \A k \in Interfaces : pt[k] = IF srv[k] \in failed THEN NoServer ELSE srv[k]
    BY Zenon DEF Disassociate
<1>3. \A s \in Servers : \A t : IsServing(left, s, t) <=> IsServing(sv, s, t) /\ s \notin failed
    BY Zenon DEF IsServing, ServersLeft
<1> HIDE DEF left, pt
<1>4. OneServer(left) BY Zenon, <1>3 DEF OneServer
<1>5. Pointers(left, tg, pt)
    <2> SUFFICES ASSUME NEW k \in Interfaces, NEW s \in Servers
                 PROVE  pt[k] = s <=> tg[k] # NoService /\ IsServing(left, s, tg[k])
        BY Zenon DEF Pointers
    <2>1. pt[k] = s <=> srv[k] = s /\ s \notin failed BY Zenon, <1>2, DirectoryConstants
    <2>2. srv[k] = s <=> tg[k] # NoService /\ IsServing(sv, s, tg[k]) BY Zenon DEF Pointers
    <2> QED BY Zenon, <1>3, <2>1, <2>2
<1> QED BY Zenon, <1>1, <1>2, <1>4, <1>5 DEF left, pt

\* A handler that ends by dispatching clients: it has to have the lists, the
\* bindings and their pointers in order when it comes to that.
LEMMA DispatchConsistent ==
    ASSUME NEW ks \in SUBSET Interfaces, NEW n \in [ks -> Nat],
           NEW q, NEW srv, NEW cl, NEW sv, NEW tg, NEW u,
           Typed(cl, sv, tg, srv, q, u), Lists(cl, q, u),
           OneServer(sv), Pointers(sv, tg, srv),
           \A k \in Interfaces \ ks : q[k] # <<>> => srv[k] = NoServer,
           \A k \in Interfaces : /\ q[k] # <<>> => tg[k] # NoService
                                 /\ u[k] # <<>> => tg[k] = NoService,
           MayDispatch(ks, n, q, srv, cl, sv)
    PROVE  Consistent(ClientsLeft(ks, n, q, cl),
                      ServersLeft(Failed(ks, n, q, srv, cl, sv), sv),
                      tg,
                      Disassociate(Failed(ks, n, q, srv, cl, sv), srv),
                      WaitingLeft(ks, n, q), u)
<1> DEFINE failed == Failed(ks, n, q, srv, cl, sv)
           cl2 == ClientsLeft(ks, n, q, cl)
           left == ServersLeft(failed, sv)
           pt == Disassociate(failed, srv)
           w == WaitingLeft(ks, n, q)
<1>1. /\ q \in [Interfaces -> Seq(Clients)] /\ cl \in [Clients -> Client \cup {NoConn}]
      /\ srv \in [Interfaces -> Servers \cup {NoServer}]
      /\ sv \in [Servers -> Server \cup {NoConn}]
      /\ tg \in [Interfaces -> Interfaces \cup {NoService}]
      /\ u \in [Interfaces -> Seq(Clients)]
    BY Zenon DEF Typed
<1>2. /\ \A k \in ks : n[k] <= Len(q[k])
      /\ \A k \in ks : srv[k] \in Servers \ failed => n[k] = Len(q[k])
    BY Zenon DEF MayDispatch
<1>3. /\ cl2 \in [Clients -> Client \cup {NoConn}]
      /\ w \in [Interfaces -> Seq(Clients)]
      /\ Lists(cl2, w, u)
      /\ \A k \in Interfaces : w[k] # <<>> => q[k] # <<>> /\ (k \in ks => n[k] < Len(q[k]))
    BY Zenon, <1>1, <1>2, ListsLeft
<1>4. /\ left \in [Servers -> Server \cup {NoConn}]
      /\ pt \in [Interfaces -> Servers \cup {NoServer}]
      /\ OneServer(left) /\ Pointers(left, tg, pt)
    BY Zenon, <1>1, ServersLost
<1>5. \A k \in Interfaces : pt[k] = IF srv[k] \in failed THEN NoServer ELSE srv[k]
    BY Zenon DEF Disassociate
<1> HIDE DEF failed, cl2, left, pt, w
<1>6. ASSUME NEW k \in Interfaces, w[k] # <<>> PROVE tg[k] # NoService /\ pt[k] = NoServer
    <2>1. q[k] # <<>> /\ tg[k] # NoService BY Zenon, <1>3, <1>6
    <2>2. CASE k \notin ks BY Zenon, <1>5, <2>1, <2>2
    <2>3. CASE k \in ks
        <3>1. n[k] < Len(q[k]) /\ n[k] \in Nat /\ Len(q[k]) \in Nat
            BY Zenon, <1>1, <1>3, <1>6, <2>3, LenProperties
        <3>2. n[k] # Len(q[k]) BY <3>1
        <3>3. srv[k] \in failed \/ srv[k] = NoServer BY Zenon, <1>1, <1>2, <2>3, <3>2
        <3> QED BY Zenon, <1>5, <2>1, <3>3
    <2> QED BY Zenon, <2>2, <2>3
<1>7. Waits(tg, pt, w, u) BY Zenon, <1>6 DEF Waits
<1>8. Typed(cl2, left, tg, pt, w, u) BY Zenon, <1>1, <1>3, <1>4 DEF Typed
<1>9. Consistent(cl2, left, tg, pt, w, u) BY Zenon, <1>3, <1>4, <1>7, <1>8 DEF Consistent
<1> QED BY Zenon, <1>9 DEF failed, cl2, left, pt, w

\* A client on a list, in another state.
LEMMA StateOfListed ==
    ASSUME NEW r \in Client, r.state \in {"unbound", "waiting"}, NEW to \in {"unbound", "waiting"}
    PROVE  /\ [r EXCEPT !.state = to] \in Client
           /\ [r EXCEPT !.state = to].state = to
           /\ [r EXCEPT !.state = to].of = r.of
<1> DEFINE Listed == [state : {"unbound", "waiting"}, of : Interfaces, protocol : Protocols,
                      wait : BOOLEAN]
<1>1. r \in Listed BY Zenon DEF Client
<1>2. [r EXCEPT !.state = to] \in Listed BY Zenon, <1>1
<1>3. [r EXCEPT !.state = to].state = to /\ [r EXCEPT !.state = to].of = r.of BY Zenon, <1>1
<1> QED BY Zenon, <1>2, <1>3 DEF Client

\* The look-up of a service.
LEMMA Found ==
    ASSUME OneServer(server), NEW t \in Interfaces
    PROVE  /\ FindService(t) \in Servers \cup {NoServer}
           /\ \A s \in Servers : FindService(t) = s <=> IsServing(server, s, t)
<1>1. \A s \in Servers : Serves(s, t) <=> IsServing(server, s, t)
    BY Zenon DEF Serves, IsServing
<1>2. \A s, r \in Servers : IsServing(server, s, t) /\ IsServing(server, r, t) => s = r
    BY Zenon DEF OneServer
<1>3. CASE \E s \in Servers : Serves(s, t)
    <2>1. FindService(t) \in Servers /\ Serves(FindService(t), t) BY Zenon, <1>3 DEF FindService
    <2> QED BY Zenon, <1>1, <1>2, <2>1
<1>4. CASE ~\E s \in Servers : Serves(s, t)
    <2>1. FindService(t) = NoServer BY Zenon, <1>4 DEF FindService
    <2> QED BY Zenon, <1>1, <1>4, <2>1, DirectoryConstants
<1> QED BY Zenon, <1>3, <1>4

\* The clients of an interface when its binding is deleted.
LEMMA Deleted ==
    ASSUME DirectoryInv, NEW k \in Interfaces
    PROVE  /\ BindingDestructor(k) \in Seq(Clients) /\ Once(BindingDestructor(k))
           /\ \A c \in Clients : c \in Elements(BindingDestructor(k)) <=>
                                   In(client, c, "waiting", k) \/ In(client, c, "unbound", k)
           /\ Elements(BindingDestructor(k)) \subseteq Clients
<1>1. unbound[k] \in Seq(Clients) /\ waiting[k] \in Seq(Clients)
    BY Zenon DEF DirectoryInv, Consistent, Typed
<1>2. unbound[k] = <<>> \/ waiting[k] = <<>>
    BY Zenon DEF DirectoryInv, Consistent, Waits
<1>3. Once(unbound[k]) /\ Once(waiting[k])
    BY Zenon DEF DirectoryInv, Consistent, Lists
<1>4. /\ BindingDestructor(k) \in Seq(Clients) /\ Once(BindingDestructor(k))
      /\ Elements(BindingDestructor(k)) = Elements(unbound[k]) \cup Elements(waiting[k])
    BY <1>1, <1>2, <1>3, ListConcat DEF BindingDestructor
<1>5. \A c \in Clients : /\ c \in Elements(waiting[k]) <=> In(client, c, "waiting", k)
                         /\ c \in Elements(unbound[k]) <=> In(client, c, "unbound", k)
    BY Zenon DEF DirectoryInv, Consistent, Lists
<1>6. \A c \in Clients : c \in Elements(BindingDestructor(k)) <=>
                             In(client, c, "waiting", k) \/ In(client, c, "unbound", k)
    BY Zenon, <1>4, <1>5
<1>7. Elements(unbound[k]) \subseteq Clients /\ Elements(waiting[k]) \subseteq Clients
    BY <1>1 DEF Elements
<1> QED BY Zenon, <1>4, <1>6, <1>7

\* A client on a list is moved to another.
LEMMA ClientMoved ==
    ASSUME DirectoryInv, NEW c \in Clients, NEW k \in Interfaces,
           In(client, c, "waiting", k) \/ In(client, c, "unbound", k),
           NEW to \in {"unbound", "waiting"}
    PROVE  /\ [client[c] EXCEPT !.state = to] \in Client
           /\ [client[c] EXCEPT !.state = to] # NoConn
           /\ [client[c] EXCEPT !.state = to].state = to
           /\ [client[c] EXCEPT !.state = to].of = k
<1>1. client[c] \in Client /\ client[c].state \in {"unbound", "waiting"} /\ client[c].of = k
    BY Zenon DEF DirectoryInv, Consistent, Typed, In
<1>2. /\ [client[c] EXCEPT !.state = to] \in Client
      /\ [client[c] EXCEPT !.state = to].state = to
      /\ [client[c] EXCEPT !.state = to].of = client[c].of
    BY Zenon, <1>1, StateOfListed
<1> QED BY Zenon, <1>1, <1>2, DirectoryConstants

\* A new binding.
LEMMA CreateBindingStep ==
    ASSUME DirectoryInv, NEW k \in Interfaces, NEW t \in Interfaces, CreateBinding(k, t)
    PROVE  DirectoryInv'
<1> DEFINE q == [waiting EXCEPT ![k] = BindingDestructor(k)]
           srv == [serving EXCEPT ![k] = FindService(t)]
           cl == Moved({k}, q, "waiting")
           tg == [target EXCEPT ![k] = t]
           u == [unbound EXCEPT ![k] = <<>>]
<1>1. CASE target[k] = t /\ UNCHANGED dirVars
    BY Zenon, <1>1 DEF dirVars, DirectoryInv
<1>2. CASE target[k] # t /\ target' = tg /\ unbound' = u /\ Dispatch({k}, q, srv, cl, server)
    <2>1. /\ Typed(client, server, target, serving, waiting, unbound)
          /\ Lists(client, waiting, unbound) /\ Waits(target, serving, waiting, unbound)
          /\ OneServer(server) /\ Pointers(server, target, serving)
        BY Zenon DEF DirectoryInv, Consistent
    <2>2. /\ q \in [Interfaces -> Seq(Clients)]
          /\ q[k] = BindingDestructor(k) /\ \A j \in Interfaces \ {k} : q[j] = waiting[j]
        BY Zenon, <2>1, Deleted DEF Typed
    <2>3. /\ u \in [Interfaces -> Seq(Clients)]
          /\ u[k] = <<>> /\ \A j \in Interfaces \ {k} : u[j] = unbound[j]
        BY <2>1 DEF Typed
    <2>4. /\ srv \in [Interfaces -> Servers \cup {NoServer}]
          /\ srv[k] = FindService(t) /\ \A j \in Interfaces \ {k} : srv[j] = serving[j]
        BY Zenon, <2>1, Found DEF Typed
    <2>5. /\ tg \in [Interfaces -> Interfaces \cup {NoService}]
          /\ tg[k] = t /\ \A j \in Interfaces \ {k} : tg[j] = target[j]
        BY Zenon, <2>1 DEF Typed
    <2>6. \A c \in Clients :
             cl[c] = IF c \in Elements(q[k]) THEN [client[c] EXCEPT !.state = "waiting"]
                                             ELSE client[c]
        BY Zenon DEF Moved
    <2>7. \A c \in Clients : c \in Elements(q[k]) <=>
                                 In(client, c, "waiting", k) \/ In(client, c, "unbound", k)
        BY Zenon, <2>2, Deleted
    <2>8. cl \in [Clients -> Client \cup {NoConn}]
        <3>1. \A c \in Clients : cl[c] \in Client \cup {NoConn}
            BY ZenonT(40), <2>1, <2>6, <2>7, ClientMoved DEF Typed
        <3>2. cl = [c \in Clients |-> cl[c]] BY Zenon DEF Moved
        <3> QED BY Zenon, <3>1, <3>2
    <2> HIDE DEF q, srv, cl, tg, u
    <2>9. ASSUME NEW c \in Clients, NEW j \in Interfaces
          PROVE  /\ In(cl, c, "waiting", j) <=>
                      IF j = k THEN c \in Elements(q[k]) ELSE In(client, c, "waiting", j)
                 /\ In(cl, c, "unbound", j) <=> j # k /\ In(client, c, "unbound", j)
        <3>1. CASE c \in Elements(q[k])
            <4>a. In(client, c, "waiting", k) \/ In(client, c, "unbound", k) BY Zenon, <2>7, <3>1
            <4>b. cl[c] = [client[c] EXCEPT !.state = "waiting"] BY Zenon, <2>6, <3>1
            <4>1. /\ cl[c] # NoConn /\ cl[c].state = "waiting" /\ cl[c].of = k
                BY Zenon, <4>a, <4>b, ClientMoved
            <4>2. client[c].of = k BY Zenon, <4>a DEF In
            <4> QED BY Zenon, <3>1, <4>1, <4>2 DEF In
        <3>2. CASE c \notin Elements(q[k])
            <4>1. cl[c] = client[c] BY Zenon, <2>6, <3>2
            <4>2. ~In(client, c, "waiting", k) /\ ~In(client, c, "unbound", k) BY Zenon, <2>7, <3>2
            <4> QED BY Zenon, <3>2, <4>1, <4>2 DEF In
        <3> QED BY Zenon, <3>1, <3>2
    <2>10. Lists(cl, q, u)
        <3> SUFFICES ASSUME NEW j \in Interfaces
                     PROVE  /\ Once(q[j]) /\ Once(u[j])
                            /\ \A c \in Clients :
                                 /\ c \in Elements(q[j]) <=> In(cl, c, "waiting", j)
                                 /\ c \in Elements(u[j]) <=> In(cl, c, "unbound", j)
            BY Zenon DEF Lists
        <3>1. CASE j = k
            <4>1. Once(q[k]) BY Zenon, <2>2, Deleted
            <4>2. Once(u[k]) /\ Elements(u[k]) = {} BY <2>3 DEF Once, Elements
            <4> QED BY Zenon, <2>9, <3>1, <4>1, <4>2
        <3>2. CASE j # k
            <4>1. q[j] = waiting[j] /\ u[j] = unbound[j] BY Zenon, <2>2, <2>3, <3>2
            <4> QED BY Zenon, <2>1, <2>9, <3>2, <4>1 DEF Lists
        <3> QED BY Zenon, <3>1, <3>2
    <2>11. Pointers(server, tg, srv)
        <3> SUFFICES ASSUME NEW j \in Interfaces, NEW s \in Servers
                     PROVE  srv[j] = s <=> tg[j] # NoService /\ IsServing(server, s, tg[j])
            BY Zenon DEF Pointers
        <3>1. CASE j = k BY Zenon, <2>1, <2>4, <2>5, <3>1, Found, DirectoryConstants
        <3>2. CASE j # k BY Zenon, <2>1, <2>4, <2>5, <3>2 DEF Pointers
        <3> QED BY Zenon, <3>1, <3>2
    <2>12. Typed(cl, server, tg, srv, q, u)
        BY Zenon, <2>1, <2>2, <2>3, <2>4, <2>5, <2>8 DEF Typed
    <2>13. \A j \in Interfaces \ {k} : q[j] # <<>> => srv[j] = NoServer
        BY Zenon, <2>1, <2>2, <2>4 DEF Waits
    <2>14. \A j \in Interfaces : /\ q[j] # <<>> => tg[j] # NoService
                                 /\ u[j] # <<>> => tg[j] = NoService
        BY ZenonT(40), <2>1, <2>2, <2>3, <2>5, DirectoryConstants DEF Waits
    <2> DEFINE ks == {k}
    <2>15. PICK n \in [ks -> 0 .. Cardinality(Clients)] :
             /\ MayDispatch(ks, n, q, srv, cl, server)
             /\ client' = ClientsLeft(ks, n, q, cl)
             /\ server' = ServersLeft(Failed(ks, n, q, srv, cl, server), server)
             /\ serving' = Disassociate(Failed(ks, n, q, srv, cl, server), srv)
             /\ waiting' = WaitingLeft(ks, n, q)
        BY Zenon, <1>2 DEF Dispatch, ClientsLeft, ServersLeft, WaitingLeft
    <2>16. ks \in SUBSET Interfaces /\ n \in [ks -> Nat] OBVIOUS
    <2> HIDE DEF ks
    <2>17. Consistent(ClientsLeft(ks, n, q, cl),
                      ServersLeft(Failed(ks, n, q, srv, cl, server), server), tg,
                      Disassociate(Failed(ks, n, q, srv, cl, server), srv),
                      WaitingLeft(ks, n, q), u)
        <3>1. \A j \in Interfaces \ ks : q[j] # <<>> => srv[j] = NoServer BY Zenon, <2>13 DEF ks
        <3> QED BY Zenon, <2>1, <2>10, <2>11, <2>12, <2>14, <2>15, <2>16, <3>1, DispatchConsistent
    <2> QED BY Zenon, <1>2, <2>15, <2>17 DEF DirectoryInv
<1> QED BY Zenon, <1>1, <1>2 DEF CreateBinding

\* All bindings are deleted, and the built-in ones made again.
LEMMA UnbindAllStep ==
    ASSUME DirectoryInv, SdirToolUnbindAll
    PROVE  DirectoryInv'
<1> DEFINE all == [k \in Interfaces |-> BindingDestructor(k)]
           rest == Interfaces \ HardCoded
           bound == UNION {Elements(all[k]) : k \in HardCoded}
           asUnbound == Moved(rest, all, "unbound")
           asWaiting == Moved(HardCoded, all, "waiting")
           q == [k \in Interfaces |-> IF k \in HardCoded THEN all[k] ELSE <<>>]
           srv == [k \in Interfaces |-> IF k \in HardCoded THEN FindService(k) ELSE NoServer]
           cl == [c \in Clients |-> IF c \in bound THEN asWaiting[c] ELSE asUnbound[c]]
           tg == [k \in Interfaces |-> IF k \in HardCoded THEN k ELSE NoService]
           u == [k \in Interfaces |-> IF k \in HardCoded THEN <<>> ELSE all[k]]
<1>1. target' = tg /\ unbound' = u /\ Dispatch(HardCoded, q, srv, cl, server)
    BY Zenon DEF SdirToolUnbindAll
<1>2. /\ Typed(client, server, target, serving, waiting, unbound)
      /\ Lists(client, waiting, unbound) /\ OneServer(server)
    BY Zenon DEF DirectoryInv, Consistent
<1>3. HardCoded \subseteq Interfaces BY Zenon, DirectoryConstants
<1>4. ASSUME NEW k \in Interfaces
      PROVE  /\ all[k] \in Seq(Clients) /\ Once(all[k])
             /\ \A c \in Clients : c \in Elements(all[k]) <=>
                                     In(client, c, "waiting", k) \/ In(client, c, "unbound", k)
    BY Zenon, Deleted
<1>5. ASSUME NEW k \in Interfaces
      PROVE  /\ q[k] = IF k \in HardCoded THEN all[k] ELSE <<>>
             /\ u[k] = IF k \in HardCoded THEN <<>> ELSE all[k]
             /\ srv[k] = IF k \in HardCoded THEN FindService(k) ELSE NoServer
             /\ tg[k] = IF k \in HardCoded THEN k ELSE NoService
    BY Zenon
<1>6. <<>> \in Seq(Clients) /\ Once(<<>>) /\ Elements(<<>>) = {}
    BY DEF Once, Elements
<1>7. q \in [Interfaces -> Seq(Clients)] /\ u \in [Interfaces -> Seq(Clients)]
    BY Zenon, <1>4, <1>6
<1>8. srv \in [Interfaces -> Servers \cup {NoServer}]
    BY Zenon, <1>2, Found
<1>9. tg \in [Interfaces -> Interfaces \cup {NoService}]
    BY Zenon
<1>10. ASSUME NEW c \in Clients, NEW k \in Interfaces, c \in Elements(all[k])
       PROVE  LET to == IF k \in HardCoded THEN "waiting" ELSE "unbound"
              IN  cl[c] = [client[c] EXCEPT !.state = to]
    <2>1. client[c].of = k /\ (In(client, c, "waiting", k) \/ In(client, c, "unbound", k))
        BY Zenon, <1>4, <1>10 DEF In
    <2>2. \A j \in Interfaces : c \in Elements(all[j]) => j = k
        BY Zenon, <1>4, <2>1 DEF In
    <2>3. c \in bound <=> k \in HardCoded BY Zenon, <1>3, <1>10, <2>2
    <2>4. CASE k \in HardCoded
        <3>1. cl[c] = asWaiting[c] BY Zenon, <2>3, <2>4
        <3>2. asWaiting[c] = [client[c] EXCEPT !.state = "waiting"] BY Zenon, <1>10, <2>4 DEF Moved
        <3> QED BY Zenon, <2>4, <3>1, <3>2
    <2>5. CASE k \notin HardCoded
        <3>1. cl[c] = asUnbound[c] BY Zenon, <2>3, <2>5
        <3>2. asUnbound[c] = [client[c] EXCEPT !.state = "unbound"] BY Zenon, <1>10, <2>5 DEF Moved
        <3> QED BY Zenon, <2>5, <3>1, <3>2
    <2> QED BY Zenon, <2>4, <2>5
<1>11. ASSUME NEW c \in Clients, \A k \in Interfaces : c \notin Elements(all[k])
       PROVE  cl[c] = client[c]
    <2>1. c \notin bound BY Zenon, <1>3, <1>11
    <2>2. asUnbound[c] = client[c] BY Zenon, <1>11 DEF Moved
    <2> QED BY Zenon, <2>1, <2>2
<1>12. ASSUME NEW c \in Clients, NEW k \in Interfaces, c \in Elements(all[k])
       PROVE  /\ cl[c] \in Client /\ cl[c] # NoConn /\ cl[c].of = k
              /\ cl[c].state = IF k \in HardCoded THEN "waiting" ELSE "unbound"
    <2>1. In(client, c, "waiting", k) \/ In(client, c, "unbound", k) BY Zenon, <1>4, <1>12
    <2>2. CASE k \in HardCoded
        <3>1. cl[c] = [client[c] EXCEPT !.state = "waiting"] BY Zenon, <1>10, <1>12, <2>2
        <3> HIDE DEF cl
        <3> QED BY Zenon, <2>1, <2>2, <3>1, ClientMoved
    <2>3. CASE k \notin HardCoded
        <3>1. cl[c] = [client[c] EXCEPT !.state = "unbound"] BY Zenon, <1>10, <1>12, <2>3
        <3> HIDE DEF cl
        <3> QED BY Zenon, <2>1, <2>3, <3>1, ClientMoved
    <2> QED BY Zenon, <2>2, <2>3
<1>13. cl = [c \in Clients |-> cl[c]]
    BY Zenon
<1> HIDE DEF all, rest, bound, asUnbound, asWaiting, q, srv, cl, tg, u
<1>14. cl \in [Clients -> Client \cup {NoConn}]
    <2>1. \A c \in Clients : cl[c] \in Client \cup {NoConn} BY Zenon, <1>2, <1>11, <1>12 DEF Typed
    <2> QED BY Zenon, <1>13, <2>1
<1>15. ASSUME NEW c \in Clients, NEW j \in Interfaces
       PROVE  /\ In(cl, c, "waiting", j) <=> j \in HardCoded /\ c \in Elements(all[j])
              /\ In(cl, c, "unbound", j) <=> j \notin HardCoded /\ c \in Elements(all[j])
    <2>1. ASSUME NEW k \in Interfaces, c \in Elements(all[k])
          PROVE  /\ In(cl, c, "waiting", j) <=> j \in HardCoded /\ c \in Elements(all[j])
                 /\ In(cl, c, "unbound", j) <=> j \notin HardCoded /\ c \in Elements(all[j])
        <3>1. /\ cl[c] # NoConn /\ cl[c].of = k
              /\ cl[c].state = IF k \in HardCoded THEN "waiting" ELSE "unbound"
            BY Zenon, <1>12, <2>1
        <3>2. c \in Elements(all[j]) => j = k BY Zenon, <1>12, <3>1
        <3> QED BY Zenon, <2>1, <3>1, <3>2 DEF In
    <2>2. ASSUME \A k \in Interfaces : c \notin Elements(all[k])
          PROVE  ~In(cl, c, "waiting", j) /\ ~In(cl, c, "unbound", j)
        <3>1. cl[c] = client[c] BY Zenon, <1>11, <2>2
        <3>2. ~In(client, c, "waiting", j) /\ ~In(client, c, "unbound", j) BY Zenon, <1>4, <2>2
        <3> QED BY Zenon, <3>1, <3>2 DEF In
    <2> QED BY Zenon, <2>1, <2>2
<1>16. Lists(cl, q, u)
    <2> SUFFICES ASSUME NEW j \in Interfaces
                 PROVE  /\ Once(q[j]) /\ Once(u[j])
                        /\ \A c \in Clients :
                             /\ c \in Elements(q[j]) <=> In(cl, c, "waiting", j)
                             /\ c \in Elements(u[j]) <=> In(cl, c, "unbound", j)
        BY Zenon DEF Lists
    <2>1. CASE j \in HardCoded
        <3>1. q[j] = all[j] /\ u[j] = <<>> BY Zenon, <1>5, <2>1
        <3> QED BY Zenon, <1>4, <1>6, <1>15, <2>1, <3>1
    <2>2. CASE j \notin HardCoded
        <3>1. q[j] = <<>> /\ u[j] = all[j] BY Zenon, <1>5, <2>2
        <3> QED BY Zenon, <1>4, <1>6, <1>15, <2>2, <3>1
    <2> QED BY Zenon, <2>1, <2>2
<1>17. Pointers(server, tg, srv)
    <2> SUFFICES ASSUME NEW j \in Interfaces, NEW s \in Servers
                 PROVE  srv[j] = s <=> tg[j] # NoService /\ IsServing(server, s, tg[j])
        BY Zenon DEF Pointers
    <2>1. CASE j \in HardCoded
        <3>1. tg[j] = j /\ srv[j] = FindService(j) BY Zenon, <1>5, <2>1
        <3> QED BY <1>2, <3>1, Found, DirectoryConstants
    <2>2. CASE j \notin HardCoded
        <3>1. tg[j] = NoService /\ srv[j] = NoServer BY Zenon, <1>5, <2>2
        <3> QED BY Zenon, <3>1, DirectoryConstants
    <2> QED BY Zenon, <2>1, <2>2
<1>18. Typed(cl, server, tg, srv, q, u)
    BY Zenon, <1>2, <1>7, <1>8, <1>9, <1>14 DEF Typed
<1>19. \A j \in Interfaces \ HardCoded : q[j] # <<>> => srv[j] = NoServer
    BY Zenon, <1>5
<1>20. \A j \in Interfaces : /\ q[j] # <<>> => tg[j] # NoService
                             /\ u[j] # <<>> => tg[j] = NoService
    BY Zenon, <1>5, DirectoryConstants
<1>21. PICK n \in [HardCoded -> 0 .. Cardinality(Clients)] :
         /\ MayDispatch(HardCoded, n, q, srv, cl, server)
         /\ client' = ClientsLeft(HardCoded, n, q, cl)
         /\ server' = ServersLeft(Failed(HardCoded, n, q, srv, cl, server), server)
         /\ serving' = Disassociate(Failed(HardCoded, n, q, srv, cl, server), srv)
         /\ waiting' = WaitingLeft(HardCoded, n, q)
    BY Zenon, <1>1 DEF Dispatch, ClientsLeft, ServersLeft, WaitingLeft
<1>22. HardCoded \in SUBSET Interfaces /\ n \in [HardCoded -> Nat] BY <1>3
<1>23. Consistent(ClientsLeft(HardCoded, n, q, cl),
                  ServersLeft(Failed(HardCoded, n, q, srv, cl, server), server), tg,
                  Disassociate(Failed(HardCoded, n, q, srv, cl, server), srv),
                  WaitingLeft(HardCoded, n, q), u)
    BY Zenon, <1>2, <1>16, <1>17, <1>18, <1>19, <1>20, <1>21, <1>22, DispatchConsistent
<1> QED BY Zenon, <1>1, <1>21, <1>23 DEF DirectoryInv

\* A client that is on no list.
LEMMA NotListed ==
    ASSUME DirectoryInv, NEW c \in Clients,
           client[c] = NoConn \/ client[c].state = "unknown", NEW k \in Interfaces
    PROVE  /\ c \notin Elements(waiting[k]) /\ c \notin Elements(unbound[k])
           /\ ~In(client, c, "waiting", k) /\ ~In(client, c, "unbound", k)
<1>1. ~In(client, c, "waiting", k) /\ ~In(client, c, "unbound", k) BY Zenon DEF In
<1>2. /\ c \in Elements(waiting[k]) <=> In(client, c, "waiting", k)
      /\ c \in Elements(unbound[k]) <=> In(client, c, "unbound", k)
    BY Zenon DEF DirectoryInv, Consistent, Lists
<1> QED BY Zenon, <1>1, <1>2

\* It connects, or its connection ends.
LEMMA UnlistedStep ==
    ASSUME DirectoryInv, NEW c \in Clients, client[c] = NoConn \/ client[c].state = "unknown",
           NEW x \in Client \cup {NoConn}, x = NoConn \/ x.state = "unknown",
           client' = [client EXCEPT ![c] = x],
           UNCHANGED <<server, target, serving, waiting, unbound>>
    PROVE  DirectoryInv'
<1>1. /\ Typed(client, server, target, serving, waiting, unbound)
      /\ Lists(client, waiting, unbound) /\ Waits(target, serving, waiting, unbound)
      /\ OneServer(server) /\ Pointers(server, target, serving)
    BY Zenon DEF DirectoryInv, Consistent
<1> DEFINE cl == [client EXCEPT ![c] = x]
<1>2. cl \in [Clients -> Client \cup {NoConn}] BY Zenon, <1>1 DEF Typed
<1>3. cl[c] = x /\ \A d \in Clients \ {c} : cl[d] = client[d] BY Zenon, <1>1 DEF Typed
<1> HIDE DEF cl
<1>4. ASSUME NEW d \in Clients, NEW k \in Interfaces
      PROVE  /\ In(cl, d, "waiting", k) <=> In(client, d, "waiting", k)
             /\ In(cl, d, "unbound", k) <=> In(client, d, "unbound", k)
    <2>1. CASE d = c BY Zenon, <1>3, <2>1, NotListed DEF In
    <2>2. CASE d # c BY Zenon, <1>3, <2>2 DEF In
    <2> QED BY Zenon, <2>1, <2>2
<1>5. Lists(cl, waiting, unbound) BY Zenon, <1>1, <1>4 DEF Lists
<1>6. Typed(cl, server, target, serving, waiting, unbound) BY Zenon, <1>1, <1>2 DEF Typed
<1>7. Consistent(cl, server, target, serving, waiting, unbound)
    BY Zenon, <1>1, <1>5, <1>6 DEF Consistent
<1> QED BY Zenon, <1>7 DEF DirectoryInv, cl

\* It joins the list of an interface.
LEMMA Joined ==
    ASSUME DirectoryInv, NEW c \in Clients, client[c] # NoConn, client[c].state = "unknown",
           NEW k \in Interfaces, NEW p \in Protocols, NEW wait \in BOOLEAN,
           NEW st \in {"waiting", "unbound"}
    PROVE  LET cl == [client EXCEPT ![c] =
                        [state |-> st, of |-> k, protocol |-> p, wait |-> wait]]
               w == IF st = "waiting" THEN [waiting EXCEPT ![k] = Append(@, c)] ELSE waiting
               u == IF st = "unbound" THEN [unbound EXCEPT ![k] = Append(@, c)] ELSE unbound
           IN  /\ Typed(cl, server, target, serving, w, u)
               /\ Lists(cl, w, u)
<1> DEFINE r == [state |-> st, of |-> k, protocol |-> p, wait |-> wait]
           cl == [client EXCEPT ![c] = r]
           w == IF st = "waiting" THEN [waiting EXCEPT ![k] = Append(@, c)] ELSE waiting
           u == IF st = "unbound" THEN [unbound EXCEPT ![k] = Append(@, c)] ELSE unbound
<1>1. /\ Typed(client, server, target, serving, waiting, unbound)
      /\ Lists(client, waiting, unbound)
    BY Zenon DEF DirectoryInv, Consistent
<1>2. r \in Client /\ r.state = st /\ r.of = k BY Zenon DEF Client
<1>3. r # NoConn BY Zenon, <1>2, DirectoryConstants
<1> HIDE DEF r
<1>4. cl \in [Clients -> Client \cup {NoConn}] BY Zenon, <1>1, <1>2 DEF Typed
<1>5. cl[c] = r /\ \A d \in Clients \ {c} : cl[d] = client[d] BY Zenon, <1>1 DEF Typed
<1>6. ASSUME NEW j \in Interfaces
      PROVE  /\ c \notin Elements(waiting[j]) /\ c \notin Elements(unbound[j])
             /\ waiting[j] \in Seq(Clients) /\ unbound[j] \in Seq(Clients)
             /\ Once(waiting[j]) /\ Once(unbound[j])
    BY Zenon, <1>1, NotListed DEF Typed, Lists
<1>7. /\ Append(waiting[k], c) \in Seq(Clients) /\ Once(Append(waiting[k], c))
      /\ Elements(Append(waiting[k], c)) = Elements(waiting[k]) \cup {c}
    BY <1>6, ListAppend
<1>8. /\ Append(unbound[k], c) \in Seq(Clients) /\ Once(Append(unbound[k], c))
      /\ Elements(Append(unbound[k], c)) = Elements(unbound[k]) \cup {c}
    BY <1>6, ListAppend
<1>9. /\ w \in [Interfaces -> Seq(Clients)]
      /\ \A j \in Interfaces :
           w[j] = IF st = "waiting" /\ j = k THEN Append(waiting[k], c) ELSE waiting[j]
    BY Zenon, <1>1, <1>7 DEF Typed
<1>10. /\ u \in [Interfaces -> Seq(Clients)]
       /\ \A j \in Interfaces :
            u[j] = IF st = "unbound" /\ j = k THEN Append(unbound[k], c) ELSE unbound[j]
    BY Zenon, <1>1, <1>8 DEF Typed
<1> HIDE DEF cl, w, u
<1>11. ASSUME NEW d \in Clients, NEW j \in Interfaces
       PROVE  /\ In(cl, d, "waiting", j) <=>
                   In(client, d, "waiting", j) \/ (d = c /\ st = "waiting" /\ j = k)
              /\ In(cl, d, "unbound", j) <=>
                   In(client, d, "unbound", j) \/ (d = c /\ st = "unbound" /\ j = k)
    <2>1. CASE d = c
        <3>1. ~In(client, c, "waiting", j) /\ ~In(client, c, "unbound", j) BY Zenon, NotListed
        <3> QED BY Zenon, <1>2, <1>3, <1>5, <2>1, <3>1 DEF In
    <2>2. CASE d # c BY Zenon, <1>5, <2>2 DEF In
    <2> QED BY Zenon, <2>1, <2>2
<1>12. ASSUME NEW j \in Interfaces
       PROVE  /\ Once(w[j]) /\ Once(u[j])
              /\ \A d \in Clients :
                   /\ d \in Elements(w[j]) <=>
                        d \in Elements(waiting[j]) \/ (d = c /\ st = "waiting" /\ j = k)
                   /\ d \in Elements(u[j]) <=>
                        d \in Elements(unbound[j]) \/ (d = c /\ st = "unbound" /\ j = k)
    BY Zenon, <1>6, <1>7, <1>8, <1>9, <1>10
<1>13. ASSUME NEW d \in Clients, NEW j \in Interfaces
       PROVE  /\ d \in Elements(waiting[j]) <=> In(client, d, "waiting", j)
              /\ d \in Elements(unbound[j]) <=> In(client, d, "unbound", j)
    BY Zenon, <1>1 DEF Lists
<1>14. Lists(cl, w, u) BY Zenon, <1>11, <1>12, <1>13 DEF Lists
<1>15. Typed(cl, server, target, serving, w, u) BY Zenon, <1>1, <1>4, <1>9, <1>10 DEF Typed
<1> QED BY Zenon, <1>14, <1>15 DEF cl, w, u, r

\* A client asks for its session.
LEMMA OpenStep ==
    ASSUME DirectoryInv, NEW c \in Clients, NEW name \in Names, NEW p \in Protocols,
           NEW wait \in BOOLEAN, ProcessOpenRequestFromClient(c, name, p, wait)
    PROVE  DirectoryInv'
<1>1. /\ Typed(client, server, target, serving, waiting, unbound)
      /\ Lists(client, waiting, unbound) /\ Waits(target, serving, waiting, unbound)
      /\ OneServer(server) /\ Pointers(server, target, serving)
    BY Zenon DEF DirectoryInv, Consistent
<1>2. client[c] # NoConn /\ client[c].state = "unknown"
    BY Zenon DEF ProcessOpenRequestFromClient
<1> DEFINE k == <<client[c].user, name>>
           as(st) == [client EXCEPT ![c] = [state |-> st, of |-> k, protocol |-> p, wait |-> wait]]
           wt == [waiting EXCEPT ![k] = Append(@, c)]
           ub == [unbound EXCEPT ![k] = Append(@, c)]
<1>3. k \in Interfaces
    <2>1. client[c] \in Client BY Zenon, <1>1, <1>2 DEF Typed
    <2>2. client[c].user \in Users BY Zenon, <1>2, <2>1 DEF Client
    <2> QED BY Zenon, <2>2 DEF Interfaces
<1>4. \/ /\ target[k] # NoService /\ serving[k] # NoServer
         /\ Dispatch({k}, wt, serving, as("waiting"), server) /\ UNCHANGED <<target, unbound>>
      \/ /\ target[k] # NoService /\ serving[k] = NoServer
         /\ client' = as("waiting") /\ waiting' = wt
         /\ UNCHANGED <<server, target, serving, unbound>>
      \/ /\ target[k] = NoService
         /\ client' = as("unbound") /\ unbound' = ub
         /\ UNCHANGED <<server, target, serving, waiting>>
      \/ Reject(c)
    BY Zenon DEF ProcessOpenRequestFromClient, FollowBinding
<1> HIDE DEF k
<1>5. /\ Typed(as("waiting"), server, target, serving, wt, unbound)
      /\ Lists(as("waiting"), wt, unbound)
    BY Zenon, <1>2, <1>3, Joined
<1>6. /\ Typed(as("unbound"), server, target, serving, waiting, ub)
      /\ Lists(as("unbound"), waiting, ub)
    BY Zenon, <1>2, <1>3, Joined
<1>7. \A j \in Interfaces \ {k} : wt[j] = waiting[j] /\ ub[j] = unbound[j]
    BY Zenon, <1>1 DEF Typed
<1> DEFINE cw == as("waiting")
           cu == as("unbound")
<1> HIDE DEF as, wt, ub, cw, cu
<1>8. ASSUME target[k] # NoService, serving[k] # NoServer,
             Dispatch({k}, wt, serving, as("waiting"), server), UNCHANGED <<target, unbound>>
      PROVE  DirectoryInv'
    <2> DEFINE ks == {k}
    <2>1. PICK n \in [ks -> 0 .. Cardinality(Clients)] :
             /\ MayDispatch(ks, n, wt, serving, cw, server)
             /\ client' = ClientsLeft(ks, n, wt, cw)
             /\ server' = ServersLeft(Failed(ks, n, wt, serving, cw, server), server)
             /\ serving' = Disassociate(Failed(ks, n, wt, serving, cw, server), serving)
             /\ waiting' = WaitingLeft(ks, n, wt)
        BY Zenon, <1>8 DEF Dispatch, ClientsLeft, ServersLeft, WaitingLeft, cw
    <2>2. ks \in SUBSET Interfaces /\ n \in [ks -> Nat] BY <1>3
    <2>3. \A j \in Interfaces \ ks : wt[j] # <<>> => serving[j] = NoServer
        BY Zenon, <1>1, <1>7 DEF Waits
    <2>4. \A j \in Interfaces : /\ wt[j] # <<>> => target[j] # NoService
                                /\ unbound[j] # <<>> => target[j] = NoService
        BY Zenon, <1>1, <1>7, <1>8 DEF Waits
    <2> HIDE DEF ks
    <2>5. Typed(cw, server, target, serving, wt, unbound) /\ Lists(cw, wt, unbound)
        BY Zenon, <1>5 DEF cw
    <2>6. Consistent(ClientsLeft(ks, n, wt, cw),
                     ServersLeft(Failed(ks, n, wt, serving, cw, server), server), target,
                     Disassociate(Failed(ks, n, wt, serving, cw, server), serving),
                     WaitingLeft(ks, n, wt), unbound)
        BY Zenon, <1>1, <2>1, <2>2, <2>3, <2>4, <2>5, DispatchConsistent
    <2> QED BY Zenon, <1>8, <2>1, <2>6 DEF DirectoryInv
<1>9. ASSUME target[k] # NoService, serving[k] = NoServer, client' = as("waiting"),
             waiting' = wt, UNCHANGED <<server, target, serving, unbound>>
      PROVE  DirectoryInv'
    <2>1. Waits(target, serving, wt, unbound) BY Zenon, <1>1, <1>7, <1>9 DEF Waits
    <2>2. Consistent(as("waiting"), server, target, serving, wt, unbound)
        BY Zenon, <1>1, <1>5, <2>1 DEF Consistent
    <2> QED BY Zenon, <1>9, <2>2 DEF DirectoryInv
<1>10. ASSUME target[k] = NoService, client' = as("unbound"), unbound' = ub,
              UNCHANGED <<server, target, serving, waiting>>
       PROVE  DirectoryInv'
    <2>1. Waits(target, serving, waiting, ub) BY Zenon, <1>1, <1>7, <1>10 DEF Waits
    <2>2. Consistent(as("unbound"), server, target, serving, waiting, ub)
        BY Zenon, <1>1, <1>6, <2>1 DEF Consistent
    <2> QED BY Zenon, <1>10, <2>2 DEF DirectoryInv
<1>11. ASSUME Reject(c) PROVE DirectoryInv'
    BY Zenon, <1>2, <1>11, UnlistedStep DEF Reject
<1> QED BY Zenon, <1>4, <1>8, <1>9, <1>10, <1>11

\* The connection of a client ends.
LEMMA CloseClientStep ==
    ASSUME DirectoryInv, NEW c \in Clients, CloseClientConnection(c)
    PROVE  DirectoryInv'
<1>1. /\ Typed(client, server, target, serving, waiting, unbound)
      /\ Lists(client, waiting, unbound) /\ Waits(target, serving, waiting, unbound)
      /\ OneServer(server) /\ Pointers(server, target, serving)
    BY Zenon DEF DirectoryInv, Consistent
<1> DEFINE k == client[c].of
           cl == [client EXCEPT ![c] = NoConn]
           w == [waiting EXCEPT ![k] = Without(@, c)]
           u == [unbound EXCEPT ![k] = Without(@, c)]
<1>2. client[c] # NoConn /\ client' = cl /\ UNCHANGED <<server, target, serving>>
    BY Zenon DEF CloseClientConnection
<1>3. client[c] \in Client BY Zenon, <1>1, <1>2 DEF Typed
<1>4. cl \in [Clients -> Client \cup {NoConn}] BY Zenon, <1>1 DEF Typed
<1>5. cl[c] = NoConn /\ \A d \in Clients \ {c} : cl[d] = client[d] BY Zenon, <1>1 DEF Typed
<1>6. ASSUME NEW d \in Clients, NEW j \in Interfaces, NEW st
      PROVE  In(cl, d, st, j) <=> d # c /\ In(client, d, st, j)
    BY Zenon, <1>5 DEF In
<1>7. CASE client[c].state = "unknown"
    <2>1. waiting' = waiting /\ unbound' = unbound BY Zenon, <1>7 DEF CloseClientConnection
    <2> QED BY Zenon, <1>2, <1>7, <2>1, UnlistedStep
<1>8. CASE client[c].state = "waiting"
    <2>1. waiting' = w /\ unbound' = unbound BY Zenon, <1>8 DEF CloseClientConnection
    <2>2. k \in Interfaces BY Zenon, <1>3, <1>8 DEF Client
    <2>3. In(client, c, "waiting", k) BY Zenon, <1>2, <1>8 DEF In
    <2>4. c \in Elements(waiting[k]) BY Zenon, <1>1, <2>2, <2>3 DEF Lists
    <2>5. waiting[k] \in Seq(Clients) /\ Once(waiting[k]) BY Zenon, <1>1, <2>2 DEF Typed, Lists
    <2>6. /\ Without(waiting[k], c) \in Seq(Clients) /\ Once(Without(waiting[k], c))
          /\ Elements(Without(waiting[k], c)) = Elements(waiting[k]) \ {c}
          /\ waiting[k] # <<>>
        BY Zenon, <2>4, <2>5, ListWithout
    <2>7. /\ w \in [Interfaces -> Seq(Clients)] /\ w[k] = Without(waiting[k], c)
          /\ \A j \in Interfaces \ {k} : w[j] = waiting[j]
        BY Zenon, <1>1, <2>2, <2>6 DEF Typed
    <2> HIDE DEF w, cl, k
    <2>8. ASSUME NEW j \in Interfaces
          PROVE  /\ Once(w[j]) /\ Once(unbound[j])
                 /\ \A d \in Clients : /\ d \in Elements(w[j]) <=> In(cl, d, "waiting", j)
                                       /\ d \in Elements(unbound[j]) <=> In(cl, d, "unbound", j)
        <3>1. /\ Once(waiting[j]) /\ Once(unbound[j])
              /\ \A d \in Clients :
                   /\ d \in Elements(waiting[j]) <=> In(client, d, "waiting", j)
                   /\ d \in Elements(unbound[j]) <=> In(client, d, "unbound", j)
            BY Zenon, <1>1 DEF Lists
        <3>2. ~In(client, c, "unbound", j) /\ (j # k => ~In(client, c, "waiting", j))
            BY Zenon, <2>3 DEF In
        <3>3. CASE j = k BY Zenon, <1>6, <2>6, <2>7, <3>1, <3>2, <3>3
        <3>4. CASE j # k BY Zenon, <1>6, <2>7, <3>1, <3>2, <3>4
        <3> QED BY Zenon, <3>3, <3>4
    <2>9. Lists(cl, w, unbound) BY Zenon, <2>8 DEF Lists
    <2>10. Waits(target, serving, w, unbound) BY Zenon, <1>1, <2>6, <2>7 DEF Waits
    <2>11. Typed(cl, server, target, serving, w, unbound) BY Zenon, <1>1, <1>4, <2>7 DEF Typed
    <2>12. Consistent(cl, server, target, serving, w, unbound)
        BY Zenon, <1>1, <2>9, <2>10, <2>11 DEF Consistent
    <2> QED BY Zenon, <1>2, <2>1, <2>12 DEF DirectoryInv
<1>9. CASE client[c].state = "unbound"
    <2>1. waiting' = waiting /\ unbound' = u BY Zenon, <1>9 DEF CloseClientConnection
    <2>2. k \in Interfaces BY Zenon, <1>3, <1>9 DEF Client
    <2>3. In(client, c, "unbound", k) BY Zenon, <1>2, <1>9 DEF In
    <2>4. c \in Elements(unbound[k]) BY Zenon, <1>1, <2>2, <2>3 DEF Lists
    <2>5. unbound[k] \in Seq(Clients) /\ Once(unbound[k]) BY Zenon, <1>1, <2>2 DEF Typed, Lists
    <2>6. /\ Without(unbound[k], c) \in Seq(Clients) /\ Once(Without(unbound[k], c))
          /\ Elements(Without(unbound[k], c)) = Elements(unbound[k]) \ {c}
          /\ unbound[k] # <<>>
        BY Zenon, <2>4, <2>5, ListWithout
    <2>7. /\ u \in [Interfaces -> Seq(Clients)] /\ u[k] = Without(unbound[k], c)
          /\ \A j \in Interfaces \ {k} : u[j] = unbound[j]
        BY Zenon, <1>1, <2>2, <2>6 DEF Typed
    <2> HIDE DEF u, cl, k
    <2>8. ASSUME NEW j \in Interfaces
          PROVE  /\ Once(waiting[j]) /\ Once(u[j])
                 /\ \A d \in Clients : /\ d \in Elements(waiting[j]) <=> In(cl, d, "waiting", j)
                                       /\ d \in Elements(u[j]) <=> In(cl, d, "unbound", j)
        <3>1. /\ Once(waiting[j]) /\ Once(unbound[j])
              /\ \A d \in Clients :
                   /\ d \in Elements(waiting[j]) <=> In(client, d, "waiting", j)
                   /\ d \in Elements(unbound[j]) <=> In(client, d, "unbound", j)
            BY Zenon, <1>1 DEF Lists
        <3>2. ~In(client, c, "waiting", j) /\ (j # k => ~In(client, c, "unbound", j))
            BY Zenon, <2>3 DEF In
        <3>3. CASE j = k BY Zenon, <1>6, <2>6, <2>7, <3>1, <3>2, <3>3
        <3>4. CASE j # k BY Zenon, <1>6, <2>7, <3>1, <3>2, <3>4
        <3> QED BY Zenon, <3>3, <3>4
    <2>9. Lists(cl, waiting, u) BY Zenon, <2>8 DEF Lists
    <2>10. Waits(target, serving, waiting, u) BY Zenon, <1>1, <2>6, <2>7 DEF Waits
    <2>11. Typed(cl, server, target, serving, waiting, u) BY Zenon, <1>1, <1>4, <2>7 DEF Typed
    <2>12. Consistent(cl, server, target, serving, waiting, u)
        BY Zenon, <1>1, <2>9, <2>10, <2>11 DEF Consistent
    <2> QED BY Zenon, <1>2, <2>1, <2>12 DEF DirectoryInv
<1>10. client[c].state \in {"unknown", "waiting", "unbound"} BY Zenon, <1>3 DEF Client
<1> QED BY Zenon, <1>7, <1>8, <1>9, <1>10

\* The connection of a server ends.
LEMMA CloseServerStep ==
    ASSUME DirectoryInv, NEW s \in Servers, CloseServerConnection(s)
    PROVE  DirectoryInv'
<1>1. /\ Typed(client, server, target, serving, waiting, unbound)
      /\ Lists(client, waiting, unbound) /\ Waits(target, serving, waiting, unbound)
      /\ OneServer(server) /\ Pointers(server, target, serving)
    BY Zenon DEF DirectoryInv, Consistent
<1> DEFINE sv == ServersLeft({s}, server)
           pt == Disassociate({s}, serving)
<1>2. /\ server' = sv /\ serving' = pt /\ UNCHANGED <<client, target, waiting, unbound>>
    BY Zenon, <1>1 DEF CloseServerConnection, ServersLeft, Typed
<1>3. /\ sv \in [Servers -> Server \cup {NoConn}]
      /\ pt \in [Interfaces -> Servers \cup {NoServer}]
      /\ OneServer(sv) /\ Pointers(sv, target, pt)
    BY Zenon, <1>1, ServersLost DEF Typed
<1>4. \A k \in Interfaces : serving[k] = NoServer => pt[k] = NoServer
    BY Zenon DEF Disassociate
<1> HIDE DEF sv, pt
<1>5. Waits(target, pt, waiting, unbound) BY Zenon, <1>1, <1>4 DEF Waits
<1>6. Typed(client, sv, target, pt, waiting, unbound) BY Zenon, <1>1, <1>3 DEF Typed
<1>7. Consistent(client, sv, target, pt, waiting, unbound)
    BY Zenon, <1>1, <1>3, <1>5, <1>6 DEF Consistent
<1> QED BY Zenon, <1>2, <1>7 DEF DirectoryInv

\* A server connects.
LEMMA ServerConnectStep ==
    ASSUME DirectoryInv, NEW s \in Servers, NEW u \in Users, ServerConnectHandler(s, u)
    PROVE  DirectoryInv'
<1>1. /\ Typed(client, server, target, serving, waiting, unbound)
      /\ Lists(client, waiting, unbound) /\ Waits(target, serving, waiting, unbound)
      /\ OneServer(server) /\ Pointers(server, target, serving)
    BY Zenon DEF DirectoryInv, Consistent
<1> DEFINE r == [state |-> "connected", user |-> u]
           sv == [server EXCEPT ![s] = r]
<1>2. /\ server[s] = NoConn /\ server' = sv
      /\ UNCHANGED <<client, target, serving, waiting, unbound>>
    BY Zenon DEF ServerConnectHandler
<1>3. r \in Server /\ r.state = "connected" BY Zenon DEF Server
<1> HIDE DEF r
<1>4. sv \in [Servers -> Server \cup {NoConn}] BY Zenon, <1>1, <1>3 DEF Typed
<1>5. sv[s] = r /\ \A x \in Servers \ {s} : sv[x] = server[x] BY Zenon, <1>1 DEF Typed
<1> HIDE DEF sv
<1>6. ASSUME NEW x \in Servers, NEW t
      PROVE  IsServing(sv, x, t) <=> IsServing(server, x, t)
    BY Zenon, <1>2, <1>3, <1>5 DEF IsServing
<1>7. OneServer(sv) BY Zenon, <1>1, <1>6 DEF OneServer
<1>8. Pointers(sv, target, serving) BY Zenon, <1>1, <1>6 DEF Pointers
<1>9. Typed(client, sv, target, serving, waiting, unbound) BY Zenon, <1>1, <1>4 DEF Typed
<1>10. Consistent(client, sv, target, serving, waiting, unbound)
    BY Zenon, <1>1, <1>7, <1>8, <1>9 DEF Consistent
<1> QED BY Zenon, <1>2, <1>10 DEF DirectoryInv

\* A server advertises its service.
LEMMA AdvertiseStep ==
    ASSUME DirectoryInv, NEW s \in Servers, NEW name \in Names, NEW p \in Protocols,
           ProcessAdvertisementFromServer(s, name, p)
    PROVE  DirectoryInv'
<1>1. /\ Typed(client, server, target, serving, waiting, unbound)
      /\ Lists(client, waiting, unbound) /\ Waits(target, serving, waiting, unbound)
      /\ OneServer(server) /\ Pointers(server, target, serving)
    BY Zenon DEF DirectoryInv, Consistent
<1>2. server[s] # NoConn /\ server[s].state = "connected"
    BY Zenon DEF ProcessAdvertisementFromServer
<1> DEFINE t == <<server[s].user, name>>
           r == [state |-> "serving", of |-> t, protocol |-> p]
           sv == [server EXCEPT ![s] = r]
           ks == {k \in Interfaces : target[k] = t}
           srv == [k \in Interfaces |-> IF k \in ks THEN s ELSE serving[k]]
<1>3. t \in Interfaces
    <2>1. server[s] \in Server BY Zenon, <1>1, <1>2 DEF Typed
    <2>2. server[s].user \in Users BY Zenon, <1>2, <2>1 DEF Server
    <2> QED BY Zenon, <2>2 DEF Interfaces
<1>4. CASE CloseServerConnection(s) BY Zenon, <1>4, CloseServerStep
<1>5. CASE /\ FindService(t) = NoServer
           /\ Dispatch(ks, waiting, srv, client, sv) /\ UNCHANGED <<target, unbound>>
    <2> HIDE DEF t
    <2>1. r \in Server /\ r.state = "serving" /\ r.of = t BY Zenon, <1>3 DEF Server
    <2>2. r # NoConn BY Zenon, <2>1, DirectoryConstants
    <2> HIDE DEF r
    <2>3. sv \in [Servers -> Server \cup {NoConn}] BY Zenon, <1>1, <2>1 DEF Typed
    <2>4. sv[s] = r /\ \A x \in Servers \ {s} : sv[x] = server[x] BY Zenon, <1>1 DEF Typed
    <2>5. \A x \in Servers : ~IsServing(server, x, t)
        BY Zenon, <1>1, <1>3, <1>5, Found, DirectoryConstants
    <2>6. /\ srv \in [Interfaces -> Servers \cup {NoServer}]
          /\ \A k \in Interfaces : srv[k] = IF target[k] = t THEN s ELSE serving[k]
        BY Zenon, <1>1 DEF Typed
    <2>7. ks \in SUBSET Interfaces /\ \A k \in Interfaces : k \in ks <=> target[k] = t
        BY Zenon
    <2> HIDE DEF sv, srv, ks
    <2>8. ASSUME NEW x \in Servers, NEW y
          PROVE  IsServing(sv, x, y) <=> IsServing(server, x, y) \/ (x = s /\ y = t)
        <3>1. ~IsServing(server, s, y) BY Zenon, <1>2 DEF IsServing
        <3>2. CASE x = s BY Zenon, <2>1, <2>2, <2>4, <3>1, <3>2 DEF IsServing
        <3>3. CASE x # s BY Zenon, <2>4, <3>3 DEF IsServing
        <3> QED BY Zenon, <3>2, <3>3
    <2>9. OneServer(sv) BY <1>1, <2>5, <2>8 DEF OneServer
    <2>10. Pointers(sv, target, srv)
        <3> SUFFICES ASSUME NEW k \in Interfaces, NEW x \in Servers
                     PROVE  srv[k] = x <=> target[k] # NoService /\ IsServing(sv, x, target[k])
            BY Zenon DEF Pointers
        <3>1. CASE target[k] = t
            <4>1. srv[k] = s BY Zenon, <2>6, <3>1
            <4>2. IsServing(sv, x, target[k]) <=> x = s BY Zenon, <2>5, <2>8, <3>1
            <4> QED BY Zenon, <1>3, <3>1, <4>1, <4>2, DirectoryConstants
        <3>2. CASE target[k] # t
            <4>1. srv[k] = serving[k] BY Zenon, <2>6, <3>2
            <4>2. IsServing(sv, x, target[k]) <=> IsServing(server, x, target[k]) BY Zenon, <2>8, <3>2
            <4> QED BY Zenon, <1>1, <4>1, <4>2 DEF Pointers
        <3> QED BY Zenon, <3>1, <3>2
    <2>11. Typed(client, sv, target, srv, waiting, unbound) BY Zenon, <1>1, <2>3, <2>6 DEF Typed
    <2>12. \A k \in Interfaces \ ks : waiting[k] # <<>> => srv[k] = NoServer
        BY Zenon, <1>1, <2>6, <2>7 DEF Waits
    <2>13. \A k \in Interfaces : /\ waiting[k] # <<>> => target[k] # NoService
                                 /\ unbound[k] # <<>> => target[k] = NoService
        BY Zenon, <1>1 DEF Waits
    <2>14. PICK n \in [ks -> 0 .. Cardinality(Clients)] :
             /\ MayDispatch(ks, n, waiting, srv, client, sv)
             /\ client' = ClientsLeft(ks, n, waiting, client)
             /\ server' = ServersLeft(Failed(ks, n, waiting, srv, client, sv), sv)
             /\ serving' = Disassociate(Failed(ks, n, waiting, srv, client, sv), srv)
             /\ waiting' = WaitingLeft(ks, n, waiting)
        BY Zenon, <1>5 DEF Dispatch, ClientsLeft, ServersLeft, WaitingLeft
    <2>15. n \in [ks -> Nat] OBVIOUS
    <2>16. Consistent(ClientsLeft(ks, n, waiting, client),
                      ServersLeft(Failed(ks, n, waiting, srv, client, sv), sv), target,
                      Disassociate(Failed(ks, n, waiting, srv, client, sv), srv),
                      WaitingLeft(ks, n, waiting), unbound)
        BY Zenon, <1>1, <2>7, <2>9, <2>10, <2>11, <2>12, <2>13, <2>14, <2>15, DispatchConsistent
    <2> QED BY Zenon, <1>5, <2>14, <2>16 DEF DirectoryInv
<1> QED BY Zenon, <1>4, <1>5
        DEF ProcessAdvertisementFromServer, ResolveBindingsToServer, IsDuplicateService

-----------------------------------------------------------------------------
(* Theorems.                                                                  *)

\* The invariant holds with the hard-coded bindings alone.
LEMMA DirectoryInitInv == DirectoryInit => DirectoryInv
<1> SUFFICES ASSUME DirectoryInit PROVE DirectoryInv
    BY Zenon
<1> USE DEF DirectoryInit
<1>1. <<>> \in Seq(Clients) /\ Once(<<>>) /\ Elements(<<>>) = {}
    BY DEF Once, Elements
<1>2. Typed(client, server, target, serving, waiting, unbound) BY Zenon, <1>1 DEF Typed
<1>3. Lists(client, waiting, unbound) BY Zenon, <1>1 DEF Lists, In
<1>4. Waits(target, serving, waiting, unbound) BY Zenon DEF Waits
<1>5. OneServer(server) BY Zenon DEF OneServer, IsServing
<1>6. Pointers(server, target, serving) BY Zenon, DirectoryConstants DEF Pointers, IsServing
<1> QED BY Zenon, <1>2, <1>3, <1>4, <1>5, <1>6 DEF DirectoryInv, Consistent

\* Every handler of the directory preserves the invariant.
LEMMA DirectoryStepInv == DirectoryInv /\ [DirectoryNext]_dirVars => DirectoryInv'
<1> SUFFICES ASSUME DirectoryInv, [DirectoryNext]_dirVars PROVE DirectoryInv'
    BY Zenon
<1>1. ASSUME NEW c \in Clients, NEW u \in Users, ClientConnectHandler(c, u)
      PROVE  DirectoryInv'
    <2> DEFINE x == [state |-> "unknown", user |-> u]
    <2>1. x \in Client /\ x.state = "unknown" BY Zenon DEF Client
    <2>2. /\ client[c] = NoConn /\ client' = [client EXCEPT ![c] = x]
          /\ UNCHANGED <<server, target, serving, waiting, unbound>>
        BY Zenon, <1>1 DEF ClientConnectHandler
    <2> HIDE DEF x
    <2> QED BY Zenon, <2>1, <2>2, UnlistedStep
<1>2. ASSUME NEW c \in Clients, NEW name \in Names, NEW p \in Protocols, NEW wait \in BOOLEAN,
             ProcessOpenRequestFromClient(c, name, p, wait)
      PROVE  DirectoryInv'
    BY Zenon, <1>2, OpenStep
<1>3. ASSUME NEW c \in Clients, ClientHangUpHandler(c) PROVE DirectoryInv'
    BY Zenon, <1>3, CloseClientStep DEF ClientHangUpHandler
<1>4. ASSUME NEW s \in Servers, NEW u \in Users, ServerConnectHandler(s, u) PROVE DirectoryInv'
    BY Zenon, <1>4, ServerConnectStep
<1>5. ASSUME NEW s \in Servers, NEW name \in Names, NEW p \in Protocols,
             ProcessAdvertisementFromServer(s, name, p)
      PROVE  DirectoryInv'
    BY Zenon, <1>5, AdvertiseStep
<1>6. ASSUME NEW s \in Servers, ServerHangUpHandler(s) PROVE DirectoryInv'
    BY Zenon, <1>6, CloseServerStep DEF ServerHangUpHandler
<1>7. ASSUME NEW k \in Interfaces, NEW t \in Interfaces, SdirToolBind(k, t) PROVE DirectoryInv'
    BY Zenon, <1>7, CreateBindingStep DEF SdirToolBind
<1>8. ASSUME SdirToolUnbindAll PROVE DirectoryInv'
    BY Zenon, <1>8, UnbindAllStep
<1>9. CASE UNCHANGED dirVars
    BY Zenon, <1>9 DEF dirVars, DirectoryInv
<1> QED BY Zenon, <1>1, <1>2, <1>3, <1>4, <1>5, <1>6, <1>7, <1>8, <1>9 DEF DirectoryNext

\* The inductive invariant: lists, states, bindings and pointers agree.
THEOREM DirectoryInvariant == DirectorySpec => []DirectoryInv
<1>1. DirectoryInit => DirectoryInv BY Zenon, DirectoryInitInv
<1>2. DirectoryInv /\ [DirectoryNext]_dirVars => DirectoryInv' BY Zenon, DirectoryStepInv
<1> QED BY <1>1, <1>2, PTL DEF DirectorySpec

\* Type correctness.
THEOREM DirectoryTypeCorrect == DirectorySpec => []DirectoryType
<1>1. DirectoryInv => DirectoryType BY Zenon DEF DirectoryInv, Consistent, Typed, DirectoryType
<1> QED BY <1>1, DirectoryInvariant, PTL

\* The pointer of a binding (serverConnectionPtr) is what FindService finds.
THEOREM PointersResolved == DirectorySpec => []BindingsResolved
<1>1. DirectoryInv => BindingsResolved
    <2> SUFFICES ASSUME DirectoryInv, NEW k \in Interfaces
                 PROVE  serving[k] = IF target[k] = NoService THEN NoServer
                                                             ELSE FindService(target[k])
        BY Zenon DEF BindingsResolved
    <2>1. /\ target[k] \in Interfaces \cup {NoService}
          /\ serving[k] \in Servers \cup {NoServer}
          /\ OneServer(server)
          /\ \A s \in Servers :
               serving[k] = s <=> target[k] # NoService /\ IsServing(server, s, target[k])
        BY Zenon DEF DirectoryInv, Consistent, Typed, Pointers
    <2>2. CASE target[k] = NoService BY Zenon, <2>1, <2>2
    <2>3. CASE target[k] # NoService
        <3>1. /\ FindService(target[k]) \in Servers \cup {NoServer}
              /\ \A s \in Servers :
                   FindService(target[k]) = s <=> IsServing(server, s, target[k])
            BY Zenon, <2>1, <2>3, Found
        <3>2. \A s \in Servers : serving[k] = s <=> FindService(target[k]) = s
            BY Zenon, <2>1, <2>3, <3>1
        <3> QED BY Zenon, <2>1, <2>3, <3>1, <3>2, DirectoryConstants
    <2> QED BY Zenon, <2>2, <2>3
<1> QED BY <1>1, DirectoryInvariant, PTL

\* No client waits for what is there, and each is on the list of its state.
THEOREM ClientsWaitForReason == DirectorySpec => []NobodyWaitsInVain
<1>1. DirectoryInv => NobodyWaitsInVain
    BY Zenon DEF DirectoryInv, Consistent, Waits, Lists, In, NobodyWaitsInVain
<1> QED BY <1>1, DirectoryInvariant, PTL

-----------------------------------------------------------------------------
(* The order of the clients of an interface.                                  *)

\* The queue q may become p: clients are done with from its front, one joins at
\* its end, or one leaves whose connection ends.
MayBecome(q, p) ==
    \/ \E n \in 0 .. Len(q) : p = SubSeq(q, n + 1, Len(q))
    \/ \E c \in Clients : \/ p = Append(q, c)
                          \/ c \in Elements(q) /\ client'[c] = NoConn /\ p = Without(q, c)

\* The queue of an interface is one of its two lists, for the other is empty.
LEMMA QueueIsList ==
    ASSUME DirectoryInv, NEW k \in Interfaces
    PROVE  /\ waiting[k] \in Seq(Clients) /\ unbound[k] \in Seq(Clients)
           /\ Queue(k) \in Seq(Clients)
           /\ target[k] = NoService => waiting[k] = <<>> /\ Queue(k) = unbound[k]
           /\ target[k] # NoService => unbound[k] = <<>> /\ Queue(k) = waiting[k]
           /\ serving[k] # NoServer => waiting[k] = <<>>
<1>1. waiting[k] \in Seq(Clients) /\ unbound[k] \in Seq(Clients)
    BY Zenon DEF DirectoryInv, Consistent, Typed
<1>2. /\ target[k] = NoService => waiting[k] = <<>>
      /\ target[k] # NoService => unbound[k] = <<>>
      /\ serving[k] # NoServer => waiting[k] = <<>>
    BY Zenon DEF DirectoryInv, Consistent, Waits
<1>3. waiting[k] = <<>> => Queue(k) = unbound[k]
    BY Zenon, <1>1, ConcatEmptySeq DEF Queue
<1>4. unbound[k] = <<>> => Queue(k) = waiting[k]
    BY Zenon, <1>1, ConcatEmptySeq DEF Queue
<1> QED BY Zenon, <1>1, <1>2, <1>3, <1>4

\* A queue may stay as it is.
LEMMA MayStay ==
    ASSUME NEW q \in Seq(Clients)
    PROVE  MayBecome(q, q)
<1>1. Len(q) \in Nat BY Zenon, LenProperties
<1>2. q = SubSeq(q, 0 + 1, Len(q)) BY SubSeqFull
<1>3. 0 \in 0 .. Len(q) BY <1>1
<1> QED BY Zenon, <1>2, <1>3 DEF MayBecome

\* DispatchToServer takes clients from the front of the lists it is called for.
LEMMA DispatchedFromFront ==
    ASSUME NEW ks \in SUBSET Interfaces, NEW q \in [Interfaces -> Seq(Clients)],
           NEW srv, NEW cl, NEW sv, Dispatch(ks, q, srv, cl, sv), NEW k \in Interfaces
    PROVE  /\ k \in ks => \E n \in 0 .. Len(q[k]) :
                              waiting'[k] = SubSeq(q[k], n + 1, Len(q[k]))
           /\ k \notin ks => waiting'[k] = q[k]
<1>1. PICK n \in [ks -> 0 .. Cardinality(Clients)] :
         /\ MayDispatch(ks, n, q, srv, cl, sv)
         /\ waiting' = [j \in Interfaces |->
                          IF j \in ks THEN SubSeq(q[j], n[j] + 1, Len(q[j])) ELSE q[j]]
    BY Zenon DEF Dispatch
<1>2. ASSUME k \in ks
      PROVE  \E m \in 0 .. Len(q[k]) : waiting'[k] = SubSeq(q[k], m + 1, Len(q[k]))
    <2>1. n[k] \in 0 .. Cardinality(Clients) BY Zenon, <1>2
    <2>2. n[k] <= Len(q[k]) BY Zenon, <1>1, <1>2 DEF MayDispatch
    <2>3. Len(q[k]) \in Nat BY Zenon, LenProperties
    <2>4. n[k] \in 0 .. Len(q[k]) BY <2>1, <2>2, <2>3
    <2>5. waiting'[k] = SubSeq(q[k], n[k] + 1, Len(q[k])) BY Zenon, <1>1, <1>2
    <2> QED BY Zenon, <2>4, <2>5
<1>3. k \notin ks => waiting'[k] = q[k] BY Zenon, <1>1
<1> QED BY Zenon, <1>2, <1>3

\* The queue after a handler has dispatched the clients of ks, when the list that
\* it dispatches from is the queue.
LEMMA QueueDispatched ==
    ASSUME NEW ks \in SUBSET Interfaces, NEW q \in [Interfaces -> Seq(Clients)],
           NEW srv, NEW cl, NEW sv, Dispatch(ks, q, srv, cl, sv), NEW k \in ks,
           q[k] = Queue(k), unbound'[k] = <<>>
    PROVE  MayBecome(Queue(k), Queue(k)')
<1>1. PICK n \in 0 .. Len(q[k]) : waiting'[k] = SubSeq(q[k], n + 1, Len(q[k]))
    BY Zenon, DispatchedFromFront
<1>2. Len(q[k]) \in Nat /\ q[k] \in Seq(Clients) BY Zenon, LenProperties
<1>3. SubSeq(q[k], n + 1, Len(q[k])) \in Seq(Clients)
    <2>1. \A i \in n + 1 .. Len(q[k]) : q[k][i] \in Clients BY <1>2, ElementOfSeq
    <2> QED BY <1>2, <2>1, SubSeqProperties
<1>4. Queue(k)' = SubSeq(q[k], n + 1, Len(q[k]))
    BY Zenon, <1>1, <1>3, ConcatEmptySeq DEF Queue
<1> QED BY Zenon, <1>4 DEF MayBecome

\* A handler that leaves the lists of an interface alone keeps its queue.
LEMMA QueueStays ==
    ASSUME DirectoryInv, NEW k \in Interfaces,
           waiting'[k] = waiting[k], unbound'[k] = unbound[k]
    PROVE  MayBecome(Queue(k), Queue(k)')
<1>1. Queue(k)' = Queue(k) BY Zenon DEF Queue
<1>2. Queue(k) \in Seq(Clients) BY Zenon, QueueIsList
<1> QED BY Zenon, <1>1, <1>2, MayStay

\* A new binding keeps the order of the clients that follow it.
LEMMA CreateBindingOrder ==
    ASSUME DirectoryInv, NEW k \in Interfaces, NEW t \in Interfaces, CreateBinding(k, t),
           NEW j \in Interfaces
    PROVE  MayBecome(Queue(j), Queue(j)')
<1> DEFINE q == [waiting EXCEPT ![k] = BindingDestructor(k)]
           srv == [serving EXCEPT ![k] = FindService(t)]
           cl == Moved({k}, q, "waiting")
           ks == {k}
<1>1. waiting \in [Interfaces -> Seq(Clients)] /\ unbound \in [Interfaces -> Seq(Clients)]
    BY Zenon DEF DirectoryInv, Consistent, Typed
<1>2. Queue(k) \in Seq(Clients) BY Zenon, QueueIsList
<1>3. BindingDestructor(k) = Queue(k) BY Zenon DEF BindingDestructor, Queue
<1>4. /\ q \in [Interfaces -> Seq(Clients)] /\ q[k] = Queue(k)
      /\ \A i \in Interfaces \ {k} : q[i] = waiting[i]
    BY Zenon, <1>1, <1>2, <1>3
<1>5. CASE UNCHANGED dirVars
    BY Zenon, <1>5, QueueStays DEF dirVars
<1>6. CASE unbound' = [unbound EXCEPT ![k] = <<>>] /\ Dispatch(ks, q, srv, cl, server)
    <2> HIDE DEF q, srv, cl
    <2>1. ks \in SUBSET Interfaces BY Zenon
    <2>2. CASE j = k
        <3>1. unbound'[k] = <<>> BY Zenon, <1>1, <1>6
        <3>2. k \in ks BY Zenon
        <3> HIDE DEF ks
        <3>3. Dispatch(ks, q, srv, cl, server) BY Zenon, <1>6
        <3> QED BY Zenon, <1>4, <2>1, <2>2, <3>1, <3>2, <3>3, QueueDispatched
    <2>3. CASE j # k
        <3>1. unbound'[j] = unbound[j] BY Zenon, <1>1, <1>6, <2>3
        <3>2. j \notin ks BY Zenon, <2>3
        <3> HIDE DEF ks
        <3>3. waiting'[j] = q[j] BY Zenon, <1>4, <1>6, <2>1, <3>2, DispatchedFromFront
        <3> QED BY Zenon, <1>4, <2>3, <3>1, <3>3, QueueStays
    <2> QED BY Zenon, <2>2, <2>3
<1> QED BY Zenon, <1>5, <1>6 DEF CreateBinding

\* Deleting all bindings keeps the order of their clients, as does making the
\* built-in ones again.
LEMMA UnbindAllOrder ==
    ASSUME DirectoryInv, SdirToolUnbindAll, NEW j \in Interfaces
    PROVE  MayBecome(Queue(j), Queue(j)')
<1> DEFINE all == [k \in Interfaces |-> BindingDestructor(k)]
           rest == Interfaces \ HardCoded
           asUnbound == Moved(rest, all, "unbound")
           asWaiting == Moved(HardCoded, all, "waiting")
           bound == UNION {Elements(all[k]) : k \in HardCoded}
           q == [k \in Interfaces |-> IF k \in HardCoded THEN all[k] ELSE <<>>]
           srv == [k \in Interfaces |-> IF k \in HardCoded THEN FindService(k) ELSE NoServer]
           cl == [c \in Clients |-> IF c \in bound THEN asWaiting[c] ELSE asUnbound[c]]
<1>1. /\ unbound' = [k \in Interfaces |-> IF k \in HardCoded THEN <<>> ELSE all[k]]
      /\ Dispatch(HardCoded, q, srv, cl, server)
    BY Zenon DEF SdirToolUnbindAll
<1>2. \A k \in Interfaces : all[k] = Queue(k) /\ Queue(k) \in Seq(Clients)
    BY Zenon, QueueIsList DEF BindingDestructor, Queue
<1> HIDE DEF all
<1>3. /\ q \in [Interfaces -> Seq(Clients)]
      /\ \A k \in Interfaces : q[k] = IF k \in HardCoded THEN Queue(k) ELSE <<>>
    BY <1>2
<1>4. unbound'[j] = IF j \in HardCoded THEN <<>> ELSE Queue(j) BY Zenon, <1>1, <1>2
<1>5. HardCoded \in SUBSET Interfaces BY Zenon, DirectoryConstants
<1> HIDE DEF q, srv, cl
<1>6. CASE j \in HardCoded
    <2>1. q[j] = Queue(j) /\ unbound'[j] = <<>> BY Zenon, <1>3, <1>4, <1>6
    <2> QED BY Zenon, <1>1, <1>3, <1>5, <1>6, <2>1, QueueDispatched
<1>7. CASE j \notin HardCoded
    <2>1. waiting'[j] = q[j] BY Zenon, <1>1, <1>3, <1>5, <1>7, DispatchedFromFront
    <2>2. waiting'[j] = <<>> /\ unbound'[j] = Queue(j) BY Zenon, <1>3, <1>4, <1>7, <2>1
    <2>3. Queue(j)' = Queue(j) \o <<>> BY Zenon, <2>2 DEF Queue
    <2>4. Queue(j)' = Queue(j) BY Zenon, <1>2, <2>3, ConcatEmptySeq
    <2> QED BY Zenon, <1>2, <2>4, MayStay
<1> QED BY Zenon, <1>6, <1>7

\* A client that asks for its session joins the end of its queue, or is done with.
LEMMA OpenOrder ==
    ASSUME DirectoryInv, NEW c \in Clients, NEW name \in Names, NEW p \in Protocols,
           NEW wait \in BOOLEAN, ProcessOpenRequestFromClient(c, name, p, wait),
           NEW j \in Interfaces
    PROVE  MayBecome(Queue(j), Queue(j)')
<1> DEFINE k == <<client[c].user, name>>
           as(st) == [client EXCEPT ![c] = [state |-> st, of |-> k, protocol |-> p, wait |-> wait]]
           wt == [waiting EXCEPT ![k] = Append(@, c)]
           ub == [unbound EXCEPT ![k] = Append(@, c)]
           cl == as("waiting")
           ks == {k}
<1>1. waiting \in [Interfaces -> Seq(Clients)] /\ unbound \in [Interfaces -> Seq(Clients)]
    BY Zenon DEF DirectoryInv, Consistent, Typed
<1>2. k \in Interfaces
    <2>1. client[c] \in Client /\ client[c].state = "unknown"
        BY Zenon DEF ProcessOpenRequestFromClient, DirectoryInv, Consistent, Typed
    <2>2. client[c].user \in Users BY Zenon, <2>1 DEF Client
    <2> QED BY Zenon, <2>2 DEF Interfaces
<1>3. \/ /\ target[k] # NoService /\ serving[k] # NoServer
         /\ Dispatch(ks, wt, serving, cl, server) /\ unbound' = unbound
      \/ target[k] # NoService /\ waiting' = wt /\ unbound' = unbound
      \/ target[k] = NoService /\ unbound' = ub /\ waiting' = waiting
      \/ waiting' = waiting /\ unbound' = unbound
    BY Zenon DEF ProcessOpenRequestFromClient, FollowBinding, Reject
<1> HIDE DEF k, cl
<1>4. \A q \in Seq(Clients) : Append(q, c) \in Seq(Clients) BY Zenon, AppendProperties
<1>5. /\ wt \in [Interfaces -> Seq(Clients)] /\ wt[k] = Append(waiting[k], c)
      /\ ub \in [Interfaces -> Seq(Clients)] /\ ub[k] = Append(unbound[k], c)
      /\ \A i \in Interfaces \ {k} : wt[i] = waiting[i] /\ ub[i] = unbound[i]
    BY Zenon, <1>1, <1>2, <1>4
<1>6. ks \in SUBSET Interfaces BY Zenon, <1>2
<1> HIDE DEF wt, ub
<1>7. CASE j # k
    <2>1. j \notin ks BY Zenon, <1>7
    <2>2. unbound'[j] = unbound[j] BY Zenon, <1>3, <1>5, <1>7
    <2> HIDE DEF ks
    <2>3. Dispatch(ks, wt, serving, cl, server) => waiting'[j] = wt[j]
        BY Zenon, <1>5, <1>6, <2>1, DispatchedFromFront
    <2>4. waiting'[j] = waiting[j] BY Zenon, <1>3, <1>5, <1>7, <2>3
    <2> QED BY Zenon, <2>2, <2>4, QueueStays
<1>8. CASE j = k
    <2> HIDE DEF ks
    <2>1. /\ waiting[j] \in Seq(Clients) /\ unbound[j] \in Seq(Clients)
          /\ target[j] = NoService => waiting[j] = <<>> /\ Queue(j) = unbound[j]
          /\ target[j] # NoService => unbound[j] = <<>> /\ Queue(j) = waiting[j]
          /\ serving[j] # NoServer => waiting[j] = <<>>
        BY Zenon, QueueIsList
    <2>2. wt[j] = Append(waiting[j], c) /\ ub[j] = Append(unbound[j], c) BY Zenon, <1>5, <1>8
    <2>3. ASSUME target[j] # NoService, serving[j] # NoServer,
                 Dispatch(ks, wt, serving, cl, server), unbound' = unbound
          PROVE  MayBecome(Queue(j), Queue(j)')
        <3>1. Queue(j) = <<>> /\ unbound'[j] = <<>> /\ waiting[j] = <<>> BY Zenon, <2>1, <2>3
        <3>2. wt[j] = <<c>> BY <2>2, <3>1
        <3>3. j \in ks BY Zenon, <1>8 DEF ks
        <3>4. PICK n \in 0 .. Len(wt[j]) : waiting'[j] = SubSeq(wt[j], n + 1, Len(wt[j]))
            BY Zenon, <1>5, <1>6, <2>3, <3>3, DispatchedFromFront
        <3>5. n = 0 \/ n = 1 BY <3>2, <3>4
        <3>6. <<c>> \in Seq(Clients) /\ Len(<<c>>) = 1 OBVIOUS
        <3>7. CASE n = 0
            <4>1. waiting'[j] = SubSeq(<<c>>, 1, Len(<<c>>)) BY <3>2, <3>4, <3>7
            <4>2. waiting'[j] = <<c>> BY Zenon, <3>6, <4>1, SubSeqFull
            <4>3. Queue(j)' = <<c>> BY Zenon, <3>1, <3>6, <4>2, ConcatEmptySeq DEF Queue
            <4>4. Queue(j)' = Append(Queue(j), c) BY <3>1, <4>3
            <4> QED BY Zenon, <4>4 DEF MayBecome
        <3>8. CASE n = 1
            <4>1. waiting'[j] = SubSeq(<<c>>, 2, 1) BY <3>2, <3>4, <3>8
            <4>2. waiting'[j] = <<>> BY <4>1
            <4>3. waiting'[j] = waiting[j] /\ unbound'[j] = unbound[j] BY Zenon, <2>3, <3>1, <4>2
            <4> QED BY Zenon, <4>3, QueueStays
        <3> QED BY Zenon, <3>5, <3>7, <3>8
    <2>4. ASSUME target[j] # NoService, waiting' = wt, unbound' = unbound
          PROVE  MayBecome(Queue(j), Queue(j)')
        <3>1. unbound'[j] = <<>> /\ waiting'[j] = Append(Queue(j), c) BY Zenon, <2>1, <2>2, <2>4
        <3>2. Append(Queue(j), c) \in Seq(Clients) BY Zenon, <1>4, <2>1, <2>4
        <3>3. Queue(j)' = Append(Queue(j), c) BY Zenon, <3>1, <3>2, ConcatEmptySeq DEF Queue
        <3> QED BY Zenon, <3>3 DEF MayBecome
    <2>5. ASSUME target[j] = NoService, unbound' = ub, waiting' = waiting
          PROVE  MayBecome(Queue(j), Queue(j)')
        <3>1. waiting'[j] = <<>> /\ unbound'[j] = Append(Queue(j), c) BY Zenon, <2>1, <2>2, <2>5
        <3>2. Append(Queue(j), c) \in Seq(Clients) BY Zenon, <1>4, <2>1, <2>5
        <3>3. Queue(j)' = Append(Queue(j), c) BY Zenon, <3>1, <3>2, ConcatEmptySeq DEF Queue
        <3> QED BY Zenon, <3>3 DEF MayBecome
    <2>6. ASSUME waiting' = waiting, unbound' = unbound
          PROVE  MayBecome(Queue(j), Queue(j)')
        BY Zenon, <2>6, QueueStays
    <2> QED BY Zenon, <1>3, <1>8, <2>3, <2>4, <2>5, <2>6
<1> QED BY Zenon, <1>7, <1>8

\* A client whose connection ends leaves its queue, and no other one does.
LEMMA CloseClientOrder ==
    ASSUME DirectoryInv, NEW c \in Clients, CloseClientConnection(c), NEW j \in Interfaces
    PROVE  MayBecome(Queue(j), Queue(j)')
<1> DEFINE k == client[c].of
<1>1. /\ waiting \in [Interfaces -> Seq(Clients)] /\ unbound \in [Interfaces -> Seq(Clients)]
      /\ client \in [Clients -> Client \cup {NoConn}]
      /\ Lists(client, waiting, unbound)
    BY Zenon DEF DirectoryInv, Consistent, Typed
<1>2. client[c] # NoConn /\ client'[c] = NoConn
    BY Zenon, <1>1 DEF CloseClientConnection
<1>3. client[c] \in Client BY Zenon, <1>1, <1>2
<1>4. CASE client[c].state = "waiting"
    <2>1. waiting' = [waiting EXCEPT ![k] = Without(@, c)] /\ unbound' = unbound
        BY Zenon, <1>4 DEF CloseClientConnection
    <2>2. k \in Interfaces BY Zenon, <1>3, <1>4 DEF Client
    <2>3. c \in Elements(waiting[k]) BY Zenon, <1>1, <1>2, <1>4, <2>2 DEF Lists, In
    <2> HIDE DEF k
    <2>4. CASE j # k
        BY Zenon, <1>1, <2>1, <2>4, QueueStays
    <2>5. CASE j = k
        <3>1. c \in Elements(waiting[j]) /\ waiting[j] # <<>> BY <2>3, <2>5 DEF Elements
        <3>2. unbound[j] = <<>> /\ Queue(j) = waiting[j] BY Zenon, <3>1, QueueIsList
        <3>3. waiting'[j] = Without(Queue(j), c) /\ unbound'[j] = <<>>
            BY Zenon, <1>1, <2>1, <2>2, <2>5, <3>2
        <3>4. Without(Queue(j), c) \in Seq(Clients)
            BY Zenon, <1>1, <3>1, <3>2, ListWithout DEF Lists
        <3>5. Queue(j)' = Without(Queue(j), c) BY Zenon, <3>3, <3>4, ConcatEmptySeq DEF Queue
        <3> QED BY Zenon, <1>2, <3>1, <3>2, <3>5 DEF MayBecome
    <2> QED BY Zenon, <2>4, <2>5
<1>5. CASE client[c].state = "unbound"
    <2>1. unbound' = [unbound EXCEPT ![k] = Without(@, c)] /\ waiting' = waiting
        BY Zenon, <1>5 DEF CloseClientConnection
    <2>2. k \in Interfaces BY Zenon, <1>3, <1>5 DEF Client
    <2>3. c \in Elements(unbound[k]) BY Zenon, <1>1, <1>2, <1>5, <2>2 DEF Lists, In
    <2> HIDE DEF k
    <2>4. CASE j # k
        BY Zenon, <1>1, <2>1, <2>4, QueueStays
    <2>5. CASE j = k
        <3>1. c \in Elements(unbound[j]) /\ unbound[j] # <<>> BY <2>3, <2>5 DEF Elements
        <3>2. waiting[j] = <<>> /\ Queue(j) = unbound[j] BY Zenon, <3>1, QueueIsList
        <3>3. unbound'[j] = Without(Queue(j), c) /\ waiting'[j] = <<>>
            BY Zenon, <1>1, <2>1, <2>2, <2>5, <3>2
        <3>4. Without(Queue(j), c) \in Seq(Clients)
            BY Zenon, <1>1, <3>1, <3>2, ListWithout DEF Lists
        <3>5. Queue(j)' = Without(Queue(j), c) BY Zenon, <3>3, <3>4, ConcatEmptySeq DEF Queue
        <3> QED BY Zenon, <1>2, <3>1, <3>2, <3>5 DEF MayBecome
    <2> QED BY Zenon, <2>4, <2>5
<1>6. CASE client[c].state \notin {"waiting", "unbound"}
    BY Zenon, <1>6, QueueStays DEF CloseClientConnection
<1> QED BY Zenon, <1>4, <1>5, <1>6

\* A server that advertises its service takes clients from the front of the queues
\* of its bindings.
LEMMA AdvertiseOrder ==
    ASSUME DirectoryInv, NEW s \in Servers, NEW name \in Names, NEW p \in Protocols,
           ProcessAdvertisementFromServer(s, name, p), NEW j \in Interfaces
    PROVE  MayBecome(Queue(j), Queue(j)')
<1> DEFINE t == <<server[s].user, name>>
           r == [state |-> "serving", of |-> t, protocol |-> p]
           sv == [server EXCEPT ![s] = r]
           ks == {k \in Interfaces : target[k] = t}
           srv == [k \in Interfaces |-> IF k \in ks THEN s ELSE serving[k]]
<1>1. t \in Interfaces
    <2>1. server[s] \in Server /\ server[s].state = "connected"
        BY Zenon DEF ProcessAdvertisementFromServer, DirectoryInv, Consistent, Typed
    <2>2. server[s].user \in Users BY Zenon, <2>1 DEF Server
    <2> QED BY Zenon, <2>2 DEF Interfaces
<1>2. CASE CloseServerConnection(s)
    BY Zenon, <1>2, QueueStays DEF CloseServerConnection
<1>3. CASE Dispatch(ks, waiting, srv, client, sv) /\ unbound' = unbound
    <2> HIDE DEF t
    <2>1. waiting \in [Interfaces -> Seq(Clients)]
        BY Zenon DEF DirectoryInv, Consistent, Typed
    <2>2. ks \in SUBSET Interfaces /\ (j \in ks <=> target[j] = t) BY Zenon
    <2> HIDE DEF ks, srv, sv
    <2>3. CASE j \in ks
        <3>1. target[j] # NoService BY Zenon, <1>1, <2>2, <2>3, DirectoryConstants
        <3>2. unbound[j] = <<>> /\ Queue(j) = waiting[j] BY Zenon, <3>1, QueueIsList
        <3>3. unbound'[j] = <<>> BY Zenon, <1>3, <3>2
        <3> QED BY Zenon, <1>3, <2>1, <2>2, <2>3, <3>2, <3>3, QueueDispatched
    <2>4. CASE j \notin ks
        <3>1. waiting'[j] = waiting[j] BY Zenon, <1>3, <2>1, <2>2, <2>4, DispatchedFromFront
        <3> QED BY Zenon, <1>3, <3>1, QueueStays
    <2> QED BY Zenon, <2>3, <2>4
<1> QED BY Zenon, <1>2, <1>3 DEF ProcessAdvertisementFromServer, ResolveBindingsToServer

\* Whatever happens, the queue of an interface keeps its order.
LEMMA OrderStep ==
    ASSUME DirectoryInv, [DirectoryNext]_dirVars, NEW j \in Interfaces
    PROVE  MayBecome(Queue(j), Queue(j)')
<1>1. ASSUME NEW c \in Clients, NEW u \in Users, ClientConnectHandler(c, u)
      PROVE  MayBecome(Queue(j), Queue(j)')
    BY Zenon, <1>1, QueueStays DEF ClientConnectHandler
<1>2. ASSUME NEW c \in Clients, NEW name \in Names, NEW p \in Protocols, NEW wait \in BOOLEAN,
             ProcessOpenRequestFromClient(c, name, p, wait)
      PROVE  MayBecome(Queue(j), Queue(j)')
    BY Zenon, <1>2, OpenOrder
<1>3. ASSUME NEW c \in Clients, ClientHangUpHandler(c)
      PROVE  MayBecome(Queue(j), Queue(j)')
    BY Zenon, <1>3, CloseClientOrder DEF ClientHangUpHandler
<1>4. ASSUME NEW s \in Servers, NEW u \in Users, ServerConnectHandler(s, u)
      PROVE  MayBecome(Queue(j), Queue(j)')
    BY Zenon, <1>4, QueueStays DEF ServerConnectHandler
<1>5. ASSUME NEW s \in Servers, NEW name \in Names, NEW p \in Protocols,
             ProcessAdvertisementFromServer(s, name, p)
      PROVE  MayBecome(Queue(j), Queue(j)')
    BY Zenon, <1>5, AdvertiseOrder
<1>6. ASSUME NEW s \in Servers, ServerHangUpHandler(s)
      PROVE  MayBecome(Queue(j), Queue(j)')
    BY Zenon, <1>6, QueueStays DEF ServerHangUpHandler, CloseServerConnection
<1>7. ASSUME NEW k \in Interfaces, NEW t \in Interfaces, SdirToolBind(k, t)
      PROVE  MayBecome(Queue(j), Queue(j)')
    BY Zenon, <1>7, CreateBindingOrder DEF SdirToolBind
<1>8. CASE SdirToolUnbindAll
    BY Zenon, <1>8, UnbindAllOrder
<1>9. CASE UNCHANGED dirVars
    BY Zenon, <1>9, QueueStays DEF dirVars
<1> QED BY Zenon, <1>1, <1>2, <1>3, <1>4, <1>5, <1>6, <1>7, <1>8, <1>9 DEF DirectoryNext

\* The clients of an interface are served in the order they came in, whatever
\* bindings are made and deleted and whichever servers come, fail and go.
THEOREM ClientsServedInOrder == DirectorySpec => ServedInOrder
<1> DEFINE Kept == \A k \in Interfaces : MayBecome(Queue(k), Queue(k)')
<1>1. DirectoryInv /\ [DirectoryNext]_dirVars => [Kept]_dirVars
    BY Zenon, OrderStep
<1>2. Kept <=> \A k \in Interfaces :
         \/ \E n \in 0 .. Len(Queue(k)) : Queue(k)' = SubSeq(Queue(k), n + 1, Len(Queue(k)))
         \/ \E c \in Clients :
               \/ Queue(k)' = Append(Queue(k), c)
               \/ /\ c \in Elements(Queue(k)) /\ client'[c] = NoConn
                  /\ Queue(k)' = Without(Queue(k), c)
    BY Zenon DEF MayBecome
<1> HIDE DEF Kept
<1> QED BY <1>1, <1>2, DirectoryInvariant, PTL DEF DirectorySpec, ServedInOrder
=============================================================================
