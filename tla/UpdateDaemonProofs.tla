------------------------- MODULE UpdateDaemonProofs -------------------------
(***************************************************************************)
(* Proofs about UpdateCtrl, for any finite set of clients and any bound on *)
(* the number of locks and defers they hold, and about UpdateDaemon: it    *)
(* implements UpdateCtrl and inherits what is proved there, it uses the    *)
(* unpacker as Unpacker prescribes, and only verified updates are          *)
(* installed.                                                              *)
(***************************************************************************)
EXTENDS UpdateDaemon, FiniteSetTheorems, WellFoundedInduction, TLAPS

-----------------------------------------------------------------------------
(* The cached totals.  Adding up the counts f of the clients in s is counting *)
(* the pairs of such a client and a number up to its count, which is what the *)
(* recursion inside MapThenSumSet computes.                                   *)

Held(f, s) == {p \in s \X (1 .. MaxCount) : p[2] <= f[p[1]]}
Total(f) == Cardinality(Held(f, Clients))

\* One client's part of the total.
LEMMA HeldSplit ==
    ASSUME NEW f \in [Clients -> 0 .. MaxCount], NEW s \in SUBSET Clients, NEW x \in s
    PROVE  /\ IsFiniteSet(Held(f, s)) /\ Cardinality(Held(f, s)) \in Nat
           /\ Cardinality(Held(f, s \ {x})) \in Nat
           /\ Cardinality(Held(f, s)) = f[x] + Cardinality(Held(f, s \ {x}))
<1> DEFINE A == Held(f, s \ {x})
           B == {x} \X (1 .. f[x])
<1>1. f[x] \in Nat /\ f[x] <= MaxCount
    BY MaxCountAssumption
<1>2. IsFiniteSet(Held(f, s)) /\ IsFiniteSet(A)
    <2>1. IsFiniteSet(s \X (1 .. MaxCount))
        <3>1. IsFiniteSet(s)
            BY ClientsAssumption, FS_Subset
        <3>2. IsFiniteSet(1 .. MaxCount)
            BY MaxCountAssumption, FS_Interval
        <3> QED BY Zenon, <3>1, <3>2, FS_Product
    <2>2. Held(f, s) \subseteq s \X (1 .. MaxCount) /\ A \subseteq s \X (1 .. MaxCount)
        BY DEF Held
    <2> HIDE DEF A
    <2> QED BY <2>1, <2>2, FS_Subset
<1>3. Held(f, s) = A \union B /\ A \intersect B = {}
    <2>1. ASSUME NEW p \in Held(f, s) PROVE p \in A \union B
        <3>1. PICK c \in s, k \in 1 .. MaxCount : p = <<c, k>> /\ k <= f[c]
            BY DEF Held
        <3>2. CASE c = x
            BY <1>1, <3>1, <3>2
        <3>3. CASE c # x
            BY <3>1, <3>3 DEF Held
        <3> QED BY <3>2, <3>3
    <2>2. A \subseteq Held(f, s)
        BY DEF Held
    <2>3. ASSUME NEW p \in B PROVE p \in Held(f, s) /\ p \notin A
        <3>1. PICK k \in 1 .. f[x] : p = <<x, k>>
            OBVIOUS
        <3>2. k \in 1 .. MaxCount
            BY <1>1, MaxCountAssumption
        <3> QED BY <3>1, <3>2 DEF Held
    <2> QED BY SMTT(30), <2>1, <2>2, <2>3
<1>4. IsFiniteSet(B) /\ Cardinality(B) = f[x]
    <2>1. IsFiniteSet({x}) /\ Cardinality({x}) = 1
        BY Zenon, FS_Singleton
    <2>2. IsFiniteSet(1 .. f[x]) /\ Cardinality(1 .. f[x]) = f[x]
        BY <1>1, FS_Interval
    <2>3. IsFiniteSet(B) /\ Cardinality(B) = Cardinality({x}) * Cardinality(1 .. f[x])
        BY <2>1, <2>2, FS_Product
    <2> QED BY <1>1, <2>1, <2>2, <2>3
<1> HIDE DEF A, B
<1>5. Cardinality(A) \in Nat /\ Cardinality(A \intersect B) = 0
    BY Zenon, <1>2, <1>3, FS_CardinalityType, FS_EmptySet
<1>6. Cardinality(A \union B) = Cardinality(A) + Cardinality(B) - Cardinality(A \intersect B)
    BY <1>2, <1>4, FS_Union
<1> QED BY <1>1, <1>2, <1>3, <1>4, <1>5, <1>6 DEF A

IsSum(g, f) ==
    g = [s \in SUBSET Clients |->
            IF s = {} THEN 0
            ELSE f[CHOOSE x \in s : TRUE] + g[s \ {CHOOSE x \in s : TRUE}]]

\* Counting the pairs is a solution of the recursion inside MapThenSumSet.
LEMMA HeldIsSum ==
    ASSUME NEW f \in [Clients -> 0 .. MaxCount]
    PROVE  IsSum([s \in SUBSET Clients |-> Cardinality(Held(f, s))], f)
<1> DEFINE g == [s \in SUBSET Clients |-> Cardinality(Held(f, s))]
<1>1. ASSUME NEW s \in SUBSET Clients
      PROVE  g[s] = IF s = {} THEN 0
                    ELSE f[CHOOSE x \in s : TRUE] + g[s \ {CHOOSE x \in s : TRUE}]
    <2>1. CASE s = {}
        <3>1. Held(f, s) = {}
            BY <2>1 DEF Held
        <3> QED BY <2>1, <3>1, FS_EmptySet
    <2>2. CASE s # {}
        <3> DEFINE x == CHOOSE y \in s : TRUE
        <3>1. x \in s
            BY <2>2
        <3>2. g[s] = Cardinality(Held(f, s)) /\ g[s \ {x}] = Cardinality(Held(f, s \ {x}))
            OBVIOUS
        <3> HIDE DEF x, g
        <3>3. g[s] = f[x] + g[s \ {x}]
            BY <3>1, <3>2, HeldSplit
        <3> QED BY <2>2, <3>3 DEF x
    <2> QED BY <2>1, <2>2
<1>2. g = [s \in SUBSET Clients |-> g[s]]
    OBVIOUS
<1> HIDE DEF g
<1>3. IsSum(g, f)
    BY Zenon, <1>1, <1>2 DEF IsSum
<1> QED BY <1>3 DEF g

\* So it is what MapThenSumSet computes.
LEMMA SumIsTotal ==
    ASSUME NEW f \in [Clients -> 0 .. MaxCount]
    PROVE  MapThenSumSet(LAMBDA c : f[c], Clients) = Total(f)
<1> DEFINE h == [s \in SUBSET Clients |-> Cardinality(Held(f, s))]
           g == CHOOSE k : k = [s \in SUBSET Clients |->
                    IF s = {} THEN 0
                    ELSE f[CHOOSE x \in s : TRUE] + k[s \ {CHOOSE x \in s : TRUE}]]
<1>1. IsSum(h, f)
    BY Zenon, HeldIsSum
<1>2. IsSum(g, f)
    BY Zenon, <1>1 DEF IsSum
<1>3. MapThenSumSet(LAMBDA c : f[c], Clients) = g[Clients]
    BY DEF MapThenSumSet, MapThenFoldSet
<1>4. h[Clients] = Total(f)
    BY DEF Total
<1> HIDE DEF g, h
<1>5. \A s \in SUBSET Clients : s # {} =>
         \E x \in s : g[s] = f[x] + g[s \ {x}] /\ h[s] = f[x] + h[s \ {x}]
    <2> SUFFICES ASSUME NEW s \in SUBSET Clients, s # {}
                 PROVE  \E x \in s : g[s] = f[x] + g[s \ {x}] /\ h[s] = f[x] + h[s \ {x}]
        OBVIOUS
    <2> DEFINE x == CHOOSE y \in s : TRUE
    <2>1. x \in s
        OBVIOUS
    <2>2. g[s] = f[x] + g[s \ {x}] /\ h[s] = f[x] + h[s \ {x}]
        BY SMTT(30), <1>1, <1>2 DEF IsSum
    <2> HIDE DEF x
    <2> QED BY SMTT(30), <2>1, <2>2
<1>6. g[{}] = 0 /\ h[{}] = 0
    BY <1>1, <1>2 DEF IsSum
<1> DEFINE T == {s \in SUBSET Clients : g[s] # h[s]}
<1>7. T = {}
    <2> SUFFICES ASSUME T # {} PROVE FALSE
        OBVIOUS
    <2>1. T \subseteq FiniteSubsetsOf(Clients)
        BY ClientsAssumption, FS_Subset DEF FiniteSubsetsOf
    <2>2. PICK s \in T : \A u \in T : ~(<<u, s>> \in StrictSubsetOrdering(Clients))
        <3>1. IsWellFoundedOn(StrictSubsetOrdering(Clients), FiniteSubsetsOf(Clients))
            BY FS_StrictSubsetOrderingWellFounded
        <3> HIDE DEF T
        <3> QED BY <2>1, <3>1, WFMin
    <2>3. s # {} /\ s \in SUBSET Clients /\ g[s] # h[s]
        BY <1>6
    <2>4. PICK x \in s : g[s] = f[x] + g[s \ {x}] /\ h[s] = f[x] + h[s \ {x}]
        BY <1>5, <2>3
    <2>5. g[s \ {x}] = h[s \ {x}]
        <3>1. <<s \ {x}, s>> \in StrictSubsetOrdering(Clients)
            BY <2>3, <2>4 DEF StrictSubsetOrdering
        <3> QED BY <2>2, <3>1
    <2> QED BY <2>3, <2>4, <2>5
<1>8. g[Clients] = h[Clients]
    BY <1>7
<1> QED BY <1>3, <1>4, <1>8

\* When the count of one client changes, the total changes by as much.
LEMMA TotalChange ==
    ASSUME NEW f \in [Clients -> 0 .. MaxCount], NEW c \in Clients, NEW n \in 0 .. MaxCount
    PROVE  /\ Total(f) \in Nat /\ f[c] \in Nat /\ f[c] <= Total(f)
           /\ Total([f EXCEPT ![c] = n]) = Total(f) - f[c] + n
<1> DEFINE k == [f EXCEPT ![c] = n]
<1>1. k \in [Clients -> 0 .. MaxCount] /\ k[c] = n /\ \A d \in Clients \ {c} : k[d] = f[d]
    OBVIOUS
<1> HIDE DEF k
<1>2. Held(k, Clients \ {c}) = Held(f, Clients \ {c})
    BY <1>1 DEF Held
<1> DEFINE m == Cardinality(Held(f, Clients \ {c}))
<1>3. Total(f) = f[c] + m /\ m \in Nat
    BY HeldSplit DEF Total
<1>4. Total(k) = n + m
    <2>1. Total(k) = k[c] + Cardinality(Held(k, Clients \ {c}))
        BY <1>1, HeldSplit DEF Total
    <2> QED BY <1>1, <1>2, <2>1
<1>5. f[c] \in Nat /\ n \in Nat
    BY MaxCountAssumption
<1> HIDE DEF m
<1> QED BY <1>3, <1>4, <1>5 DEF k

\* A total is a number.
LEMMA TotalIsNat == ASSUME NEW f PROVE Total(f) \in Nat
<1>1. IsFiniteSet(Clients \X (1 .. MaxCount))
    <2>1. IsFiniteSet(1 .. MaxCount)
        BY MaxCountAssumption, FS_Interval
    <2> QED BY Zenon, <2>1, ClientsAssumption, FS_Product
<1>2. Held(f, Clients) \subseteq Clients \X (1 .. MaxCount)
    BY DEF Held
<1> QED BY <1>1, <1>2, FS_Subset, FS_CardinalityType DEF Total

\* No client, no count.
LEMMA TotalOfNone ==
    /\ [c \in Clients |-> 0] \in [Clients -> 0 .. MaxCount]
    /\ Total([c \in Clients |-> 0]) = 0
<1> DEFINE f == [c \in Clients |-> 0]
<1>1. Held(f, Clients) = {}
    <2> SUFFICES ASSUME NEW p \in Held(f, Clients) PROVE FALSE
        OBVIOUS
    <2>1. p[1] \in Clients /\ p[2] \in 1 .. MaxCount /\ p[2] <= f[p[1]]
        BY DEF Held
    <2> QED BY <2>1, MaxCountAssumption
<1>2. f \in [Clients -> 0 .. MaxCount]
    BY MaxCountAssumption
<1> QED BY <1>1, <1>2, FS_EmptySet DEF Total

-----------------------------------------------------------------------------
(* UpdateCtrl.                                                              *)

\* The inductive invariant.  Each conjunct needs the types; ProbationWillEnd
\* and ExpiryWaitsForALock need each other only through the unlock of the last
\* lock, which takes the pending callback and ends probation in one step.
CtrlInv ==
    /\ CtrlTypeOK
    /\ RollbackTargetKept
    /\ ProbationWillEnd
    /\ ExpiryWaitsForALock

\* The initial states satisfy the invariant.
LEMMA CtrlInitInv == CtrlInit => CtrlInv
<1> USE MaxCountAssumption
<1> QED
    BY DEF CtrlInit, CtrlInv, CtrlTypeOK, StatusValues, RollbackTargetKept,
           ProbationWillEnd, ExpiryWaitsForALock, SYS_PROBATION,
           ExpiryPending

\* Closing a client's session preserves the types of the counts and does not
\* change the number of probation locks of a daemon that survives it.
LEMMA FreeDeadClientFacts ==
    ASSUME NEW c \in Clients, CtrlTypeOK, FreeDeadClientLockObjs(c)
    PROVE  /\ daemon' \in {"running", "dead"}
           /\ locks' \in [Clients -> 0..MaxCount]
           /\ defers' \in [Clients -> 0..MaxCount]
           /\ AggregateProbationLockCount' = AggregateProbationLockCount
           /\ AggregateDeferCount' \in Int
           /\ daemon' # "dead" => daemon' = daemon
BY MaxCountAssumption DEF CtrlTypeOK, FreeDeadClientLockObjs, Fatal, counts

\* A call of a client, or the closing of its session, preserves the invariant.
LEMMA ClientCallInv ==
    ASSUME NEW c \in Clients, CtrlInv, ClientCall(c)
    PROVE  CtrlInv'
<1> USE MaxCountAssumption
        DEF CtrlInv, CtrlTypeOK, RollbackTargetKept, ProbationWillEnd,
            ExpiryWaitsForALock, SYS_PROBATION, StatusValues,
            updateCtrl_IsProbationLocked, Up, ExpiryPending, FailPending
<1>1. CASE le_updateCtrl_Defer(c)
    BY <1>1 DEF le_updateCtrl_Defer, IncrementDefers, disk, callbacks
<1>2. CASE le_updateCtrl_Allow(c)
    <2>1. CASE defers[c] > 0
        BY <1>2, <2>1 DEF le_updateCtrl_Allow, IsClientDeferring, DecrementDefers, disk,
                          callbacks, Fatal
    <2>2. CASE ~(defers[c] > 0) /\ ~updateCtrl_HasDefers /\ FailPending
        BY <1>2, <2>2 DEF le_updateCtrl_Allow, IsClientDeferring, DecrementDefers, disk,
                          callbacks, counts, Fatal
    <2>3. CASE ~(defers[c] > 0) /\ ~(~updateCtrl_HasDefers /\ FailPending)
        <3>1. FreeDeadClientLockObjs(c)
            BY <1>2, <2>3 DEF le_updateCtrl_Allow, IsClientDeferring, DecrementDefers
        <3> QED
            BY <1>2, <3>1, FreeDeadClientFacts
            DEF le_updateCtrl_Allow, IsClientDeferring, DecrementDefers, disk, callbacks
    <2> QED BY <2>1, <2>2, <2>3
<1>3. CASE le_updateCtrl_LockProbation(c)
    <2>1. CASE StatusFatal
        BY <2>1 DEF StatusFatal, Fatal, disk, callbacks, counts
    <2>2. CASE ~StatusFatal
        <3>1. /\ Up /\ SYS_PROBATION
              /\ locks[c] < MaxCount
              /\ locks' = [locks EXCEPT ![c] = @ + 1]
              /\ AggregateProbationLockCount' = AggregateProbationLockCount + 1
              /\ UNCHANGED <<daemon, disk, timer, defers, AggregateDeferCount, callbacks>>
            BY <1>3, <2>2 DEF le_updateCtrl_LockProbation, IncrementProbationLocks
        <3>2. locks' \in [Clients -> 0..MaxCount]
            BY <3>1
        <3>3. AggregateProbationLockCount' \in Int
            BY <3>1
        <3> QED
            BY <3>1, <3>2, <3>3 DEF disk, callbacks
    <2> QED BY <2>1, <2>2
<1>4. CASE le_updateCtrl_UnlockProbation(c)
    <2>1. CASE locks[c] > 0
        <3>1. /\ locks' = [locks EXCEPT ![c] = @ - 1]
              /\ AggregateProbationLockCount' = AggregateProbationLockCount - 1
              /\ UNCHANGED <<daemon, defers, AggregateDeferCount, DeferredFailCallback>>
            BY <1>4, <2>1 DEF le_updateCtrl_UnlockProbation, IsClientProbationLocked,
                              DecrementProbationLocks
        <3>2. locks' \in [Clients -> 0..MaxCount]
            BY <2>1, <3>1
        <3>3. AggregateProbationLockCount' \in Int
            BY <3>1
        <3>4. CASE AggregateProbationLockCount' <= 0 /\ ExpiryPending
            BY <1>4, <2>1, <3>1, <3>2, <3>3, <3>4
            DEF le_updateCtrl_UnlockProbation, IsClientProbationLocked,
                DecrementProbationLocks, updateDaemon_MarkGood
        <3>5. CASE ~(AggregateProbationLockCount' <= 0 /\ ExpiryPending)
            <4>1. UNCHANGED <<disk, timer, ProbationExpiryCallback>>
                BY <1>4, <2>1, <3>5 DEF le_updateCtrl_UnlockProbation,
                                        IsClientProbationLocked, DecrementProbationLocks
            <4> QED
                BY <3>1, <3>2, <3>3, <3>5, <4>1 DEF disk
        <3> QED BY <3>4, <3>5
    <2>2. CASE ~(locks[c] > 0)
        <3>1. FreeDeadClientLockObjs(c)
            BY <1>4, <2>2 DEF le_updateCtrl_UnlockProbation, IsClientProbationLocked,
                              DecrementProbationLocks
        <3> QED
            BY Zenon, <1>4, <2>2, <3>1, FreeDeadClientFacts
            DEF le_updateCtrl_UnlockProbation, IsClientProbationLocked,
                DecrementProbationLocks, updateDaemon_MarkGood, disk
    <2> QED BY <2>1, <2>2
<1>5. CASE le_updateCtrl_GetSystemState(c)
    <2>1. CASE StatusFatal
        BY <2>1 DEF StatusFatal, Fatal, disk, callbacks, counts
    <2>2. CASE ~StatusFatal
        <3>1. FreeDeadClientLockObjs(c) /\ UNCHANGED <<disk, timer, callbacks>>
            BY <1>5, <2>2 DEF le_updateCtrl_GetSystemState, IsClientDeferring,
                              IsClientProbationLocked
        <3> QED
            BY <3>1, FreeDeadClientFacts DEF disk, callbacks
    <2> QED BY <2>1, <2>2
<1>6. CASE SessionClosed(c)
    <2>1. FreeDeadClientLockObjs(c) /\ UNCHANGED <<disk, timer, callbacks>>
        BY <1>6 DEF SessionClosed
    <2> QED
        BY <2>1, FreeDeadClientFacts DEF disk, callbacks
<1> QED
    BY <1>1, <1>2, <1>3, <1>4, <1>5, <1>6 DEF ClientCall

\* Every step preserves the invariant.
LEMMA CtrlNextInv == CtrlInv /\ [CtrlNext]_ctrlVars => CtrlInv'
<1> SUFFICES ASSUME CtrlInv, [CtrlNext]_ctrlVars PROVE CtrlInv'
    OBVIOUS
<1>1. ASSUME NEW c \in Clients, ClientCall(c) PROVE CtrlInv'
    BY <1>1, ClientCallInv
<1> USE MaxCountAssumption
        DEF CtrlInv, CtrlTypeOK, RollbackTargetKept, ProbationWillEnd,
            ExpiryWaitsForALock, SYS_PROBATION, StatusValues,
            updateCtrl_IsProbationLocked, Up, ExpiryPending, FailPending
<1>2. ASSUME NEW force \in BOOLEAN, le_updateCtrl_MarkGood(force) PROVE CtrlInv'
    BY Zenon, <1>2 DEF le_updateCtrl_MarkGood, StatusFatal, Fatal,
                updateDaemon_MarkGood, disk, counts, callbacks
<1>3. CASE le_updateCtrl_FailProbation
    BY Zenon, <1>3 DEF le_updateCtrl_FailProbation, StatusFatal, Fatal,
                disk, counts, callbacks
<1>4. ASSUME NEW idle \in BOOLEAN, HandleProbationExpiry(idle) PROVE CtrlInv'
    BY Zenon, <1>4 DEF HandleProbationExpiry, StartProbation, updateDaemon_MarkGood,
                disk, counts
<1>5. ASSUME NEW dirs \in {others, system_RemoveUnneeded},
             NEW outcome \in {"done", "failed", "crash"}, AppChange(dirs, outcome)
      PROVE  CtrlInv'
    <2>1. CASE status = "bad"
        BY Zenon, <1>5, <2>1 DEF AppChange, Fatal, disk, counts, callbacks
    <2>2. CASE status # "bad"
        <3>1. others' = system_Snapshot(dirs) \ {"unpack"} /\ UNCHANGED <<counts, callbacks>>
            BY <1>5, <2>2 DEF AppChange
        <3>2. /\ dirs \subseteq {"good", "new", "unpack"}
              /\ status # "good" => "good" \in dirs
            BY DEF system_RemoveUnneeded
        <3>3. others' \subseteq {"good", "new", "unpack"} /\ "good" \in others'
            BY <3>1, <3>2 DEF system_Snapshot
        <3>4. CASE outcome = "done"
            BY <1>5, <2>2, <3>1, <3>3, <3>4 DEF AppChange, StartProbation, counts, callbacks
        <3>5. CASE outcome = "failed"
            BY <1>5, <2>2, <3>1, <3>3, <3>5 DEF AppChange, counts, callbacks
        <3>6. CASE outcome = "crash"
            BY <1>5, <2>2, <3>1, <3>3, <3>6 DEF AppChange, Fatal, counts, callbacks
        <3> QED BY <1>5, <3>4, <3>5, <3>6
    <2> QED BY <2>1, <2>2
<1>6. CASE SystemUpdate
    BY <1>6 DEF SystemUpdate, Fatal, counts, callbacks
<1>7. CASE Crash
    BY <1>7 DEF Crash, Fatal, disk, counts, callbacks
<1>8. CASE Boot
    <2>1. /\ daemon' = "running"
          /\ locks' = [d \in Clients |-> 0] /\ defers' = [d \in Clients |-> 0]
          /\ AggregateProbationLockCount' = 0 /\ AggregateDeferCount' = 0
          /\ ProbationExpiryCallback' = "NULL" /\ DeferredFailCallback' = "NULL"
          /\ timer' = IF status' = "good" THEN "stopped" ELSE "running"
        BY <1>8 DEF Boot
    <2>2. /\ status' \in StatusValues
          /\ others' \subseteq {"good", "new", "unpack"}
          /\ status' # "good" => "good" \in others'
        BY Zenon, <1>8 DEF Boot, system_Snapshot
    <2> QED BY <2>1, <2>2
<1>9. CASE UNCHANGED ctrlVars
    BY <1>9 DEF ctrlVars, disk, counts, callbacks
<1>10. ASSUME NEW dirs \in SUBSET {"unpack"}, MakeSpace(dirs) PROVE CtrlInv'
    <2>1. CASE StatusFatal
        BY <2>1 DEF StatusFatal, Fatal, disk, counts, callbacks
    <2>2. CASE ~StatusFatal
        <3>1. /\ others' = system_RemoveUnneeded \union dirs
              /\ UNCHANGED <<daemon, status, timer, counts, callbacks>>
            BY <1>10, <2>2 DEF MakeSpace
        <3> QED BY Zenon, <3>1 DEF system_RemoveUnneeded, counts, callbacks
    <2> QED BY <2>1, <2>2
<1> QED
    BY <1>1, <1>2, <1>3, <1>4, <1>5, <1>6, <1>7, <1>8, <1>9, <1>10 DEF CtrlNext

\* The invariant holds in every reachable state.
THEOREM CtrlInvariant == CtrlSpec => []CtrlInv
BY CtrlInitInv, CtrlNextInv, PTL DEF CtrlSpec

\* Every variable keeps its type.
THEOREM CtrlTypeCorrect == CtrlSpec => []CtrlTypeOK
BY CtrlInvariant, PTL DEF CtrlInv

\* While the current system is not known to be good, a good one is kept to roll
\* back to (system_Snapshot, system_RemoveUnneeded and the start program).
THEOREM RollbackIsPossible == CtrlSpec => []RollbackTargetKept
BY CtrlInvariant, PTL DEF CtrlInv

\* The running daemon never loses the end of a probation period: a timer or a
\* callback is pending, and a callback waits for a lock that is really held.
THEOREM ProbationIsNotLost == CtrlSpec => [](ProbationWillEnd /\ ExpiryWaitsForALock)
BY CtrlInvariant, PTL DEF CtrlInv

\* The totals are counts of what the clients hold.
CountsInv ==
    /\ AggregateProbationLockCount = Total(locks)
    /\ AggregateDeferCount = Total(defers)

\* A call changes one count of its client and the total of that count as much, or
\* none of the counts.
LEMMA ClientCallCounts ==
    ASSUME NEW c \in Clients, CtrlTypeOK, ClientCall(c)
    PROVE  \/ UNCHANGED counts
           \/ \E n \in 0 .. MaxCount :
                /\ locks' = [locks EXCEPT ![c] = n]
                /\ AggregateProbationLockCount' = AggregateProbationLockCount - locks[c] + n
                /\ UNCHANGED <<defers, AggregateDeferCount>>
           \/ \E n \in 0 .. MaxCount :
                /\ defers' = [defers EXCEPT ![c] = n]
                /\ AggregateDeferCount' = AggregateDeferCount - defers[c] + n
                /\ UNCHANGED <<locks, AggregateProbationLockCount>>
<1>1. /\ locks[c] \in 0 .. MaxCount /\ defers[c] \in 0 .. MaxCount /\ MaxCount \in Nat
      /\ locks \in [Clients -> 0 .. MaxCount] /\ defers \in [Clients -> 0 .. MaxCount]
      /\ AggregateProbationLockCount \in Int /\ AggregateDeferCount \in Int
    BY MaxCountAssumption DEF CtrlTypeOK
<1>2. CASE FreeDeadClientLockObjs(c)
    <2>1. CASE locks[c] # 0
        BY <1>2, <2>1 DEF FreeDeadClientLockObjs
    <2>2. CASE locks[c] = 0
        <3>1. /\ AggregateDeferCount' = AggregateDeferCount - defers[c] + 0
              /\ defers' = [defers EXCEPT ![c] = 0]
              /\ UNCHANGED <<locks, AggregateProbationLockCount>>
            BY <1>1, <1>2, <2>2 DEF FreeDeadClientLockObjs
        <3>2. 0 \in 0 .. MaxCount
            BY <1>1
        <3> QED BY Zenon, <3>1, <3>2
    <2> QED BY <2>1, <2>2
<1>3. CASE IncrementProbationLocks(c) /\ locks[c] < MaxCount
    <2> DEFINE n == locks[c] + 1
    <2>1. /\ n \in 0 .. MaxCount /\ locks' = [locks EXCEPT ![c] = n]
          /\ AggregateProbationLockCount' = AggregateProbationLockCount - locks[c] + n
          /\ UNCHANGED <<defers, AggregateDeferCount>>
        BY <1>1, <1>3 DEF IncrementProbationLocks
    <2> QED BY Zenon, <2>1
<1>4. CASE DecrementProbationLocks(c) /\ locks[c] > 0
    <2> DEFINE n == locks[c] - 1
    <2>1. /\ n \in 0 .. MaxCount /\ locks' = [locks EXCEPT ![c] = n]
          /\ AggregateProbationLockCount' = AggregateProbationLockCount - locks[c] + n
          /\ UNCHANGED <<defers, AggregateDeferCount>>
        BY <1>1, <1>4 DEF DecrementProbationLocks
    <2> QED BY Zenon, <2>1
<1>5. CASE IncrementDefers(c) /\ defers[c] < MaxCount
    <2> DEFINE n == defers[c] + 1
    <2>1. /\ n \in 0 .. MaxCount /\ defers' = [defers EXCEPT ![c] = n]
          /\ AggregateDeferCount' = AggregateDeferCount - defers[c] + n
          /\ UNCHANGED <<locks, AggregateProbationLockCount>>
        BY <1>1, <1>5 DEF IncrementDefers
    <2> QED BY Zenon, <2>1
<1>6. CASE DecrementDefers(c) /\ defers[c] > 0
    <2> DEFINE n == defers[c] - 1
    <2>1. /\ n \in 0 .. MaxCount /\ defers' = [defers EXCEPT ![c] = n]
          /\ AggregateDeferCount' = AggregateDeferCount - defers[c] + n
          /\ UNCHANGED <<locks, AggregateProbationLockCount>>
        BY <1>1, <1>6 DEF DecrementDefers
    <2> QED BY Zenon, <2>1
<1>7. \/ UNCHANGED counts \/ FreeDeadClientLockObjs(c)
      \/ IncrementProbationLocks(c) /\ locks[c] < MaxCount
      \/ DecrementProbationLocks(c) /\ locks[c] > 0
      \/ IncrementDefers(c) /\ defers[c] < MaxCount
      \/ DecrementDefers(c) /\ defers[c] > 0
    BY DEF ClientCall, le_updateCtrl_Defer, le_updateCtrl_Allow, le_updateCtrl_LockProbation,
           le_updateCtrl_UnlockProbation, le_updateCtrl_GetSystemState, SessionClosed,
           StatusFatal, IsClientDeferring, IsClientProbationLocked
<1> QED BY <1>2, <1>3, <1>4, <1>5, <1>6, <1>7

\* Every step keeps the totals right.
LEMMA CountsNextInv == ASSUME CtrlTypeOK, CountsInv, [CtrlNext]_ctrlVars PROVE CountsInv'
<1>1. locks \in [Clients -> 0 .. MaxCount] /\ defers \in [Clients -> 0 .. MaxCount]
    BY DEF CtrlTypeOK
<1>2. CASE UNCHANGED counts
    BY <1>2 DEF CountsInv, counts, Total, Held
<1>3. ASSUME NEW c \in Clients, ClientCall(c) PROVE CountsInv'
    <2>1. ASSUME NEW n \in 0 .. MaxCount, locks' = [locks EXCEPT ![c] = n],
                 AggregateProbationLockCount' = AggregateProbationLockCount - locks[c] + n,
                 UNCHANGED <<defers, AggregateDeferCount>>
          PROVE  CountsInv'
        <3>1. Total([locks EXCEPT ![c] = n]) = Total(locks) - locks[c] + n
            BY Zenon, <1>1, TotalChange
        <3>2. Total(locks') = Total(locks) - locks[c] + n
            BY <2>1, <3>1
        <3> QED BY <2>1, <3>2 DEF CountsInv, Total, Held
    <2>2. ASSUME NEW n \in 0 .. MaxCount, defers' = [defers EXCEPT ![c] = n],
                 AggregateDeferCount' = AggregateDeferCount - defers[c] + n,
                 UNCHANGED <<locks, AggregateProbationLockCount>>
          PROVE  CountsInv'
        <3>1. Total([defers EXCEPT ![c] = n]) = Total(defers) - defers[c] + n
            BY Zenon, <1>1, TotalChange
        <3>2. Total(defers') = Total(defers) - defers[c] + n
            BY <2>2, <3>1
        <3> QED BY <2>2, <3>2 DEF CountsInv, Total, Held
    <2> QED BY <1>2, <1>3, <2>1, <2>2, ClientCallCounts
<1>4. CASE Boot
    <2>1. /\ locks' = [c \in Clients |-> 0] /\ defers' = [c \in Clients |-> 0]
          /\ AggregateProbationLockCount' = 0 /\ AggregateDeferCount' = 0
        BY <1>4 DEF Boot
    <2>2. Total(locks') = 0 /\ Total(defers') = 0
        BY SMTT(30), <2>1, TotalOfNone
    <2> QED BY <2>1, <2>2 DEF CountsInv, Total, Held
<1>5. CASE /\ CtrlNext /\ ~Boot /\ ~\E c \in Clients : ClientCall(c)
    BY <1>2, <1>5 DEF CtrlNext, le_updateCtrl_MarkGood, le_updateCtrl_FailProbation,
       HandleProbationExpiry, MakeSpace, AppChange, SystemUpdate, Crash, StatusFatal
<1>6. CASE UNCHANGED ctrlVars
    BY <1>2, <1>6 DEF ctrlVars
<1> QED BY <1>3, <1>4, <1>5, <1>6

\* The totals are right in every reachable state.
THEOREM CountsInvariant == CtrlSpec => []CountsInv
<1>1. CtrlInit => CountsInv
    BY TotalOfNone DEF CtrlInit, CountsInv
<1> QED BY <1>1, CountsNextInv, CtrlTypeCorrect, PTL DEF CtrlSpec

\* The cached totals of locks and of defers are the sums of what the clients hold,
\* whatever clients do and in whatever order they die.
THEOREM TotalsMatch == CtrlSpec => []AggregatesMatch
<1>1. CtrlTypeOK /\ CountsInv => AggregatesMatch
    <2> SUFFICES ASSUME CtrlTypeOK, CountsInv PROVE AggregatesMatch
        OBVIOUS
    <2>1. locks \in [Clients -> 0 .. MaxCount] /\ defers \in [Clients -> 0 .. MaxCount]
        BY DEF CtrlTypeOK
    <2>2. MapThenSumSet(LAMBDA c : locks[c], Clients) = Total(locks)
        BY Zenon, <2>1, SumIsTotal
    <2>3. MapThenSumSet(LAMBDA c : defers[c], Clients) = Total(defers)
        BY Zenon, <2>1, SumIsTotal
    <2> QED BY <2>2, <2>3 DEF AggregatesMatch, CountsInv
<1> QED BY <1>1, CountsInvariant, CtrlTypeCorrect, PTL

\* A running daemon ends a probation only when the last lock is gone, unless a
\* client forces it to with le_updateCtrl_MarkGood(force).
THEOREM LocksHoldProbation == CtrlSpec => LockHoldsProbation
<1> DEFINE Held0 == Up /\ Up' /\ status # "good" /\ status' = "good"
                    => AggregateProbationLockCount' = 0 \/ le_updateCtrl_MarkGood(TRUE)
<1>1. ASSUME CtrlTypeOK, CountsInv, CountsInv', CtrlTypeOK', [CtrlNext]_ctrlVars
      PROVE  [Held0]_ctrlVars
    <2> SUFFICES ASSUME CtrlNext, Up, Up', status # "good", status' = "good",
                        ~le_updateCtrl_MarkGood(TRUE)
                 PROVE  AggregateProbationLockCount' = 0
        BY Zenon, <1>1
    <2>1. AggregateProbationLockCount \in Nat /\ AggregateProbationLockCount' \in Nat
        <3>1. Total(locks) \in Nat /\ Total(locks') \in Nat
            <4>1. locks \in [Clients -> 0 .. MaxCount] /\ locks' \in [Clients -> 0 .. MaxCount]
                BY <1>1 DEF CtrlTypeOK
            <4> QED BY <4>1, TotalIsNat
        <3> QED BY <1>1, <3>1 DEF CountsInv, Total, Held
    <2>2. ASSUME NEW c \in Clients, ClientCall(c) PROVE AggregateProbationLockCount' = 0
        <3>1. le_updateCtrl_UnlockProbation(c)
            BY <2>2 DEF ClientCall, le_updateCtrl_Defer, le_updateCtrl_Allow,
               le_updateCtrl_LockProbation, le_updateCtrl_GetSystemState, SessionClosed,
               StatusFatal, disk
        <3>2. AggregateProbationLockCount' <= 0
            <4>1. CASE locks[c] > 0
                BY <3>1, <4>1 DEF le_updateCtrl_UnlockProbation, IsClientProbationLocked, disk
            <4>2. CASE ~(locks[c] > 0)
                <5>1. FreeDeadClientLockObjs(c) /\ ~updateCtrl_IsProbationLocked
                    BY <3>1, <4>2 DEF le_updateCtrl_UnlockProbation, IsClientProbationLocked,
                                      disk
                <5>2. AggregateProbationLockCount' = AggregateProbationLockCount
                    BY <5>1 DEF FreeDeadClientLockObjs, counts
                <5> QED BY <2>1, <5>1, <5>2 DEF updateCtrl_IsProbationLocked
            <4> QED BY <4>1, <4>2
        <3> QED BY <2>1, <3>2
    <2>3. ASSUME NEW force \in BOOLEAN, le_updateCtrl_MarkGood(force)
          PROVE  AggregateProbationLockCount' = 0
        <3>1. force # TRUE
            BY Zenon, <2>3
        <3>2. ~updateCtrl_IsProbationLocked
              /\ AggregateProbationLockCount' = AggregateProbationLockCount
            BY <2>3, <3>1 DEF le_updateCtrl_MarkGood, StatusFatal, counts, disk
        <3> QED BY <2>1, <3>2 DEF updateCtrl_IsProbationLocked
    <2>4. ASSUME NEW idle \in BOOLEAN, HandleProbationExpiry(idle)
          PROVE  AggregateProbationLockCount' = 0
        <3>1. ~updateCtrl_IsProbationLocked
              /\ AggregateProbationLockCount' = AggregateProbationLockCount
            BY <2>4 DEF HandleProbationExpiry, counts, disk
        <3> QED BY <2>1, <3>1 DEF updateCtrl_IsProbationLocked
    <2>5. /\ ~le_updateCtrl_FailProbation /\ ~SystemUpdate /\ ~Crash /\ ~Boot
          /\ \A dirs \in SUBSET {"unpack"} : ~MakeSpace(dirs)
          /\ \A dirs \in {others, system_RemoveUnneeded},
                outcome \in {"done", "failed", "crash"} : ~AppChange(dirs, outcome)
        BY DEF le_updateCtrl_FailProbation, SystemUpdate, Crash, Boot, MakeSpace, AppChange,
           StatusFatal, Fatal, Up, disk
    <2> QED BY <2>2, <2>3, <2>4, <2>5 DEF CtrlNext
<1> QED BY <1>1, CountsInvariant, CtrlTypeCorrect, PTL DEF CtrlSpec, LockHoldsProbation, Held0

-----------------------------------------------------------------------------
(* UpdateDaemon.                                                            *)

\* The inductive invariant of a running daemon.  A client may install (Ready) when
\* both the unpacker and the pipeline have ended well; while one of them works,
\* nothing has failed so far; and what is queued was ready when it was queued,
\* unless a new update has reset the type since then.
Ready == verdict = "passed" /\ report = "DONE" /\ ErrorCode = "NONE"

DaemonInv ==
    /\ DaemonTypeOK
    /\ "FAILED" \in told => ErrorCode # "NONE"
    /\ Up =>
        /\ phase = "working" => /\ State = "UNPACKING"
                                /\ ErrorCode = "NONE"
                                /\ InstallReady = "no"
                                /\ report = "none"
                                /\ SecurityUnpackPipeline = "NULL" => verdict = "passed"
        /\ SecurityUnpackPipeline = "running" =>
               /\ State \in {"UNPACKING", "SECURITY_CHECKING"}
               /\ verdict = "pending"
               /\ InstallReady = "no"
        /\ State = "SECURITY_CHECKING" /\ SecurityUnpackPipeline = "running" =>
               report = "DONE" /\ ErrorCode = "NONE"
        /\ InstallReady = "yes" /\ State # "IDLE" => Ready
        /\ InstallEvent = "queued" =>
               /\ InstallReady = "no"
               /\ type # "UNKNOWN" => verdict = "passed" /\ report = "DONE"
               /\ IpcSession # NoSession => ErrorCode = "NONE"

-----------------------------------------------------------------------------
\* Every step of the daemon is a step of UpdateCtrl, or leaves its state alone.
LEMMA StepImplementsCtrl == [DaemonNext]_daemonVars => [CtrlNext]_ctrlVars
<1> SUFFICES ASSUME [DaemonNext]_daemonVars PROVE [CtrlNext]_ctrlVars
    OBVIOUS
<1>1. ASSUME NEW s \in Sessions, UpdateCall(s) PROVE [CtrlNext]_ctrlVars
    <2>1. CASE le_update_Start(s)
        BY <2>1 DEF le_update_Start, StartUnpacking, Fatal, Crash, CtrlNext, ctrlVars
    <2>2. CASE le_update_Install(s)
        BY <2>2 DEF le_update_Install
    <2>3. CASE le_update_End(s) \/ UpdateServiceClosed(s)
        BY <2>3 DEF le_update_End, UpdateServiceClosed, EndUpdate
    <2> QED BY <1>1, <2>1, <2>2, <2>3 DEF UpdateCall
<1>2. CASE le_appRemove_Remove
    BY <1>2 DEF le_appRemove_Remove, CtrlNext
<1>3. CASE UnpackStep
    BY <1>3 DEF UnpackStep, UnpackBegins, CtrlNext
<1>4. ASSUME NEW exit \in {"success", "SECURITY_FAILURE", "INTERNAL_ERROR"},
             PipelineDone(exit)
      PROVE  [CtrlNext]_ctrlVars
    BY <1>4 DEF PipelineDone, Fatal, Crash, CtrlNext, ctrlVars
<1>5. CASE ApplyUpdate
    BY <1>5 DEF ApplyUpdate, ApplySystemUpdate, ApplyAppUpdate, ApplyAppRemove,
                ApplyFwUpdate, CtrlNext
<1>6. CASE ProbationExpiry
    BY Zenon, <1>6 DEF ProbationExpiry, CtrlNext
<1>7. CASE CtrlCall
    BY <1>7 DEF CtrlCall, CtrlNext
<1>8. CASE DaemonBoot
    BY <1>8 DEF DaemonBoot, CtrlNext
<1>9. CASE UNCHANGED daemonVars
    BY <1>9 DEF daemonVars
<1> QED
    BY <1>1, <1>2, <1>3, <1>4, <1>5, <1>6, <1>7, <1>8, <1>9 DEF DaemonNext

\* The daemon with its update sessions implements UpdateCtrl (updateDaemon.c only
\* changes the state of updateCtrl.c in the ways UpdateCtrl describes).
THEOREM DaemonImplementsCtrl == DaemonSpec => ImplementsCtrl
<1>1. DaemonInit => CtrlInit
    BY DEF DaemonInit
<1> QED
    BY <1>1, StepImplementsCtrl, PTL DEF DaemonSpec, CtrlSpec, ImplementsCtrl

\* So whatever sessions do, while the current system is not good there is a good
\* one to roll back to, and the end of probation is not lost.
THEOREM DaemonKeepsRollback ==
    DaemonSpec => [](RollbackTargetKept /\ ProbationWillEnd)
BY DaemonImplementsCtrl, CtrlInvariant, PTL DEF ImplementsCtrl, CtrlInv

\* Every step of the daemon is a step of Unpacker, or leaves its state alone.
LEMMA StepUsesUnpacker == [DaemonNext]_daemonVars => [U!Next]_<<phase, report, type>>
<1> SUFFICES ASSUME [DaemonNext]_daemonVars
             PROVE  U!Next \/ UNCHANGED <<phase, report, type>>
    OBVIOUS
<1> USE DEF U!Next, unpacker
<1>1. ASSUME NEW s \in Sessions, UpdateCall(s)
      PROVE  U!Next \/ UNCHANGED <<phase, report, type>>
    BY <1>1 DEF UpdateCall, le_update_Start, StartUnpacking, le_update_Install,
                le_update_End, UpdateServiceClosed, EndUpdate
<1>2. CASE UnpackStep
    BY <1>2 DEF UnpackStep
<1>3. ASSUME NEW exit \in {"success", "SECURITY_FAILURE", "INTERNAL_ERROR"},
             PipelineDone(exit)
      PROVE  U!Next \/ UNCHANGED <<phase, report, type>>
    BY <1>3 DEF PipelineDone
<1>4. CASE DaemonBoot
    BY <1>4 DEF DaemonBoot
<1>5. CASE le_appRemove_Remove \/ ApplyUpdate \/ ProbationExpiry \/ CtrlCall
    BY <1>5 DEF le_appRemove_Remove, ApplyUpdate, ProbationExpiry, CtrlCall
<1>6. CASE UNCHANGED daemonVars
    BY <1>6 DEF daemonVars
<1> QED
    BY <1>1, <1>2, <1>3, <1>4, <1>5, <1>6 DEF DaemonNext

\* The daemon starts the unpacker only when it is idle and hears of one result per
\* update (updateUnpack.h).
THEOREM DaemonUsesUnpacker == DaemonSpec => UsesUnpacker
<1>1. DaemonInit => U!Init
    BY SMTT(30) DEF DaemonInit
<1> QED
    BY <1>1, StepUsesUnpacker, PTL DEF DaemonSpec, UsesUnpacker, U!Spec

-----------------------------------------------------------------------------
\* Calls of the le_update service preserve the invariant.
LEMMA UpdateCallInv ==
    ASSUME NEW s \in Sessions, DaemonInv, UpdateCall(s)
    PROVE  DaemonInv'
<1> USE NoSessionAssumption
        DEF DaemonInv, DaemonTypeOK, Ready, Up, Queued, U!UnpackTypes, U!FinalReports
<1>1. CASE le_update_Start(s)
    BY <1>1 DEF le_update_Start, Served, StartUnpacking, Fatal, U!Start
<1>2. CASE le_update_Install(s)
    BY <1>2 DEF le_update_Install, ctrlVars, unpacker
<1>3. CASE le_update_End(s) \/ UpdateServiceClosed(s)
    <2>1. /\ EndUpdate /\ Up /\ batch' \subseteq Sessions
        BY <1>3 DEF le_update_End, UpdateServiceClosed, Served
    <2>2. /\ phase' \in {"idle", "working"} /\ report' = report /\ type' = type
          /\ phase' = "idle"
        BY SMTT(30), <2>1 DEF EndUpdate, U!Stop
    <2> QED BY <2>1, <2>2 DEF EndUpdate, ctrlVars
<1> QED BY <1>1, <1>2, <1>3 DEF UpdateCall

\* An event of the unpacker preserves the invariant.
LEMMA UnpackStepInv == DaemonInv /\ UnpackStep => DaemonInv'
<1> SUFFICES ASSUME DaemonInv, UnpackStep PROVE DaemonInv'
    OBVIOUS
<1> USE DEF DaemonInv, DaemonTypeOK, Ready, Up, Queued, U!UnpackTypes, U!FinalReports
<1>1. /\ source' \in {"unpack", "current", "good"}
      /\ UNCHANGED queue
      /\ daemon = "running" /\ InstallEvent = "none"
    BY DEF UnpackStep, UnpackBegins, ctrlVars
<1>2. CASE U!Work /\ UNCHANGED session
    BY <1>1, <1>2 DEF U!Work, U!Learn, session, queue
<1>3. CASE U!Finish /\ HandleUpdateProgress(report')
           /\ UNCHANGED <<IpcSession, SecurityUnpackPipeline, verdict>>
    <2>1. CASE report' = "DONE"
        BY ZenonT(40), <1>1, <1>3, <2>1 DEF U!Finish, U!Learn, HandleUpdateProgress, UnpackDone,
                                CallStatusHandlers, queue
    <2>2. CASE report' # "DONE"
        BY Zenon, <1>1, <1>3, <2>2 DEF U!Finish, U!Learn, HandleUpdateProgress, UpdateFailed,
                                CallStatusHandlers, queue
    <2> QED BY <2>1, <2>2
<1> QED BY <1>2, <1>3 DEF UnpackStep

\* The exit of the security-unpack program preserves the invariant.
LEMMA PipelineDoneInv ==
    ASSUME NEW exit \in {"success", "SECURITY_FAILURE", "INTERNAL_ERROR"},
           DaemonInv, PipelineDone(exit)
    PROVE  DaemonInv'
<1> USE DEF DaemonInv, DaemonTypeOK, Ready, Up, Queued, U!UnpackTypes, U!FinalReports
<1>1. State # "APPLYING"
    BY DEF PipelineDone
<1>2. /\ SecurityUnpackPipeline = "running" /\ SecurityUnpackPipeline' = "NULL"
      /\ daemon = "running" /\ InstallEvent = "none"
      /\ UNCHANGED <<daemon, State, IpcSession, source, InstallEvent, batch>>
    BY <1>1 DEF PipelineDone, queue
<1>3. CASE exit = "success"
    BY ZenonT(40), <1>1, <1>2, <1>3 DEF PipelineDone, CallStatusHandlers
<1>4. CASE exit # "success"
    <2>1. phase' = "idle" /\ UNCHANGED <<report, type>>
        BY <1>1, <1>2, <1>4 DEF PipelineDone, U!Stop
    <2>2. verdict' = "failed" /\ UpdateFailed(exit) /\ UNCHANGED InstallReady
        BY <1>1, <1>4 DEF PipelineDone
    <2>3. ErrorCode' = exit /\ told' \subseteq told \union {"FAILED"}
        BY <2>2 DEF UpdateFailed, CallStatusHandlers
    <2>4. DaemonTypeOK'
        BY <1>2, <1>4, <2>1, <2>2, <2>3
    <2> QED BY <1>2, <1>4, <2>1, <2>2, <2>3, <2>4
<1> QED BY <1>3, <1>4

\* The installation preserves the invariant.
LEMMA ApplyUpdateInv == DaemonInv /\ ApplyUpdate => DaemonInv'
<1> SUFFICES ASSUME DaemonInv, ApplyUpdate PROVE DaemonInv'
    OBVIOUS
<1> USE DEF DaemonInv, DaemonTypeOK, Ready, Up, Queued, U!UnpackTypes, U!FinalReports
<1>1. /\ InstallEvent = "queued" /\ InstallEvent' = "none" /\ batch' = {}
      /\ State' = "APPLYING" /\ daemon = "running"
      /\ UNCHANGED <<IpcSession, InstallReady, SecurityUnpackPipeline, verdict,
                     phase, report, type, source>>
    BY SMTT(30) DEF ApplyUpdate, unpacker
<1>2. \/ UNCHANGED <<told, ErrorCode>>
      \/ /\ ErrorCode' = ErrorCode
         /\ told' = IF IpcSession = NoSession THEN told ELSE told \union {"SUCCESS"}
      \/ /\ ErrorCode' = "INTERNAL_ERROR"
         /\ told' \subseteq told \union {"SUCCESS", "FAILED"}
    BY DEF ApplyUpdate, ApplySystemUpdate, ApplyAppUpdate, ApplyAppRemove, ApplyFwUpdate,
           ApplyFailed, ApplyDone, Killed, UpdateFailed, ReportUpdateDone, CallStatusHandlers
<1>3. daemon' = "running" => phase = "idle" /\ SecurityUnpackPipeline = "NULL"
    <2>1. CASE type = "UNKNOWN"
        <3>1. Crash
            BY <2>1 DEF ApplyUpdate
        <3> QED BY <3>1 DEF Crash, Fatal
    <2>2. CASE type # "UNKNOWN"
        BY <1>1, <2>2
    <2> QED BY <2>1, <2>2
<1>4. /\ told' \subseteq {"DOWNLOAD_SUCCESS", "SUCCESS", "FAILED"}
      /\ ErrorCode' \in {"NONE", "BAD_PACKAGE", "INTERNAL_ERROR", "SECURITY_FAILURE"}
      /\ "FAILED" \in told' => ErrorCode' # "NONE"
    BY Zenon, <1>2
<1>5. DaemonTypeOK'
    BY <1>1, <1>4
<1>6. InstallReady = "no"
    BY <1>1
<1> QED BY <1>1, <1>3, <1>4, <1>5, <1>6

\* Every step preserves the invariant.
LEMMA DaemonNextInv == DaemonInv /\ [DaemonNext]_daemonVars => DaemonInv'
<1> SUFFICES ASSUME DaemonInv, [DaemonNext]_daemonVars PROVE DaemonInv'
    OBVIOUS
<1>1. ASSUME NEW s \in Sessions, UpdateCall(s) PROVE DaemonInv'
    BY <1>1, UpdateCallInv
<1>2. CASE UnpackStep
    BY <1>2, UnpackStepInv
<1>3. ASSUME NEW exit \in {"success", "SECURITY_FAILURE", "INTERNAL_ERROR"},
             PipelineDone(exit)
      PROVE  DaemonInv'
    BY <1>3, PipelineDoneInv
<1>4. CASE ApplyUpdate
    BY <1>4, ApplyUpdateInv
<1>5. CASE DaemonBoot
    BY <1>5 DEF DaemonBoot, DaemonInv, DaemonTypeOK, Ready, U!Restart, U!UnpackTypes,
                U!FinalReports
<1>6. ASSUME UNCHANGED <<session, unpacker, queue>>, Up' => Up PROVE DaemonInv'
    BY <1>6 DEF DaemonInv, DaemonTypeOK, Ready, U!UnpackTypes, U!FinalReports,
                session, unpacker, queue
<1>7. CASE le_appRemove_Remove \/ ProbationExpiry
    BY <1>6, <1>7 DEF le_appRemove_Remove, ProbationExpiry, HandleProbationExpiry
<1>8. CASE CtrlCall
    <2>1. Up
        BY Zenon, <1>8 DEF CtrlCall, ClientCall, Crash, le_updateCtrl_Defer, le_updateCtrl_Allow,
                    le_updateCtrl_LockProbation, le_updateCtrl_UnlockProbation,
                    le_updateCtrl_GetSystemState, SessionClosed, le_updateCtrl_MarkGood,
                    le_updateCtrl_FailProbation
    <2> QED BY SMTT(30), <1>6, <1>8, <2>1 DEF CtrlCall
<1>9. CASE UNCHANGED daemonVars
    BY <1>6, <1>9 DEF daemonVars, ctrlVars, Up
<1> QED
    BY <1>1, <1>2, <1>3, <1>4, <1>5, <1>7, <1>8, <1>9 DEF DaemonNext

\* The invariant holds in every reachable state.
THEOREM DaemonInvariant == DaemonSpec => []DaemonInv
<1>1. DaemonInit => DaemonInv
    BY NoSessionAssumption
    DEF DaemonInit, DaemonInv, DaemonTypeOK, Ready, U!Init, U!UnpackTypes, U!FinalReports
<1> QED
    BY <1>1, DaemonNextInv, PTL DEF DaemonSpec

\* Every variable keeps its type.
THEOREM DaemonTypeCorrect == DaemonSpec => []DaemonTypeOK
BY DaemonInvariant, PTL DEF DaemonInv

\* A running daemon lets a client install only what was unpacked completely and
\* passed the security check; the unpacker and the pipeline work only in the states
\* that expect them.
THEOREM OnlyVerifiedInstalls ==
    DaemonSpec => [](InstallOnlyVerified /\ UnpackerIdle /\ PipelineAwaited)
<1>1. DaemonInv => InstallOnlyVerified /\ UnpackerIdle /\ PipelineAwaited
    BY DEF DaemonInv, Ready, UnpackerIdle, PipelineAwaited, InstallOnlyVerified
<1> QED
    BY <1>1, DaemonInvariant, PTL

\* ApplyUpdate() writes nothing to the disk that was not verified, even when the
\* update was cancelled and another one started before its event was handled.
THEOREM OnlyVerifiedApplied == DaemonSpec => AppliedIsVerified
<1>1. DaemonInv /\ [DaemonNext]_daemonVars
      => [ApplyUpdate /\ disk' # disk => verdict = "passed" /\ report = "DONE"]_daemonVars
    <2> SUFFICES ASSUME DaemonInv, ApplyUpdate, disk' # disk
                 PROVE  verdict = "passed" /\ report = "DONE"
        OBVIOUS
    <2>1. type # "UNKNOWN"
        <3> SUFFICES ASSUME type = "UNKNOWN" PROVE FALSE
            OBVIOUS
        <3>1. Crash
            BY DEF ApplyUpdate
        <3> QED BY <3>1 DEF Crash, disk
    <2> QED BY <2>1 DEF DaemonInv, ApplyUpdate, Queued
<1> QED
    BY <1>1, DaemonInvariant, PTL DEF DaemonSpec, AppliedIsVerified

\* A failure is the last thing a client hears of its update: UpdateFailed() reports
\* once, and nothing that comes later reports a success.
THEOREM FailureIsLast == DaemonSpec => FailedIsFinal
<1>1. DaemonInv /\ [DaemonNext]_daemonVars
      => [told' # told /\ "FAILED" \in told => told' = {}]_daemonVars
    <2> SUFFICES ASSUME DaemonInv, DaemonNext, told' # told, "FAILED" \in told
                 PROVE  told' = {}
        OBVIOUS
    <2>1. ErrorCode # "NONE"
        BY DEF DaemonInv
    <2>2. ASSUME NEW s \in Sessions, UpdateCall(s) PROVE told' = {}
        BY <2>2 DEF UpdateCall, le_update_Start, le_update_Install, le_update_End,
                    UpdateServiceClosed, EndUpdate
    <2>3. ~UnpackStep
        BY <2>1 DEF UnpackStep, session, DaemonInv, U!Finish, HandleUpdateProgress,
                    UpdateFailed
    <2>4. ASSUME NEW exit \in {"success", "SECURITY_FAILURE", "INTERNAL_ERROR"}
          PROVE  ~PipelineDone(exit)
        BY <2>1 DEF PipelineDone, DaemonInv, UpdateFailed
    <2>5. ~ApplyUpdate
        <3> SUFFICES ASSUME ApplyUpdate PROVE FALSE
            OBVIOUS
        <3>1. IpcSession = NoSession
            BY <2>1 DEF ApplyUpdate, Queued, DaemonInv
        <3>2. told' = told
            BY <2>1, <3>1 DEF ApplyUpdate, ApplySystemUpdate, ApplyAppUpdate,
                  ApplyAppRemove, ApplyFwUpdate, ApplyFailed, ApplyDone, Killed,
                  UpdateFailed, ReportUpdateDone, CallStatusHandlers
        <3> QED BY <3>2
    <2>6. ~le_appRemove_Remove /\ ~ProbationExpiry /\ ~CtrlCall
        BY DEF le_appRemove_Remove, ProbationExpiry, CtrlCall, session
    <2>7. DaemonBoot => told' = {}
        BY DEF DaemonBoot
    <2> QED BY <2>2, <2>3, <2>4, <2>5, <2>6, <2>7 DEF DaemonNext
<1> QED
    BY <1>1, DaemonInvariant, PTL DEF DaemonSpec, FailedIsFinal
=============================================================================
