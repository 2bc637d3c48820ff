----------------------------- MODULE ConfigTree -----------------------------
(* One tree of the configuration daemon (framework/daemons/configTree): the   *)
(* transactions of its clients, the queue of the requests that have to wait   *)
(* (requestQueue.c), the node iterators (nodeIterator.c) and the three        *)
(* revision files that hold the tree on flash (treeDb.c).                     *)
(*                                                                            *)
(* The daemon has one thread.  A message, a timer or the end of a session     *)
(* starts a handler; a handler may process the queue, whose handlers may      *)
(* process it again.  "work" is what the thread still has to do before it     *)
(* returns to its event loop: nested calls put the queue in front of it.      *)
(*                                                                            *)
(* Sessions and Slots are memory blocks: a session or an iterator that was    *)
(* released may be allocated again, and a pointer to it that was kept then    *)
(* means the new one.  le_mem_Release clears a block, so that a pointer to a  *)
(* free iterator has no tree (an assertion stops the daemon) and a pointer to *)
(* a free session no interface.                                               *)
(*                                                                            *)
(* The tree itself is one value: what tells apart a committed transaction     *)
(* from another one.                                                          *)
EXTENDS Integers, Sequences, FiniteSets

CONSTANTS
    Sessions,   \* the session objects of the daemon's messaging library
    NoSession,
    Slots,      \* the blocks of the iterator pool
    NoSlot,
    NoIter,     \* the content of a free block of the iterator pool
    Vals,       \* what a client may write
    Empty,      \* the tree with only a root node
    NoFile,     \* no file of that revision, or one of length zero
    Partial,    \* a file cut off in the middle, which does not parse
    NoChange,   \* the shadow tree of a writer that wrote nothing
    MaxFaults   \* bound on the failures of the flash and of the daemon

ASSUME ConfigConstants ==
    /\ NoSession \notin Sessions
    /\ NoSlot \notin Slots /\ IsFiniteSet(Slots)
    /\ Empty \notin Vals /\ NoChange \notin Vals \cup {Empty}
    /\ MaxFaults \in Nat
    /\ {NoFile, Partial} \cap (Vals \cup {Empty}) = {} /\ NoFile # Partial

VARIABLES
    sess,       \* is the session object in use ("open") or not
    iters,      \* the iterator in each block of the pool
    readCount,  \* Tree_t.activeReadCount
    writeIter,  \* Tree_t.activeWriteIterRef
    queue,      \* Tree_t.requestList
    work,       \* the requests that the running handlers have taken
    content,    \* the tree in memory
    rev,        \* Tree_t.revisionId
    oldId,      \* the revision that the save in progress replaces
    files,      \* the content of the three revision files
    phase,      \* how far the save in progress is
    saved,      \* history: what the last complete save wrote
    missed,     \* history: did the last save fail?
    faults      \* such failures so far

memory == <<sess, iters, readCount, writeIter, queue, work>>
flash == <<rev, oldId, files, phase, saved, missed, faults>>
vars == <<memory, content, flash>>

Tree == Vals \cup {Empty}
Revisions == 1 .. 3

\* UpdateRequest_t, with the requests that are handled at once: "by" is the
\* client that waits for the answer, "it" the iterator, "val" what is written.
Request ==
    [kind : {"read", "write"}, by : Sessions, it : {NoSlot}, val : {NoChange}]
    \cup [kind : {"commit", "cancel"}, by : Sessions, it : Slots, val : {NoChange}]
    \cup [kind : {"delete"}, by : {NoSession}, it : Slots, val : {NoChange}]
    \cup [kind : {"quick"}, by : Sessions, it : {NoSlot}, val : Vals]

\* Iterator_t.  "held": the client that asked for it got the reference.  No
\* iterator that is still in the pool has been closed: ni_Close is only called
\* when ni_Release follows, so the test of ni_IsClosed never holds.
Iterator == [type : {"read", "write"}, owner : Sessions,
             val : Vals \cup {NoChange}, held : BOOLEAN]

ASSUME NoIterIsNone == NoIter \notin Iterator

ConfigType ==
    /\ sess \in [Sessions -> {"open", "closed"}]
    /\ iters \in [Slots -> Iterator \cup {NoIter}]
    /\ readCount \in Nat /\ writeIter \in Slots \cup {NoSlot}
    /\ queue \in Seq(Request) /\ work \in Seq(Request)
    /\ content \in Tree /\ saved \in Tree
    /\ rev \in 0 .. 3 /\ oldId \in 0 .. 3
    /\ files \in [Revisions -> Tree \cup {NoFile, Partial}]
    /\ phase \in {"no", "opening", "writing", "written", "saved", "failed"}
    /\ missed \in BOOLEAN /\ faults \in 0 .. MaxFaults

Live == {i \in Slots : iters[i] # NoIter}
Elements(q) == {q[i] : i \in DOMAIN q}
Waiting(s) == \E e \in Elements(queue) \cup Elements(work) : e.by = s
Idle == work = <<>>
Ask(kind, s, i, v) == [kind |-> kind, by |-> s, it |-> i, val |-> v]

-----------------------------------------------------------------------------
(* Which file is the tree: UpdateRevision and LoadTree.                       *)

\* Of two files the older one, as 3 is older than 1.
UpdateRevision(f) ==
    LET exists(r) == f[r] # NoFile
    IN  CASE exists(1) /\ exists(3) -> 3
          [] exists(1) /\ ~exists(3) -> 1
          [] ~exists(1) /\ exists(3) /\ exists(2) -> 2
          [] ~exists(1) /\ exists(3) /\ ~exists(2) -> 3
          [] ~exists(1) /\ ~exists(3) /\ exists(2) -> 2
          [] OTHER -> 0

\* A file that does not parse leaves an empty tree.
LoadTree(f) ==
    LET r == UpdateRevision(f) IN IF r = 0 \/ f[r] = Partial THEN Empty ELSE f[r]

\* Mutant: two files instead of three.
MutTwoRevisions(r) == IF r = 2 THEN 1 ELSE r + 1

IncrementRevision(r) == IF r = 3 THEN 1 ELSE r + 1

\* The daemon stops: the connections end and the tree is loaded again.  What
\* was written before stays written.
Restart ==
    /\ sess' = [s \in Sessions |-> "closed"]
    /\ iters' = [i \in Slots |-> NoIter]
    /\ readCount' = 0 /\ writeIter' = NoSlot
    /\ queue' = <<>> /\ work' = <<>>
    /\ rev' = UpdateRevision(files) /\ content' = LoadTree(files)
    /\ oldId' = 0 /\ phase' = "no"
    /\ saved' = LoadTree(files)
    /\ UNCHANGED <<files, missed>>

\* It stops at an assertion ...
AssertFails == Restart /\ UNCHANGED faults

\* ... or is killed, or the power is lost, in any state.
Fault == faults < MaxFaults /\ faults' = faults + 1
CrashRestart == Fault /\ Restart

-----------------------------------------------------------------------------
(* What the clients do.  A client that waits for an answer asks for nothing.  *)

\* A session object is free when no queued message holds it any more.
OpenSession(s) ==
    /\ Idle /\ sess[s] = "closed" /\ ~Waiting(s)
    /\ sess' = [sess EXCEPT ![s] = "open"]
    /\ UNCHANGED <<iters, readCount, writeIter, queue, work, content, flash>>

MayAsk(s) == Idle /\ sess[s] = "open" /\ ~Waiting(s)

Receive(e) ==
    /\ work' = <<e>>
    /\ UNCHANGED <<sess, iters, readCount, writeIter, queue, content, flash>>

\* Bound: the pool grows without end, the model keeps one block for a writer
\* and has the others for readers.
RoomFor(type) == type = "read" => readCount + 1 < Cardinality(Slots)

CreateTransaction(s, type) ==
    MayAsk(s) /\ RoomFor(type) /\ Receive(Ask(type, s, NoSlot, NoChange))

Holds(s, i) == iters[i] # NoIter /\ iters[i].owner = s /\ iters[i].held

le_cfg_CommitTxn(s, i) ==
    MayAsk(s) /\ Holds(s, i) /\ Receive(Ask("commit", s, i, NoChange))

le_cfg_CancelTxn(s, i) ==
    MayAsk(s) /\ Holds(s, i) /\ Receive(Ask("cancel", s, i, NoChange))

le_cfg_QuickSet(s, v) ==
    MayAsk(s) /\ Receive(Ask("quick", s, NoSlot, v))

\* The le_cfg_Set functions: the value goes to the shadow tree.
le_cfg_Set(s, i, v) ==
    /\ MayAsk(s) /\ Holds(s, i) /\ iters[i].type = "write"
    /\ iters' = [iters EXCEPT ![i].val = v]
    /\ UNCHANGED <<sess, readCount, writeIter, queue, work, content, flash>>

\* The orders in which the iteration over the reference map meets them.
Orders(S) == {q \in [1 .. Cardinality(S) -> S] : \A i, j \in DOMAIN q :
                                                    q[i] = q[j] => i = j}

\* rq_CleanUpForSession: every iterator of the session is to be deleted.
rq_CleanUpForSession(s) ==
    \E q \in Orders({i \in Live : iters[i].owner = s}) :
        work' = [n \in DOMAIN q |-> Ask("delete", NoSession, q[n], NoChange)]

\* The client ends or is terminated: a wrong reference, a wrong path.
CloseSession(s) ==
    /\ Idle /\ sess[s] = "open"
    /\ sess' = [sess EXCEPT ![s] = "closed"]
    /\ rq_CleanUpForSession(s)
    /\ UNCHANGED <<iters, readCount, writeIter, queue, content, flash>>

\* Mutant: a write transaction has no timer.
MutReadersTimeOut(i) ==
    /\ Idle /\ iters[i] # NoIter /\ iters[i].type = "read"
    /\ IF sess[iters[i].owner] = "open" THEN CloseSession(iters[i].owner)
                                        ELSE AssertFails

\* The transaction timer, started with the iterator, expires: the session of
\* the iterator is terminated.  tu_TerminateConfigClient stops the daemon when
\* that session is not open.
OnTransactionTimeout(i) ==
    /\ Idle /\ iters[i] # NoIter
    /\ IF sess[iters[i].owner] = "open" THEN CloseSession(iters[i].owner)
                                        ELSE AssertFails

-----------------------------------------------------------------------------
(* The handlers.  Each one treats the first request of "work".                *)

First == Head(work)
Busy(kinds) == work # <<>> /\ phase = "no" /\ First.kind \in kinds

\* The request waits in the queue of the tree.
QueueRequest ==
    /\ queue' = Append(queue, First) /\ work' = Tail(work)
    /\ UNCHANGED <<sess, iters, readCount, writeIter, content, flash>>

\* The handler returns without looking at the queue.
Return == work' = Tail(work) /\ UNCHANGED queue

\* Mutant: the queue is left for the next handler.
MutQueueLeft == work' = Tail(work) /\ UNCHANGED queue

\* ... or ends in ProcessRequestQueue, which takes the whole queue.
ProcessRequestQueue == work' = queue \o Tail(work) /\ queue' = <<>>

\* ni_Release and tdb_UnregisterIterator
ni_Release(i) ==
    /\ iters' = [iters EXCEPT ![i] = NoIter]
    /\ IF iters[i].type = "write"
       THEN writeIter' = NoSlot /\ UNCHANGED readCount
       ELSE readCount' = readCount - 1 /\ UNCHANGED writeIter

\* ni_CreateIterator and tdb_RegisterIterator
ni_CreateIterator(i, type, s) ==
    /\ iters' = [iters EXCEPT ![i] = [type |-> type, owner |-> s,
                                      val |-> NoChange,
                                      held |-> sess[s] = "open"]]
    /\ IF type = "write"
       THEN writeIter' = i /\ UNCHANGED readCount
       ELSE readCount' = readCount + 1 /\ UNCHANGED writeIter

rq_HandleCreateTxnRequest ==
    /\ Busy({"read", "write"})
    /\ IF First.kind = "write" /\ writeIter # NoSlot
       THEN QueueRequest
       ELSE /\ \E i \in Slots : iters[i] = NoIter
                                /\ ni_CreateIterator(i, First.kind, First.by)
            /\ Return
            /\ UNCHANGED <<sess, content, flash>>

\* tdb_MergeTree, its first part: the tree in memory changes, then the
\* revision counter.  The request stays at the head of "work" until the end.
tdb_MergeTree(v) ==
    /\ content' = IF v = NoChange THEN content ELSE v
    /\ oldId' = rev /\ rev' = IncrementRevision(rev)
    /\ phase' = "opening"
    /\ UNCHANGED <<memory, files, saved, missed, faults>>

\* Mutant: a single reader is not seen.
MutOneReaderMissed == readCount > 1

tdb_HasActiveReaders == readCount # 0

\* rq_HandleCommitTxnRequest
rq_HandleCommitTxnRequest ==
    /\ Busy({"commit"})
    /\ LET it == iters[First.it]
       IN  \/ it = NoIter /\ AssertFails
           \/ /\ it # NoIter /\ it.type = "read"
              /\ ni_Release(First.it) /\ ProcessRequestQueue
              /\ UNCHANGED <<sess, content, flash>>
           \/ /\ it # NoIter /\ it.type = "write" /\ tdb_HasActiveReaders
              /\ QueueRequest
           \/ /\ it # NoIter /\ it.type = "write" /\ ~tdb_HasActiveReaders
              /\ tdb_MergeTree(it.val)

\* rq_HandleCancelTxnRequest, for a client and for a session that ended
rq_HandleCancelTxnRequest ==
    /\ Busy({"cancel", "delete"})
    /\ \/ iters[First.it] = NoIter /\ AssertFails
       \/ /\ iters[First.it] # NoIter
          /\ ni_Release(First.it) /\ ProcessRequestQueue
          /\ UNCHANGED <<sess, content, flash>>

CanQuickSet == readCount = 0 /\ writeIter = NoSlot

\* The rq_HandleQuickSet functions and rq_HandleQuickDeleteNode.  The iterator
\* they create is released before they return.
rq_HandleQuickSet ==
    /\ Busy({"quick"})
    /\ IF CanQuickSet THEN tdb_MergeTree(First.val) ELSE QueueRequest

-----------------------------------------------------------------------------
(* tdb_MergeTree, the rest: the tree goes to the file of the new revision.    *)

\* A save failed, the revision stays incremented.
FailSave ==
    /\ phase' = "failed" /\ missed' = TRUE /\ Fault

OpenFile ==
    /\ phase = "opening"
    /\ \/ /\ files' = [files EXCEPT ![rev] = NoFile]
          /\ phase' = "writing" /\ UNCHANGED <<missed, faults>>
       \/ FailSave /\ UNCHANGED files
    /\ UNCHANGED <<memory, content, rev, oldId, saved>>

\* The file fills, is complete, or cannot be written and is deleted.  What is
\* left in the buffer is written by fclose, whose failure is only logged.
WriteFile ==
    /\ phase = "writing"
    /\ \/ /\ files[rev] = NoFile /\ files' = [files EXCEPT ![rev] = Partial]
          /\ UNCHANGED <<phase, missed, faults>>
       \/ /\ files' = [files EXCEPT ![rev] = content]
          /\ phase' = "written" /\ UNCHANGED <<missed, faults>>
       \/ /\ files' = [files EXCEPT ![rev] = NoFile]
          /\ FailSave
       \/ phase' = "written" /\ Fault /\ UNCHANGED <<files, missed>>
    /\ UNCHANGED <<memory, content, rev, oldId, saved>>

RemoveOldFile ==
    /\ phase = "written"
    /\ files' = IF oldId = 0 THEN files ELSE [files EXCEPT ![oldId] = NoFile]
    /\ phase' = "saved"
    /\ IF files[rev] = content THEN saved' = content /\ missed' = FALSE
                               ELSE missed' = TRUE /\ UNCHANGED saved
    /\ UNCHANGED <<memory, content, rev, oldId, faults>>

\* The handler that saved answers its client and returns.
EndSave ==
    /\ phase \in {"saved", "failed"}
    /\ phase' = "no" /\ oldId' = 0
    /\ \/ First.kind = "commit" /\ ni_Release(First.it) /\ ProcessRequestQueue
       \/ First.kind = "quick" /\ Return /\ UNCHANGED <<iters, readCount, writeIter>>
    /\ UNCHANGED <<sess, content, rev, files, saved, missed, faults>>

-----------------------------------------------------------------------------
ConfigInit ==
    /\ sess = [s \in Sessions |-> "closed"]
    /\ iters = [i \in Slots |-> NoIter]
    /\ readCount = 0 /\ writeIter = NoSlot
    /\ queue = <<>> /\ work = <<>>
    /\ content = Empty /\ saved = Empty
    /\ rev = 0 /\ oldId = 0 /\ phase = "no"
    /\ missed = FALSE /\ faults = 0
    /\ files = [r \in Revisions |-> NoFile]

Client(s) ==
    \/ OpenSession(s)
    \/ CloseSession(s)
    \/ \E type \in {"read", "write"} : CreateTransaction(s, type)
    \/ \E i \in Slots : le_cfg_CommitTxn(s, i) \/ le_cfg_CancelTxn(s, i)
    \/ \E v \in Vals : le_cfg_QuickSet(s, v) \/ \E i \in Slots : le_cfg_Set(s, i, v)

Handler ==
    \/ rq_HandleCreateTxnRequest \/ rq_HandleCommitTxnRequest
    \/ rq_HandleCancelTxnRequest \/ rq_HandleQuickSet
    \/ OpenFile \/ WriteFile \/ RemoveOldFile \/ EndSave

ConfigNext ==
    \/ \E s \in Sessions : Client(s)
    \/ \E i \in Slots : OnTransactionTimeout(i)
    \/ Handler
    \/ CrashRestart

ConfigSpec == ConfigInit /\ [][ConfigNext]_vars

\* The transaction in block i ends, or its timer does.
EndOfTxn(i) ==
    \/ OnTransactionTimeout(i)
    \/ Handler /\ iters[i] # NoIter /\ iters'[i] = NoIter

\* The thread of the daemon runs, and no transaction stays for ever: its timer
\* expires (le_cfg.api: after 30 s unless configured) and the event loop, even
\* when clients keep it busy, comes to the timers that have expired.
ConfigFairSpec ==
    /\ ConfigSpec
    /\ WF_vars(Handler)
    /\ \A i \in Slots : SF_vars(EndOfTxn(i))

-----------------------------------------------------------------------------
(* Properties                                                                 *)

\* A transaction that stays open, reader or writer, sees one tree: a step
\* changes the tree only for the writer that is being committed, and never
\* while a reader is there (requestQueue.c:591).
TransactionsIsolated ==
    [][\A i \in Slots :
         \/ iters[i] = NoIter \/ iters'[i] = NoIter
         \/ work # <<>> /\ First.kind = "commit" /\ First.it = i
         \/ content' = content]_vars

\* A request waits in the queue of the tree only while a transaction is open
\* whose end will look at the queue again (requestQueue.c:248).
NobodyWaitsForNothing ==
    queue # <<>> => readCount # 0 \/ writeIter # NoSlot

\* Whenever the daemon stops, in the middle of a save too, the tree that it
\* will load is the one of the last save or the one being saved, provided
\* that the last save that ended did not fail (treeDb.c:1749, 3127).
StoredTreeSurvives ==
    ~missed =>
        LoadTree(files) \in {saved} \cup IF phase = "written" THEN {content} ELSE {}

\* A client that waits is answered, unless new readers come for ever: those
\* keep a commit and a quick write in the queue.
RequestsServed ==
    \A s \in Sessions :
        []<><<readCount' > readCount>>_vars \/ (Waiting(s) ~> ~Waiting(s))

\* requestQueue.c:506: "Any active requests for that session are automatically
\* canceled."  Only the iterators of the session are deleted; its requests
\* stay in the queue.
RequestsOfClosedSessionsCancelled ==
    Idle => \A e \in Elements(queue) : sess[e.by] = "open"

=============================================================================
