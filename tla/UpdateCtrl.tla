----------------------------- MODULE UpdateCtrl -----------------------------
(***************************************************************************)
(* The probation and defer control of the Update Daemon                    *)
(* (framework/daemons/linux/updateDaemon/updateCtrl.c), with the probation *)
(* timer of updateDaemon.c and the status file of the current system       *)
(* (framework/liblegato/linux/sysStatus.c).                                *)
(*                                                                         *)
(* A system starts its life "on probation".  It is marked "good" when the  *)
(* probation timer expires, or earlier by le_updateCtrl_MarkGood();        *)
(* clients can lock the probation period open, fail it (which rolls back   *)
(* to the last good system), and defer updates and roll-backs.             *)
(*                                                                         *)
(* The daemon is a single-threaded event loop, so every API call and every *)
(* timer expiry is one action.  LE_FATAL ends the process; the Supervisor  *)
(* then reboots and the start program chooses the system to run (Boot).    *)
(* The update session of updateDaemon.c is only visible here as the        *)
(* question whether it is idle; module UpdateDaemon adds it.               *)
(***************************************************************************)
EXTENDS Integers, FiniteSets, FiniteSetsExt

CONSTANTS
    Clients,    \* client processes (PIDs) of the le_updateCtrl service
    MaxCount    \* bound: locks and defers one client may hold at a time

ASSUME ClientsAssumption == IsFiniteSet(Clients)
ASSUME MaxCountAssumption == MaxCount \in Nat \ {0}

VARIABLES
    daemon,     \* the daemon process: "running" or "dead"
    status,     \* contents of the current system's "status" file
    others,     \* what there is besides the current system: an older "good"
                \* system, an untried "new" one, and in an "unpack" directory
                \* the update of the session in progress
    timer,      \* the probation timer: "running" or "stopped"
    locks,      \* ClientLockCountObj_t.LockProbationCount of each client
    defers,     \* ClientLockCountObj_t.DeferCount of each client
    AggregateProbationLockCount,
    AggregateDeferCount,
    ProbationExpiryCallback,    \* NULL or updateDaemon_MarkGood
    DeferredFailCallback        \* NULL or BeginRollBack

disk == <<status, others>>
counts == <<locks, defers, AggregateProbationLockCount, AggregateDeferCount>>
callbacks == <<ProbationExpiryCallback, DeferredFailCallback>>
ctrlVars == <<daemon, disk, timer, counts, callbacks>>

-----------------------------------------------------------------------------
(* The status file.  No file means untried; the number in "tried N" is      *)
(* only read by the start program.                                          *)

StatusValues == {"untried", "tried", "good", "bad"}

Up == daemon = "running"

ExpiryPending == ProbationExpiryCallback # "NULL"
FailPending == DeferredFailCallback # "NULL"

SYS_PROBATION == status \in {"untried", "tried"}

\* LE_FATAL: the process dies on the spot; what it had written stays.
Fatal == daemon' = "dead"

\* sysStatus_Status() when the current system is "bad".
StatusFatal ==
    /\ status = "bad"
    /\ Fatal
    /\ UNCHANGED <<disk, timer, counts, callbacks>>

IsClientDeferring(c) == defers[c] > 0
IsClientProbationLocked(c) == locks[c] > 0

IncrementProbationLocks(c) ==
    /\ locks' = [locks EXCEPT ![c] = @ + 1]
    /\ AggregateProbationLockCount' = AggregateProbationLockCount + 1
    /\ UNCHANGED <<defers, AggregateDeferCount>>

\* For a client with a lock; another one is killed.
DecrementProbationLocks(c) ==
    /\ locks' = [locks EXCEPT ![c] = @ - 1]
    /\ AggregateProbationLockCount' = AggregateProbationLockCount - 1
    /\ UNCHANGED <<defers, AggregateDeferCount>>

IncrementDefers(c) ==
    /\ defers' = [defers EXCEPT ![c] = @ + 1]
    /\ AggregateDeferCount' = AggregateDeferCount + 1
    /\ UNCHANGED <<locks, AggregateProbationLockCount>>

\* For a client with a defer; another one is killed.
DecrementDefers(c) ==
    /\ defers' = [defers EXCEPT ![c] = @ - 1]
    /\ AggregateDeferCount' = AggregateDeferCount - 1
    /\ UNCHANGED <<locks, AggregateProbationLockCount>>

updateCtrl_HasDefers == AggregateDeferCount > 0
updateCtrl_IsProbationLocked == AggregateProbationLockCount > 0

\* le_timer_Start(), or le_timer_Restart() when it is running already.
StartProbation == timer' = "running"

\* What system_RemoveUnneeded() leaves: nothing when the current system is
\* good, the good system otherwise.
system_RemoveUnneeded == IF status = "good" THEN {} ELSE others \intersect {"good"}

\* Stop the timer, mark good, and let system_RemoveUnneeded() and
\* system_RemoveUnusedApps() delete everything but the current system.
updateDaemon_MarkGood ==
    /\ timer' = "stopped"
    /\ status' = "good"
    /\ others' = {}

\* Mutant of the next definition: the copy is not made.
MutSnapshotSkipped(dirs) == dirs

\* A "good" current system is copied before it is changed.
system_Snapshot(dirs) == IF status = "good" THEN dirs \union {"good"} ELSE dirs

\* Mutant of the next definition: the defers of a dead client stay counted.
MutDefersKept(c) ==
    IF locks[c] # 0
    THEN Fatal /\ UNCHANGED counts
    ELSE /\ UNCHANGED daemon
         /\ defers' = [defers EXCEPT ![c] = 0]
         /\ UNCHANGED <<AggregateDeferCount, locks, AggregateProbationLockCount>>

\* What closing a session does to the client's counts: dying with probation
\* locks is fatal, defers are given back.  LE_KILL_CLIENT closes the session
\* synchronously, so this is also what the offending call does.
FreeDeadClientLockObjs(c) ==
    IF locks[c] # 0
    THEN /\ Fatal
         /\ UNCHANGED counts
    ELSE /\ UNCHANGED daemon
         /\ AggregateDeferCount' = AggregateDeferCount - defers[c]
         /\ defers' = [defers EXCEPT ![c] = 0]
         /\ UNCHANGED <<locks, AggregateProbationLockCount>>

-----------------------------------------------------------------------------
CtrlInit ==
    /\ daemon = "running"
    /\ status = "good"
    /\ others = {}
    /\ timer = "stopped"
    /\ locks = [c \in Clients |-> 0]
    /\ defers = [c \in Clients |-> 0]
    /\ AggregateProbationLockCount = 0
    /\ AggregateDeferCount = 0
    /\ ProbationExpiryCallback = "NULL"
    /\ DeferredFailCallback = "NULL"

le_updateCtrl_Defer(c) ==
    /\ Up
    /\ defers[c] < MaxCount                     \* bound of the model
    /\ IncrementDefers(c)
    /\ UNCHANGED <<daemon, disk, timer, callbacks>>

\* After the last defer, the deferred roll-back.  The client that allows more
\* often than it deferred is killed.
le_updateCtrl_Allow(c) ==
    /\ Up
    /\ UNCHANGED <<disk, timer, callbacks>>
    /\ IF IsClientDeferring(c)
       THEN /\ DecrementDefers(c)
            /\ IF AggregateDeferCount' <= 0 /\ FailPending
               THEN Fatal
               ELSE UNCHANGED daemon
       ELSE IF ~updateCtrl_HasDefers /\ FailPending
            THEN Fatal /\ UNCHANGED counts
            ELSE FreeDeadClientLockObjs(c)

le_updateCtrl_LockProbation(c) ==
    /\ Up
    /\ locks[c] < MaxCount                      \* bound of the model
    /\ \/ StatusFatal
       \/ /\ SYS_PROBATION
          /\ IncrementProbationLocks(c)
          /\ UNCHANGED <<daemon, disk, timer, callbacks>>

\* After the last lock, the pending end of probation.
le_updateCtrl_UnlockProbation(c) ==
    /\ Up
    /\ IF IsClientProbationLocked(c)
       THEN /\ DecrementProbationLocks(c)
            /\ UNCHANGED <<daemon, DeferredFailCallback>>
            /\ IF AggregateProbationLockCount' <= 0 /\ ExpiryPending
               THEN updateDaemon_MarkGood /\ ProbationExpiryCallback' = "NULL"
               ELSE UNCHANGED <<disk, timer, ProbationExpiryCallback>>
       ELSE /\ FreeDeadClientLockObjs(c)
            /\ UNCHANGED DeferredFailCallback
            /\ IF ~updateCtrl_IsProbationLocked /\ ExpiryPending
               THEN updateDaemon_MarkGood /\ ProbationExpiryCallback' = "NULL"
               ELSE UNCHANGED <<disk, timer, ProbationExpiryCallback>>

le_updateCtrl_MarkGood(force) ==
    /\ Up
    /\ \/ StatusFatal
       \/ /\ SYS_PROBATION
          /\ ~updateCtrl_IsProbationLocked \/ force
          /\ updateDaemon_MarkGood
          /\ UNCHANGED <<daemon, counts, callbacks>>

le_updateCtrl_FailProbation ==
    /\ Up
    /\ \/ StatusFatal
       \/ /\ SYS_PROBATION
          /\ status' = "bad"
          /\ UNCHANGED <<others, timer, counts, ProbationExpiryCallback>>
          /\ IF updateCtrl_HasDefers
             THEN DeferredFailCallback' = "BeginRollBack" /\ UNCHANGED daemon
             ELSE Fatal /\ UNCHANGED DeferredFailCallback

\* A client that neither defers nor holds a lock is killed; then the status
\* is read, which is fatal on a "bad" system.
le_updateCtrl_GetSystemState(c) ==
    /\ Up
    /\ \/ StatusFatal
       \/ /\ status # "bad"
          /\ ~IsClientDeferring(c) /\ ~IsClientProbationLocked(c)
          /\ FreeDeadClientLockObjs(c)
          /\ UNCHANGED <<disk, timer, callbacks>>

\* The session of a client closes: the client has exited, crashed or closed it.
SessionClosed(c) ==
    /\ Up
    /\ FreeDeadClientLockObjs(c)
    /\ UNCHANGED <<disk, timer, callbacks>>

\* Mutants of the expiry handler: it does not look at the probation locks; it
\* does not leave the callback behind when probation is locked.
MutExpiryIgnoresLocks(idle) ==
    /\ Up
    /\ timer = "running"
    /\ UNCHANGED <<daemon, counts, callbacks>>
    /\ IF ~idle
       THEN StartProbation /\ UNCHANGED disk
       ELSE updateDaemon_MarkGood

MutExpiryForgotten(idle) ==
    /\ Up
    /\ timer = "running"
    /\ UNCHANGED <<daemon, counts, callbacks>>
    /\ IF ~idle
       THEN StartProbation /\ UNCHANGED disk
       ELSE IF ~updateCtrl_IsProbationLocked
       THEN updateDaemon_MarkGood
       ELSE timer' = "stopped" /\ UNCHANGED disk

\* The probation timer expires.  idle: no update session is open.
HandleProbationExpiry(idle) ==
    /\ Up
    /\ timer = "running"
    /\ UNCHANGED <<daemon, counts, DeferredFailCallback>>
    /\ IF ~idle
       THEN StartProbation /\ UNCHANGED <<disk, ProbationExpiryCallback>>
       ELSE IF ~updateCtrl_IsProbationLocked
       THEN updateDaemon_MarkGood /\ UNCHANGED ProbationExpiryCallback
       ELSE /\ ProbationExpiryCallback' = "updateDaemon_MarkGood"
            /\ timer' = "stopped"
            /\ UNCHANGED disk

-----------------------------------------------------------------------------
(* What the rest of the system does to this state.                          *)

\* An update pack turns out to be an app or a system update, or an app is about
\* to be removed: space is made, and a directory to unpack into if needed.
MakeSpace(dirs) ==
    /\ Up
    /\ \/ StatusFatal
       \/ /\ status # "bad"
          /\ others' = system_RemoveUnneeded \union dirs
          /\ UNCHANGED <<daemon, status, timer, counts, callbacks>>

\* An app is installed in, or removed from, the running system
\* (app_InstallIndividual, app_RemoveIndividual).  system_Snapshot() first
\* keeps a copy of a "good" current system.  The system is "untried", then "bad"
\* while it is being changed, and "tried 1" afterwards.  Module AppInstall has
\* the single steps.
\*   done   the change succeeds and a new probation period starts
\*   failed a step fails: the caller reports it, the status stays "bad"
\*   crash  the machine or the daemon goes down on the way
AppChange(dirs, outcome) ==
    /\ Up
    /\ UNCHANGED <<counts, callbacks>>
    /\ \/ status = "bad" /\ Fatal /\ UNCHANGED <<disk, timer>>
       \/ /\ status # "bad"
          /\ others' = system_Snapshot(dirs) \ {"unpack"}
          /\ \/ /\ outcome = "done"
                /\ status' = "tried"
                /\ StartProbation
                /\ UNCHANGED daemon
             \/ /\ outcome = "failed"
                /\ status' = "bad"
                /\ UNCHANGED <<daemon, timer>>
             \/ /\ outcome = "crash"
                /\ status' \in {status, "untried", "bad", "tried"}
                /\ Fatal
                /\ UNCHANGED timer

\* A system update is finished (system_FinishUpdate) and the Supervisor
\* restarts the framework; the daemon is blocked in that request until it is
\* terminated.
SystemUpdate ==
    /\ Up
    /\ others' = (others \ {"unpack"}) \union {"new"}
    /\ Fatal
    /\ UNCHANGED <<status, timer, counts, callbacks>>

\* Power loss, a reset, or any other death of the daemon or the Supervisor.
Crash ==
    /\ Up
    /\ Fatal
    /\ UNCHANGED <<disk, timer, counts, callbacks>>

\* The start program chooses a system, then the daemon initialises.
\*   An untried newer system is tried.  A "bad" system is rolled back: the
\*   last good one (or the golden one) runs.  A system on probation is tried
\*   again, or given up when it was tried too often.  app_FinishUpdates() leaves
\*   a system on probation as it was, or dies, and the system is given up at the
\*   next start; module AppInstall has what it does to a good one.
Boot ==
    /\ ~Up
    /\ daemon' = "running"
    /\ \/ /\ "new" \in others
          /\ status' = "tried"
          /\ others' = system_Snapshot(others) \ {"new", "unpack"}
       \/ /\ "new" \notin others
          /\ status = "good"
          /\ UNCHANGED status
          /\ others' = others \ {"unpack"}
       \/ /\ "new" \notin others
          /\ SYS_PROBATION
          /\ status' = "tried"
          /\ others' = others \ {"unpack"}
       \/ /\ "new" \notin others
          /\ status # "good"
          /\ status' = "good"
          /\ others' = {}
    /\ timer' = IF status' = "good" THEN "stopped" ELSE "running"
    /\ locks' = [c \in Clients |-> 0]
    /\ defers' = [c \in Clients |-> 0]
    /\ AggregateProbationLockCount' = 0
    /\ AggregateDeferCount' = 0
    /\ ProbationExpiryCallback' = "NULL"
    /\ DeferredFailCallback' = "NULL"

ClientCall(c) ==
    \/ le_updateCtrl_Defer(c)
    \/ le_updateCtrl_Allow(c)
    \/ le_updateCtrl_LockProbation(c)
    \/ le_updateCtrl_UnlockProbation(c)
    \/ le_updateCtrl_GetSystemState(c)
    \/ SessionClosed(c)

CtrlNext ==
    \/ \E c \in Clients : ClientCall(c)
    \/ \E force \in BOOLEAN : le_updateCtrl_MarkGood(force)
    \/ le_updateCtrl_FailProbation
    \/ \E idle \in BOOLEAN : HandleProbationExpiry(idle)
    \/ \E dirs \in SUBSET {"unpack"} : MakeSpace(dirs)
    \/ \E dirs \in {others, system_RemoveUnneeded},
          outcome \in {"done", "failed", "crash"} : AppChange(dirs, outcome)
    \/ SystemUpdate
    \/ Crash
    \/ Boot

CtrlSpec == CtrlInit /\ [][CtrlNext]_ctrlVars

-----------------------------------------------------------------------------
(* Properties.                                                              *)

\* Every variable has its type.
CtrlTypeOK ==
    /\ daemon \in {"running", "dead"}
    /\ status \in StatusValues
    /\ others \subseteq {"good", "new", "unpack"}
    /\ timer \in {"running", "stopped"}
    /\ locks \in [Clients -> 0..MaxCount]
    /\ defers \in [Clients -> 0..MaxCount]
    /\ AggregateProbationLockCount \in Int
    /\ AggregateDeferCount \in Int
    /\ ProbationExpiryCallback \in {"NULL", "updateDaemon_MarkGood"}
    /\ DeferredFailCallback \in {"NULL", "BeginRollBack"}

\* The cached totals are the sums of the clients' counts, whatever clients do
\* and in whatever order they die (updateCtrl.c:15-17).
AggregatesMatch ==
    /\ AggregateProbationLockCount = MapThenSumSet(LAMBDA c : locks[c], Clients)
    /\ AggregateDeferCount = MapThenSumSet(LAMBDA c : defers[c], Clients)

\* As long as the current system is not known to be good there is a good one
\* to roll back to: nothing that is done during probation (another app change,
\* a failed one, a system update, a crash between any two of these) ever
\* deletes the last good system.  The one exception, an interrupted upgrade that
\* app_FinishUpdates() finishes again in a good system, is in module AppInstall.
RollbackTargetKept == status # "good" => "good" \in others

\* Probation cannot hang: while the daemon runs a system on probation, either
\* its timer is running or the end of probation waits for the last unlock.
ProbationWillEnd == Up /\ SYS_PROBATION => timer = "running" \/ ExpiryPending

\* The end of probation waits for an unlock only while there is a lock left to
\* be unlocked, so the wake-up is not lost.
ExpiryWaitsForALock ==
    Up /\ ExpiryPending => updateCtrl_IsProbationLocked

\* A step of the running daemon that marks the system good leaves no probation
\* lock, unless it is le_updateCtrl_MarkGood(force).
LockHoldsProbation ==
    [][Up /\ Up' /\ status # "good" /\ status' = "good"
        => AggregateProbationLockCount' = 0 \/ le_updateCtrl_MarkGood(TRUE)]_ctrlVars

\* le_updateCtrl.api, FailProbation: it "Marks the system "bad" and triggers a
\* roll-back to a "good" system", possibly delayed by defers.  So a system whose
\* roll-back is pending is never marked "good" by the running daemon.
FailedStaysFailed == [][Up /\ Up' /\ FailPending => status' # "good"]_ctrlVars

\* updateCtrl.c:29-30: "When the defer is lifted we will call back to let the
\* fail proceed."  So a deferred roll-back is pending only while there are
\* defers.
DeferredFailProceeds == Up /\ FailPending => updateCtrl_HasDefers
=============================================================================
