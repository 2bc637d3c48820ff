-------------------------------- MODULE Start --------------------------------
(***************************************************************************)
(* The start program (framework/daemons/linux/start/start.c): it chooses   *)
(* the system to run, installs the golden one when there is none, counts   *)
(* the tries of a new system and the boots of a good one, and launches the *)
(* Supervisor.  The systems live in directories of /legato/systems named   *)
(* "current" and after their index; the Update Daemon (system.c,           *)
(* sysStatus.c) and the Supervisor change them while a system runs.        *)
(*                                                                         *)
(* The power may fail between any two changes of the disk, and in the      *)
(* middle of a recursive deletion.  A status, index or boot count file is  *)
(* replaced as a whole, and what was written stays written.                *)
(***************************************************************************)
EXTENDS Integers, FiniteSets, FiniteSetsExt

CONSTANTS
    MAX_TRIES,      \* tries of a new system, boots in a row of a good one
    MaxIndex        \* bound: the highest index a system is given

ASSUME MaxTriesAssumption == MAX_TRIES \in Nat \ {0}
ASSUME MaxIndexAssumption == MaxIndex \in Nat \ {0}

VARIABLES
    dirs,           \* what is in /legato/systems, by directory
    bootCount,      \* BOOT_COUNT_PATH; 0 when there is no such file
    installed,      \* is /legato/mntLegatoVersion the version of /mnt/legato?
    pc,             \* the next step of the start program or the Update Daemon
    lastExitCode,   \* how the Supervisor ended, static in Launch()
    newestIndex,    \* local variables of CheckAndInstallCurrentSystem()
    currentIndex

locals == <<newestIndex, currentIndex>>
startVars == <<dirs, bootCount, installed, pc, lastExitCode, locals>>

-----------------------------------------------------------------------------
(* Directories.  A system without an index file counts as no system.        *)
(* "tried" with 0 tries stands for "no status file": the system is untried. *)

current == -1
Saved == 0 .. MaxIndex
Dirs == {current} \union Saved

System == [index : Dirs, status : {"good", "bad", "tried"}, tries : 0 .. MAX_TRIES,
           golden : {"yes", "no"}]

NoSystem == [index |-> -1, status |-> "tried", tries |-> 0, golden |-> "no"]

Golden(i) == [index |-> i, status |-> "good", tries |-> 0, golden |-> "yes"]

Present(d) == dirs[d].index # -1

GetStatus(s) ==
    IF s.status = "good" THEN "GOOD"
    ELSE IF s.status = "tried" /\ s.tries < MAX_TRIES THEN "TRYABLE"
    ELSE "BAD"

\* Mutant: the bad systems are not skipped.
MutBadIncluded == Max({-1} \union {dirs[d].index : d \in Dirs})

FindNewestSystemIndex ==
    Max({-1} \union {dirs[d].index : d \in {e \in Dirs : GetStatus(dirs[e]) # "BAD"}})

ShouldInstallGolden(newest) == newest = -1 \/ installed = "no"

IsCurrentSystemGolden == dirs[current].golden = "yes"

\* Too long since the last boot: not a boot loop.
ReadBootCount == {0, bootCount}

\* What is left of a system when its deletion is interrupted: the status or
\* the index file may be gone already.
Leftovers(s) ==
    {s, [s EXCEPT !.status = "tried", !.tries = 0], NoSystem}

\* A directory is renamed; what had the new name is deleted first.
Rename(from, to) == [dirs EXCEPT ![from] = NoSystem, ![to] = dirs[from]]

RecursiveDelete(d) == [dirs EXCEPT ![d] = NoSystem]

SetStatus(status, tries) ==
    [dirs EXCEPT ![current].status = status, ![current].tries = tries]

GoTo(p) == pc' = p

-----------------------------------------------------------------------------
(* The start program.                                                       *)

StartInit ==
    /\ dirs = [d \in Dirs |-> NoSystem]
    /\ bootCount = 0
    /\ installed = "no"
    /\ pc = "off"
    /\ lastExitCode = "FAILURE"
    /\ newestIndex = -1
    /\ currentIndex = -1

\* The device boots, or the start program is started again.
PowerOn ==
    /\ pc \in {"off", "stopped"}
    /\ GoTo("check")
    /\ lastExitCode' = "FAILURE"
    /\ UNCHANGED <<dirs, bootCount, installed, locals>>

BootLoop(newest, boots) ==
    /\ newest = dirs[current].index
    /\ GetStatus(dirs[current]) = "GOOD"
    /\ boots >= MAX_TRIES

\* CheckAndInstallCurrentSystem() up to the first change of the systems.
CheckCurrentSystem ==
    LET newest == FindNewestSystemIndex IN
    /\ pc = "check"
    /\ newestIndex' = newest
    /\ currentIndex' = dirs[current].index
    /\ UNCHANGED <<dirs, installed, lastExitCode>>
    /\ \E boots \in ReadBootCount :
        \/ /\ BootLoop(newest, boots)
           /\ IsCurrentSystemGolden
           /\ bootCount' = 0
           /\ GoTo("stopped")
        \/ /\ BootLoop(newest, boots)
           /\ ~IsCurrentSystemGolden
           /\ newest < MaxIndex                 \* bound of the model
           /\ UNCHANGED bootCount
           /\ GoTo("clear golden index")
        \/ /\ ~BootLoop(newest, boots)
           /\ UNCHANGED bootCount
           /\ \/ /\ ShouldInstallGolden(newest)
                 /\ newest < MaxIndex           \* bound of the model
                 /\ GoTo("clear golden index")
              \/ /\ ~ShouldInstallGolden(newest)
                 /\ newest # dirs[current].index
                 /\ GoTo(IF Present(current) THEN "move current" ELSE "set current")
              \/ /\ ~ShouldInstallGolden(newest)
                 /\ newest = dirs[current].index
                 /\ GoTo("launch")

\* InstallGolden(): nothing may be in the way of the new index.
ClearGoldenIndex ==
    /\ pc = "clear golden index"
    /\ dirs' = RecursiveDelete(newestIndex + 1)
    /\ GoTo(IF currentIndex > -1 THEN "park current" ELSE "install golden")
    /\ UNCHANGED <<bootCount, installed, lastExitCode, locals>>

ParkCurrent ==
    /\ pc = "park current"
    /\ dirs' = Rename(current, currentIndex)
    /\ GoTo("install golden")
    /\ UNCHANGED <<bootCount, installed, lastExitCode, locals>>

\* The golden system is built in "unpack", with its apps and the old
\* configuration, and renamed to "current".
InstallGolden ==
    /\ pc = "install golden"
    /\ dirs' = [dirs EXCEPT ![current] = Golden(newestIndex + 1)]
    /\ GoTo("delete others")
    /\ UNCHANGED <<bootCount, installed, lastExitCode, locals>>

DeleteAllButCurrent ==
    /\ pc = "delete others"
    /\ \/ /\ \E d \in {e \in Saved : Present(e)} : dirs' = RecursiveDelete(d)
          /\ UNCHANGED pc
       \/ /\ \A d \in Saved : ~Present(d)
          /\ UNCHANGED dirs
          /\ GoTo("forget boots")
    /\ UNCHANGED <<bootCount, installed, lastExitCode, locals>>

ForgetBoots ==
    /\ pc = "forget boots"
    /\ bootCount' = 0
    /\ GoTo("mark installed")
    /\ UNCHANGED <<dirs, installed, lastExitCode, locals>>

MarkGoldenInstallComplete ==
    /\ pc = "mark installed"
    /\ installed' = "yes"
    /\ GoTo("launch")
    /\ UNCHANGED <<dirs, bootCount, lastExitCode, locals>>

\* The current system makes place for a newer one, or for the one before it
\* when it is bad.  Only a good one is kept.
MoveCurrent ==
    /\ pc = "move current"
    /\ dirs' = Rename(current, currentIndex)
    /\ GoTo(IF GetStatus(dirs[current]) = "GOOD" THEN "set current" ELSE "delete parked")
    /\ UNCHANGED <<bootCount, installed, lastExitCode, locals>>

DeleteParked ==
    /\ pc = "delete parked"
    /\ dirs' = RecursiveDelete(currentIndex)
    /\ GoTo("set current")
    /\ UNCHANGED <<bootCount, installed, lastExitCode, locals>>

SetCurrent ==
    /\ pc = "set current"
    /\ dirs' = Rename(newestIndex, current)
    /\ GoTo("launch")
    /\ UNCHANGED <<bootCount, installed, lastExitCode, locals>>

\* Launch() of a system that is there and not bad; any other would be fatal
\* (see LaunchIsPossible).  "legato restart" counts no try, except the first.
Launch ==
    /\ pc = "launch"
    /\ Present(current)
    /\ \/ /\ GetStatus(dirs[current]) = "TRYABLE"
          /\ dirs' = IF lastExitCode # "MANUAL_RESTART" \/ dirs[current].tries = 0
                     THEN SetStatus("tried", dirs[current].tries + 1)
                     ELSE dirs
       \/ /\ GetStatus(dirs[current]) = "GOOD"
          /\ UNCHANGED dirs
    /\ GoTo("count boot")
    /\ UNCHANGED <<bootCount, installed, lastExitCode, locals>>

\* Only "less than MAX_TRIES or not" is ever asked of the count.
UpToMaxTries(n) == IF n < MAX_TRIES THEN n ELSE MAX_TRIES

\* Mutant: the count is written back as it was read.
MutCountNotRaised ==
    /\ pc = "count boot"
    /\ \E boots \in ReadBootCount : bootCount' = boots
    /\ GoTo("running")
    /\ UNCHANGED <<dirs, installed, lastExitCode, locals>>

CountBoot ==
    /\ pc = "count boot"
    /\ IF lastExitCode # "MANUAL_RESTART"
       THEN \E boots \in ReadBootCount : bootCount' = UpToMaxTries(boots + 1)
       ELSE UNCHANGED bootCount
    /\ GoTo("running")
    /\ UNCHANGED <<dirs, installed, lastExitCode, locals>>

-----------------------------------------------------------------------------
(* What the Supervisor and the Update Daemon do while a system runs.  After *)
(* "remove unneeded" the daemon is "prepared": it may go on to an update.   *)

Running == pc \in {"running", "prepared"}
Probation == dirs[current].status = "tried"

\* The system has run long enough, or a reboot was announced.
HandleRebootExpiry ==
    /\ Running
    /\ bootCount' = 0
    /\ UNCHANGED <<dirs, installed, pc, lastExitCode, locals>>

\* The Supervisor fails and the start program reboots the device.
SupervisorFails ==
    /\ Running \/ pc = "restarting"
    /\ GoTo("off")
    /\ UNCHANGED <<dirs, bootCount, installed, lastExitCode, locals>>

\* A stop on purpose takes back the last try.
sysStatus_DecrementTryCount ==
    IF Probation
    THEN SetStatus("tried", IF dirs[current].tries <= 1 THEN 0 ELSE dirs[current].tries - 1)
    ELSE dirs

\* A controlled stop.  On a bad system sysStatus_DecrementTryCount() is fatal,
\* which is SupervisorFails.
StopSupervisor ==
    /\ Running \/ pc = "restarting"
    /\ dirs[current].status # "bad"
    /\ dirs' = sysStatus_DecrementTryCount
    /\ \/ /\ lastExitCode' \in IF Running THEN {"RESTART", "MANUAL_RESTART"} ELSE {"RESTART"}
          /\ GoTo("check")
          /\ UNCHANGED bootCount
       \/ /\ Running
          /\ UNCHANGED lastExitCode
          /\ GoTo("stopped")
          /\ \/ UNCHANGED bootCount
             \/ bootCount' = 0
    /\ UNCHANGED <<installed, locals>>

\* updateDaemon_MarkGood(), when the probation period ends.
MarkGood ==
    /\ Running
    /\ Probation
    /\ dirs' = SetStatus("good", 0)
    /\ GoTo("remove unneeded")
    /\ UNCHANGED <<bootCount, installed, lastExitCode, locals>>

\* le_updateCtrl_FailProbation().
FailProbation ==
    /\ Running
    /\ Probation
    /\ dirs' = SetStatus("bad", 0)
    /\ UNCHANGED <<bootCount, installed, pc, lastExitCode, locals>>

\* app_FinishUpdates() when the daemon starts: an app upgrade that was interrupted
\* in a system on probation is finished.  The system is bad until that is done,
\* and stays so when it fails, which is fatal.  Module AppInstall has the other
\* cases: a removal, and an upgrade that is finished again in a good system,
\* which may leave no good system (SnapshotIsThere).
FinishUpdates ==
    /\ pc = "running"
    /\ Probation
    /\ dirs' = SetStatus("bad", 0)
    /\ GoTo("finishing")
    /\ UNCHANGED <<bootCount, installed, lastExitCode, locals>>

FinishedUpdates ==
    /\ pc = "finishing"
    /\ dirs' = SetStatus("tried", 1)
    /\ GoTo("running")
    /\ UNCHANGED <<bootCount, installed, lastExitCode, locals>>

\* An update begins.
BeginUpdate ==
    /\ Running
    /\ dirs[current].status # "bad"
    /\ GoTo("remove unneeded")
    /\ UNCHANGED <<dirs, bootCount, installed, lastExitCode, locals>>

\* Mutants: the good system is deleted as well; bad and untried ones are kept.
MutRemoveAll == {d \in Saved : Present(d)}
MutKeepUntried == {d \in Saved : Present(d) /\ dirs[current].status = "good"}

\* Everything but the current system when that is good; otherwise everything
\* but the current and the good ones.
Unneeded ==
    {d \in Saved : Present(d) /\ (dirs[current].status = "good" \/ dirs[d].status # "good")}

system_RemoveUnneeded ==
    /\ pc = "remove unneeded"
    /\ \/ /\ \E d \in Unneeded : dirs' = RecursiveDelete(d)
          /\ UNCHANGED pc
       \/ /\ Unneeded = {}
          /\ UNCHANGED dirs
          /\ GoTo("prepared")
    /\ UNCHANGED <<bootCount, installed, lastExitCode, locals>>

Room == dirs[current].index + 2 <= MaxIndex     \* bound of the model

\* A system update: the new system is renamed from "unpack" to its index.
system_FinishUpdate ==
    /\ pc = "prepared"
    /\ Room
    /\ dirs' = [dirs EXCEPT ![dirs[current].index + 1] =
                   [index |-> dirs[current].index + 1, status |-> "tried", tries |-> 0,
                    golden |-> "no"]]
    /\ GoTo("restarting")
    /\ UNCHANGED <<bootCount, installed, lastExitCode, locals>>

\* Mutant: the copy is saved under the index that the current system gets.
MutSnapshotNextIndex ==
    /\ pc = "prepared"
    /\ Room
    /\ dirs[current].status # "bad"
    /\ dirs' = IF dirs[current].status = "good"
               THEN [dirs EXCEPT ![dirs[current].index + 1] = dirs[current]]
               ELSE dirs
    /\ GoTo("reindex")
    /\ UNCHANGED <<bootCount, installed, lastExitCode, locals>>

\* An app is installed, upgraded or removed.  A good system is first copied to
\* "unpack", and that is renamed to the current index.
system_Snapshot ==
    /\ pc = "prepared"
    /\ Room
    /\ dirs[current].status # "bad"
    /\ dirs' = IF dirs[current].status = "good"
               THEN [dirs EXCEPT ![dirs[current].index] = dirs[current]]
               ELSE dirs
    /\ GoTo("reindex")
    /\ UNCHANGED <<bootCount, installed, lastExitCode, locals>>

Reindex ==
    /\ pc = "reindex"
    /\ dirs' = [dirs EXCEPT ![current].index = @ + 1]
    /\ GoTo("modify")
    /\ UNCHANGED <<bootCount, installed, lastExitCode, locals>>

\* system_MarkModified() makes a system untried the first time it is changed,
\* sysStatus_SetUntried() one of which an app is upgraded or removed.
system_MarkModified ==
    /\ pc = "modify"
    /\ \/ dirs' = [SetStatus("tried", 0) EXCEPT ![current].golden = "no"]
       \/ dirs[current].golden = "no" /\ UNCHANGED dirs
    /\ GoTo("mark bad")
    /\ UNCHANGED <<bootCount, installed, lastExitCode, locals>>

MarkBad ==
    /\ pc = "mark bad"
    /\ dirs' = SetStatus("bad", 0)
    /\ GoTo("change")
    /\ UNCHANGED <<bootCount, installed, lastExitCode, locals>>

\* The change succeeds, or a step of it fails and the system stays bad.
Change ==
    /\ pc = "change"
    /\ dirs' \in {SetStatus("tried", 1), dirs}
    /\ GoTo("prepared")
    /\ UNCHANGED <<bootCount, installed, lastExitCode, locals>>

-----------------------------------------------------------------------------
\* The directories a deletion is about to empty.
Doomed ==
    {d \in Dirs :
        \/ pc = "clear golden index" /\ d = newestIndex + 1
        \/ pc \in {"park current", "move current", "delete parked"} /\ d = currentIndex
        \/ pc = "delete others" /\ d # current
        \/ pc = "remove unneeded" /\ d \in Unneeded}

\* The power fails, or LE_FATAL ends the process and the device reboots.
Crash ==
    /\ ~Running /\ pc \notin {"off", "stopped", "restarting"}
    /\ pc \in {"delete others", "forget boots", "mark installed"}
        => dirs[current].index < MaxIndex       \* bound: golden is installed again
    /\ \/ UNCHANGED dirs
       \/ \E d \in Doomed : \E rest \in Leftovers(dirs[d]) :
            Present(d) /\ dirs' = [dirs EXCEPT ![d] = rest]
    /\ GoTo("off")
    /\ UNCHANGED <<bootCount, installed, lastExitCode, locals>>

\* A new golden image is written to /mnt/legato.
NewGolden ==
    /\ pc = "off"
    /\ installed = "yes"
    /\ FindNewestSystemIndex + 2 <= MaxIndex    \* bound of the model
    /\ installed' = "no"
    /\ dirs' = [d \in Dirs |-> [dirs[d] EXCEPT !.golden = "no"]]
    /\ UNCHANGED <<bootCount, pc, lastExitCode, locals>>

StartStep ==
    \/ CheckCurrentSystem \/ ClearGoldenIndex \/ ParkCurrent \/ InstallGolden
    \/ DeleteAllButCurrent \/ ForgetBoots \/ MarkGoldenInstallComplete
    \/ MoveCurrent \/ DeleteParked \/ SetCurrent \/ Launch \/ CountBoot

UpdateStep ==
    \/ MarkGood \/ FailProbation \/ FinishUpdates \/ FinishedUpdates
    \/ BeginUpdate \/ system_RemoveUnneeded
    \/ system_FinishUpdate \/ system_Snapshot \/ Reindex \/ system_MarkModified
    \/ MarkBad \/ Change

StartNext ==
    \/ PowerOn \/ StartStep
    \/ HandleRebootExpiry \/ SupervisorFails \/ StopSupervisor
    \/ UpdateStep
    \/ Crash \/ NewGolden

StartSpec == StartInit /\ [][StartNext]_startVars

-----------------------------------------------------------------------------
\* Every variable has its type; in particular, no system is launched more than
\* MAX_TRIES times on probation.
StartType ==
    /\ dirs \in [Dirs -> System]
    /\ bootCount \in 0 .. MAX_TRIES
    /\ installed \in {"yes", "no"}
    /\ pc \in {"off", "stopped", "check", "clear golden index", "park current",
               "install golden", "delete others", "forget boots", "mark installed",
               "move current", "delete parked", "set current", "launch", "count boot",
               "running", "prepared", "restarting", "remove unneeded", "reindex",
               "modify", "mark bad", "change", "finishing"}
    /\ lastExitCode \in {"FAILURE", "RESTART", "MANUAL_RESTART"}
    /\ newestIndex \in Dirs
    /\ currentIndex \in Dirs

Good(d) == Present(d) /\ dirs[d].status = "good"

\* Where there is any system there is a good one, wherever the power fails: in
\* the middle of a deletion, of a snapshot, of a change of the running system,
\* or of the installation of a golden one.  (For the exception see FinishUpdates.)
GoodSystemKept == (\E d \in Dirs : Present(d)) => \E d \in Dirs : Good(d)

\* From the first installation of the golden system on no step of the start
\* program, of an update or of a power failure takes the last good system away.
GoodSystemStays ==
    [][(\E d \in Dirs : Good(d)) => (\E d \in Dirs : Good(d))']_startVars

\* start.c, Launch(): "This should never happen.  If the current system was bad,
\* it would have been deselected."  The chosen system is there and not bad.
LaunchIsPossible ==
    pc = "launch" => Present(current) /\ GetStatus(dirs[current]) # "BAD"

\* The names that system_Snapshot() and system_FinishUpdate() rename "unpack"
\* to are free: file_Rename() is fatal when they are not.
RenameTargetFree ==
    pc = "prepared" /\ Room =>
        /\ dirs[current].status = "good" => ~Present(dirs[current].index)
        /\ ~Present(dirs[current].index + 1)

\* SetCurrent() looks for the newest system under the name of its index: it is
\* there, and what is saved under a name has that index.
ChosenIsSaved ==
    /\ \A d \in Saved : Present(d) => dirs[d].index = d
    /\ pc = "set current" => Present(newestIndex) /\ ~Present(current)

\* A copy with the index of the current system exists only while the current
\* system is good itself: Rename(), which deletes what is in the way, never
\* deletes the only good system for one that is not good.
TwinIsGood ==
    (\E d \in Saved : Present(d) /\ d = dirs[current].index)
        => dirs[current].status = "good"

\* le_updateCtrl.api: a system that fails its probation is rolled back to the
\* last known good one.
RollbackToGood ==
    [][pc = "check" /\ pc' \in {"move current", "set current"}
       /\ dirs[current].status = "bad" /\ newestIndex' < currentIndex'
        => dirs[newestIndex'].status = "good"]_startVars

\* Every system that is launched fails at once, at every boot.
FailingNext == PowerOn \/ StartStep \/ SupervisorFails

\* The device does not hang: what is running goes on.
StartFairness == WF_startVars(StartNext)
StartFairSpec == StartSpec /\ StartFairness

\* start.c: "do not start Legato in an attempt to preserve flash memory".  When
\* from some time on every launch fails, and soon enough to be counted, the
\* device does not reboot for ever: the start program gives up.
BootLoopEnds ==
    <>[][FailingNext /\ (pc = "count boot" => bootCount' # 1 \/ bootCount = 0)
         /\ (pc = "check" /\ bootCount >= MAX_TRIES /\ dirs[current].status = "good"
                => pc' # "launch")]_startVars
        => <>(pc = "stopped")
=============================================================================
