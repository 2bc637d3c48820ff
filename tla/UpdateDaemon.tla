---------------------------- MODULE UpdateDaemon ----------------------------
(***************************************************************************)
(* The update session of the Update Daemon                                 *)
(* (framework/daemons/linux/updateDaemon/updateDaemon.c), composed with    *)
(* the probation and defer control (UpdateCtrl) and with the update pack   *)
(* parser as Unpacker describes it.                                        *)
(*                                                                         *)
(* A client starts an update, the pack goes through the security-unpack    *)
(* pipeline to the unpacker, and when both have succeeded the client may   *)
(* install it.  le_update_Install() only reports an event to the daemon's  *)
(* own event queue.  The queue is first in first out, so what can come     *)
(* between the report and ApplyUpdate() is what epoll returned in the same *)
(* batch: the end of the caller's session, one call of each other client,  *)
(* and a timer; not the progress of an update that is started meanwhile.   *)
(***************************************************************************)
EXTENDS UpdateCtrl

CONSTANTS
    Sessions,   \* sessions of the clients of the le_update service
    NoSession   \* a NULL session reference

ASSUME NoSessionAssumption == NoSession \notin Sessions

VARIABLES
    State,                  \* IDLE, UNPACKING, SECURITY_CHECKING, APPLYING
    IpcSession,             \* the session that started the update
    ErrorCode,
    InstallReady,           \* "no" or "yes"
    SecurityUnpackPipeline, \* "NULL" or "running"
    verdict,        \* result of the security check of this update (history)
    phase, report, type,    \* the unpacker
    source,         \* where the files of the update are: in the "unpack"
                    \* directory, in the "current" or the older "good" system
    InstallEvent,   \* "none" or "queued"
    batch,          \* sessions that can act before the queued event is handled
    told            \* results reported to the client that started the update

unpacker == <<phase, report, type, source>>
session == <<State, IpcSession, ErrorCode, InstallReady, SecurityUnpackPipeline,
             verdict, told>>
queue == <<InstallEvent, batch>>
daemonVars == <<ctrlVars, session, unpacker, queue>>

U == INSTANCE Unpacker

-----------------------------------------------------------------------------
DaemonInit ==
    /\ CtrlInit
    /\ U!Init
    /\ State = "IDLE"
    /\ IpcSession = NoSession
    /\ ErrorCode = "NONE"
    /\ InstallReady = "no"
    /\ SecurityUnpackPipeline = "NULL"
    /\ verdict = "pending"
    /\ source = "current"
    /\ InstallEvent = "none"
    /\ batch = {}
    /\ told = {}

Queued == InstallEvent = "queued"

\* The handlers of the session that started the update are called.
CallStatusHandlers(states) ==
    told' = IF IpcSession = NoSession THEN told ELSE told \union states

\* The failure is reported once, the last error is kept.
UpdateFailed(errCode) ==
    /\ IF ErrorCode = "NONE" THEN CallStatusHandlers({"FAILED"}) ELSE UNCHANGED told
    /\ ErrorCode' = errCode

ReportUpdateDone == CallStatusHandlers({"SUCCESS"})

\* One event of a session that is served before the queued installation.
Served(s) ==
    /\ Queued => s \in batch
    /\ batch' = batch \ {s}

-----------------------------------------------------------------------------
(* The API of the le_update and le_appRemove services.  A call with the     *)
(* wrong session kills the client, a call in the wrong state is refused;    *)
(* neither changes anything here.                                           *)

\* Mutant: the result of the previous update pack is still there.
MutStartKeepsType == phase' = "working" /\ UNCHANGED <<report, type, daemon>>

\* updateUnpack_Start() asserts that the unpacker is idle.
StartUnpacking ==
    IF phase = "idle"
    THEN U!Start /\ UNCHANGED daemon
    ELSE Fatal /\ UNCHANGED <<phase, report, type>>

le_update_Start(s) ==
    /\ Up
    /\ State = "IDLE"
    /\ ~updateCtrl_HasDefers
    /\ Served(s)
    /\ IpcSession' = s
    /\ ErrorCode' = "NONE"
    /\ InstallReady' = "no"
    /\ SecurityUnpackPipeline' = "running"
    /\ verdict' = "pending"
    /\ told' = {}
    /\ StartUnpacking
    /\ State' = "UNPACKING"
    /\ UNCHANGED <<disk, timer, counts, callbacks, source, InstallEvent>>

\* The installation is left to the event loop.
le_update_Install(s) ==
    /\ Up
    /\ s = IpcSession
    /\ State \in {"UNPACKING", "SECURITY_CHECKING"}
    /\ InstallReady = "yes"
    /\ InstallReady' = "no"
    /\ InstallEvent' = "queued"
    /\ batch' = Sessions
    /\ UNCHANGED <<ctrlVars, unpacker, State, IpcSession, ErrorCode,
                   SecurityUnpackPipeline, verdict, told>>

EndUpdate ==
    /\ IF State = "UNPACKING" THEN U!Stop ELSE UNCHANGED <<phase, report, type>>
    /\ SecurityUnpackPipeline' = "NULL"
    /\ State' = "IDLE"
    /\ IpcSession' = NoSession
    /\ UNCHANGED <<ctrlVars, ErrorCode, InstallReady, verdict, told, source,
                   InstallEvent>>

\* A client makes one call at a time, so this one is not in the same batch as
\* its le_update_Install().
le_update_End(s) ==
    /\ Up
    /\ s = IpcSession
    /\ ~Queued
    /\ EndUpdate
    /\ UNCHANGED batch

UpdateServiceClosed(s) ==
    /\ Up
    /\ s = IpcSession
    /\ Served(s)
    /\ EndUpdate

\* Mutant: the probation timer is not started.
MutRemoveWithoutProbation ==
    /\ Up
    /\ State = "IDLE"
    /\ ~updateCtrl_HasDefers
    /\ status # "bad"
    /\ others' = system_Snapshot(system_RemoveUnneeded)
    /\ status' = "tried"
    /\ UNCHANGED <<daemon, timer, counts, callbacks, session, unpacker, queue>>

\* The app is not found, its removal cannot be prepared, or it is done.
le_appRemove_Remove ==
    /\ Up
    /\ State = "IDLE"
    /\ ~updateCtrl_HasDefers
    /\ \/ MakeSpace({})
       \/ \E outcome \in {"done", "failed", "crash"} :
              AppChange(system_RemoveUnneeded, outcome)
    /\ UNCHANGED <<session, unpacker, queue>>

-----------------------------------------------------------------------------
(* Callbacks.                                                               *)

\* Mutant: the download is successful although the check is still running.
MutUnpackDoneEarly ==
    /\ CallStatusHandlers({"DOWNLOAD_SUCCESS"})
    /\ InstallReady' = "yes"
    /\ UNCHANGED <<State, ErrorCode>>

\* The pack is unpacked: wait for the security check if it is still running.
UnpackDone ==
    IF SecurityUnpackPipeline = "NULL"
    THEN /\ CallStatusHandlers({"DOWNLOAD_SUCCESS"})
         /\ InstallReady' = "yes"
         /\ UNCHANGED <<State, ErrorCode>>
    ELSE /\ State' = "SECURITY_CHECKING"
         /\ UNCHANGED <<InstallReady, ErrorCode, told>>

HandleUpdateProgress(progressCode) ==
    IF progressCode = "DONE"
    THEN UnpackDone
    ELSE UpdateFailed(progressCode) /\ UNCHANGED <<State, InstallReady>>

\* The unpacker learns the type of the pack, and with it makes space on the
\* disk.  An app whose files are installed already is not unpacked.
UnpackBegins ==
    \/ /\ type' \in {"SYSTEM_UPDATE", "APP_UPDATE"}
       /\ MakeSpace({"unpack"})
       /\ source' = "unpack"
    \/ /\ type' = "APP_UPDATE"
       /\ MakeSpace({})
       /\ source' \in {"current"} \union (others' \intersect {"good"})
    \/ /\ type' = "APP_REMOVE"
       /\ MakeSpace({})
       /\ source' = "current"
    \/ /\ type' \in {"UNKNOWN", "FIRMWARE_UPDATE"}
       /\ UNCHANGED <<ctrlVars, source>>

\* An event of the unpacker, with its call of HandleUpdateProgress() if it has
\* come to an end.
UnpackStep ==
    /\ Up
    /\ ~Queued
    /\ \/ /\ U!Work
          /\ UNCHANGED session
       \/ /\ U!Finish
          /\ HandleUpdateProgress(report')
          /\ UNCHANGED <<IpcSession, SecurityUnpackPipeline, verdict>>
    /\ IF type = "UNKNOWN" THEN UnpackBegins ELSE UNCHANGED <<ctrlVars, source>>
    /\ UNCHANGED queue

\* Mutant: the unpacker is not stopped when the check has failed.
MutPipelineKeepsUnpacking(exit) ==
    /\ Up
    /\ ~Queued
    /\ SecurityUnpackPipeline = "running"
    /\ SecurityUnpackPipeline' = "NULL"
    /\ UNCHANGED <<ctrlVars, State, IpcSession, unpacker, queue>>
    /\ IF exit = "success"
       THEN /\ verdict' = "passed"
            /\ UNCHANGED <<ErrorCode, told, InstallReady>>
       ELSE /\ verdict' = "failed"
            /\ UpdateFailed(exit)
            /\ UNCHANGED InstallReady

\* The security-unpack program has exited; exit is "success" or an error code.
PipelineDone(exit) ==
    /\ Up
    /\ ~Queued
    /\ SecurityUnpackPipeline = "running"
    /\ SecurityUnpackPipeline' = "NULL"
    /\ UNCHANGED <<disk, timer, counts, callbacks, State, IpcSession, source, queue>>
    /\ IF State = "APPLYING"
       THEN /\ Fatal
            /\ UNCHANGED <<ErrorCode, InstallReady, verdict, phase, report, type, told>>
       ELSE /\ UNCHANGED daemon
            /\ IF exit = "success"
               THEN /\ verdict' = "passed"
                    /\ UNCHANGED <<ErrorCode, phase, report, type>>
                    /\ IF State = "SECURITY_CHECKING"
                       THEN InstallReady' = "yes" /\ CallStatusHandlers({"DOWNLOAD_SUCCESS"})
                       ELSE UNCHANGED <<InstallReady, told>>
               ELSE /\ verdict' = "failed"
                    /\ UpdateFailed(exit)
                    /\ UNCHANGED InstallReady
                    /\ IF State = "UNPACKING"
                       THEN U!Stop
                       ELSE UNCHANGED <<phase, report, type>>

-----------------------------------------------------------------------------
(* ApplyUpdate() and the functions it calls.                                *)

\* The files of the update are where they were put.
FilesPresent == source = "current" \/ source \in others

ApplyFailed == UpdateFailed("INTERNAL_ERROR")
ApplyDone == ReportUpdateDone /\ UNCHANGED ErrorCode
Killed == UNCHANGED <<told, ErrorCode>>

\* Files that are gone make the index file fail, which is fatal, or the
\* verification, which is not.
ApplySystemUpdate ==
    \/ UNCHANGED ctrlVars /\ ApplyFailed
    \/ FilesPresent /\ SystemUpdate /\ ApplyDone
    \/ ~FilesPresent /\ Crash /\ Killed

\* The same version is installed already; no snapshot can be made; or the app is
\* installed.  Without its files the system is marked "bad" to roll back.
ApplyAppUpdate ==
    \/ source = "current" /\ UNCHANGED ctrlVars /\ ApplyDone
    \/ UNCHANGED ctrlVars /\ ApplyFailed
    \/ FilesPresent /\ AppChange(others, "done") /\ ApplyDone
    \/ FilesPresent /\ AppChange(others, "failed") /\ ApplyFailed
    \/ AppChange(others, "crash") /\ Killed

ApplyAppRemove ==
    \/ UNCHANGED ctrlVars /\ (ApplyDone \/ ApplyFailed)
    \/ AppChange(others, "done") /\ ApplyDone
    \/ AppChange(others, "failed") /\ ApplyFailed
    \/ AppChange(others, "crash") /\ Killed

\* Success is reported before the modem is asked, which reboots it.
ApplyFwUpdate ==
    \/ /\ UNCHANGED ctrlVars
       /\ CallStatusHandlers({"SUCCESS", "FAILED"})
       /\ ErrorCode' = "INTERNAL_ERROR"
    \/ Crash /\ ApplyDone

ApplyUpdate ==
    /\ Up
    /\ Queued
    /\ InstallEvent' = "none"
    /\ batch' = {}
    /\ State' = "APPLYING"
    /\ \/ type = "SYSTEM_UPDATE" /\ ApplySystemUpdate
       \/ type = "APP_UPDATE" /\ ApplyAppUpdate
       \/ type = "APP_REMOVE" /\ ApplyAppRemove
       \/ type = "FIRMWARE_UPDATE" /\ ApplyFwUpdate
       \/ type = "UNKNOWN" /\ Crash /\ Killed
    /\ UNCHANGED <<IpcSession, InstallReady, SecurityUnpackPipeline, verdict, unpacker>>

-----------------------------------------------------------------------------
\* The probation timer expires.
ProbationExpiry ==
    /\ HandleProbationExpiry(State = "IDLE")
    /\ UNCHANGED <<session, unpacker, queue>>

\* The calls of the le_updateCtrl service, and the death of the daemon.
CtrlCall ==
    /\ \/ \E c \in Clients : ClientCall(c)
       \/ \E force \in BOOLEAN : le_updateCtrl_MarkGood(force)
       \/ le_updateCtrl_FailProbation
       \/ Crash
    /\ UNCHANGED <<session, unpacker, queue>>

\* The next start of the daemon (COMPONENT_INIT).
DaemonBoot ==
    /\ Boot
    /\ U!Restart
    /\ State' = "IDLE"
    /\ IpcSession' = NoSession
    /\ ErrorCode' = "NONE"
    /\ InstallReady' = "no"
    /\ SecurityUnpackPipeline' = "NULL"
    /\ verdict' = "pending"
    /\ source' = "current"
    /\ InstallEvent' = "none"
    /\ batch' = {}
    /\ told' = {}

UpdateCall(s) ==
    \/ le_update_Start(s)
    \/ le_update_Install(s)
    \/ le_update_End(s)
    \/ UpdateServiceClosed(s)

DaemonNext ==
    \/ \E s \in Sessions : UpdateCall(s)
    \/ le_appRemove_Remove
    \/ UnpackStep
    \/ \E exit \in {"success", "SECURITY_FAILURE", "INTERNAL_ERROR"} : PipelineDone(exit)
    \/ ApplyUpdate
    \/ ProbationExpiry
    \/ CtrlCall
    \/ DaemonBoot

DaemonSpec == DaemonInit /\ [][DaemonNext]_daemonVars

-----------------------------------------------------------------------------
(* Properties.                                                              *)

\* Every variable has its type.
DaemonTypeOK ==
    /\ State \in {"IDLE", "UNPACKING", "SECURITY_CHECKING", "APPLYING"}
    /\ IpcSession \in Sessions \union {NoSession}
    /\ ErrorCode \in {"NONE", "BAD_PACKAGE", "INTERNAL_ERROR", "SECURITY_FAILURE"}
    /\ InstallReady \in {"no", "yes"}
    /\ SecurityUnpackPipeline \in {"NULL", "running"}
    /\ verdict \in {"pending", "passed", "failed"}
    /\ phase \in {"idle", "working"}
    /\ report \in U!FinalReports \union {"none"}
    /\ type \in U!UnpackTypes
    /\ source \in {"unpack", "current", "good"}
    /\ InstallEvent \in {"none", "queued"}
    /\ batch \subseteq Sessions
    /\ told \subseteq {"DOWNLOAD_SUCCESS", "SUCCESS", "FAILED"}

\* le_update_Install() is possible only for a pack that was unpacked to its end
\* and passed the security check, whichever of the two ended first, and whatever
\* failed in between (UnpackDone, PipelineDone).
InstallOnlyVerified ==
    Up /\ InstallReady = "yes" /\ State # "IDLE" =>
        verdict = "passed" /\ report = "DONE" /\ ErrorCode = "NONE"

\* What ApplyUpdate() writes to the disk comes from such a pack, although the
\* update may have been cancelled, and another one started, since it was asked
\* for: the new one has no type yet, and the daemon dies rather than apply it.
AppliedIsVerified ==
    [][ApplyUpdate /\ disk' # disk => verdict = "passed" /\ report = "DONE"]_daemonVars

\* The unpacker works only in the UNPACKING state, so that a new update never
\* meets the assertion of updateUnpack_Start().
UnpackerIdle == Up /\ phase = "working" => State = "UNPACKING"

\* The pipeline runs only while its result is awaited, so that PipelineDone()
\* never meets "Bad state, can't apply update without security check".
PipelineAwaited ==
    Up /\ SecurityUnpackPipeline = "running"
        => State \in {"UNPACKING", "SECURITY_CHECKING"} /\ verdict = "pending"

\* After a failure has been reported nothing else is, until the next update
\* (le_update.api, State).
FailedIsFinal ==
    [][told' # told /\ "FAILED" \in told => told' = {}]_daemonVars

\* With the session, the daemon still is what UpdateCtrl describes.
ImplementsCtrl == CtrlSpec

\* The daemon uses the unpacker as Unpacker prescribes.
UsesUnpacker == U!Spec

\* updateDaemon.c:108-109, on IpcSession: "NULL if no update in progress."  So
\* when the session that started an update is gone there is no update.
SessionOwnsUpdate == Up /\ IpcSession = NoSession => State = "IDLE"

\* updateDaemon.c:251: "An update is ongoing, so don't mark system good."  So the
\* end of probation does not delete the files of an update that is ready.
ReadyUpdateKept ==
    Up /\ InstallReady = "yes" /\ State # "IDLE" => FilesPresent
=============================================================================
