----------------------------- MODULE Supervisor -----------------------------
(***************************************************************************)
(* The Supervisor: it starts the processes of the apps, learns that they   *)
(* died, restarts or stops what a fault or a watchdog asks for, and shuts  *)
(* everything down.  One thread runs a handler to its end for each event,  *)
(* so a handler is one action; the processes and the kernel move between   *)
(* the handlers.                                                           *)
(*                                                                         *)
(* The hard part is that the end of an app reaches the Supervisor on two   *)
(* unrelated ways.  SIGCHLD reports each process it started.  When the     *)
(* last process leaves the app's freezer cgroup, the kernel starts a       *)
(* program (the release agent) that sends the app's name to a socket.      *)
(* Either may come first, and a notification may be handled when the app   *)
(* has long been started again.                                            *)
(*                                                                         *)
(* Abstractions: the fault and watchdog actions of a process, and whether  *)
(* two faults are close enough to reach the fault limit, are left open at  *)
(* each use; so are the failures of a start.  A process never starts as a  *)
(* member of the list of auxiliary processes: all are configured ones.     *)
(***************************************************************************)
EXTENDS Integers, Sequences, FiniteSets

CONSTANTS
    Apps,
    ProcsOf,            \* the configured processes of each app
    Child,              \* any process of an app the Supervisor did not start
    Daemons,            \* the framework daemons are 0 .. Daemons - 1
    MaxRetryCount,
    MaxMsgs             \* bound: notifications of one app on their way

VARIABLES
    app,        \* the container, the app object, its processes and its cgroup
    active,     \* ActiveAppsList
    State,      \* of the framework; "down" when an LE_FATAL stopped the Supervisor
    daemon,     \* FrameworkDaemons
    ShutdownIndex

supVars == <<app, active, State, daemon, ShutdownIndex>>

Procs == UNION {ProcsOf[a] : a \in Apps}

ASSUME SupervisorConstants ==
    /\ Child \notin Procs
    /\ Daemons \in Nat \ {0} /\ MaxRetryCount \in Nat /\ MaxMsgs \in Nat \ {0}

Handlers == {"none", "DeactivateAppContainer", "RestartApp", "RespondToStopAppCmd",
             "ShutdownNextApp"}

App == [where : {"none", "inactive", "active"}, state : {"stopped", "running"},
        handler : Handlers,
        pids : SUBSET Procs,        \* processes whose pid is not -1
        cmdKill : SUBSET Procs,
        restart : SUBSET Procs,     \* processes whose stopHandler is proc_Start
        killTimer : BOOLEAN,
        queued : BOOLEAN,           \* WaitAppStop is in the event queue
        checkTimer : BOOLEAN,       \* CheckAppStopTimer runs
        tries : 0 .. MaxRetryCount + 1,
        alive : SUBSET (Procs \cup {Child}),    \* in the cgroup
        killed : SUBSET (Procs \cup {Child}),   \* in the cgroup, SIGKILL sent
        zombies : SUBSET Procs,
        msgs : 0 .. MaxMsgs,
        populated : BOOLEAN,        \* a process has run since the app last stopped
        lost : BOOLEAN,             \* deactivated while its object says running
        dangling : BOOLEAN,         \* queued or checkTimer of a deleted container
        fatal : BOOLEAN]

NewApp == [where |-> "none", state |-> "stopped", handler |-> "none",
           pids |-> {}, cmdKill |-> {}, restart |-> {},
           killTimer |-> FALSE, queued |-> FALSE, checkTimer |-> FALSE, tries |-> 0,
           alive |-> {}, killed |-> {}, zombies |-> {}, msgs |-> 0,
           populated |-> FALSE, lost |-> FALSE, dangling |-> FALSE, fatal |-> FALSE]

SupervisorInit ==
    /\ app = [a \in Apps |-> NewApp]
    /\ active = <<>>
    /\ State = "normal"
    /\ daemon = [i \in 0 .. Daemons - 1 |-> "up"]
    /\ ShutdownIndex = -1

Up == State \in {"normal", "stopping"}
framework_IsStopping == State # "normal"

-----------------------------------------------------------------------------
(* app.c and proc.c: what the object of one app does.                      *)

Empty(x) == x.alive \cup x.killed = {}

Fatal(x) == [x EXCEPT !.fatal = TRUE]

\* SIGTERM leaves it to the process whether it ends; SIGKILL does not.
KillAppProcs(x, hard) ==
    [x EXCEPT !.restart = @ \ x.pids,
              !.cmdKill = @ \cup x.pids,
              !.alive = IF hard THEN {} ELSE @,
              !.killed = IF hard THEN @ \cup x.alive ELSE @]

\* Mutant: the kill timer is not started.
MutNoKillTimer(x) ==
    LET y == KillAppProcs(x, FALSE)
    IN  IF x.state = "running" /\ Empty(x) /\ x.pids = {}
        THEN [y EXCEPT !.state = "stopped"]
        ELSE IF x.state = "running" THEN y ELSE x

app_Stop(x) ==
    LET y == KillAppProcs(x, FALSE)
    IN  IF x.state = "stopped" THEN x
        ELSE IF ~Empty(x) THEN [y EXCEPT !.killTimer = TRUE]
        ELSE IF x.pids = {} THEN [y EXCEPT !.state = "stopped"]
        ELSE y

app_StopComplete(x) == [x EXCEPT !.state = "stopped", !.killTimer = FALSE]

StopProc(x, p) ==
    [x EXCEPT !.cmdKill = @ \cup {p},
              !.alive = @ \ {p},
              !.killed = IF p \in x.alive THEN @ \cup {p} ELSE @]

Run(x, ps) ==
    [x EXCEPT !.pids = @ \cup ps, !.alive = @ \cup ps,
              !.populated = @ \/ ps # {}]

\* A process whose run flag is off is not started, which is a success.
proc_Start(x, p) ==
    {<<"ok", x>>, <<"fault", x>>}
    \cup (IF p \in x.pids \/ framework_IsStopping THEN {} ELSE {<<"ok", Run(x, {p})>>})

\* The processes are started in the order of the list.  The loop ends early when
\* one cannot be started, or when a kernel module is missing and the fault
\* action of one asks for more than going on.
app_Start(a, x) ==
    LET r == [x EXCEPT !.state = "running", !.populated = FALSE]
        Some == SUBSET (ProcsOf[a] \ x.pids)
        Part == {ps \in Some : ps # ProcsOf[a]}
    IN  IF x.state = "running" \/ framework_IsStopping THEN {<<"fault", x>>}
        ELSE {<<"fault", r>>}
             \cup {<<"ok", Run(r, ps)>> : ps \in Some}
             \cup {<<"fault", app_Stop(Run(r, ps))>> : ps \in Part}
             \cup {<<"terminated", Run(r, ps)>> : ps \in Part}
             \cup {<<"would block", Run(r, ps)>> : ps \in Part}
             \cup {<<"fault", Fatal(Run(r, ps))>> : ps \in Part}

-----------------------------------------------------------------------------
(* apps.c: containers and stop handlers.                                   *)

DeactivateAppContainer(x) ==
    [x EXCEPT !.where = "inactive", !.handler = "none", !.populated = FALSE,
              !.lost = @ \/ x.state = "running"]

\* What is left of the app's processes belongs to no object any more.
DeleteApp(x) ==
    [NewApp EXCEPT !.alive = IF x.alive # {} THEN {Child} ELSE {},
                   !.killed = IF x.alive = {} /\ x.killed # {} THEN {Child} ELSE {},
                   !.msgs = x.msgs, !.lost = x.lost,
                   !.dangling = x.dangling \/ x.queued \/ x.checkTimer]

RestartApp(a, x) ==
    {IF r[1] = "ok" THEN r[2] ELSE DeactivateAppContainer(r[2]) :
        r \in app_Start(a, [x EXCEPT !.handler = "DeactivateAppContainer"])}

\* The call of appContainerPtr->stopHandler for an app that has stopped.
StopHandler(a, x) ==
    CASE x.handler = "RestartApp" -> RestartApp(a, x)
      [] x.handler = "ShutdownNextApp" -> {DeleteApp(x)}
      [] OTHER -> {DeactivateAppContainer(x)}

IfStopped(a, x) == IF x.state = "stopped" THEN StopHandler(a, x) ELSE {x}

\* Mutant: the processes that SIGCHLD has not reported yet are not looked at.
MutForgetsSigChild(a, x) ==
    IF Empty(x) THEN StopHandler(a, app_StopComplete([x EXCEPT !.tries = 0, !.checkTimer = FALSE]))
    ELSE {x}

\* Mutant: the check is not made again after the last SIGCHLD.
MutCheckNotRepeated(a, x) ==
    IF x.pids # {} THEN {[x EXCEPT !.tries = IF Empty(x) THEN @ ELSE 0]}
    ELSE IF Empty(x)
         THEN StopHandler(a, app_StopComplete([x EXCEPT !.tries = 0, !.checkTimer = FALSE]))
    ELSE {Fatal(x)}

MarkAppAsStopped(a, x) ==
    IF x.tries > MaxRetryCount THEN {Fatal(x)}
    ELSE IF x.pids # {}
         THEN {IF Empty(x) THEN [x EXCEPT !.tries = @ + 1, !.queued = TRUE]
                           ELSE [x EXCEPT !.tries = 0]}
    ELSE IF Empty(x)
         THEN StopHandler(a, app_StopComplete([x EXCEPT !.tries = 0, !.checkTimer = FALSE]))
    ELSE {Fatal(x)}

StartApp(a, x) ==
    UNION {CASE r[2].fatal -> {r[2]}
             [] r[1] = "terminated" ->
                    IfStopped(a, app_Stop([r[2] EXCEPT !.handler = "RestartApp"]))
             [] r[1] = "would block" -> IfStopped(a, app_Stop(r[2]))
             [] OTHER -> {r[2]} :
           r \in app_Start(a, [x EXCEPT !.where = "active",
                                        !.handler = "DeactivateAppContainer"])}

-----------------------------------------------------------------------------
(* The end of a handler that worked on app a and left it as x.             *)

\* An LE_FATAL: the Supervisor ends, and the system is started again.
framework_Reboot ==
    /\ State' = "down"
    /\ app' = [a \in Apps |-> NewApp] /\ active' = <<>>
    /\ UNCHANGED <<daemon, ShutdownIndex>>

\* le_dls_Remove, of a list that holds a at most once.
Without(q, a) ==
    LET at == CHOOSE i \in DOMAIN q : q[i] = a
    IN  IF \A i \in DOMAIN q : q[i] # a THEN q
        ELSE [i \in 1 .. Len(q) - 1 |-> IF i < at THEN q[i] ELSE q[i + 1]]

Listed(a, x, list) ==
    IF x.where # "active" THEN Without(list, a)
    ELSE IF \E i \in DOMAIN list : list[i] = a THEN list
    ELSE Append(list, a)

\* Kills the last daemon of 0 .. i that has not died.
ShutdownNextDaemon(d, i) ==
    LET left == {j \in 0 .. i : d[j] # "dead"}
    IN  \/ /\ left = {}
           /\ daemon' = d /\ ShutdownIndex' = -1 /\ State' = "exited"
        \/ \E last \in left :
              /\ \A j \in left : j <= last
              /\ daemon' = [d EXCEPT ![last] = IF @ = "up" THEN "terminated" ELSE @]
              /\ ShutdownIndex' = last
              /\ State' = "stopping"

\* Mutant: all apps are told to stop and the daemons are not kept up for them.
MutDaemonsAtOnce(apps, list) ==
    /\ app' = [a \in Apps |-> IF apps[a].where = "inactive" THEN DeleteApp(apps[a])
                              ELSE app_Stop(apps[a])]
    /\ active' = list
    /\ ShutdownNextDaemon(daemon, Daemons - 1)

\* apps_Shutdown, and what it calls again through ShutdownNextApp: the apps at
\* the head of the list that stop at once are deleted with the inactive ones.
apps_Shutdown(apps, list) ==
    \E n \in 0 .. Len(list) :
        LET gone == {a \in Apps : apps[a].where = "inactive"} \cup {list[i] : i \in 1 .. n}
            Left(a) == IF a \in gone THEN DeleteApp(apps[a]) ELSE apps[a]
        IN  /\ \A i \in 1 .. n : app_Stop(apps[list[i]]).state = "stopped"
            /\ active' = SubSeq(list, n + 1, Len(list))
            /\ \/ /\ n = Len(list)
                  /\ app' = [a \in Apps |-> Left(a)]
                  /\ ShutdownNextDaemon(daemon, Daemons - 1)
               \/ /\ n < Len(list)
                  /\ app_Stop(apps[list[n + 1]]).state = "running"
                  /\ app' = [a \in Apps |->
                               IF a = list[n + 1]
                               THEN [app_Stop(apps[a]) EXCEPT !.handler = "ShutdownNextApp"]
                               ELSE Left(a)]
                  /\ State' = "stopping" /\ UNCHANGED <<daemon, ShutdownIndex>>

EndsWith(a, x, list) ==
    IF x.where = "none" /\ app[a].where = "active"
    THEN apps_Shutdown([app EXCEPT ![a] = x], Without(list, a))
    ELSE IF x.fatal THEN framework_Reboot
    ELSE /\ app' = [app EXCEPT ![a] = x]
         /\ active' = Listed(a, x, list)
         /\ UNCHANGED <<State, daemon, ShutdownIndex>>

Ends(a, x) == EndsWith(a, x, active)

-----------------------------------------------------------------------------
(* Requests.                                                               *)

\* CreateApp, which every request that names an app begins with.
CreateApp(x) == IF x.where = "none" THEN [x EXCEPT !.where = "inactive"] ELSE x

appCtrl_GetRef(a) ==
    /\ Up
    /\ app[a].where = "none"
    /\ Ends(a, CreateApp(app[a]))

\* LaunchApp, for the request and for each app of apps_AutoStart.
appCtrl_Start(a) ==
    /\ Up
    /\ app[a].where # "active"
    /\ \E x \in StartApp(a, CreateApp(app[a])) : Ends(a, x)

appCtrl_Stop(a) ==
    /\ Up
    /\ app[a].where = "active"
    /\ \E x \in IfStopped(a, app_Stop([app[a] EXCEPT !.handler = "RespondToStopAppCmd"])) :
          Ends(a, x)

\* The app is started first if it does not run.  StartApp takes it out of the
\* inactive list: an app that is in the active one is moved to its end, unless
\* it is the head of that list, which is then broken.
le_appProc_Start(a, p) ==
    LET x == CreateApp(app[a])
    IN  /\ Up
        /\ \/ /\ x.state = "running" /\ p \notin x.pids
              /\ \E r \in proc_Start(x, p) : Ends(a, r[2])
           \/ /\ x.state = "stopped"
              /\ IF x.where = "active" /\ active[1] = a
                 THEN Ends(a, Fatal(x))
                 ELSE \E y \in StartApp(a, x) : EndsWith(a, y, Without(active, a))

le_appProc_Delete(a, p) ==
    /\ Up
    /\ p \in app[a].pids
    /\ Ends(a, StopProc(app[a], p))

\* An app is installed or uninstalled.
DeletesInactiveApp(a) ==
    /\ Up
    /\ app[a].where = "inactive"
    /\ app' = [app EXCEPT ![a] = DeleteApp(@)]
    /\ UNCHANGED <<active, State, daemon, ShutdownIndex>>

le_framework_Stop ==
    /\ State = "normal"
    /\ apps_Shutdown(app, active)

-----------------------------------------------------------------------------
(* Events.                                                                 *)

\* proc_SigChildHandler and app_SigChildHandler: what the end of p leads to.
\* HandleAppFault does not call the stop handler of an app that stops at once.
Faulted(x, act) ==
    CASE act = "restart app" -> [app_Stop(x) EXCEPT !.handler = "RestartApp"]
      [] act = "stop app" -> app_Stop(x)
      [] act = "reboot" -> Fatal(x)
      [] OTHER -> x

RestartProc(x, p) ==
    {IF r[1] = "ok" THEN r[2] ELSE Faulted(r[2], "stop app") : r \in proc_Start(x, p)}

HandleAppFault(x, p) ==
    LET y == [x EXCEPT !.pids = @ \ {p}, !.cmdKill = @ \ {p}]
        Normal == IF p \in x.restart THEN RestartProc(y, p) ELSE {y}
    IN  IF p \in x.cmdKill THEN Normal
        ELSE Normal \cup RestartProc(y, p)
             \cup {Faulted(y, act) : act \in {"ignore", "restart app", "stop app", "reboot"}}

\* A child that is no process of an active app is only reaped.
apps_SigChildHandler(a, p) ==
    LET x == [app[a] EXCEPT !.zombies = @ \ {p}]
    IN  /\ Up
        /\ p \in app[a].zombies
        /\ \E y \in IF x.where = "active" /\ p \in x.pids THEN HandleAppFault(x, p) ELSE {x} :
              Ends(a, y)

AppStopHandler(a) ==
    LET x == [app[a] EXCEPT !.msgs = @ - 1]
    IN  /\ Up
        /\ app[a].msgs > 0
        /\ \E y \in IF x.where = "active" THEN MarkAppAsStopped(a, x) ELSE {x} : Ends(a, y)

WaitAppStop(a) ==
    /\ Up
    /\ app[a].queued
    /\ Ends(a, [app[a] EXCEPT !.queued = FALSE, !.checkTimer = TRUE])

WaitAppStopHandler(a) ==
    LET x == [app[a] EXCEPT !.checkTimer = FALSE]
    IN  /\ Up
        /\ app[a].checkTimer
        /\ \E y \in IF x.where = "active" THEN MarkAppAsStopped(a, x) ELSE {x} : Ends(a, y)

\* The same for a container that has been freed: whatever the memory holds.
StaleStopCheck(a) ==
    LET x == [app[a] EXCEPT !.dangling = FALSE]
    IN  /\ Up
        /\ app[a].dangling
        /\ \E y \in {x, Fatal(x)} : Ends(a, y)

HardKillApp(a) ==
    /\ Up
    /\ app[a].killTimer
    /\ Ends(a, KillAppProcs([app[a] EXCEPT !.killTimer = FALSE], TRUE))

WatchdogActions == {"stop", "restart", "restart app", "stop app", "reboot"}

\* Without an action the process is restarted.  An app that the action stops at
\* once has its stop handler called here.
wdog_WatchdogTimedOut(a, p) ==
    LET x == app[a]
        y == StopProc(x, p)
    IN  /\ Up
        /\ x.where = "active" /\ p \in x.pids
        /\ \E act \in WatchdogActions :
              \E z \in CASE act = "stop" -> IfStopped(a, y)
                         [] act = "restart" ->
                                IfStopped(a, [y EXCEPT !.restart = @ \cup {p}])
                         [] act = "reboot" -> {Fatal(x)}
                         [] OTHER -> IfStopped(a, Faulted(x, act)) :
                 Ends(a, z)

\* SigChildHandler for a daemon.  Outside of a shutdown it is fatal.
fwDaemons_SigChildHandler(i) ==
    LET d == [daemon EXCEPT ![i] = "dead"]
    IN  /\ Up
        /\ daemon[i] = "zombie"
        /\ IF ShutdownIndex >= 0
           THEN ShutdownNextDaemon(d, ShutdownIndex) /\ UNCHANGED <<app, active>>
           ELSE framework_Reboot

-----------------------------------------------------------------------------
(* Processes and the kernel.                                               *)

Least(m, n) == IF m < n THEN m ELSE n

\* The notification is sent when a process was the last one of its cgroup.
Exit(a, p) ==
    LET x == [app[a] EXCEPT !.alive = @ \ {p}, !.killed = @ \ {p},
                            !.zombies = IF p = Child THEN @ ELSE @ \cup {p}]
    IN  /\ Up
        /\ p \in app[a].alive \cup app[a].killed
        /\ app' = [app EXCEPT ![a] =
                     IF Empty(x) THEN [x EXCEPT !.msgs = Least(@ + 1, MaxMsgs)] ELSE x]
        /\ UNCHANGED <<active, State, daemon, ShutdownIndex>>

Fork(a) ==
    /\ Up
    /\ app[a].alive # {} /\ Child \notin app[a].alive \cup app[a].killed
    /\ app' = [app EXCEPT ![a].alive = @ \cup {Child}]
    /\ UNCHANGED <<active, State, daemon, ShutdownIndex>>

DaemonDies(i) ==
    /\ Up
    /\ daemon[i] \in {"up", "terminated"}
    /\ daemon' = [daemon EXCEPT ![i] = "zombie"]
    /\ UNCHANGED <<app, active, State, ShutdownIndex>>

-----------------------------------------------------------------------------

SupervisorNext ==
    \/ \E a \in Apps :
          \/ appCtrl_GetRef(a) \/ appCtrl_Start(a) \/ appCtrl_Stop(a)
          \/ DeletesInactiveApp(a)
          \/ AppStopHandler(a) \/ WaitAppStop(a) \/ WaitAppStopHandler(a)
          \/ StaleStopCheck(a) \/ HardKillApp(a) \/ Fork(a)
          \/ \E p \in ProcsOf[a] :
                \/ le_appProc_Start(a, p) \/ le_appProc_Delete(a, p)
                \/ apps_SigChildHandler(a, p) \/ wdog_WatchdogTimedOut(a, p)
          \/ \E p \in ProcsOf[a] \cup {Child} : Exit(a, p)
    \/ le_framework_Stop
    \/ \E i \in 0 .. Daemons - 1 : fwDaemons_SigChildHandler(i) \/ DaemonDies(i)

SupervisorSpec == SupervisorInit /\ [][SupervisorNext]_supVars

\* Events are handled, timers expire, and a process that was sent SIGKILL ends
\* (kill_Soft sends it to a daemon that does not end by itself).
SupervisorFairness ==
    /\ \A a \in Apps :
          /\ WF_supVars(AppStopHandler(a)) /\ WF_supVars(WaitAppStop(a))
          /\ WF_supVars(WaitAppStopHandler(a)) /\ WF_supVars(HardKillApp(a))
          /\ \A p \in ProcsOf[a] : WF_supVars(apps_SigChildHandler(a, p))
          /\ \A p \in ProcsOf[a] \cup {Child} :
                WF_supVars(p \in app[a].killed /\ Exit(a, p))
    /\ \A i \in 0 .. Daemons - 1 :
          /\ WF_supVars(fwDaemons_SigChildHandler(i))
          /\ WF_supVars(daemon[i] = "terminated" /\ DaemonDies(i))

SupervisorFairSpec == SupervisorSpec /\ SupervisorFairness

-----------------------------------------------------------------------------

\* Type correctness: apps, active list, framework state and daemons.
SupervisorType ==
    /\ app \in [Apps -> App]
    /\ State \in {"normal", "stopping", "exited", "down"}
    /\ daemon \in [0 .. Daemons - 1 -> {"up", "terminated", "zombie", "dead"}]
    /\ ShutdownIndex \in -1 .. Daemons - 1
    /\ \A i \in DOMAIN active : active[i] \in Apps

\* An app the Supervisor holds as stopped (its container is not in the active
\* list, so that it may be started again, updated or removed) has no process
\* left, neither in its cgroup nor in the Supervisor's own books, whichever of
\* SIGCHLD and the empty-cgroup notification came first.  The one exception is
\* an app whose restart failed half way (RestartApp deactivates it).
StoppedMeansGone ==
    Up => \A a \in Apps : app[a].where # "active" /\ ~app[a].lost =>
             Empty(app[a]) /\ app[a].pids = {}

\* An active app whose processes have all gone is not forgotten: the
\* notification of the kernel is still to be handled, or, when it came before
\* the last SIGCHLD, the check that MarkAppAsStopped defers is queued or timed.
EmptyIsNoticed ==
    Up => \A a \in Apps :
             LET x == app[a]
             IN  x.where = "active" /\ ~x.lost /\ x.populated /\ Empty(x) =>
                    x.msgs > 0 \/ x.queued \/ x.checkTimer

\* A shutdown takes the daemons down after the apps: while a framework daemon
\* that apps may use is being ended, no process of an app runs.
DaemonsOutliveApps ==
    Up /\ (\E i \in DOMAIN daemon : daemon[i] = "terminated") =>
        \A a \in Apps : ~app[a].lost => Empty(app[a])

\* Every link of the shutdown's chain of callbacks ends: the app that is being
\* stopped gets its SIGKILL, its end is noticed and the handler is called (or a
\* later request replaces the handler), and once the first daemon is being
\* ended the Supervisor exits.
ShutdownLinkEnds ==
    /\ \A a \in Apps : app[a].handler = "ShutdownNextApp" /\ ~app[a].lost
                          ~> app[a].handler # "ShutdownNextApp"
    /\ ShutdownIndex >= 0 ~> State \in {"exited", "down"}

\* "Stop the first app.  This will kick off the chain of callback handlers that
\* will stop all apps." (apps.c, apps_Shutdown): a shutdown that has begun ends.
ShutdownCompletes == State = "stopping" ~> State \in {"exited", "down"}

=============================================================================
