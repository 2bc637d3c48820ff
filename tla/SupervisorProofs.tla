-------------------------- MODULE SupervisorProofs --------------------------
(***************************************************************************)
(* The Supervisor's invariants, for any apps, processes and daemons.       *)
(*                                                                         *)
(* Every handler works on the object of one app and hands it over to       *)
(* EndsWith.  So the proof first shows what each operation of an object    *)
(* leaves behind (Sound, Noticed, and Follows, which relates it to what    *)
(* the operation was given), then that EndsWith and apps_Shutdown keep the *)
(* lists and the daemons in step, and only then looks at the actions.      *)
(***************************************************************************)
EXTENDS Supervisor, SequenceTheorems, TLAPS

\* What the Supervisor believes of an app whose container it has not lost.  A
\* stopped app has no process, and one that is not active has been stopped.
Sound(x) ==
    /\ x \in App
    /\ ~x.lost => /\ x.state = "stopped" => Empty(x) /\ x.pids = {}
                  /\ x.where # "active" => x.state = "stopped" /\ ~x.populated

Noticed(x) == ~x.lost /\ x.populated /\ Empty(x) => x.msgs > 0 \/ x.queued \/ x.checkTimer

\* An app is not found again once it is lost, and no process of an app is started
\* when the framework is stopping.
Follows(x, y) ==
    /\ x.lost => y.lost
    /\ framework_IsStopping /\ Empty(x) => Empty(y)

Quiet(apps) == \A a \in Apps : ~apps[a].lost => Empty(apps[a])

In(a, list) == \E i \in 1 .. Len(list) : list[i] = a

AppsKept(apps, list) ==
    /\ apps = [a \in Apps |-> apps[a]]
    /\ \A a \in Apps : Sound(apps[a]) /\ Noticed(apps[a])
    /\ list \in Seq(Apps)
    /\ \A a \in Apps : apps[a].where = "active" => In(a, list)

DaemonStates == {"up", "terminated", "zombie", "dead"}

\* The daemons are taken down only when the framework is stopping and no app has
\* a process left.
DaemonsKept(d, i, s, apps) ==
    /\ d \in [0 .. Daemons - 1 -> DaemonStates]
    /\ i \in -1 .. Daemons - 1
    /\ s \in {"normal", "stopping", "exited", "down"}
    /\ i >= 0 => s # "normal" /\ Quiet(apps)
    /\ s \in {"normal", "stopping"} /\ (\E j \in 0 .. Daemons - 1 : d[j] = "terminated") =>
          s = "stopping" /\ Quiet(apps)

\* The inductive invariant.
SupervisorInv ==
    /\ AppsKept(app, active)
    /\ DaemonsKept(daemon, ShutdownIndex, State, app)

-----------------------------------------------------------------------------
(* What the operations of an app's object leave behind.                    *)

\* An app object as app_Create leaves it.
LEMMA NewAppIsSound == Sound(NewApp) /\ Noticed(NewApp) /\ Empty(NewApp)
<1>1. NewApp \in App BY SupervisorConstants DEF NewApp, App, Handlers
<1>2. Empty(NewApp) /\ NewApp.pids = {} /\ NewApp.state = "stopped" /\ NewApp.populated = FALSE
    BY Zenon DEF NewApp, Empty
<1> QED BY Zenon, <1>1, <1>2 DEF Sound, Noticed

\* y differs from x in nothing that Sound, Noticed and Follows speak of, except
\* that processes may have left the books.
Like(x, y) ==
    /\ y \in App /\ (Empty(y) <=> Empty(x)) /\ y.pids \subseteq x.pids
    /\ y.state = x.state /\ y.where = x.where /\ y.fatal = x.fatal
    /\ y.lost = x.lost /\ y.populated = x.populated
    /\ y.msgs = x.msgs /\ y.queued = x.queued /\ y.checkTimer = x.checkTimer

\* What changes nothing of interest keeps the invariant of an app.
LEMMA LikeKeeps ==
    ASSUME NEW x \in App, NEW y, Like(x, y)
    PROVE  /\ Sound(x) => Sound(y)
           /\ Noticed(x) => Noticed(y)
           /\ Follows(x, y)
BY Zenon DEF Like, Sound, Noticed, Follows

\* Two such changes are one.
LEMMA LikeTwice ==
    ASSUME NEW x, NEW y, NEW z, Like(x, y), Like(y, z) PROVE Like(x, z)
BY Zenon DEF Like

\* KillAppProcs sends signals; the processes end later (app.c:1522).
LEMMA KillKeeps ==
    ASSUME NEW x \in App, NEW hard \in BOOLEAN
    PROVE  Like(x, KillAppProcs(x, hard))
<1> DEFINE y == KillAppProcs(x, hard)
<1>1. y \in App BY Zenon DEF KillAppProcs, App
<1>2. y.alive \cup y.killed = x.alive \cup x.killed BY Zenon DEF KillAppProcs, App
<1>3. /\ y.state = x.state /\ y.where = x.where /\ y.pids = x.pids
      /\ y.lost = x.lost /\ y.populated = x.populated /\ y.fatal = x.fatal
      /\ y.msgs = x.msgs /\ y.queued = x.queued /\ y.checkTimer = x.checkTimer
    BY Zenon DEF KillAppProcs, App
<1> QED BY Zenon, <1>1, <1>2, <1>3 DEF Empty, Like

\* StopProc sends a signal too (app.c:1757).
LEMMA StopProcKeeps ==
    ASSUME NEW x \in App, NEW p \in Procs
    PROVE  Like(x, StopProc(x, p))
<1> DEFINE y == StopProc(x, p)
<1>1. y \in App BY Zenon DEF StopProc, App
<1>2. y.alive \cup y.killed = x.alive \cup x.killed BY Zenon DEF StopProc, App
<1>3. /\ y.state = x.state /\ y.where = x.where /\ y.pids = x.pids
      /\ y.lost = x.lost /\ y.populated = x.populated /\ y.fatal = x.fatal
      /\ y.msgs = x.msgs /\ y.queued = x.queued /\ y.checkTimer = x.checkTimer
    BY Zenon DEF StopProc, App
<1> QED BY Zenon, <1>1, <1>2, <1>3 DEF Empty, Like

\* The assignments that change nothing of interest.
LEMMA SetHandler ==
    ASSUME NEW x \in App, NEW h \in Handlers
    PROVE  Like(x, [x EXCEPT !.handler = h])
BY Zenon DEF Like, App, Empty

\* A process is to be started again when it ends.
LEMMA SetRestart ==
    ASSUME NEW x \in App, NEW p \in Procs
    PROVE  Like(x, [x EXCEPT !.restart = @ \cup {p}])
BY Zenon DEF Like, App, Empty

\* The kill timer is started or stopped.
LEMMA SetTimer ==
    ASSUME NEW x \in App, NEW on \in BOOLEAN
    PROVE  Like(x, [x EXCEPT !.killTimer = on])
BY Zenon DEF Like, App, Empty

\* The number of stop checks made.
LEMMA SetTries ==
    ASSUME NEW x \in App, NEW n \in 0 .. MaxRetryCount + 1
    PROVE  Like(x, [x EXCEPT !.tries = n])
BY Zenon DEF Like, App, Empty

\* A process is waited for.
LEMMA Reaped ==
    ASSUME NEW x \in App, NEW p
    PROVE  Like(x, [x EXCEPT !.zombies = @ \ {p}])
BY Zenon DEF Like, App, Empty

\* The SIGCHLD of a process takes it out of the books.
LEMMA Buried ==
    ASSUME NEW x \in App, NEW p
    PROVE  Like(x, [x EXCEPT !.pids = @ \ {p}, !.cmdKill = @ \ {p}])
BY Zenon DEF Like, App, Empty

\* app_Stop marks only an app without processes as stopped (app.c:3733).
LEMMA StopKeeps ==
    ASSUME NEW x, Sound(x)
    PROVE  LET y == app_Stop(x)
           IN  /\ Sound(y) /\ (Noticed(x) => Noticed(y)) /\ Follows(x, y)
               /\ (Empty(y) <=> Empty(x)) /\ y.pids = x.pids
               /\ y.where = x.where /\ y.lost = x.lost /\ y.fatal = x.fatal
               /\ y.populated = x.populated
               /\ y.state = "stopped" => x.lost \/ (Empty(x) /\ x.pids = {})
<1> DEFINE y == app_Stop(x)
           k == KillAppProcs(x, FALSE)
<1>1. x \in App /\ x.state \in {"stopped", "running"} BY Zenon DEF Sound, App
<1>2. Like(x, k) /\ k.pids = x.pids
    <2>1. Like(x, k) BY Zenon, <1>1, KillKeeps
    <2>2. k.pids = x.pids BY Zenon, <1>1 DEF KillAppProcs, App
    <2> QED BY Zenon, <2>1, <2>2
<1>3. CASE x.state = "stopped"
    <2>1. y = x BY Zenon, <1>3 DEF app_Stop
    <2>2. Follows(x, x) BY Zenon DEF Follows
    <2> QED BY Zenon, <1>3, <2>1, <2>2 DEF Sound
<1>4. CASE x.state = "running" /\ ~Empty(x)
    <2>1. y = [k EXCEPT !.killTimer = TRUE] BY Zenon, <1>4 DEF app_Stop
    <2>2. k \in App BY Zenon, <1>2 DEF Like
    <2>3. Like(k, y) /\ y.pids = k.pids
        <3>1. Like(k, y) BY Zenon, <2>1, <2>2, SetTimer
        <3>2. y.pids = k.pids BY Zenon, <2>1, <2>2 DEF App
        <3> QED BY Zenon, <3>1, <3>2
    <2> HIDE DEF k, y
    <2>4. Like(x, y) BY Zenon, <1>2, <2>3, LikeTwice
    <2>5. Sound(y) /\ (Noticed(x) => Noticed(y)) /\ Follows(x, y) BY Zenon, <1>1, <2>4, LikeKeeps
    <2> QED BY Zenon, <1>2, <1>4, <2>3, <2>4, <2>5 DEF Like, y
<1>5. CASE x.state = "running" /\ Empty(x) /\ x.pids = {}
    <2>1. y = [k EXCEPT !.state = "stopped"] BY Zenon, <1>5 DEF app_Stop
    <2>2. k \in App BY Zenon, <1>2 DEF Like
    <2>3. /\ y \in App /\ y.state = "stopped" /\ (Empty(y) <=> Empty(k)) /\ y.pids = k.pids
          /\ y.where = k.where /\ y.fatal = k.fatal
          /\ y.lost = k.lost /\ y.populated = k.populated
          /\ y.msgs = k.msgs /\ y.queued = k.queued /\ y.checkTimer = k.checkTimer
        BY Zenon, <2>1, <2>2 DEF App, Empty
    <2> HIDE DEF k, y
    <2>4. Sound(y) BY Zenon, <1>1, <1>2, <1>5, <2>3 DEF Sound, Like
    <2>5. Noticed(x) => Noticed(y) BY Zenon, <1>2, <2>3 DEF Noticed, Like
    <2>6. Follows(x, y) BY Zenon, <1>2, <2>3 DEF Follows, Like
    <2> QED BY Zenon, <1>2, <1>5, <2>3, <2>4, <2>5, <2>6 DEF Like, y
<1>6. CASE x.state = "running" /\ Empty(x) /\ x.pids # {}
    <2>1. y = k BY Zenon, <1>6 DEF app_Stop
    <2>2. Sound(k) /\ (Noticed(x) => Noticed(k)) /\ Follows(x, k) BY Zenon, <1>1, <1>2, LikeKeeps
    <2> QED BY Zenon, <1>2, <1>6, <2>1, <2>2 DEF Like
<1> QED BY Zenon, <1>1, <1>3, <1>4, <1>5, <1>6

\* Processes are started only for an app that runs (or is lost).
LEMMA RunKeeps ==
    ASSUME NEW x, Sound(x), x.state = "running" \/ x.lost, NEW ps \in SUBSET Procs
    PROVE  LET y == Run(x, ps)
           IN  /\ Sound(y) /\ (Noticed(x) => Noticed(y))
               /\ y.where = x.where /\ y.lost = x.lost /\ y.state = x.state /\ y.fatal = x.fatal
<1> DEFINE y == Run(x, ps)
<1>1. x \in App BY Zenon DEF Sound
<1>2. /\ y \in App /\ y.alive = x.alive \cup ps /\ y.killed = x.killed
      /\ y.where = x.where /\ y.lost = x.lost /\ y.state = x.state /\ y.fatal = x.fatal
      /\ y.msgs = x.msgs /\ y.queued = x.queued /\ y.checkTimer = x.checkTimer
    BY Zenon, <1>1 DEF Run, App
<1>3. y.populated <=> x.populated \/ ps # {} BY Zenon, <1>1 DEF Run, App
<1> HIDE DEF y
<1>4. y.state \in {"stopped", "running"} BY Zenon, <1>2 DEF App
<1>5. Sound(y)
    <2> SUFFICES ASSUME ~y.lost
                 PROVE  /\ y.state = "stopped" => Empty(y) /\ y.pids = {}
                        /\ y.where # "active" => y.state = "stopped" /\ ~y.populated
        BY Zenon, <1>2 DEF Sound
    <2>1. x.state = "running" /\ ~x.lost BY Zenon, <1>2
    <2>2. x.where = "active" BY Zenon, <2>1 DEF Sound
    <2> QED BY Zenon, <1>2, <2>1, <2>2
<1>6. Noticed(x) => Noticed(y)
    <2>1. CASE ps = {} BY Zenon, <1>2, <1>3, <2>1 DEF Noticed, Empty
    <2>2. CASE ps # {} BY Zenon, <1>2, <2>2 DEF Noticed, Empty
    <2> QED BY Zenon, <2>1, <2>2
<1> QED BY Zenon, <1>2, <1>5, <1>6 DEF y

\* DeactivateAppContainer, after a stop or after a restart that failed (apps.c:367).
LEMMA DeactivateKeeps ==
    ASSUME NEW x, Sound(x)
    PROVE  LET y == DeactivateAppContainer(x)
           IN  Sound(y) /\ Noticed(y) /\ Follows(x, y) /\ y.where = "inactive"
<1> DEFINE y == DeactivateAppContainer(x)
<1>1. x \in App BY Zenon DEF Sound
<1>2. /\ y \in App /\ y.alive = x.alive /\ y.killed = x.killed /\ y.pids = x.pids
      /\ y.where = "inactive" /\ y.state = x.state /\ y.populated = FALSE
    BY Zenon, <1>1 DEF DeactivateAppContainer, App, Handlers
<1>3. y.lost <=> x.lost \/ x.state = "running" BY Zenon, <1>1 DEF DeactivateAppContainer, App
<1> HIDE DEF y
<1>4. x.state \in {"stopped", "running"} BY Zenon, <1>1 DEF App
<1>5. Empty(y) <=> Empty(x) BY Zenon, <1>2 DEF Empty
<1>6. Sound(y) BY Zenon, <1>2, <1>3, <1>4, <1>5 DEF Sound
<1>7. Noticed(y) /\ Follows(x, y) BY Zenon, <1>2, <1>3, <1>5 DEF Noticed, Follows
<1> QED BY Zenon, <1>2, <1>6, <1>7 DEF y

\* DeleteApp and what it leaves dangling (apps.c:326).
LEMMA DeleteKeeps ==
    ASSUME NEW x \in App, x.lost \/ Empty(x)
    PROVE  LET y == DeleteApp(x)
           IN  /\ Sound(y) /\ Noticed(y) /\ Follows(x, y) /\ y.where = "none"
               /\ y.lost \/ Empty(y)
<1> DEFINE y == DeleteApp(x)
<1>a. NewApp \in App BY Zenon, NewAppIsSound DEF Sound
<1>b. /\ x.msgs \in 0 .. MaxMsgs /\ x.lost \in BOOLEAN
      /\ (x.dangling \/ x.queued \/ x.checkTimer) \in BOOLEAN
    BY Zenon DEF App
<1>1. /\ y \in App /\ y.pids = {} /\ y.where = "none" /\ y.state = "stopped"
      /\ y.populated = FALSE /\ y.lost = x.lost
    <2>1. y \in App
        <3> DEFINE u == IF x.alive # {} THEN {Child} ELSE {}
                   k == IF x.alive = {} /\ x.killed # {} THEN {Child} ELSE {}
                   d == x.dangling \/ x.queued \/ x.checkTimer
        <3>1. u \in SUBSET (Procs \cup {Child}) /\ k \in SUBSET (Procs \cup {Child})
            BY Zenon
        <3>2. d \in BOOLEAN BY Zenon, <1>b
        <3>3. y = [NewApp EXCEPT !.alive = u, !.killed = k, !.msgs = x.msgs, !.lost = x.lost,
                                 !.dangling = d]
            BY Zenon DEF DeleteApp
        <3> HIDE DEF u, k, d, y
        <3> QED BY Zenon, <1>a, <1>b, <3>1, <3>2, <3>3 DEF App
    <2>2. /\ y.pids = {} /\ y.where = "none" /\ y.state = "stopped"
          /\ y.populated = FALSE /\ y.lost = x.lost
        BY Zenon DEF DeleteApp, NewApp
    <2> QED BY Zenon, <2>1, <2>2
<1>2. Empty(x) => Empty(y) BY Zenon DEF DeleteApp, NewApp, Empty
<1> HIDE DEF y
<1>3. Sound(y) BY Zenon, <1>1, <1>2 DEF Sound
<1>4. Noticed(y) /\ Follows(x, y) BY Zenon, <1>1, <1>2 DEF Noticed, Follows
<1> QED BY Zenon, <1>1, <1>2, <1>3, <1>4 DEF y

\* An app whose handler met LE_FATAL.
LEMMA FatalIsLike ==
    ASSUME NEW x \in App
    PROVE  /\ Sound(x) => Sound(Fatal(x))
           /\ Noticed(x) => Noticed(Fatal(x))
           /\ Fatal(x).where = x.where /\ Fatal(x).lost = x.lost /\ Fatal(x).fatal
<1> DEFINE y == Fatal(x)
<1>1. /\ y \in App /\ y.alive = x.alive /\ y.killed = x.killed /\ y.pids = x.pids
      /\ y.where = x.where /\ y.lost = x.lost /\ y.state = x.state
      /\ y.populated = x.populated
      /\ y.msgs = x.msgs /\ y.queued = x.queued /\ y.checkTimer = x.checkTimer
    BY Zenon DEF Fatal, App
<1>2. y.fatal BY Zenon DEF Fatal, App
<1> HIDE DEF y
<1>3. Empty(y) <=> Empty(x) BY Zenon, <1>1 DEF Empty
<1>4. (Sound(x) => Sound(y)) /\ (Noticed(x) => Noticed(y)) BY Zenon, <1>1, <1>3 DEF Sound, Noticed
<1> QED BY Zenon, <1>1, <1>2, <1>4 DEF y

\* proc_Start runs a process, or fails without one (proc.c:1238).
LEMMA ProcStartKeeps ==
    ASSUME NEW x, Sound(x), x.state = "running" \/ x.lost, NEW p \in Procs,
           NEW r \in proc_Start(x, p)
    PROVE  /\ Sound(r[2]) /\ (Noticed(x) => Noticed(r[2])) /\ Follows(x, r[2])
           /\ r[2].where = x.where /\ r[2].fatal = x.fatal
           /\ r[2].state = "running" \/ r[2].lost
<1>1. r[2] = x \/ (~framework_IsStopping /\ r[2] = Run(x, {p})) BY DEF proc_Start
<1>2. CASE r[2] = x BY Zenon, <1>2 DEF Follows
<1>3. CASE ~framework_IsStopping /\ r[2] = Run(x, {p})
    <2>1. {p} \in SUBSET Procs BY Zenon
    <2>2. /\ Sound(r[2]) /\ (Noticed(x) => Noticed(r[2]))
          /\ r[2].where = x.where /\ r[2].lost = x.lost
          /\ r[2].state = x.state /\ r[2].fatal = x.fatal
        BY <1>3, <2>1, RunKeeps
    <2> QED BY Zenon, <1>3, <2>2 DEF Follows
<1> QED BY Zenon, <1>1, <1>2, <1>3

\* The two components of a result.
LEMMA Components == ASSUME NEW s, NEW y PROVE <<s, y>>[1] = s /\ <<s, y>>[2] = y
BY Zenon

\* app_Start, with any of its processes failing to start (app.c:3608).
LEMMA AppStartKeeps ==
    ASSUME NEW a \in Apps, NEW x, Sound(x), x.where = "active", NEW t \in app_Start(a, x)
    PROVE  /\ Sound(t[2]) /\ Follows(x, t[2]) /\ t[2].where = "active"
           /\ t[1] = "ok" \/ Noticed(x) => Noticed(t[2])
<1> DEFINE r == [x EXCEPT !.state = "running", !.populated = FALSE]
<1>1. x \in App BY Zenon DEF Sound
<1>2. Sound(r) /\ Noticed(r) /\ r.state = "running" /\ r.lost = x.lost /\ r.where = "active"
    <2>1. r \in App /\ r.state = "running" /\ r.populated = FALSE
          /\ r.lost = x.lost /\ r.where = "active"
        BY Zenon, <1>1 DEF App
    <2> HIDE DEF r
    <2> QED BY Zenon, <2>1 DEF Sound, Noticed
<1>3. ASSUME NEW ps \in SUBSET Procs
      PROVE  LET y == Run(r, ps)
             IN  /\ Sound(y) /\ Noticed(y) /\ y.where = "active" /\ y.lost = x.lost
                 /\ Sound(app_Stop(y)) /\ Noticed(app_Stop(y))
                 /\ app_Stop(y).where = "active" /\ app_Stop(y).lost = x.lost
                 /\ Sound(Fatal(y)) /\ Noticed(Fatal(y))
                 /\ Fatal(y).where = "active" /\ Fatal(y).lost = x.lost
    <2> DEFINE y == Run(r, ps)
    <2> HIDE DEF r
    <2>1. Sound(y) /\ Noticed(y) /\ y.where = "active" /\ y.lost = x.lost
        BY Zenon, <1>2, RunKeeps
    <2> HIDE DEF y
    <2>2. y \in App BY Zenon, <2>1 DEF Sound
    <2>3. /\ Sound(app_Stop(y)) /\ Noticed(app_Stop(y))
          /\ app_Stop(y).where = "active" /\ app_Stop(y).lost = x.lost
        BY Zenon, <2>1, StopKeeps
    <2>4. /\ Sound(Fatal(y)) /\ Noticed(Fatal(y))
          /\ Fatal(y).where = "active" /\ Fatal(y).lost = x.lost
        BY Zenon, <2>1, <2>2, FatalIsLike
    <2> QED BY Zenon, <2>1, <2>3, <2>4 DEF y
<1>4. \/ t[1] = "fault" /\ t[2] = x
      \/ ~framework_IsStopping /\ t[2] = r
      \/ ~framework_IsStopping /\ \E ps \in SUBSET Procs :
            t[2] \in {Run(r, ps), app_Stop(Run(r, ps)), Fatal(Run(r, ps))}
    <2>1. SUBSET (ProcsOf[a] \ x.pids) \subseteq SUBSET Procs BY Zenon DEF Procs
    <2> DEFINE Some == SUBSET (ProcsOf[a] \ x.pids)
               Part == {ps \in Some : ps # ProcsOf[a]}
    <2>2. CASE x.state = "running" \/ framework_IsStopping
        <3>1. t = <<"fault", x>> BY Zenon, <2>2 DEF app_Start
        <3> QED BY Zenon, <3>1
    <2>3. CASE ~(x.state = "running" \/ framework_IsStopping)
        <3>1. t \in {<<"fault", r>>}
                    \cup {<<"ok", Run(r, ps)>> : ps \in Some}
                    \cup {<<"fault", app_Stop(Run(r, ps))>> : ps \in Part}
                    \cup {<<"terminated", Run(r, ps)>> : ps \in Part}
                    \cup {<<"would block", Run(r, ps)>> : ps \in Part}
                    \cup {<<"fault", Fatal(Run(r, ps))>> : ps \in Part}
            BY Zenon, <2>3 DEF app_Start
        <3> HIDE DEF r
        <3>2. \/ t = <<"fault", r>>
              \/ \E ps \in Some : \/ t = <<"ok", Run(r, ps)>>
                                  \/ t = <<"fault", app_Stop(Run(r, ps))>>
                                  \/ t = <<"terminated", Run(r, ps)>>
                                  \/ t = <<"would block", Run(r, ps)>>
                                  \/ t = <<"fault", Fatal(Run(r, ps))>>
            BY Zenon, <3>1
        <3>3. CASE t = <<"fault", r>> BY Zenon, <2>3, <3>3
        <3>4. ASSUME NEW ps \in Some,
                     \/ t = <<"ok", Run(r, ps)>>
                     \/ t = <<"fault", app_Stop(Run(r, ps))>>
                     \/ t = <<"terminated", Run(r, ps)>>
                     \/ t = <<"would block", Run(r, ps)>>
                     \/ t = <<"fault", Fatal(Run(r, ps))>>
              PROVE  \E qs \in SUBSET Procs :
                        t[2] \in {Run(r, qs), app_Stop(Run(r, qs)), Fatal(Run(r, qs))}
            <4> DEFINE y == Run(r, ps)
                       z == app_Stop(Run(r, ps))
                       f == Fatal(Run(r, ps))
            <4>a. \/ t = <<"ok", y>> \/ t = <<"terminated", y>> \/ t = <<"would block", y>>
                  \/ t = <<"fault", z>> \/ t = <<"fault", f>>
                BY Zenon, <3>4
            <4> HIDE DEF y, z, f
            <4>b. t[2] = y \/ t[2] = z \/ t[2] = f
                <5>1. <<"ok", y>>[2] = y /\ <<"terminated", y>>[2] = y
                      /\ <<"would block", y>>[2] = y
                      /\ <<"fault", z>>[2] = z /\ <<"fault", f>>[2] = f
                    BY Zenon, Components
                <5> QED BY <4>a, <5>1, Zenon
            <4>1. t[2] \in {Run(r, ps), app_Stop(Run(r, ps)), Fatal(Run(r, ps))}
                BY Zenon, <4>b DEF y, z, f
            <4>2. ps \in SUBSET Procs BY Zenon, <2>1
            <4> QED BY Zenon, <4>1, <4>2
        <3> QED BY Zenon, <2>3, <3>2, <3>3, <3>4
    <2> QED BY Zenon, <2>2, <2>3
<1> HIDE DEF r
<1>5. CASE t[1] = "fault" /\ t[2] = x BY Zenon, <1>5 DEF Follows
<1>6. CASE ~framework_IsStopping /\ t[2] = r BY Zenon, <1>2, <1>6 DEF Follows
<1>7. CASE ~framework_IsStopping /\ \E ps \in SUBSET Procs :
             t[2] \in {Run(r, ps), app_Stop(Run(r, ps)), Fatal(Run(r, ps))}
    <2>1. PICK ps \in SUBSET Procs :
             t[2] \in {Run(r, ps), app_Stop(Run(r, ps)), Fatal(Run(r, ps))}
        BY Zenon, <1>7
    <2>2. Sound(t[2]) /\ Noticed(t[2]) /\ t[2].where = "active" /\ t[2].lost = x.lost
        BY Zenon, <1>3, <2>1
    <2> QED BY Zenon, <1>7, <2>2 DEF Follows
<1> QED BY Zenon, <1>4, <1>5, <1>6, <1>7

\* What a handler may make of an app.
Kept(x, y) == Sound(y) /\ Noticed(y) /\ Follows(x, y)

\* Follows is transitive.
LEMMA FollowsTwice ==
    ASSUME NEW x, NEW y, NEW z, Follows(x, y), Follows(y, z) PROVE Follows(x, z)
BY Zenon DEF Follows

\* Kept after Follows.
LEMMA KeptTwice ==
    ASSUME NEW x, NEW y, NEW z, Follows(x, y), Kept(y, z) PROVE Kept(x, z)
BY Zenon, FollowsTwice DEF Kept

\* RestartApp, which may lose the app (apps.c:389).
LEMMA RestartKeeps ==
    ASSUME NEW a \in Apps, NEW x, Sound(x), x.where = "active", NEW y \in RestartApp(a, x)
    PROVE  Kept(x, y) /\ y.where # "none"
<1> DEFINE z == [x EXCEPT !.handler = "DeactivateAppContainer"]
<1>1. x \in App BY Zenon DEF Sound
<1>2. Like(x, z) BY Zenon, <1>1, SetHandler DEF Handlers
<1> HIDE DEF z
<1>3. Sound(z) /\ Follows(x, z) /\ z.where = "active" BY Zenon, <1>1, <1>2, LikeKeeps DEF Like
<1>4. PICK r \in app_Start(a, z) :
         y = IF r[1] = "ok" THEN r[2] ELSE DeactivateAppContainer(r[2])
    BY Zenon DEF RestartApp, z
<1>5. /\ Sound(r[2]) /\ Follows(z, r[2]) /\ r[2].where = "active"
      /\ r[1] = "ok" => Noticed(r[2])
    BY Zenon, <1>3, AppStartKeeps
<1>6. Follows(x, r[2]) BY Zenon, <1>3, <1>5, FollowsTwice
<1>7. CASE r[1] = "ok" BY Zenon, <1>4, <1>5, <1>6, <1>7 DEF Kept
<1>8. CASE r[1] # "ok"
    <2>1. /\ Sound(y) /\ Noticed(y) /\ Follows(r[2], y) /\ y.where = "inactive"
        BY Zenon, <1>4, <1>5, <1>8, DeactivateKeeps
    <2>2. Follows(x, y) BY Zenon, <1>6, <2>1, FollowsTwice
    <2> QED BY Zenon, <2>1, <2>2 DEF Kept
<1> QED BY Zenon, <1>7, <1>8

\* The stop handler of a container, whichever it is (apps.c:418).
LEMMA StopHandlerKeeps ==
    ASSUME NEW a \in Apps, NEW x, Sound(x), x.where = "active", x.state = "stopped",
           NEW y \in StopHandler(a, x)
    PROVE  Kept(x, y)
<1>1. x \in App /\ (x.lost \/ Empty(x)) BY Zenon DEF Sound
<1>2. CASE x.handler = "RestartApp"
    <2>1. y \in RestartApp(a, x) BY Zenon, <1>2 DEF StopHandler
    <2> QED BY Zenon, <2>1, RestartKeeps
<1>3. CASE x.handler = "ShutdownNextApp"
    <2>1. y = DeleteApp(x) BY Zenon, <1>3 DEF StopHandler
    <2> QED BY Zenon, <1>1, <2>1, DeleteKeeps DEF Kept
<1>4. CASE x.handler \notin {"RestartApp", "ShutdownNextApp"}
    <2>1. y = DeactivateAppContainer(x) BY Zenon, <1>4 DEF StopHandler
    <2> QED BY Zenon, <2>1, DeactivateKeeps DEF Kept
<1> QED BY Zenon, <1>2, <1>3, <1>4

\* The stop handler is called at once when the app had already stopped
\* (apps.c:1797).
LEMMA IfStoppedKeeps ==
    ASSUME NEW a \in Apps, NEW x, Sound(x), Noticed(x), x.where = "active",
           NEW y \in IfStopped(a, x)
    PROVE  Kept(x, y)
<1>1. CASE x.state = "stopped" BY Zenon, <1>1, StopHandlerKeeps DEF IfStopped
<1>2. CASE x.state # "stopped"
    <2>1. y = x BY Zenon, <1>2 DEF IfStopped
    <2> QED BY Zenon, <2>1 DEF Kept, Follows
<1> QED BY Zenon, <1>1, <1>2

\* MarkAppAsStopped: the stop is complete, checked again later, or fatal
\* (apps.c:1123).
LEMMA MarkKeeps ==
    ASSUME NEW a \in Apps, NEW x, Sound(x), x.where = "active",
           NEW y \in MarkAppAsStopped(a, x)
    PROVE  Kept(x, y) \/ (y.fatal /\ y.where = "active")
<1>1. x \in App /\ x.tries \in 0 .. MaxRetryCount + 1 BY Zenon DEF Sound, App
<1>2. CASE y = Fatal(x) BY Zenon, <1>1, <1>2, FatalIsLike
<1>3. CASE x.tries <= MaxRetryCount /\ Empty(x) /\ x.pids # {}
    <2>1. y = [x EXCEPT !.tries = @ + 1, !.queued = TRUE]
        <3>1. ~(x.tries > MaxRetryCount) BY <1>1, <1>3, SupervisorConstants
        <3> QED BY Zenon, <1>3, <3>1 DEF MarkAppAsStopped
    <2>2. x.tries + 1 \in 0 .. MaxRetryCount + 1 BY <1>1, <1>3, SupervisorConstants
    <2>3. y \in App /\ y.alive = x.alive /\ y.killed = x.killed /\ y.pids = x.pids
          /\ y.where = x.where /\ y.lost = x.lost /\ y.state = x.state
          /\ y.populated = x.populated
        BY Zenon, <1>1, <2>1, <2>2 DEF App
    <2>4. y.queued BY Zenon, <1>1, <2>1 DEF App
    <2>5. Empty(y) <=> Empty(x) BY Zenon, <2>3 DEF Empty
    <2>6. Sound(y) BY Zenon, <2>3, <2>5 DEF Sound
    <2>7. Noticed(y) /\ Follows(x, y) BY Zenon, <2>3, <2>4, <2>5 DEF Noticed, Follows
    <2> QED BY Zenon, <2>6, <2>7 DEF Kept
<1>4. CASE y # Fatal(x) /\ ~Empty(x) /\ x.pids # {}
    <2>1. y = [x EXCEPT !.tries = 0] BY Zenon, <1>4 DEF MarkAppAsStopped
    <2>2. Like(x, y) BY <1>1, <2>1, SetTries, SupervisorConstants
    <2>3. Sound(y) /\ Follows(x, y) BY Zenon, <1>1, <2>2, LikeKeeps
    <2>4. Noticed(y) BY Zenon, <1>4, <2>2 DEF Noticed, Like
    <2> QED BY Zenon, <2>3, <2>4 DEF Kept
<1>5. CASE y # Fatal(x) /\ Empty(x) /\ x.pids = {}
    <2> DEFINE z == app_StopComplete([x EXCEPT !.tries = 0, !.checkTimer = FALSE])
    <2>1. y \in StopHandler(a, z) BY Zenon, <1>5 DEF MarkAppAsStopped
    <2>2. /\ z \in App /\ z.alive = x.alive /\ z.killed = x.killed /\ z.pids = x.pids
          /\ z.where = x.where /\ z.lost = x.lost /\ z.state = "stopped"
        <3> DEFINE w == [x EXCEPT !.tries = 0, !.checkTimer = FALSE]
        <3>1. 0 \in 0 .. MaxRetryCount + 1 BY SupervisorConstants
        <3>2. /\ w \in App /\ w.alive = x.alive /\ w.killed = x.killed /\ w.pids = x.pids
              /\ w.where = x.where /\ w.lost = x.lost
            BY Zenon, <1>1, <3>1 DEF App
        <3>3. z = [w EXCEPT !.state = "stopped", !.killTimer = FALSE] BY Zenon DEF app_StopComplete
        <3> HIDE DEF w, z
        <3> QED BY Zenon, <3>2, <3>3 DEF App
    <2> HIDE DEF z
    <2>3. Empty(z) BY Zenon, <1>5, <2>2 DEF Empty
    <2>4. Sound(z) BY Zenon, <1>5, <2>2, <2>3 DEF Sound
    <2>5. Follows(x, z) BY Zenon, <2>2, <2>3 DEF Follows
    <2>6. Kept(z, y) BY Zenon, <2>1, <2>2, <2>4, StopHandlerKeeps
    <2> QED BY Zenon, <2>5, <2>6, KeptTwice
<1>6. \/ y = Fatal(x)
      \/ x.tries <= MaxRetryCount /\ Empty(x) /\ x.pids # {}
      \/ y # Fatal(x) /\ ~Empty(x) /\ x.pids # {}
      \/ y # Fatal(x) /\ Empty(x) /\ x.pids = {}
    BY <1>1, SupervisorConstants DEF MarkAppAsStopped
<1> QED BY Zenon, <1>2, <1>3, <1>4, <1>5, <1>6

\* StartApp of an app that is not running (apps.c:656).
LEMMA StartAppKeeps ==
    ASSUME NEW a \in Apps, NEW x, Sound(x), Noticed(x), NEW y \in StartApp(a, x)
    PROVE  Kept(x, y)
<1> DEFINE z == [x EXCEPT !.where = "active", !.handler = "DeactivateAppContainer"]
<1>1. x \in App BY Zenon DEF Sound
<1>2. Sound(z) /\ Noticed(z) /\ Follows(x, z) /\ z.where = "active"
    <2>1. /\ z \in App /\ z.alive = x.alive /\ z.killed = x.killed /\ z.pids = x.pids
          /\ z.where = "active" /\ z.lost = x.lost /\ z.state = x.state
          /\ z.populated = x.populated
          /\ z.msgs = x.msgs /\ z.queued = x.queued /\ z.checkTimer = x.checkTimer
        BY Zenon, <1>1 DEF App, Handlers
    <2> HIDE DEF z
    <2>2. Empty(z) <=> Empty(x) BY Zenon, <2>1 DEF Empty
    <2>3. Sound(z) BY Zenon, <2>1, <2>2 DEF Sound
    <2>4. Noticed(z) /\ Follows(x, z) BY Zenon, <2>1, <2>2 DEF Noticed, Follows
    <2> QED BY Zenon, <2>1, <2>3, <2>4
<1>3. PICK r \in app_Start(a, z) :
         y \in CASE r[2].fatal -> {r[2]}
                 [] r[1] = "terminated" ->
                        IfStopped(a, app_Stop([r[2] EXCEPT !.handler = "RestartApp"]))
                 [] r[1] = "would block" -> IfStopped(a, app_Stop(r[2]))
                 [] OTHER -> {r[2]}
    BY Zenon DEF StartApp
<1> HIDE DEF z
<1>4. Sound(r[2]) /\ Noticed(r[2]) /\ Follows(z, r[2]) /\ r[2].where = "active"
    BY Zenon, <1>2, AppStartKeeps
<1>5. Follows(x, r[2]) BY Zenon, <1>2, <1>4, FollowsTwice
<1>6. ASSUME NEW w, Sound(w), Noticed(w), Follows(r[2], w), w.where = "active",
             y \in IfStopped(a, app_Stop(w))
      PROVE  Kept(x, y)
    <2>1. /\ Sound(app_Stop(w)) /\ Noticed(app_Stop(w)) /\ Follows(w, app_Stop(w))
          /\ app_Stop(w).where = "active"
        BY Zenon, <1>6, StopKeeps
    <2>2. Kept(app_Stop(w), y) BY Zenon, <1>6, <2>1, IfStoppedKeeps
    <2>3. Follows(x, app_Stop(w)) BY Zenon, <1>5, <1>6, <2>1, FollowsTwice
    <2> QED BY Zenon, <2>2, <2>3, KeptTwice
<1>7. CASE y = r[2] BY Zenon, <1>4, <1>5, <1>7 DEF Kept
<1>8. CASE y \in IfStopped(a, app_Stop(r[2]))
    <2>1. Follows(r[2], r[2]) BY Zenon DEF Follows
    <2> QED BY Zenon, <1>4, <1>6, <1>8, <2>1
<1>9. CASE y \in IfStopped(a, app_Stop([r[2] EXCEPT !.handler = "RestartApp"]))
    <2> DEFINE w == [r[2] EXCEPT !.handler = "RestartApp"]
    <2>1. r[2] \in App BY Zenon, <1>4 DEF Sound
    <2>2. Like(r[2], w) BY Zenon, <2>1, SetHandler DEF Handlers
    <2> HIDE DEF w
    <2>3. Sound(w) /\ Noticed(w) /\ Follows(r[2], w) /\ w.where = "active"
        BY Zenon, <1>4, <2>1, <2>2, LikeKeeps DEF Like
    <2>4. y \in IfStopped(a, app_Stop(w)) BY Zenon, <1>9 DEF w
    <2> QED BY Zenon, <1>6, <2>3, <2>4
<1>10. \/ y = r[2] \/ y \in IfStopped(a, app_Stop(r[2]))
       \/ y \in IfStopped(a, app_Stop([r[2] EXCEPT !.handler = "RestartApp"]))
    <2>1. CASE r[2].fatal BY Zenon, <1>3, <2>1
    <2>2. CASE ~r[2].fatal /\ r[1] = "terminated" BY Zenon, <1>3, <2>2
    <2>3. CASE ~r[2].fatal /\ r[1] = "would block" BY Zenon, <1>3, <2>3
    <2>4. CASE ~r[2].fatal /\ r[1] # "terminated" /\ r[1] # "would block" BY Zenon, <1>3, <2>4
    <2> QED BY Zenon, <2>1, <2>2, <2>3, <2>4
<1> QED BY Zenon, <1>7, <1>8, <1>9, <1>10

\* The action that a fault asks for (apps.c:808).
LEMMA FaultedKeeps ==
    ASSUME NEW x, Sound(x), Noticed(x), NEW act
    PROVE  Kept(x, Faulted(x, act)) /\ Faulted(x, act).where = x.where
<1>1. x \in App /\ Follows(x, x) BY Zenon DEF Sound, Follows
<1> DEFINE s == app_Stop(x)
<1>2. Sound(s) /\ Noticed(s) /\ Follows(x, s) /\ s.where = x.where /\ s \in App
    <2>1. Sound(s) /\ Noticed(s) /\ Follows(x, s) /\ s.where = x.where BY Zenon, StopKeeps
    <2> QED BY Zenon, <2>1 DEF Sound
<1>3. CASE act = "restart app"
    <2> DEFINE y == [s EXCEPT !.handler = "RestartApp"]
    <2>1. Faulted(x, act) = y BY Zenon, <1>3 DEF Faulted
    <2> HIDE DEF s
    <2>2. Like(s, y) BY Zenon, <1>2, SetHandler DEF Handlers
    <2> HIDE DEF y
    <2>3. Sound(y) /\ Noticed(y) /\ Follows(s, y) /\ y.where = x.where
        BY Zenon, <1>2, <2>2, LikeKeeps DEF Like
    <2>4. Follows(x, y) BY Zenon, <1>2, <2>3, FollowsTwice
    <2> QED BY Zenon, <2>1, <2>3, <2>4 DEF Kept
<1>4. CASE act = "stop app"
    <2>1. Faulted(x, act) = s BY Zenon, <1>4 DEF Faulted
    <2> HIDE DEF s
    <2> QED BY Zenon, <1>2, <2>1 DEF Kept
<1>5. CASE act = "reboot"
    <2>1. Faulted(x, act) = Fatal(x) BY Zenon, <1>5 DEF Faulted
    <2>2. /\ Sound(Fatal(x)) /\ Noticed(Fatal(x)) /\ Fatal(x).where = x.where
          /\ Fatal(x).lost = x.lost
        BY Zenon, <1>1, FatalIsLike
    <2>3. Empty(Fatal(x)) <=> Empty(x) BY Zenon, <1>1 DEF Fatal, Empty, App
    <2> QED BY Zenon, <2>1, <2>2, <2>3 DEF Kept, Follows
<1>6. CASE act \notin {"restart app", "stop app", "reboot"}
    <2>1. Faulted(x, act) = x BY Zenon, <1>6 DEF Faulted
    <2> QED BY Zenon, <1>1, <2>1 DEF Kept
<1> QED BY Zenon, <1>3, <1>4, <1>5, <1>6

\* A process that is started again after its end (app.c:4159).
LEMMA RestartProcKeeps ==
    ASSUME NEW x, Sound(x), Noticed(x), x.state = "running" \/ x.lost, NEW p \in Procs,
           NEW y \in RestartProc(x, p)
    PROVE  Kept(x, y) /\ y.where = x.where
<1>1. PICK r \in proc_Start(x, p) :
         y = IF r[1] = "ok" THEN r[2] ELSE Faulted(r[2], "stop app")
    BY Zenon DEF RestartProc
<1>2. Sound(r[2]) /\ Noticed(r[2]) /\ Follows(x, r[2]) /\ r[2].where = x.where
    BY Zenon, ProcStartKeeps
<1>3. Kept(r[2], Faulted(r[2], "stop app")) /\ Faulted(r[2], "stop app").where = x.where
    BY Zenon, <1>2, FaultedKeeps
<1>4. Kept(x, Faulted(r[2], "stop app")) BY Zenon, <1>2, <1>3, KeptTwice
<1>5. Kept(x, r[2]) BY Zenon, <1>2 DEF Kept
<1> QED BY Zenon, <1>1, <1>2, <1>3, <1>4, <1>5

\* The end of a process, with its fault action (proc.c:2023).
LEMMA HandleAppFaultKeeps ==
    ASSUME NEW x, Sound(x), Noticed(x), NEW p \in x.pids, NEW z \in HandleAppFault(x, p)
    PROVE  Kept(x, z) /\ z.where = x.where
<1> DEFINE y == [x EXCEPT !.pids = @ \ {p}, !.cmdKill = @ \ {p}]
<1>1. x \in App /\ p \in Procs BY Zenon DEF Sound, App
<1>2. x.state = "running" \/ x.lost BY Zenon, <1>1 DEF Sound, App
<1>3. Like(x, y) BY Zenon, <1>1, Buried
<1>4. z \in RestartProc(y, p) \/ z = y \/ \E act : z = Faulted(y, act)
    BY Zenon DEF HandleAppFault
<1> HIDE DEF y
<1>5. /\ Sound(y) /\ Noticed(y) /\ Follows(x, y) /\ y.where = x.where
      /\ y.state = "running" \/ y.lost
    BY Zenon, <1>1, <1>2, <1>3, LikeKeeps DEF Like
<1>6. CASE z \in RestartProc(y, p)
    <2>1. Kept(y, z) /\ z.where = y.where BY Zenon, <1>1, <1>5, <1>6, RestartProcKeeps
    <2> QED BY Zenon, <1>5, <2>1, KeptTwice
<1>7. CASE z = y BY Zenon, <1>5, <1>7 DEF Kept
<1>8. CASE \E act : z = Faulted(y, act)
    <2>1. Kept(y, z) /\ z.where = y.where BY Zenon, <1>5, <1>8, FaultedKeeps
    <2> QED BY Zenon, <1>5, <2>1, KeptTwice
<1> QED BY Zenon, <1>4, <1>6, <1>7, <1>8

-----------------------------------------------------------------------------
(* The list of the active apps.                                            *)

\* A list of apps that one of them has left.
LEMMA WithoutKeeps ==
    ASSUME NEW list \in Seq(Apps), NEW a \in Apps
    PROVE  /\ Without(list, a) \in Seq(Apps)
           /\ \A b \in Apps \ {a} : In(b, list) => In(b, Without(list, a))
<1>1. Len(list) \in Nat /\ DOMAIN list = 1 .. Len(list)
      /\ \A i \in 1 .. Len(list) : list[i] \in Apps
    BY Zenon, LenProperties, ElementOfSeq
<1>2. CASE \A i \in DOMAIN list : list[i] # a BY Zenon, <1>2 DEF Without
<1>3. CASE \E i \in DOMAIN list : list[i] = a
    <2> DEFINE at == CHOOSE i \in DOMAIN list : list[i] = a
               w == [i \in 1 .. Len(list) - 1 |-> IF i < at THEN list[i] ELSE list[i + 1]]
    <2>1. Without(list, a) = w BY Zenon, <1>3 DEF Without
    <2>2. at \in 1 .. Len(list) /\ list[at] = a BY Zenon, <1>1, <1>3
    <2> HIDE DEF at
    <2>3. Len(list) - 1 \in Nat BY <1>1, <2>2
    <2>4. \A i \in 1 .. Len(list) - 1 : w[i] = IF i < at THEN list[i] ELSE list[i + 1]
        BY Zenon
    <2>5. w \in Seq(Apps)
        <3>1. \A i \in 1 .. Len(list) - 1 : w[i] \in Apps BY <1>1, <2>2, <2>4
        <3> QED BY <2>3, <3>1, IsASeq
    <2>6. Len(w) = Len(list) - 1 BY <2>3
    <2> HIDE DEF w
    <2>7. ASSUME NEW b \in Apps \ {a}, In(b, list) PROVE In(b, w)
        <3>1. PICK i \in 1 .. Len(list) : list[i] = b BY Zenon, <2>7 DEF In
        <3>2. i # at BY Zenon, <2>2, <3>1
        <3>3. CASE i < at
            <4>1. i \in 1 .. Len(list) - 1 BY <1>1, <2>2, <3>3
            <4>2. w[i] = b BY Zenon, <2>4, <3>1, <3>3, <4>1
            <4> QED BY Zenon, <2>6, <4>1, <4>2 DEF In
        <3>4. CASE ~(i < at)
            <4>1. i - 1 \in 1 .. Len(list) - 1 /\ ~(i - 1 < at) BY <1>1, <2>2, <3>2, <3>4
            <4>2. w[i - 1] = b BY <2>4, <3>1, <4>1
            <4> QED BY Zenon, <2>6, <4>1, <4>2 DEF In
        <3> QED BY Zenon, <3>3, <3>4
    <2> QED BY Zenon, <2>1, <2>5, <2>7
<1> QED BY Zenon, <1>2, <1>3

\* The active list after StartApp or a deactivation (apps.c:661).
LEMMA ListedKeeps ==
    ASSUME NEW list \in Seq(Apps), NEW a \in Apps, NEW x
    PROVE  /\ Listed(a, x, list) \in Seq(Apps)
           /\ \A b \in Apps \ {a} : In(b, list) => In(b, Listed(a, x, list))
           /\ x.where = "active" => In(a, Listed(a, x, list))
<1>1. DOMAIN list = 1 .. Len(list) /\ Len(list) \in Nat BY Zenon, LenProperties
<1>2. CASE x.where # "active" BY Zenon, <1>2, WithoutKeeps DEF Listed
<1>3. CASE x.where = "active" /\ \E i \in DOMAIN list : list[i] = a
    BY Zenon, <1>1, <1>3 DEF Listed, In
<1>4. CASE x.where = "active" /\ ~\E i \in DOMAIN list : list[i] = a
    <2> DEFINE l == Append(list, a)
    <2>1. Listed(a, x, list) = l BY Zenon, <1>4 DEF Listed
    <2>2. /\ l \in Seq(Apps) /\ Len(l) = Len(list) + 1
          /\ (\A i \in 1 .. Len(list) : l[i] = list[i]) /\ l[Len(list) + 1] = a
        BY AppendProperties
    <2> HIDE DEF l
    <2>3. In(a, l)
        <3>1. Len(list) + 1 \in 1 .. Len(l) BY <1>1, <2>2
        <3> QED BY Zenon, <2>2, <3>1 DEF In
    <2>4. ASSUME NEW b \in Apps, In(b, list) PROVE In(b, l)
        <3>1. PICK i \in 1 .. Len(list) : list[i] = b BY Zenon, <2>4 DEF In
        <3>2. i \in 1 .. Len(l) BY <1>1, <2>2
        <3> QED BY Zenon, <2>2, <3>1, <3>2 DEF In
    <2> QED BY Zenon, <2>1, <2>2, <2>3, <2>4
<1> QED BY Zenon, <1>2, <1>3, <1>4

\* What is left of a list after its first n were dealt with.
LEMMA RestOfList ==
    ASSUME NEW list \in Seq(Apps), NEW n \in 0 .. Len(list)
    PROVE  LET l == SubSeq(list, n + 1, Len(list))
           IN  /\ l \in Seq(Apps)
               /\ \A b \in Apps : In(b, list) => In(b, l) \/ b \in {list[i] : i \in 1 .. n}
<1> DEFINE l == SubSeq(list, n + 1, Len(list))
<1>1. Len(list) \in Nat /\ \A i \in 1 .. Len(list) : list[i] \in Apps
    BY Zenon, LenProperties, ElementOfSeq
<1>2. \A i \in n + 1 .. Len(list) : list[i] \in Apps BY <1>1
<1>3. /\ l \in Seq(Apps)
      /\ Len(l) = IF n + 1 <= Len(list) THEN Len(list) - (n + 1) + 1 ELSE 0
      /\ \A i \in 1 .. Len(list) - (n + 1) + 1 : l[i] = list[(n + 1) + i - 1]
    BY <1>1, <1>2, SubSeqProperties
<1> HIDE DEF l
<1>4. ASSUME NEW b \in Apps, In(b, list), b \notin {list[i] : i \in 1 .. n} PROVE In(b, l)
    <2>1. PICK i \in 1 .. Len(list) : list[i] = b BY Zenon, <1>4 DEF In
    <2>2. ~(i \in 1 .. n) BY Zenon, <1>4, <2>1
    <2>3. i - n \in 1 .. Len(list) - (n + 1) + 1 /\ n + 1 <= Len(list)
          /\ (n + 1) + (i - n) - 1 = i
        BY <1>1, <2>2
    <2>4. l[i - n] = b BY Zenon, <1>3, <2>1, <2>3
    <2>5. i - n \in 1 .. Len(l) BY Zenon, <1>3, <2>3
    <2> QED BY Zenon, <2>4, <2>5 DEF In
<1> QED BY Zenon, <1>3, <1>4 DEF l

-----------------------------------------------------------------------------
(* The ends of the handlers.                                               *)

\* ShutdownNextDaemon, when no app has a process left (frameworkDaemons.c:359).
LEMMA NextDaemonKeeps ==
    ASSUME NEW d \in [0 .. Daemons - 1 -> DaemonStates], NEW i \in -1 .. Daemons - 1,
           NEW apps, Quiet(apps), ShutdownNextDaemon(d, i)
    PROVE  DaemonsKept(daemon', ShutdownIndex', State', apps)
<1>1. Daemons \in Nat BY Zenon, SupervisorConstants
<1>2. CASE daemon' = d /\ ShutdownIndex' = -1 /\ State' = "exited"
    BY <1>1, <1>2 DEF DaemonsKept
<1>3. CASE \E last \in 0 .. i :
             /\ daemon' = [d EXCEPT ![last] = IF @ = "up" THEN "terminated" ELSE @]
             /\ ShutdownIndex' = last /\ State' = "stopping"
    <2>1. PICK last \in 0 .. i :
             /\ daemon' = [d EXCEPT ![last] = IF @ = "up" THEN "terminated" ELSE @]
             /\ ShutdownIndex' = last /\ State' = "stopping"
        BY Zenon, <1>3
    <2>2. last \in 0 .. Daemons - 1 /\ last \in -1 .. Daemons - 1 BY <1>1
    <2>3. daemon' \in [0 .. Daemons - 1 -> DaemonStates] BY Zenon, <2>1, <2>2 DEF DaemonStates
    <2> QED BY Zenon, <2>1, <2>2, <2>3 DEF DaemonsKept
<1> QED BY Zenon, <1>2, <1>3 DEF ShutdownNextDaemon

\* apps_Shutdown comes to the daemons only with no active app left (apps.c:1358).
LEMMA ShutdownKeeps ==
    ASSUME NEW apps, NEW list, AppsKept(apps, list),
           DaemonsKept(daemon, ShutdownIndex, State, apps), Up,
           apps_Shutdown(apps, list)
    PROVE  SupervisorInv'
<1> DEFINE Gone(n) == {a \in Apps : apps[a].where = "inactive"} \cup {list[i] : i \in 1 .. n}
           Left(n, a) == IF a \in Gone(n) THEN DeleteApp(apps[a]) ELSE apps[a]
           Halted(a) == [app_Stop(apps[a]) EXCEPT !.handler = "ShutdownNextApp"]
<1>1. PICK n \in 0 .. Len(list) :
         /\ \A i \in 1 .. n : app_Stop(apps[list[i]]).state = "stopped"
         /\ active' = SubSeq(list, n + 1, Len(list))
         /\ \/ /\ n = Len(list)
               /\ app' = [a \in Apps |-> Left(n, a)]
               /\ ShutdownNextDaemon(daemon, Daemons - 1)
            \/ /\ n < Len(list)
               /\ app' = [a \in Apps |-> IF a = list[n + 1] THEN Halted(a) ELSE Left(n, a)]
               /\ State' = "stopping" /\ UNCHANGED <<daemon, ShutdownIndex>>
    BY Zenon DEF apps_Shutdown
<1>2. /\ list \in Seq(Apps) /\ Len(list) \in Nat
      /\ \A i \in 1 .. Len(list) : list[i] \in Apps
      /\ \A a \in Apps : Sound(apps[a]) /\ Noticed(apps[a]) /\ apps[a] \in App
      /\ \A a \in Apps : apps[a].where = "active" => In(a, list)
    BY Zenon, LenProperties, ElementOfSeq DEF AppsKept, Sound
<1>3. ASSUME NEW a \in Gone(n) PROVE a \in Apps /\ (apps[a].lost \/ Empty(apps[a]))
    <2>1. CASE a \in Apps /\ apps[a].where = "inactive" BY Zenon, <1>2, <2>1 DEF Sound
    <2>2. CASE a \in {list[i] : i \in 1 .. n}
        <3>1. PICK i \in 1 .. n : a = list[i] BY Zenon, <2>2
        <3>2. i \in 1 .. Len(list) BY <1>2
        <3>3. a \in Apps /\ app_Stop(apps[a]).state = "stopped" BY Zenon, <1>1, <1>2, <3>1, <3>2
        <3>4. Sound(apps[a]) BY Zenon, <1>2, <3>3
        <3> QED BY Zenon, <3>3, <3>4, StopKeeps
    <2> QED BY Zenon, <1>3, <2>1, <2>2
<1>4. ASSUME NEW a \in Apps, a \in Gone(n)
      PROVE  /\ Left(n, a) = DeleteApp(apps[a])
             /\ Sound(Left(n, a)) /\ Noticed(Left(n, a)) /\ Left(n, a).where = "none"
             /\ apps[a].lost => Left(n, a).lost
             /\ Left(n, a).lost \/ Empty(Left(n, a))
    <2>1. apps[a] \in App /\ (apps[a].lost \/ Empty(apps[a])) BY Zenon, <1>2, <1>3, <1>4
    <2>2. Left(n, a) = DeleteApp(apps[a]) BY Zenon, <1>4
    <2> QED BY Zenon, <2>1, <2>2, DeleteKeeps DEF Follows
<1>5. ASSUME NEW a \in Apps
      PROVE  /\ Sound(Left(n, a)) /\ Noticed(Left(n, a))
             /\ Quiet(apps) => Left(n, a).lost \/ Empty(Left(n, a))
             /\ Left(n, a).where = "active" => apps[a].where = "active" /\ a \notin Gone(n)
    <2>1. CASE a \in Gone(n) BY Zenon, <1>4, <2>1
    <2>2. CASE a \notin Gone(n)
        <3>1. Left(n, a) = apps[a] BY Zenon, <2>2
        <3> QED BY Zenon, <1>2, <2>2, <3>1 DEF Quiet
    <2> QED BY Zenon, <2>1, <2>2
<1>6. ASSUME NEW a \in Apps
      PROVE  /\ Sound(Halted(a)) /\ Noticed(Halted(a))
             /\ Quiet(apps) => Halted(a).lost \/ Empty(Halted(a))
    <2> DEFINE y == app_Stop(apps[a])
    <2>1. /\ Sound(y) /\ Noticed(y) /\ (Empty(y) <=> Empty(apps[a])) /\ y.lost = apps[a].lost
        BY Zenon, <1>2, StopKeeps
    <2>2. y \in App BY Zenon, <2>1 DEF Sound
    <2>3. Like(y, Halted(a))
        <3> HIDE DEF y
        <3>1. Like(y, [y EXCEPT !.handler = "ShutdownNextApp"]) BY Zenon, <2>2, SetHandler DEF Handlers
        <3> QED BY Zenon, <3>1 DEF y
    <2> HIDE DEF y, Halted
    <2>4. Sound(Halted(a)) /\ Noticed(Halted(a)) BY Zenon, <2>1, <2>2, <2>3, LikeKeeps
    <2>5. Quiet(apps) => Halted(a).lost \/ Empty(Halted(a)) BY Zenon, <2>1, <2>3 DEF Like, Quiet
    <2> QED BY Zenon, <2>4, <2>5
<1>7. /\ active' \in Seq(Apps)
      /\ \A a \in Apps : In(a, list) => In(a, active') \/ a \in Gone(n)
    <2>1. /\ SubSeq(list, n + 1, Len(list)) \in Seq(Apps)
          /\ \A b \in Apps : In(b, list) => \/ In(b, SubSeq(list, n + 1, Len(list)))
                                           \/ b \in {list[i] : i \in 1 .. n}
        BY Zenon, <1>2, RestOfList
    <2> QED BY Zenon, <1>1, <2>1
<1> HIDE DEF Gone, Left, Halted
<1>8. CASE /\ n = Len(list)
           /\ app' = [a \in Apps |-> Left(n, a)]
           /\ ShutdownNextDaemon(daemon, Daemons - 1)
    <2>1. \A a \in Apps : app'[a] = Left(n, a) BY Zenon, <1>8
    <2>2. AppsKept(app', active')
        <3>1. app' = [a \in Apps |-> app'[a]] BY Zenon, <1>8
        <3>2. \A a \in Apps : Sound(app'[a]) /\ Noticed(app'[a]) BY Zenon, <1>5, <2>1
        <3>3. \A a \in Apps : app'[a].where = "active" => In(a, active')
            BY Zenon, <1>2, <1>5, <1>7, <2>1
        <3> QED BY Zenon, <1>7, <3>1, <3>2, <3>3 DEF AppsKept
    <2>3. Quiet(app')
        <3> SUFFICES ASSUME NEW a \in Apps PROVE app'[a].lost \/ Empty(app'[a])
            BY Zenon DEF Quiet
        <3>1. CASE a \in Gone(n) BY Zenon, <1>4, <2>1, <3>1
        <3>2. CASE a \notin Gone(n)
            <4>1. app'[a] = apps[a] BY Zenon, <2>1, <3>2 DEF Left
            <4>2. apps[a].where # "active"
                <5>1. ~In(a, list) BY Zenon, <1>2, <1>8, <3>2 DEF In, Gone
                <5> QED BY Zenon, <1>2, <5>1
            <4> QED BY Zenon, <1>2, <4>1, <4>2 DEF Sound
        <3> QED BY Zenon, <3>1, <3>2
    <2>4. /\ daemon \in [0 .. Daemons - 1 -> DaemonStates]
          /\ Daemons - 1 \in -1 .. Daemons - 1
        BY SupervisorConstants DEF DaemonsKept
    <2>5. DaemonsKept(daemon', ShutdownIndex', State', app')
        BY Zenon, <1>8, <2>3, <2>4, NextDaemonKeeps
    <2> QED BY Zenon, <2>2, <2>5 DEF SupervisorInv
<1>9. CASE /\ n < Len(list)
           /\ app' = [a \in Apps |-> IF a = list[n + 1] THEN Halted(a) ELSE Left(n, a)]
           /\ State' = "stopping" /\ UNCHANGED <<daemon, ShutdownIndex>>
    <2>1. \A a \in Apps : app'[a] = Halted(a) \/ app'[a] = Left(n, a) BY Zenon, <1>9
    <2>2. AppsKept(app', active')
        <3>1. app' = [a \in Apps |-> app'[a]] BY Zenon, <1>9
        <3>2. \A a \in Apps : Sound(app'[a]) /\ Noticed(app'[a]) BY Zenon, <1>5, <1>6, <2>1
        <3>3. ASSUME NEW a \in Apps, app'[a].where = "active" PROVE In(a, active')
            <4>1. CASE a = list[n + 1]
                <5>1. /\ n + 1 \in 1 .. Len(list) /\ n + 1 \in Int /\ Len(list) \in Int
                      /\ \A i \in n + 1 .. Len(list) : list[i] \in Apps
                    BY <1>2, <1>9
                <5>2. /\ Len(active') = IF n + 1 <= Len(list) THEN Len(list) - (n + 1) + 1 ELSE 0
                      /\ \A i \in 1 .. Len(list) - (n + 1) + 1 : active'[i] = list[(n + 1) + i - 1]
                    BY <1>1, <5>1, SubSeqProperties
                <5>3. 1 \in 1 .. Len(list) - (n + 1) + 1 /\ (n + 1) + 1 - 1 = n + 1 BY <5>1
                <5>4. active'[1] = a BY Zenon, <4>1, <5>2, <5>3
                <5>5. 1 \in 1 .. Len(active') BY <5>1, <5>2
                <5> QED BY Zenon, <5>4, <5>5 DEF In
            <4>2. CASE a # list[n + 1]
                <5>1. app'[a] = Left(n, a) BY Zenon, <1>9, <4>2
                <5> QED BY Zenon, <1>2, <1>5, <1>7, <3>3, <5>1
            <4> QED BY Zenon, <4>1, <4>2
        <3> QED BY Zenon, <1>7, <3>1, <3>2, <3>3 DEF AppsKept
    <2>3. Quiet(apps) => Quiet(app')
        <3> SUFFICES ASSUME Quiet(apps), NEW a \in Apps PROVE app'[a].lost \/ Empty(app'[a])
            BY Zenon DEF Quiet
        <3> QED BY Zenon, <1>5, <1>6, <2>1
    <2>4. DaemonsKept(daemon', ShutdownIndex', State', app')
        BY Zenon, <1>9, <2>3 DEF DaemonsKept, Up
    <2> QED BY Zenon, <2>2, <2>4 DEF SupervisorInv
<1> QED BY Zenon, <1>1, <1>8, <1>9

\* A reboot leaves nothing of the apps.
LEMMA RebootKeeps ==
    ASSUME SupervisorInv, framework_Reboot PROVE SupervisorInv'
<1>1. /\ app' = [b \in Apps |-> NewApp] /\ active' = <<>> /\ State' = "down"
      /\ daemon' = daemon /\ ShutdownIndex' = ShutdownIndex
    BY Zenon DEF framework_Reboot
<1>2. \A b \in Apps : app'[b] = NewApp BY Zenon, <1>1
<1>3. Quiet(app') BY Zenon, <1>2, NewAppIsSound DEF Quiet
<1>4. NewApp.where = "none" BY Zenon DEF NewApp
<1>5. AppsKept(app', active')
    BY Zenon, <1>1, <1>2, <1>4, NewAppIsSound, EmptySeq DEF AppsKept
<1>6. DaemonsKept(daemon', ShutdownIndex', State', app')
    BY Zenon, <1>1, <1>3 DEF SupervisorInv, DaemonsKept
<1> QED BY Zenon, <1>5, <1>6 DEF SupervisorInv

\* The end of a handler that made y of app a.
LEMMA EndsKeeps ==
    ASSUME SupervisorInv, Up, NEW a \in Apps, NEW y,
           Kept(app[a], y) \/ (y.fatal /\ (y.where # "none" \/ app[a].where # "active")),
           NEW list, list = active \/ list = Without(active, a), EndsWith(a, y, list)
    PROVE  SupervisorInv'
<1>0. /\ AppsKept(app, active) /\ DaemonsKept(daemon, ShutdownIndex, State, app)
      /\ active \in Seq(Apps)
    BY Zenon DEF SupervisorInv, AppsKept
<1>1. /\ list \in Seq(Apps)
      /\ \A b \in Apps \ {a} : In(b, active) => In(b, list)
    BY Zenon, <1>0, WithoutKeeps
<1> DEFINE apps == [app EXCEPT ![a] = y]
<1>3. apps[a] = y /\ (\A b \in Apps \ {a} : apps[b] = app[b]) /\ apps = [b \in Apps |-> apps[b]]
    BY Zenon, <1>0 DEF AppsKept
<1>4. ASSUME Kept(app[a], y)
      PROVE  /\ \A b \in Apps : Sound(apps[b]) /\ Noticed(apps[b])
             /\ DaemonsKept(daemon, ShutdownIndex, State, apps)
    <2> HIDE DEF apps
    <2>1. \A b \in Apps : Sound(apps[b]) /\ Noticed(apps[b])
        BY Zenon, <1>0, <1>3, <1>4 DEF AppsKept, Kept
    <2>2. State # "normal" /\ Quiet(app) => Quiet(apps)
        <3> SUFFICES ASSUME State # "normal", Quiet(app), NEW b \in Apps
                     PROVE  apps[b].lost \/ Empty(apps[b])
            BY Zenon DEF Quiet
        <3>1. CASE b = a BY Zenon, <1>3, <1>4, <3>1 DEF Kept, Follows, framework_IsStopping, Quiet
        <3>2. CASE b # a BY Zenon, <1>3, <3>2 DEF Quiet
        <3> QED BY Zenon, <3>1, <3>2
    <2>3. DaemonsKept(daemon, ShutdownIndex, State, apps)
        BY Zenon, <1>0, <2>2 DEF DaemonsKept
    <2> QED BY Zenon, <2>1, <2>3
<1>5. CASE y.where = "none" /\ app[a].where = "active"
    <2>1. Kept(app[a], y) BY Zenon, <1>5
    <2>2. apps_Shutdown(apps, Without(list, a)) BY Zenon, <1>5 DEF EndsWith
    <2>3. /\ Without(list, a) \in Seq(Apps)
          /\ \A b \in Apps \ {a} : In(b, list) => In(b, Without(list, a))
        BY Zenon, <1>1, WithoutKeeps
    <2> HIDE DEF apps
    <2>4. \A b \in Apps : apps[b].where = "active" => In(b, Without(list, a))
        BY Zenon, <1>0, <1>1, <1>3, <1>5, <2>3 DEF AppsKept
    <2>5. AppsKept(apps, Without(list, a)) BY Zenon, <1>3, <1>4, <2>1, <2>3, <2>4 DEF AppsKept
    <2>6. DaemonsKept(daemon, ShutdownIndex, State, apps) BY Zenon, <1>4, <2>1
    <2> QED BY Zenon, <2>2, <2>5, <2>6, ShutdownKeeps
<1>6. CASE ~(y.where = "none" /\ app[a].where = "active") /\ y.fatal
    BY Zenon, <1>6, RebootKeeps DEF EndsWith
<1>7. CASE ~(y.where = "none" /\ app[a].where = "active") /\ ~y.fatal
    <2>1. Kept(app[a], y) BY Zenon, <1>7
    <2>2. /\ app' = apps /\ active' = Listed(a, y, list)
          /\ State' = State /\ daemon' = daemon /\ ShutdownIndex' = ShutdownIndex
        BY Zenon, <1>7 DEF EndsWith
    <2>3. /\ Listed(a, y, list) \in Seq(Apps)
          /\ \A b \in Apps \ {a} : In(b, list) => In(b, Listed(a, y, list))
          /\ y.where = "active" => In(a, Listed(a, y, list))
        BY Zenon, <1>1, ListedKeeps
    <2> HIDE DEF apps
    <2>4. \A b \in Apps : apps[b].where = "active" => In(b, Listed(a, y, list))
        BY Zenon, <1>0, <1>1, <1>3, <2>3 DEF AppsKept
    <2>5. AppsKept(apps, Listed(a, y, list)) BY Zenon, <1>3, <1>4, <2>1, <2>3, <2>4 DEF AppsKept
    <2>6. DaemonsKept(daemon, ShutdownIndex, State, apps) BY Zenon, <1>4, <2>1
    <2> QED BY Zenon, <2>2, <2>5, <2>6 DEF SupervisorInv
<1> QED BY Zenon, <1>5, <1>6, <1>7

\* A step that changes an app outside of the handlers' common end.
LEMMA DirectKeeps ==
    ASSUME SupervisorInv, NEW a \in Apps, NEW y, Kept(app[a], y),
           y.where = "active" => app[a].where = "active",
           app' = [app EXCEPT ![a] = y], UNCHANGED <<active, State, daemon, ShutdownIndex>>
    PROVE  SupervisorInv'
<1>0. AppsKept(app, active) /\ DaemonsKept(daemon, ShutdownIndex, State, app)
    BY Zenon DEF SupervisorInv
<1>1. app'[a] = y /\ (\A b \in Apps \ {a} : app'[b] = app[b]) /\ app' = [b \in Apps |-> app'[b]]
    BY Zenon, <1>0 DEF AppsKept
<1>2. \A b \in Apps : Sound(app'[b]) /\ Noticed(app'[b]) BY Zenon, <1>0, <1>1 DEF AppsKept, Kept
<1>3. \A b \in Apps : app'[b].where = "active" => In(b, active) BY Zenon, <1>0, <1>1 DEF AppsKept
<1>4. AppsKept(app', active) BY Zenon, <1>0, <1>1, <1>2, <1>3 DEF AppsKept
<1>5. State # "normal" /\ Quiet(app) => Quiet(app')
    <2> SUFFICES ASSUME State # "normal", Quiet(app), NEW b \in Apps
                 PROVE  app'[b].lost \/ Empty(app'[b])
        BY Zenon DEF Quiet
    <2>1. CASE b = a BY Zenon, <1>1, <2>1 DEF Kept, Follows, framework_IsStopping, Quiet
    <2>2. CASE b # a BY Zenon, <1>1, <2>2 DEF Quiet
    <2> QED BY Zenon, <2>1, <2>2
<1>6. DaemonsKept(daemon, ShutdownIndex, State, app') BY Zenon, <1>0, <1>5 DEF DaemonsKept
<1> QED BY Zenon, <1>4, <1>6 DEF SupervisorInv

\* CreateApp, of an app that may have a container (apps.c:568).
LEMMA CreateAppKeeps ==
    ASSUME NEW x, Sound(x), Noticed(x)
    PROVE  Kept(x, CreateApp(x)) /\ CreateApp(x).where # "none"
           /\ CreateApp(x).state = x.state /\ CreateApp(x).pids = x.pids
<1>1. x \in App BY Zenon DEF Sound
<1>2. CASE x.where = "none"
    <2> DEFINE y == CreateApp(x)
    <2>1. /\ y \in App /\ y.alive = x.alive /\ y.killed = x.killed /\ y.pids = x.pids
          /\ y.where = "inactive" /\ y.lost = x.lost /\ y.state = x.state
          /\ y.populated = x.populated
          /\ y.msgs = x.msgs /\ y.queued = x.queued /\ y.checkTimer = x.checkTimer
        BY Zenon, <1>1, <1>2 DEF CreateApp, App
    <2> HIDE DEF y
    <2>2. Empty(y) <=> Empty(x) BY Zenon, <2>1 DEF Empty
    <2>3. Sound(y) BY Zenon, <1>2, <2>1, <2>2 DEF Sound
    <2>4. Noticed(y) /\ Follows(x, y) BY Zenon, <2>1, <2>2 DEF Noticed, Follows
    <2> QED BY Zenon, <2>1, <2>3, <2>4 DEF Kept, y
<1>3. CASE x.where # "none"
    <2>1. CreateApp(x) = x BY Zenon, <1>3 DEF CreateApp
    <2> QED BY Zenon, <1>3, <2>1 DEF Kept, Follows
<1> QED BY Zenon, <1>2, <1>3

\* The requests of clients preserve the invariant.
LEMMA RequestsKeep ==
    ASSUME SupervisorInv, NEW a \in Apps,
           \/ appCtrl_GetRef(a) \/ appCtrl_Start(a) \/ appCtrl_Stop(a)
           \/ DeletesInactiveApp(a) \/ le_framework_Stop
    PROVE  SupervisorInv'
<1> DEFINE x == app[a]
<1>0. Sound(x) /\ Noticed(x) /\ x \in App BY Zenon DEF SupervisorInv, AppsKept, Sound
<1>1. Kept(x, CreateApp(x)) /\ CreateApp(x).where # "none" BY Zenon, <1>0, CreateAppKeeps
<1> HIDE DEF x
<1>2. CASE appCtrl_GetRef(a)
    <2>1. Up /\ EndsWith(a, CreateApp(x), active) BY Zenon, <1>2 DEF appCtrl_GetRef, Ends, x
    <2>2. Kept(app[a], CreateApp(x)) BY Zenon, <1>1 DEF x
    <2> QED BY Zenon, <2>1, <2>2, EndsKeeps
<1>3. CASE appCtrl_Start(a)
    <2>1. PICK y \in StartApp(a, CreateApp(x)) : Up /\ EndsWith(a, y, active)
        BY Zenon, <1>3 DEF appCtrl_Start, Ends, x
    <2>2. Sound(CreateApp(x)) /\ Noticed(CreateApp(x)) /\ Follows(x, CreateApp(x))
        BY Zenon, <1>1 DEF Kept
    <2>3. Kept(CreateApp(x), y) BY Zenon, <2>1, <2>2, StartAppKeeps
    <2>4. Kept(app[a], y) BY Zenon, <2>2, <2>3, KeptTwice DEF x
    <2> QED BY Zenon, <2>1, <2>4, EndsKeeps
<1>4. CASE appCtrl_Stop(a)
    <2> DEFINE h == [x EXCEPT !.handler = "RespondToStopAppCmd"]
               z == app_Stop(h)
    <2>1. x.where = "active" BY Zenon, <1>4 DEF appCtrl_Stop, x
    <2>2. PICK y \in IfStopped(a, z) : Up /\ EndsWith(a, y, active)
        BY Zenon, <1>4 DEF appCtrl_Stop, Ends, x
    <2>3. Like(x, h) BY Zenon, <1>0, SetHandler DEF Handlers
    <2> HIDE DEF h
    <2>4. Sound(h) /\ Noticed(h) /\ Follows(x, h) /\ h.where = "active"
        BY Zenon, <1>0, <2>1, <2>3, LikeKeeps DEF Like
    <2>5. Sound(z) /\ Noticed(z) /\ Follows(h, z) /\ z.where = "active" BY Zenon, <2>4, StopKeeps
    <2> HIDE DEF z
    <2>6. Follows(x, z) BY Zenon, <2>4, <2>5, FollowsTwice
    <2>7. Kept(z, y) BY Zenon, <2>2, <2>5, IfStoppedKeeps
    <2>8. Kept(app[a], y) BY Zenon, <2>6, <2>7, KeptTwice DEF x
    <2> QED BY Zenon, <2>2, <2>8, EndsKeeps
<1>5. CASE DeletesInactiveApp(a)
    <2>1. /\ x.where = "inactive" /\ app' = [app EXCEPT ![a] = DeleteApp(x)]
          /\ UNCHANGED <<active, State, daemon, ShutdownIndex>>
        BY Zenon, <1>5 DEF DeletesInactiveApp, x
    <2>2. x.lost \/ Empty(x) BY Zenon, <1>0, <2>1 DEF Sound
    <2>3. Kept(app[a], DeleteApp(x)) /\ DeleteApp(x).where = "none"
        BY Zenon, <1>0, <2>2, DeleteKeeps DEF Kept, x
    <2> QED BY Zenon, <2>1, <2>3, DirectKeeps
<1>6. CASE le_framework_Stop
    <2>1. Up /\ apps_Shutdown(app, active) BY Zenon, <1>6 DEF le_framework_Stop, Up
    <2> QED BY Zenon, <2>1, ShutdownKeeps DEF SupervisorInv
<1> QED BY Zenon, <1>2, <1>3, <1>4, <1>5, <1>6

\* The requests about one process do (apps.c:3079, 3117).
LEMMA ProcessRequestsKeep ==
    ASSUME SupervisorInv, NEW a \in Apps, NEW p \in ProcsOf[a],
           le_appProc_Start(a, p) \/ le_appProc_Delete(a, p)
    PROVE  SupervisorInv'
<1>0. Sound(app[a]) /\ Noticed(app[a]) /\ app[a] \in App /\ p \in Procs
    BY Zenon DEF SupervisorInv, AppsKept, Sound, Procs
<1>1. CASE le_appProc_Start(a, p)
    <2> DEFINE x == CreateApp(app[a])
    <2>1. Sound(x) /\ Noticed(x) /\ Follows(app[a], x) /\ x.where # "none"
        BY Zenon, <1>0, CreateAppKeeps DEF Kept
    <2>2. x \in App BY Zenon, <2>1 DEF Sound
    <2>3. \/ x.state = "running" /\ Up /\ \E r \in proc_Start(x, p) : EndsWith(a, r[2], active)
          \/ Up /\ EndsWith(a, Fatal(x), active)
          \/ Up /\ \E y \in StartApp(a, x) : EndsWith(a, y, Without(active, a))
        BY Zenon, <1>1 DEF le_appProc_Start, Ends
    <2> HIDE DEF x
    <2>4. CASE x.state = "running" /\ Up /\ \E r \in proc_Start(x, p) : EndsWith(a, r[2], active)
        <3>1. PICK r \in proc_Start(x, p) : EndsWith(a, r[2], active) BY Zenon, <2>4
        <3>2. Sound(r[2]) /\ Noticed(r[2]) /\ Follows(x, r[2])
            BY Zenon, <1>0, <2>1, <2>4, ProcStartKeeps
        <3>3. Kept(app[a], r[2]) BY Zenon, <2>1, <3>2, FollowsTwice DEF Kept
        <3> QED BY Zenon, <2>4, <3>1, <3>3, EndsKeeps
    <2>5. CASE Up /\ EndsWith(a, Fatal(x), active)
        <3>1. Fatal(x).fatal /\ Fatal(x).where # "none" BY Zenon, <2>1, <2>2, FatalIsLike
        <3> QED BY Zenon, <2>5, <3>1, EndsKeeps
    <2>6. CASE Up /\ \E y \in StartApp(a, x) : EndsWith(a, y, Without(active, a))
        <3>1. PICK y \in StartApp(a, x) : EndsWith(a, y, Without(active, a)) BY Zenon, <2>6
        <3>2. Kept(x, y) BY Zenon, <2>1, <3>1, StartAppKeeps
        <3>3. Kept(app[a], y) BY Zenon, <2>1, <3>2, KeptTwice
        <3> QED BY Zenon, <2>6, <3>1, <3>3, EndsKeeps
    <2> QED BY Zenon, <2>3, <2>4, <2>5, <2>6
<1>2. CASE le_appProc_Delete(a, p)
    <2> DEFINE y == StopProc(app[a], p)
    <2>1. Up /\ EndsWith(a, y, active) BY Zenon, <1>2 DEF le_appProc_Delete, Ends
    <2>2. Like(app[a], y) BY Zenon, <1>0, StopProcKeeps
    <2> HIDE DEF y
    <2>3. Kept(app[a], y) BY Zenon, <1>0, <2>2, LikeKeeps DEF Kept
    <2> QED BY Zenon, <2>1, <2>3, EndsKeeps
<1> QED BY Zenon, <1>1, <1>2

\* The SIGCHLD of a process of an app does (apps.c:1482).
LEMMA SigChildKeeps ==
    ASSUME SupervisorInv, NEW a \in Apps, NEW p \in ProcsOf[a], apps_SigChildHandler(a, p)
    PROVE  SupervisorInv'
<1> DEFINE x == [app[a] EXCEPT !.zombies = @ \ {p}]
<1>0. Sound(app[a]) /\ Noticed(app[a]) /\ app[a] \in App BY Zenon DEF SupervisorInv, AppsKept, Sound
<1>1. Like(app[a], x) BY Zenon, <1>0, Reaped
<1>2. PICK y \in IF x.where = "active" /\ p \in x.pids THEN HandleAppFault(x, p) ELSE {x} :
         Up /\ EndsWith(a, y, active)
    BY Zenon DEF apps_SigChildHandler, Ends
<1> HIDE DEF x
<1>3. Sound(x) /\ Noticed(x) /\ Follows(app[a], x) BY Zenon, <1>0, <1>1, LikeKeeps
<1>4. CASE p \in x.pids /\ y \in HandleAppFault(x, p)
    <2>1. Kept(x, y) BY Zenon, <1>3, <1>4, HandleAppFaultKeeps
    <2>2. Kept(app[a], y) BY Zenon, <1>3, <2>1, KeptTwice
    <2> QED BY Zenon, <1>2, <2>2, EndsKeeps
<1>5. CASE y = x
    <2>1. Kept(app[a], y) BY Zenon, <1>3, <1>5 DEF Kept
    <2> QED BY Zenon, <1>2, <2>1, EndsKeeps
<1> QED BY Zenon, <1>2, <1>4, <1>5

\* The notification of an empty cgroup, and the checks that are made again.
LEMMA StopEventsKeep ==
    ASSUME SupervisorInv, NEW a \in Apps,
           \/ AppStopHandler(a) \/ WaitAppStop(a) \/ WaitAppStopHandler(a)
           \/ StaleStopCheck(a) \/ HardKillApp(a)
    PROVE  SupervisorInv'
<1>0. Sound(app[a]) /\ Noticed(app[a]) /\ app[a] \in App BY Zenon DEF SupervisorInv, AppsKept, Sound
<1>1. ASSUME NEW x \in App, x.where = app[a].where, x.lost = app[a].lost,
             x.state = app[a].state, x.pids = app[a].pids, x.populated = app[a].populated,
             x.alive = app[a].alive, x.killed = app[a].killed
      PROVE  Sound(x) /\ Follows(app[a], x) /\ (app[a].where # "active" => Noticed(x))
    <2>1. Empty(x) <=> Empty(app[a]) BY Zenon, <1>1 DEF Empty
    <2>2. Sound(x) BY Zenon, <1>0, <1>1, <2>1 DEF Sound
    <2>3. Follows(app[a], x) BY Zenon, <1>1, <2>1 DEF Follows
    <2>4. app[a].where # "active" => Noticed(x) BY Zenon, <1>0, <1>1 DEF Sound, Noticed
    <2> QED BY Zenon, <2>2, <2>3, <2>4
<1>2. ASSUME NEW x \in App, x.where = app[a].where, Sound(x), Follows(app[a], x),
             app[a].where # "active" => Noticed(x), Up,
             NEW y \in IF x.where = "active" THEN MarkAppAsStopped(a, x) ELSE {x},
             EndsWith(a, y, active)
      PROVE  SupervisorInv'
    <2>1. CASE x.where = "active"
        <3>1. Kept(x, y) \/ (y.fatal /\ y.where = "active") BY Zenon, <1>2, <2>1, MarkKeeps
        <3>2. Kept(app[a], y) \/ (y.fatal /\ y.where # "none") BY Zenon, <1>2, <3>1, KeptTwice
        <3> QED BY Zenon, <1>2, <3>2, EndsKeeps
    <2>2. CASE x.where # "active"
        <3>1. Kept(app[a], y) BY Zenon, <1>2, <2>2 DEF Kept
        <3> QED BY Zenon, <1>2, <3>1, EndsKeeps
    <2> QED BY Zenon, <2>1, <2>2
<1>3. CASE AppStopHandler(a)
    <2> DEFINE x == [app[a] EXCEPT !.msgs = @ - 1]
    <2>1. app[a].msgs - 1 \in 0 .. MaxMsgs
        BY <1>0, <1>3, SupervisorConstants DEF AppStopHandler, App
    <2>2. /\ x \in App /\ x.where = app[a].where /\ x.lost = app[a].lost
          /\ x.state = app[a].state /\ x.pids = app[a].pids /\ x.populated = app[a].populated
          /\ x.alive = app[a].alive /\ x.killed = app[a].killed
        BY Zenon, <1>0, <2>1 DEF App
    <2>3. PICK y \in IF x.where = "active" THEN MarkAppAsStopped(a, x) ELSE {x} :
             Up /\ EndsWith(a, y, active)
        BY Zenon, <1>3 DEF AppStopHandler, Ends
    <2> HIDE DEF x
    <2>4. Sound(x) /\ Follows(app[a], x) /\ (app[a].where # "active" => Noticed(x))
        BY Zenon, <1>1, <2>2
    <2> QED BY Zenon, <1>2, <2>2, <2>3, <2>4
<1>4. CASE WaitAppStopHandler(a)
    <2> DEFINE x == [app[a] EXCEPT !.checkTimer = FALSE]
    <2>2. /\ x \in App /\ x.where = app[a].where /\ x.lost = app[a].lost
          /\ x.state = app[a].state /\ x.pids = app[a].pids /\ x.populated = app[a].populated
          /\ x.alive = app[a].alive /\ x.killed = app[a].killed
        BY Zenon, <1>0 DEF App
    <2>3. PICK y \in IF x.where = "active" THEN MarkAppAsStopped(a, x) ELSE {x} :
             Up /\ EndsWith(a, y, active)
        BY Zenon, <1>4 DEF WaitAppStopHandler, Ends
    <2> HIDE DEF x
    <2>4. Sound(x) /\ Follows(app[a], x) /\ (app[a].where # "active" => Noticed(x))
        BY Zenon, <1>1, <2>2
    <2> QED BY Zenon, <1>2, <2>2, <2>3, <2>4
<1>5. CASE WaitAppStop(a)
    <2> DEFINE x == [app[a] EXCEPT !.queued = FALSE, !.checkTimer = TRUE]
    <2>1. Up /\ EndsWith(a, x, active) BY Zenon, <1>5 DEF WaitAppStop, Ends
    <2>2. /\ x \in App /\ x.where = app[a].where /\ x.lost = app[a].lost
          /\ x.state = app[a].state /\ x.pids = app[a].pids /\ x.populated = app[a].populated
          /\ x.alive = app[a].alive /\ x.killed = app[a].killed
        BY Zenon, <1>0 DEF App
    <2>3. x.checkTimer BY Zenon, <1>0 DEF App
    <2> HIDE DEF x
    <2>4. Sound(x) /\ Follows(app[a], x) BY Zenon, <1>1, <2>2
    <2>5. Kept(app[a], x) BY Zenon, <2>3, <2>4 DEF Kept, Noticed
    <2> QED BY Zenon, <2>1, <2>5, EndsKeeps
<1>6. CASE StaleStopCheck(a)
    <2> DEFINE x == [app[a] EXCEPT !.dangling = FALSE]
    <2>1. PICK y \in {x, Fatal(x)} : Up /\ EndsWith(a, y, active)
        BY Zenon, <1>6 DEF StaleStopCheck, Ends
    <2>2. /\ Like(app[a], x) /\ x \in App /\ x.where = app[a].where
        BY Zenon, <1>0 DEF App, Like, Empty
    <2> HIDE DEF x
    <2>3. Kept(app[a], x) BY Zenon, <1>0, <2>2, LikeKeeps DEF Kept
    <2>4. Fatal(x).fatal /\ Fatal(x).where = app[a].where BY Zenon, <2>2, FatalIsLike
    <2>5. \/ Kept(app[a], y)
          \/ (y.fatal /\ (y.where # "none" \/ app[a].where # "active"))
        BY Zenon, <2>1, <2>3, <2>4
    <2> QED BY Zenon, <2>1, <2>5, EndsKeeps
<1>7. CASE HardKillApp(a)
    <2> DEFINE x == [app[a] EXCEPT !.killTimer = FALSE]
               y == KillAppProcs(x, TRUE)
    <2>1. Up /\ EndsWith(a, y, active) BY Zenon, <1>7 DEF HardKillApp, Ends
    <2>2. Like(app[a], x) BY Zenon, <1>0, SetTimer
    <2> HIDE DEF x
    <2>3. Like(x, y) BY Zenon, <2>2, KillKeeps DEF Like
    <2> HIDE DEF y
    <2>4. Like(app[a], y) BY Zenon, <2>2, <2>3, LikeTwice
    <2>5. Kept(app[a], y) BY Zenon, <1>0, <2>4, LikeKeeps DEF Kept
    <2> QED BY Zenon, <2>1, <2>5, EndsKeeps
<1> QED BY Zenon, <1>3, <1>4, <1>5, <1>6, <1>7

\* The time-out of a watchdog does (apps.c:2469).
LEMMA WatchdogKeeps ==
    ASSUME SupervisorInv, NEW a \in Apps, NEW p \in ProcsOf[a], wdog_WatchdogTimedOut(a, p)
    PROVE  SupervisorInv'
<1> DEFINE x == app[a]
           y == StopProc(x, p)
           z == [y EXCEPT !.restart = @ \cup {p}]
<1>0. Sound(x) /\ Noticed(x) /\ x \in App /\ p \in Procs
    BY Zenon DEF SupervisorInv, AppsKept, Sound, Procs
<1>1. Up /\ x.where = "active" BY Zenon DEF wdog_WatchdogTimedOut
<1>2. PICK w : /\ EndsWith(a, w, active)
               /\ \/ w \in IfStopped(a, y) \/ w \in IfStopped(a, z) \/ w = Fatal(x)
                  \/ \E act \in WatchdogActions : w \in IfStopped(a, Faulted(x, act))
    <2>1. PICK act \in WatchdogActions :
             \E w \in CASE act = "stop" -> IfStopped(a, y)
                        [] act = "restart" -> IfStopped(a, z)
                        [] act = "reboot" -> {Fatal(x)}
                        [] OTHER -> IfStopped(a, Faulted(x, act)) : EndsWith(a, w, active)
        BY Zenon DEF wdog_WatchdogTimedOut, Ends
    <2>2. PICK w \in CASE act = "stop" -> IfStopped(a, y)
                       [] act = "restart" -> IfStopped(a, z)
                       [] act = "reboot" -> {Fatal(x)}
                       [] OTHER -> IfStopped(a, Faulted(x, act)) : EndsWith(a, w, active)
        BY Zenon, <2>1
    <2> HIDE DEF x, y, z
    <2>3. CASE act = "stop" BY Zenon, <2>2, <2>3
    <2>4. CASE act = "restart" BY Zenon, <2>2, <2>4
    <2>5. CASE act = "reboot" BY Zenon, <2>2, <2>5
    <2>6. CASE act \in {"restart app", "stop app"} BY Zenon, <2>2, <2>6
    <2> QED BY Zenon, <2>3, <2>4, <2>5, <2>6 DEF WatchdogActions
<1> HIDE DEF x
<1>3. ASSUME NEW v, Sound(v), Noticed(v), Follows(x, v), v.where = "active", w \in IfStopped(a, v)
      PROVE  SupervisorInv'
    <2>1. Kept(v, w) BY Zenon, <1>3, IfStoppedKeeps
    <2>2. Kept(app[a], w) BY Zenon, <1>3, <2>1, KeptTwice DEF x
    <2> QED BY Zenon, <1>1, <1>2, <2>2, EndsKeeps
<1>4. Like(x, y) BY Zenon, <1>0, StopProcKeeps
<1> HIDE DEF y
<1>5. Like(y, z) BY Zenon, <1>0, <1>4, SetRestart DEF Like
<1> HIDE DEF z
<1>6. Like(x, z) BY Zenon, <1>4, <1>5, LikeTwice
<1>7. CASE w \in IfStopped(a, y)
    <2>1. Sound(y) /\ Noticed(y) /\ Follows(x, y) /\ y.where = "active"
        BY Zenon, <1>0, <1>1, <1>4, LikeKeeps DEF Like
    <2> QED BY Zenon, <1>3, <1>7, <2>1
<1>8. CASE w \in IfStopped(a, z)
    <2>1. Sound(z) /\ Noticed(z) /\ Follows(x, z) /\ z.where = "active"
        BY Zenon, <1>0, <1>1, <1>6, LikeKeeps DEF Like
    <2> QED BY Zenon, <1>3, <1>8, <2>1
<1>9. CASE w = Fatal(x)
    <2>1. w.fatal /\ w.where # "none" BY Zenon, <1>0, <1>1, <1>9, FatalIsLike
    <2> QED BY Zenon, <1>1, <1>2, <2>1, EndsKeeps
<1>10. CASE \E act \in WatchdogActions : w \in IfStopped(a, Faulted(x, act))
    <2>1. PICK act \in WatchdogActions : w \in IfStopped(a, Faulted(x, act)) BY Zenon, <1>10
    <2>2. /\ Sound(Faulted(x, act)) /\ Noticed(Faulted(x, act)) /\ Follows(x, Faulted(x, act))
          /\ Faulted(x, act).where = "active"
        BY Zenon, <1>0, <1>1, FaultedKeeps DEF Kept
    <2> QED BY Zenon, <1>3, <2>1, <2>2
<1> QED BY Zenon, <1>2, <1>7, <1>8, <1>9, <1>10

\* What the processes do.
LEMMA KernelKeeps ==
    ASSUME SupervisorInv, NEW a \in Apps,
           Fork(a) \/ \E p \in ProcsOf[a] \cup {Child} : Exit(a, p)
    PROVE  SupervisorInv'
<1> DEFINE x == app[a]
<1>0. Sound(x) /\ Noticed(x) /\ x \in App BY Zenon DEF SupervisorInv, AppsKept, Sound
<1>1. CASE Fork(a)
    <2> DEFINE y == [x EXCEPT !.alive = @ \cup {Child}]
    <2>1. /\ x.alive # {} /\ app' = [app EXCEPT ![a] = y]
          /\ UNCHANGED <<active, State, daemon, ShutdownIndex>>
        BY Zenon, <1>1 DEF Fork
    <2> HIDE DEF x
    <2>2. /\ y \in App /\ y.alive = x.alive \cup {Child} /\ y.killed = x.killed
          /\ y.where = x.where /\ y.lost = x.lost /\ y.state = x.state
          /\ y.populated = x.populated
        BY Zenon, <1>0 DEF App
    <2> HIDE DEF y
    <2>3. ~Empty(x) /\ ~Empty(y) BY Zenon, <2>1, <2>2 DEF Empty
    <2>4. Sound(y) /\ Noticed(y) /\ Follows(x, y)
        BY Zenon, <1>0, <2>2, <2>3 DEF Sound, Noticed, Follows
    <2>5. Kept(app[a], y) BY Zenon, <2>4 DEF Kept, x
    <2>6. y.where = app[a].where BY Zenon, <2>2 DEF x
    <2> QED BY Zenon, <2>1, <2>5, <2>6, DirectKeeps
<1>2. CASE \E p \in ProcsOf[a] \cup {Child} : Exit(a, p)
    <2>1. PICK p \in ProcsOf[a] \cup {Child} : Exit(a, p) BY Zenon, <1>2
    <2> DEFINE y == [x EXCEPT !.alive = @ \ {p}, !.killed = @ \ {p},
                              !.zombies = IF p = Child THEN @ ELSE @ \cup {p}]
               z == IF Empty(y) THEN [y EXCEPT !.msgs = Least(@ + 1, MaxMsgs)] ELSE y
    <2>2. /\ p \in x.alive \cup x.killed /\ app' = [app EXCEPT ![a] = z]
          /\ UNCHANGED <<active, State, daemon, ShutdownIndex>>
        BY Zenon, <2>1 DEF Exit
    <2>a. p = Child \/ p \in Procs BY Zenon DEF Procs
    <2> HIDE DEF x
    <2>3. /\ y \in App /\ y.pids = x.pids
          /\ y.where = x.where /\ y.lost = x.lost /\ y.state = x.state
          /\ y.populated = x.populated /\ y.msgs = x.msgs
        BY Zenon, <1>0, <2>a DEF App
    <2>4. ~Empty(x) BY Zenon, <2>2 DEF Empty
    <2> HIDE DEF y
    <2>5. CASE Empty(y)
        <3>1. z = [y EXCEPT !.msgs = Least(@ + 1, MaxMsgs)] BY Zenon, <2>5
        <3>2. Least(y.msgs + 1, MaxMsgs) \in 0 .. MaxMsgs /\ Least(y.msgs + 1, MaxMsgs) > 0
            BY <2>3, SupervisorConstants DEF App, Least
        <3> HIDE DEF z
        <3>3. /\ z \in App /\ z.pids = y.pids /\ z.where = y.where /\ z.lost = y.lost
              /\ z.state = y.state /\ z.populated = y.populated /\ z.msgs > 0
            BY Zenon, <2>3, <3>1, <3>2 DEF App
        <3>4. z.alive = y.alive /\ z.killed = y.killed BY Zenon, <2>3, <3>1 DEF App
        <3>5. Empty(z) BY Zenon, <2>5, <3>4 DEF Empty
        <3>6. Sound(z) BY Zenon, <1>0, <2>3, <2>4, <3>3, <3>5 DEF Sound
        <3>7. Noticed(z) /\ Follows(x, z) BY Zenon, <2>3, <2>4, <3>3 DEF Noticed, Follows
        <3>8. Kept(app[a], z) BY Zenon, <3>6, <3>7 DEF Kept, x
        <3>9. z.where = app[a].where BY Zenon, <2>3, <3>3 DEF x
        <3> QED BY Zenon, <2>2, <3>8, <3>9, DirectKeeps
    <2>6. CASE ~Empty(y)
        <3>1. z = y BY Zenon, <2>6
        <3> HIDE DEF z
        <3>2. Sound(y) BY Zenon, <1>0, <2>3, <2>4 DEF Sound
        <3>3. Noticed(y) /\ Follows(x, y) BY Zenon, <2>3, <2>4, <2>6 DEF Noticed, Follows
        <3>4. Kept(app[a], z) BY Zenon, <3>1, <3>2, <3>3 DEF Kept, x
        <3>5. z.where = app[a].where BY Zenon, <2>3, <3>1 DEF x
        <3> QED BY Zenon, <2>2, <3>4, <3>5, DirectKeeps
    <2> QED BY Zenon, <2>5, <2>6
<1> QED BY Zenon, <1>1, <1>2

\* The end of a daemon does (frameworkDaemons.c:475).
LEMMA DaemonsKeep ==
    ASSUME SupervisorInv, NEW i \in 0 .. Daemons - 1,
           fwDaemons_SigChildHandler(i) \/ DaemonDies(i)
    PROVE  SupervisorInv'
<1>0. /\ AppsKept(app, active) /\ DaemonsKept(daemon, ShutdownIndex, State, app)
      /\ daemon \in [0 .. Daemons - 1 -> DaemonStates]
      /\ ShutdownIndex \in -1 .. Daemons - 1
    BY Zenon DEF SupervisorInv, DaemonsKept
<1>1. CASE DaemonDies(i)
    <2>1. /\ daemon' = [daemon EXCEPT ![i] = "zombie"]
          /\ UNCHANGED <<app, active, State, ShutdownIndex>>
        BY Zenon, <1>1 DEF DaemonDies
    <2>2. daemon' \in [0 .. Daemons - 1 -> DaemonStates] BY Zenon, <1>0, <2>1 DEF DaemonStates
    <2>3. ASSUME NEW j \in 0 .. Daemons - 1, daemon'[j] = "terminated"
          PROVE  daemon[j] = "terminated"
        BY Zenon, <1>0, <2>1, <2>3
    <2>4. DaemonsKept(daemon', ShutdownIndex, State, app) BY Zenon, <1>0, <2>2, <2>3 DEF DaemonsKept
    <2> QED BY Zenon, <1>0, <2>1, <2>4 DEF SupervisorInv
<1>2. CASE fwDaemons_SigChildHandler(i)
    <2> DEFINE d == [daemon EXCEPT ![i] = "dead"]
    <2>1. d \in [0 .. Daemons - 1 -> DaemonStates] BY Zenon, <1>0 DEF DaemonStates
    <2>2. CASE ShutdownIndex >= 0
        <3>1. ShutdownNextDaemon(d, ShutdownIndex) /\ UNCHANGED <<app, active>>
            BY Zenon, <1>2, <2>2 DEF fwDaemons_SigChildHandler
        <3>2. Quiet(app) BY Zenon, <1>0, <2>2 DEF DaemonsKept
        <3> HIDE DEF d
        <3>3. DaemonsKept(daemon', ShutdownIndex', State', app)
            BY Zenon, <1>0, <2>1, <3>1, <3>2, NextDaemonKeeps
        <3> QED BY Zenon, <1>0, <3>1, <3>3 DEF SupervisorInv
    <2>3. CASE ~(ShutdownIndex >= 0)
        <3>1. framework_Reboot BY Zenon, <1>2, <2>3 DEF fwDaemons_SigChildHandler
        <3> QED BY Zenon, <3>1, RebootKeeps
    <2> QED BY Zenon, <2>2, <2>3
<1> QED BY Zenon, <1>1, <1>2

-----------------------------------------------------------------------------

\* Every step preserves the invariant.
LEMMA SupervisorStep == SupervisorInv /\ [SupervisorNext]_supVars => SupervisorInv'
<1> SUFFICES ASSUME SupervisorInv, [SupervisorNext]_supVars PROVE SupervisorInv'
    BY Zenon
<1>1. ASSUME NEW a \in Apps,
             \/ appCtrl_GetRef(a) \/ appCtrl_Start(a) \/ appCtrl_Stop(a)
             \/ DeletesInactiveApp(a)
      PROVE  SupervisorInv'
    BY Zenon, <1>1, RequestsKeep
<1>2. ASSUME NEW a \in Apps, NEW p \in ProcsOf[a],
             le_appProc_Start(a, p) \/ le_appProc_Delete(a, p)
      PROVE  SupervisorInv'
    BY Zenon, <1>2, ProcessRequestsKeep
<1>3. ASSUME NEW a \in Apps, NEW p \in ProcsOf[a], apps_SigChildHandler(a, p)
      PROVE  SupervisorInv'
    BY Zenon, <1>3, SigChildKeeps
<1>4. ASSUME NEW a \in Apps,
             \/ AppStopHandler(a) \/ WaitAppStop(a) \/ WaitAppStopHandler(a)
             \/ StaleStopCheck(a) \/ HardKillApp(a)
      PROVE  SupervisorInv'
    BY Zenon, <1>4, StopEventsKeep
<1>5. ASSUME NEW a \in Apps, NEW p \in ProcsOf[a], wdog_WatchdogTimedOut(a, p)
      PROVE  SupervisorInv'
    BY Zenon, <1>5, WatchdogKeeps
<1>6. ASSUME NEW a \in Apps, Fork(a) \/ \E p \in ProcsOf[a] \cup {Child} : Exit(a, p)
      PROVE  SupervisorInv'
    BY Zenon, <1>6, KernelKeeps
<1>7. CASE le_framework_Stop
    <2>1. Up /\ apps_Shutdown(app, active) BY Zenon, <1>7 DEF le_framework_Stop, Up
    <2> QED BY Zenon, <2>1, ShutdownKeeps DEF SupervisorInv
<1>8. ASSUME NEW i \in 0 .. Daemons - 1, fwDaemons_SigChildHandler(i) \/ DaemonDies(i)
      PROVE  SupervisorInv'
    BY Zenon, <1>8, DaemonsKeep
<1>9. CASE UNCHANGED supVars
    BY Zenon, <1>9 DEF supVars, SupervisorInv
<1>10. CASE SupervisorNext
    BY Zenon, <1>1, <1>2, <1>3, <1>4, <1>5, <1>6, <1>7, <1>8, <1>10 DEF SupervisorNext
<1> QED BY Zenon, <1>9, <1>10

\* The invariant holds when the Supervisor has started.
LEMMA SupervisorStart == SupervisorInit => SupervisorInv
<1> SUFFICES ASSUME SupervisorInit PROVE SupervisorInv
    BY Zenon
<1>1. /\ app = [a \in Apps |-> NewApp] /\ active = <<>> /\ State = "normal"
      /\ daemon = [i \in 0 .. Daemons - 1 |-> "up"] /\ ShutdownIndex = -1
    BY Zenon DEF SupervisorInit
<1>2. NewApp.where = "none" BY Zenon DEF NewApp
<1>3. AppsKept(app, active) BY Zenon, <1>1, <1>2, NewAppIsSound, EmptySeq DEF AppsKept
<1>4. DaemonsKept(daemon, ShutdownIndex, State, app)
    BY <1>1, SupervisorConstants DEF DaemonsKept, DaemonStates
<1> QED BY Zenon, <1>3, <1>4 DEF SupervisorInv

\* The inductive invariant holds in every state the Supervisor reaches.
THEOREM SupervisorInvariant == SupervisorSpec => []SupervisorInv
BY SupervisorStart, SupervisorStep, PTL DEF SupervisorSpec

\* The Supervisor's state has its type.
THEOREM SupervisorTypeCorrect == SupervisorSpec => []SupervisorType
<1>1. SupervisorInv => SupervisorType
    <2> SUFFICES ASSUME SupervisorInv PROVE SupervisorType
        BY Zenon
    <2>1. app \in [Apps -> App] BY Zenon DEF SupervisorInv, AppsKept, Sound
    <2>2. \A i \in DOMAIN active : active[i] \in Apps
        BY Zenon, LenProperties, ElementOfSeq DEF SupervisorInv, AppsKept
    <2> QED BY Zenon, <2>1, <2>2 DEF SupervisorType, SupervisorInv, DaemonsKept, DaemonStates
<1> QED BY <1>1, SupervisorInvariant, PTL

\* An app that is not active has no process left, neither in its cgroup nor in
\* the Supervisor's books, unless its restart failed half way.
THEOREM StoppedIsGone == SupervisorSpec => []StoppedMeansGone
<1>1. SupervisorInv => StoppedMeansGone
    BY Zenon DEF SupervisorInv, AppsKept, Sound, StoppedMeansGone
<1> QED BY <1>1, SupervisorInvariant, PTL

\* The end of an active app's last process is never forgotten, whichever way and
\* in whichever order it is reported.
THEOREM EndIsNoticed == SupervisorSpec => []EmptyIsNoticed
<1>1. SupervisorInv => EmptyIsNoticed
    BY Zenon DEF SupervisorInv, AppsKept, Noticed, EmptyIsNoticed
<1> QED BY <1>1, SupervisorInvariant, PTL

\* The framework's daemons outlive the apps in a shutdown.
THEOREM DaemonsGoLast == SupervisorSpec => []DaemonsOutliveApps
<1>1. SupervisorInv => DaemonsOutliveApps
    <2> SUFFICES ASSUME SupervisorInv, Up, NEW i \in DOMAIN daemon, daemon[i] = "terminated"
                 PROVE  \A a \in Apps : ~app[a].lost => Empty(app[a])
        BY Zenon DEF DaemonsOutliveApps
    <2>1. i \in 0 .. Daemons - 1 BY Zenon DEF SupervisorInv, DaemonsKept
    <2>2. Quiet(app) BY Zenon, <2>1 DEF SupervisorInv, DaemonsKept, Up
    <2> QED BY Zenon, <2>2 DEF Quiet
<1> QED BY <1>1, SupervisorInvariant, PTL

=============================================================================
