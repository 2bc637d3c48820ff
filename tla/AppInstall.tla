------------------------------ MODULE AppInstall ------------------------------
(***************************************************************************)
(* The installation, upgrade and removal of one app in the running system  *)
(* (updateDaemon/app.c), with a power failure between any two changes of   *)
(* the disk: what the start program rolls back, and what                   *)
(* app_FinishUpdates() finishes when the daemon starts again.              *)
(*                                                                         *)
(* An operation of the daemon is the sequence "todo" of the changes it has *)
(* still to make.  Each is one step; a crash drops the rest.               *)
(*                                                                         *)
(* Of the systems on the disk this module has the current one and the good *)
(* one saved before it was changed; module Start has all of them.          *)
(* Unpacking is one step: what may happen while it goes on is in module    *)
(* UpdateDaemon.                                                           *)
(***************************************************************************)
EXTENDS Integers, Sequences, FiniteSets, Functions

CONSTANTS
    Apps,           \* the names of the apps
    Hashes,         \* pairs of an app's name and a version of it
    MAX_TRIES,      \* how often a system on probation is started
    None,           \* no link, no file, no system
    Missing         \* a configuration that could not be imported

ASSUME HashesAssumption == None \notin Hashes /\ \A h \in Hashes : h[1] \in Apps
ASSUME AppsAssumption == IsFiniteSet(Apps)
ASSUME TriesAssumption == MAX_TRIES \in Nat \ {0}

VARIABLES
    sys,            \* /legato/systems/current
    snapshot,       \* the saved good system
    files,          \* /legato/apps/<hash>
    unpacked,       \* what /legato/apps/unpack holds
    phase,          \* of the daemon: "off", "starting", "running"
    todo,           \* the changes of the disk still to be made
    ready,          \* the unpacked update that a client may install
    probation       \* started, and its end still to come

appVars == <<sys, snapshot, files, unpacked, phase, todo, ready, probation>>

-----------------------------------------------------------------------------
(* A system: the links in its "apps" directory, among them .new.<app> and   *)
(* .del.<app>, the app's branch of its configuration tree, and its         *)
(* status file.                                                             *)

System ==
    [apps : [Apps -> Hashes \union {None}],
     new : [Apps -> Hashes \union {None}],
     del : [Apps -> Hashes \union {None}],
     cfg : [Apps -> Hashes \union {None, Missing}],
     status : {"good", "bad", "tried"},
     tries : 0 .. MAX_TRIES,
     modified : BOOLEAN]

NoApps == [a \in Apps |-> None]

Golden == [apps |-> NoApps, new |-> NoApps, del |-> NoApps, cfg |-> NoApps,
           status |-> "good", tries |-> 0, modified |-> FALSE]

system_HasApp(a) == sys.apps[a] # None
app_Exists(h) == files[h] # "none"

Links(s) == {s.apps[a] : a \in Apps} \union {s.new[a] : a \in Apps} \union {s.del[a] : a \in Apps}

\* Mutant: the saved system is forgotten.
MutUsedInCurrent(h) == h \in Links(sys)

system_AppUsedInAnySystem(h) ==
    h \in Links(sys) \/ (snapshot # None /\ h \in Links(snapshot))

-----------------------------------------------------------------------------
(* The operations as sequences of changes.                                  *)

Step(name, a, h) == [do |-> name, app |-> a, hash |-> h]
Do(name) == Step(name, None, None)

MakeSpace == <<Do("remove_unneeded"), Do("remove_unused")>>

\* Also PerformAppInstall(): it makes the same changes in the same order.
PerformAppUpgrade(a, h) ==
    <<Step("delete_config", a, h), Step("import_config", a, h), Step("link_app", a, h),
      Step("writeable_files", a, h)>>

PerformAppDelete(a, h) ==
    <<Step("delete_config", a, h), Step("remove_app", a, h), Step("remove_files", a, h)>>

\* Mutant: an app is upgraded before the system is marked bad.
MutBadTooLate(a, h) ==
    <<Do("snapshot"), Do("modified"), Step("rename", a, h)>>
    \o PerformAppUpgrade(a, h)
    \o <<Do("mark_bad"), Do("mark_tried")>>

app_InstallIndividual(a, h) ==
    <<Do("snapshot"), Do("modified"), Step("rename", a, h)>>
    \o IF system_HasApp(a)
       THEN <<Do("untried"), Step("link_new", a, h), Do("mark_bad")>>
            \o PerformAppUpgrade(a, h)
            \o <<Step("remove_new", a, h), Do("mark_tried")>>
       ELSE <<Do("mark_bad")>> \o PerformAppUpgrade(a, h) \o <<Do("mark_tried")>>

app_RemoveIndividual(a) ==
    LET h == sys.apps[a] IN
    <<Do("snapshot"), Do("modified"), Do("untried"), Step("link_del", a, h), Do("mark_bad")>>
    \o PerformAppDelete(a, h)
    \o <<Step("unlink_del", a, h), Do("mark_tried")>>

\* The interrupted changes that app_FinishUpdates() finds in system s.
Pending(s) ==
    {Step("new", a, s.new[a]) : a \in {b \in Apps : s.new[b] # None}}
    \union {Step("del", a, s.del[a]) : a \in {b \in Apps : s.del[b] # None}}

\* The sequences of B, one after the other.
AllOf(B) ==
    LET upTo[i \in 1 .. Len(B)] == IF i = 1 THEN B[i] ELSE upTo[i - 1] \o B[i] IN
    upTo[Len(B)]

\* Mutant: a removal is not finished.
MutFinishNew(found) ==
    IF found = <<>> THEN <<>>
    ELSE <<Do("mark_bad")>>
         \o AllOf([i \in DOMAIN found |->
                IF found[i].do = "new" THEN PerformAppUpgrade(found[i].app, found[i].hash)
                ELSE <<>>])
         \o <<Do("mark_tried")>>

\* The orders in which readdir() can return what is pending.
Readings(pending) == Bijection(1 .. Cardinality(pending), pending)

\* They are found in the order of readdir().  The system is marked bad at the
\* first one, and copied before that only when the first one is a removal.
app_FinishUpdates(found) ==
    IF found = <<>> THEN <<>>
    ELSE (IF found[1].do = "del" THEN <<Do("snapshot")>> ELSE <<>>)
         \o <<Do("mark_bad")>>
         \o AllOf([i \in DOMAIN found |->
                IF found[i].do = "new" THEN PerformAppUpgrade(found[i].app, found[i].hash)
                ELSE PerformAppDelete(found[i].app, found[i].hash)])
         \o <<Do("mark_tried")>>

-----------------------------------------------------------------------------
(* The changes, one action each.                                            *)

AppInit ==
    /\ sys = Golden
    /\ snapshot = None
    /\ files = [h \in Hashes |-> "none"]
    /\ unpacked = None
    /\ phase = "running"
    /\ todo = <<>>
    /\ ready = None
    /\ probation = FALSE

Next(name) == todo # <<>> /\ Head(todo).do = name
Advance == todo' = Tail(todo) /\ UNCHANGED <<phase, ready, probation>>
Fatal == phase' = "off" /\ todo' = <<>> /\ ready' = None /\ probation' = FALSE

\* The operation ends here with an error.
GiveUp == todo' = <<>> /\ UNCHANGED <<phase, ready, probation>>

\* A system on probation is not copied: there is a good one already.  A system
\* that is bad is fatal, which is Crash.
system_Snapshot ==
    /\ Next("snapshot")
    /\ sys.status # "bad"
    /\ \/ /\ snapshot' = IF sys.status = "good" THEN sys ELSE snapshot
          /\ Advance
       \/ /\ sys.status = "good"        \* it cannot be copied
          /\ UNCHANGED snapshot
          /\ GiveUp
    /\ UNCHANGED <<sys, files, unpacked>>

system_MarkModified ==
    /\ Next("modified")
    /\ sys' = IF sys.modified THEN sys
              ELSE [sys EXCEPT !.modified = TRUE, !.status = "tried", !.tries = 0]
    /\ Advance
    /\ UNCHANGED <<snapshot, files, unpacked>>

\* The unpacked app gets its hash for a name, unless it is there already.
RenameUnpacked ==
    LET h == Head(todo).hash IN
    /\ Next("rename")
    /\ \/ /\ app_Exists(h)
          /\ Advance
          /\ UNCHANGED <<sys, files, unpacked>>
       \/ /\ ~app_Exists(h)
          /\ unpacked # None
          /\ files' = [files EXCEPT ![h] = "whole"]
          /\ unpacked' = None
          /\ Advance
          /\ UNCHANGED sys
       \/ /\ ~app_Exists(h)
          /\ unpacked = None
          /\ sys' = [sys EXCEPT !.status = "bad"]
          /\ Fatal
          /\ UNCHANGED <<files, unpacked>>
    /\ UNCHANGED snapshot

SetStatus(name, status, tries) ==
    /\ Next(name)
    /\ sys' = [sys EXCEPT !.status = status, !.tries = tries]
    /\ todo' = Tail(todo)
    /\ UNCHANGED <<snapshot, files, unpacked, phase, ready>>

\* A successful change ends with StartProbation().
sysStatus_SetUntried == SetStatus("untried", "tried", 0) /\ UNCHANGED probation
sysStatus_MarkBad == SetStatus("mark_bad", "bad", 0) /\ UNCHANGED probation
sysStatus_MarkTried == SetStatus("mark_tried", "tried", 1) /\ probation' = TRUE
sysStatus_MarkGood == SetStatus("mark_good", "good", 0) /\ probation' = FALSE

SetLink(name, s) ==
    /\ Next(name)
    /\ sys' = s
    /\ Advance
    /\ UNCHANGED <<snapshot, files, unpacked>>

system_SymlinkApp ==
    LET a == Head(todo).app  h == Head(todo).hash IN
    \/ SetLink("link_app", [sys EXCEPT !.apps[a] = h])
    \/ SetLink("link_new", [sys EXCEPT !.new[a] = h])
    \/ SetLink("link_del", [sys EXCEPT !.del[a] = h])

system_RemoveApp ==
    LET a == Head(todo).app IN
    \/ SetLink("remove_app", [sys EXCEPT !.apps[a] = None])
    \/ SetLink("remove_new", [sys EXCEPT !.new[a] = None])
    \/ SetLink("unlink_del", [sys EXCEPT !.del[a] = None])

ImportConfig ==
    LET a == Head(todo).app  h == Head(todo).hash IN
    \/ SetLink("delete_config", [sys EXCEPT !.cfg[a] = None])
    \/ SetLink("import_config", [sys EXCEPT !.cfg[a] = h])
    \/ SetLink("import_config", [sys EXCEPT !.cfg[a] = Missing])

\* It fails: an upgrade returns an error at once and leaves the system bad;
\* app_FinishUpdates() goes on to the next app and is fatal in the end.
UpdateWriteableFiles ==
    /\ Next("writeable_files")
    /\ \/ Advance
       \/ /\ phase = "running"
          /\ GiveUp
       \/ /\ phase = "starting"
          /\ todo' = [Tail(todo) EXCEPT ![Len(todo) - 1] = Do("fatal")]
          /\ UNCHANGED <<phase, ready, probation>>
    /\ UNCHANGED <<sys, snapshot, files, unpacked>>

FailedToFinish ==
    /\ Next("fatal")
    /\ Fatal
    /\ UNCHANGED <<sys, snapshot, files, unpacked>>

RemoveFiles ==
    LET h == Head(todo).hash IN
    /\ Next("remove_files")
    /\ files' = IF system_AppUsedInAnySystem(h) THEN files ELSE [files EXCEPT ![h] = "none"]
    /\ Advance
    /\ UNCHANGED <<sys, snapshot, unpacked>>

system_RemoveUnneeded ==
    /\ Next("remove_unneeded")
    /\ sys.status # "bad"
    /\ snapshot' = IF sys.status = "good" THEN None ELSE snapshot
    /\ Advance
    /\ UNCHANGED <<sys, files, unpacked>>

\* Mutant: the unpack directory is taken for something else.
MutUnpackKept ==
    /\ Next("remove_unused")
    /\ files' = [h \in Hashes |-> IF system_AppUsedInAnySystem(h) THEN files[h] ELSE "none"]
    /\ Advance
    /\ UNCHANGED <<sys, snapshot, unpacked>>

\* /legato/apps/unpack is a directory of /legato/apps that no system uses.
system_RemoveUnusedApps ==
    /\ Next("remove_unused")
    /\ files' = [h \in Hashes |-> IF system_AppUsedInAnySystem(h) THEN files[h] ELSE "none"]
    /\ unpacked' = None
    /\ Advance
    /\ UNCHANGED <<sys, snapshot>>

-----------------------------------------------------------------------------
(* Requests, and the life of the daemon.                                    *)

Idle == phase = "running" /\ todo = <<>>
Update(kind, a, h) == [kind |-> kind, app |-> a, hash |-> h]

\* An update pack is received: space is made, and the app unpacked.
ReceivePack(kind, a, h) ==
    /\ Idle /\ ready = None
    /\ todo' = MakeSpace \o <<Step(kind, a, h)>>
    /\ UNCHANGED <<sys, snapshot, files, unpacked, phase, ready, probation>>

\* The payload of an app that exists is skipped.
Unpacked ==
    LET a == Head(todo).app  h == Head(todo).hash IN
    /\ \/ /\ Next("unpack")
          /\ unpacked' = IF app_Exists(h) THEN unpacked ELSE h
          /\ ready' = Update("install", a, h)
       \/ /\ Next("unpack_removal")
          /\ ready' = Update("remove", a, h)
          /\ UNCHANGED unpacked
    /\ todo' = Tail(todo)
    /\ UNCHANGED <<sys, snapshot, files, phase, probation>>

\* le_appRemove_Remove() makes space and removes the app at once.
RemoveNow(a) ==
    /\ Idle /\ ready = None
    /\ todo' = MakeSpace \o (IF system_HasApp(a) THEN app_RemoveIndividual(a) ELSE <<>>)
    /\ UNCHANGED <<sys, snapshot, files, unpacked, phase, ready, probation>>

\* le_update_Install(); nothing is to be done for an app that is installed or
\* removed already.
ApplyUpdate ==
    /\ Idle /\ ready # None
    /\ todo' = IF ready.kind = "install"
               THEN IF sys.apps[ready.app] = ready.hash THEN <<>>
                    ELSE app_InstallIndividual(ready.app, ready.hash)
               ELSE IF system_HasApp(ready.app) THEN app_RemoveIndividual(ready.app) ELSE <<>>
    /\ ready' = None
    /\ UNCHANGED <<sys, snapshot, files, unpacked, phase, probation>>

EndUpdate ==
    /\ Idle /\ ready # None
    /\ ready' = None
    /\ UNCHANGED <<sys, snapshot, files, unpacked, phase, todo, probation>>

\* Called by le_updateCtrl_MarkGood(), which reads the status and does not mind
\* an update that is ready, or by the timer, which does the opposite: the end of
\* an earlier probation also comes to a system that a failed change left bad.
updateDaemon_MarkGood ==
    /\ Idle /\ probation
    /\ sys.status = "tried" \/ ready = None
    /\ todo' = <<Do("mark_good")>> \o MakeSpace
    /\ UNCHANGED <<sys, snapshot, files, unpacked, phase, ready, probation>>

le_updateCtrl_FailProbation ==
    /\ Idle /\ sys.status = "tried"
    /\ sys' = [sys EXCEPT !.status = "bad", !.tries = 0]
    /\ Fatal
    /\ UNCHANGED <<snapshot, files, unpacked>>

\* The power fails, maybe in the middle of the deletion of an app.
Crash ==
    /\ phase # "off"
    /\ Fatal
    /\ \/ UNCHANGED files
       \/ \E h \in {g \in Hashes : app_Exists(g) /\ ~system_AppUsedInAnySystem(g)} :
            /\ Next("remove_unused") \/ (Next("remove_files") /\ Head(todo).hash = h)
            /\ files' = [files EXCEPT ![h] = "part"]
    /\ UNCHANGED <<sys, snapshot, unpacked>>

TriedTooOften == sys.status = "bad" \/ (sys.status = "tried" /\ sys.tries >= MAX_TRIES)

\* The start program (module Start) chooses the system, and the daemon starts.
Boot ==
    /\ phase = "off"
    /\ \/ /\ ~TriedTooOften
          /\ sys' = IF sys.status = "tried" THEN [sys EXCEPT !.tries = @ + 1] ELSE sys
          /\ UNCHANGED snapshot
       \/ /\ TriedTooOften
          /\ sys' = IF snapshot = None THEN Golden ELSE snapshot
          /\ snapshot' = None
    /\ \E found \in Readings(Pending(sys')) : todo' = app_FinishUpdates(found)
    /\ phase' = "starting"
    /\ UNCHANGED <<files, unpacked, ready, probation>>

Started ==
    /\ phase = "starting" /\ todo = <<>>
    /\ phase' = "running"
    /\ probation' = (sys.status # "good")
    /\ UNCHANGED <<sys, snapshot, files, unpacked, todo, ready>>

Change ==
    \/ system_Snapshot \/ system_MarkModified \/ RenameUnpacked
    \/ sysStatus_SetUntried \/ sysStatus_MarkBad \/ sysStatus_MarkTried \/ sysStatus_MarkGood
    \/ system_SymlinkApp \/ system_RemoveApp \/ ImportConfig \/ UpdateWriteableFiles
    \/ FailedToFinish \/ RemoveFiles \/ system_RemoveUnneeded \/ system_RemoveUnusedApps
    \/ Unpacked

AppNext ==
    \/ \E h \in Hashes : ReceivePack("unpack", h[1], h)
    \/ \E a \in Apps : ReceivePack("unpack_removal", a, None) \/ RemoveNow(a)
    \/ ApplyUpdate \/ EndUpdate
    \/ updateDaemon_MarkGood \/ le_updateCtrl_FailProbation
    \/ Change \/ Crash \/ Boot \/ Started

AppSpec == AppInit /\ [][AppNext]_appVars

-----------------------------------------------------------------------------
\* A change of the system as a whole, of one version of an app, and the removal
\* of an app whatever its version.
Steps ==
    [do : {"snapshot", "modified", "untried", "mark_bad", "mark_tried", "mark_good",
           "remove_unneeded", "remove_unused", "fatal"}, app : {None}, hash : {None}]
    \union [do : {"unpack", "rename", "link_new", "link_del", "delete_config",
                  "import_config", "link_app", "writeable_files", "remove_app",
                  "remove_files", "remove_new", "unlink_del"}, app : Apps, hash : Hashes]
    \union [do : {"unpack_removal"}, app : Apps, hash : {None}]

\* Every variable has its type.
AppType ==
    /\ sys \in System
    /\ snapshot \in System \union {None}
    /\ files \in [Hashes -> {"none", "part", "whole"}]
    /\ unpacked \in Hashes \union {None}
    /\ phase \in {"off", "starting", "running"}
    /\ probation \in BOOLEAN
    /\ todo \in Seq(Steps)
    /\ ready \in [kind : {"install"}, app : Apps, hash : Hashes]
                 \union [kind : {"remove"}, app : Apps, hash : {None}] \union {None}

\* The files of every app that the current system or the saved one links to are
\* complete: clean-up, an interrupted deletion and the skipping of a payload
\* never leave a system with an app whose files are gone.
FilesKept ==
    \A h \in Hashes : system_AppUsedInAnySystem(h) => files[h] = "whole"

\* A system with the configuration of one version of an app and the files of
\* another, or with one and not the other, is marked bad: wherever the power
\* fails, the start program does not run a half-changed system.
HalfChangedIsBad ==
    (\E a \in Apps : sys.cfg[a] \notin {sys.apps[a], Missing}) => sys.status = "bad"

\* What is renamed to /legato/apps/<hash> was unpacked for that hash, also when
\* the app existed when its payload was skipped and is gone when it is installed.
RenamedIsUnpacked ==
    Next("rename") /\ ~app_Exists(Head(todo).hash) => unpacked \in {None, Head(todo).hash}

\* When app_FinishUpdates() is done, an interrupted upgrade has taken place and
\* an app whose removal was interrupted is gone.
InterruptedIsFinished ==
    phase = "starting" /\ Next("mark_tried") =>
        \A a \in Apps :
            /\ sys.new[a] # None /\ sys.del[a] = None => sys.apps[a] = sys.new[a]
            /\ sys.del[a] # None /\ sys.new[a] = None => sys.apps[a] = None

\* app_FinishUpdates(): "Don't need to make a snapshot because if we're finishing
\* an upgrade there will already be a snapshot."
SnapshotIsThere == sys.status = "bad" => snapshot # None
=============================================================================
