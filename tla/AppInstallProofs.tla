-------------------------- MODULE AppInstallProofs --------------------------
(***************************************************************************)
(* Proofs about AppInstall, for any finite set of apps, any versions of    *)
(* them and any MAX_TRIES.                                                 *)
(***************************************************************************)
EXTENDS AppInstall, FiniteSetTheorems, WellFoundedInduction, TLAPS

-----------------------------------------------------------------------------
(* The inductive invariant.                                                 *)

\* The configuration of app a in system s is that of the version it links to.
Matches(s, a) == s.cfg[a] \in {s.apps[a], Missing}
AllMatch(s) == \A a \in Apps : Matches(s, a)

\* What one change of an operation has to do with the change that follows it.
Follows(s, t) ==
    /\ s.do \notin {"unpack", "unpack_removal", "mark_tried", "fatal"}
    /\ s.do = "delete_config" => t.do \in {"import_config", "remove_app"} /\ t.app = s.app
    /\ s.do = "import_config" => t.do = "link_app" /\ t.app = s.app /\ t.hash = s.hash
    /\ t.do \in {"import_config", "remove_app"} => s.do = "delete_config"
    /\ t.do = "link_app" => s.do = "import_config"
    /\ t.do = "writeable_files" => s.do = "link_app"
    /\ t.do = "remove_files" => s.do = "remove_app"
    /\ t.do = "delete_config" => s.do \in {"mark_bad", "writeable_files", "remove_files"}
    /\ t.do = "unpack" => s.do = "remove_unused"

\* The changes an operation may end with.
Ends(s) == s.do \in {"remove_unused", "mark_tried", "fatal", "unpack", "unpack_removal"}

\* The operation is put together right.
WellFormed(p) ==
    /\ \A i \in 1 .. Len(p) - 1 : Follows(p[i], p[i + 1])
    /\ p # <<>> => Ends(p[Len(p)])

\* What holds when change t is the next one to be made to system s.  Between the
\* change of an app's configuration and that of its link the app does not match,
\* and only it.
Before(s, u, t) ==
    /\ t.do \in {"delete_config", "import_config", "link_app", "writeable_files",
                 "remove_app", "remove_files"} => s.status = "bad"
    /\ t.do = "link_app" => s.cfg[t.app] \in {t.hash, Missing}
    /\ t.do = "remove_app" => s.cfg[t.app] = None
    /\ t.do = "unpack" => u = None
    /\ \A a \in Apps :
         Matches(s, a) \/ (t.do \in {"import_config", "link_app", "remove_app"} /\ t.app = a)

\* The changes p of app_FinishUpdates(): only those of links that were left behind,
\* and all of them.
Finishing(s, p) ==
    /\ \A i \in 1 .. Len(p) :
         /\ p[i].do \in {"snapshot", "mark_bad", "delete_config", "import_config", "link_app",
                         "writeable_files", "remove_app", "remove_files", "mark_tried",
                         "fatal"}
         /\ p[i].do = "link_app" => s.new[p[i].app] = p[i].hash
         /\ p[i].do = "remove_app" => s.del[p[i].app] # None
    /\ p # <<>> =>
         /\ p[Len(p)].do \in {"mark_tried", "fatal"}
         /\ \A a \in Apps :
              /\ s.new[a] # None /\ s.del[a] = None =>
                    \/ s.apps[a] = s.new[a]
                    \/ \E i \in 1 .. Len(p) : p[i].do = "link_app" /\ p[i].app = a
              /\ s.del[a] # None /\ s.new[a] = None =>
                    \/ s.apps[a] = None
                    \/ \E i \in 1 .. Len(p) : p[i].do = "remove_app" /\ p[i].app = a

\* The changes p of the running daemon: what is linked is complete, or is going to
\* be renamed before; no clean-up comes in between; and an app that is to be
\* removed is still the one that was linked when the removal began.
Operating(s, f, u, p) ==
    \A j \in 1 .. Len(p) :
      /\ p[j].do \in {"link_app", "link_new"} =>
           /\ \/ f[p[j].hash] = "whole"
              \/ \E i \in 1 .. j - 1 : p[i].do = "rename" /\ p[i].hash = p[j].hash
           /\ \A i \in 1 .. j - 1 : p[i].do \notin {"remove_files", "remove_unused"}
      /\ p[j].do = "link_del" =>
           /\ s.apps[p[j].app] = p[j].hash
           /\ \A i \in 1 .. j - 1 : p[i].do \notin {"link_app", "remove_app"}
      /\ p[j].do = "rename" => u \in {None, p[j].hash}
      /\ p[j].do # "fatal"

\* An app that was deleted in part is out of reach until the next clean-up.
PartIsUnused(f, r, p) ==
    (\E h \in Hashes : f[h] = "part") =>
        /\ r = None
        /\ \A j \in 1 .. Len(p) : p[j].do \in {"rename", "unpack", "unpack_removal"} =>
              \E i \in 1 .. j - 1 : p[i].do = "remove_unused"

AppInv ==
    /\ AppType
    /\ FilesKept
    /\ HalfChangedIsBad
    /\ snapshot # None => AllMatch(snapshot)
    /\ WellFormed(todo)
    /\ PartIsUnused(files, ready, todo)
    /\ phase = "off" => todo = <<>> /\ ready = None
    /\ phase = "starting" => Finishing(sys, todo) /\ ready = None
    /\ phase = "running" => Operating(sys, files, unpacked, todo)
    /\ phase # "off" => IF todo = <<>> THEN AllMatch(sys)
                        ELSE Before(sys, unpacked, Head(todo))
    /\ ready # None /\ ready.kind = "install" => unpacked \in {None, ready.hash}

-----------------------------------------------------------------------------
(* The rest of an operation, when its first change has been made.           *)

\* What is left of a well-formed operation is well formed.
LEMMA TailFacts ==
    ASSUME NEW p \in Seq(Steps), p # <<>>, WellFormed(p)
    PROVE  /\ Len(p) \in Nat \ {0} /\ Head(p) = p[1] /\ Head(p) \in Steps
           /\ Tail(p) \in Seq(Steps) /\ WellFormed(Tail(p))
           /\ Len(Tail(p)) = Len(p) - 1
           /\ \A i \in 1 .. Len(p) - 1 : Tail(p)[i] = p[i + 1]
           /\ IF Tail(p) = <<>> THEN Len(p) = 1 /\ Ends(Head(p))
              ELSE Len(p) > 1 /\ Head(Tail(p)) = p[2] /\ Follows(Head(p), Head(Tail(p)))
<1>1. /\ Len(p) \in Nat \ {0} /\ Head(p) = p[1] /\ Head(p) \in Steps
      /\ Tail(p) \in Seq(Steps)
      /\ Len(Tail(p)) = Len(p) - 1
      /\ \A i \in 1 .. Len(p) - 1 : Tail(p)[i] = p[i + 1]
    OBVIOUS
<1>2. WellFormed(Tail(p))
    BY <1>1 DEF WellFormed
<1>3. CASE Tail(p) = <<>>
    <2>1. Len(p) = 1
        BY SMTT(30), <1>1, <1>3
    <2> QED BY Zenon, <1>1, <1>2, <1>3, <2>1 DEF WellFormed
<1>4. CASE Tail(p) # <<>>
    <2>1. Len(p) > 1 /\ Head(Tail(p)) = p[2]
        BY <1>1, <1>4
    <2> QED BY <1>1, <1>2, <1>4, <2>1 DEF WellFormed
<1> QED BY Zenon, <1>1, <1>2, <1>3, <1>4

\* The invariant implies the two properties that are not part of it.
LEMMA AppInvImplies == AppInv => RenamedIsUnpacked /\ InterruptedIsFinished
<1> SUFFICES ASSUME AppInv PROVE RenamedIsUnpacked /\ InterruptedIsFinished
    BY Zenon
<1> USE DEF AppInv, AppType
<1>1. RenamedIsUnpacked
    <2> SUFFICES ASSUME todo # <<>>, Head(todo).do = "rename"
                 PROVE  unpacked \in {None, Head(todo).hash}
        BY Zenon DEF RenamedIsUnpacked, Next
    <2>1. Head(todo) = todo[1] /\ 1 \in 1 .. Len(todo)
        OBVIOUS
    <2> QED BY <2>1 DEF Finishing, Operating
<1>2. InterruptedIsFinished
    <2> SUFFICES ASSUME phase = "starting", todo # <<>>, Head(todo).do = "mark_tried"
                 PROVE  \A a \in Apps :
                          /\ sys.new[a] # None /\ sys.del[a] = None => sys.apps[a] = sys.new[a]
                          /\ sys.del[a] # None /\ sys.new[a] = None => sys.apps[a] = None
        BY Zenon DEF InterruptedIsFinished, Next
    <2>1. /\ Head(todo) = todo[1] /\ Len(todo) \in Nat \ {0}
          /\ WellFormed(todo) /\ Finishing(sys, todo) /\ todo \in Seq(Steps)
        OBVIOUS
    <2> HIDE DEF AppInv, AppType
    <2>2. Len(todo) = 1
        <3>1. IF Tail(todo) = <<>> THEN Len(todo) = 1
              ELSE Follows(Head(todo), Head(Tail(todo)))
            BY Zenon, <2>1, TailFacts
        <3>2. ~Follows(Head(todo), Head(Tail(todo)))
            BY Zenon DEF Follows
        <3> QED BY Zenon, <3>1, <3>2
    <2>3. \A i \in 1 .. Len(todo) : todo[i].do = "mark_tried"
        BY <2>1, <2>2
    <2> QED BY Zenon, <2>1, <2>3 DEF Finishing
<1> QED BY Zenon, <1>1, <1>2

\* What is left of an operation of the running daemon, when its first change
\* turned system s, files f and unpacked app u into s2, f2 and u2.
LEMMA OperatingTail ==
    ASSUME NEW p \in Seq(Steps), p # <<>>, WellFormed(p),
           NEW s, NEW s2, NEW f, NEW f2, NEW u, NEW u2,
           Operating(s, f, u, p),
           \/ \A h \in Hashes : f[h] = "whole" => f2[h] = "whole"
           \/ Head(p).do \in {"remove_files", "remove_unused"},
           Head(p).do = "rename" => f2[Head(p).hash] = "whole",
           s2.apps = s.apps \/ Head(p).do \in {"link_app", "remove_app"},
           u2 \in {None, u} \/ Head(p).do = "unpack"
    PROVE  Operating(s2, f2, u2, Tail(p))
<1>0. /\ Len(p) \in Nat \ {0} /\ Head(p) = p[1] /\ Len(Tail(p)) = Len(p) - 1
      /\ \A i \in 1 .. Len(p) - 1 : Tail(p)[i] = p[i + 1]
    BY Zenon, TailFacts
<1> SUFFICES ASSUME NEW j \in 1 .. Len(Tail(p))
             PROVE  LET q == Tail(p) IN
      /\ q[j].do \in {"link_app", "link_new"} =>
           /\ \/ f2[q[j].hash] = "whole"
              \/ \E i \in 1 .. j - 1 : q[i].do = "rename" /\ q[i].hash = q[j].hash
           /\ \A i \in 1 .. j - 1 : q[i].do \notin {"remove_files", "remove_unused"}
      /\ q[j].do = "link_del" =>
           /\ s2.apps[q[j].app] = q[j].hash
           /\ \A i \in 1 .. j - 1 : q[i].do \notin {"link_app", "remove_app"}
      /\ q[j].do = "rename" => u2 \in {None, q[j].hash}
      /\ q[j].do # "fatal"
    BY Zenon DEF Operating
<1>1. /\ j + 1 \in 1 .. Len(p) /\ Tail(p)[j] = p[j + 1] /\ 1 \in 1 .. (j + 1) - 1
      /\ \A i \in 1 .. j - 1 : Tail(p)[i] = p[i + 1] /\ i + 1 \in 1 .. (j + 1) - 1
      /\ Head(p) = p[1]
    BY <1>0
<1>2. CASE p[j + 1].do \in {"link_app", "link_new"}
    <2>1. p[j + 1].hash \in Hashes
        <3>1. p[j + 1] \in Steps
            BY <1>1
        <3> QED BY Zenon, <1>2, <3>1 DEF Steps
    <2>2. Head(p).do \notin {"remove_files", "remove_unused"}
        BY Zenon, <1>1, <1>2 DEF Operating
    <2>3. CASE f[p[j + 1].hash] = "whole"
        BY Zenon, <1>1, <1>2, <2>1, <2>2, <2>3 DEF Operating
    <2>4. CASE \E i \in 1 .. (j + 1) - 1 : p[i].do = "rename" /\ p[i].hash = p[j + 1].hash
        <3>1. PICK i \in 1 .. (j + 1) - 1 : p[i].do = "rename" /\ p[i].hash = p[j + 1].hash
            BY Zenon, <2>4
        <3>2. CASE i = 1
            BY Zenon, <1>1, <1>2, <2>2, <3>1, <3>2 DEF Operating
        <3>3. CASE i # 1
            <4>1. i - 1 \in 1 .. j - 1 /\ Tail(p)[i - 1] = p[i]
                BY <3>3, <1>0
            <4> QED BY SMTT(30), <1>1, <1>2, <3>1, <4>1 DEF Operating
        <3> QED BY Zenon, <3>2, <3>3
    <2> QED BY Zenon, <1>1, <1>2, <2>3, <2>4 DEF Operating
<1>3. CASE p[j + 1].do = "link_del"
    BY Zenon, <1>1, <1>3 DEF Operating
<1>4. CASE p[j + 1].do = "rename"
    <2>1. Head(p).do # "unpack"
        <3>1. Follows(p[1], p[1 + 1])
            BY <1>0 DEF WellFormed
        <3> QED BY Zenon, <1>1, <3>1 DEF Follows
    <2> QED BY Zenon, <1>1, <1>4, <2>1 DEF Operating
<1>5. p[j + 1].do # "fatal"
    BY Zenon, <1>1 DEF Operating
<1> QED BY Zenon, <1>1, <1>2, <1>3, <1>4, <1>5

\* What is left for app_FinishUpdates(), when its first change turned system s
\* into s2.
LEMMA FinishingTail ==
    ASSUME NEW p \in Seq(Steps), p # <<>>, WellFormed(p),
           NEW s \in System, NEW s2 \in System,
           Finishing(s, p),
           s2.new = s.new, s2.del = s.del,
           IF Head(p).do = "link_app"
           THEN s2.apps = [s.apps EXCEPT ![Head(p).app] = Head(p).hash]
           ELSE IF Head(p).do = "remove_app"
           THEN s2.apps = [s.apps EXCEPT ![Head(p).app] = None]
           ELSE s2.apps = s.apps
    PROVE  Finishing(s2, Tail(p))
<1> DEFINE q == Tail(p)
<1>0. /\ Len(p) \in Nat \ {0} /\ Head(p) = p[1] /\ Len(q) = Len(p) - 1
      /\ \A i \in 1 .. Len(q) : q[i] = p[i + 1] /\ i + 1 \in 1 .. Len(p)
      /\ \A i \in 1 .. Len(p) : i # 1 => p[i] = q[i - 1] /\ i - 1 \in 1 .. Len(q)
      /\ q # <<>> => Len(p) > 1
    BY TailFacts
<1>1. /\ 1 \in 1 .. Len(p) /\ Len(p) \in 1 .. Len(p)
      /\ s.apps \in [Apps -> Hashes \union {None}]
    BY <1>0 DEF System
<1> HIDE DEF q
<1>2. \A i \in 1 .. Len(q) :
         /\ q[i].do \in {"snapshot", "mark_bad", "delete_config", "import_config", "link_app",
                         "writeable_files", "remove_app", "remove_files", "mark_tried",
                         "fatal"}
         /\ q[i].do = "link_app" => s2.new[q[i].app] = q[i].hash
         /\ q[i].do = "remove_app" => s2.del[q[i].app] # None
    BY <1>0 DEF Finishing
<1>3. q # <<>> => q[Len(q)].do \in {"mark_tried", "fatal"}
    BY <1>0, <1>1 DEF Finishing
<1>4. ASSUME NEW a \in Apps, s2.new[a] # None, s2.del[a] = None
      PROVE  \/ s2.apps[a] = s2.new[a]
             \/ \E i \in 1 .. Len(q) : q[i].do = "link_app" /\ q[i].app = a
    <2>1. Head(p).do = "remove_app" => Head(p).app # a
        BY <1>0, <1>1, <1>4 DEF Finishing
    <2>2. Head(p).do = "link_app" => s.new[Head(p).app] = Head(p).hash
        BY <1>0, <1>1 DEF Finishing
    <2>3. CASE s.apps[a] = s.new[a]
        BY Zenon, <1>1, <2>1, <2>2, <2>3
    <2>4. CASE \E i \in 1 .. Len(p) : p[i].do = "link_app" /\ p[i].app = a
        <3>1. PICK i \in 1 .. Len(p) : p[i].do = "link_app" /\ p[i].app = a
            BY Zenon, <2>4
        <3>2. CASE i = 1
            BY Zenon, <1>0, <1>1, <2>2, <3>1, <3>2
        <3>3. CASE i # 1
            BY Zenon, <1>0, <3>1, <3>3
        <3> QED BY Zenon, <3>2, <3>3
    <2> QED BY <1>4, <2>3, <2>4 DEF Finishing
<1>5. ASSUME NEW a \in Apps, s2.del[a] # None, s2.new[a] = None
      PROVE  \/ s2.apps[a] = None
             \/ \E i \in 1 .. Len(q) : q[i].do = "remove_app" /\ q[i].app = a
    <2>1. Head(p).do = "link_app" => Head(p).app # a
        <3> SUFFICES ASSUME Head(p).do = "link_app", Head(p).app = a PROVE FALSE
            BY Zenon
        <3>1. p[1] \in Steps
            BY <1>1
        <3>2. Head(p).hash \in Hashes
            BY Zenon, <1>0, <3>1 DEF Steps
        <3>3. s.new[a] = Head(p).hash
            BY <1>0, <1>1 DEF Finishing
        <3> QED BY Zenon, <1>5, <3>2, <3>3, HashesAssumption
    <2>2. CASE s.apps[a] = None
        BY Zenon, <1>1, <2>1, <2>2
    <2>3. CASE \E i \in 1 .. Len(p) : p[i].do = "remove_app" /\ p[i].app = a
        <3>1. PICK i \in 1 .. Len(p) : p[i].do = "remove_app" /\ p[i].app = a
            BY Zenon, <2>3
        <3>2. CASE i = 1
            BY Zenon, <1>0, <1>1, <3>1, <3>2
        <3>3. CASE i # 1
            BY Zenon, <1>0, <3>1, <3>3
        <3> QED BY Zenon, <3>2, <3>3
    <2> QED BY <1>5, <2>2, <2>3 DEF Finishing
<1> QED BY Zenon, <1>2, <1>3, <1>4, <1>5 DEF Finishing, q

\* What is left of an operation does not use an app that was deleted in part.
LEMMA PartTail ==
    ASSUME NEW p \in Seq(Steps), p # <<>>, WellFormed(p),
           NEW f, NEW f2, NEW r, NEW r2,
           PartIsUnused(f, r, p),
           \A h \in Hashes : f2[h] = "part" => f[h] = "part" /\ Head(p).do # "remove_unused",
           r2 = r \/ Head(p).do \in {"unpack", "unpack_removal"}
    PROVE  PartIsUnused(f2, r2, Tail(p))
<1> DEFINE q == Tail(p)
<1>0. /\ Len(p) \in Nat \ {0} /\ Head(p) = p[1] /\ Len(q) = Len(p) - 1
      /\ \A i \in 1 .. Len(q) : q[i] = p[i + 1] /\ i + 1 \in 1 .. Len(p)
    BY TailFacts
<1> HIDE DEF q
<1> SUFFICES ASSUME NEW h \in Hashes, f2[h] = "part"
             PROVE  /\ r2 = None
                    /\ \A j \in 1 .. Len(q) :
                          q[j].do \in {"rename", "unpack", "unpack_removal"} =>
                            \E i \in 1 .. j - 1 : q[i].do = "remove_unused"
    BY Zenon DEF PartIsUnused, q
<1>1. f[h] = "part" /\ Head(p).do # "remove_unused"
    BY Zenon
<1>2. Head(p).do \notin {"unpack", "unpack_removal"} /\ r = None
    BY <1>0, <1>1 DEF PartIsUnused
<1>3. ASSUME NEW j \in 1 .. Len(q), q[j].do \in {"rename", "unpack", "unpack_removal"}
      PROVE  \E i \in 1 .. j - 1 : q[i].do = "remove_unused"
    <2>1. PICK i \in 1 .. (j + 1) - 1 : p[i].do = "remove_unused"
        BY Zenon, <1>0, <1>1, <1>3 DEF PartIsUnused
    <2>2. i - 1 \in 1 .. j - 1 /\ q[i - 1] = p[i]
        BY <1>0, <1>1, <2>1
    <2> QED BY Zenon, <2>1, <2>2
<1> QED BY Zenon, <1>2, <1>3

\* A change that leaves the rest of its operation to be made preserves the
\* invariant when it meets these conditions.
LEMMA AdvanceInv ==
    ASSUME AppInv, todo # <<>>, todo' = Tail(todo), phase' = phase,
           AppType', FilesKept', HalfChangedIsBad', snapshot' # None => AllMatch(snapshot'),
           \/ \A h \in Hashes : files[h] = "whole" => files'[h] = "whole"
           \/ Head(todo).do \in {"remove_files", "remove_unused"},
           Head(todo).do = "rename" => files'[Head(todo).hash] = "whole",
           \A h \in Hashes : files'[h] = "part" =>
               files[h] = "part" /\ Head(todo).do # "remove_unused",
           unpacked' \in {None, unpacked} \/ Head(todo).do = "unpack",
           ready' = ready \/ Head(todo).do \in {"unpack", "unpack_removal"},
           ready' # None /\ ready'.kind = "install" => unpacked' \in {None, ready'.hash},
           IF Head(todo).do = "link_app"
           THEN sys'.apps = [sys.apps EXCEPT ![Head(todo).app] = Head(todo).hash]
           ELSE IF Head(todo).do = "remove_app"
           THEN sys'.apps = [sys.apps EXCEPT ![Head(todo).app] = None]
           ELSE sys'.apps = sys.apps,
           \/ sys'.new = sys.new /\ sys'.del = sys.del
           \/ Head(todo).do \in {"link_new", "link_del", "remove_new", "unlink_del"},
           Tail(todo) = <<>> /\ Ends(Head(todo)) => AllMatch(sys'),
           Tail(todo) # <<>> /\ Follows(Head(todo), Head(Tail(todo))) =>
               Before(sys', unpacked', Head(Tail(todo)))
    PROVE  AppInv'
<1>1. /\ todo \in Seq(Steps) /\ WellFormed(todo) /\ sys \in System /\ sys' \in System
      /\ PartIsUnused(files, ready, todo) /\ phase # "off"
    BY Zenon DEF AppInv, AppType
<1>2. /\ Len(todo) \in Nat \ {0} /\ Head(todo) = todo[1] /\ WellFormed(Tail(todo))
      /\ IF Tail(todo) = <<>> THEN Len(todo) = 1 /\ Ends(Head(todo))
         ELSE Len(todo) > 1 /\ Follows(Head(todo), Head(Tail(todo)))
    BY Zenon, <1>1, TailFacts
<1>3. PartIsUnused(files', ready', Tail(todo))
    BY Zenon, <1>1, PartTail
<1>4. CASE phase = "running"
    <2>1. Operating(sys, files, unpacked, todo)
        BY Zenon, <1>4 DEF AppInv
    <2>2. sys'.apps = sys.apps \/ Head(todo).do \in {"link_app", "remove_app"}
        BY Zenon
    <2>3. Operating(sys', files', unpacked', Tail(todo))
        BY Zenon, <1>1, <2>1, <2>2, OperatingTail
    <2> QED BY Zenon, <1>1, <1>2, <1>3, <1>4, <2>3 DEF AppInv
<1>5. CASE phase = "starting"
    <2>1. Finishing(sys, todo) /\ ready = None
        BY Zenon, <1>5 DEF AppInv
    <2>2. Head(todo).do \notin {"link_new", "link_del", "remove_new", "unlink_del", "unpack",
                               "unpack_removal"}
        <3>1. \A i \in 1 .. Len(todo) :
                 todo[i].do \in {"snapshot", "mark_bad", "delete_config", "import_config", "link_app",
                                "writeable_files", "remove_app", "remove_files", "mark_tried",
                                "fatal"}
            BY Zenon, <2>1 DEF Finishing
        <3>2. 1 \in 1 .. Len(todo)
            BY <1>2
        <3>3. Head(todo).do \in {"snapshot", "mark_bad", "delete_config", "import_config", "link_app",
                               "writeable_files", "remove_app", "remove_files", "mark_tried",
                               "fatal"}
            BY Zenon, <1>2, <3>1, <3>2
        <3> QED BY Zenon, <3>3
    <2>3. sys'.new = sys.new /\ sys'.del = sys.del /\ ready' = None
        BY Zenon, <2>1, <2>2
    <2>4. Finishing(sys', Tail(todo))
        BY Zenon, <1>1, <2>1, <2>3, FinishingTail
    <2> QED BY Zenon, <1>1, <1>2, <1>3, <1>5, <2>3, <2>4 DEF AppInv
<1> QED BY Zenon, <1>1, <1>4, <1>5 DEF AppInv, AppType

\* The files of the linked apps are complete when no link was added and no file
\* of a linked app removed.
LEMMA FilesKeptFrom ==
    ASSUME FilesKept,
           \A h \in Links(sys') : h \in Hashes => h \in Links(sys) \/ files'[h] = "whole",
           snapshot' \in {None, snapshot, sys},
           \A h \in Hashes : files[h] = "whole" /\ system_AppUsedInAnySystem(h) =>
               files'[h] = "whole"
    PROVE  FilesKept'
<1> SUFFICES ASSUME NEW h \in Hashes,
                    h \in Links(sys') \/ (snapshot' # None /\ h \in Links(snapshot'))
             PROVE  files'[h] = "whole"
    BY Zenon DEF FilesKept, system_AppUsedInAnySystem, Links
<1>1. files'[h] = "whole" \/ h \in Links(sys) \/ (snapshot # None /\ h \in Links(snapshot))
    BY Zenon
<1> QED BY Zenon, <1>1 DEF FilesKept, system_AppUsedInAnySystem

\* Systems with the same links are linked to the same files.
LEMMA SameLinks ==
    ASSUME NEW s, NEW t, s.apps = t.apps, s.new = t.new, s.del = t.del
    PROVE  Links(s) = Links(t)
BY Zenon DEF Links

-----------------------------------------------------------------------------
(* The changes.                                                             *)

\* The change of the status preserves the invariant: every app matches then.
LEMMA StatusInv ==
    ASSUME AppInv, todo # <<>>, todo' = Tail(todo),
           UNCHANGED <<snapshot, files, unpacked, phase, ready>>, probation' \in BOOLEAN,
           sys' \in System, sys'.apps = sys.apps, sys'.new = sys.new, sys'.del = sys.del,
           sys'.cfg = sys.cfg,
           Head(todo).do \in {"modified", "untried", "mark_bad", "mark_tried", "mark_good"},
           Head(todo).do = "mark_bad" => sys'.status = "bad"
    PROVE  AppInv'
<1>1. /\ AppType /\ FilesKept /\ todo \in Seq(Steps) /\ WellFormed(todo) /\ phase # "off"
      /\ Before(sys, unpacked, Head(todo))
    BY Zenon DEF AppInv, AppType
<1>2. AllMatch(sys')
    BY Zenon, <1>1 DEF AllMatch, Before, Matches
<1>3. AppType'
    <2>1. todo' \in Seq(Steps)
        BY Zenon, <1>1, TailFacts
    <2> QED BY Zenon, <1>1, <2>1 DEF AppType
<1>4. FilesKept'
    <2>1. Links(sys') = Links(sys)
        BY Zenon, SameLinks
    <2> QED BY Zenon, <1>1, <2>1, FilesKeptFrom
<1>5. HalfChangedIsBad'
    BY Zenon, <1>2 DEF HalfChangedIsBad, AllMatch, Matches
<1>6. Tail(todo) # <<>> /\ Follows(Head(todo), Head(Tail(todo))) =>
          Before(sys', unpacked', Head(Tail(todo)))
    BY Zenon, <1>2 DEF Follows, Before, AllMatch
<1>7. snapshot' # None => AllMatch(snapshot')
    BY Zenon DEF AppInv
<1>8. ready' # None /\ ready'.kind = "install" => unpacked' \in {None, ready'.hash}
    BY Zenon DEF AppInv
<1> QED BY Zenon, <1>2, <1>3, <1>4, <1>5, <1>6, <1>7, <1>8, AdvanceInv

\* An operation that ends with an error leaves a system in which every app
\* matches.
LEMMA GiveUpInv ==
    ASSUME AppInv, todo # <<>>, GiveUp, UNCHANGED <<sys, snapshot, files, unpacked>>,
           Head(todo).do \notin {"import_config", "link_app", "remove_app"}
    PROVE  AppInv'
<1>1. /\ todo' = <<>> /\ UNCHANGED <<phase, ready, probation>>
      /\ Len(<<>>) = 0 /\ <<>> \in Seq(Steps) /\ phase # "off"
    BY DEF GiveUp, AppInv
<1>2. AllMatch(sys)
    BY Zenon, <1>1 DEF AppInv, Before, AllMatch
<1>3. AppType' /\ FilesKept' /\ HalfChangedIsBad'
    BY Zenon, <1>1 DEF AppInv, AppType, FilesKept, HalfChangedIsBad, system_AppUsedInAnySystem, Links
<1>4. /\ WellFormed(<<>>) /\ Finishing(sys, <<>>) /\ Operating(sys, files, unpacked, <<>>)
    BY <1>1 DEF WellFormed, Finishing, Operating
<1>5. PartIsUnused(files, ready, <<>>)
    BY <1>1 DEF AppInv, PartIsUnused
<1> QED BY Zenon, <1>1, <1>2, <1>3, <1>4, <1>5 DEF AppInv, AllMatch, Matches

\* A power failure or a fatal error preserves the invariant.
LEMMA FatalInv ==
    ASSUME AppInv, Fatal, UNCHANGED <<snapshot, unpacked>>,
           sys' \in System, sys'.apps = sys.apps, sys'.new = sys.new, sys'.del = sys.del,
           sys' = sys \/ sys'.status = "bad",
           files' \in [Hashes -> {"none", "part", "whole"}],
           \A h \in Hashes : system_AppUsedInAnySystem(h) => files'[h] = files[h]
    PROVE  AppInv'
<1>1. /\ todo' = <<>> /\ phase' = "off" /\ ready' = None /\ probation' = FALSE
      /\ Len(<<>>) = 0 /\ <<>> \in Seq(Steps)
    BY DEF Fatal
<1>2. AppType'
    BY Zenon, <1>1 DEF AppInv, AppType
<1>3. FilesKept'
    <2>1. Links(sys') = Links(sys)
        BY Zenon, SameLinks
    <2>2. FilesKept
        BY Zenon DEF AppInv
    <2> QED BY Zenon, <2>1, <2>2, FilesKeptFrom
<1>4. HalfChangedIsBad'
    BY Zenon DEF AppInv, HalfChangedIsBad
<1>5. WellFormed(<<>>) /\ PartIsUnused(files', None, <<>>)
    BY <1>1 DEF WellFormed, PartIsUnused
<1>6. snapshot' # None => AllMatch(snapshot')
    BY Zenon DEF AppInv
<1> QED BY Zenon, <1>1, <1>2, <1>3, <1>4, <1>5, <1>6 DEF AppInv

\* Copying the current system preserves the invariant: a good one matches.
LEMMA SnapshotInv == ASSUME AppInv, system_Snapshot PROVE AppInv'
<1>1. /\ todo # <<>> /\ Head(todo).do = "snapshot" /\ sys.status # "bad"
      /\ UNCHANGED <<sys, files, unpacked>>
    BY Zenon DEF system_Snapshot, Next
<1>2. CASE GiveUp /\ UNCHANGED snapshot
    BY Zenon, <1>1, <1>2, GiveUpInv
<1>3. CASE Advance /\ snapshot' = (IF sys.status = "good" THEN sys ELSE snapshot)
    <2>1. /\ todo' = Tail(todo) /\ UNCHANGED <<phase, ready, probation>>
          /\ snapshot' \in {snapshot, sys}
        BY Zenon, <1>3 DEF Advance
    <2>2. /\ AppType /\ FilesKept /\ HalfChangedIsBad /\ todo \in Seq(Steps)
          /\ WellFormed(todo) /\ phase # "off" /\ Before(sys, unpacked, Head(todo))
        BY Zenon, <1>1 DEF AppInv, AppType
    <2>3. AllMatch(sys)
        BY Zenon, <1>1, <2>2 DEF AllMatch, Before
    <2>4. AppType'
        <3>1. todo' \in Seq(Steps)
            BY Zenon, <1>1, <2>1, <2>2, TailFacts
        <3> QED BY Zenon, <1>1, <2>1, <2>2, <3>1 DEF AppType
    <2>5. FilesKept'
        BY Zenon, <1>1, <2>1, <2>2, FilesKeptFrom
    <2>6. HalfChangedIsBad'
        BY Zenon, <1>1, <2>2 DEF HalfChangedIsBad
    <2>7. snapshot' # None => AllMatch(snapshot')
        BY Zenon, <2>1, <2>3 DEF AppInv
    <2>8. Tail(todo) # <<>> /\ Follows(Head(todo), Head(Tail(todo))) =>
              Before(sys', unpacked', Head(Tail(todo)))
        BY Zenon, <1>1, <2>3 DEF Follows, Before, AllMatch
    <2>9. ready' # None /\ ready'.kind = "install" => unpacked' \in {None, ready'.hash}
        BY Zenon, <1>1, <2>1 DEF AppInv
    <2> QED BY Zenon, <1>1, <2>1, <2>3, <2>4, <2>5, <2>6, <2>7, <2>8, <2>9, AdvanceInv
<1> QED BY Zenon, <1>2, <1>3 DEF system_Snapshot

\* Changing the status preserves the invariant.
LEMMA StatusChangesInv ==
    ASSUME AppInv,
           \/ system_MarkModified \/ sysStatus_SetUntried \/ sysStatus_MarkBad
           \/ sysStatus_MarkTried \/ sysStatus_MarkGood
    PROVE  AppInv'
<1>1. /\ AppType /\ sys \in System /\ probation \in BOOLEAN
    BY Zenon DEF AppInv, AppType
<1>2. CASE system_MarkModified
    <2>1. /\ todo # <<>> /\ Head(todo).do = "modified" /\ todo' = Tail(todo)
          /\ UNCHANGED <<snapshot, files, unpacked, phase, ready, probation>>
          /\ sys' = IF sys.modified THEN sys
                    ELSE [sys EXCEPT !.modified = TRUE, !.status = "tried", !.tries = 0]
        BY Zenon, <1>2 DEF system_MarkModified, Next, Advance
    <2>2. /\ sys' \in System /\ sys'.apps = sys.apps /\ sys'.new = sys.new
          /\ sys'.del = sys.del /\ sys'.cfg = sys.cfg
        <3>1. CASE sys.modified
            BY Zenon, <1>1, <2>1, <3>1
        <3>2. CASE ~sys.modified
            <4> DEFINE t1 == [sys EXCEPT !.modified = TRUE]
                       t2 == [t1 EXCEPT !.status = "tried"]
            <4>1. /\ t1 \in System /\ t1.apps = sys.apps /\ t1.new = sys.new
                  /\ t1.del = sys.del /\ t1.cfg = sys.cfg
                BY Zenon, <1>1 DEF System
            <4>2. sys' = [t2 EXCEPT !.tries = 0]
                BY Zenon, <2>1, <3>2
            <4> HIDE DEF t1
            <4>3. /\ t2 \in System /\ t2.apps = sys.apps /\ t2.new = sys.new
                  /\ t2.del = sys.del /\ t2.cfg = sys.cfg
                BY Zenon, <4>1 DEF System
            <4> HIDE DEF t2
            <4> QED BY <4>2, <4>3, TriesAssumption DEF System
        <3> QED BY Zenon, <3>1, <3>2
    <2> QED BY Zenon, <1>1, <2>1, <2>2, StatusInv
<1>3. ASSUME NEW name \in {"untried", "mark_bad", "mark_tried", "mark_good"},
             NEW status \in {"good", "bad", "tried"}, NEW tries \in {0, 1},
             SetStatus(name, status, tries), probation' \in BOOLEAN,
             name = "mark_bad" => status = "bad"
      PROVE  AppInv'
    <2>1. /\ todo # <<>> /\ Head(todo).do = name /\ todo' = Tail(todo)
          /\ UNCHANGED <<snapshot, files, unpacked, phase, ready>>
          /\ sys' = [sys EXCEPT !.status = status, !.tries = tries]
        BY Zenon, <1>3 DEF SetStatus, Next
    <2>2. /\ sys' \in System /\ sys'.apps = sys.apps /\ sys'.new = sys.new
          /\ sys'.del = sys.del /\ sys'.cfg = sys.cfg /\ sys'.status = status
        <3> DEFINE t == [sys EXCEPT !.status = status]
        <3>1. /\ t \in System /\ t.apps = sys.apps /\ t.new = sys.new
              /\ t.del = sys.del /\ t.cfg = sys.cfg /\ t.status = status
            BY Zenon, <1>1 DEF System
        <3>2. sys' = [t EXCEPT !.tries = tries]
            BY Zenon, <2>1
        <3> HIDE DEF t
        <3> QED BY <3>1, <3>2, TriesAssumption DEF System
    <2> QED BY Zenon, <1>3, <2>1, <2>2, StatusInv
<1> QED
    BY Zenon, <1>1, <1>2, <1>3 DEF sysStatus_SetUntried, sysStatus_MarkBad, sysStatus_MarkTried,
                            sysStatus_MarkGood

\* Giving the unpacked app its name preserves the invariant.
LEMMA RenameInv == ASSUME AppInv, RenameUnpacked PROVE AppInv'
<1> DEFINE h == Head(todo).hash
<1>1. /\ todo # <<>> /\ Head(todo).do = "rename" /\ UNCHANGED snapshot
    BY Zenon DEF RenameUnpacked, Next
<1>2. /\ AppType /\ FilesKept /\ HalfChangedIsBad /\ todo \in Seq(Steps)
      /\ WellFormed(todo) /\ phase # "off" /\ Before(sys, unpacked, Head(todo))
      /\ PartIsUnused(files, ready, todo)
    BY Zenon, <1>1 DEF AppInv, AppType
<1>3. Len(todo) \in Nat \ {0} /\ Head(todo) = todo[1] /\ Head(todo) \in Steps
    BY Zenon, <1>1, <1>2, TailFacts
<1>4. h \in Hashes
    BY Zenon, <1>1, <1>3 DEF Steps
<1>5. CASE Advance /\ sys' = sys
           /\ \/ app_Exists(h) /\ UNCHANGED <<files, unpacked>>
              \/ files' = [files EXCEPT ![h] = "whole"] /\ unpacked' = None
    <2>1. /\ todo' = Tail(todo) /\ UNCHANGED <<phase, ready, probation>>
        BY Zenon, <1>5 DEF Advance
    <2>2. AllMatch(sys)
        BY Zenon, <1>1, <1>2 DEF AllMatch, Before
    <2>3. files[h] # "part"
        BY <1>1, <1>2, <1>3, <1>4 DEF PartIsUnused
    <2>4. /\ files' \in [Hashes -> {"none", "part", "whole"}]
          /\ files'[h] = "whole" /\ \A g \in Hashes : g # h => files'[g] = files[g]
        BY Zenon, <1>2, <1>4, <1>5, <2>3 DEF app_Exists, AppType
    <2>5. AppType'
        <3>1. todo' \in Seq(Steps)
            BY Zenon, <1>1, <1>2, <2>1, TailFacts
        <3> QED BY Zenon, <1>1, <1>2, <1>5, <2>1, <2>4, <3>1 DEF AppType
    <2>6. FilesKept'
        BY Zenon, <1>1, <1>2, <1>5, <2>4, FilesKeptFrom
    <2>7. HalfChangedIsBad'
        BY Zenon, <1>2, <1>5 DEF HalfChangedIsBad
    <2>8. snapshot' # None => AllMatch(snapshot')
        BY Zenon, <1>1 DEF AppInv
    <2>9. Tail(todo) # <<>> /\ Follows(Head(todo), Head(Tail(todo))) =>
              Before(sys', unpacked', Head(Tail(todo)))
        BY Zenon, <1>1, <1>5, <2>2 DEF Follows, Before, AllMatch
    <2>10. ready' # None /\ ready'.kind = "install" => unpacked' \in {None, ready'.hash}
        BY Zenon, <1>5, <2>1 DEF AppInv
    <2>11. /\ \A g \in Hashes : files[g] = "whole" => files'[g] = "whole"
           /\ \A g \in Hashes : files'[g] = "part" => files[g] = "part"
           /\ unpacked' \in {None, unpacked}
        BY Zenon, <1>5, <2>4
    <2> QED BY Zenon, <1>1, <1>5, <2>1, <2>2, <2>4, <2>5, <2>6, <2>7, <2>8, <2>9, <2>10, <2>11,
               AdvanceInv
<1>6. CASE /\ sys' = [sys EXCEPT !.status = "bad"] /\ Fatal /\ UNCHANGED <<files, unpacked>>
    <2>1. /\ sys' \in System /\ sys'.apps = sys.apps /\ sys'.new = sys.new
          /\ sys'.del = sys.del /\ sys'.status = "bad"
        BY Zenon, <1>2, <1>6 DEF System, AppType
    <2>2. files' \in [Hashes -> {"none", "part", "whole"}]
        BY Zenon, <1>2, <1>6 DEF AppType
    <2> QED BY Zenon, <1>1, <1>6, <2>1, <2>2, FatalInv
<1> QED BY Zenon, <1>5, <1>6 DEF RenameUnpacked

\* A change of a link or of the configuration preserves the invariant when it
\* meets these conditions.
LEMMA SetLinkInv ==
    ASSUME AppInv, NEW name, NEW s \in System, SetLink(name, s),
           name \notin {"rename", "unpack", "unpack_removal", "remove_files", "remove_unused"},
           \A h \in Links(s) : h \in Hashes => h \in Links(sys) \/ files[h] = "whole",
           (s.status = "bad" /\ sys.status = "bad") \/ AllMatch(s),
           IF name = "link_app"
           THEN s.apps = [sys.apps EXCEPT ![Head(todo).app] = Head(todo).hash]
           ELSE IF name = "remove_app"
           THEN s.apps = [sys.apps EXCEPT ![Head(todo).app] = None]
           ELSE s.apps = sys.apps,
           \/ s.new = sys.new /\ s.del = sys.del
           \/ name \in {"link_new", "link_del", "remove_new", "unlink_del"},
           Ends(Head(todo)) => AllMatch(s),
           \A t \in Steps : Follows(Head(todo), t) => Before(s, unpacked, t)
    PROVE  AppInv'
<1>1. /\ todo # <<>> /\ Head(todo).do = name /\ todo' = Tail(todo) /\ sys' = s
      /\ UNCHANGED <<snapshot, files, unpacked, phase, ready, probation>>
    BY Zenon DEF SetLink, Next, Advance
<1>2. /\ AppType /\ FilesKept /\ todo \in Seq(Steps) /\ WellFormed(todo) /\ phase # "off"
    BY Zenon, <1>1 DEF AppInv, AppType
<1>3. todo' \in Seq(Steps)
    BY Zenon, <1>1, <1>2, TailFacts
<1>4. AppType'
    BY Zenon, <1>1, <1>2, <1>3 DEF AppType
<1>5. FilesKept'
    BY Zenon, <1>1, <1>2, FilesKeptFrom
<1>6. HalfChangedIsBad'
    BY Zenon, <1>1 DEF HalfChangedIsBad, AllMatch, Matches
<1>7. snapshot' # None => AllMatch(snapshot')
    BY Zenon, <1>1 DEF AppInv
<1>8. Tail(todo) # <<>> /\ Follows(Head(todo), Head(Tail(todo))) =>
          Before(sys', unpacked', Head(Tail(todo)))
    <2>1. Tail(todo) # <<>> => Head(Tail(todo)) \in Steps
        BY <1>1, <1>3
    <2> QED BY Zenon, <1>1, <2>1
<1>9. ready' # None /\ ready'.kind = "install" => unpacked' \in {None, ready'.hash}
    BY Zenon, <1>1 DEF AppInv
<1> QED BY Zenon, <1>1, <1>4, <1>5, <1>6, <1>7, <1>8, <1>9, AdvanceInv

\* The app and the version of the change of a link are those of an app.
LEMMA HeadOfVersion ==
    ASSUME AppInv, todo # <<>>,
           Head(todo).do \in {"link_app", "link_new", "link_del", "remove_app", "remove_new",
                              "unlink_del", "delete_config", "import_config", "remove_files",
                              "unpack"}
    PROVE  Head(todo).app \in Apps /\ Head(todo).hash \in Hashes
<1>1. todo \in Seq(Steps) /\ WellFormed(todo)
    BY Zenon DEF AppInv, AppType
<1>2. Head(todo) \in Steps
    BY Zenon, <1>1, TailFacts
<1> QED BY Zenon, <1>2 DEF Steps

\* What is linked has its files.
LEMMA LinkedIsWhole ==
    ASSUME AppInv, todo # <<>>, Head(todo).do \in {"link_app", "link_new", "link_del"}
    PROVE  \/ files[Head(todo).hash] = "whole"
           \/ Head(todo).do = "link_del" /\ Head(todo).hash = sys.apps[Head(todo).app]
           \/ Head(todo).do = "link_app" /\ Head(todo).hash = sys.new[Head(todo).app]
<1>1. /\ todo \in Seq(Steps) /\ WellFormed(todo) /\ phase \in {"starting", "running"}
      /\ phase = "starting" => Finishing(sys, todo)
      /\ phase = "running" => Operating(sys, files, unpacked, todo)
    BY Zenon DEF AppInv, AppType
<1>2. Len(todo) \in Nat \ {0} /\ Head(todo) = todo[1]
    BY Zenon, <1>1, TailFacts
<1>3. 1 \in 1 .. Len(todo) /\ ~\E i \in 1 .. 1 - 1 : TRUE
    BY <1>2
<1>4. CASE phase = "starting"
    BY <1>1, <1>2, <1>3, <1>4 DEF Finishing
<1>5. CASE phase = "running"
    BY Zenon, <1>1, <1>2, <1>3, <1>5 DEF Operating
<1> QED BY Zenon, <1>1, <1>4, <1>5

\* Linking an app preserves the invariant.
LEMMA SymlinkInv == ASSUME AppInv, system_SymlinkApp PROVE AppInv'
<1> DEFINE a == Head(todo).app
           h == Head(todo).hash
<1>1. /\ todo # <<>> /\ Head(todo).do \in {"link_app", "link_new", "link_del"}
      /\ phase # "off" /\ sys \in System
    BY Zenon DEF system_SymlinkApp, SetLink, Next, AppInv, AppType
<1>2. a \in Apps /\ h \in Hashes
    BY Zenon, <1>1, HeadOfVersion
<1>3. /\ Before(sys, unpacked, Head(todo))
      /\ files[h] = "whole" \/ h \in Links(sys)
    BY Zenon, <1>1, <1>2, LinkedIsWhole DEF AppInv, Links
<1>4. ~Ends(Head(todo))
    BY Zenon, <1>1 DEF Ends
<1> HIDE DEF a, h
<1>5. CASE SetLink("link_app", [sys EXCEPT !.apps[a] = h])
    <2> DEFINE s == [sys EXCEPT !.apps[a] = h]
    <2>1. /\ s \in System /\ s.status = sys.status /\ s.new = sys.new /\ s.del = sys.del
          /\ s.cfg = sys.cfg /\ s.apps = [sys.apps EXCEPT ![a] = h]
        BY Zenon, <1>1, <1>2 DEF System
    <2>2. Head(todo).do = "link_app"
        BY Zenon, <1>5 DEF SetLink, Next
    <2> HIDE DEF s
    <2>3. sys.apps \in [Apps -> Hashes \union {None}]
        BY Zenon, <1>1 DEF System
    <2>4. AllMatch(s) /\ sys.status = "bad"
        BY Zenon, <1>2, <1>3, <2>1, <2>2, <2>3 DEF AllMatch, Matches, Before, a, h
    <2>5. \A g \in Links(s) : g \in Hashes => g \in Links(sys) \/ files[g] = "whole"
        BY <1>2, <1>3, <2>1, <2>3 DEF Links
    <2>6. \A t \in Steps : Follows(Head(todo), t) => Before(s, unpacked, t)
        BY Zenon, <2>1, <2>2, <2>4 DEF Follows, Before, AllMatch
    <2>7. SetLink("link_app", s)
        BY Zenon, <1>5 DEF s
    <2> QED BY Zenon, <1>4, <2>1, <2>4, <2>5, <2>6, <2>7, SetLinkInv DEF a, h
<1>6. CASE SetLink("link_new", [sys EXCEPT !.new[a] = h])
    <2> DEFINE s == [sys EXCEPT !.new[a] = h]
    <2>1. /\ s \in System /\ s.status = sys.status /\ s.apps = sys.apps /\ s.del = sys.del
          /\ s.cfg = sys.cfg /\ s.new = [sys.new EXCEPT ![a] = h]
        BY Zenon, <1>1, <1>2 DEF System
    <2>2. Head(todo).do = "link_new"
        BY Zenon, <1>6 DEF SetLink, Next
    <2> HIDE DEF s
    <2>3. sys.new \in [Apps -> Hashes \union {None}]
        BY Zenon, <1>1 DEF System
    <2>4. AllMatch(s)
        BY Zenon, <1>3, <2>1, <2>2 DEF AllMatch, Matches, Before
    <2>5. \A g \in Links(s) : g \in Hashes => g \in Links(sys) \/ files[g] = "whole"
        BY <1>2, <1>3, <2>1, <2>3 DEF Links
    <2>6. \A t \in Steps : Follows(Head(todo), t) => Before(s, unpacked, t)
        BY Zenon, <2>1, <2>2, <2>4 DEF Follows, Before, AllMatch
    <2>7. SetLink("link_new", s)
        BY Zenon, <1>6 DEF s
    <2> QED BY Zenon, <1>4, <2>1, <2>4, <2>5, <2>6, <2>7, SetLinkInv
<1>7. CASE SetLink("link_del", [sys EXCEPT !.del[a] = h])
    <2> DEFINE s == [sys EXCEPT !.del[a] = h]
    <2>1. /\ s \in System /\ s.status = sys.status /\ s.apps = sys.apps /\ s.new = sys.new
          /\ s.cfg = sys.cfg /\ s.del = [sys.del EXCEPT ![a] = h]
        BY Zenon, <1>1, <1>2 DEF System
    <2>2. Head(todo).do = "link_del"
        BY Zenon, <1>7 DEF SetLink, Next
    <2> HIDE DEF s
    <2>3. sys.del \in [Apps -> Hashes \union {None}]
        BY Zenon, <1>1 DEF System
    <2>4. AllMatch(s)
        BY Zenon, <1>3, <2>1, <2>2 DEF AllMatch, Matches, Before
    <2>5. \A g \in Links(s) : g \in Hashes => g \in Links(sys) \/ files[g] = "whole"
        BY <1>2, <1>3, <2>1, <2>3 DEF Links
    <2>6. \A t \in Steps : Follows(Head(todo), t) => Before(s, unpacked, t)
        BY Zenon, <2>1, <2>2, <2>4 DEF Follows, Before, AllMatch
    <2>7. SetLink("link_del", s)
        BY Zenon, <1>7 DEF s
    <2> QED BY Zenon, <1>4, <2>1, <2>4, <2>5, <2>6, <2>7, SetLinkInv
<1> QED BY Zenon, <1>5, <1>6, <1>7 DEF system_SymlinkApp, a, h

\* Removing a link preserves the invariant.
LEMMA RemoveLinkInv == ASSUME AppInv, system_RemoveApp PROVE AppInv'
<1> DEFINE a == Head(todo).app
<1>1. /\ todo # <<>> /\ Head(todo).do \in {"remove_app", "remove_new", "unlink_del"}
      /\ phase # "off" /\ sys \in System
    BY Zenon DEF system_RemoveApp, SetLink, Next, AppInv, AppType
<1>2. a \in Apps
    BY Zenon, <1>1, HeadOfVersion
<1>3. Before(sys, unpacked, Head(todo))
    BY Zenon, <1>1 DEF AppInv
<1>4. ~Ends(Head(todo))
    BY Zenon, <1>1 DEF Ends
<1> HIDE DEF a
<1>5. CASE SetLink("remove_app", [sys EXCEPT !.apps[a] = None])
    <2> DEFINE s == [sys EXCEPT !.apps[a] = None]
    <2>1. /\ s \in System /\ s.status = sys.status /\ s.new = sys.new /\ s.del = sys.del
          /\ s.cfg = sys.cfg /\ s.apps = [sys.apps EXCEPT ![a] = None]
        BY Zenon, <1>1, <1>2 DEF System
    <2>2. Head(todo).do = "remove_app"
        BY Zenon, <1>5 DEF SetLink, Next
    <2> HIDE DEF s
    <2>3. sys.apps \in [Apps -> Hashes \union {None}]
        BY Zenon, <1>1 DEF System
    <2>4. AllMatch(s) /\ sys.status = "bad"
        BY Zenon, <1>2, <1>3, <2>1, <2>2, <2>3 DEF AllMatch, Matches, Before, a
    <2>5. \A g \in Links(s) : g \in Hashes => g \in Links(sys)
        BY <1>2, <2>1, <2>3, HashesAssumption DEF Links
    <2>6. \A t \in Steps : Follows(Head(todo), t) => Before(s, unpacked, t)
        BY Zenon, <2>1, <2>2, <2>4 DEF Follows, Before, AllMatch
    <2>7. SetLink("remove_app", s)
        BY Zenon, <1>5 DEF s
    <2> QED BY Zenon, <1>4, <2>1, <2>4, <2>5, <2>6, <2>7, SetLinkInv DEF a
<1>6. CASE SetLink("remove_new", [sys EXCEPT !.new[a] = None])
    <2> DEFINE s == [sys EXCEPT !.new[a] = None]
    <2>1. /\ s \in System /\ s.status = sys.status /\ s.apps = sys.apps /\ s.del = sys.del
          /\ s.cfg = sys.cfg /\ s.new = [sys.new EXCEPT ![a] = None]
        BY Zenon, <1>1, <1>2 DEF System
    <2>2. Head(todo).do = "remove_new"
        BY Zenon, <1>6 DEF SetLink, Next
    <2> HIDE DEF s
    <2>3. sys.new \in [Apps -> Hashes \union {None}]
        BY Zenon, <1>1 DEF System
    <2>4. AllMatch(s)
        BY Zenon, <1>3, <2>1, <2>2 DEF AllMatch, Matches, Before
    <2>5. \A g \in Links(s) : g \in Hashes => g \in Links(sys)
        BY <1>2, <2>1, <2>3, HashesAssumption DEF Links
    <2>6. \A t \in Steps : Follows(Head(todo), t) => Before(s, unpacked, t)
        BY Zenon, <2>1, <2>2, <2>4 DEF Follows, Before, AllMatch
    <2>7. SetLink("remove_new", s)
        BY Zenon, <1>6 DEF s
    <2> QED BY Zenon, <1>4, <2>1, <2>4, <2>5, <2>6, <2>7, SetLinkInv
<1>7. CASE SetLink("unlink_del", [sys EXCEPT !.del[a] = None])
    <2> DEFINE s == [sys EXCEPT !.del[a] = None]
    <2>1. /\ s \in System /\ s.status = sys.status /\ s.apps = sys.apps /\ s.new = sys.new
          /\ s.cfg = sys.cfg /\ s.del = [sys.del EXCEPT ![a] = None]
        BY Zenon, <1>1, <1>2 DEF System
    <2>2. Head(todo).do = "unlink_del"
        BY Zenon, <1>7 DEF SetLink, Next
    <2> HIDE DEF s
    <2>3. sys.del \in [Apps -> Hashes \union {None}]
        BY Zenon, <1>1 DEF System
    <2>4. AllMatch(s)
        BY Zenon, <1>3, <2>1, <2>2 DEF AllMatch, Matches, Before
    <2>5. \A g \in Links(s) : g \in Hashes => g \in Links(sys)
        BY <1>2, <2>1, <2>3, HashesAssumption DEF Links
    <2>6. \A t \in Steps : Follows(Head(todo), t) => Before(s, unpacked, t)
        BY Zenon, <2>1, <2>2, <2>4 DEF Follows, Before, AllMatch
    <2>7. SetLink("unlink_del", s)
        BY Zenon, <1>7 DEF s
    <2> QED BY Zenon, <1>4, <2>1, <2>4, <2>5, <2>6, <2>7, SetLinkInv
<1> QED BY Zenon, <1>5, <1>6, <1>7 DEF system_RemoveApp, a

\* Changing an app's configuration preserves the invariant: the system is bad, and
\* the link of the same app is changed next.
LEMMA ConfigInv == ASSUME AppInv, ImportConfig PROVE AppInv'
<1> DEFINE a == Head(todo).app
           h == Head(todo).hash
<1>1. /\ todo # <<>> /\ Head(todo).do \in {"delete_config", "import_config"}
      /\ phase # "off" /\ sys \in System
    BY Zenon DEF ImportConfig, SetLink, Next, AppInv, AppType
<1>2. a \in Apps /\ h \in Hashes
    BY Zenon, <1>1, HeadOfVersion
<1>3. Before(sys, unpacked, Head(todo))
    BY Zenon, <1>1 DEF AppInv
<1>4. ~Ends(Head(todo))
    BY Zenon, <1>1 DEF Ends
<1>5. ASSUME NEW c \in Hashes \union {None, Missing},
             NEW name, SetLink(name, [sys EXCEPT !.cfg[a] = c]),
             \/ name = "delete_config" /\ c = None
             \/ name = "import_config" /\ c \in {h, Missing}
      PROVE  AppInv'
    <2> DEFINE s == [sys EXCEPT !.cfg[a] = c]
    <2>1. /\ s \in System /\ s.status = sys.status /\ s.apps = sys.apps /\ s.new = sys.new
          /\ s.del = sys.del /\ s.cfg = [sys.cfg EXCEPT ![a] = c]
        BY Zenon, <1>1, <1>2 DEF System
    <2>2. Head(todo).do = name
        BY Zenon, <1>5 DEF SetLink, Next
    <2> HIDE DEF s
    <2>3. sys.cfg \in [Apps -> Hashes \union {None, Missing}] /\ sys.status = "bad"
        BY Zenon, <1>1, <1>3 DEF System, Before
    <2>4. \A b \in Apps : b # a => Matches(s, b)
        <3>1. \A b \in Apps : b # a => Matches(sys, b)
            BY Zenon, <1>1, <1>3 DEF Before
        <3> QED BY Zenon, <2>1, <2>3, <3>1 DEF Matches
    <2>5. Links(s) = Links(sys)
        BY Zenon, <2>1, SameLinks
    <2>6. s.cfg[a] = c
        BY Zenon, <1>2, <2>1, <2>3
    <2>7. ASSUME NEW t \in Steps, Follows(Head(todo), t) PROVE Before(s, unpacked, t)
        <3>1. CASE name = "delete_config"
            BY Zenon, <1>5, <2>1, <2>2, <2>3, <2>4, <2>6, <2>7, <3>1 DEF Follows, Before
        <3>2. CASE name = "import_config"
            BY Zenon, <1>5, <2>1, <2>2, <2>3, <2>4, <2>6, <2>7, <3>2 DEF Follows, Before
        <3> QED BY Zenon, <1>5, <3>1, <3>2
    <2>8. SetLink(name, s)
        BY Zenon, <1>5 DEF s
    <2> HIDE DEF a, h
    <2> QED BY Zenon, <1>4, <1>5, <2>1, <2>3, <2>5, <2>7, <2>8, SetLinkInv
<1> HIDE DEF a, h
<1> QED BY Zenon, <1>2, <1>5 DEF ImportConfig, a, h

\* The first change of an operation.
LEMMA HeadIsFirst ==
    ASSUME NEW p \in Seq(Steps), Len(p) # 0
    PROVE  p # <<>> /\ Head(p) = p[1] /\ Head(p) \in Steps
OBVIOUS

\* An operation that app_FinishUpdates() goes on with after a failure: it will be
\* fatal in the end.
LEMMA FatalInTheEnd ==
    ASSUME NEW q \in Seq(Steps), q # <<>>, WellFormed(q), NEW s, Finishing(s, q),
           NEW r, r = [q EXCEPT ![Len(q)] = Do("fatal")]
    PROVE  /\ r \in Seq(Steps) /\ r # <<>> /\ WellFormed(r) /\ Finishing(s, r)
           /\ Head(r) = Head(q) \/ Head(r) = Do("fatal")
           /\ \A i \in 1 .. Len(r) : r[i].do \notin {"rename", "unpack", "unpack_removal"}
<1> DEFINE n == Len(q)
<1>1. Do("fatal") \in Steps /\ Do("fatal").do = "fatal"
    BY Zenon DEF Do, Step, Steps
<1>2. n \in Nat \ {0} /\ q[n].do \in {"mark_tried", "fatal"}
    BY DEF Finishing
<1>3. /\ r \in Seq(Steps) /\ Len(r) = n /\ r # <<>>
      /\ r[n] = Do("fatal") /\ \A i \in 1 .. n : i # n => r[i] = q[i]
    <2>1. n \in 1 .. Len(q)
        BY <1>2
    <2>2. /\ r \in Seq(Steps) /\ Len(r) = n
          /\ \A j \in 1 .. n : r[j] = IF j = n THEN Do("fatal") ELSE q[j]
        BY <1>1, <2>1
    <2>3. r # <<>>
        BY Zenon, <1>2, <2>2, HeadIsFirst
    <2> HIDE DEF n
    <2> QED BY <1>2, <2>2, <2>3
<1>4. Head(r) = r[1] /\ Head(q) = q[1]
    BY Zenon, <1>2, <1>3, HeadIsFirst
<1> HIDE DEF n
<1>5. WellFormed(r)
    <2>1. ASSUME NEW i \in 1 .. n - 1 PROVE Follows(r[i], r[i + 1])
        <3>1. Follows(q[i], q[i + 1])
            BY Zenon, <2>1 DEF WellFormed, n
        <3>2. r[i] = q[i]
            BY <1>2, <1>3
        <3>3. CASE i + 1 = n
            BY Zenon, <1>1, <1>2, <1>3, <3>1, <3>2, <3>3 DEF Follows
        <3>4. CASE i + 1 # n
            BY <1>2, <1>3, <3>1, <3>2, <3>4
        <3> QED BY Zenon, <3>3, <3>4
    <2> QED BY Zenon, <1>1, <1>3, <2>1 DEF WellFormed, Ends
<1>6. \A i \in 1 .. n : r[i].do = "fatal" \/ r[i] = q[i]
    BY Zenon, <1>1, <1>3
<1>7. \A i \in 1 .. n : q[i].do \in {"link_app", "remove_app"} => r[i] = q[i]
    BY Zenon, <1>2, <1>3
<1>8. Finishing(s, r)
    <2>1. \A i \in 1 .. Len(r) :
         /\ r[i].do \in {"snapshot", "mark_bad", "delete_config", "import_config", "link_app",
                         "writeable_files", "remove_app", "remove_files", "mark_tried",
                         "fatal"}
         /\ r[i].do = "link_app" => s.new[r[i].app] = r[i].hash
         /\ r[i].do = "remove_app" => s.del[r[i].app] # None
        <3> SUFFICES ASSUME NEW i \in 1 .. n
                     PROVE  /\ r[i].do \in {"snapshot", "mark_bad", "delete_config",
                                   "import_config", "link_app", "writeable_files",
                                   "remove_app", "remove_files", "mark_tried", "fatal"}
                            /\ r[i].do = "link_app" => s.new[r[i].app] = r[i].hash
                            /\ r[i].do = "remove_app" => s.del[r[i].app] # None
            BY Zenon, <1>3
        <3>1. CASE r[i].do = "fatal"
            BY Zenon, <3>1
        <3>2. CASE r[i] = q[i]
            BY <3>2 DEF Finishing, n
        <3> QED BY Zenon, <1>6, <3>1, <3>2
    <2>2. \A a \in Apps :
              /\ s.new[a] # None /\ s.del[a] = None =>
                    \/ s.apps[a] = s.new[a]
                    \/ \E i \in 1 .. Len(r) : r[i].do = "link_app" /\ r[i].app = a
              /\ s.del[a] # None /\ s.new[a] = None =>
                    \/ s.apps[a] = None
                    \/ \E i \in 1 .. Len(r) : r[i].do = "remove_app" /\ r[i].app = a
        <3> TAKE a \in Apps
        <3>1. /\ s.new[a] # None /\ s.del[a] = None =>
                    \/ s.apps[a] = s.new[a]
                    \/ \E i \in 1 .. n : q[i].do = "link_app" /\ q[i].app = a
              /\ s.del[a] # None /\ s.new[a] = None =>
                    \/ s.apps[a] = None
                    \/ \E i \in 1 .. n : q[i].do = "remove_app" /\ q[i].app = a
            BY Zenon DEF Finishing, n
        <3> QED BY <1>3, <1>7, <3>1
    <2> QED BY <1>1, <1>3, <2>1, <2>2 DEF Finishing
<1>9. Head(r) = Head(q) \/ Head(r) = Do("fatal")
    BY <1>2, <1>3, <1>4
<1>10. \A i \in 1 .. Len(r) : r[i].do \notin {"rename", "unpack", "unpack_removal"}
    BY Zenon, <1>8 DEF Finishing
<1> QED BY Zenon, <1>3, <1>5, <1>8, <1>9, <1>10

\* Updating the writeable files of an app, or failing to, preserves the invariant.
LEMMA WriteableFilesInv == ASSUME AppInv, UpdateWriteableFiles PROVE AppInv'
<1>1. /\ todo # <<>> /\ Head(todo).do = "writeable_files"
      /\ UNCHANGED <<sys, snapshot, files, unpacked>>
    BY Zenon DEF UpdateWriteableFiles, Next
<1>2. /\ AppType /\ FilesKept /\ HalfChangedIsBad /\ todo \in Seq(Steps)
      /\ WellFormed(todo) /\ phase # "off" /\ Before(sys, unpacked, Head(todo))
      /\ PartIsUnused(files, ready, todo) /\ sys \in System
    BY Zenon, <1>1 DEF AppInv, AppType
<1>3. AllMatch(sys) /\ sys.status = "bad"
    BY Zenon, <1>1, <1>2 DEF AllMatch, Before
<1>4. /\ Len(todo) \in Nat \ {0} /\ Tail(todo) \in Seq(Steps) /\ WellFormed(Tail(todo))
      /\ Len(Tail(todo)) = Len(todo) - 1
      /\ Tail(todo) # <<>> /\ Follows(Head(todo), Head(Tail(todo)))
    <2>1. ~Ends(Head(todo))
        BY Zenon, <1>1 DEF Ends
    <2> QED BY Zenon, <1>1, <1>2, <2>1, TailFacts
<1>5. Before(sys, unpacked, Head(Tail(todo)))
    BY Zenon, <1>1, <1>3, <1>4 DEF Follows, Before, AllMatch
<1>6. FilesKept' /\ HalfChangedIsBad' /\ (snapshot' # None => AllMatch(snapshot'))
    BY Zenon, <1>1, <1>2 DEF FilesKept, HalfChangedIsBad, AppInv, system_AppUsedInAnySystem, Links
<1>7. CASE Advance
    <2>1. todo' = Tail(todo) /\ UNCHANGED <<phase, ready, probation>>
        BY Zenon, <1>7 DEF Advance
    <2>2. AppType'
        BY Zenon, <1>1, <1>2, <1>4, <2>1 DEF AppType
    <2>3. ready' # None /\ ready'.kind = "install" => unpacked' \in {None, ready'.hash}
        BY Zenon, <1>1, <2>1 DEF AppInv
    <2> QED BY Zenon, <1>1, <1>3, <1>5, <1>6, <2>1, <2>2, <2>3, AdvanceInv
<1>8. CASE GiveUp
    BY Zenon, <1>1, <1>8, GiveUpInv
<1>9. CASE /\ phase = "starting" /\ todo' = [Tail(todo) EXCEPT ![Len(todo) - 1] = Do("fatal")]
           /\ UNCHANGED <<phase, ready, probation>>
    <2>1. Finishing(sys, todo) /\ ready = None
        BY Zenon, <1>9 DEF AppInv
    <2>2. Finishing(sys, Tail(todo))
        BY Zenon, <1>1, <1>2, <2>1, FinishingTail
    <2>3. todo' = [Tail(todo) EXCEPT ![Len(Tail(todo))] = Do("fatal")]
        BY Zenon, <1>4, <1>9
    <2>4. /\ todo' \in Seq(Steps) /\ todo' # <<>> /\ WellFormed(todo') /\ Finishing(sys, todo')
          /\ Head(todo') = Head(Tail(todo)) \/ Head(todo') = Do("fatal")
          /\ \A i \in 1 .. Len(todo') : todo'[i].do \notin {"rename", "unpack", "unpack_removal"}
        BY Zenon, <1>4, <2>2, <2>3, FatalInTheEnd
    <2>5. Before(sys, unpacked, Head(todo'))
        <3>1. Before(sys, unpacked, Do("fatal"))
            BY Zenon, <1>3 DEF Before, AllMatch, Do, Step
        <3> QED BY Zenon, <1>5, <2>4, <3>1
    <2>6. AppType'
        BY Zenon, <1>1, <1>2, <1>9, <2>4 DEF AppType
    <2>7. PartIsUnused(files, ready, todo')
        BY Zenon, <2>1, <2>4 DEF PartIsUnused
    <2> QED BY Zenon, <1>1, <1>6, <1>9, <2>1, <2>4, <2>5, <2>6, <2>7 DEF AppInv
<1> QED BY Zenon, <1>7, <1>8, <1>9 DEF UpdateWriteableFiles

\* The fatal end of app_FinishUpdates() preserves the invariant.
LEMMA FailedToFinishInv == ASSUME AppInv, FailedToFinish PROVE AppInv'
<1>1. Fatal /\ UNCHANGED <<sys, snapshot, files, unpacked>>
    BY Zenon DEF FailedToFinish
<1>2. sys \in System /\ files \in [Hashes -> {"none", "part", "whole"}]
    BY Zenon DEF AppInv, AppType
<1> QED BY Zenon, <1>1, <1>2, FatalInv

\* Deleting files that no system uses preserves the invariant.
LEMMA CleanUpInv ==
    ASSUME AppInv, RemoveFiles \/ system_RemoveUnneeded \/ system_RemoveUnusedApps
    PROVE  AppInv'
<1>1. /\ todo # <<>> /\ UNCHANGED sys
      /\ Head(todo).do \in {"remove_files", "remove_unneeded", "remove_unused"}
      /\ todo' = Tail(todo) /\ UNCHANGED <<phase, ready, probation>>
    BY Zenon DEF RemoveFiles, system_RemoveUnneeded, system_RemoveUnusedApps, Next, Advance
<1>2. /\ AppType /\ FilesKept /\ HalfChangedIsBad /\ todo \in Seq(Steps)
      /\ WellFormed(todo) /\ phase # "off" /\ Before(sys, unpacked, Head(todo))
    BY Zenon, <1>1 DEF AppInv, AppType
<1>3. AllMatch(sys)
    BY Zenon, <1>1, <1>2 DEF AllMatch, Before
<1>4. /\ files' \in [Hashes -> {"none", "part", "whole"}]
      /\ snapshot' \in {None, snapshot}
      /\ unpacked' \in {None, unpacked}
      /\ Head(todo).do = "remove_unused" => unpacked' = None
      /\ \A h \in Hashes : system_AppUsedInAnySystem(h) => files'[h] = files[h]
      /\ \A h \in Hashes : files'[h] = "part" => files[h] = "part"
      /\ Head(todo).do = "remove_unused" => \A h \in Hashes : files'[h] # "part"
      /\ Head(todo).do = "remove_unneeded" => files' = files
    <2>1. CASE RemoveFiles
        <3> DEFINE h == Head(todo).hash
        <3>1. /\ Head(todo).do = "remove_files" /\ UNCHANGED <<snapshot, unpacked>>
              /\ files' = IF system_AppUsedInAnySystem(h) THEN files
                          ELSE [files EXCEPT ![h] = "none"]
            BY Zenon, <2>1 DEF RemoveFiles, Next
        <3>2. files \in [Hashes -> {"none", "part", "whole"}]
            BY Zenon, <1>2 DEF AppType
        <3> HIDE DEF h
        <3>3. CASE system_AppUsedInAnySystem(h)
            BY Zenon, <3>1, <3>2, <3>3
        <3>4. CASE ~system_AppUsedInAnySystem(h)
            BY Zenon, <3>1, <3>2, <3>4
        <3> QED BY Zenon, <3>3, <3>4
    <2>2. CASE system_RemoveUnneeded
        BY Zenon, <1>2, <2>2 DEF system_RemoveUnneeded, Next, AppType
    <2>3. CASE system_RemoveUnusedApps
        <3>1. /\ Head(todo).do = "remove_unused" /\ UNCHANGED snapshot /\ unpacked' = None
              /\ files' = [h \in Hashes |-> IF system_AppUsedInAnySystem(h) THEN files[h]
                                            ELSE "none"]
            BY Zenon, <2>3 DEF system_RemoveUnusedApps, Next
        <3>2. files \in [Hashes -> {"none", "part", "whole"}]
            BY Zenon, <1>2 DEF AppType
        <3> QED BY Zenon, <1>2, <3>1, <3>2 DEF FilesKept
    <2> QED BY Zenon, <2>1, <2>2, <2>3
<1>5. AppType'
    <2>1. todo' \in Seq(Steps)
        BY Zenon, <1>1, <1>2, TailFacts
    <2> QED BY Zenon, <1>1, <1>2, <1>4, <2>1 DEF AppType
<1>6. FilesKept'
    BY Zenon, <1>1, <1>2, <1>4, FilesKeptFrom
<1>7. HalfChangedIsBad'
    BY Zenon, <1>1, <1>2 DEF HalfChangedIsBad
<1>8. snapshot' # None => AllMatch(snapshot')
    BY Zenon, <1>4 DEF AppInv
<1>9. Tail(todo) # <<>> /\ Follows(Head(todo), Head(Tail(todo))) =>
          Before(sys', unpacked', Head(Tail(todo)))
    <2>1. Head(todo).do = "remove_files" => sys.status = "bad"
        BY Zenon, <1>2 DEF Before
    <2> QED BY Zenon, <1>1, <1>3, <1>4, <2>1 DEF Follows, Before, AllMatch
<1>10. ready' # None /\ ready'.kind = "install" => unpacked' \in {None, ready'.hash}
    BY Zenon, <1>1, <1>4 DEF AppInv
<1> QED BY Zenon, <1>1, <1>3, <1>4, <1>5, <1>6, <1>7, <1>8, <1>9, <1>10, AdvanceInv

\* The end of the unpacking of an update pack preserves the invariant.
LEMMA UnpackedInv == ASSUME AppInv, Unpacked PROVE AppInv'
<1>1. /\ todo # <<>> /\ Head(todo).do \in {"unpack", "unpack_removal"} /\ todo' = Tail(todo)
      /\ UNCHANGED <<sys, snapshot, files, phase, probation>>
    BY Zenon DEF Unpacked, Next
<1>2. /\ AppType /\ FilesKept /\ HalfChangedIsBad /\ todo \in Seq(Steps)
      /\ WellFormed(todo) /\ phase # "off" /\ Before(sys, unpacked, Head(todo))
    BY Zenon, <1>1 DEF AppInv, AppType
<1>3. /\ Tail(todo) \in Seq(Steps) /\ Head(todo) \in Steps
      /\ ~(Tail(todo) # <<>> /\ Follows(Head(todo), Head(Tail(todo))))
    BY Zenon, <1>1, <1>2, TailFacts DEF Follows
<1>4. AllMatch(sys)
    BY Zenon, <1>1, <1>2 DEF AllMatch, Before
<1>5. /\ ready' \in [kind : {"install"}, app : Apps, hash : Hashes]
                    \union [kind : {"remove"}, app : Apps, hash : {None}] \union {None}
      /\ unpacked' \in Hashes \union {None}
      /\ unpacked' \in {None, unpacked} \/ Head(todo).do = "unpack"
      /\ ready'.kind = "install" => unpacked' \in {None, ready'.hash}
    <2>1. CASE Next("unpack")
        <3>1. Head(todo).do = "unpack" /\ unpacked = None
            BY Zenon, <1>2, <2>1 DEF Next, Before
        <3>2. Head(todo).app \in Apps /\ Head(todo).hash \in Hashes
            BY Zenon, <1>1, <3>1, HeadOfVersion
        <3>3. /\ unpacked' = IF app_Exists(Head(todo).hash) THEN unpacked ELSE Head(todo).hash
              /\ ready' = Update("install", Head(todo).app, Head(todo).hash)
            BY Zenon, <3>1 DEF Unpacked, Next
        <3> QED BY Zenon, <3>1, <3>2, <3>3 DEF Update
    <2>2. CASE Next("unpack_removal")
        <3>1. Head(todo).do = "unpack_removal"
            BY Zenon, <2>2 DEF Next
        <3>2. Head(todo).app \in Apps /\ Head(todo).hash = None
            BY Zenon, <1>3, <3>1 DEF Steps
        <3>3. /\ unpacked' = unpacked
              /\ ready' = Update("remove", Head(todo).app, Head(todo).hash)
            BY Zenon, <3>1 DEF Unpacked, Next
        <3>4. unpacked \in Hashes \union {None}
            BY Zenon, <1>2 DEF AppType
        <3> QED BY Zenon, <3>1, <3>2, <3>3, <3>4 DEF Update
    <2> QED BY Zenon, <2>1, <2>2 DEF Unpacked
<1>6. AppType'
    BY Zenon, <1>1, <1>2, <1>3, <1>5 DEF AppType
<1>7. FilesKept' /\ HalfChangedIsBad'
    BY Zenon, <1>1, <1>2 DEF FilesKept, HalfChangedIsBad, system_AppUsedInAnySystem, Links
<1>8. (snapshot' # None => AllMatch(snapshot')) /\ AllMatch(sys')
    BY Zenon, <1>1, <1>4 DEF AppInv
<1> QED BY Zenon, <1>1, <1>3, <1>5, <1>6, <1>7, <1>8, AdvanceInv

-----------------------------------------------------------------------------
(* The operations.                                                          *)

\* What an operation must be to be begun by the idle daemon.
LEMMA BeginInv ==
    ASSUME AppInv, Idle, UNCHANGED <<sys, snapshot, files, unpacked, phase, probation>>,
           ready' \in {ready, None}, todo' \in Seq(Steps), WellFormed(todo'),
           Operating(sys, files, unpacked, todo'), PartIsUnused(files, ready', todo'),
           todo' # <<>> => Head(todo').do \in {"snapshot", "mark_good", "remove_unneeded"}
    PROVE  AppInv'
<1>1. AllMatch(sys) /\ phase = "running"
    BY Zenon DEF AppInv, Idle
<1>2. AppType'
    BY Zenon DEF AppInv, AppType
<1>3. FilesKept' /\ HalfChangedIsBad'
    BY Zenon DEF AppInv, FilesKept, HalfChangedIsBad, system_AppUsedInAnySystem, Links
<1>4. todo' # <<>> => Before(sys', unpacked', Head(todo'))
    BY Zenon, <1>1 DEF Before, AllMatch
<1>5. /\ snapshot' # None => AllMatch(snapshot')
      /\ ready' # None /\ ready'.kind = "install" => unpacked' \in {None, ready'.hash}
    BY Zenon DEF AppInv
<1> QED BY Zenon, <1>1, <1>2, <1>3, <1>4, <1>5 DEF AppInv

\* Space is made for an update pack, which is then unpacked.
LEMMA ReceivePackInv ==
    ASSUME AppInv, NEW kind, NEW a \in Apps, NEW h, ReceivePack(kind, a, h),
           \/ kind = "unpack" /\ h \in Hashes
           \/ kind = "unpack_removal" /\ h = None
    PROVE  AppInv'
<1> DEFINE p == todo'
<1>1. /\ Idle /\ UNCHANGED <<sys, snapshot, files, unpacked, phase, ready, probation>>
      /\ p = <<Do("remove_unneeded"), Do("remove_unused")>> \o <<Step(kind, a, h)>>
    BY Zenon DEF ReceivePack, MakeSpace
<1>2. /\ Do("remove_unneeded") \in Steps /\ Do("remove_unused") \in Steps
      /\ Step(kind, a, h) \in Steps
    BY Zenon DEF Do, Step, Steps
<1>3. /\ p \in Seq(Steps) /\ Len(p) = 3
      /\ p[1] = Do("remove_unneeded") /\ p[2] = Do("remove_unused")
      /\ p[3] = Step(kind, a, h)
    BY <1>1, <1>2
<1> HIDE DEF p
<1>4. /\ p[1].do = "remove_unneeded" /\ p[2].do = "remove_unused"
      /\ p[3].do \in {"unpack", "unpack_removal"}
    BY <1>3 DEF Do, Step
<1>5. WellFormed(p) /\ Operating(sys, files, unpacked, p)
    BY <1>3, <1>4 DEF WellFormed, Operating, Follows, Ends
<1>6. PartIsUnused(files, ready, p)
    <2>1. \A j \in 1 .. 3 : p[j].do \in {"rename", "unpack", "unpack_removal"} =>
              \E i \in 1 .. j - 1 : p[i].do = "remove_unused"
        <3>1. 2 \in 1 .. 3 - 1
            OBVIOUS
        <3> QED BY <1>4, <3>1
    <2>2. ready = None
        BY Zenon DEF ReceivePack
    <2> QED BY Zenon, <1>3, <2>1, <2>2 DEF PartIsUnused
<1>7. Head(p) = p[1]
    BY <1>3, HeadIsFirst
<1> QED BY Zenon, <1>1, <1>3, <1>4, <1>5, <1>6, <1>7, BeginInv DEF p

\* A probation that ends well.
LEMMA MarkGoodInv == ASSUME AppInv, updateDaemon_MarkGood PROVE AppInv'
<1> DEFINE p == todo'
<1>1. /\ Idle /\ UNCHANGED <<sys, snapshot, files, unpacked, phase, ready, probation>>
      /\ p = <<Do("mark_good")>> \o <<Do("remove_unneeded"), Do("remove_unused")>>
    BY Zenon DEF updateDaemon_MarkGood, MakeSpace
<1>2. /\ Do("mark_good") \in Steps /\ Do("remove_unneeded") \in Steps
      /\ Do("remove_unused") \in Steps
    BY Zenon DEF Do, Step, Steps
<1>3. /\ p \in Seq(Steps) /\ Len(p) = 3 /\ p[1] = Do("mark_good")
      /\ p[2] = Do("remove_unneeded") /\ p[3] = Do("remove_unused")
    BY <1>1, <1>2
<1> HIDE DEF p
<1>4. /\ p[1].do = "mark_good" /\ p[2].do = "remove_unneeded" /\ p[3].do = "remove_unused"
    BY <1>3 DEF Do, Step
<1>5. WellFormed(p) /\ Operating(sys, files, unpacked, p)
    BY <1>3, <1>4 DEF WellFormed, Operating, Follows, Ends
<1>6. PartIsUnused(files, ready, p)
    BY <1>3, <1>4 DEF PartIsUnused, AppInv
<1>7. Head(p) = p[1]
    BY <1>3, HeadIsFirst
<1> QED BY Zenon, <1>1, <1>3, <1>4, <1>5, <1>6, <1>7, BeginInv DEF p

\* The changes of app_InstallIndividual(): the app gets its name first, and nothing
\* is cleaned up before it is linked.
LEMMA InstallProgram ==
    ASSUME NEW a \in Apps, NEW h \in Hashes, unpacked \in {None, h},
           NEW p, p = app_InstallIndividual(a, h)
    PROVE  /\ p \in Seq(Steps) /\ p # <<>> /\ WellFormed(p) /\ Head(p).do = "snapshot"
           /\ Operating(sys, files, unpacked, p)
<1>1. /\ \A name \in {"snapshot", "modified", "untried", "mark_bad", "mark_tried"} :
            Do(name) \in Steps /\ Do(name).do = name
      /\ \A name \in {"rename", "link_new", "delete_config", "import_config", "link_app",
                      "writeable_files", "remove_new"} :
            /\ Step(name, a, h) \in Steps /\ Step(name, a, h).do = name
            /\ Step(name, a, h).app = a /\ Step(name, a, h).hash = h
    BY Zenon DEF Do, Step, Steps
<1>2. CASE system_HasApp(a)
    <2>1. p = <<Do("snapshot"), Do("modified"), Step("rename", a, h)>>
              \o (<<Do("untried"), Step("link_new", a, h), Do("mark_bad")>>
                  \o <<Step("delete_config", a, h), Step("import_config", a, h),
                       Step("link_app", a, h), Step("writeable_files", a, h)>>
                  \o <<Step("remove_new", a, h), Do("mark_tried")>>)
        BY Zenon, <1>2 DEF app_InstallIndividual, PerformAppUpgrade
    <2>2. /\ p \in Seq(Steps) /\ Len(p) = 12 /\ p[1] = Do("snapshot")
          /\ p[2] = Do("modified") /\ p[3] = Step("rename", a, h) /\ p[4] = Do("untried")
          /\ p[5] = Step("link_new", a, h) /\ p[6] = Do("mark_bad")
          /\ p[7] = Step("delete_config", a, h) /\ p[8] = Step("import_config", a, h)
          /\ p[9] = Step("link_app", a, h) /\ p[10] = Step("writeable_files", a, h)
          /\ p[11] = Step("remove_new", a, h) /\ p[12] = Do("mark_tried")
        BY <1>1, <2>1
    <2>3. /\ p[1].do = "snapshot" /\ p[2].do = "modified" /\ p[3].do = "rename"
          /\ p[4].do = "untried" /\ p[5].do = "link_new" /\ p[6].do = "mark_bad"
          /\ p[7].do = "delete_config" /\ p[8].do = "import_config" /\ p[9].do = "link_app"
          /\ p[10].do = "writeable_files" /\ p[11].do = "remove_new"
          /\ p[12].do = "mark_tried"
          /\ \A i \in {3, 5, 7, 8, 9} : p[i].app = a /\ p[i].hash = h
        BY <1>1, <2>2
    <2>4. WellFormed(p)
        <3>1. \A i \in 1 .. 11 : Follows(p[i], p[i + 1])
            BY <2>3 DEF Follows
        <3> QED BY <2>2, <2>3, <3>1 DEF WellFormed, Ends
    <2>5. Operating(sys, files, unpacked, p)
        <3>1. \A j \in 1 .. 12 : p[j].do \in {"link_app", "link_new"} => j \in {5, 9}
            BY <2>3
        <3>2. \A j \in {5, 9} : p[j].hash = p[3].hash /\ 3 \in 1 .. j - 1
            BY <2>3
        <3>3. \A i \in 1 .. 12 : p[i].do \notin {"remove_files", "remove_unused", "link_del",
                                                "fatal"}
            BY <2>3
        <3>4. \A j \in 1 .. 12 : p[j].do = "rename" => p[j].hash = h
            BY <2>3
        <3>5. \A j \in {5, 9} : 1 .. j - 1 \subseteq 1 .. 12
            OBVIOUS
        <3> QED BY SMTT(30), <2>2, <2>3, <3>1, <3>2, <3>3, <3>4, <3>5 DEF Operating
    <2>6. p # <<>> /\ Head(p) = p[1]
        <3>1. p \in Seq(Steps) /\ Len(p) # 0
            BY <2>2
        <3> QED BY Zenon, <3>1, HeadIsFirst
    <2> QED BY Zenon, <2>2, <2>3, <2>4, <2>5, <2>6
<1>3. CASE ~system_HasApp(a)
    <2>1. p = <<Do("snapshot"), Do("modified"), Step("rename", a, h)>>
              \o (<<Do("mark_bad")>>
                  \o <<Step("delete_config", a, h), Step("import_config", a, h),
                       Step("link_app", a, h), Step("writeable_files", a, h)>>
                  \o <<Do("mark_tried")>>)
        BY Zenon, <1>3 DEF app_InstallIndividual, PerformAppUpgrade
    <2>2. /\ p \in Seq(Steps) /\ Len(p) = 9 /\ p[1] = Do("snapshot")
          /\ p[2] = Do("modified") /\ p[3] = Step("rename", a, h) /\ p[4] = Do("mark_bad")
          /\ p[5] = Step("delete_config", a, h) /\ p[6] = Step("import_config", a, h)
          /\ p[7] = Step("link_app", a, h) /\ p[8] = Step("writeable_files", a, h)
          /\ p[9] = Do("mark_tried")
        BY <1>1, <2>1
    <2>3. /\ p[1].do = "snapshot" /\ p[2].do = "modified" /\ p[3].do = "rename"
          /\ p[4].do = "mark_bad" /\ p[5].do = "delete_config" /\ p[6].do = "import_config"
          /\ p[7].do = "link_app" /\ p[8].do = "writeable_files" /\ p[9].do = "mark_tried"
          /\ \A i \in {3, 5, 6, 7} : p[i].app = a /\ p[i].hash = h
        BY <1>1, <2>2
    <2>4. WellFormed(p)
        <3>1. \A i \in 1 .. 8 : Follows(p[i], p[i + 1])
            BY <2>3 DEF Follows
        <3> QED BY <2>2, <2>3, <3>1 DEF WellFormed, Ends
    <2>5. Operating(sys, files, unpacked, p)
        <3>1. \A j \in 1 .. 9 : p[j].do \in {"link_app", "link_new"} => j = 7
            BY <2>3
        <3>2. p[7].hash = p[3].hash /\ 3 \in 1 .. 7 - 1 /\ 1 .. 7 - 1 \subseteq 1 .. 9
            BY <2>3
        <3>3. \A i \in 1 .. 9 : p[i].do \notin {"remove_files", "remove_unused", "link_del",
                                               "fatal"}
            BY <2>3
        <3>4. \A j \in 1 .. 9 : p[j].do = "rename" => p[j].hash = h
            BY <2>3
        <3> QED BY <2>2, <2>3, <3>1, <3>2, <3>3, <3>4 DEF Operating
    <2>6. p # <<>> /\ Head(p) = p[1]
        <3>1. p \in Seq(Steps) /\ Len(p) # 0
            BY <2>2
        <3> QED BY Zenon, <3>1, HeadIsFirst
    <2> QED BY Zenon, <2>2, <2>3, <2>4, <2>5, <2>6
<1> QED BY Zenon, <1>2, <1>3

\* The changes of app_RemoveIndividual(), alone or after space was made.
LEMMA RemoveProgram ==
    ASSUME AppType, NEW a \in Apps, system_HasApp(a),
           NEW p, p \in {app_RemoveIndividual(a), MakeSpace \o app_RemoveIndividual(a)}
    PROVE  /\ p \in Seq(Steps) /\ p # <<>> /\ WellFormed(p)
           /\ Head(p).do \in {"snapshot", "remove_unneeded"}
           /\ Operating(sys, files, unpacked, p)
           /\ \A j \in 1 .. Len(p) : p[j].do \notin {"rename", "unpack", "unpack_removal"}
<1> DEFINE h == sys.apps[a]
           q == app_RemoveIndividual(a)
<1>1. h \in Hashes
    BY Zenon DEF AppType, System, system_HasApp
<1>2. /\ \A name \in {"snapshot", "modified", "untried", "mark_bad", "mark_tried",
                      "remove_unneeded", "remove_unused"} :
            Do(name) \in Steps /\ Do(name).do = name
      /\ \A name \in {"link_del", "delete_config", "remove_app", "remove_files",
                      "unlink_del"} :
            /\ Step(name, a, h) \in Steps /\ Step(name, a, h).do = name
            /\ Step(name, a, h).app = a /\ Step(name, a, h).hash = h
    BY Zenon, <1>1 DEF Do, Step, Steps
<1>3. q = <<Do("snapshot"), Do("modified"), Do("untried"), Step("link_del", a, h),
            Do("mark_bad")>>
          \o <<Step("delete_config", a, h), Step("remove_app", a, h),
               Step("remove_files", a, h)>>
          \o <<Step("unlink_del", a, h), Do("mark_tried")>>
    BY Zenon DEF app_RemoveIndividual, PerformAppDelete
<1> HIDE DEF q, h
<1>4. /\ q \in Seq(Steps) /\ Len(q) = 10 /\ q[1] = Do("snapshot")
      /\ q[2] = Do("modified") /\ q[3] = Do("untried") /\ q[4] = Step("link_del", a, h)
      /\ q[5] = Do("mark_bad") /\ q[6] = Step("delete_config", a, h)
      /\ q[7] = Step("remove_app", a, h) /\ q[8] = Step("remove_files", a, h)
      /\ q[9] = Step("unlink_del", a, h) /\ q[10] = Do("mark_tried")
    BY <1>2, <1>3
<1>5. /\ q[1].do = "snapshot" /\ q[2].do = "modified" /\ q[3].do = "untried"
      /\ q[4].do = "link_del" /\ q[5].do = "mark_bad" /\ q[6].do = "delete_config"
      /\ q[7].do = "remove_app" /\ q[8].do = "remove_files" /\ q[9].do = "unlink_del"
      /\ q[10].do = "mark_tried"
      /\ \A i \in {4, 6, 7} : q[i].app = a /\ q[i].hash = h
    BY <1>2, <1>4
<1>6. CASE p = q
    <2>1. WellFormed(q)
        <3>1. \A i \in 1 .. 9 : Follows(q[i], q[i + 1])
            BY <1>5 DEF Follows
        <3> QED BY <1>4, <1>5, <3>1 DEF WellFormed, Ends
    <2>2. \A j \in 1 .. 10 : q[j].do \notin {"rename", "unpack", "unpack_removal", "link_app",
                                            "link_new", "fatal"}
        BY <1>5
    <2>3. /\ \A j \in 1 .. 10 : q[j].do = "link_del" => j = 4
          /\ \A i \in 1 .. 4 - 1 : q[i].do \notin {"link_app", "remove_app"}
        BY <1>5
    <2>4. Operating(sys, files, unpacked, q)
        BY <1>4, <1>5, <2>2, <2>3 DEF Operating, h
    <2>5. q # <<>> /\ Head(q) = q[1]
        <3>1. q \in Seq(Steps) /\ Len(q) # 0
            BY <1>4
        <3> QED BY Zenon, <3>1, HeadIsFirst
    <2> QED BY Zenon, <1>4, <1>5, <1>6, <2>1, <2>2, <2>4, <2>5
<1>7. CASE p = MakeSpace \o q
    <2>1. p = <<Do("remove_unneeded"), Do("remove_unused")>>
              \o (<<Do("snapshot"), Do("modified"), Do("untried"), Step("link_del", a, h),
                    Do("mark_bad")>>
                  \o <<Step("delete_config", a, h), Step("remove_app", a, h),
                       Step("remove_files", a, h)>>
                  \o <<Step("unlink_del", a, h), Do("mark_tried")>>)
        BY Zenon, <1>3, <1>7 DEF MakeSpace
    <2>2. /\ p \in Seq(Steps) /\ Len(p) = 12 /\ p[1] = Do("remove_unneeded")
          /\ p[2] = Do("remove_unused") /\ p[3] = Do("snapshot") /\ p[4] = Do("modified")
          /\ p[5] = Do("untried") /\ p[6] = Step("link_del", a, h) /\ p[7] = Do("mark_bad")
          /\ p[8] = Step("delete_config", a, h) /\ p[9] = Step("remove_app", a, h)
          /\ p[10] = Step("remove_files", a, h) /\ p[11] = Step("unlink_del", a, h)
          /\ p[12] = Do("mark_tried")
        BY <1>2, <2>1
    <2>3. /\ p[1].do = "remove_unneeded" /\ p[2].do = "remove_unused"
          /\ p[3].do = "snapshot" /\ p[4].do = "modified" /\ p[5].do = "untried"
          /\ p[6].do = "link_del" /\ p[7].do = "mark_bad" /\ p[8].do = "delete_config"
          /\ p[9].do = "remove_app" /\ p[10].do = "remove_files" /\ p[11].do = "unlink_del"
          /\ p[12].do = "mark_tried"
          /\ \A i \in {6, 8, 9} : p[i].app = a /\ p[i].hash = h
        BY <1>2, <2>2
    <2>4. WellFormed(p)
        <3>1. \A i \in 1 .. 11 : Follows(p[i], p[i + 1])
            BY <2>3 DEF Follows
        <3> QED BY <2>2, <2>3, <3>1 DEF WellFormed, Ends
    <2>5. \A j \in 1 .. 12 : p[j].do \notin {"rename", "unpack", "unpack_removal", "link_app",
                                            "link_new", "fatal"}
        <3>1. \A j \in 1 .. 12 : p[j].do \in {"remove_unneeded", "remove_unused", "snapshot",
                 "modified", "untried", "link_del", "mark_bad", "delete_config", "remove_app",
                 "remove_files", "unlink_del", "mark_tried"}
            <4> SUFFICES ASSUME NEW j \in 1 .. 12
                         PROVE  p[j].do \in {"remove_unneeded", "remove_unused", "snapshot",
                             "modified", "untried", "link_del", "mark_bad", "delete_config",
                             "remove_app", "remove_files", "unlink_del", "mark_tried"}
                BY Zenon
            <4>1. \/ j = 1 \/ j = 2 \/ j = 3 \/ j = 4 \/ j = 5 \/ j = 6
                  \/ j = 7 \/ j = 8 \/ j = 9 \/ j = 10 \/ j = 11 \/ j = 12
                OBVIOUS
            <4> QED BY Zenon, <2>3, <4>1
        <3> QED BY Zenon, <3>1
    <2>6. /\ \A j \in 1 .. 12 : p[j].do = "link_del" => j = 6
          /\ \A i \in 1 .. 6 - 1 : p[i].do \notin {"link_app", "remove_app"}
        BY <2>3
    <2>7. Operating(sys, files, unpacked, p)
        BY <2>2, <2>3, <2>5, <2>6 DEF Operating, h
    <2>8. p # <<>> /\ Head(p) = p[1]
        <3>1. p \in Seq(Steps) /\ Len(p) # 0
            BY <2>2
        <3> QED BY Zenon, <3>1, HeadIsFirst
    <2> QED BY Zenon, <2>2, <2>3, <2>4, <2>5, <2>7, <2>8
<1> QED BY Zenon, <1>6, <1>7 DEF q

\* An operation without changes.
LEMMA EmptyProgram ==
    ASSUME NEW s, NEW f, NEW u, NEW r, PartIsUnused(f, r, <<>>) \/ r = None
    PROVE  /\ <<>> \in Seq(Steps) /\ WellFormed(<<>>) /\ Operating(s, f, u, <<>>)
           /\ PartIsUnused(f, r, <<>>)
<1>1. Len(<<>>) = 0 /\ <<>> \in Seq(Steps)
    OBVIOUS
<1> QED BY <1>1 DEF WellFormed, Operating, PartIsUnused

\* le_appRemove_Remove() preserves the invariant.
LEMMA RemoveNowInv == ASSUME AppInv, NEW a \in Apps, RemoveNow(a) PROVE AppInv'
<1> DEFINE p == todo'
<1>1. /\ Idle /\ UNCHANGED <<sys, snapshot, files, unpacked, phase, ready, probation>>
      /\ p = MakeSpace \o (IF system_HasApp(a) THEN app_RemoveIndividual(a) ELSE <<>>)
      /\ AppType /\ ready = None
    BY Zenon DEF RemoveNow, AppInv
<1> HIDE DEF p
<1>2. CASE system_HasApp(a)
    <2>1. p = MakeSpace \o app_RemoveIndividual(a)
        BY Zenon, <1>1, <1>2
    <2>2. /\ p \in Seq(Steps) /\ WellFormed(p) /\ Operating(sys, files, unpacked, p)
          /\ Head(p).do \in {"snapshot", "remove_unneeded"}
          /\ \A j \in 1 .. Len(p) : p[j].do \notin {"rename", "unpack", "unpack_removal"}
        BY Zenon, <1>1, <1>2, <2>1, RemoveProgram
    <2>3. PartIsUnused(files, ready, p)
        BY Zenon, <1>1, <2>2 DEF PartIsUnused
    <2> QED BY Zenon, <1>1, <2>2, <2>3, BeginInv DEF p
<1>3. CASE ~system_HasApp(a)
    <2>1. p = <<Do("remove_unneeded"), Do("remove_unused")>> \o <<>>
        BY Zenon, <1>1, <1>3 DEF MakeSpace
    <2>2. /\ Do("remove_unneeded") \in Steps /\ Do("remove_unused") \in Steps
        BY Zenon DEF Do, Step, Steps
    <2>3. /\ p \in Seq(Steps) /\ Len(p) = 2
          /\ p[1] = Do("remove_unneeded") /\ p[2] = Do("remove_unused")
        BY <2>1, <2>2
    <2>4. p[1].do = "remove_unneeded" /\ p[2].do = "remove_unused"
        BY <2>3 DEF Do, Step
    <2>5. WellFormed(p) /\ Operating(sys, files, unpacked, p)
        BY <2>3, <2>4 DEF WellFormed, Operating, Follows, Ends
    <2>6. PartIsUnused(files, ready, p)
        BY <1>1, <2>3, <2>4 DEF PartIsUnused
    <2>7. Head(p) = p[1]
        BY <2>3, HeadIsFirst
    <2> QED BY Zenon, <1>1, <2>3, <2>4, <2>5, <2>6, <2>7, BeginInv DEF p
<1> QED BY Zenon, <1>2, <1>3

\* le_update_Install() preserves the invariant.
LEMMA ApplyUpdateInv == ASSUME AppInv, ApplyUpdate PROVE AppInv'
<1> DEFINE p == todo'
<1>1. /\ Idle /\ UNCHANGED <<sys, snapshot, files, unpacked, phase, probation>>
      /\ p = IF ready.kind = "install"
             THEN IF sys.apps[ready.app] = ready.hash THEN <<>>
                  ELSE app_InstallIndividual(ready.app, ready.hash)
             ELSE IF system_HasApp(ready.app) THEN app_RemoveIndividual(ready.app) ELSE <<>>
      /\ ready # None /\ ready' = None
    BY Zenon DEF ApplyUpdate
<1>2. /\ AppType /\ ready.app \in Apps
      /\ ready.kind = "install" => ready.hash \in Hashes /\ unpacked \in {None, ready.hash}
    BY Zenon, <1>1 DEF AppInv, AppType
<1>3. \A h \in Hashes : files[h] # "part"
    BY Zenon, <1>1 DEF AppInv, PartIsUnused
<1> HIDE DEF p
<1>4. PartIsUnused(files, ready', p)
    BY Zenon, <1>3 DEF PartIsUnused
<1>5. CASE p = <<>>
    <2>1. <<>> \in Seq(Steps) /\ WellFormed(<<>>) /\ Operating(sys, files, unpacked, <<>>)
        BY Zenon, EmptyProgram
    <2> QED BY Zenon, <1>1, <1>4, <1>5, <2>1, BeginInv DEF p
<1>6. CASE ready.kind = "install" /\ p = app_InstallIndividual(ready.app, ready.hash)
    <2>1. /\ p \in Seq(Steps) /\ WellFormed(p) /\ Head(p).do = "snapshot"
          /\ Operating(sys, files, unpacked, p)
        BY Zenon, <1>2, <1>6, InstallProgram
    <2> QED BY Zenon, <1>1, <1>4, <2>1, BeginInv DEF p
<1>7. CASE system_HasApp(ready.app) /\ p = app_RemoveIndividual(ready.app)
    <2>1. /\ p \in Seq(Steps) /\ WellFormed(p) /\ Operating(sys, files, unpacked, p)
          /\ Head(p).do \in {"snapshot", "remove_unneeded"}
        BY Zenon, <1>2, <1>7, RemoveProgram
    <2> QED BY Zenon, <1>1, <1>4, <2>1, BeginInv DEF p
<1> QED BY Zenon, <1>1, <1>5, <1>6, <1>7

\* le_update_End() preserves the invariant.
LEMMA EndUpdateInv == ASSUME AppInv, EndUpdate PROVE AppInv'
<1>1. /\ Idle /\ UNCHANGED <<sys, snapshot, files, unpacked, phase, todo, probation>>
      /\ ready' = None /\ todo = <<>>
    BY Zenon DEF EndUpdate, Idle
<1>2. /\ <<>> \in Seq(Steps) /\ WellFormed(<<>>) /\ Operating(sys, files, unpacked, <<>>)
      /\ PartIsUnused(files, ready', <<>>)
    BY Zenon, <1>1, EmptyProgram
<1> QED BY Zenon, <1>1, <1>2, BeginInv

\* A failed probation and a power failure preserve the invariant.
LEMMA StopInv == ASSUME AppInv, le_updateCtrl_FailProbation \/ Crash PROVE AppInv'
<1>1. AppType /\ sys \in System /\ files \in [Hashes -> {"none", "part", "whole"}]
    BY Zenon DEF AppInv, AppType
<1>2. CASE le_updateCtrl_FailProbation
    <2>1. /\ sys' = [sys EXCEPT !.status = "bad", !.tries = 0]
          /\ Fatal /\ UNCHANGED <<snapshot, files, unpacked>>
        BY Zenon, <1>2 DEF le_updateCtrl_FailProbation
    <2>2. /\ sys' \in System /\ sys'.apps = sys.apps /\ sys'.new = sys.new
          /\ sys'.del = sys.del /\ sys'.status = "bad"
        <3> DEFINE t == [sys EXCEPT !.status = "bad"]
        <3>1. /\ t \in System /\ t.apps = sys.apps /\ t.new = sys.new /\ t.del = sys.del
              /\ t.status = "bad"
            BY Zenon, <1>1 DEF System
        <3>2. sys' = [t EXCEPT !.tries = 0]
            BY Zenon, <2>1
        <3> HIDE DEF t
        <3> QED BY <3>1, <3>2, TriesAssumption DEF System
    <2> QED BY Zenon, <1>1, <2>1, <2>2, FatalInv
<1>3. CASE Crash
    <2>1. Fatal /\ UNCHANGED <<sys, snapshot, unpacked>>
        BY Zenon, <1>3 DEF Crash
    <2>2. /\ files' \in [Hashes -> {"none", "part", "whole"}]
          /\ \A h \in Hashes : system_AppUsedInAnySystem(h) => files'[h] = files[h]
        BY Zenon, <1>1, <1>3 DEF Crash
    <2> QED BY Zenon, <1>1, <2>1, <2>2, FatalInv
<1> QED BY Zenon, <1>2, <1>3

\* The end of the daemon's start preserves the invariant.
LEMMA StartedInv == ASSUME AppInv, Started PROVE AppInv'
<1>1. /\ phase = "starting" /\ todo = <<>> /\ phase' = "running"
      /\ probation' \in BOOLEAN
      /\ UNCHANGED <<sys, snapshot, files, unpacked, todo, ready>>
    BY Zenon DEF Started
<1>2. Operating(sys, files, unpacked, <<>>)
    BY Zenon, EmptyProgram
<1>3. AppType'
    BY Zenon, <1>1 DEF AppInv, AppType
<1>4. FilesKept' /\ HalfChangedIsBad'
    BY Zenon, <1>1 DEF AppInv, FilesKept, HalfChangedIsBad, system_AppUsedInAnySystem, Links
<1>5. AllMatch(sys)
    BY Zenon, <1>1 DEF AppInv
<1>6. /\ snapshot' # None => AllMatch(snapshot')
      /\ WellFormed(todo') /\ PartIsUnused(files', ready', todo')
      /\ ready' # None /\ ready'.kind = "install" => unpacked' \in {None, ready'.hash}
    BY Zenon, <1>1 DEF AppInv
<1> QED BY Zenon, <1>1, <1>2, <1>3, <1>4, <1>5, <1>6 DEF AppInv

-----------------------------------------------------------------------------
(* app_FinishUpdates(): the changes of the apps, one app after the other.   *)

\* A set of natural numbers has a least one: what is proved for every number is
\* proved by showing that there is no least counterexample.
LEMMA LeastNumber ==
    ASSUME NEW T, T \subseteq Nat, T # {}
    PROVE  \E t \in T : \A u \in T : u >= t
<1> DEFINE R == OpToRel(<, Nat)
<1>1. PICK t \in T : \A u \in T : ~(<<u, t>> \in R)
    <2> HIDE DEF R
    <2>1. IsWellFoundedOn(R, Nat)
        BY Zenon, NatLessThanWellFounded DEF R
    <2> QED BY Zenon, <2>1, WFMin
<1>2. \A u \in T : ~(u < t)
    BY Zenon, <1>1 DEF OpToRel
<1> QED BY <1>2

\* The recursive function inside AllOf, for n sequences.
IsFlatten(g, B, n) == g = [i \in 1 .. n |-> IF i = 1 THEN B[i] ELSE g[i - 1] \o B[i]]

\* There is such a function.
LEMMA FlattenExists ==
    ASSUME NEW B, NEW n \in Nat \ {0}
    PROVE  \E g : IsFlatten(g, B, n)
<1> DEFINE T == {m \in Nat \ {0} : ~\E g : IsFlatten(g, B, m)}
<1> SUFFICES ASSUME n \in T PROVE FALSE
    BY Zenon
<1>1. PICK m \in T : \A u \in T : u >= m
    <2>1. T \subseteq Nat /\ T # {}
        BY Zenon
    <2> HIDE DEF T
    <2> QED BY Zenon, <2>1, LeastNumber
<1>2. m \in Nat \ {0} /\ ~\E g : IsFlatten(g, B, m)
    BY Zenon
<1>3. CASE m = 1
    <2> DEFINE g == [i \in 1 .. 1 |-> B[i]]
    <2>1. IsFlatten(g, B, 1)
        BY DEF IsFlatten
    <2> QED BY Zenon, <1>2, <1>3, <2>1
<1>4. CASE m # 1
    <2>1. m - 1 \in Nat \ {0} /\ m - 1 \notin T
        BY <1>1, <1>2, <1>4
    <2>2. PICK g : IsFlatten(g, B, m - 1)
        BY Zenon, <2>1
    <2> DEFINE k == [i \in 1 .. m |-> IF i = m THEN g[m - 1] \o B[m] ELSE g[i]]
    <2>3. g = [i \in 1 .. m - 1 |-> IF i = 1 THEN B[i] ELSE g[i - 1] \o B[i]]
        BY Zenon, <2>2 DEF IsFlatten
    <2>4. \A i \in 1 .. m : k[i] = IF i = 1 THEN B[i] ELSE k[i - 1] \o B[i]
        <3> TAKE i \in 1 .. m
        <3>1. CASE i = m
            <4>1. i # 1 /\ i - 1 \in 1 .. m /\ i - 1 # m
                BY <1>2, <1>4, <3>1
            <4> QED BY Zenon, <3>1, <4>1
        <3>2. CASE i # m
            <4>1. i \in 1 .. m - 1 /\ k[i] = g[i]
                BY <1>2, <3>2
            <4>2. i # 1 => i - 1 \in 1 .. m /\ i - 1 # m
                BY <1>2, <3>2
            <4>3. i # 1 => k[i - 1] = g[i - 1]
                BY Zenon, <4>2
            <4>4. g[i] = IF i = 1 THEN B[i] ELSE g[i - 1] \o B[i]
                BY Zenon, <2>3, <4>1
            <4> HIDE DEF k
            <4> QED BY Zenon, <4>1, <4>3, <4>4
        <3> QED BY Zenon, <3>1, <3>2
    <2>5. k = [i \in 1 .. m |-> k[i]]
        BY Zenon
    <2> HIDE DEF k
    <2>6. k = [i \in 1 .. m |-> IF i = 1 THEN B[i] ELSE k[i - 1] \o B[i]]
        BY Zenon, <2>4, <2>5
    <2>7. IsFlatten(k, B, m)
        BY Zenon, <2>6 DEF IsFlatten
    <2> QED BY Zenon, <1>2, <2>7
<1> QED BY Zenon, <1>3, <1>4

\* AllOf is the last value of that function.
LEMMA FlattenIsLast ==
    ASSUME NEW B, Len(B) \in Nat \ {0}
    PROVE  \E g : IsFlatten(g, B, Len(B)) /\ AllOf(B) = g[Len(B)]
<1> DEFINE n == Len(B)
           f == CHOOSE g : g = [i \in 1 .. n |-> IF i = 1 THEN B[i] ELSE g[i - 1] \o B[i]]
<1>1. \E g : g = [i \in 1 .. n |-> IF i = 1 THEN B[i] ELSE g[i - 1] \o B[i]]
    BY Zenon, FlattenExists DEF IsFlatten
<1>2. IsFlatten(f, B, n)
    BY Zenon, <1>1 DEF IsFlatten
<1>3. AllOf(B) = f[n]
    BY Zenon DEF AllOf
<1> QED BY Zenon, <1>2, <1>3

Members(p) == {p[i] : i \in 1 .. Len(p)}
Chain(p) == \A i \in 1 .. Len(p) - 1 : Follows(p[i], p[i + 1])

\* Two sequences of changes, one after the other.
LEMMA Join ==
    ASSUME NEW p \in Seq(Steps), Len(p) # 0, Chain(p),
           NEW q \in Seq(Steps), Len(q) # 0, Chain(q), Follows(p[Len(p)], q[1]),
           NEW r, r = p \o q
    PROVE  /\ r \in Seq(Steps) /\ Len(r) # 0 /\ Chain(r)
           /\ r[1] = p[1] /\ r[Len(r)] = q[Len(q)]
           /\ Members(r) = Members(p) \union Members(q)
<1> DEFINE m == Len(p)
           n == Len(q)
<1>1. m \in Nat \ {0} /\ n \in Nat \ {0}
    OBVIOUS
<1>2. /\ r \in Seq(Steps) /\ Len(r) = m + n
      /\ \A i \in 1 .. m + n : r[i] = IF i <= m THEN p[i] ELSE q[i - m]
    OBVIOUS
<1>3. /\ \A i \in 1 .. m - 1 : Follows(p[i], p[i + 1])
      /\ \A i \in 1 .. n - 1 : Follows(q[i], q[i + 1])
      /\ Follows(p[m], q[1])
    BY Zenon DEF Chain
<1> HIDE DEF m, n
<1>4. /\ \A i \in 1 .. m : i \in 1 .. m + n /\ r[i] = p[i]
      /\ \A i \in 1 .. n : i + m \in 1 .. m + n /\ r[i + m] = q[i]
    BY <1>1, <1>2
<1>5. Chain(r)
    <2> SUFFICES ASSUME NEW i \in 1 .. (m + n) - 1 PROVE Follows(r[i], r[i + 1])
        BY Zenon, <1>2 DEF Chain
    <2>0. m \in Int /\ n \in Int /\ i \in Int /\ i >= 1 /\ i < m + n
        BY <1>1
    <2>1. CASE i < m
        <3>1. i \in 1 .. m /\ i + 1 \in 1 .. m /\ i \in 1 .. m - 1
            BY <2>0, <2>1
        <3> QED BY Zenon, <1>3, <1>4, <3>1
    <2>2. CASE i = m
        <3>1. r[i] = p[m] /\ r[i + 1] = q[1]
            BY <1>1, <1>2, <2>2
        <3> QED BY Zenon, <1>3, <3>1
    <2>3. CASE i > m
        <3> DEFINE j == i - m
        <3>1. /\ j \in 1 .. n /\ j + 1 \in 1 .. n /\ j \in 1 .. n - 1
              /\ i = j + m /\ i + 1 = (j + 1) + m
            BY <2>0, <2>3
        <3> HIDE DEF j
        <3>2. Follows(q[j], q[j + 1]) /\ r[i] = q[j] /\ r[i + 1] = q[j + 1]
            BY Zenon, <1>3, <1>4, <3>1
        <3> QED BY Zenon, <3>2
    <2>4. i < m \/ i = m \/ i > m
        BY <2>0
    <2> QED BY Zenon, <2>1, <2>2, <2>3, <2>4
<1>6. Members(r) = Members(p) \union Members(q)
    <2>1. ASSUME NEW i \in 1 .. m + n PROVE r[i] \in Members(p) \union Members(q)
        <3>1. CASE i <= m
            BY <1>1, <1>2, <3>1 DEF Members, m
        <3>2. CASE ~(i <= m)
            <4>1. i - m \in 1 .. n /\ r[i] = q[i - m]
                BY <1>1, <1>2, <3>2
            <4> QED BY Zenon, <4>1 DEF Members, n
        <3> QED BY Zenon, <3>1, <3>2
    <2>2. \A i \in 1 .. m : p[i] \in Members(r)
        BY Zenon, <1>2, <1>4 DEF Members
    <2>3. \A i \in 1 .. n : q[i] \in Members(r)
        BY Zenon, <1>2, <1>4 DEF Members
    <2> QED BY ZenonT(40), <1>2, <2>1, <2>2, <2>3 DEF Members, m, n
<1>7. r[1] = p[1] /\ r[m + n] = q[n] /\ m + n # 0
    BY <1>1, <1>2
<1> QED BY Zenon, <1>2, <1>5, <1>6, <1>7 DEF n

\* AllOf of sequences each of which may follow the one before it.
LEMMA FlattenChain ==
    ASSUME NEW B, NEW n \in Nat \ {0}, Len(B) = n,
           \A i \in 1 .. n : B[i] \in Seq(Steps) /\ Len(B[i]) # 0 /\ Chain(B[i]),
           \A i, j \in 1 .. n : Follows(B[i][Len(B[i])], B[j][1]),
           NEW p, p = AllOf(B)
    PROVE  /\ p \in Seq(Steps) /\ Len(p) # 0 /\ Chain(p)
           /\ p[1] = B[1][1] /\ p[Len(p)] = B[n][Len(B[n])]
           /\ Members(p) = UNION {Members(B[i]) : i \in 1 .. n}
<1>1. PICK g : IsFlatten(g, B, n) /\ AllOf(B) = g[n]
    BY Zenon, FlattenIsLast
<1>2. /\ g[1] = B[1]
      /\ \A i \in 1 .. n : i # 1 => g[i] = g[i - 1] \o B[i]
    <2>1. g = [i \in 1 .. n |-> IF i = 1 THEN B[i] ELSE g[i - 1] \o B[i]]
        BY Zenon, <1>1 DEF IsFlatten
    <2>2. \A i \in 1 .. n : g[i] = IF i = 1 THEN B[i] ELSE g[i - 1] \o B[i]
        BY Zenon, <2>1
    <2>3. 1 \in 1 .. n
        OBVIOUS
    <2> QED BY Zenon, <2>2, <2>3
<1> DEFINE Good(i) == /\ g[i] \in Seq(Steps) /\ Len(g[i]) # 0 /\ Chain(g[i])
                      /\ g[i][1] = B[1][1] /\ g[i][Len(g[i])] = B[i][Len(B[i])]
                      /\ Members(g[i]) = UNION {Members(B[j]) : j \in 1 .. i}
           T == {i \in 1 .. n : ~Good(i)}
<1>3. Good(1)
    <2>1. 1 \in 1 .. n /\ 1 .. 1 = {1}
        OBVIOUS
    <2>2. UNION {Members(B[j]) : j \in 1 .. 1} = Members(B[1])
        BY Zenon, <2>1
    <2> QED BY Zenon, <1>2, <2>1, <2>2
<1>4. ASSUME NEW i \in 1 .. n, i # 1, Good(i - 1) PROVE Good(i)
    <2>1. i - 1 \in 1 .. n /\ 1 .. i = (1 .. i - 1) \union {i}
        BY <1>4
    <2>2. Follows(g[i - 1][Len(g[i - 1])], B[i][1])
        BY Zenon, <1>4, <2>1
    <2>3. g[i] = g[i - 1] \o B[i]
        BY Zenon, <1>2, <1>4
    <2> DEFINE a == g[i - 1]
               b == B[i]
    <2>4. /\ a \in Seq(Steps) /\ Len(a) # 0 /\ Chain(a)
          /\ b \in Seq(Steps) /\ Len(b) # 0 /\ Chain(b) /\ Follows(a[Len(a)], b[1])
          /\ g[i] = a \o b
        BY Zenon, <1>4, <2>2, <2>3
    <2> HIDE DEF a, b
    <2>5. /\ g[i] \in Seq(Steps) /\ Len(g[i]) # 0 /\ Chain(g[i])
          /\ g[i][1] = a[1] /\ g[i][Len(g[i])] = b[Len(b)]
          /\ Members(g[i]) = Members(a) \union Members(b)
        BY Zenon, <2>4, Join
    <2>6. UNION {Members(B[j]) : j \in 1 .. i}
              = (UNION {Members(B[j]) : j \in 1 .. i - 1}) \union Members(B[i])
        BY Zenon, <2>1
    <2> QED BY Zenon, <1>4, <2>5, <2>6 DEF a, b
<1>5. T = {}
    <2> SUFFICES ASSUME T # {} PROVE FALSE
        BY Zenon
    <2>1. T \subseteq Nat
        OBVIOUS
    <2>2. PICK t \in T : \A u \in T : u >= t
        <3> HIDE DEF T
        <3> QED BY Zenon, <2>1, LeastNumber
    <2>3. t \in 1 .. n /\ ~Good(t)
        BY Zenon
    <2> HIDE DEF Good
    <2>4. t # 1
        BY Zenon, <1>3, <2>3
    <2>5. t - 1 \in 1 .. n /\ ~(t - 1 >= t)
        BY <2>3, <2>4
    <2>6. Good(t - 1)
        BY Zenon, <2>2, <2>5
    <2> QED BY Zenon, <1>4, <2>3, <2>4, <2>6
<1>6. Good(n)
    <2>1. n \in 1 .. n
        OBVIOUS
    <2> HIDE DEF Good
    <2> QED BY Zenon, <1>5, <2>1
<1> QED BY Zenon, <1>1, <1>6

\* The changes of one interrupted operation.
LEMMA Block ==
    ASSUME NEW a \in Apps, NEW h \in Hashes, NEW kind \in {"new", "del"},
           NEW b, b = IF kind = "new" THEN PerformAppUpgrade(a, h) ELSE PerformAppDelete(a, h)
    PROVE  /\ b \in Seq(Steps) /\ Len(b) # 0 /\ Chain(b)
           /\ b[1].do = "delete_config" /\ b[Len(b)].do \in {"writeable_files", "remove_files"}
           /\ \A x \in Members(b) :
                /\ x.do \in {"delete_config", "import_config", "link_app", "writeable_files",
                             "remove_app", "remove_files"}
                /\ x.app = a /\ x.hash = h
                /\ x.do = "link_app" => kind = "new"
                /\ x.do = "remove_app" => kind = "del"
           /\ \E x \in Members(b) :
                x.do = (IF kind = "new" THEN "link_app" ELSE "remove_app") /\ x.app = a
<1>1. \A name \in {"delete_config", "import_config", "link_app", "writeable_files",
                   "remove_app", "remove_files"} :
         /\ Step(name, a, h) \in Steps /\ Step(name, a, h).do = name
         /\ Step(name, a, h).app = a /\ Step(name, a, h).hash = h
    BY Zenon DEF Step, Steps
<1>2. CASE kind = "new"
    <2>1. b = <<Step("delete_config", a, h), Step("import_config", a, h),
                Step("link_app", a, h), Step("writeable_files", a, h)>>
        BY Zenon, <1>2 DEF PerformAppUpgrade
    <2>2. /\ b \in Seq(Steps) /\ Len(b) = 4 /\ b[1] = Step("delete_config", a, h)
          /\ b[2] = Step("import_config", a, h) /\ b[3] = Step("link_app", a, h)
          /\ b[4] = Step("writeable_files", a, h)
        <3>1. /\ Step("delete_config", a, h) \in Steps /\ Step("import_config", a, h) \in Steps
              /\ Step("link_app", a, h) \in Steps /\ Step("writeable_files", a, h) \in Steps
            BY Zenon, <1>1
        <3> DEFINE c == <<Step("delete_config", a, h), Step("import_config", a, h),
                          Step("link_app", a, h), Step("writeable_files", a, h)>>
        <3>2. /\ c \in Seq(Steps) /\ Len(c) = 4 /\ c[1] = Step("delete_config", a, h)
              /\ c[2] = Step("import_config", a, h) /\ c[3] = Step("link_app", a, h)
              /\ c[4] = Step("writeable_files", a, h)
            BY <3>1
        <3>3. b = c
            BY Zenon, <2>1
        <3> HIDE DEF c
        <3> QED BY Zenon, <3>2, <3>3
    <2>3. /\ b[1].do = "delete_config" /\ b[2].do = "import_config"
          /\ b[3].do = "link_app" /\ b[4].do = "writeable_files"
          /\ \A i \in 1 .. 4 : b[i].app = a /\ b[i].hash = h
        BY SMTT(30), <1>1, <2>2
    <2>4. Chain(b)
        BY SMTT(30), <2>2, <2>3 DEF Chain, Follows
    <2>5. \A i \in 1 .. 4 : b[i].do \in {"delete_config", "import_config", "link_app",
                                        "writeable_files"}
        BY <2>3
    <2>6. b[3] \in Members(b)
        BY <2>2 DEF Members
    <2>7. \A x \in Members(b) : \E i \in 1 .. 4 : x = b[i]
        BY Zenon, <2>2 DEF Members
    <2>8. /\ \A x \in Members(b) :
                /\ x.do \in {"delete_config", "import_config", "link_app", "writeable_files",
                             "remove_app", "remove_files"}
                /\ x.app = a /\ x.hash = h
                /\ x.do = "link_app" => kind = "new"
                /\ x.do = "remove_app" => kind = "del"
        BY <1>2, <2>3, <2>5, <2>7
    <2>9. \E x \in Members(b) :
              x.do = (IF kind = "new" THEN "link_app" ELSE "remove_app") /\ x.app = a
        BY <1>2, <2>3, <2>6
    <2> QED BY <2>2, <2>3, <2>4, <2>8, <2>9
<1>3. CASE kind = "del"
    <2>1. b = <<Step("delete_config", a, h), Step("remove_app", a, h),
                Step("remove_files", a, h)>>
        BY Zenon, <1>3 DEF PerformAppDelete
    <2>2. /\ b \in Seq(Steps) /\ Len(b) = 3 /\ b[1] = Step("delete_config", a, h)
          /\ b[2] = Step("remove_app", a, h) /\ b[3] = Step("remove_files", a, h)
        <3>1. /\ Step("delete_config", a, h) \in Steps /\ Step("remove_app", a, h) \in Steps
              /\ Step("remove_files", a, h) \in Steps
            BY Zenon, <1>1
        <3> DEFINE c == <<Step("delete_config", a, h), Step("remove_app", a, h),
                          Step("remove_files", a, h)>>
        <3>2. /\ c \in Seq(Steps) /\ Len(c) = 3 /\ c[1] = Step("delete_config", a, h)
              /\ c[2] = Step("remove_app", a, h) /\ c[3] = Step("remove_files", a, h)
            BY <3>1
        <3>3. b = c
            BY Zenon, <2>1
        <3> HIDE DEF c
        <3> QED BY Zenon, <3>2, <3>3
    <2>3. /\ b[1].do = "delete_config" /\ b[2].do = "remove_app" /\ b[3].do = "remove_files"
          /\ \A i \in 1 .. 3 : b[i].app = a /\ b[i].hash = h
        BY SMTT(30), <1>1, <2>2
    <2>4. Chain(b)
        BY <2>2, <2>3 DEF Chain, Follows
    <2>5. \A i \in 1 .. 3 : b[i].do \in {"delete_config", "remove_app", "remove_files"}
        BY <2>3
    <2>6. b[2] \in Members(b)
        BY <2>2 DEF Members
    <2>7. \A x \in Members(b) : \E i \in 1 .. 3 : x = b[i]
        BY Zenon, <2>2 DEF Members
    <2>8. /\ \A x \in Members(b) :
                /\ x.do \in {"delete_config", "import_config", "link_app", "writeable_files",
                             "remove_app", "remove_files"}
                /\ x.app = a /\ x.hash = h
                /\ x.do = "link_app" => kind = "new"
                /\ x.do = "remove_app" => kind = "del"
        BY <1>3, <2>3, <2>5, <2>7
    <2>9. \E x \in Members(b) :
              x.do = (IF kind = "new" THEN "link_app" ELSE "remove_app") /\ x.app = a
        BY <1>3, <2>3, <2>6
    <2> QED BY <2>2, <2>3, <2>4, <2>8, <2>9
<1> QED BY Zenon, <1>2, <1>3

\* There are finitely many interrupted changes.
LEMMA PendingFinite ==
    ASSUME NEW s \in System
    PROVE  /\ IsFiniteSet(Pending(s))
           /\ \A x \in Pending(s) :
                /\ x.do \in {"new", "del"} /\ x.app \in Apps /\ x.hash \in Hashes
                /\ x.do = "new" => s.new[x.app] = x.hash
                /\ x.do = "del" => s.del[x.app] = x.hash
           /\ \A a \in Apps :
                /\ s.new[a] # None => \E x \in Pending(s) : x.do = "new" /\ x.app = a
                /\ s.del[a] # None => \E x \in Pending(s) : x.do = "del" /\ x.app = a
<1> DEFINE P == Pending(s)
           Q == Apps \X {"new", "del"}
           f == [x \in P |-> <<x.app, x.do>>]
<1>1. s.new \in [Apps -> Hashes \union {None}] /\ s.del \in [Apps -> Hashes \union {None}]
    BY Zenon DEF System
<1>2. \A x \in P : \E a \in Apps :
         \/ x = [do |-> "new", app |-> a, hash |-> s.new[a]] /\ s.new[a] # None
         \/ x = [do |-> "del", app |-> a, hash |-> s.del[a]] /\ s.del[a] # None
    BY Zenon DEF Pending, Step
<1>3. \A x \in P :
         /\ x.do \in {"new", "del"} /\ x.app \in Apps /\ x.hash \in Hashes
         /\ x.do = "new" => s.new[x.app] = x.hash
         /\ x.do = "del" => s.del[x.app] = x.hash
         /\ x = [do |-> x.do, app |-> x.app, hash |-> x.hash]
    BY <1>1, <1>2
<1>4. ASSUME NEW a \in Apps
      PROVE  /\ s.new[a] # None => \E x \in P : x.do = "new" /\ x.app = a
             /\ s.del[a] # None => \E x \in P : x.do = "del" /\ x.app = a
    <2>1. /\ s.new[a] # None => Step("new", a, s.new[a]) \in P
          /\ s.del[a] # None => Step("del", a, s.del[a]) \in P
        BY Zenon DEF Pending
    <2>2. /\ Step("new", a, s.new[a]).do = "new" /\ Step("new", a, s.new[a]).app = a
          /\ Step("del", a, s.del[a]).do = "del" /\ Step("del", a, s.del[a]).app = a
        BY Zenon DEF Step
    <2> QED BY Zenon, <2>1, <2>2
<1> HIDE DEF P
<1>5. \A x, y \in P : x.app = y.app /\ x.do = y.do => x = y
    <2> SUFFICES ASSUME NEW x \in P, NEW y \in P, x.app = y.app, x.do = y.do PROVE x = y
        BY Zenon
    <2>1. x.hash = y.hash
        BY Zenon, <1>3
    <2> QED BY Zenon, <1>3, <2>1
<1>6. f \in Injection(P, Q)
    <2>1. f \in [P -> Q]
        BY Zenon, <1>3
    <2>2. \A x, y \in P : f[x] = f[y] => x = y
        BY Zenon, <1>5
    <2> HIDE DEF f, Q
    <2> QED BY Zenon, <2>1, <2>2 DEF Injection, IsInjective
<1>7. IsFiniteSet(Q)
    <2>1. IsFiniteSet({"new"}) /\ IsFiniteSet({"del"})
        BY Zenon, FS_Singleton
    <2>2. IsFiniteSet({"new"} \union {"del"})
        BY Zenon, <2>1, FS_Union
    <2>3. {"new"} \union {"del"} = {"new", "del"}
        BY Zenon
    <2> QED BY Zenon, <2>2, <2>3, AppsAssumption, FS_Product
<1>8. IsFiniteSet(P)
    <2> HIDE DEF f, Q
    <2> QED BY Zenon, <1>6, <1>7, FS_Injection
<1> QED BY Zenon, <1>3, <1>4, <1>8 DEF P

\* app_FinishUpdates() finds every one of them.
LEMMA FoundIsAll ==
    ASSUME NEW s \in System, NEW found \in Readings(Pending(s))
    PROVE  /\ found \in Seq(Pending(s)) /\ Len(found) \in Nat
           /\ found \in [1 .. Len(found) -> Pending(s)]
           /\ \A x \in Pending(s) : \E i \in 1 .. Len(found) : found[i] = x
<1> DEFINE P == Pending(s)
           n == Cardinality(P)
<1>1. IsFiniteSet(P) /\ n \in Nat
    BY Zenon, PendingFinite, FS_CardinalityType
<1>2. found \in [1 .. n -> P] /\ \A x \in P : \E i \in 1 .. n : found[i] = x
    BY Zenon DEF Readings, Bijection, Injection, Surjection
<1> HIDE DEF P
<1>3. found \in Seq(P) /\ Len(found) = n
    BY <1>1, <1>2
<1> QED BY Zenon, <1>1, <1>2, <1>3 DEF P

\* The changes of app_FinishUpdates(): those of every interrupted change, between
\* the mark "bad" and the mark "tried".
LEMMA FinishProgram ==
    ASSUME NEW s \in System, NEW found \in Readings(Pending(s)),
           NEW p, p = app_FinishUpdates(found)
    PROVE  /\ p \in Seq(Steps) /\ WellFormed(p) /\ Finishing(s, p)
           /\ p # <<>> => Head(p).do \in {"snapshot", "mark_bad"}
<1> DEFINE n == Len(found)
           B == [i \in DOMAIN found |->
                    IF found[i].do = "new" THEN PerformAppUpgrade(found[i].app, found[i].hash)
                    ELSE PerformAppDelete(found[i].app, found[i].hash)]
           F == AllOf(B)
           A == (IF found[1].do = "del" THEN <<Do("snapshot")>> ELSE <<>>) \o <<Do("mark_bad")>>
           E == <<Do("mark_tried")>>
<1>1. CASE p = <<>>
    <2>1. Len(<<>>) = 0 /\ <<>> \in Seq(Steps)
        OBVIOUS
    <2> QED BY <1>1, <2>1 DEF WellFormed, Finishing
<1>2. CASE found # <<>> /\ p = A \o F \o E
    <2>1. /\ n \in Nat \ {0} /\ found \in [1 .. n -> Pending(s)] /\ DOMAIN found = 1 .. n
          /\ \A x \in Pending(s) : \E i \in 1 .. n : found[i] = x
        <3>1. /\ found \in Seq(Pending(s)) /\ n \in Nat
              /\ found \in [1 .. n -> Pending(s)]
              /\ \A x \in Pending(s) : \E i \in 1 .. n : found[i] = x
            BY Zenon, FoundIsAll
        <3>2. n # 0
            BY <1>2, <3>1
        <3> QED BY Zenon, <3>1, <3>2
    <2>2. \A i \in 1 .. n :
             /\ found[i].do \in {"new", "del"} /\ found[i].app \in Apps
             /\ found[i].hash \in Hashes
             /\ found[i].do = "new" => s.new[found[i].app] = found[i].hash
             /\ found[i].do = "del" => s.del[found[i].app] = found[i].hash
        BY <2>1, PendingFinite
    <2>3. Len(B) = n /\ \A i \in 1 .. n :
             B[i] = IF found[i].do = "new"
                    THEN PerformAppUpgrade(found[i].app, found[i].hash)
                    ELSE PerformAppDelete(found[i].app, found[i].hash)
        BY <2>1
    <2> HIDE DEF B, n
    <2>4. ASSUME NEW i \in 1 .. n
          PROVE  /\ B[i] \in Seq(Steps) /\ Len(B[i]) # 0 /\ Chain(B[i])
                 /\ B[i][1].do = "delete_config"
                 /\ B[i][Len(B[i])].do \in {"writeable_files", "remove_files"}
                 /\ \A x \in Members(B[i]) :
                      /\ x.do \in {"delete_config", "import_config", "link_app",
                                   "writeable_files", "remove_app", "remove_files"}
                      /\ x.app = found[i].app /\ x.hash = found[i].hash
                      /\ x.do = "link_app" => found[i].do = "new"
                      /\ x.do = "remove_app" => found[i].do = "del"
                 /\ \E x \in Members(B[i]) :
                      /\ x.do = (IF found[i].do = "new" THEN "link_app" ELSE "remove_app")
                      /\ x.app = found[i].app
        <3> DEFINE a == found[i].app
                   h == found[i].hash
                   kind == found[i].do
                   b == B[i]
        <3>1. /\ a \in Apps /\ h \in Hashes /\ kind \in {"new", "del"}
              /\ b = IF kind = "new" THEN PerformAppUpgrade(a, h) ELSE PerformAppDelete(a, h)
            BY Zenon, <2>2, <2>3
        <3> HIDE DEF a, h, kind, b
        <3>2. /\ b \in Seq(Steps) /\ Len(b) # 0 /\ Chain(b)
              /\ b[1].do = "delete_config"
              /\ b[Len(b)].do \in {"writeable_files", "remove_files"}
              /\ \A x \in Members(b) :
                   /\ x.do \in {"delete_config", "import_config", "link_app",
                                "writeable_files", "remove_app", "remove_files"}
                   /\ x.app = a /\ x.hash = h
                   /\ x.do = "link_app" => kind = "new"
                   /\ x.do = "remove_app" => kind = "del"
              /\ \E x \in Members(b) :
                   x.do = (IF kind = "new" THEN "link_app" ELSE "remove_app") /\ x.app = a
            BY <3>1, Block
        <3> QED BY Zenon, <3>2 DEF a, h, kind, b
    <2>5. \A i, j \in 1 .. n : Follows(B[i][Len(B[i])], B[j][1])
        BY <2>4 DEF Follows
    <2>6. /\ F \in Seq(Steps) /\ Len(F) # 0 /\ Chain(F)
          /\ F[1] = B[1][1] /\ F[Len(F)] = B[n][Len(B[n])]
          /\ Members(F) = UNION {Members(B[i]) : i \in 1 .. n}
        <3>1. \A i \in 1 .. n : B[i] \in Seq(Steps) /\ Len(B[i]) # 0 /\ Chain(B[i])
            BY Zenon, <2>4
        <3>2. n \in Nat \ {0} /\ Len(B) = n
            BY Zenon, <2>1, <2>3
        <3>3. F = AllOf(B)
            BY Zenon
        <3> HIDE DEF F
        <3> QED BY Zenon, <2>5, <3>1, <3>2, <3>3, FlattenChain
    <2>7. /\ F[1].do = "delete_config" /\ F[Len(F)].do \in {"writeable_files", "remove_files"}
        BY <2>1, <2>4, <2>6
    <2> HIDE DEF F
    <2>8. /\ Do("snapshot") \in Steps /\ Do("mark_bad") \in Steps /\ Do("mark_tried") \in Steps
          /\ Do("snapshot").do = "snapshot" /\ Do("mark_bad").do = "mark_bad"
          /\ Do("mark_tried").do = "mark_tried"
        BY Zenon DEF Do, Step, Steps
    <2>9. /\ A \in Seq(Steps) /\ Len(A) # 0 /\ Chain(A) /\ A[Len(A)].do = "mark_bad"
          /\ A[1].do \in {"snapshot", "mark_bad"}
          /\ \A x \in Members(A) : x.do \in {"snapshot", "mark_bad"}
        <3>1. CASE found[1].do = "del"
            <4>1. A = <<Do("snapshot")>> \o <<Do("mark_bad")>>
                BY Zenon, <3>1
            <4> HIDE DEF A
            <4>2. A \in Seq(Steps) /\ Len(A) = 2 /\ A[1] = Do("snapshot") /\ A[2] = Do("mark_bad")
                BY <2>8, <4>1
            <4> QED BY <2>8, <4>2 DEF Chain, Members, Follows
        <3>2. CASE found[1].do # "del"
            <4>1. A = <<>> \o <<Do("mark_bad")>>
                BY Zenon, <3>2
            <4> HIDE DEF A
            <4>2. A \in Seq(Steps) /\ Len(A) = 1 /\ A[1] = Do("mark_bad")
                BY <2>8, <4>1
            <4> QED BY <2>8, <4>2 DEF Chain, Members
        <3> QED BY Zenon, <3>1, <3>2
    <2>10. /\ E \in Seq(Steps) /\ Len(E) = 1 /\ E[1].do = "mark_tried" /\ Chain(E)
           /\ \A x \in Members(E) : x.do = "mark_tried"
        <3>1. E \in Seq(Steps) /\ Len(E) = 1 /\ E[1] = Do("mark_tried")
            BY <2>8
        <3> HIDE DEF E
        <3> QED BY <2>8, <3>1 DEF Chain, Members
    <2> HIDE DEF A, E
    <2> DEFINE G == A \o F
    <2>11. /\ G \in Seq(Steps) /\ Len(G) # 0 /\ Chain(G) /\ G[1] = A[1]
           /\ G[Len(G)] = F[Len(F)] /\ Members(G) = Members(A) \union Members(F)
        <3>1. Follows(A[Len(A)], F[1])
            BY Zenon, <2>7, <2>9 DEF Follows
        <3>2. /\ A \in Seq(Steps) /\ Len(A) # 0 /\ Chain(A)
              /\ F \in Seq(Steps) /\ Len(F) # 0 /\ Chain(F)
            BY Zenon, <2>6, <2>9
        <3>3. G = A \o F
            BY Zenon
        <3> HIDE DEF G
        <3> QED BY Zenon, <3>1, <3>2, <3>3, Join
    <2> HIDE DEF G
    <2>12. /\ p \in Seq(Steps) /\ Len(p) # 0 /\ Chain(p) /\ p[1] = A[1]
           /\ p[Len(p)] = E[1] /\ Members(p) = Members(A) \union Members(F) \union Members(E)
        <3>1. Follows(G[Len(G)], E[1])
            BY Zenon, <2>7, <2>10, <2>11 DEF Follows
        <3> DEFINE q == G \o E
        <3>2. q = G \o E
            BY Zenon
        <3>3. p = q
            BY Zenon, <1>2 DEF G
        <3> HIDE DEF q
        <3>4. /\ G \in Seq(Steps) /\ Len(G) # 0 /\ Chain(G)
              /\ E \in Seq(Steps) /\ Len(E) # 0 /\ Chain(E)
            BY <2>10, <2>11
        <3>5. /\ q \in Seq(Steps) /\ Len(q) # 0 /\ Chain(q) /\ q[1] = G[1]
              /\ q[Len(q)] = E[Len(E)] /\ Members(q) = Members(G) \union Members(E)
            BY Zenon, <3>1, <3>2, <3>4, Join
        <3> QED BY Zenon, <2>10, <2>11, <3>5, <3>3
    <2>13. p # <<>> /\ Head(p) = p[1] /\ Len(p) \in Nat
        BY <2>12, HeadIsFirst
    <2>14. WellFormed(p)
        BY Zenon, <2>10, <2>12 DEF WellFormed, Chain, Ends
    <2>15. \A x \in Members(p) :
              /\ x.do \in {"snapshot", "mark_bad", "delete_config", "import_config", "link_app",
                           "writeable_files", "remove_app", "remove_files", "mark_tried"}
              /\ x.do = "link_app" => s.new[x.app] = x.hash
              /\ x.do = "remove_app" => s.del[x.app] # None
        <3> SUFFICES ASSUME NEW x \in Members(F)
                     PROVE  /\ x.do \in {"delete_config", "import_config", "link_app",
                                         "writeable_files", "remove_app", "remove_files"}
                            /\ x.do = "link_app" => s.new[x.app] = x.hash
                            /\ x.do = "remove_app" => s.del[x.app] # None
            BY Zenon, <2>9, <2>10, <2>12
        <3>1. PICK i \in 1 .. n : x \in Members(B[i])
            BY Zenon, <2>6
        <3>2. /\ x.do \in {"delete_config", "import_config", "link_app",
                          "writeable_files", "remove_app", "remove_files"}
              /\ x.app = found[i].app /\ x.hash = found[i].hash
              /\ x.do = "link_app" => found[i].do = "new"
              /\ x.do = "remove_app" => found[i].do = "del"
            BY Zenon, <2>4, <3>1
        <3>3. x.do = "link_app" => s.new[x.app] = x.hash
            BY Zenon, <2>2, <3>2
        <3>4. x.do = "remove_app" => s.del[x.app] # None
            <4>1. x.do = "remove_app" => s.del[x.app] \in Hashes
                BY Zenon, <2>2, <3>2
            <4> QED BY Zenon, <4>1, HashesAssumption
        <3> QED BY Zenon, <3>2, <3>3, <3>4
    <2>16. ASSUME NEW a \in Apps
           PROVE  /\ s.new[a] # None => \E x \in Members(p) : x.do = "link_app" /\ x.app = a
                  /\ s.del[a] # None => \E x \in Members(p) : x.do = "remove_app" /\ x.app = a
        <3>1. /\ s.new[a] # None => \E i \in 1 .. n : found[i].do = "new" /\ found[i].app = a
              /\ s.del[a] # None => \E i \in 1 .. n : found[i].do = "del" /\ found[i].app = a
            BY <2>1, PendingFinite
        <3>2. \A i \in 1 .. n : Members(B[i]) \subseteq Members(p)
            BY Zenon, <2>6, <2>12
        <3> QED BY <2>4, <3>1, <3>2
    <2>17. Finishing(s, p)
        <3>1. \A i \in 1 .. Len(p) : p[i] \in Members(p)
            BY Zenon DEF Members
        <3>2. \A x \in Members(p) : \E i \in 1 .. Len(p) : p[i] = x
            BY Zenon DEF Members
        <3>3. p[Len(p)].do = "mark_tried"
            BY Zenon, <2>10, <2>12
        <3> QED BY <2>15, <2>16, <3>1, <3>2, <3>3 DEF Finishing
    <2> QED BY Zenon, <2>9, <2>12, <2>13, <2>14, <2>17
<1> QED BY Zenon, <1>1, <1>2 DEF app_FinishUpdates

\* The start of the daemon, in the system that the start program chose, preserves
\* the invariant: a system that is not half changed is started.
LEMMA BootInv == ASSUME AppInv, Boot PROVE AppInv'
<1>1. /\ phase = "off" /\ phase' = "starting" /\ UNCHANGED <<files, unpacked, ready, probation>>
      /\ \E found \in Readings(Pending(sys')) : todo' = app_FinishUpdates(found)
    BY Zenon DEF Boot
<1>2. AppType /\ FilesKept /\ HalfChangedIsBad /\ ready = None
    BY Zenon, <1>1 DEF AppInv
<1>3. /\ sys' \in System /\ snapshot' \in System \union {None} /\ AllMatch(sys')
      /\ snapshot' # None => AllMatch(snapshot')
      /\ \A h \in Hashes : \/ h \in Links(sys')
                           \/ snapshot' # None /\ h \in Links(snapshot')
                           => system_AppUsedInAnySystem(h)
    <2>1. CASE /\ ~TriedTooOften
               /\ sys' = (IF sys.status = "tried" THEN [sys EXCEPT !.tries = @ + 1] ELSE sys)
               /\ UNCHANGED snapshot
        <3>1. /\ sys' \in System /\ sys'.apps = sys.apps /\ sys'.new = sys.new
              /\ sys'.del = sys.del /\ sys'.cfg = sys.cfg
            <4>1. CASE sys.status = "tried"
                <5>1. sys' = [sys EXCEPT !.tries = sys.tries + 1]
                    BY Zenon, <2>1, <4>1
                <5>2. sys.tries \in 0 .. MAX_TRIES /\ ~(sys.tries >= MAX_TRIES)
                    BY Zenon, <1>2, <2>1, <4>1 DEF TriedTooOften, AppType, System
                <5>3. sys.tries + 1 \in 0 .. MAX_TRIES
                    BY <5>2, TriesAssumption
                <5>4. sys \in System
                    BY Zenon, <1>2 DEF AppType
                <5> QED BY Zenon, <5>1, <5>3, <5>4 DEF System
            <4>2. CASE sys.status # "tried"
                BY Zenon, <1>2, <2>1, <4>2 DEF AppType
            <4> QED BY Zenon, <4>1, <4>2
        <3>2. sys.status # "bad"
            BY Zenon, <2>1 DEF TriedTooOften
        <3>3. AllMatch(sys')
            BY Zenon, <1>2, <3>1, <3>2 DEF HalfChangedIsBad, AllMatch, Matches
        <3>4. Links(sys') = Links(sys)
            BY Zenon, <3>1, SameLinks
        <3>5. snapshot' \in System \union {None} /\ (snapshot' # None => AllMatch(snapshot'))
            BY Zenon, <2>1 DEF AppInv, AppType
        <3> QED BY Zenon, <2>1, <3>1, <3>3, <3>4, <3>5 DEF system_AppUsedInAnySystem
    <2>2. CASE sys' = Golden /\ snapshot' = None
        <3>1. Golden \in System /\ AllMatch(Golden)
            BY TriesAssumption DEF Golden, NoApps, System, AllMatch, Matches
        <3>2. \A h \in Links(Golden) : h = None
            BY Zenon DEF Golden, NoApps, Links
        <3> QED BY Zenon, <2>2, <3>1, <3>2, HashesAssumption
    <2>3. CASE snapshot # None /\ sys' = snapshot /\ snapshot' = None
        BY Zenon, <2>3 DEF AppInv, AppType, system_AppUsedInAnySystem
    <2> QED BY Zenon, <2>1, <2>2, <2>3 DEF Boot
<1>4. PICK found \in Readings(Pending(sys')) : todo' = app_FinishUpdates(found)
    BY Zenon, <1>1
<1>5. /\ todo' \in Seq(Steps) /\ WellFormed(todo') /\ Finishing(sys', todo')
      /\ todo' # <<>> => Head(todo').do \in {"snapshot", "mark_bad"}
    BY Zenon, <1>3, <1>4, FinishProgram
<1>6. AppType'
    BY Zenon, <1>1, <1>2, <1>3, <1>5 DEF AppType
<1>7. FilesKept'
    BY Zenon, <1>1, <1>2, <1>3 DEF FilesKept, system_AppUsedInAnySystem, Links
<1>8. HalfChangedIsBad'
    BY Zenon, <1>3 DEF HalfChangedIsBad, AllMatch, Matches
<1>9. PartIsUnused(files', ready', todo')
    <2>1. \A i \in 1 .. Len(todo') : todo'[i].do \notin {"rename", "unpack", "unpack_removal"}
        BY Zenon, <1>5 DEF Finishing
    <2> QED BY Zenon, <1>1, <1>2, <2>1 DEF PartIsUnused
<1>10. todo' # <<>> => Before(sys', unpacked', Head(todo'))
    BY Zenon, <1>3, <1>5 DEF Before, AllMatch
<1> QED BY Zenon, <1>1, <1>2, <1>3, <1>5, <1>6, <1>7, <1>8, <1>9, <1>10 DEF AppInv

-----------------------------------------------------------------------------
(* The theorems.                                                            *)

\* The invariant holds at first.
LEMMA AppInitInv == AppInit => AppInv
<1> SUFFICES ASSUME AppInit PROVE AppInv
    BY Zenon
<1>1. Golden \in System /\ AllMatch(Golden)
    BY TriesAssumption DEF Golden, NoApps, System, AllMatch, Matches
<1>2. /\ <<>> \in Seq(Steps) /\ WellFormed(<<>>) /\ PartIsUnused(files, None, <<>>)
      /\ Operating(sys, files, unpacked, <<>>)
    BY Zenon, EmptyProgram
<1>3. \A h \in Links(Golden) : h = None
    BY Zenon DEF Golden, NoApps, Links
<1>4. AppType
    BY Zenon, <1>1, <1>2 DEF AppInit, AppType
<1>5. FilesKept
    BY Zenon, <1>3, HashesAssumption DEF AppInit, FilesKept, system_AppUsedInAnySystem
<1>6. HalfChangedIsBad
    BY Zenon, <1>1 DEF AppInit, HalfChangedIsBad, AllMatch, Matches
<1> QED BY Zenon, <1>1, <1>2, <1>4, <1>5, <1>6 DEF AppInit, AppInv

\* Every step preserves it.
LEMMA AppNextInv == ASSUME AppInv, [AppNext]_appVars PROVE AppInv'
<1>1. ASSUME NEW h \in Hashes, ReceivePack("unpack", h[1], h) PROVE AppInv'
    <2>1. h[1] \in Apps
        BY Zenon, HashesAssumption
    <2> QED BY Zenon, <1>1, <2>1, ReceivePackInv
<1>2. ASSUME NEW a \in Apps, ReceivePack("unpack_removal", a, None) PROVE AppInv'
    BY Zenon, <1>2, ReceivePackInv
<1>3. ASSUME NEW a \in Apps, RemoveNow(a) PROVE AppInv'
    BY Zenon, <1>3, RemoveNowInv
<1>4. CASE ApplyUpdate
    BY Zenon, <1>4, ApplyUpdateInv
<1>5. CASE EndUpdate
    BY Zenon, <1>5, EndUpdateInv
<1>6. CASE updateDaemon_MarkGood
    BY Zenon, <1>6, MarkGoodInv
<1>7. CASE le_updateCtrl_FailProbation \/ Crash
    BY Zenon, <1>7, StopInv
<1>8. CASE Boot
    BY Zenon, <1>8, BootInv
<1>9. CASE Started
    BY Zenon, <1>9, StartedInv
<1>10. CASE Change
    BY ZenonT(40), <1>10, SnapshotInv, StatusChangesInv, RenameInv, SymlinkInv, RemoveLinkInv, ConfigInv,
       WriteableFilesInv, FailedToFinishInv, CleanUpInv, UnpackedInv DEF Change
<1>11. CASE UNCHANGED appVars
    BY <1>11 DEF appVars, AppInv, AppType, FilesKept, HalfChangedIsBad,
       system_AppUsedInAnySystem, Links, AllMatch, Matches, PartIsUnused
<1> QED
    BY Zenon, <1>1, <1>2, <1>3, <1>4, <1>5, <1>6, <1>7, <1>8, <1>9, <1>10, <1>11 DEF AppNext

\* The inductive invariant holds in every reachable state.
THEOREM AppInvariant == AppSpec => []AppInv
BY AppInitInv, AppNextInv, PTL DEF AppSpec

\* Every variable keeps its type, whatever is installed, removed or interrupted.
THEOREM AppTypeCorrect == AppSpec => []AppType
<1>1. AppInv => AppType
    BY Zenon DEF AppInv
<1> QED BY <1>1, AppInvariant, PTL

\* No clean-up, interrupted deletion or skipped payload leaves the current system
\* or the saved one with an app whose files are not complete.
THEOREM FilesAreKept == AppSpec => []FilesKept
<1>1. AppInv => FilesKept
    BY Zenon DEF AppInv
<1> QED BY <1>1, AppInvariant, PTL

\* Wherever the power fails, a system in which an app's configuration and its files
\* are not of the same version is marked bad, so the start program does not run it.
THEOREM HalfChangedIsMarked == AppSpec => []HalfChangedIsBad
<1>1. AppInv => HalfChangedIsBad
    BY Zenon DEF AppInv
<1> QED BY <1>1, AppInvariant, PTL

\* What gets an app's hash for its name was unpacked for that hash.
THEOREM RenamedWasUnpacked == AppSpec => []RenamedIsUnpacked
BY AppInvImplies, AppInvariant, PTL

\* When app_FinishUpdates() is done, every interrupted upgrade has taken place and
\* every app whose removal was interrupted is gone.
THEOREM InterruptedGetsFinished == AppSpec => []InterruptedIsFinished
BY AppInvImplies, AppInvariant, PTL
=============================================================================
