-------------------------- MODULE FrameworkProofs --------------------------
(***************************************************************************)
(* Proofs about three parts that share no state: the parser of update      *)
(* packs (UpdateUnpack), the config tree (ConfigTree) and the start        *)
(* program (Start), for every value of their constants.                    *)
(***************************************************************************)
EXTENDS UpdateUnpack, Start, ConfigTree, FiniteSetTheorems, WellFoundedInduction, TLAPS

-----------------------------------------------------------------------------
(* The parser of update packs: it implements Unpacker, it closes its input *)
(* once, and (when "tar" reads all of its input) it never watches the      *)
(* input twice, for any payloads, sections and width of size_t.            *)

\* What the parser holds in each state: the input until Reset(), a parser object
\* that Reset() can release, and nothing else when it is idle.
ParserHolds ==
    /\ InputFd = IF State = "IDLE" THEN "none" ELSE "set"
    /\ openFds = IF State = "IDLE" THEN 0 ELSE 1
    /\ State # "IDLE" => InputFdClosed = "no"
    /\ ParsingSession = "live" => parsers >= 1
    /\ State = "IDLE" => /\ InputFdMonitor = "NULL"
                         /\ Pipeline = "NULL"
                         /\ PipelineFd = "none"
    /\ Pipeline = "running" => State # "IDLE"
    /\ State \in {"UNPACKING_PAYLOAD", "SKIPPING_PAYLOAD"} => PayloadSize >= 1

\* The payload is watched as long as bytes are missing; between two payloads
\* neither its monitor nor "tar" is left.
Watches ==
    /\ State = "PARSING_JSON" =>
           InputFdMonitor = "NULL" /\ Pipeline = "NULL" /\ PipelineFd = "none"
    /\ State = "SKIPPING_PAYLOAD" => Pipeline = "NULL" /\ PipelineFd = "none"
    /\ State \in {"UNPACKING_PAYLOAD", "SKIPPING_PAYLOAD"} =>
           PayloadBytesCopied <= PayloadSize
    /\ PayloadWatched

UnpackInv == UnpackTypeOK /\ ParserHolds

\* A percentage is a natural number.
LEMMA PercentType ==
    ASSUME UnpackTypeOK, PayloadSize >= 1, NEW copied \in Nat
    PROVE  Percent(copied) \in Nat
<1>1. (100 * copied) % SizeSpan \in Nat
    BY SizeSpanAssumption
<1>2. ASSUME NEW a \in Nat PROVE a \div PayloadSize \in Nat
    BY <1>2 DEF UnpackTypeOK
<1> QED BY Zenon, <1>1, <1>2 DEF Percent

\* Every step preserves the types and what the parser holds.
LEMMA UnpackNextInv == UnpackInv /\ [UnpackNext]_unpackVars => UnpackInv'
<1> SUFFICES ASSUME UnpackInv, [UnpackNext]_unpackVars PROVE UnpackInv'
    BY Zenon
<1> USE DEF UnpackInv, UnpackTypeOK, ParserHolds
<1>1. CASE updateUnpack_Start
    BY <1>1, MaxSectionsAssumption DEF updateUnpack_Start, StartParsing, tar
<1>2. CASE updateUnpack_Stop
    BY <1>2 DEF updateUnpack_Stop, Reset, payload
<1>3. CASE JsonEvent
    <2> USE PayloadsAssumption, MaxSectionsAssumption
        DEF json, input, tar, payload, Finish, Reset, HeaderRead
    <2>1. CASE JsonSyntaxError
        BY <2>1 DEF JsonSyntaxError, HandleFormatError
    <2>2. ASSUME NEW b \in BOOLEAN, JsonReadError(b) PROVE UnpackInv'
        BY <2>2 DEF JsonReadError, HandleInternalError
    <2>3. ASSUME NEW cmd \in Commands, NEW fields \in BOOLEAN,
                 NEW size \in Payloads \union {0}, JsonBadHeader(cmd, fields, size)
          PROVE  UnpackInv'
        BY <2>3 DEF JsonBadHeader, HandleFormatError
    <2>4. ASSUME NEW size \in Payloads, JsonUpdateSystem(size) PROVE UnpackInv'
        BY <2>4 DEF JsonUpdateSystem, StartUntar
    <2>5. ASSUME NEW size \in Payloads, NEW exists \in BOOLEAN, JsonUpdateApp(size, exists)
          PROVE  UnpackInv'
        BY <2>5 DEF JsonUpdateApp, StartUntar, StartSkipForward
    <2>6. ASSUME NEW eof \in BOOLEAN, JsonRemoveApp(eof) PROVE UnpackInv'
        BY <2>6 DEF JsonRemoveApp, AppUnpackDone, HandleFormatError
    <2>7. ASSUME NEW size \in Payloads, NEW connected \in BOOLEAN,
                 NEW result \in {"LE_OK", "LE_FAULT"},
                 JsonUpdateFirmware(size, connected, result)
          PROVE  UnpackInv'
        BY <2>7 DEF JsonUpdateFirmware, StartFirmwareUpdate, HandleInternalError
    <2> QED BY Zenon, <1>3, <2>1, <2>2, <2>3, <2>4, <2>5, <2>6, <2>7 DEF JsonEvent
<1>4. CASE InputFdEvent
    <2> USE DEF json, input, tar, payload, Finish, Reset
    <2>1. ASSUME NEW copied \in 1..PayloadSize, CopyBytesToPipeline(copied)
          PROVE  UnpackInv'
        <3>1. Percent(copied) \in Nat
            BY <2>1, PercentType DEF CopyBytesToPipeline
        <3> QED BY <2>1, <3>1 DEF CopyBytesToPipeline
    <2>2. ASSUME NEW copied \in 1..PayloadSize, NEW eof \in BOOLEAN,
                 DiscardPayloadBytes(copied, eof)
          PROVE  UnpackInv'
        <3>1. Percent(copied) \in Nat
            BY <2>2, PercentType DEF DiscardPayloadBytes
        <3> QED BY <2>2, <3>1 DEF DiscardPayloadBytes, AppUnpackDone, HandleFormatError,
                                  StartParsing
    <2>3. CASE InputError
        BY <2>3 DEF InputError, HandleInternalError
    <2> QED BY Zenon, <1>4, <2>1, <2>2, <2>3 DEF InputFdEvent
<1>5. CASE TarExit
    BY <1>5 DEF TarExit, UntarDone, AppUnpackDone, HandleFormatError, HandleInternalError,
                Finish, Reset, StartParsing, input
<1>6. CASE UNCHANGED unpackVars
    BY <1>6 DEF unpackVars, json, input, tar, payload
<1> QED BY Zenon, <1>1, <1>2, <1>3, <1>4, <1>5, <1>6 DEF UnpackNext

\* The invariant holds in every reachable state.
THEOREM UnpackInvariant == UnpackSpec => []UnpackInv
<1>1. UnpackInit => UnpackInv
    BY MaxSectionsAssumption DEF UnpackInit, UnpackInv, UnpackTypeOK, ParserHolds
<1> QED BY <1>1, UnpackNextInv, PTL DEF UnpackSpec

\* Every variable keeps its type, and the input is closed exactly once, whether by
\* Reset() or by le_fwupdate_Download().
THEOREM InputIsClosedOnce == UnpackSpec => [](UnpackTypeOK /\ InputClosedOnce)
<1>1. UnpackInv => UnpackTypeOK /\ InputClosedOnce
    BY Zenon DEF UnpackInv, ParserHolds, InputClosedOnce
<1> QED BY <1>1, UnpackInvariant, PTL

-----------------------------------------------------------------------------
\* When "tar" reads all of its input, every step keeps the payload watched.
LEMMA WatchesNext ==
    ASSUME TarDrains, UnpackInv, Watches, [UnpackNext]_unpackVars
    PROVE  Watches'
<1> USE DEF UnpackInv, UnpackTypeOK, ParserHolds, Watches, PayloadWatched
<1>1. CASE updateUnpack_Start
    BY Zenon, <1>1 DEF updateUnpack_Start, StartParsing, tar
<1>2. ASSUME State' = "IDLE" PROVE Watches'
    BY Zenon, <1>2
<1>3. CASE updateUnpack_Stop
    BY Zenon, <1>2, <1>3 DEF updateUnpack_Stop, Reset
<1>4. CASE JsonEvent
    <2> USE PayloadsAssumption DEF Finish, Reset, HandleFormatError, HandleInternalError,
            AppUnpackDone, HeaderRead
    <2>1. CASE JsonSyntaxError
        BY Zenon, <1>2, <2>1 DEF JsonSyntaxError
    <2>2. ASSUME NEW b \in BOOLEAN, JsonReadError(b) PROVE Watches'
        BY Zenon, <1>2, <2>2 DEF JsonReadError
    <2>3. ASSUME NEW cmd \in Commands, NEW fields \in BOOLEAN,
                 NEW size \in Payloads \union {0}, JsonBadHeader(cmd, fields, size)
          PROVE  Watches'
        BY Zenon, <1>2, <2>3 DEF JsonBadHeader
    <2>4. ASSUME NEW size \in Payloads, JsonUpdateSystem(size) PROVE Watches'
        BY <2>4 DEF JsonUpdateSystem, StartUntar
    <2>5. ASSUME NEW size \in Payloads, NEW exists \in BOOLEAN, JsonUpdateApp(size, exists)
          PROVE  Watches'
        BY <2>5 DEF JsonUpdateApp, StartUntar, StartSkipForward, tar
    <2>6. ASSUME NEW eof \in BOOLEAN, JsonRemoveApp(eof) PROVE Watches'
        BY Zenon, <1>2, <2>6 DEF JsonRemoveApp
    <2>7. ASSUME NEW size \in Payloads, NEW connected \in BOOLEAN,
                 NEW result \in {"LE_OK", "LE_FAULT"},
                 JsonUpdateFirmware(size, connected, result)
          PROVE  Watches'
        BY Zenon, <1>2, <2>7 DEF JsonUpdateFirmware, StartFirmwareUpdate
    <2> QED BY Zenon, <1>4, <2>1, <2>2, <2>3, <2>4, <2>5, <2>6, <2>7 DEF JsonEvent
<1>5. CASE InputFdEvent
    <2> USE DEF json, input, tar, payload, Finish, Reset
    <2>1. ASSUME NEW copied \in 1..PayloadSize, CopyBytesToPipeline(copied)
          PROVE  Watches'
        BY <2>1 DEF CopyBytesToPipeline
    <2>2. ASSUME NEW copied \in 1..PayloadSize, NEW eof \in BOOLEAN,
                 DiscardPayloadBytes(copied, eof)
          PROVE  Watches'
        BY <2>2 DEF DiscardPayloadBytes, AppUnpackDone, HandleFormatError, StartParsing
    <2>3. CASE InputError
        BY Zenon, <1>2, <2>3 DEF InputError, HandleInternalError
    <2> QED BY Zenon, <1>5, <2>1, <2>2, <2>3 DEF InputFdEvent
<1>6. CASE TarExit
    BY <1>6 DEF TarExit, UntarDone, AppUnpackDone, HandleFormatError, HandleInternalError,
                Finish, Reset, StartParsing, input
<1>7. CASE UNCHANGED unpackVars
    BY Zenon, <1>7 DEF unpackVars, json, input, tar, payload
<1> QED BY Zenon, <1>1, <1>3, <1>4, <1>5, <1>6, <1>7 DEF UnpackNext

\* The JSON parser never registers an input that is still watched for a payload
\* (which is fatal), and a payload is watched until its last byte, provided that
\* "tar" does not succeed before the end of its input.
THEOREM InputIsWatchedOnce ==
    ASSUME TarDrains
    PROVE  UnpackSpec => [](OneMonitor /\ PayloadWatched)
<1>1. UnpackInit => Watches
    BY Zenon DEF UnpackInit, Watches, PayloadWatched
<1>2. UnpackInv /\ Watches /\ [UnpackNext]_unpackVars => Watches'
    BY Zenon, WatchesNext
<1>3. Watches => OneMonitor /\ PayloadWatched
    BY Zenon DEF Watches, OneMonitor
<1> QED BY <1>1, <1>2, <1>3, UnpackInvariant, PTL DEF UnpackSpec

\* The event-driven parser implements Unpacker: one final report for an update
\* pack, none after a stop, and success only when the type is known.
THEOREM UnpackRefines == UnpackSpec => ImplementsUnpacker
<1>1. UnpackInit => U!Init
    BY Zenon DEF UnpackInit, U!Init
<1>2. UnpackInv /\ [UnpackNext]_unpackVars
      => [U!Next]_<<IF State = "IDLE" THEN "idle" ELSE "working", report, Type>>
    <2> SUFFICES ASSUME UnpackInv, [UnpackNext]_unpackVars
                 PROVE  \/ U!Next
                        \/ UNCHANGED <<IF State = "IDLE" THEN "idle" ELSE "working",
                                       report, Type>>
        BY Zenon
    <2> USE DEF UnpackInv, UnpackTypeOK, U!Next, U!Start, U!Stop, U!Work, U!Finish,
                U!Learn, U!UnpackTypes, U!FinalReports
    <2>1. CASE updateUnpack_Start
        BY Zenon, <2>1 DEF updateUnpack_Start, StartParsing
    <2>2. CASE updateUnpack_Stop
        BY Zenon, <2>2 DEF updateUnpack_Stop, Reset
    <2>3. CASE JsonEvent
        <3> USE DEF Finish, Reset, HandleFormatError, HandleInternalError, AppUnpackDone,
                    HeaderRead
        <3>1. CASE JsonSyntaxError
            BY Zenon, <3>1 DEF JsonSyntaxError
        <3>2. ASSUME NEW b \in BOOLEAN, JsonReadError(b) PROVE U!Finish
            BY Zenon, <3>2 DEF JsonReadError
        <3>3. ASSUME NEW cmd \in Commands, NEW fields \in BOOLEAN,
                     NEW size \in Payloads \union {0}, JsonBadHeader(cmd, fields, size)
              PROVE  U!Finish
            BY Zenon, <3>3 DEF JsonBadHeader
        <3>4. ASSUME NEW size \in Payloads, JsonUpdateSystem(size) PROVE U!Work
            BY Zenon, <3>4 DEF JsonUpdateSystem, StartUntar, Malformed
        <3>5. ASSUME NEW size \in Payloads, NEW exists \in BOOLEAN,
                     JsonUpdateApp(size, exists)
              PROVE  U!Work
            BY Zenon, <3>5 DEF JsonUpdateApp, StartUntar, StartSkipForward
        <3>6. ASSUME NEW eof \in BOOLEAN, JsonRemoveApp(eof) PROVE U!Finish
            BY Zenon, <3>6 DEF JsonRemoveApp
        <3>7. ASSUME NEW size \in Payloads, NEW connected \in BOOLEAN,
                     NEW result \in {"LE_OK", "LE_FAULT"},
                     JsonUpdateFirmware(size, connected, result)
              PROVE  U!Finish
            BY Zenon, <3>7 DEF JsonUpdateFirmware, StartFirmwareUpdate, Malformed
        <3> QED BY Zenon, <2>3, <3>1, <3>2, <3>3, <3>4, <3>5, <3>6, <3>7 DEF JsonEvent
    <2>4. CASE InputFdEvent
        BY Zenon, <2>4 DEF InputFdEvent, CopyBytesToPipeline, DiscardPayloadBytes, InputError,
                    Finish, Reset, HandleFormatError, HandleInternalError, AppUnpackDone,
                    StartParsing
    <2>5. CASE TarExit
        BY Zenon, <2>5 DEF ParserHolds, TarExit, UntarDone, Finish, Reset, HandleFormatError,
                    HandleInternalError, AppUnpackDone, StartParsing
    <2>6. CASE UNCHANGED unpackVars
        BY Zenon, <2>6 DEF unpackVars
    <2> QED BY Zenon, <2>1, <2>2, <2>3, <2>4, <2>5, <2>6 DEF UnpackNext
<1> QED
    BY <1>1, <1>2, UnpackInvariant, PTL DEF UnpackSpec, ImplementsUnpacker, U!Spec

-----------------------------------------------------------------------------
\* What a step must be for its report of success to be true.
DoneStep ==
    report' = "DONE" /\ report # "DONE" =>
        \/ Type' = "FIRMWARE_UPDATE"
        \/ State = "PARSING_JSON" /\ Pipeline = "NULL" /\ InputFdMonitor = "NULL"
        \/ State # "PARSING_JSON" /\ PayloadBytesCopied' = PayloadSize

\* Every step that reports success has unpacked what it reports.  The steps of
\* the JSON parser are covered by Watches.  "tar" only runs while a payload is
\* unpacked, and its input is closed at the payload's last byte.
LEMMA DoneStepHolds ==
    ASSUME TarDrains, UnpackInv, Watches, [UnpackNext]_unpackVars
    PROVE  DoneStep
<1> USE DEF DoneStep
<1>1. State = "PARSING_JSON" => Pipeline = "NULL" /\ InputFdMonitor = "NULL"
    BY Zenon DEF Watches
<1>2. CASE updateUnpack_Start
    BY Zenon, <1>2 DEF updateUnpack_Start
<1>3. CASE updateUnpack_Stop
    BY Zenon, <1>3 DEF updateUnpack_Stop
<1>4. CASE JsonEvent
    <2>1. State = "PARSING_JSON"
        BY Zenon, <1>4 DEF JsonEvent, JsonSyntaxError, JsonReadError, JsonBadHeader, JsonUpdateSystem,
                    JsonUpdateApp, JsonRemoveApp, JsonUpdateFirmware, HeaderRead
    <2> QED BY Zenon, <1>1, <2>1
<1>5. CASE InputFdEvent
    <2>1. ASSUME NEW copied \in 1..PayloadSize, CopyBytesToPipeline(copied)
          PROVE  DoneStep
        BY Zenon, <2>1 DEF CopyBytesToPipeline
    <2>2. ASSUME NEW copied \in 1..PayloadSize, NEW eof \in BOOLEAN,
                 DiscardPayloadBytes(copied, eof)
          PROVE  DoneStep
        <3>1. CASE copied < PayloadSize
            BY Zenon, <2>2, <3>1 DEF DiscardPayloadBytes
        <3>2. CASE ~(copied < PayloadSize)
            BY <2>2, <3>2 DEF DiscardPayloadBytes, UnpackInv, UnpackTypeOK
        <3> QED BY Zenon, <3>1, <3>2
    <2>3. CASE InputError
        BY Zenon, <2>3 DEF InputError, HandleInternalError, Finish
    <2> QED BY Zenon, <1>5, <2>1, <2>2, <2>3 DEF InputFdEvent
<1>6. CASE TarExit
    <2>1. PICK success \in BOOLEAN, eof \in BOOLEAN : UntarDone(success, eof)
        BY Zenon, <1>6 DEF TarExit
    <2>2. State = "UNPACKING_PAYLOAD"
        BY Zenon, <2>1 DEF UntarDone, UnpackInv, UnpackTypeOK, ParserHolds, Watches
    <2>3. CASE ~success
        BY Zenon, <2>1, <2>3 DEF UntarDone, HandleInternalError, Finish
    <2>4. CASE success
        <3>1. PipelineFd = "none"
            BY Zenon, <2>1, <2>4 DEF UntarDone
        <3>2. PayloadBytesCopied = PayloadSize
            BY Zenon, <2>2, <3>1 DEF Watches, PayloadWatched
        <3>3. PayloadBytesCopied' = PayloadBytesCopied
            BY Zenon, <2>1 DEF UntarDone
        <3> QED BY Zenon, <2>2, <3>2, <3>3
    <2> QED BY Zenon, <2>3, <2>4
<1>7. CASE UNCHANGED unpackVars
    BY Zenon, <1>7 DEF unpackVars
<1> QED BY Zenon, <1>2, <1>3, <1>4, <1>5, <1>6, <1>7 DEF UnpackNext

\* A report of success is true: the payload of the last header has been read to
\* its end, and between two sections no "tar" is at work any more, provided that
\* "tar" does not succeed before the end of its input.
THEOREM SuccessMeansUnpacked ==
    ASSUME TarDrains
    PROVE  UnpackSpec => DoneMeansUnpacked
<1>1. UnpackInit => Watches
    BY Zenon DEF UnpackInit, Watches, PayloadWatched
<1>2. UnpackInv /\ Watches /\ [UnpackNext]_unpackVars => Watches'
    BY Zenon, WatchesNext
<1>3. UnpackInv /\ Watches /\ [UnpackNext]_unpackVars => [DoneStep]_unpackVars
    BY Zenon, DoneStepHolds
<1> QED BY <1>1, <1>2, <1>3, UnpackInvariant, PTL
        DEF UnpackSpec, DoneMeansUnpacked, DoneStep

-----------------------------------------------------------------------------
(* The config tree, for any set of clients, any number of open             *)
(* transactions, any values and any number of faults.                      *)

-----------------------------------------------------------------------------
(* The revision files.                                                     *)

\* The types of the part of the state that is on flash.
FlashType ==
    /\ content \in Tree /\ saved \in Tree
    /\ rev \in 0 .. 3 /\ oldId \in 0 .. 3
    /\ files \in [Revisions -> Tree \cup {NoFile, Partial}]
    /\ phase \in {"no", "opening", "writing", "written", "saved", "failed"}
    /\ missed \in BOOLEAN /\ faults \in Nat

\* The revision that the files stand at: a save in progress has moved rev.
Base == IF phase = "no" THEN rev ELSE oldId
Value(x) == IF x = Partial THEN Empty ELSE x
Before(r) == IncrementRevision(IncrementRevision(r))

\* The file that a revision reads is there, holds the saved tree, and the file
\* of the revision before it is gone.  A third file may be left from a save
\* that was interrupted.
Holds1(r) == files[r] # NoFile /\ Value(files[r]) = saved /\ files[Before(r)] = NoFile

\* The inductive invariant of the files.
FlashInv ==
    /\ FlashType
    /\ phase # "no" => rev = IncrementRevision(oldId)
    /\ Base = 0 /\ phase \in {"no", "opening"} => \A r \in Revisions : files[r] = NoFile
    /\ Base = 0 => files[2] = NoFile /\ files[3] = NoFile
    /\ phase = "writing" => files[rev] \in {NoFile, Partial}
    /\ phase = "written" => files[rev] \in {NoFile, Partial, content}
    /\ phase = "failed" => missed
    /\ ~missed /\ phase \in {"no", "opening", "writing", "written"} =>
          /\ Base = 0 => saved = Empty
          /\ Base # 0 => Holds1(Base)
    /\ ~missed /\ phase = "saved" => Holds1(rev)

\* What a step can do to the flash and to the tree in memory.
FlashStep ==
    \/ UNCHANGED <<content, flash>>
    \/ Restart /\ faults' \in Nat
    \/ phase = "no" /\ \E v \in Vals \cup {NoChange} : tdb_MergeTree(v)
    \/ OpenFile \/ WriteFile \/ RemoveOldFile
    \/ /\ phase \in {"saved", "failed"} /\ phase' = "no" /\ oldId' = 0
       /\ UNCHANGED <<content, rev, files, saved, missed, faults>>

\* The tree that is loaded is the saved one when the files stand at r.
LEMMA HoldsLoads ==
    ASSUME FlashType, NEW r \in Revisions, Holds1(r)
    PROVE  UpdateRevision(files) = r /\ LoadTree(files) = saved
BY ConfigConstants DEF FlashType, Holds1, Value, Before, IncrementRevision, UpdateRevision,
   LoadTree, Revisions, Tree

\* With the files of revision 2 and 3 absent, only the first one can be read.
LEMMA FirstFileLoads ==
    ASSUME FlashType, files[2] = NoFile, files[3] = NoFile
    PROVE  /\ UpdateRevision(files) = IF files[1] = NoFile THEN 0 ELSE 1
           /\ LoadTree(files) = IF files[1] \in {NoFile, Partial} THEN Empty ELSE files[1]
BY Zenon, ConfigConstants DEF FlashType, UpdateRevision, LoadTree, Revisions, Tree

\* The invariant implies that the stored tree survives.
LEMMA FlashInvSurvives == FlashInv => StoredTreeSurvives
<1> SUFFICES ASSUME FlashInv, ~missed PROVE
        LoadTree(files) \in {saved} \cup IF phase = "written" THEN {content} ELSE {}
    BY Zenon DEF StoredTreeSurvives
<1> USE DEF FlashInv
<1>1. CASE phase = "saved"
    <2>1. rev \in Revisions BY <1>1 DEF FlashType, IncrementRevision, Revisions
    <2> QED BY Zenon, <1>1, <2>1, HoldsLoads
<1>2. CASE phase # "saved" /\ Base # 0
    <2>1. Base \in Revisions BY <1>2 DEF FlashType, Base, Revisions
    <2>2. Holds1(Base) BY Zenon, <1>2 DEF FlashType
    <2> QED BY Zenon, <2>1, <2>2, HoldsLoads
<1>3. CASE phase # "saved" /\ Base = 0
    <2>1. saved = Empty BY Zenon, <1>3 DEF FlashType
    <2>2. files[1] \in {NoFile, Partial} \/ (phase = "written" /\ files[1] = content)
        BY <1>3 DEF FlashType, Base, IncrementRevision, Revisions
    <2> QED BY Zenon, <1>3, <2>1, <2>2, FirstFileLoads DEF FlashType
<1> QED BY Zenon, <1>1, <1>2, <1>3

\* A step of the daemon or of its clients preserves the invariant of the files.
LEMMA FlashStepInv == FlashInv /\ FlashStep => FlashInv'
<1> SUFFICES ASSUME FlashInv, FlashStep PROVE FlashInv'
    BY Zenon
<1> USE ConfigConstants
<1>0. FlashType
    BY Zenon DEF FlashInv
<1>1. CASE UNCHANGED <<content, flash>>
    BY Zenon, <1>1 DEF FlashInv, FlashType, Base, Holds1, flash
<1>2. CASE Restart /\ faults' \in Nat
    <2>a. UpdateRevision(files) \in 0 .. 3
        BY DEF UpdateRevision
    <2>b. UpdateRevision(files) # 0 =>
             UpdateRevision(files) \in Revisions /\ files[UpdateRevision(files)] # NoFile
        BY DEF UpdateRevision, Revisions
    <2>c. LoadTree(files) \in Tree
        BY Zenon, <1>0, <2>b DEF LoadTree, FlashType, Tree
    <2>1. FlashType'
        BY <1>0, <1>2, <2>a, <2>c DEF Restart, FlashType
    <2>2. UpdateRevision(files) = 0 => \A r \in Revisions : files[r] = NoFile
        BY DEF UpdateRevision, Revisions
    <2>3. ~missed /\ phase # "saved" /\ Base # 0 => Holds1(UpdateRevision(files))
        BY HoldsLoads DEF FlashInv, FlashType, Base, Revisions
    <2>4. ~missed /\ phase = "saved" => Holds1(UpdateRevision(files))
        BY HoldsLoads DEF FlashInv, FlashType, IncrementRevision, Revisions
    <2>5. ~missed /\ phase # "saved" /\ Base = 0 =>
             /\ UpdateRevision(files) = IF files[1] = NoFile THEN 0 ELSE 1
             /\ LoadTree(files) = IF files[1] \in {NoFile, Partial} THEN Empty ELSE files[1]
             /\ files[3] = NoFile
        BY Zenon, FirstFileLoads DEF FlashInv
    <2>6. ~missed' /\ rev' # 0 => Holds1(rev)'
        <3>1. CASE phase # "saved" /\ Base = 0
            BY <1>2, <2>5, <3>1 DEF Restart, Holds1, Value, Before, IncrementRevision
        <3>2. CASE ~(phase # "saved" /\ Base = 0)
            <4> SUFFICES ASSUME ~missed', rev' # 0 PROVE Holds1(rev)'
                BY Zenon
            <4>1. ~missed /\ rev' = UpdateRevision(files) /\ saved' = LoadTree(files)
                  /\ files' = files
                BY Zenon, <1>2 DEF Restart
            <4>2. rev' \in Revisions /\ Holds1(UpdateRevision(files))
                BY <2>1, <2>3, <2>4, <3>2, <4>1 DEF FlashType, Revisions
            <4>3. LoadTree(files) = saved
                BY Zenon, <4>1, <4>2, HoldsLoads DEF FlashInv
            <4> QED BY Zenon, <4>1, <4>2, <4>3 DEF Holds1
        <3> QED BY Zenon, <3>1, <3>2
    <2>7. rev' = 0 => saved' = Empty
        BY Zenon, <1>2 DEF Restart, LoadTree
    <2> QED BY <1>2, <2>1, <2>2, <2>6, <2>7 DEF Restart, FlashInv, Base, Revisions
<1>3. CASE phase = "no" /\ \E v \in Vals \cup {NoChange} : tdb_MergeTree(v)
    BY <1>3 DEF tdb_MergeTree, memory, FlashInv, FlashType, Base, Holds1, IncrementRevision,
                Before, Value, Revisions, Tree
<1>4. CASE OpenFile
    <2>0. rev \in Revisions /\ rev = IncrementRevision(oldId) /\ oldId \in 0 .. 3
        BY <1>4 DEF OpenFile, FlashInv, FlashType, Revisions, IncrementRevision
    <2>1. FlashType'
        <3>1. files' \in [Revisions -> Tree \cup {NoFile, Partial}]
            BY Zenon, <1>4, <2>0 DEF OpenFile, FlashInv, FlashType
        <3>2. missed' \in BOOLEAN
            BY <1>0, <1>4, Zenon DEF OpenFile, FailSave, FlashType
        <3>3. faults' \in Nat
            BY <1>0, <1>4 DEF OpenFile, FailSave, Fault, FlashType
        <3> QED BY Zenon, <1>0, <1>4, <3>1, <3>2, <3>3 DEF OpenFile, FailSave, FlashType
    <2>2. CASE files' = [files EXCEPT ![rev] = NoFile] /\ phase' = "writing"
        <3>1. ~missed /\ oldId # 0 => Holds1(oldId)'
            BY <1>4, <2>0, <2>1, <2>2 DEF OpenFile, FlashInv, FlashType, Base, Holds1,
               IncrementRevision, Before, Value, Revisions
        <3>2. files'[rev] = NoFile /\ \A r \in Revisions : files[r] = NoFile => files'[r] = NoFile
            BY Zenon, <1>0, <2>0, <2>2 DEF FlashType
        <3>3. Base = oldId /\ Base' = oldId /\ missed' = missed /\ rev' = rev /\ oldId' = oldId
              /\ saved' = saved /\ phase = "opening"
            BY Zenon, <1>4, <2>2 DEF OpenFile, FailSave, Base
        <3>4. oldId = 0 => files'[2] = NoFile /\ files'[3] = NoFile
            BY <3>2, <3>3 DEF FlashInv, Revisions
        <3>5. ~missed /\ oldId = 0 => saved = Empty
            BY Zenon, <3>3 DEF FlashInv
        <3> QED BY Zenon, <2>0, <2>1, <2>2, <3>1, <3>2, <3>3, <3>4, <3>5 DEF FlashInv
    <2>3. CASE FailSave /\ UNCHANGED files
        BY Zenon, <1>4, <2>0, <2>1, <2>3 DEF OpenFile, FailSave, FlashInv, FlashType, Base, Revisions
    <2> QED BY Zenon, <1>4, <2>2, <2>3 DEF OpenFile
<1>5. CASE WriteFile
    <2>0. rev \in Revisions /\ rev = IncrementRevision(oldId) /\ oldId \in 0 .. 3
          /\ phase = "writing" /\ UNCHANGED <<content, rev, oldId, saved>>
        BY <1>5 DEF WriteFile, FlashInv, FlashType, Revisions, IncrementRevision
    <2>1. FlashType'
        <3>1. files' \in [Revisions -> Tree \cup {NoFile, Partial}]
            BY Zenon, <1>5, <2>0 DEF WriteFile, FlashInv, FlashType
        <3>2. missed' \in BOOLEAN
            BY <1>0, <1>5, Zenon DEF WriteFile, FailSave, FlashType
        <3>3. faults' \in Nat
            BY <1>0, <1>5 DEF WriteFile, FailSave, Fault, FlashType
        <3> QED BY Zenon, <1>0, <1>5, <2>0, <3>1, <3>2, <3>3 DEF WriteFile, FailSave, FlashType
    <2>2. \A r \in Revisions \ {rev} : files'[r] = files[r]
        BY Zenon, <1>5, <2>0, <2>1 DEF WriteFile, FlashInv, FlashType
    <2>3. ~missed /\ oldId # 0 => Holds1(oldId)'
        BY <2>0, <2>1, <2>2 DEF FlashInv, FlashType, Base, Holds1, IncrementRevision, Before, Value,
                          Revisions
    <2>4. /\ phase' = "writing" => files'[rev] \in {NoFile, Partial}
          /\ phase' = "written" => files'[rev] \in {NoFile, Partial, content}
          /\ phase' = "failed" => missed'
          /\ ~missed' => ~missed
          /\ phase' \in {"writing", "written", "failed"}
        BY Zenon, <1>5, <2>0, <2>1 DEF WriteFile, FailSave, FlashInv, FlashType
    <2>5. Base = oldId /\ Base' = oldId
        BY Zenon, <2>0, <2>1, <2>4 DEF Base
    <2>6. oldId = 0 => rev = 1 /\ files'[2] = NoFile /\ files'[3] = NoFile
        BY <2>0, <2>1, <2>2, <2>5 DEF FlashInv, IncrementRevision, Revisions
    <2> QED BY Zenon, <2>0, <2>1, <2>3, <2>4, <2>5, <2>6 DEF FlashInv
<1>6. CASE RemoveOldFile
    <2>0. rev \in Revisions /\ rev = IncrementRevision(oldId) /\ oldId \in 0 .. 3
          /\ phase = "written" /\ phase' = "saved" /\ UNCHANGED <<content, rev, oldId>>
        BY <1>6 DEF RemoveOldFile, FlashInv, FlashType, Revisions, IncrementRevision
    <2>1. FlashType'
        <3>1. files' \in [Revisions -> Tree \cup {NoFile, Partial}]
            BY Zenon, <1>6, <2>0 DEF RemoveOldFile, FlashInv, FlashType
        <3>2. missed' \in BOOLEAN /\ faults' \in Nat /\ saved' \in Tree
            BY Zenon, <1>6 DEF RemoveOldFile, FlashInv, FlashType
        <3> QED BY Zenon, <2>0, <3>1, <3>2 DEF FlashInv, FlashType
    <2>2. files'[rev] = files[rev] /\ (oldId # 0 => files'[oldId] = NoFile)
          /\ \A r \in Revisions : files[r] = NoFile => files'[r] = NoFile
        BY <1>6, <2>0, <2>1 DEF RemoveOldFile, FlashInv, FlashType, Revisions, IncrementRevision
    <2>3. ~missed' => files[rev] = content /\ saved' = content
        BY Zenon, <1>6 DEF RemoveOldFile
    <2>4. Base = oldId /\ Base' = oldId
        BY Zenon, <2>0, <2>1 DEF Base
    <2>5. oldId = 0 => files'[2] = NoFile /\ files'[3] = NoFile
        BY <2>0, <2>1, <2>2, <2>4 DEF FlashInv, Revisions
    <2>6. ~missed' => Holds1(rev)'
        BY SMTT(30), <2>0, <2>1, <2>2, <2>3, <2>5 DEF FlashInv, FlashType, Holds1, IncrementRevision, Before,
                                      Value, Revisions, Tree
    <2> QED BY Zenon, <2>0, <2>1, <2>4, <2>5, <2>6 DEF FlashInv
<1>7. CASE /\ phase \in {"saved", "failed"} /\ phase' = "no" /\ oldId' = 0
           /\ UNCHANGED <<content, rev, files, saved, missed, faults>>
    BY <1>7 DEF FlashInv, FlashType, Base, Holds1, IncrementRevision, Before, Value, Revisions
<1> QED BY Zenon, <1>1, <1>2, <1>3, <1>4, <1>5, <1>6, <1>7 DEF FlashStep

-----------------------------------------------------------------------------
(* The transactions.                                                       *)

Readers == {i \in Slots : iters[i] # NoIter /\ iters[i].type = "read"}
IsWriter(i) == iters[i] # NoIter /\ iters[i].type = "write"

TxnType ==
    /\ sess \in [Sessions -> {"open", "closed"}]
    /\ iters \in [Slots -> Iterator \cup {NoIter}]
    /\ writeIter \in Slots \cup {NoSlot}
    /\ queue \in Seq(Request) /\ work \in Seq(Request)

\* The tree counts its readers and knows its only writer.
Counted ==
    /\ readCount = Cardinality(Readers)
    /\ \A i \in Slots : IsWriter(i) <=> writeIter = i

\* A save is made for the first request of "work", which has not lost its
\* iterator meanwhile.
SaveHasRequest ==
    phase # "no" =>
        /\ work # <<>> /\ First.kind \in {"commit", "quick"}
        /\ First.kind = "commit" => IsWriter(First.it)

TxnInv == TxnType /\ Counted /\ SaveHasRequest /\ NobodyWaitsForNothing

\* The readers are finitely many, so their number is a natural number.
LEMMA ReadersFinite ==
    IsFiniteSet(Readers) /\ Cardinality(Readers) \in Nat
    /\ (Cardinality(Readers) = 0 <=> Readers = {})
<1>1. Readers \subseteq Slots BY Zenon DEF Readers
<1>2. IsFiniteSet(Readers) BY Zenon, <1>1, ConfigConstants, FS_Subset
<1> QED BY Zenon, <1>2, FS_CardinalityType, FS_EmptySet

\* ni_Release keeps the count of readers and the writer right.
LEMMA ReleaseCounted ==
    ASSUME TxnType, Counted, NEW i \in Slots, iters[i] # NoIter, ni_Release(i)
    PROVE  /\ iters' \in [Slots -> Iterator \cup {NoIter}]
           /\ writeIter' \in Slots \cup {NoSlot}
           /\ Counted'
<1>1. iters' = [iters EXCEPT ![i] = NoIter] /\ iters[i].type \in {"read", "write"}
    BY Zenon DEF ni_Release, TxnType, Iterator
<1>2. iters' \in [Slots -> Iterator \cup {NoIter}] BY Zenon, <1>1 DEF TxnType
<1>3. Readers' = Readers \ {i} BY Zenon, <1>1 DEF Readers, TxnType
<1>4. CASE iters[i].type = "write"
    <2>1. Readers' = Readers BY Zenon, <1>3, <1>4 DEF Readers
    <2>2. \A j \in Slots : ~IsWriter(j)'
        BY Zenon, <1>1, <1>4 DEF Counted, IsWriter, TxnType
    <2> QED BY Zenon, <1>2, <1>4, <2>1, <2>2, ConfigConstants DEF ni_Release, Counted
<1>5. CASE iters[i].type = "read"
    <2>1. i \in Readers BY Zenon, <1>5 DEF Readers
    <2>2. Cardinality(Readers') = Cardinality(Readers) - 1
        BY Zenon, <1>3, <2>1, ReadersFinite, FS_RemoveElement
    <2>3. \A j \in Slots : IsWriter(j)' <=> IsWriter(j)
        BY Zenon, <1>1, <1>5 DEF IsWriter, TxnType
    <2> QED BY Zenon, <1>2, <1>5, <2>2, <2>3 DEF ni_Release, Counted, TxnType
<1> QED BY Zenon, <1>1, <1>4, <1>5

\* So does ni_CreateIterator, in a free block and not for a second writer.
LEMMA CreateCounted ==
    ASSUME TxnType, Counted, NEW i \in Slots, iters[i] = NoIter,
           NEW type \in {"read", "write"}, NEW s \in Sessions,
           type = "write" => writeIter = NoSlot, ni_CreateIterator(i, type, s)
    PROVE  /\ iters' \in [Slots -> Iterator \cup {NoIter}]
           /\ writeIter' \in Slots \cup {NoSlot}
           /\ Counted'
           /\ readCount' # 0 \/ writeIter' # NoSlot
<1> DEFINE it == [type |-> type, owner |-> s, val |-> NoChange, held |-> sess[s] = "open"]
<1>1. iters' = [iters EXCEPT ![i] = it] /\ it \in Iterator /\ it # NoIter /\ it.type = type
    <2> DEFINE open == sess[s] = "open"
    <2>1. open \in BOOLEAN BY Zenon
    <2>2. it = [type |-> type, owner |-> s, val |-> NoChange, held |-> open] BY Zenon
    <2> HIDE DEF open
    <2>3. it \in Iterator BY Zenon, <2>1, <2>2 DEF Iterator
    <2>4. it # NoIter BY Zenon, <2>3, NoIterIsNone
    <2> QED BY <2>3, <2>4, Zenon DEF ni_CreateIterator
<1>2. iters' \in [Slots -> Iterator \cup {NoIter}] BY Zenon, <1>1 DEF TxnType
<1> HIDE DEF it
<1>3. CASE type = "write"
    <2>1. Readers' = Readers BY Zenon, <1>1, <1>3 DEF Readers, TxnType
    <2>2. \A j \in Slots : IsWriter(j)' <=> j = i
        BY Zenon, <1>1, <1>3, ConfigConstants DEF Counted, IsWriter, TxnType
    <2> QED BY Zenon, <1>2, <1>3, <2>1, <2>2, ConfigConstants DEF ni_CreateIterator, Counted
<1>4. CASE type = "read"
    <2>1. Readers' = Readers \cup {i} /\ i \notin Readers BY Zenon, <1>1, <1>4 DEF Readers, TxnType
    <2>2. Cardinality(Readers') = Cardinality(Readers) + 1
        BY Zenon, <2>1, ReadersFinite, FS_AddElement
    <2>3. \A j \in Slots : IsWriter(j)' <=> IsWriter(j)
        BY Zenon, <1>1, <1>4 DEF IsWriter, TxnType
    <2>4. readCount' = readCount + 1 /\ writeIter' = writeIter
        BY Zenon, <1>4 DEF ni_CreateIterator
    <2>5. Cardinality(Readers) \in Nat BY Zenon, ReadersFinite, FS_CardinalityType
    <2>6. readCount = Cardinality(Readers) BY Zenon DEF Counted
    <2>7. readCount' = Cardinality(Readers') /\ readCount' # 0 BY <2>2, <2>4, <2>5, <2>6
    <2>8. Counted' BY Zenon, <2>3, <2>4, <2>7 DEF Counted
    <2> QED BY Zenon, <1>2, <2>4, <2>7, <2>8 DEF TxnType
<1> QED BY Zenon, <1>3, <1>4

\* A daemon that was restarted has no transaction.
LEMMA RestartTxn == Restart => TxnInv'
<1> SUFFICES ASSUME Restart PROVE TxnInv'
    BY Zenon
<1>1. TxnType' BY DEF Restart, TxnType
<1>2. Readers' = {} BY Zenon DEF Restart, Readers
<1>3. \A j \in Slots : ~IsWriter(j)' BY Zenon DEF Restart, IsWriter
<1>4. Counted' BY Zenon, <1>2, <1>3, FS_EmptySet, ConfigConstants DEF Restart, Counted
<1> QED BY Zenon, <1>1, <1>4 DEF Restart, TxnInv, SaveHasRequest, NobodyWaitsForNothing

\* The deletions queued for a session that ends are requests.
LEMMA CleanUpType ==
    ASSUME TxnType, NEW s \in Sessions, rq_CleanUpForSession(s)
    PROVE  work' \in Seq(Request)
<1> DEFINE S == {i \in Live : iters[i].owner = s}
<1>1. S \subseteq Slots /\ Cardinality(S) \in Nat
    BY Zenon, ConfigConstants, FS_Subset, FS_CardinalityType DEF Live
<1>2. PICK q \in [1 .. Cardinality(S) -> S] :
        work' = [n \in DOMAIN q |-> Ask("delete", NoSession, q[n], NoChange)]
    BY Zenon DEF rq_CleanUpForSession, Orders
<1> HIDE DEF S
<1>3. \A n \in 1 .. Cardinality(S) : Ask("delete", NoSession, q[n], NoChange) \in Request
    BY Zenon, <1>1 DEF Ask, Request
<1> QED BY <1>1, <1>2, <1>3

\* What a client does, and the end of its session, keeps the invariant.
LEMMA ClientTxn ==
    ASSUME TxnInv, NEW s \in Sessions, Client(s) PROVE TxnInv'
<1>1. CASE OpenSession(s)
    BY Zenon, <1>1 DEF OpenSession, TxnInv, TxnType, Counted, Readers, IsWriter, SaveHasRequest,
                NobodyWaitsForNothing, flash, First
<1>2. CASE CloseSession(s)
    <2>1. work' \in Seq(Request) BY Zenon, <1>2, CleanUpType DEF CloseSession, TxnInv
    <2>2. sess' \in [Sessions -> {"open", "closed"}]
        BY Zenon, <1>2 DEF CloseSession, TxnInv, TxnType
    <2>3. phase' = "no" /\ UNCHANGED <<iters, readCount, writeIter, queue>>
        BY Zenon, <1>2 DEF CloseSession, Idle, TxnInv, SaveHasRequest, flash
    <2> QED BY Zenon, <2>1, <2>2, <2>3 DEF TxnInv, TxnType, Counted, Readers, IsWriter,
                                    SaveHasRequest, NobodyWaitsForNothing
<1>3. ASSUME NEW e \in Request, Receive(e), Idle PROVE TxnInv'
    <2>1. work' \in Seq(Request) BY <1>3 DEF Receive
    <2>2. phase' = "no" /\ UNCHANGED <<sess, iters, readCount, writeIter, queue>>
        BY Zenon, <1>3 DEF Receive, Idle, TxnInv, SaveHasRequest, flash
    <2> QED BY Zenon, <2>1, <2>2 DEF TxnInv, TxnType, Counted, Readers, IsWriter,
                              SaveHasRequest, NobodyWaitsForNothing
<1>4. CASE \E type \in {"read", "write"} : CreateTransaction(s, type)
    BY Zenon, <1>3, <1>4 DEF CreateTransaction, MayAsk, Ask, Request
<1>5. CASE \E i \in Slots : le_cfg_CommitTxn(s, i) \/ le_cfg_CancelTxn(s, i)
    BY Zenon, <1>3, <1>5 DEF le_cfg_CommitTxn, le_cfg_CancelTxn, MayAsk, Ask, Request
<1>6. CASE \E v \in Vals : le_cfg_QuickSet(s, v)
    BY Zenon, <1>3, <1>6 DEF le_cfg_QuickSet, MayAsk, Ask, Request
<1>7. ASSUME NEW v \in Vals, NEW i \in Slots, le_cfg_Set(s, i, v) PROVE TxnInv'
    <2>1. iters[i] \in Iterator /\ iters' = [iters EXCEPT ![i].val = v]
        BY Zenon, <1>7 DEF le_cfg_Set, Holds, TxnInv, TxnType
    <2>2. [iters[i] EXCEPT !.val = v] \in Iterator
        BY Zenon, <2>1 DEF Iterator
    <2>3. iters' \in [Slots -> Iterator \cup {NoIter}]
        BY Zenon, <2>1, <2>2 DEF TxnInv, TxnType
    <2>4. \A j \in Slots : iters'[j] = NoIter <=> iters[j] = NoIter
        BY Zenon, <2>1, <2>2, NoIterIsNone DEF TxnInv, TxnType
    <2>5. \A j \in Slots : iters[j] # NoIter => iters'[j].type = iters[j].type
        BY Zenon, <2>1 DEF TxnInv, TxnType, Iterator
    <2>6. Readers' = Readers /\ \A j \in Slots : IsWriter(j)' <=> IsWriter(j)
        BY Zenon, <2>4, <2>5 DEF Readers, IsWriter
    <2>7. phase' = "no" /\ UNCHANGED <<sess, readCount, writeIter, queue, work>>
        BY Zenon, <1>7 DEF le_cfg_Set, MayAsk, Idle, TxnInv, SaveHasRequest, flash
    <2> QED BY Zenon, <2>3, <2>6, <2>7 DEF TxnInv, TxnType, Counted, SaveHasRequest,
                                    NobodyWaitsForNothing
<1> QED BY Zenon, <1>1, <1>2, <1>4, <1>5, <1>6, <1>7 DEF Client

\* The first request is one, and what follows it is a queue.
LEMMA FirstIsRequest ==
    ASSUME TxnType, work # <<>>
    PROVE  First \in Request /\ Tail(work) \in Seq(Request)
           /\ queue \o Tail(work) \in Seq(Request) /\ Append(queue, First) \in Seq(Request)
BY DEF TxnType, First

\* Releasing an iterator and processing the queue keeps the invariant.
LEMMA ReleaseTxn ==
    ASSUME TxnInv, work # <<>>, First.it \in Slots, iters[First.it] # NoIter,
           ni_Release(First.it), ProcessRequestQueue, sess' = sess, phase' = "no"
    PROVE  TxnInv'
BY ReleaseCounted, FirstIsRequest
DEF TxnInv, TxnType, ProcessRequestQueue, SaveHasRequest, NobodyWaitsForNothing

\* A request that is queued again waits for a transaction that is open.
LEMMA QueueTxn ==
    ASSUME TxnInv, work # <<>>, phase = "no", QueueRequest,
           readCount # 0 \/ writeIter # NoSlot
    PROVE  TxnInv'
BY Zenon, FirstIsRequest
DEF QueueRequest, TxnInv, TxnType, Counted, Readers, IsWriter, SaveHasRequest,
    NobodyWaitsForNothing, flash

\* The first part of a save leaves the transactions alone.
LEMMA MergeTxn ==
    ASSUME TxnInv, work # <<>>, NEW v, tdb_MergeTree(v), First.kind \in {"commit", "quick"},
           First.kind = "commit" => IsWriter(First.it)
    PROVE  TxnInv'
BY Zenon DEF tdb_MergeTree, memory, TxnInv, TxnType, Counted, Readers, IsWriter, SaveHasRequest,
       NobodyWaitsForNothing, First

\* Every handler keeps the invariant.
LEMMA HandlerTxn ==
    ASSUME TxnInv, Handler PROVE TxnInv'
<1>0. TxnType /\ Counted /\ SaveHasRequest BY Zenon DEF TxnInv
<1>1. CASE rq_HandleCreateTxnRequest
    <2>1. work # <<>> /\ phase = "no" /\ First.kind \in {"read", "write"} /\ First \in Request
        BY Zenon, <1>0, <1>1, FirstIsRequest DEF rq_HandleCreateTxnRequest, Busy
    <2>2. First.by \in Sessions
        BY Zenon, <2>1 DEF Request
    <2>3. CASE First.kind = "write" /\ writeIter # NoSlot
        BY Zenon, <1>1, <2>1, <2>3, QueueTxn DEF rq_HandleCreateTxnRequest
    <2>4. CASE ~(First.kind = "write" /\ writeIter # NoSlot)
        <3>1. PICK i \in Slots : iters[i] = NoIter /\ ni_CreateIterator(i, First.kind, First.by)
            BY Zenon, <1>1, <2>4 DEF rq_HandleCreateTxnRequest
        <3>2. Return /\ UNCHANGED <<sess, content, flash>>
            BY Zenon, <1>1, <2>4 DEF rq_HandleCreateTxnRequest
        <3> HIDE DEF First
        <3>3. /\ iters' \in [Slots -> Iterator \cup {NoIter}]
              /\ writeIter' \in Slots \cup {NoSlot}
              /\ Counted'
              /\ readCount' # 0 \/ writeIter' # NoSlot
            BY Zenon, <1>0, <2>1, <2>2, <2>4, <3>1, CreateCounted
        <3> QED BY Zenon, <1>0, <2>1, <3>2, <3>3, FirstIsRequest
                DEF Return, TxnInv, TxnType, SaveHasRequest, NobodyWaitsForNothing, flash
    <2> QED BY Zenon, <2>3, <2>4
<1>2. CASE rq_HandleCommitTxnRequest
    <2>1. work # <<>> /\ phase = "no" /\ First.kind = "commit" /\ First \in Request
        BY Zenon, <1>0, <1>2, FirstIsRequest DEF rq_HandleCommitTxnRequest, Busy
    <2>2. First.it \in Slots
        BY Zenon, <2>1 DEF Request
    <2>3. CASE iters[First.it] = NoIter
        BY Zenon, <1>2, <2>3, RestartTxn DEF rq_HandleCommitTxnRequest, AssertFails
    <2>4. CASE iters[First.it] # NoIter /\ iters[First.it].type = "read"
        BY Zenon, <1>2, <2>1, <2>2, <2>4, ReleaseTxn DEF rq_HandleCommitTxnRequest, flash
    <2>5. CASE iters[First.it] # NoIter /\ iters[First.it].type = "write"
               /\ tdb_HasActiveReaders
        BY Zenon, <1>2, <2>1, <2>5, QueueTxn DEF rq_HandleCommitTxnRequest, tdb_HasActiveReaders
    <2>6. CASE iters[First.it] # NoIter /\ iters[First.it].type = "write"
               /\ ~tdb_HasActiveReaders
        BY Zenon, <1>2, <2>1, <2>6, MergeTxn DEF rq_HandleCommitTxnRequest, IsWriter
    <2> QED BY Zenon, <1>2, <2>3, <2>4, <2>5, <2>6 DEF rq_HandleCommitTxnRequest
<1>3. CASE rq_HandleCancelTxnRequest
    <2>1. work # <<>> /\ phase = "no" /\ First.kind \in {"cancel", "delete"} /\ First \in Request
        BY Zenon, <1>0, <1>3, FirstIsRequest DEF rq_HandleCancelTxnRequest, Busy
    <2>2. First.it \in Slots
        BY Zenon, <2>1 DEF Request
    <2>3. CASE iters[First.it] = NoIter
        BY Zenon, <1>3, <2>3, RestartTxn DEF rq_HandleCancelTxnRequest, AssertFails
    <2>4. CASE iters[First.it] # NoIter
        BY Zenon, <1>3, <2>1, <2>2, <2>4, ReleaseTxn DEF rq_HandleCancelTxnRequest, flash
    <2> QED BY Zenon, <2>3, <2>4
<1>4. CASE rq_HandleQuickSet
    <2>1. work # <<>> /\ phase = "no" /\ First.kind = "quick"
        BY Zenon, <1>4 DEF rq_HandleQuickSet, Busy
    <2>2. CASE CanQuickSet
        BY Zenon, <1>4, <2>1, <2>2, MergeTxn DEF rq_HandleQuickSet
    <2>3. CASE ~CanQuickSet
        BY Zenon, <1>4, <2>1, <2>3, QueueTxn DEF rq_HandleQuickSet, CanQuickSet
    <2> QED BY Zenon, <2>2, <2>3
<1>5. CASE OpenFile \/ WriteFile \/ RemoveOldFile
    <2>1. phase # "no" /\ UNCHANGED memory
        BY Zenon, <1>5 DEF OpenFile, WriteFile, RemoveOldFile
    <2> QED BY Zenon, <2>1 DEF memory, TxnInv, TxnType, Counted, Readers, IsWriter, SaveHasRequest,
                        NobodyWaitsForNothing, First
<1>6. CASE EndSave
    <2>1. phase # "no" /\ phase' = "no" /\ sess' = sess /\ work # <<>> /\ First \in Request
        BY Zenon, <1>0, <1>6, FirstIsRequest DEF EndSave, SaveHasRequest
    <2>2. CASE First.kind = "commit"
        <3>1. First.it \in Slots /\ iters[First.it] # NoIter
            BY Zenon, <1>0, <2>1, <2>2 DEF Request, SaveHasRequest, IsWriter
        <3> QED BY Zenon, <1>6, <2>1, <2>2, <3>1, ReleaseTxn DEF EndSave
    <2>3. CASE First.kind # "commit"
        BY Zenon, <1>0, <1>6, <2>1, <2>3, FirstIsRequest
        DEF EndSave, Return, TxnInv, TxnType, Counted, Readers, IsWriter, SaveHasRequest,
            NobodyWaitsForNothing
    <2> QED BY Zenon, <2>2, <2>3
<1> QED BY Zenon, <1>1, <1>2, <1>3, <1>4, <1>5, <1>6 DEF Handler

\* A fault keeps the number of faults in its bound.
LEMMA FaultBounded ==
    ASSUME faults \in 0 .. MaxFaults, Fault PROVE faults' \in 0 .. MaxFaults
BY ConfigConstants DEF Fault

-----------------------------------------------------------------------------
(* The two parts together.                                                 *)

ConfigInv == FlashInv /\ TxnInv /\ faults \in 0 .. MaxFaults

\* Every step keeps the transactions in order.
LEMMA NextTxn == ASSUME TxnInv, [ConfigNext]_vars PROVE TxnInv'
<1>1. CASE \E s \in Sessions : Client(s)
    BY Zenon, <1>1, ClientTxn
<1>2. CASE \E i \in Slots : OnTransactionTimeout(i)
    <2>1. PICK i \in Slots : OnTransactionTimeout(i) BY Zenon, <1>2
    <2>2. CASE AssertFails
        BY Zenon, <2>2, RestartTxn DEF AssertFails
    <2>3. CASE ~AssertFails
        <3>1. iters[i].owner \in Sessions /\ CloseSession(iters[i].owner)
            BY Zenon, <2>1, <2>3 DEF OnTransactionTimeout, TxnInv, TxnType, Iterator
        <3> QED BY Zenon, <3>1, ClientTxn DEF Client
    <2> QED BY Zenon, <2>2, <2>3
<1>3. CASE Handler
    BY Zenon, <1>3, HandlerTxn
<1>4. CASE CrashRestart
    BY Zenon, <1>4, RestartTxn DEF CrashRestart
<1>5. CASE UNCHANGED vars
    BY Zenon, <1>5 DEF vars, memory, flash, TxnInv, TxnType, Counted, Readers, IsWriter,
                SaveHasRequest, NobodyWaitsForNothing, First
<1> QED BY Zenon, <1>1, <1>2, <1>3, <1>4, <1>5 DEF ConfigNext

\* What a commit writes is a value or nothing.
LEMMA CommitValue ==
    ASSUME TxnInv, work # <<>>, First.kind = "commit", iters[First.it] # NoIter
    PROVE  iters[First.it].val \in Vals \cup {NoChange}
<1>1. First.it \in Slots BY Zenon, FirstIsRequest DEF TxnInv, Request
<1> QED BY Zenon, <1>1 DEF TxnInv, TxnType, Iterator

\* What a quick write writes is a value.
LEMMA QuickValue ==
    ASSUME TxnInv, work # <<>>, First.kind = "quick"
    PROVE  First.val \in Vals
BY Zenon, FirstIsRequest DEF TxnInv, Request

\* Every step is one of those the files know of, or leaves them alone.
LEMMA NextFlash ==
    ASSUME ConfigInv, [ConfigNext]_vars
    PROVE  FlashStep /\ faults' \in 0 .. MaxFaults
<1>0. TxnInv /\ faults \in 0 .. MaxFaults /\ 0 .. MaxFaults \subseteq Nat
    BY ConfigConstants DEF ConfigInv
<1>1. CASE \E s \in Sessions : Client(s)
    BY Zenon, <1>0, <1>1 DEF Client, OpenSession, CloseSession, CreateTransaction, le_cfg_CommitTxn,
       le_cfg_CancelTxn, le_cfg_QuickSet, le_cfg_Set, Receive, FlashStep, flash
<1>2. CASE \E i \in Slots : OnTransactionTimeout(i)
    BY Zenon, <1>0, <1>2 DEF OnTransactionTimeout, CloseSession, AssertFails, FlashStep, flash
<1>3. CASE rq_HandleCreateTxnRequest \/ rq_HandleCancelTxnRequest
    BY Zenon, <1>0, <1>3 DEF rq_HandleCreateTxnRequest, rq_HandleCancelTxnRequest, QueueRequest,
       AssertFails, FlashStep, flash
<1>4. CASE rq_HandleCommitTxnRequest
    <2>1. work # <<>> /\ phase = "no" /\ First.kind = "commit"
        BY Zenon, <1>4 DEF rq_HandleCommitTxnRequest, Busy
    <2>2. CASE AssertFails
        BY Zenon, <1>0, <2>2 DEF AssertFails, FlashStep
    <2>3. CASE UNCHANGED <<content, flash>>
        BY Zenon, <1>0, <2>3 DEF FlashStep, flash
    <2>4. CASE iters[First.it] # NoIter /\ tdb_MergeTree(iters[First.it].val)
        BY Zenon, <1>0, <2>1, <2>4, CommitValue DEF FlashStep, tdb_MergeTree
    <2> QED BY Zenon, <1>4, <2>2, <2>3, <2>4 DEF rq_HandleCommitTxnRequest, QueueRequest
<1>5. CASE rq_HandleQuickSet
    <2>1. work # <<>> /\ phase = "no" /\ First.kind = "quick"
        BY Zenon, <1>5 DEF rq_HandleQuickSet, Busy
    <2>2. CASE tdb_MergeTree(First.val)
        BY Zenon, <1>0, <2>1, <2>2, QuickValue DEF FlashStep, tdb_MergeTree
    <2>3. CASE UNCHANGED <<content, flash>>
        BY Zenon, <1>0, <2>3 DEF FlashStep, flash
    <2> QED BY Zenon, <1>5, <2>2, <2>3 DEF rq_HandleQuickSet, QueueRequest
<1>6. CASE OpenFile \/ WriteFile \/ RemoveOldFile
    <2>1. UNCHANGED faults \/ Fault
        BY Zenon, <1>6 DEF OpenFile, WriteFile, RemoveOldFile, FailSave
    <2> QED BY Zenon, <1>0, <1>6, <2>1, FaultBounded DEF FlashStep
<1>7. CASE EndSave
    BY Zenon, <1>0, <1>7 DEF EndSave, FlashStep
<1>8. CASE CrashRestart
    BY Zenon, <1>0, <1>8, FaultBounded DEF CrashRestart, FlashStep
<1>9. CASE UNCHANGED vars
    BY Zenon, <1>0, <1>9 DEF vars, FlashStep, flash
<1> QED BY Zenon, <1>1, <1>2, <1>3, <1>4, <1>5, <1>6, <1>7, <1>8, <1>9 DEF ConfigNext, Handler

\* The daemon starts with the invariant.
LEMMA ConfigInitInv == ConfigInit => ConfigInv
<1> SUFFICES ASSUME ConfigInit PROVE ConfigInv
    BY Zenon
<1>1. FlashInv
    <2>1. missed \in BOOLEAN BY Zenon DEF ConfigInit
    <2>2. FlashType
        BY <2>1, ConfigConstants DEF ConfigInit, FlashType, Tree, Revisions
    <2>3. phase = "no" /\ Base = 0 /\ saved = Empty
        BY Zenon DEF ConfigInit, Base
    <2>4. \A r \in Revisions : files[r] = NoFile
        BY Zenon DEF ConfigInit
    <2> QED BY <2>2, <2>3, <2>4 DEF FlashInv, Revisions
<1>2. Readers = {} /\ \A j \in Slots : ~IsWriter(j)
    BY Zenon DEF ConfigInit, Readers, IsWriter
<1>3. Counted
    BY Zenon, <1>2, FS_EmptySet, ConfigConstants DEF ConfigInit, Counted
<1>4. TxnType
    BY DEF ConfigInit, TxnType
<1> QED BY <1>1, <1>3, <1>4, ConfigConstants
        DEF ConfigInit, ConfigInv, TxnInv, SaveHasRequest, NobodyWaitsForNothing

\* The invariant holds in every state of the daemon.
THEOREM ConfigInvariant == ConfigSpec => []ConfigInv
<1>1. ConfigInv /\ [ConfigNext]_vars => ConfigInv'
    BY Zenon, NextTxn, NextFlash, FlashStepInv DEF ConfigInv
<1> QED BY <1>1, ConfigInitInv, PTL DEF ConfigSpec

\* Every variable keeps its type, whatever the clients and the faults do.
THEOREM ConfigTypeCorrect == ConfigSpec => []ConfigType
<1>1. ConfigInv => ConfigType
    BY Zenon, ReadersFinite DEF ConfigInv, FlashInv, FlashType, TxnInv, TxnType, Counted, ConfigType
<1> QED BY <1>1, ConfigInvariant, PTL

\* The tree of the last save survives a crash at any point of the next save
\* (treeDb.c:3127), for any number of crashes and failures.
THEOREM StoredTreeSafe == ConfigSpec => []StoredTreeSurvives
<1>1. ConfigInv => StoredTreeSurvives
    BY Zenon, FlashInvSurvives DEF ConfigInv
<1> QED BY <1>1, ConfigInvariant, PTL

\* No request is left in the queue when no transaction is open
\* (requestQueue.c:248).
THEOREM QueueNotForgotten == ConfigSpec => []NobodyWaitsForNothing
<1>1. ConfigInv => NobodyWaitsForNothing
    BY Zenon DEF ConfigInv, TxnInv
<1> QED BY <1>1, ConfigInvariant, PTL

\* While there is no reader, the only open transaction is the writer.
LEMMA MergeAlone ==
    ASSUME TxnInv, NEW i \in Slots, iters[i] # NoIter, readCount = 0
    PROVE  writeIter = i
<1>1. Readers = {} BY Zenon, ReadersFinite DEF TxnInv, Counted
<1>2. iters[i].type \in {"read", "write"} BY Zenon DEF TxnInv, TxnType, Iterator
<1> QED BY Zenon, <1>1, <1>2 DEF TxnInv, Counted, Readers, IsWriter

\* Open transactions see one tree (requestQueue.c:439, 591).
THEOREM TransactionsAreIsolated == ConfigSpec => TransactionsIsolated
<1> DEFINE Isolated == \A i \in Slots :
         \/ iters[i] = NoIter \/ iters'[i] = NoIter
         \/ work # <<>> /\ First.kind = "commit" /\ First.it = i
         \/ content' = content
<1>1. ASSUME ConfigInv, [ConfigNext]_vars PROVE Isolated
    <2>0. TxnInv BY Zenon, <1>1 DEF ConfigInv
    <2>1. CASE Restart
        BY Zenon, <2>1 DEF Restart
    <2>2. CASE content' = content
        BY Zenon, <2>2
    <2>3. CASE rq_HandleCommitTxnRequest
        <3>1. work # <<>> /\ First.kind = "commit"
            BY Zenon, <2>3 DEF rq_HandleCommitTxnRequest, Busy
        <3>2. CASE iters[First.it] # NoIter /\ iters[First.it].type = "write" /\ readCount = 0
            <4>1. First.it \in Slots BY Zenon, <2>0, <3>1, FirstIsRequest DEF TxnInv, Request
            <4> QED BY Zenon, <2>0, <3>1, <3>2, <4>1, MergeAlone
        <3> QED BY Zenon, <2>1, <2>2, <2>3, <3>2
                DEF rq_HandleCommitTxnRequest, QueueRequest, tdb_HasActiveReaders, AssertFails
    <2>4. CASE rq_HandleQuickSet
        <3>1. CASE readCount = 0 /\ writeIter = NoSlot
            BY Zenon, <2>0, <3>1, MergeAlone, ConfigConstants
        <3> QED BY Zenon, <2>2, <2>4, <3>1 DEF rq_HandleQuickSet, QueueRequest, CanQuickSet
    <2>5. Restart \/ content' = content \/ rq_HandleCommitTxnRequest \/ rq_HandleQuickSet
        <3>1. ASSUME NEW s \in Sessions, Client(s) PROVE content' = content
            BY Zenon, <3>1 DEF Client, OpenSession, CloseSession, CreateTransaction, le_cfg_CommitTxn,
               le_cfg_CancelTxn, le_cfg_QuickSet, le_cfg_Set, Receive
        <3>2. ASSUME NEW i \in Slots, OnTransactionTimeout(i)
              PROVE Restart \/ content' = content
            BY Zenon, <3>2 DEF OnTransactionTimeout, CloseSession, AssertFails
        <3>3. ASSUME rq_HandleCreateTxnRequest \/ rq_HandleCancelTxnRequest
              PROVE Restart \/ content' = content
            BY Zenon, <3>3 DEF rq_HandleCreateTxnRequest, rq_HandleCancelTxnRequest, QueueRequest,
               AssertFails
        <3>4. ASSUME OpenFile \/ WriteFile \/ RemoveOldFile \/ EndSave
              PROVE content' = content
            BY Zenon, <3>4 DEF OpenFile, WriteFile, RemoveOldFile, EndSave
        <3> QED BY Zenon, <1>1, <3>1, <3>2, <3>3, <3>4 DEF ConfigNext, Handler, CrashRestart, vars
    <2> QED BY Zenon, <2>1, <2>2, <2>3, <2>4, <2>5
<1> HIDE DEF Isolated
<1>2. ConfigSpec => [][Isolated]_vars
    BY <1>1, ConfigInvariant, PTL DEF ConfigSpec
<1> QED BY <1>2, PTL DEF TransactionsIsolated, Isolated

-----------------------------------------------------------------------------
(* The start program, for every MAX_TRIES and MaxIndex.                    *)

\* A nonempty set of integers with an upper bound has a greatest element.
LEMMA MaxIsGreatest ==
    ASSUME NEW n \in Int, NEW S, S \subseteq Int, S # {}, \A x \in S : x <= n
    PROVE  /\ Max(S) \in S
           /\ \A y \in S : Max(S) >= y
<1> DEFINE T == {n - x : x \in S}
           R == OpToRel(<, Nat)
<1>1. T \subseteq Nat /\ T # {}
  <2>1. \A x \in S : n - x \in Nat
    OBVIOUS
  <2>2. PICK x \in S : TRUE
    BY Zenon
  <2>3. n - x \in T
    BY Zenon, <2>2
  <2> QED
    BY Zenon, <2>1, <2>3
<1>2. PICK t \in T : \A u \in T : ~(<<u, t>> \in R)
  <2> HIDE DEF T, R
  <2>1. IsWellFoundedOn(R, Nat)
    BY Zenon, NatLessThanWellFounded DEF R
  <2> QED
    BY Zenon, <1>1, <2>1, WFMin
<1>3. \A u \in T : ~(u < t)
  BY Zenon, <1>1, <1>2 DEF OpToRel
<1>4. PICK x \in S : t = n - x
  BY Zenon
<1>5. \A y \in S : x >= y
  <2> TAKE y \in S
  <2>1. n - y \in T
    BY Zenon
  <2>2. ~(n - y < n - x)
    BY Zenon, <2>1, <1>3, <1>4
  <2>3. x \in Int /\ y \in Int
    BY Zenon
  <2> HIDE DEF T, R
  <2> QED
    BY <2>2, <2>3
<1> QED
  BY Zenon, <1>5 DEF Max

\* The newest index is -1 or that of a system that is not bad, and no such
\* system has a higher one.
LEMMA NewestIndex ==
    ASSUME StartType
    PROVE  /\ FindNewestSystemIndex \in Dirs
           /\ \A d \in Dirs : GetStatus(dirs[d]) # "BAD" => dirs[d].index <= FindNewestSystemIndex
           /\ FindNewestSystemIndex # -1 =>
                \E d \in Dirs : /\ GetStatus(dirs[d]) # "BAD"
                                /\ dirs[d].index = FindNewestSystemIndex
<1> DEFINE S == {-1} \union {dirs[d].index : d \in {e \in Dirs : GetStatus(dirs[e]) # "BAD"}}
<1>1. \A d \in Dirs : dirs[d].index \in Dirs
  BY Zenon DEF StartType, System
<1>2. S \subseteq Dirs /\ S # {}
  BY Zenon, <1>1 DEF Dirs, current
<1>3. Dirs \subseteq Int /\ MaxIndex \in Int /\ \A x \in Dirs : x <= MaxIndex
  BY MaxIndexAssumption DEF Dirs, current, Saved
<1>4. Max(S) \in S /\ \A y \in S : Max(S) >= y
  <2> HIDE DEF S
  <2> QED
    BY Zenon, <1>2, <1>3, MaxIsGreatest
<1>5. FindNewestSystemIndex = Max(S)
  BY Zenon DEF FindNewestSystemIndex
<1> HIDE DEF FindNewestSystemIndex
<1>6. \A d \in Dirs : GetStatus(dirs[d]) # "BAD" => dirs[d].index \in S
  BY Zenon
<1>7. \A d \in Dirs : GetStatus(dirs[d]) # "BAD" => dirs[d].index <= Max(S)
  BY Zenon, <1>1, <1>2, <1>3, <1>4, <1>6
<1>8. Max(S) # -1 => \E d \in Dirs : GetStatus(dirs[d]) # "BAD" /\ dirs[d].index = Max(S)
  BY Zenon, <1>4
<1> QED
  BY Zenon, <1>2, <1>4, <1>5, <1>7, <1>8

-----------------------------------------------------------------------------
(* The inductive invariant.  What the steps of the start program rely on is *)
(* stated for the step that relies on it.                                   *)

NamedByIndex == \A d \in Saved : Present(d) => dirs[d].index = d

\* No saved system that could be chosen is newer than i.
NoneNewer(i) == \A d \in Saved : Present(d) /\ GetStatus(dirs[d]) # "BAD" => d <= i

\* What system_RemoveUnneeded() leaves.
OnlyGoodSaved ==
    \A d \in Saved : Present(d) => dirs[d].status = "good" /\ d <= dirs[current].index

GoldenSteps ==
    /\ pc \in {"clear golden index", "park current", "install golden"} => newestIndex < MaxIndex
    /\ pc = "clear golden index" => NoneNewer(newestIndex) /\ currentIndex = dirs[current].index
    /\ pc = "park current" => currentIndex = dirs[current].index /\ currentIndex # -1
    /\ pc \in {"delete others", "forget boots", "mark installed"} => Good(current)
    /\ pc \in {"forget boots", "mark installed"} => \A d \in Saved : ~Present(d)

ChoiceSteps ==
    /\ pc \in {"move current", "delete parked", "set current"} =>
        /\ newestIndex \in Saved
        /\ Present(newestIndex)
        /\ GetStatus(dirs[newestIndex]) # "BAD"
        /\ NoneNewer(newestIndex)
    /\ pc = "move current" =>
        /\ currentIndex = dirs[current].index
        /\ currentIndex \in Saved \ {newestIndex}
        /\ GetStatus(dirs[current]) # "BAD" => currentIndex <= newestIndex
    /\ pc = "delete parked" =>
        /\ currentIndex \in Saved \ {newestIndex}
        /\ dirs[currentIndex].status # "good"
    /\ pc \in {"delete parked", "set current"} => ~Present(current)

Changing == {"reindex", "modify", "mark bad", "change"}

RunSteps ==
    /\ pc = "launch" => GetStatus(dirs[current]) # "BAD"
    /\ pc \in {"launch", "count boot", "running", "finishing", "remove unneeded", "prepared"}
                \union Changing =>
        /\ Present(current)
        /\ NoneNewer(dirs[current].index)
    /\ pc = "restarting" => Present(current)
    /\ pc \in {"prepared"} \union Changing => OnlyGoodSaved
    /\ pc = "prepared" /\ dirs[current].status = "good" => \A d \in Saved : ~Present(d)
    /\ pc = "reindex" => dirs[current].index < MaxIndex
    /\ pc \in {"reindex", "modify", "mark bad"} => \E d \in Saved : Good(d)
    /\ pc \in {"modify", "mark bad", "change"} =>
        \A d \in Saved : Present(d) => d # dirs[current].index
    /\ pc \in {"change", "finishing"} => dirs[current].status = "bad"

StartInv ==
    /\ StartType
    /\ NamedByIndex
    /\ GoodSystemKept
    /\ TwinIsGood
    /\ GoldenSteps
    /\ ChoiceSteps
    /\ RunSteps

-----------------------------------------------------------------------------
(* The invariant is inductive.  One lemma per group of actions.             *)

\* The names of the directories, and the values a count starts from.
LEMMA Directories ==
    /\ current = -1
    /\ current \in Dirs
    /\ Dirs = -1 .. MaxIndex
    /\ Saved = Dirs \ {current}
    /\ Saved \subseteq Nat
    /\ NoSystem \in System
    /\ NoSystem.index = -1
    /\ 0 \in 0 .. MAX_TRIES /\ 1 \in 0 .. MAX_TRIES
BY MaxTriesAssumption, MaxIndexAssumption DEF Dirs, current, Saved, NoSystem, System

\* Steps that leave the systems alone.
LEMMA QuietSteps ==
    ASSUME StartInv, UNCHANGED dirs,
           \/ PowerOn \/ ForgetBoots \/ MarkGoldenInstallComplete \/ CountBoot
           \/ HandleRebootExpiry \/ SupervisorFails \/ BeginUpdate
    PROVE  StartInv'
<1> USE MaxTriesAssumption, Directories
<1>1. StartType'
  <2>1. bootCount \in 0 .. MAX_TRIES
    BY Zenon DEF StartInv, StartType
  <2>2. \A n \in Nat : UpToMaxTries(n) \in 0 .. MAX_TRIES
    BY DEF UpToMaxTries
  <2>0. 0 \in 0 .. MAX_TRIES
    BY Zenon
  <2>3. CountBoot => bootCount' \in 0 .. MAX_TRIES
    <3> SUFFICES ASSUME CountBoot
                 PROVE  bootCount' \in 0 .. MAX_TRIES
      BY Zenon
    <3>1. CASE lastExitCode = "MANUAL_RESTART"
      BY Zenon, <3>1, <2>1 DEF CountBoot
    <3>2. CASE lastExitCode # "MANUAL_RESTART"
      <4>1. PICK boots \in {0, bootCount} : bootCount' = UpToMaxTries(boots + 1)
        BY Zenon, <3>2 DEF CountBoot, ReadBootCount
      <4>2. boots + 1 \in Nat
        BY <2>1
      <4> QED
        BY Zenon, <4>1, <4>2, <2>2
    <3> QED
      BY Zenon, <3>1, <3>2
  <2>4. bootCount' \in 0 .. MAX_TRIES
    BY Zenon, <2>0, <2>1, <2>3 DEF PowerOn, ForgetBoots, MarkGoldenInstallComplete,
           HandleRebootExpiry, SupervisorFails, BeginUpdate, locals
  <2> QED
    BY Zenon, <2>4 DEF StartInv, StartType, PowerOn, ForgetBoots, MarkGoldenInstallComplete,
           CountBoot, HandleRebootExpiry, SupervisorFails, BeginUpdate, GoTo, locals
<1>2. NamedByIndex' /\ GoodSystemKept' /\ TwinIsGood'
  BY Zenon DEF StartInv, NamedByIndex, GoodSystemKept, TwinIsGood, Good, Present
<1>3. GoldenSteps'
  BY Zenon DEF StartInv, GoldenSteps, Good, Present, PowerOn, ForgetBoots, MarkGoldenInstallComplete,
         CountBoot, HandleRebootExpiry, SupervisorFails, BeginUpdate, GoTo, locals, Running
<1>4. ChoiceSteps'
  BY Zenon DEF StartInv, ChoiceSteps, PowerOn, ForgetBoots, MarkGoldenInstallComplete,
         CountBoot, HandleRebootExpiry, SupervisorFails, BeginUpdate, GoTo, locals, Running
<1>5. RunSteps'
  BY Zenon DEF StartInv, GoldenSteps, RunSteps, Changing, NoneNewer, OnlyGoodSaved, Good, Present,
         GetStatus, PowerOn, ForgetBoots, MarkGoldenInstallComplete, CountBoot,
         HandleRebootExpiry, SupervisorFails, BeginUpdate, GoTo, locals, Running
<1> QED
  BY Zenon, <1>1, <1>2, <1>3, <1>4, <1>5 DEF StartInv

\* The choice: what NewestIndex says of the newest system.
LEMMA CheckStep ==
    ASSUME StartInv, CheckCurrentSystem
    PROVE  StartInv'
<1> DEFINE newest == FindNewestSystemIndex
<1> USE Directories
<1>0. /\ pc = "check"
      /\ newestIndex' = newest
      /\ currentIndex' = dirs[current].index
      /\ UNCHANGED <<dirs, installed, lastExitCode>>
  BY Zenon DEF CheckCurrentSystem
<1>1. /\ newest \in Dirs
      /\ \A d \in Dirs : GetStatus(dirs[d]) # "BAD" => dirs[d].index <= newest
      /\ newest # -1 => \E d \in Dirs : GetStatus(dirs[d]) # "BAD" /\ dirs[d].index = newest
  BY Zenon, NewestIndex DEF StartInv
<1>12. bootCount' \in {0, bootCount}
  BY Zenon DEF CheckCurrentSystem
<1>2. \/ pc' = "stopped"
      \/ pc' = "clear golden index" /\ newest < MaxIndex
      \/ /\ pc' = "move current" /\ Present(current)
         /\ newest # -1 /\ newest # dirs[current].index
      \/ /\ pc' = "set current" /\ ~Present(current)
         /\ newest # -1 /\ newest # dirs[current].index
      \/ pc' = "launch" /\ newest # -1 /\ newest = dirs[current].index
  BY Zenon DEF CheckCurrentSystem, GoTo, ShouldInstallGolden
<1> HIDE DEF newest
<1>8. dirs[current].index \in Dirs
  BY Zenon DEF StartInv, StartType, System
<1>3. StartType'
  <2>0. bootCount \in 0 .. MAX_TRIES
    BY Zenon DEF StartInv, StartType
  <2>1. bootCount' \in 0 .. MAX_TRIES
    BY Zenon, <2>0, <1>12, MaxTriesAssumption
  <2> QED
    BY Zenon, <2>1, <1>0, <1>1, <1>2, <1>8 DEF StartInv, StartType
<1>4. NamedByIndex' /\ GoodSystemKept' /\ TwinIsGood'
  BY Zenon, <1>0 DEF StartInv, NamedByIndex, GoodSystemKept, TwinIsGood, Good, Present
<1>5. NoneNewer(newest)
  BY Zenon, <1>1 DEF StartInv, NamedByIndex, NoneNewer
<1>6. GoldenSteps'
  BY Zenon, <1>0, <1>2, <1>5 DEF GoldenSteps, NoneNewer, Present, GetStatus
<1>7. newest # -1 /\ newest # dirs[current].index
        => newest \in Saved /\ Present(newest) /\ GetStatus(dirs[newest]) # "BAD"
  BY Zenon, <1>1 DEF StartInv, NamedByIndex, Present
<1>9. ChoiceSteps'
  <2>1. CASE pc' = "move current"
    <3>1. /\ newest # -1 /\ newest # dirs[current].index
          /\ dirs[current].index # -1
      BY Zenon, <2>1, <1>2 DEF Present
    <3>2. GetStatus(dirs[current]) # "BAD" => dirs[current].index <= newest
      BY Zenon, <1>1
    <3> QED
      BY Zenon, <2>1, <1>0, <1>5, <1>7, <1>8, <3>1, <3>2
      DEF ChoiceSteps, NoneNewer, Present, GetStatus
  <2>2. CASE pc' = "set current"
    BY Zenon, <2>2, <1>0, <1>2, <1>5, <1>7 DEF ChoiceSteps, NoneNewer, Present, GetStatus
  <2>3. CASE pc' \notin {"move current", "set current"}
    BY Zenon, <2>3, <1>2 DEF ChoiceSteps
  <2> QED
    BY Zenon, <2>1, <2>2, <2>3
<1>10. newest # -1 /\ newest = dirs[current].index => GetStatus(dirs[current]) # "BAD"
  <2> SUFFICES ASSUME newest # -1, newest = dirs[current].index
               PROVE  GetStatus(dirs[current]) # "BAD"
    BY Zenon
  <2>1. PICK d \in Dirs : GetStatus(dirs[d]) # "BAD" /\ dirs[d].index = newest
    BY Zenon, <1>1
  <2>2. CASE d = current
    BY Zenon, <2>1, <2>2
  <2>3. CASE d \in Saved
    <3>1. Present(d) /\ d = dirs[current].index
      BY Zenon, <2>1, <2>3 DEF StartInv, NamedByIndex, Present
    <3>2. dirs[current].status = "good"
      BY Zenon, <2>3, <3>1 DEF StartInv, TwinIsGood
    <3> QED
      BY Zenon, <3>2 DEF GetStatus
  <2> QED
    BY Zenon, <2>2, <2>3
<1>11. RunSteps'
  BY Zenon, <1>0, <1>2, <1>5, <1>10 DEF RunSteps, Changing, NoneNewer, Present, GetStatus
<1> QED
  BY Zenon, <1>3, <1>4, <1>6, <1>9, <1>11 DEF StartInv

\* Steps that change the status of the current system and nothing else.
LEMMA SetStatusFacts ==
    ASSUME StartInv, NEW st \in {"good", "bad", "tried"}, NEW n \in 0 .. MAX_TRIES
    PROVE  /\ SetStatus(st, n) \in [Dirs -> System]
           /\ \A d \in Saved : SetStatus(st, n)[d] = dirs[d]
           /\ SetStatus(st, n)[current].index = dirs[current].index
           /\ SetStatus(st, n)[current].status = st
           /\ SetStatus(st, n)[current].tries = n
<1>1. dirs[current] \in System /\ dirs \in [Dirs -> System] /\ current \notin Saved
  BY Zenon, Directories DEF StartInv, StartType
<1>2. SetStatus(st, n) =
        [dirs EXCEPT ![current] = [dirs[current] EXCEPT !.status = st, !.tries = n]]
  BY Zenon, <1>1 DEF SetStatus, System
<1>3. [dirs[current] EXCEPT !.status = st, !.tries = n] \in System
  BY Zenon, <1>1 DEF System
<1> QED
  BY <1>1, <1>2, <1>3, Directories DEF System

\* A new status of the current system keeps the invariant, where the step may
\* set it.
LEMMA StatusSteps ==
    ASSUME StartInv,
           NEW st \in {"good", "bad", "tried"},
           dirs' \in [Dirs -> System],
           \A d \in Saved : dirs'[d] = dirs[d],
           dirs'[current].index = dirs[current].index,
           dirs'[current].status = st,
           UNCHANGED locals,
           bootCount' \in {0, bootCount}, UNCHANGED installed,
           lastExitCode' \in {"FAILURE", "RESTART", "MANUAL_RESTART"},
           \/ /\ pc = "launch" /\ pc' = "count boot"
              /\ st = dirs[current].status
           \/ /\ pc \in {"running", "prepared", "restarting"} /\ pc' \in {"check", "stopped"}
              /\ st = dirs[current].status
           \/ /\ pc \in {"running", "prepared"} /\ pc' = "remove unneeded"
              /\ st = "good"
           \/ /\ pc \in {"running", "prepared"} /\ pc' = pc
              /\ dirs[current].status = "tried" /\ st = "bad"
           \/ /\ pc = "running" /\ pc' = "finishing"
              /\ dirs[current].status = "tried" /\ st = "bad"
           \/ /\ pc = "finishing" /\ pc' = "running" /\ st = "tried"
           \/ /\ pc = "modify" /\ pc' = "mark bad"
           \/ /\ pc = "mark bad" /\ pc' = "change" /\ st = "bad"
           \/ /\ pc = "change" /\ pc' = "prepared" /\ st # "good"
    PROVE  StartInv'
<1> USE Directories
<1>1. StartType'
  <2>1. bootCount \in 0 .. MAX_TRIES
    BY Zenon DEF StartInv, StartType
  <2>2. bootCount' \in 0 .. MAX_TRIES
    BY <2>1, Zenon
  <2> QED
    BY Zenon, <2>2 DEF StartInv, StartType, locals
<1>2. \A d \in Dirs : Present(d)' <=> Present(d)
  BY Zenon DEF Present
<1>3. NamedByIndex'
  BY Zenon, <1>2 DEF StartInv, NamedByIndex
<1>4. \/ st = dirs[current].status
      \/ st = "good" /\ Present(current)
      \/ dirs[current].status = "tried"
      \/ pc \in {"modify", "mark bad"}
      \/ pc \in {"change", "finishing"} /\ dirs[current].status = "bad"
  BY Zenon DEF StartInv, RunSteps
<1>5. GoodSystemKept'
  <2> SUFFICES ASSUME \E d \in Dirs : Present(d)
               PROVE  \E d \in Dirs : Good(d)'
    BY Zenon, <1>2 DEF GoodSystemKept
  <2>1. \A d \in Saved : Good(d) => Good(d)'
    BY Zenon, <1>2 DEF Good
  <2>2. CASE \E d \in Saved : Good(d)
    BY Zenon, <2>1, <2>2
  <2>3. CASE ~\E d \in Saved : Good(d)
    <3>1. Good(current)
      BY Zenon, <2>3 DEF StartInv, GoodSystemKept
    <3>2. pc \notin {"modify", "mark bad"} /\ dirs[current].status = "good"
      BY Zenon, <2>3, <3>1 DEF StartInv, RunSteps, Good
    <3>3. st = "good"
      BY Zenon, <3>2, <1>4
    <3> QED
      BY Zenon, <3>1, <3>3, <1>2 DEF Good
  <2> QED
    BY Zenon, <2>2, <2>3
<1>6. TwinIsGood'
  <2> SUFFICES ASSUME NEW d \in Saved, Present(d), d = dirs[current].index
               PROVE  st = "good"
    BY Zenon, <1>2 DEF TwinIsGood
  <2>1. dirs[current].status = "good"
    BY Zenon DEF StartInv, TwinIsGood
  <2>2. pc \notin {"modify", "mark bad"}
    BY Zenon DEF StartInv, RunSteps
  <2> QED
    BY Zenon, <2>1, <2>2, <1>4
<1>7. GoldenSteps' /\ ChoiceSteps'
  BY Zenon DEF GoldenSteps, ChoiceSteps
<1>8. NoneNewer(dirs[current].index) => NoneNewer(dirs[current].index)'
  BY Zenon, <1>2 DEF NoneNewer, GetStatus
<1>9. OnlyGoodSaved => OnlyGoodSaved'
  BY Zenon, <1>2 DEF OnlyGoodSaved
<1>10. (\E d \in Saved : Good(d)) => \E d \in Saved : Good(d)'
  BY Zenon, <1>2 DEF Good
<1>11. RunSteps'
  BY Zenon, <1>2, <1>8, <1>9, <1>10 DEF StartInv, RunSteps, Changing
<1> QED
  BY Zenon, <1>1, <1>3, <1>5, <1>6, <1>7, <1>11 DEF StartInv

\* The steps that write the status file.
LEMMA StatusActions ==
    ASSUME StartInv,
           \/ Launch \/ StopSupervisor \/ MarkGood \/ FailProbation
           \/ FinishUpdates \/ FinishedUpdates
           \/ system_MarkModified \/ MarkBad \/ Change
    PROVE  StartInv'
<1> USE Directories
<1>0. /\ dirs \in [Dirs -> System]
      /\ dirs[current].status \in {"good", "bad", "tried"}
      /\ dirs[current].tries \in 0 .. MAX_TRIES
      /\ lastExitCode \in {"FAILURE", "RESTART", "MANUAL_RESTART"}
  BY Zenon DEF StartInv, StartType, System
<1>1. CASE Launch
  <2>1. CASE dirs' = dirs
    BY Zenon, <1>0, <1>1, <2>1, StatusSteps DEF Launch, GoTo
  <2>2. CASE dirs' # dirs
    <3>1. /\ GetStatus(dirs[current]) = "TRYABLE"
          /\ dirs' = SetStatus("tried", dirs[current].tries + 1)
      BY Zenon, <1>1, <2>2 DEF Launch
    <3>2. dirs[current].status = "tried" /\ dirs[current].tries + 1 \in 0 .. MAX_TRIES
      BY <1>0, <3>1, MaxTriesAssumption DEF GetStatus
    <3>3. /\ dirs' \in [Dirs -> System]
          /\ \A d \in Saved : dirs'[d] = dirs[d]
          /\ dirs'[current].index = dirs[current].index
          /\ dirs'[current].status = "tried"
      BY <3>1, <3>2, SetStatusFacts
    <3> QED
      BY Zenon, <1>0, <1>1, <3>2, <3>3, StatusSteps DEF Launch, GoTo
  <2> QED
    BY Zenon, <2>1, <2>2
<1>2. CASE StopSupervisor
  <2>1. /\ UNCHANGED locals /\ UNCHANGED installed
        /\ bootCount' \in {0, bootCount}
        /\ lastExitCode' \in {"FAILURE", "RESTART", "MANUAL_RESTART"}
        /\ pc \in {"running", "prepared", "restarting"} /\ pc' \in {"check", "stopped"}
    BY Zenon, <1>0, <1>2 DEF StopSupervisor, GoTo, Running
  <2>2. CASE dirs' = dirs
    BY Zenon, <1>0, <2>1, <2>2, StatusSteps
  <2>3. CASE dirs' # dirs
    <3> DEFINE n == IF dirs[current].tries <= 1 THEN 0 ELSE dirs[current].tries - 1
    <3>1. n \in 0 .. MAX_TRIES
      BY <1>0, MaxTriesAssumption
    <3>2. dirs' = SetStatus("tried", n) /\ dirs[current].status = "tried"
      BY Zenon, <1>2, <2>3 DEF StopSupervisor, sysStatus_DecrementTryCount, Probation
    <3> HIDE DEF n
    <3>3. /\ dirs' \in [Dirs -> System]
          /\ \A d \in Saved : dirs'[d] = dirs[d]
          /\ dirs'[current].index = dirs[current].index
          /\ dirs'[current].status = "tried"
      BY <3>1, <3>2, SetStatusFacts
    <3> QED
      BY Zenon, <2>1, <3>2, <3>3, StatusSteps
  <2> QED
    BY Zenon, <2>2, <2>3
<1>3. CASE MarkGood
  <2>1. /\ dirs' \in [Dirs -> System]
        /\ \A d \in Saved : dirs'[d] = dirs[d]
        /\ dirs'[current].index = dirs[current].index
        /\ dirs'[current].status = "good"
    <3>1. dirs' = SetStatus("good", 0)
      BY Zenon, <1>3 DEF MarkGood
    <3> QED
      BY <3>1, SetStatusFacts
  <2> QED
    BY Zenon, <1>0, <1>3, <2>1, StatusSteps DEF MarkGood, GoTo, Running
<1>4. CASE FailProbation
  <2>1. /\ dirs' \in [Dirs -> System]
        /\ \A d \in Saved : dirs'[d] = dirs[d]
        /\ dirs'[current].index = dirs[current].index
        /\ dirs'[current].status = "bad"
    <3>1. dirs' = SetStatus("bad", 0)
      BY Zenon, <1>4 DEF FailProbation
    <3> QED
      BY <3>1, SetStatusFacts
  <2> QED
    BY Zenon, <1>0, <1>4, <2>1, StatusSteps DEF FailProbation, Probation, Running
<1>5. CASE system_MarkModified
  <2>1. CASE dirs' = dirs
    BY Zenon, <1>0, <1>5, <2>1, StatusSteps DEF system_MarkModified, GoTo
  <2>2. CASE dirs' = [SetStatus("tried", 0) EXCEPT ![current].golden = "no"]
    <3> DEFINE f == SetStatus("tried", 0)
    <3>1. /\ f \in [Dirs -> System]
          /\ \A d \in Saved : f[d] = dirs[d]
          /\ f[current].index = dirs[current].index
          /\ f[current].status = "tried"
      BY <1>0, SetStatusFacts
    <3> HIDE DEF f
    <3>2. /\ dirs' \in [Dirs -> System]
          /\ \A d \in Saved : dirs'[d] = dirs[d]
          /\ dirs'[current].index = dirs[current].index
          /\ dirs'[current].status = "tried"
      <4>1. dirs' = [f EXCEPT ![current] = [f[current] EXCEPT !.golden = "no"]]
        BY Zenon, <2>2 DEF f
      <4>2. [f[current] EXCEPT !.golden = "no"] \in System
        BY Zenon, <3>1 DEF System
      <4> QED
        BY Zenon, <3>1, <4>1, <4>2 DEF System
    <3> QED
      BY Zenon, <1>0, <1>5, <3>2, StatusSteps DEF system_MarkModified, GoTo
  <2> QED
    BY Zenon, <1>5, <2>1, <2>2 DEF system_MarkModified
<1>6. CASE MarkBad
  <2>1. /\ dirs' \in [Dirs -> System]
        /\ \A d \in Saved : dirs'[d] = dirs[d]
        /\ dirs'[current].index = dirs[current].index
        /\ dirs'[current].status = "bad"
    <3>1. dirs' = SetStatus("bad", 0)
      BY Zenon, <1>6 DEF MarkBad
    <3> QED
      BY <3>1, SetStatusFacts
  <2> QED
    BY Zenon, <1>0, <1>6, <2>1, StatusSteps DEF MarkBad, GoTo
<1>7. CASE Change
  <2>1. dirs[current].status = "bad"
    BY Zenon, <1>7 DEF Change, StartInv, RunSteps
  <2>2. CASE dirs' = dirs
    BY Zenon, <1>0, <1>7, <2>1, <2>2, StatusSteps DEF Change, GoTo
  <2>3. CASE dirs' = SetStatus("tried", 1)
    BY <1>0, <1>7, <2>3, SetStatusFacts, StatusSteps DEF Change, GoTo
  <2> QED
    BY Zenon, <1>7, <2>2, <2>3 DEF Change
<1>8. CASE FinishUpdates
  <2>1. dirs' = SetStatus("bad", 0) /\ dirs[current].status = "tried"
    BY Zenon, <1>8 DEF FinishUpdates, Probation
  <2>2. /\ dirs' \in [Dirs -> System]
        /\ \A d \in Saved : dirs'[d] = dirs[d]
        /\ dirs'[current].index = dirs[current].index
        /\ dirs'[current].status = "bad"
    BY <2>1, SetStatusFacts
  <2> QED
    BY Zenon, <1>0, <1>8, <2>1, <2>2, StatusSteps DEF FinishUpdates, GoTo
<1>9. CASE FinishedUpdates
  BY <1>0, <1>9, SetStatusFacts, StatusSteps DEF FinishedUpdates, GoTo
<1> QED
  BY Zenon, <1>1, <1>2, <1>3, <1>4, <1>5, <1>6, <1>7, <1>8, <1>9

\* A saved system is deleted, or part of it.  It is not the only good one.
LEMMA DeletionFacts ==
    ASSUME StartInv, NEW d \in Saved, NEW r \in System,
           dirs' = [dirs EXCEPT ![d] = r],
           r.index \in {-1, dirs[d].index},
           ~Good(d) \/ \E e \in Dirs \ {d} : Good(e)
    PROVE  /\ dirs' \in [Dirs -> System]
           /\ dirs'[current] = dirs[current]
           /\ dirs'[d] = r
           /\ \A e \in Dirs \ {d} : dirs'[e] = dirs[e]
           /\ \A e \in Dirs : Present(e)' => Present(e)
           /\ NamedByIndex' /\ GoodSystemKept' /\ TwinIsGood'
<1> USE Directories
<1>1. dirs \in [Dirs -> System]
  BY Zenon DEF StartInv, StartType
<1>2. /\ dirs' \in [Dirs -> System]
      /\ dirs'[current] = dirs[current]
      /\ dirs'[d] = r
      /\ \A e \in Dirs \ {d} : dirs'[e] = dirs[e]
  BY Zenon, <1>1
<1>3. \A e \in Dirs : Present(e)' => Present(e)
  BY Zenon, <1>2 DEF Present
<1>4. NamedByIndex'
  BY <1>2, <1>3 DEF StartInv, NamedByIndex, Present
<1>5. GoodSystemKept'
  <2> SUFFICES ASSUME \E e \in Dirs : Present(e)'
               PROVE  \E e \in Dirs : Good(e)'
    BY Zenon DEF GoodSystemKept
  <2>1. PICK e \in Dirs : Good(e)
    BY Zenon, <1>3 DEF StartInv, GoodSystemKept
  <2>2. PICK g \in Dirs \ {d} : Good(g)
    BY Zenon, <2>1
  <2> QED
    BY Zenon, <2>2, <1>2 DEF Good, Present
<1>6. TwinIsGood'
  BY Zenon, <1>2, <1>3 DEF StartInv, TwinIsGood
<1> QED
  BY Zenon, <1>2, <1>3, <1>4, <1>5, <1>6

\* The types, for the steps that change a directory.
LEMMA TypeStep ==
    ASSUME StartInv, dirs' \in [Dirs -> System],
           UNCHANGED <<bootCount, installed, lastExitCode, newestIndex, currentIndex>>,
           pc' \in {"off", "clear golden index", "park current", "install golden",
                    "delete others", "forget boots", "move current", "delete parked",
                    "set current", "launch", "prepared", "restarting", "remove unneeded",
                    "reindex", "modify"}
    PROVE  StartType'
BY Zenon DEF StartInv, StartType

\* The index after i.
LEMMA NextIndex ==
    ASSUME NEW i \in Dirs
    PROVE  /\ i < MaxIndex => i + 1 \in Saved
           /\ ~(i + 1 <= i) /\ i + 1 # i /\ i + 1 # -1
           /\ i > -1 => i # -1
BY MaxIndexAssumption DEF Dirs, current, Saved

\* The steps that delete a saved system.
LEMMA DeletingSteps ==
    ASSUME StartInv,
           \/ ClearGoldenIndex \/ DeleteAllButCurrent \/ DeleteParked \/ system_RemoveUnneeded
    PROVE  StartInv'
<1> USE Directories
<1>0. UNCHANGED <<bootCount, installed, lastExitCode, newestIndex, currentIndex>>
  BY Zenon DEF ClearGoldenIndex, DeleteAllButCurrent, DeleteParked, system_RemoveUnneeded, locals
<1>1. CASE ClearGoldenIndex
  <2> DEFINE d == newestIndex + 1
  <2>1. /\ pc = "clear golden index" /\ newestIndex \in Dirs /\ newestIndex < MaxIndex
        /\ NoneNewer(newestIndex) /\ currentIndex = dirs[current].index
    BY Zenon, <1>1 DEF ClearGoldenIndex, StartInv, GoldenSteps, StartType
  <2>2. d \in Saved
    BY Zenon, <2>1, NextIndex
  <2>3. ~Good(d)
    <3>1. ~(d <= newestIndex)
      BY Zenon, <2>1, NextIndex
    <3>2. Good(d) => GetStatus(dirs[d]) # "BAD"
      BY Zenon DEF Good, GetStatus
    <3> QED
      BY Zenon, <2>1, <2>2, <3>1, <3>2 DEF NoneNewer, Good
  <2>4. dirs' = [dirs EXCEPT ![d] = NoSystem]
    BY Zenon, <1>1 DEF ClearGoldenIndex, RecursiveDelete
  <2> HIDE DEF d
  <2>5. /\ dirs' \in [Dirs -> System] /\ dirs'[current] = dirs[current]
        /\ NamedByIndex' /\ GoodSystemKept' /\ TwinIsGood'
    BY Zenon, <2>2, <2>3, <2>4, DeletionFacts
  <2>6. /\ pc' \in {"park current", "install golden"}
        /\ pc' = "park current" => currentIndex # -1
    BY Zenon, <1>1, NextIndex DEF ClearGoldenIndex, GoTo, StartInv, StartType
  <2>7. StartType'
    BY Zenon, <1>0, <2>5, <2>6, TypeStep
  <2>8. GoldenSteps'
    BY Zenon, <1>0, <2>1, <2>5, <2>6 DEF GoldenSteps
  <2>9. ChoiceSteps' /\ RunSteps'
    BY Zenon, <2>6 DEF ChoiceSteps, RunSteps, Changing
  <2> QED
    BY Zenon, <2>5, <2>7, <2>8, <2>9 DEF StartInv
<1>2. CASE DeleteAllButCurrent
  <2>1. pc = "delete others" /\ Good(current)
    BY Zenon, <1>2 DEF DeleteAllButCurrent, StartInv, GoldenSteps
  <2>2. CASE UNCHANGED dirs /\ \A d \in Saved : ~Present(d)
    <3>1. pc' \in {"forget boots", "delete others"}
      BY Zenon, <1>2, <2>1 DEF DeleteAllButCurrent, GoTo
    <3>2. StartType'
      BY Zenon, <1>0, <2>2, <3>1, TypeStep DEF StartInv, StartType
    <3>3. NamedByIndex' /\ GoodSystemKept' /\ TwinIsGood'
      BY Zenon, <2>2 DEF StartInv, NamedByIndex, GoodSystemKept, TwinIsGood, Good, Present
    <3>4. GoldenSteps'
      BY Zenon, <2>1, <2>2, <3>1 DEF GoldenSteps, Good, Present
    <3>5. ChoiceSteps' /\ RunSteps'
      BY Zenon, <3>1 DEF ChoiceSteps, RunSteps, Changing
    <3> QED
      BY Zenon, <3>2, <3>3, <3>4, <3>5 DEF StartInv
  <2>3. CASE \E d \in Saved : dirs' = RecursiveDelete(d) /\ UNCHANGED pc
    <3>1. PICK d \in Saved : dirs' = [dirs EXCEPT ![d] = NoSystem] /\ UNCHANGED pc
      BY Zenon, <2>3 DEF RecursiveDelete
    <3>2. \E e \in Dirs \ {d} : Good(e)
      BY Zenon, <2>1
    <3>3. /\ dirs' \in [Dirs -> System] /\ dirs'[current] = dirs[current]
          /\ NamedByIndex' /\ GoodSystemKept' /\ TwinIsGood'
      BY Zenon, <3>1, <3>2, DeletionFacts
    <3>4. StartType'
      BY Zenon, <1>0, <2>1, <3>1, <3>3, TypeStep
    <3>5. GoldenSteps'
      BY Zenon, <2>1, <3>1, <3>3 DEF GoldenSteps, Good, Present
    <3>6. ChoiceSteps' /\ RunSteps'
      BY Zenon, <2>1, <3>1 DEF ChoiceSteps, RunSteps, Changing
    <3> QED
      BY Zenon, <3>3, <3>4, <3>5, <3>6 DEF StartInv
  <2> QED
    BY Zenon, <1>2, <2>2, <2>3 DEF DeleteAllButCurrent
<1>3. CASE DeleteParked
  <2>1. /\ pc = "delete parked" /\ currentIndex \in Saved \ {newestIndex}
        /\ dirs[currentIndex].status # "good"
        /\ newestIndex \in Saved /\ Present(newestIndex)
        /\ GetStatus(dirs[newestIndex]) # "BAD" /\ NoneNewer(newestIndex)
        /\ ~Present(current)
    BY Zenon, <1>3 DEF DeleteParked, StartInv, ChoiceSteps
  <2>2. dirs' = [dirs EXCEPT ![currentIndex] = NoSystem] /\ pc' = "set current"
    BY Zenon, <1>3 DEF DeleteParked, RecursiveDelete, GoTo
  <2>3. ~Good(currentIndex)
    BY Zenon, <2>1 DEF Good
  <2>4. /\ dirs' \in [Dirs -> System] /\ dirs'[current] = dirs[current]
        /\ \A e \in Dirs \ {currentIndex} : dirs'[e] = dirs[e]
        /\ \A e \in Dirs : Present(e)' => Present(e)
        /\ NamedByIndex' /\ GoodSystemKept' /\ TwinIsGood'
    BY Zenon, <2>1, <2>2, <2>3, DeletionFacts
  <2>5. StartType'
    BY Zenon, <1>0, <2>2, <2>4, TypeStep
  <2>6. dirs'[currentIndex].index = -1
    BY Zenon, <2>1, <2>2 DEF StartInv, StartType
  <2>7. ChoiceSteps'
    <3>1. NoneNewer(newestIndex)'
      BY Zenon, <1>0, <2>1, <2>4, <2>6 DEF NoneNewer, Present, GetStatus
    <3> QED
      BY Zenon, <1>0, <2>1, <2>2, <2>4, <3>1 DEF ChoiceSteps, Present, GetStatus
  <2>8. GoldenSteps' /\ RunSteps'
    BY Zenon, <2>2 DEF GoldenSteps, RunSteps, Changing
  <2> QED
    BY Zenon, <2>4, <2>5, <2>7, <2>8 DEF StartInv
<1>4. CASE system_RemoveUnneeded
  <2>1. /\ pc = "remove unneeded" /\ Present(current) /\ NoneNewer(dirs[current].index)
    BY Zenon, <1>4 DEF system_RemoveUnneeded, StartInv, RunSteps
  <2>2. CASE UNCHANGED dirs /\ Unneeded = {} /\ pc' = "prepared"
    <3>1. StartType'
      BY Zenon, <1>0, <2>2, TypeStep DEF StartInv, StartType
    <3>2. NamedByIndex' /\ GoodSystemKept' /\ TwinIsGood'
      BY Zenon, <2>2 DEF StartInv, NamedByIndex, GoodSystemKept, TwinIsGood, Good, Present
    <3>3. \A d \in Saved : Present(d) => dirs[current].status # "good" /\ dirs[d].status = "good"
      BY Zenon, <2>2 DEF Unneeded
    <3>4. OnlyGoodSaved
      BY Zenon, <2>1, <3>3 DEF OnlyGoodSaved, NoneNewer, GetStatus
    <3>5. RunSteps'
      BY Zenon, <2>1, <2>2, <3>3, <3>4 DEF RunSteps, Changing, NoneNewer, OnlyGoodSaved, Present, GetStatus
    <3>6. GoldenSteps' /\ ChoiceSteps'
      BY Zenon, <2>2 DEF GoldenSteps, ChoiceSteps
    <3> QED
      BY Zenon, <3>1, <3>2, <3>5, <3>6 DEF StartInv
  <2>3. CASE \E d \in Unneeded : dirs' = RecursiveDelete(d) /\ UNCHANGED pc
    <3>1. PICK d \in Unneeded : dirs' = [dirs EXCEPT ![d] = NoSystem] /\ UNCHANGED pc
      BY Zenon, <2>3 DEF RecursiveDelete
    <3>2. d \in Saved /\ (dirs[current].status = "good" \/ dirs[d].status # "good")
      BY Zenon, <3>1 DEF Unneeded
    <3>3. ~Good(d) \/ \E e \in Dirs \ {d} : Good(e)
      BY Zenon, <2>1, <3>2 DEF Good
    <3>4. /\ dirs' \in [Dirs -> System] /\ dirs'[current] = dirs[current]
          /\ dirs'[d] = NoSystem
          /\ \A e \in Dirs \ {d} : dirs'[e] = dirs[e]
          /\ NamedByIndex' /\ GoodSystemKept' /\ TwinIsGood'
      BY Zenon, <3>1, <3>2, <3>3, DeletionFacts
    <3>5. StartType'
      BY Zenon, <1>0, <2>1, <3>1, <3>4, TypeStep
    <3>6. NoneNewer(dirs[current].index)'
      BY Zenon, <2>1, <3>2, <3>4 DEF NoneNewer, Present, GetStatus
    <3>7. RunSteps'
      BY Zenon, <2>1, <3>1, <3>4, <3>6 DEF RunSteps, Changing, Present
    <3>8. GoldenSteps' /\ ChoiceSteps'
      BY Zenon, <2>1, <3>1 DEF GoldenSteps, ChoiceSteps
    <3> QED
      BY Zenon, <3>4, <3>5, <3>7, <3>8 DEF StartInv
  <2> QED
    BY Zenon, <1>4, <2>2, <2>3 DEF system_RemoveUnneeded, GoTo
<1> QED
  BY Zenon, <1>1, <1>2, <1>3, <1>4

\* The current system is moved to the name of its index.
LEMMA MoveFacts ==
    ASSUME StartInv, currentIndex \in Saved, currentIndex = dirs[current].index,
           dirs' = Rename(current, currentIndex)
    PROVE  /\ dirs' \in [Dirs -> System]
           /\ dirs'[currentIndex] = dirs[current]
           /\ \A e \in Saved \ {currentIndex} : dirs'[e] = dirs[e]
           /\ ~Present(current)'
           /\ NamedByIndex' /\ GoodSystemKept' /\ TwinIsGood'
<1> USE Directories
<1>1. dirs \in [Dirs -> System]
  BY Zenon DEF StartInv, StartType
<1>2. /\ dirs' \in [Dirs -> System]
      /\ dirs'[currentIndex] = dirs[current]
      /\ dirs'[current] = NoSystem
      /\ \A e \in Saved \ {currentIndex} : dirs'[e] = dirs[e]
  BY Zenon, <1>1 DEF Rename
<1>3. NamedByIndex'
  BY <1>2 DEF StartInv, NamedByIndex, Present
<1>4. TwinIsGood'
  BY Zenon, <1>2 DEF TwinIsGood
<1>5. GoodSystemKept'
  <2>1. PICK e \in Dirs : Good(e)
    BY Zenon DEF StartInv, GoodSystemKept, Present
  <2>2. CASE e = current
    BY <1>2, <2>1, <2>2 DEF Good, Present, GoodSystemKept
  <2>3. CASE e = currentIndex
    <3>1. dirs[current].status = "good"
      BY Zenon, <2>1, <2>3 DEF Good, StartInv, TwinIsGood
    <3> QED
      BY <1>2, <3>1 DEF Good, Present, GoodSystemKept
  <2>4. CASE e \in Saved \ {currentIndex}
    BY <1>2, <2>1, <2>4 DEF Good, Present, GoodSystemKept
  <2> QED
    BY Zenon, <2>2, <2>3, <2>4
<1> QED
  BY Zenon, <1>2, <1>3, <1>4, <1>5 DEF Present

\* The steps that move the current system out of the way.
LEMMA MovingSteps ==
    ASSUME StartInv, ParkCurrent \/ MoveCurrent
    PROVE  StartInv'
<1> USE Directories
<1>0. UNCHANGED <<bootCount, installed, lastExitCode, newestIndex, currentIndex>>
  BY Zenon DEF ParkCurrent, MoveCurrent, locals
<1>1. CASE ParkCurrent
  <2>1. /\ pc = "park current" /\ currentIndex = dirs[current].index /\ currentIndex \in Saved
        /\ newestIndex < MaxIndex
    BY Zenon, <1>1 DEF ParkCurrent, StartInv, GoldenSteps, StartType
  <2>2. dirs' = Rename(current, currentIndex) /\ pc' = "install golden"
    BY Zenon, <1>1 DEF ParkCurrent, GoTo
  <2>3. dirs' \in [Dirs -> System] /\ NamedByIndex' /\ GoodSystemKept' /\ TwinIsGood'
    BY Zenon, <2>1, <2>2, MoveFacts
  <2>4. StartType'
    BY Zenon, <1>0, <2>2, <2>3, TypeStep
  <2>5. GoldenSteps' /\ ChoiceSteps' /\ RunSteps'
    BY Zenon, <1>0, <2>1, <2>2 DEF GoldenSteps, ChoiceSteps, RunSteps, Changing
  <2> QED
    BY Zenon, <2>3, <2>4, <2>5 DEF StartInv
<1>2. CASE MoveCurrent
  <2>1. /\ pc = "move current" /\ currentIndex = dirs[current].index
        /\ currentIndex \in Saved \ {newestIndex} /\ newestIndex \in Saved
        /\ Present(newestIndex) /\ GetStatus(dirs[newestIndex]) # "BAD"
        /\ NoneNewer(newestIndex)
        /\ GetStatus(dirs[current]) # "BAD" => currentIndex <= newestIndex
    BY Zenon, <1>2 DEF MoveCurrent, StartInv, ChoiceSteps
  <2>2. /\ dirs' = Rename(current, currentIndex)
        /\ pc' = IF GetStatus(dirs[current]) = "GOOD" THEN "set current" ELSE "delete parked"
    BY Zenon, <1>2 DEF MoveCurrent, GoTo
  <2>3. /\ dirs' \in [Dirs -> System]
        /\ dirs'[currentIndex] = dirs[current]
        /\ \A e \in Saved \ {currentIndex} : dirs'[e] = dirs[e]
        /\ ~Present(current)'
        /\ NamedByIndex' /\ GoodSystemKept' /\ TwinIsGood'
    BY Zenon, <2>1, <2>2, MoveFacts
  <2>4. pc' \in {"set current", "delete parked"}
        /\ (pc' = "delete parked" => dirs[current].status # "good")
    BY Zenon, <2>2 DEF GetStatus
  <2>5. StartType'
    BY Zenon, <1>0, <2>3, <2>4, TypeStep
  <2>6. NoneNewer(newestIndex)'
    <3>1. ASSUME NEW d \in Saved, dirs'[d].index # -1, GetStatus(dirs'[d]) # "BAD"
          PROVE  d <= newestIndex
      <4>1. CASE d = currentIndex
        BY Zenon, <2>1, <2>3, <3>1, <4>1
      <4>2. CASE d # currentIndex
        BY Zenon, <2>1, <2>3, <3>1, <4>2 DEF NoneNewer, Present
      <4> QED
        BY Zenon, <4>1, <4>2
    <3> QED
      BY Zenon, <1>0, <3>1 DEF NoneNewer, Present, GetStatus
  <2>7. ChoiceSteps'
    BY Zenon, <1>0, <2>1, <2>3, <2>4, <2>6 DEF ChoiceSteps, Present, GetStatus
  <2>8. GoldenSteps' /\ RunSteps'
    BY Zenon, <2>4 DEF GoldenSteps, RunSteps, Changing
  <2> QED
    BY Zenon, <2>3, <2>5, <2>7, <2>8 DEF StartInv
<1> QED
  BY Zenon, <1>1, <1>2

\* The golden system becomes the current one.
LEMMA InstallStep ==
    ASSUME StartInv, InstallGolden
    PROVE  StartInv'
<1> USE Directories
<1>1. /\ pc = "install golden" /\ newestIndex \in Dirs /\ newestIndex < MaxIndex
      /\ dirs \in [Dirs -> System]
  BY Zenon DEF InstallGolden, StartInv, GoldenSteps, StartType
<1>2. /\ newestIndex + 1 \in Saved /\ newestIndex + 1 # -1
      /\ Golden(newestIndex + 1) \in System
  BY Zenon, <1>1, NextIndex DEF System, Golden
<1>3. /\ dirs' = [dirs EXCEPT ![current] = Golden(newestIndex + 1)]
      /\ pc' = "delete others"
      /\ UNCHANGED <<bootCount, installed, lastExitCode, newestIndex, currentIndex>>
  BY Zenon DEF InstallGolden, GoTo, locals
<1>4. /\ dirs' \in [Dirs -> System] /\ dirs'[current] = Golden(newestIndex + 1)
      /\ \A e \in Saved : dirs'[e] = dirs[e]
  BY Zenon, <1>1, <1>2, <1>3
<1>5. Good(current)' /\ dirs'[current].status = "good"
  <2>1. dirs'[current].status = "good" /\ dirs'[current].index = newestIndex + 1
    BY <1>4 DEF Golden
  <2> QED
    BY Zenon, <1>2, <2>1 DEF Good, Present
<1>6. NamedByIndex' /\ GoodSystemKept' /\ TwinIsGood'
  <2>1. NamedByIndex'
    BY <1>4 DEF StartInv, NamedByIndex, Present
  <2>2. GoodSystemKept'
    BY Zenon, <1>5 DEF GoodSystemKept
  <2>3. TwinIsGood'
    BY Zenon, <1>5 DEF TwinIsGood
  <2> QED
    BY Zenon, <2>1, <2>2, <2>3
<1>7. StartType'
  BY Zenon, <1>3, <1>4, TypeStep
<1>8. GoldenSteps' /\ ChoiceSteps' /\ RunSteps'
  BY Zenon, <1>3, <1>5 DEF GoldenSteps, ChoiceSteps, RunSteps, Changing
<1> QED
  BY Zenon, <1>6, <1>7, <1>8 DEF StartInv

\* The chosen system becomes the current one.
LEMMA SetCurrentStep ==
    ASSUME StartInv, SetCurrent
    PROVE  StartInv'
<1> USE Directories
<1>1. /\ newestIndex \in Saved /\ Present(newestIndex) /\ NoneNewer(newestIndex)
      /\ GetStatus(dirs[newestIndex]) # "BAD" /\ ~Present(current)
      /\ dirs \in [Dirs -> System]
  BY Zenon DEF SetCurrent, StartInv, ChoiceSteps, StartType
<1>2. dirs[newestIndex].index = newestIndex
  BY Zenon, <1>1 DEF StartInv, NamedByIndex
<1>3. /\ dirs' = [dirs EXCEPT ![newestIndex] = NoSystem, ![current] = dirs[newestIndex]]
      /\ pc' = "launch"
      /\ UNCHANGED <<bootCount, installed, lastExitCode, newestIndex, currentIndex>>
  BY Zenon DEF SetCurrent, GoTo, locals, Rename
<1>4. /\ dirs' \in [Dirs -> System] /\ dirs'[current] = dirs[newestIndex]
      /\ dirs'[newestIndex] = NoSystem
      /\ \A e \in Saved \ {newestIndex} : dirs'[e] = dirs[e]
  BY Zenon, <1>1, <1>3
<1>5. NamedByIndex'
  BY Zenon, <1>4 DEF StartInv, NamedByIndex, Present
<1>6. TwinIsGood'
  BY Zenon, <1>2, <1>4 DEF TwinIsGood, Present
<1>7. GoodSystemKept'
  <2>1. PICK e \in Dirs : Good(e)
    BY Zenon, <1>1 DEF StartInv, GoodSystemKept
  <2>2. e \in Saved
    BY Zenon, <1>1, <2>1 DEF Good
  <2>3. CASE e = newestIndex
    BY Zenon, <1>4, <2>1, <2>3 DEF Good, Present, GoodSystemKept
  <2>4. CASE e # newestIndex
    BY Zenon, <1>4, <2>1, <2>2, <2>4 DEF Good, Present, GoodSystemKept
  <2> QED
    BY Zenon, <2>3, <2>4
<1>8. StartType'
  BY Zenon, <1>3, <1>4, TypeStep
<1>9. NoneNewer(dirs[current].index)'
  BY <1>1, <1>2, <1>4 DEF NoneNewer, Present, GetStatus
<1>10. RunSteps'
  BY Zenon, <1>1, <1>3, <1>4, <1>9 DEF RunSteps, Changing, Present, GetStatus
<1>11. GoldenSteps' /\ ChoiceSteps'
  BY Zenon, <1>3 DEF GoldenSteps, ChoiceSteps
<1> QED
  BY Zenon, <1>5, <1>6, <1>7, <1>8, <1>10, <1>11 DEF StartInv

\* A new system is put beside the current one.
LEMMA FinishStep ==
    ASSUME StartInv, system_FinishUpdate
    PROVE  StartInv'
<1> USE Directories
<1> DEFINE c == dirs[current].index
           new == [index |-> c + 1, status |-> "tried", tries |-> 0,
                   golden |-> "no"]
<1>1. /\ pc = "prepared" /\ Present(current) /\ OnlyGoodSaved /\ dirs \in [Dirs -> System]
      /\ c \in Dirs /\ c + 2 <= MaxIndex
  BY Zenon DEF system_FinishUpdate, StartInv, StartType, RunSteps, Room, System
<1>2. /\ dirs' = [dirs EXCEPT ![c + 1] = new] /\ pc' = "restarting"
      /\ UNCHANGED <<bootCount, installed, lastExitCode, newestIndex, currentIndex>>
  BY Zenon DEF system_FinishUpdate, GoTo, locals
<1>3. c < MaxIndex
  BY <1>1, MaxIndexAssumption
<1>4. c + 1 \in Saved /\ ~(c + 1 <= c) /\ c + 1 # c /\ c + 1 # -1
  <2> HIDE DEF c
  <2> QED
    BY Zenon, <1>1, <1>3, NextIndex
<1>5. new \in System /\ new.index = c + 1
  BY Zenon, <1>4 DEF System
<1> HIDE DEF new
<1>6. /\ dirs' \in [Dirs -> System] /\ dirs'[c + 1] = new
      /\ dirs'[current] = dirs[current]
      /\ \A e \in Dirs \ {c + 1} : dirs'[e] = dirs[e]
  BY Zenon, <1>1, <1>2, <1>4, <1>5
<1>7. ~Present(c + 1)
  BY Zenon, <1>1, <1>4 DEF OnlyGoodSaved
<1>8. NamedByIndex'
  BY Zenon, <1>5, <1>6 DEF StartInv, NamedByIndex, Present
<1>9. TwinIsGood'
  BY Zenon, <1>4, <1>6 DEF StartInv, TwinIsGood, Present
<1>10. GoodSystemKept'
  <2>1. PICK e \in Dirs : Good(e)
    BY Zenon, <1>1 DEF StartInv, GoodSystemKept
  <2> QED
    BY Zenon, <1>6, <1>7, <2>1 DEF Good, Present, GoodSystemKept
<1>11. StartType'
  BY Zenon, <1>2, <1>6, TypeStep
<1>12. GoldenSteps' /\ ChoiceSteps' /\ RunSteps'
  BY Zenon, <1>1, <1>2, <1>6 DEF GoldenSteps, ChoiceSteps, RunSteps, Changing, Present
<1> QED
  BY Zenon, <1>8, <1>9, <1>10, <1>11, <1>12 DEF StartInv

\* The current system is copied before it is changed, when it is good.
LEMMA SnapshotStep ==
    ASSUME StartInv, system_Snapshot
    PROVE  StartInv'
<1> USE Directories
<1> DEFINE c == dirs[current].index
<1>1. /\ pc = "prepared" /\ Present(current) /\ OnlyGoodSaved /\ NoneNewer(c)
      /\ dirs \in [Dirs -> System] /\ c \in Dirs /\ c + 2 <= MaxIndex
  BY Zenon DEF system_Snapshot, StartInv, StartType, RunSteps, Room, System
<1>2. /\ pc' = "reindex"
      /\ UNCHANGED <<bootCount, installed, lastExitCode, newestIndex, currentIndex>>
  BY Zenon DEF system_Snapshot, GoTo, locals
<1>3. c < MaxIndex /\ c \in Saved /\ c <= c
  BY <1>1, MaxIndexAssumption DEF Present
<1>4. CASE dirs[current].status = "good"
  <2>1. dirs' = [dirs EXCEPT ![c] = dirs[current]]
    BY Zenon, <1>4 DEF system_Snapshot
  <2>2. /\ dirs' \in [Dirs -> System] /\ dirs'[c] = dirs[current]
        /\ dirs'[current] = dirs[current]
        /\ \A e \in Dirs \ {c} : dirs'[e] = dirs[e]
    BY Zenon, <1>1, <1>3, <2>1
  <2>3. NamedByIndex'
    BY <1>1, <1>3, <2>2 DEF StartInv, NamedByIndex, Present
  <2>4. TwinIsGood' /\ GoodSystemKept'
    BY Zenon, <1>1, <1>4, <2>2 DEF TwinIsGood, GoodSystemKept, Good, Present
  <2>5. StartType'
    BY Zenon, <1>2, <2>2, TypeStep
  <2>6. OnlyGoodSaved' /\ NoneNewer(dirs[current].index)'
    BY <1>1, <1>3, <1>4, <2>2 DEF OnlyGoodSaved, NoneNewer, Present, GetStatus
  <2>7. Good(c)'
    BY Zenon, <1>1, <1>3, <1>4, <2>2 DEF Good, Present
  <2>8. RunSteps'
    BY Zenon, <1>1, <1>2, <1>3, <2>2, <2>6, <2>7 DEF RunSteps, Changing, Present, Good
  <2>9. GoldenSteps' /\ ChoiceSteps'
    BY Zenon, <1>2 DEF GoldenSteps, ChoiceSteps
  <2> QED
    BY Zenon, <2>3, <2>4, <2>5, <2>8, <2>9 DEF StartInv
<1>5. CASE dirs[current].status # "good"
  <2>1. UNCHANGED dirs
    BY Zenon, <1>5 DEF system_Snapshot
  <2>2. NamedByIndex' /\ TwinIsGood' /\ GoodSystemKept'
    BY Zenon, <2>1 DEF StartInv, NamedByIndex, TwinIsGood, GoodSystemKept, Good, Present
  <2>3. StartType'
    BY Zenon, <1>1, <1>2, <2>1, TypeStep
  <2>4. PICK e \in Dirs : Good(e)
    BY Zenon, <1>1 DEF StartInv, GoodSystemKept
  <2>5. e \in Saved
    BY Zenon, <1>5, <2>4 DEF Good
  <2>6. RunSteps'
    BY Zenon, <1>1, <1>2, <1>3, <2>1, <2>4, <2>5
       DEF RunSteps, Changing, OnlyGoodSaved, NoneNewer, Present, Good, GetStatus
  <2>7. GoldenSteps' /\ ChoiceSteps'
    BY Zenon, <1>2 DEF GoldenSteps, ChoiceSteps
  <2> QED
    BY Zenon, <2>2, <2>3, <2>6, <2>7 DEF StartInv
<1> QED
  BY Zenon, <1>4, <1>5

\* The current system gets the next index.
LEMMA ReindexStep ==
    ASSUME StartInv, Reindex
    PROVE  StartInv'
<1> USE Directories
<1> DEFINE c == dirs[current].index
<1>1. /\ pc = "reindex" /\ OnlyGoodSaved /\ c \in Dirs /\ c < MaxIndex
      /\ dirs \in [Dirs -> System] /\ \E d \in Saved : Good(d)
  BY Zenon DEF Reindex, StartInv, StartType, RunSteps, System, Changing
<1>2. /\ pc' = "modify"
      /\ dirs' = [dirs EXCEPT ![current] = [dirs[current] EXCEPT !.index = c + 1]]
      /\ UNCHANGED <<bootCount, installed, lastExitCode, newestIndex, currentIndex>>
  BY Zenon, <1>1 DEF Reindex, GoTo, locals
<1>3. c + 1 \in Saved /\ ~(c + 1 <= c) /\ c + 1 # -1
  <2> HIDE DEF c
  <2> QED
    BY Zenon, <1>1, NextIndex
<1>4. \A d \in Saved : d <= c => d <= c + 1
  BY <1>1
<1>5. [dirs[current] EXCEPT !.index = c + 1] \in System
      /\ [dirs[current] EXCEPT !.index = c + 1].index = c + 1
  BY Zenon, <1>1, <1>3 DEF System
<1>6. /\ dirs' \in [Dirs -> System] /\ dirs'[current].index = c + 1
      /\ \A e \in Saved : dirs'[e] = dirs[e]
  BY Zenon, <1>1, <1>2, <1>5
<1>7. NamedByIndex'
  BY Zenon, <1>6 DEF StartInv, NamedByIndex, Present
<1>8. (\E d \in Saved : Good(d))'
  BY Zenon, <1>1, <1>6 DEF Good, Present
<1>9. \A d \in Saved : Present(d)' => d # c + 1 /\ d <= c + 1 /\ dirs'[d].status = "good"
  BY <1>1, <1>3, <1>4, <1>6 DEF OnlyGoodSaved, Present
<1>10. TwinIsGood' /\ GoodSystemKept'
  BY Zenon, <1>6, <1>8, <1>9 DEF TwinIsGood, GoodSystemKept
<1>11. StartType'
  BY Zenon, <1>2, <1>6, TypeStep
<1>12. OnlyGoodSaved' /\ NoneNewer(dirs[current].index)'
  BY Zenon, <1>6, <1>9 DEF OnlyGoodSaved, NoneNewer
<1>13. RunSteps'
  BY Zenon, <1>2, <1>3, <1>6, <1>8, <1>9, <1>12 DEF RunSteps, Changing, Present
<1>14. GoldenSteps' /\ ChoiceSteps'
  BY Zenon, <1>2 DEF GoldenSteps, ChoiceSteps
<1> QED
  BY Zenon, <1>7, <1>10, <1>11, <1>13, <1>14 DEF StartInv

\* What a deletion is about to empty is saved, and not the only good system.
LEMMA DoomedAreSpare ==
    ASSUME StartInv, NEW d \in Doomed, Present(d)
    PROVE  d \in Saved /\ (~Good(d) \/ \E e \in Dirs \ {d} : Good(e))
<1> USE Directories
<1>0. d \in Dirs
  BY Zenon DEF Doomed
<1>1. CASE pc = "clear golden index" /\ d = newestIndex + 1
  <2>1. newestIndex \in Dirs /\ newestIndex < MaxIndex /\ NoneNewer(newestIndex)
    BY Zenon, <1>1 DEF StartInv, GoldenSteps, StartType
  <2>2. d \in Saved /\ ~(d <= newestIndex)
    BY Zenon, <1>1, <2>1, NextIndex
  <2>3. Good(d) => GetStatus(dirs[d]) # "BAD"
    BY Zenon DEF Good, GetStatus
  <2> QED
    BY Zenon, <2>1, <2>2, <2>3 DEF NoneNewer
<1>2. CASE pc \in {"park current", "move current"} /\ d = currentIndex
  <2>1. d \in Saved /\ d = dirs[current].index
    BY Zenon, <1>2 DEF StartInv, GoldenSteps, ChoiceSteps, StartType
  <2>2. dirs[current].status = "good"
    BY Zenon, <2>1 DEF StartInv, TwinIsGood
  <2>3. Good(current)
    BY Zenon, <2>1, <2>2 DEF Good, Present
  <2> QED
    BY Zenon, <2>1, <2>3
<1>3. CASE pc = "delete parked" /\ d = currentIndex
  BY Zenon, <1>3 DEF StartInv, ChoiceSteps, Good
<1>4. CASE pc = "delete others" /\ d # current
  BY Zenon, <1>4, <1>0 DEF StartInv, GoldenSteps
<1>5. CASE pc = "remove unneeded" /\ d \in Unneeded
  BY Zenon, <1>5 DEF StartInv, RunSteps, Unneeded, Good
<1> QED
  BY Zenon, <1>1, <1>2, <1>3, <1>4, <1>5 DEF Doomed

\* A system is partly deleted when the power fails.
LEMMA CrashStep ==
    ASSUME StartInv, Crash
    PROVE  StartInv'
<1> USE Directories
<1>1. /\ pc' = "off"
      /\ UNCHANGED <<bootCount, installed, lastExitCode, newestIndex, currentIndex>>
  BY Zenon DEF Crash, GoTo, locals
<1>2. GoldenSteps' /\ ChoiceSteps' /\ RunSteps'
  BY Zenon, <1>1 DEF GoldenSteps, ChoiceSteps, RunSteps, Changing
<1>3. CASE UNCHANGED dirs
  <2>1. NamedByIndex' /\ TwinIsGood' /\ GoodSystemKept'
    BY Zenon, <1>3 DEF StartInv, NamedByIndex, TwinIsGood, GoodSystemKept, Good, Present
  <2>2. dirs' \in [Dirs -> System]
    BY Zenon, <1>3 DEF StartInv, StartType
  <2>3. StartType'
    BY Zenon, <1>1, <2>2, TypeStep
  <2> QED
    BY Zenon, <1>2, <2>1, <2>3 DEF StartInv
<1>4. ASSUME NEW d \in Doomed, NEW rest \in Leftovers(dirs[d]), Present(d),
             dirs' = [dirs EXCEPT ![d] = rest]
      PROVE  StartInv'
  <2>0. d \in Dirs /\ dirs[d] \in System
    BY Zenon, <1>4 DEF Doomed, StartInv, StartType
  <2>1. d \in Saved /\ (~Good(d) \/ \E e \in Dirs \ {d} : Good(e))
    BY Zenon, <1>4, DoomedAreSpare
  <2>2. rest \in System /\ rest.index \in {-1, dirs[d].index}
    BY Zenon, <1>4, <2>0 DEF Leftovers, System
  <2>3. dirs' \in [Dirs -> System] /\ NamedByIndex' /\ GoodSystemKept' /\ TwinIsGood'
    BY Zenon, <1>4, <2>1, <2>2, DeletionFacts
  <2>4. StartType'
    BY Zenon, <1>1, <2>3, TypeStep
  <2> QED
    BY Zenon, <1>2, <2>3, <2>4 DEF StartInv
<1> QED
  BY Zenon, <1>3, <1>4 DEF Crash

\* Another golden system is put into the read-only image.
LEMMA NewGoldenStep ==
    ASSUME StartInv, NewGolden
    PROVE  StartInv'
<1> USE Directories
<1>1. /\ pc = "off" /\ pc' = "off" /\ installed' = "no"
      /\ dirs' = [d \in Dirs |-> [dirs[d] EXCEPT !.golden = "no"]]
      /\ UNCHANGED <<bootCount, lastExitCode, newestIndex, currentIndex>>
      /\ dirs \in [Dirs -> System]
  BY Zenon DEF NewGolden, locals, StartInv, StartType
<1>2. \A d \in Dirs : /\ dirs'[d] \in System
                      /\ dirs'[d].index = dirs[d].index
                      /\ dirs'[d].status = dirs[d].status
  BY Zenon, <1>1 DEF System
<1>3. dirs' \in [Dirs -> System]
  BY Zenon, <1>1, <1>2
<1>4. StartType'
  BY Zenon, <1>1, <1>3 DEF StartInv, StartType
<1>5. NamedByIndex' /\ TwinIsGood' /\ GoodSystemKept'
  BY <1>2 DEF StartInv, NamedByIndex, TwinIsGood, GoodSystemKept, Good, Present
<1>6. GoldenSteps' /\ ChoiceSteps' /\ RunSteps'
  BY Zenon, <1>1 DEF GoldenSteps, ChoiceSteps, RunSteps, Changing
<1> QED
  BY Zenon, <1>4, <1>5, <1>6 DEF StartInv

\* The empty disk of a new device.
LEMMA StartInitInv ==
    ASSUME StartInit
    PROVE  StartInv
<1> USE Directories DEF StartInit
<1>1. dirs \in [Dirs -> System] /\ \A d \in Dirs : ~Present(d)
  BY Zenon DEF Present
<1>2. StartType
  BY Zenon, <1>1 DEF StartType
<1>3. NamedByIndex /\ GoodSystemKept /\ TwinIsGood
  BY Zenon, <1>1 DEF NamedByIndex, GoodSystemKept, TwinIsGood
<1>4. GoldenSteps /\ ChoiceSteps /\ RunSteps
  BY Zenon DEF GoldenSteps, ChoiceSteps, RunSteps, Changing
<1> QED
  BY Zenon, <1>2, <1>3, <1>4 DEF StartInv

\* The invariant depends on nothing but the variables.
LEMMA StartStutter ==
    ASSUME StartInv, UNCHANGED startVars
    PROVE  StartInv'
<1> USE DEF startVars, locals
<1>1. StartType'
  BY Zenon DEF StartInv, StartType
<1>2. NamedByIndex' /\ GoodSystemKept' /\ TwinIsGood'
  BY Zenon DEF StartInv, NamedByIndex, GoodSystemKept, TwinIsGood, Good, Present
<1>3. GoldenSteps'
  BY Zenon DEF StartInv, GoldenSteps, NoneNewer, Good, Present, GetStatus
<1>4. ChoiceSteps'
  BY Zenon DEF StartInv, ChoiceSteps, NoneNewer, Present, GetStatus
<1>5. RunSteps'
  BY Zenon DEF StartInv, RunSteps, OnlyGoodSaved, NoneNewer, Good, Present, GetStatus, Changing
<1> QED
  BY Zenon, <1>1, <1>2, <1>3, <1>4, <1>5 DEF StartInv

\* Every step keeps the invariant.
LEMMA StartNextInv ==
    ASSUME StartInv, StartNext
    PROVE  StartInv'
<1>1. CASE PowerOn \/ ForgetBoots \/ MarkGoldenInstallComplete \/ CountBoot
           \/ HandleRebootExpiry \/ SupervisorFails \/ BeginUpdate
  <2>1. UNCHANGED dirs
    BY Zenon, <1>1 DEF PowerOn, ForgetBoots, MarkGoldenInstallComplete, CountBoot,
                HandleRebootExpiry, SupervisorFails, BeginUpdate
  <2> QED
    BY Zenon, <1>1, <2>1, QuietSteps
<1>2. CASE CheckCurrentSystem
  BY Zenon, <1>2, CheckStep
<1>3. CASE Launch \/ StopSupervisor \/ MarkGood \/ FailProbation \/ FinishUpdates
           \/ FinishedUpdates \/ system_MarkModified \/ MarkBad \/ Change
  BY Zenon, <1>3, StatusActions
<1>4. CASE ClearGoldenIndex \/ DeleteAllButCurrent \/ DeleteParked \/ system_RemoveUnneeded
  BY Zenon, <1>4, DeletingSteps
<1>5. CASE ParkCurrent \/ MoveCurrent
  BY SMTT(30), <1>5, MovingSteps
<1>6. CASE InstallGolden
  BY Zenon, <1>6, InstallStep
<1>7. CASE SetCurrent
  BY Zenon, <1>7, SetCurrentStep
<1>8. CASE system_FinishUpdate
  BY Zenon, <1>8, FinishStep
<1>9. CASE system_Snapshot
  BY Zenon, <1>9, SnapshotStep
<1>10. CASE Reindex
  BY Zenon, <1>10, ReindexStep
<1>11. CASE Crash
  BY Zenon, <1>11, CrashStep
<1>12. CASE NewGolden
  BY Zenon, <1>12, NewGoldenStep
<1> QED
  BY SMTT(30), <1>1, <1>2, <1>3, <1>4, <1>5, <1>6, <1>7, <1>8, <1>9, <1>10, <1>11, <1>12
     DEF StartNext, StartStep, UpdateStep

\* After a deletion a good system is left.
LEMMA GoodAfterDeletion ==
    ASSUME StartInv, NEW d \in Doomed, NEW r, Present(d), dirs' = [dirs EXCEPT ![d] = r]
    PROVE  (\E e \in Dirs : Good(e))'
<1>1. d \in Dirs /\ (~Good(d) \/ \E e \in Dirs \ {d} : Good(e))
  BY Zenon, DoomedAreSpare, Directories
<1>2. PICK g \in Dirs : Good(g)
  BY Zenon, <1>1 DEF StartInv, GoodSystemKept
<1>3. PICK e \in Dirs \ {d} : Good(e)
  BY Zenon, <1>1, <1>2
<1>4. dirs'[e] = dirs[e]
  BY ZenonT(40), <1>3 DEF StartInv, StartType
<1> QED
  BY Zenon, <1>3, <1>4 DEF Good, Present

\* No step leaves the disk without a good system, where there was one.
LEMMA GoodRemains ==
    ASSUME StartInv, StartNext, \E d \in Dirs : Good(d)
    PROVE  (\E d \in Dirs : Good(d))'
<1> USE Directories
<1>0. StartInv' /\ dirs \in [Dirs -> System] /\ dirs' \in [Dirs -> System]
  BY Zenon, StartNextInv DEF StartInv, StartType
<1>1. SUFFICES \E d \in Dirs : Present(d)' \/ Good(d)'
  BY Zenon, <1>0 DEF StartInv, GoodSystemKept
<1>2. PICK g \in Dirs : Present(g)
  BY Zenon DEF Good
<1>3. CASE UNCHANGED dirs
  BY Zenon, <1>2, <1>3 DEF Present
<1>4. CASE Launch \/ StopSupervisor \/ MarkGood \/ FailProbation \/ FinishUpdates
           \/ FinishedUpdates \/ system_MarkModified \/ MarkBad \/ Change
  <2>1. \/ \E st, n : dirs' = SetStatus(st, n)
        \/ \E st, n : dirs' = [SetStatus(st, n) EXCEPT ![current].golden = "no"]
        \/ UNCHANGED dirs
    BY Zenon, <1>4 DEF Launch, StopSupervisor, sysStatus_DecrementTryCount, MarkGood, FailProbation,
                FinishUpdates, FinishedUpdates, system_MarkModified, MarkBad, Change
  <2>2. dirs'[g].index = dirs[g].index
    <3>0. dirs[g] \in System /\ dirs[current] \in System
      BY Zenon, <1>0, <1>2
    <3>1. CASE \E st, n : dirs' = SetStatus(st, n)
      BY <1>0, <1>2, <3>0, <3>1 DEF SetStatus, System
    <3>2. CASE \E st, n : dirs' = [SetStatus(st, n) EXCEPT ![current].golden = "no"]
      <4>1. PICK st, n : dirs' = [SetStatus(st, n) EXCEPT ![current].golden = "no"]
        BY Zenon, <3>2
      <4>2. /\ DOMAIN SetStatus(st, n) = Dirs
            /\ SetStatus(st, n)[g].index = dirs[g].index
            /\ DOMAIN SetStatus(st, n)[g] = DOMAIN dirs[g]
            /\ "index" \in DOMAIN dirs[g]
        BY Zenon, <1>0, <1>2, <3>0 DEF SetStatus, System
      <4> QED
        BY Zenon, <4>1, <4>2
    <3> QED
      BY Zenon, <2>1, <3>1, <3>2
  <2> QED
    BY Zenon, <1>2, <2>2 DEF Present
<1>5. CASE ClearGoldenIndex
  <2>1. newestIndex + 1 \in Saved
    BY Zenon, <1>5, NextIndex DEF ClearGoldenIndex, StartInv, StartType, GoldenSteps
  <2>2. /\ newestIndex + 1 \in Doomed
        /\ dirs' = [dirs EXCEPT ![newestIndex + 1] = NoSystem]
    BY Zenon, <1>5, <2>1 DEF ClearGoldenIndex, RecursiveDelete, Doomed
  <2>3. CASE Present(newestIndex + 1)
    BY Zenon, <2>2, <2>3, GoodAfterDeletion
  <2>4. CASE ~Present(newestIndex + 1)
    BY Zenon, <1>0, <1>2, <2>2, <2>4 DEF Present
  <2> QED
    BY Zenon, <2>3, <2>4
<1>6. CASE DeleteAllButCurrent
  BY Zenon, <1>3, <1>6, GoodAfterDeletion DEF DeleteAllButCurrent, RecursiveDelete, Doomed
<1>7. CASE system_RemoveUnneeded
  BY Zenon, <1>3, <1>7, GoodAfterDeletion DEF system_RemoveUnneeded, RecursiveDelete, Doomed, Unneeded
<1>8. CASE DeleteParked
  <2>1. dirs'[newestIndex] = dirs[newestIndex] /\ newestIndex \in Dirs /\ Present(newestIndex)
    BY Zenon, <1>0, <1>8 DEF DeleteParked, RecursiveDelete, StartInv, ChoiceSteps
  <2> QED
    BY Zenon, <2>1 DEF Present
<1>9. CASE ParkCurrent \/ MoveCurrent
  <2>1. currentIndex \in Saved /\ currentIndex = dirs[current].index
        /\ dirs' = Rename(current, currentIndex)
    BY Zenon, <1>9 DEF ParkCurrent, MoveCurrent, StartInv, StartType, GoldenSteps, ChoiceSteps
  <2>2. dirs'[currentIndex] = dirs[current]
    BY Zenon, <2>1, MoveFacts
  <2> QED
    BY <2>1, <2>2 DEF Present
<1>10. CASE InstallGolden
  BY Zenon, <1>0, <1>10 DEF InstallGolden, GoTo, StartInv, GoldenSteps
<1>11. CASE SetCurrent
  BY Zenon, <1>0, <1>11 DEF SetCurrent, GoTo, StartInv, RunSteps
<1>12. CASE system_FinishUpdate \/ system_Snapshot \/ Reindex
  BY Zenon, <1>0, <1>12 DEF system_FinishUpdate, system_Snapshot, Reindex, GoTo, StartInv, RunSteps,
                     Changing
<1>13. CASE Crash
  BY Zenon, <1>3, <1>13, GoodAfterDeletion DEF Crash
<1>14. CASE NewGolden
  <2>1. dirs[g] \in System /\ dirs'[g] = [dirs[g] EXCEPT !.golden = "no"]
    BY Zenon, <1>0, <1>2, <1>14 DEF NewGolden
  <2>2. dirs'[g].index = dirs[g].index
    BY Zenon, <2>1 DEF System
  <2> QED
    BY Zenon, <1>2, <2>2 DEF Present
<1> QED
  BY Zenon, <1>3, <1>4, <1>5, <1>6, <1>7, <1>8, <1>9, <1>10, <1>11, <1>12, <1>13, <1>14
     DEF StartNext, StartStep, UpdateStep, PowerOn, CheckCurrentSystem, ForgetBoots,
         MarkGoldenInstallComplete, CountBoot, HandleRebootExpiry, SupervisorFails, BeginUpdate

-----------------------------------------------------------------------------
(* The theorems.                                                            *)

\* StartInv holds in every reachable state, for every MAX_TRIES and MaxIndex.
THEOREM StartInvariant == StartSpec => []StartInv
<1>1. StartInit => StartInv
  BY Zenon, StartInitInv
<1>2. StartInv /\ [StartNext]_startVars => StartInv'
  BY Zenon, StartNextInv, StartStutter
<1> QED
  BY <1>1, <1>2, PTL DEF StartSpec

\* Every variable keeps its type: no system is tried more than MAX_TRIES times.
THEOREM StartTypeCorrect == StartSpec => []StartType
<1>1. StartInv => StartType
  BY Zenon DEF StartInv
<1> QED
  BY <1>1, StartInvariant, PTL

\* A good system is on the disk from the first installation of the golden one
\* on, wherever the power fails in the start program or in an update.
THEOREM GoodSystemIsKept == StartSpec => []GoodSystemKept
<1>1. StartInv => GoodSystemKept
  BY Zenon DEF StartInv
<1> QED
  BY <1>1, StartInvariant, PTL

\* From the first installation of the golden system on the disk is never left
\* without a good system.
THEOREM LastGoodSystemStays == StartSpec => GoodSystemStays
<1>1. StartInv /\ [StartNext]_startVars
        => [(\E d \in Dirs : Good(d)) => (\E d \in Dirs : Good(d))']_startVars
  BY Zenon, GoodRemains
<1> QED
  BY <1>1, StartInvariant, PTL DEF StartSpec, GoodSystemStays

\* The system that CheckAndInstallCurrentSystem() has made current can be
\* launched: the fatal branch of Launch() is not reached.
THEOREM LaunchedIsNotBad == StartSpec => []LaunchIsPossible
<1>1. StartInv => LaunchIsPossible
  BY Zenon DEF StartInv, RunSteps, LaunchIsPossible
<1> QED
  BY <1>1, StartInvariant, PTL

\* system_Snapshot() and system_FinishUpdate() find the names they rename the
\* new system to free, whatever was left behind by earlier updates.
THEOREM RenameTargetsAreFree == StartSpec => []RenameTargetFree
<1>1. ASSUME StartInv, pc = "prepared", Room
      PROVE  /\ dirs[current].status = "good" => ~Present(dirs[current].index)
             /\ ~Present(dirs[current].index + 1)
  <2> DEFINE c == dirs[current].index
  <2>1. /\ OnlyGoodSaved /\ Present(current) /\ c \in Dirs /\ c + 2 <= MaxIndex
        /\ dirs[current].status = "good" => \A d \in Saved : ~Present(d)
    BY Zenon, <1>1, Directories DEF StartInv, StartType, RunSteps, System, Room
  <2>2. c \in Saved /\ c < MaxIndex
    BY <2>1, Directories, MaxIndexAssumption DEF Present
  <2>3. c + 1 \in Saved /\ ~(c + 1 <= c)
    <3> HIDE DEF c
    <3> QED
      BY Zenon, <2>1, <2>2, NextIndex
  <2> QED
    BY Zenon, <2>1, <2>2, <2>3 DEF OnlyGoodSaved
<1>2. StartInv => RenameTargetFree
  BY Zenon, <1>1 DEF RenameTargetFree
<1> QED
  BY <1>2, StartInvariant, PTL

\* SetCurrent() finds the chosen system under the name of its index, and no
\* current system in its way.
THEOREM ChosenSystemIsSaved == StartSpec => []ChosenIsSaved
<1>1. StartInv => ChosenIsSaved
  BY Zenon DEF StartInv, NamedByIndex, ChoiceSteps, ChosenIsSaved
<1> QED
  BY <1>1, StartInvariant, PTL

\* Rename() never deletes the only good system for one that is not good.
THEOREM TwinsAreGood == StartSpec => []TwinIsGood
<1>1. StartInv => TwinIsGood
  BY Zenon DEF StartInv
<1> QED
  BY <1>1, StartInvariant, PTL
=============================================================================
