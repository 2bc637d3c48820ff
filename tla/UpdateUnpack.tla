---------------------------- MODULE UpdateUnpack ----------------------------
(***************************************************************************)
(* The update pack parser of the Update Daemon                             *)
(* (framework/daemons/linux/updateDaemon/updateUnpack.c).                  *)
(*                                                                         *)
(* An update pack is a sequence of sections, each a JSON header followed   *)
(* by a payload.  The parser is event driven: JSON events, readable input, *)
(* and the exit of the "tar" process are actions; the contents of the pack *)
(* are chosen as they are read.  Sizes are counted in MiB, so that the     *)
(* wrap-around of a size_t is exact for payloads of whole MiB.             *)
(***************************************************************************)
EXTENDS Integers, FiniteSets

CONSTANTS
    Payloads,       \* payload sizes a header may announce, in MiB
    SizeSpan,       \* the number of values of a size_t, in MiB
    MaxSections,    \* bound: sections in one update pack
    MaxParsers,     \* bound: parser objects alive at a time
    TarDrains       \* TRUE: "tar" only succeeds after the end of its input

ASSUME PayloadsAssumption == Payloads \subseteq Nat \ {0}
ASSUME SizeSpanAssumption == SizeSpan \in Nat \ {0}
ASSUME MaxSectionsAssumption == MaxSections \in Nat \ {0}
ASSUME MaxParsersAssumption == MaxParsers \in Nat
ASSUME TarDrainsAssumption == TarDrains \in BOOLEAN

VARIABLES
    State,              \* IDLE, PARSING_JSON, UNPACKING_PAYLOAD, SKIPPING_PAYLOAD
    Type,               \* type of the update pack
    ParsingSession,     \* "NULL" or "live"
    parsers,            \* parser objects allocated and not released
    InputFd,            \* "none" (-1) or "set"
    InputFdClosed,      \* "no" or "yes": closed by le_fwupdate_Download()
    openFds,            \* read ends opened for the parser less the ones closed
    InputFdMonitor,     \* "NULL" or "live"
    Pipeline,           \* the "tar" process: "NULL" or "running"
    PipelineFd,         \* its input: "none" or "open"
    PayloadSize,
    PayloadBytesCopied,
    PercentDone,
    report,             \* the last final progress code, "none" after a start
    sections            \* headers read from this update pack

json == <<ParsingSession, parsers>>
input == <<InputFd, InputFdClosed, openFds>>
tar == <<Pipeline, PipelineFd>>
payload == <<PayloadSize, PayloadBytesCopied, PercentDone>>
unpackVars ==
    <<State, Type, json, input, InputFdMonitor, tar, payload, report, sections>>

-----------------------------------------------------------------------------
UnpackInit ==
    /\ State = "IDLE"
    /\ Type = "UNKNOWN"
    /\ ParsingSession = "NULL"
    /\ parsers = 0
    /\ InputFd = "none"
    /\ InputFdClosed = "no"
    /\ openFds = 0
    /\ InputFdMonitor = "NULL"
    /\ Pipeline = "NULL"
    /\ PipelineFd = "none"
    /\ PayloadSize = 0
    /\ PayloadBytesCopied = 0
    /\ PercentDone = 0
    /\ report = "none"
    /\ sections = 0

\* Mutant of the next definition: the input is closed although
\* le_fwupdate_Download() has closed it already.
MutResetClosesTwice(fds) ==
    /\ State' = "IDLE"
    /\ ParsingSession' = "NULL"
    /\ parsers' = IF ParsingSession = "live" THEN parsers - 1 ELSE parsers
    /\ InputFdMonitor' = "NULL"
    /\ InputFd' = "none"
    /\ openFds' = IF InputFd = "set" THEN fds - 1 ELSE fds
    /\ Pipeline' = "NULL"
    /\ PipelineFd' = "none"

\* Everything that the parser knows of is released.  fds: input descriptors
\* that are open when it is called.
Reset(fds) ==
    /\ State' = "IDLE"
    /\ ParsingSession' = "NULL"
    /\ parsers' = IF ParsingSession = "live" THEN parsers - 1 ELSE parsers
    /\ InputFdMonitor' = "NULL"
    /\ InputFd' = "none"
    /\ openFds' = IF InputFd = "set" /\ InputFdClosed' = "no" THEN fds - 1 ELSE fds
    /\ Pipeline' = "NULL"
    /\ PipelineFd' = "none"

\* Reset, then a final progress code; or the code first, which makes no
\* difference because the progress function only sends messages to the client.
Finish(code) ==
    /\ UNCHANGED InputFdClosed
    /\ Reset(openFds)
    /\ report' = code

HandleFormatError == Finish("BAD_PACKAGE")
HandleInternalError == Finish("INTERNAL_ERROR")

\* A new parser object replaces the previous one, which has stopped by itself
\* but was not released.
StartParsing ==
    /\ State' = "PARSING_JSON"
    /\ ParsingSession' = "live"
    /\ parsers' = parsers + 1
    /\ PayloadSize' = 0

\* After an app: the pack must end here.  eof: it does.
AppUnpackDone(eof) ==
    IF eof
    THEN /\ Finish("DONE")
         /\ PercentDone' = 100
    ELSE /\ HandleFormatError
         /\ UNCHANGED PercentDone

-----------------------------------------------------------------------------
updateUnpack_Start ==
    /\ State = "IDLE"                           \* LE_ASSERT
    /\ parsers + MaxSections <= MaxParsers      \* bound of the model
    /\ InputFd' = "set"
    /\ InputFdClosed' = "no"
    /\ openFds' = openFds + 1
    /\ PercentDone' = 0
    /\ Type' = "UNKNOWN"
    /\ report' = "none"
    /\ sections' = 0
    /\ StartParsing
    /\ UNCHANGED <<InputFdMonitor, tar, PayloadBytesCopied>>

updateUnpack_Stop ==
    /\ UNCHANGED <<Type, InputFdClosed, payload, report, sections>>
    /\ Reset(openFds)

\* A JSON syntax error, an unexpected member or a member of the wrong type.
JsonSyntaxError ==
    /\ State = "PARSING_JSON"
    /\ HandleFormatError
    /\ UNCHANGED <<Type, payload, sections>>

\* Mutant: the type is not looked at, so that an empty pack is accepted.
MutEmptyPackAccepted(betweenSections) ==
    /\ State = "PARSING_JSON"
    /\ IF betweenSections THEN Finish("DONE") ELSE HandleInternalError
    /\ UNCHANGED <<Type, payload, sections>>

\* The end of the input, or an error reading it.  Between two sections of a
\* system update this is the regular end of the pack.
JsonReadError(betweenSections) ==
    /\ State = "PARSING_JSON"
    /\ IF betweenSections /\ Type = "SYSTEM_UPDATE"
       THEN Finish("DONE")
       ELSE HandleInternalError
    /\ UNCHANGED <<Type, payload, sections>>

StartUntar ==
    /\ State' = "UNPACKING_PAYLOAD"
    /\ PayloadBytesCopied' = 0
    /\ Pipeline' = "running"
    /\ PipelineFd' = "open"
    /\ InputFdMonitor' = "live"

StartSkipForward ==
    /\ State' = "SKIPPING_PAYLOAD"
    /\ PayloadBytesCopied' = 0
    /\ InputFdMonitor' = "live"
    /\ UNCHANGED tar

\* The download is synchronous, and closes the input whatever its result.
StartFirmwareUpdate(connected, result) ==
    /\ PayloadBytesCopied' = 0
    /\ IF connected
       THEN /\ InputFdClosed' = "yes"
            /\ Reset(openFds - 1)
            /\ report' = IF result = "LE_OK" THEN "DONE" ELSE "INTERNAL_ERROR"
       ELSE HandleInternalError

\* The end of a JSON header (JsonDone).
HeaderRead ==
    /\ State = "PARSING_JSON"
    /\ sections < MaxSections
    /\ sections' = sections + 1

\* fields: the header has the "md5" and "name" that its command requires; size
\* is 0 when it has no "size".
Malformed(cmd, fields, size) ==
    \/ cmd \in {"updateSystem", "updateFirmware"} /\ Type # "UNKNOWN"
    \/ cmd \in {"updateApp", "removeApp"} /\ Type = "FIRMWARE_UPDATE"
    \/ cmd \notin {"updateSystem", "updateFirmware", "updateApp", "removeApp"}
    \/ ~fields
    \/ size = 0 /\ cmd # "removeApp"

JsonBadHeader(cmd, fields, size) ==
    /\ HeaderRead
    /\ Malformed(cmd, fields, size)
    /\ PayloadSize' = size
    /\ HandleFormatError
    /\ UNCHANGED <<Type, PayloadBytesCopied, PercentDone>>

JsonUpdateSystem(size) ==
    /\ HeaderRead
    /\ ~Malformed("updateSystem", TRUE, size)
    /\ Type' = "SYSTEM_UPDATE"
    /\ PayloadSize' = size
    /\ StartUntar
    /\ UNCHANGED <<json, input, PercentDone, report>>

\* exists: an app with this hash is installed, so its payload is skipped.
JsonUpdateApp(size, exists) ==
    /\ HeaderRead
    /\ ~Malformed("updateApp", TRUE, size)
    /\ Type' = IF Type = "UNKNOWN" THEN "APP_UPDATE" ELSE Type
    /\ PayloadSize' = size
    /\ IF exists THEN StartSkipForward ELSE StartUntar
    /\ UNCHANGED <<json, input, PercentDone, report>>

JsonRemoveApp(eof) ==
    /\ HeaderRead
    /\ ~Malformed("removeApp", TRUE, 0)
    /\ Type' = IF Type = "UNKNOWN" THEN "APP_REMOVE" ELSE Type
    /\ AppUnpackDone(eof)
    /\ UNCHANGED <<PayloadSize, PayloadBytesCopied>>

JsonUpdateFirmware(size, connected, result) ==
    /\ HeaderRead
    /\ ~Malformed("updateFirmware", TRUE, size)
    /\ Type' = "FIRMWARE_UPDATE"
    /\ PayloadSize' = size
    /\ PercentDone' = 0
    /\ StartFirmwareUpdate(connected, result)

-----------------------------------------------------------------------------
\* (100 * PayloadBytesCopied) / PayloadSize in size_t arithmetic.
Percent(copied) == ((100 * copied) % SizeSpan) \div PayloadSize

\* Mutant: the input of "tar" stays open after the last byte.
MutCopyKeepsPipe(copied) ==
    /\ State = "UNPACKING_PAYLOAD"
    /\ InputFdMonitor = "live"
    /\ copied \in (PayloadBytesCopied + 1)..PayloadSize
    /\ PayloadBytesCopied' = copied
    /\ PercentDone' = Percent(copied)
    /\ InputFdMonitor' = IF copied = PayloadSize THEN "NULL" ELSE "live"
    /\ UNCHANGED <<State, Type, json, input, Pipeline, PipelineFd, PayloadSize,
                   report, sections>>

\* Mutant: the monitor is dropped one MiB before the end of the payload.
MutCopyStopsShort(copied) ==
    /\ State = "UNPACKING_PAYLOAD"
    /\ InputFdMonitor = "live"
    /\ copied \in (PayloadBytesCopied + 1)..PayloadSize
    /\ PayloadBytesCopied' = copied
    /\ PercentDone' = Percent(copied)
    /\ IF copied >= PayloadSize - 1
       THEN InputFdMonitor' = "NULL" /\ PipelineFd' = "none"
       ELSE UNCHANGED <<InputFdMonitor, PipelineFd>>
    /\ UNCHANGED <<State, Type, json, input, Pipeline, PayloadSize, report, sections>>

\* Input is readable: copy what there is, up to the end of the payload.
CopyBytesToPipeline(copied) ==
    /\ State = "UNPACKING_PAYLOAD"
    /\ InputFdMonitor = "live"
    /\ copied \in (PayloadBytesCopied + 1)..PayloadSize
    /\ PayloadBytesCopied' = copied
    /\ PercentDone' = Percent(copied)
    /\ IF copied = PayloadSize
       THEN InputFdMonitor' = "NULL" /\ PipelineFd' = "none"
       ELSE UNCHANGED <<InputFdMonitor, PipelineFd>>
    /\ UNCHANGED <<State, Type, json, input, Pipeline, PayloadSize, report, sections>>

\* SkipForwardDone() follows the last byte.
DiscardPayloadBytes(copied, eof) ==
    /\ State = "SKIPPING_PAYLOAD"
    /\ InputFdMonitor = "live"
    /\ copied \in (PayloadBytesCopied + 1)..PayloadSize
    /\ PayloadBytesCopied' = copied
    /\ UNCHANGED <<Type, sections>>
    /\ IF copied < PayloadSize
       THEN /\ PercentDone' = Percent(copied)
            /\ UNCHANGED <<State, json, input, InputFdMonitor, tar, PayloadSize, report>>
       ELSE IF Type = "APP_UPDATE"
       THEN /\ AppUnpackDone(eof)
            /\ UNCHANGED PayloadSize
       ELSE /\ PercentDone' = 100
            /\ InputFdMonitor' = "NULL"
            /\ StartParsing
            /\ UNCHANGED <<input, tar, report>>

\* End of input or an error while copying or discarding a payload; writing
\* fails when "tar" has gone.
InputError ==
    /\ State \in {"UNPACKING_PAYLOAD", "SKIPPING_PAYLOAD"}
    /\ InputFdMonitor = "live"
    /\ HandleInternalError
    /\ UNCHANGED <<Type, payload, sections>>

\* "tar" exits.  The first section of a system update is the system itself, the
\* others are its apps.
UntarDone(success, eof) ==
    /\ Pipeline = "running"
    /\ success /\ TarDrains => PipelineFd = "none"
    /\ UNCHANGED <<Type, PayloadBytesCopied, sections>>
    /\ IF ~success
       THEN /\ HandleInternalError
            /\ UNCHANGED <<PayloadSize, PercentDone>>
       ELSE IF Type = "APP_UPDATE"
       THEN /\ AppUnpackDone(eof)
            /\ UNCHANGED PayloadSize
       ELSE /\ Pipeline' = "NULL"
            /\ PercentDone' = IF sections = 1 THEN PercentDone ELSE 100
            /\ StartParsing
            /\ UNCHANGED <<input, InputFdMonitor, PipelineFd, report>>

-----------------------------------------------------------------------------
Commands == {"updateSystem", "updateApp", "removeApp", "updateFirmware", "unrecognized"}

JsonEvent ==
    \/ JsonSyntaxError
    \/ \E betweenSections \in BOOLEAN : JsonReadError(betweenSections)
    \/ \E cmd \in Commands, fields \in BOOLEAN, size \in Payloads \union {0} :
           JsonBadHeader(cmd, fields, size)
    \/ \E size \in Payloads : JsonUpdateSystem(size)
    \/ \E size \in Payloads, exists \in BOOLEAN : JsonUpdateApp(size, exists)
    \/ \E eof \in BOOLEAN : JsonRemoveApp(eof)
    \/ \E size \in Payloads, connected \in BOOLEAN, result \in {"LE_OK", "LE_FAULT"} :
           JsonUpdateFirmware(size, connected, result)

InputFdEvent ==
    \/ \E copied \in 1..PayloadSize : CopyBytesToPipeline(copied)
    \/ \E copied \in 1..PayloadSize, eof \in BOOLEAN : DiscardPayloadBytes(copied, eof)
    \/ InputError

TarExit == \E success, eof \in BOOLEAN : UntarDone(success, eof)

UnpackNext ==
    \/ updateUnpack_Start
    \/ updateUnpack_Stop
    \/ JsonEvent
    \/ InputFdEvent
    \/ TarExit

UnpackSpec == UnpackInit /\ [][UnpackNext]_unpackVars

\* The client goes on sending its pack or closes it, and "tar" exits some time
\* after the end of its input.
UnpackFairness ==
    /\ WF_unpackVars(JsonEvent \/ InputFdEvent)
    /\ WF_unpackVars(PipelineFd = "none" /\ TarExit)

UnpackFairSpec == UnpackSpec /\ UnpackFairness

-----------------------------------------------------------------------------
(* Properties.                                                              *)

\* Every variable has its type.
UnpackTypeOK ==
    /\ State \in {"IDLE", "PARSING_JSON", "UNPACKING_PAYLOAD", "SKIPPING_PAYLOAD"}
    /\ Type \in {"UNKNOWN", "SYSTEM_UPDATE", "APP_UPDATE", "APP_REMOVE", "FIRMWARE_UPDATE"}
    /\ ParsingSession \in {"NULL", "live"}
    /\ parsers \in Nat
    /\ InputFd \in {"none", "set"}
    /\ InputFdClosed \in {"no", "yes"}
    /\ openFds \in Int
    /\ InputFdMonitor \in {"NULL", "live"}
    /\ Pipeline \in {"NULL", "running"}
    /\ PipelineFd \in {"none", "open"}
    /\ PayloadSize \in Nat
    /\ PayloadBytesCopied \in Nat
    /\ PercentDone \in Nat
    /\ report \in {"none", "DONE", "BAD_PACKAGE", "INTERNAL_ERROR"}
    /\ sections \in 0..MaxSections

\* The input is neither leaked nor closed twice, whoever closes it: Reset() or
\* le_fwupdate_Download() (updateUnpack.c:30-32).
InputClosedOnce == openFds = IF InputFd = "set" THEN 1 ELSE 0

\* The input is never registered twice with the event loop, which is fatal: the
\* JSON parser takes it over only when the payload's monitor is gone.
OneMonitor == ~(State = "PARSING_JSON" /\ InputFdMonitor = "live")

\* While a payload is being read, its input is watched exactly as long as bytes
\* are missing, and "tar" sees the end of its input exactly when none is.
PayloadWatched ==
    /\ State \in {"UNPACKING_PAYLOAD", "SKIPPING_PAYLOAD"} =>
           (InputFdMonitor = "live" <=> PayloadBytesCopied < PayloadSize)
    /\ State = "UNPACKING_PAYLOAD" =>
           /\ Pipeline = "running"
           /\ PipelineFd = "none" <=> PayloadBytesCopied = PayloadSize

\* Success is reported only when the payload of the last header has been read to
\* its end; between two sections, only when no "tar" is at work any more.
DoneMeansUnpacked ==
    [][report' = "DONE" /\ report # "DONE" =>
          \/ Type' = "FIRMWARE_UPDATE"
          \/ State = "PARSING_JSON" /\ Pipeline = "NULL" /\ InputFdMonitor = "NULL"
          \/ State # "PARSING_JSON" /\ PayloadBytesCopied' = PayloadSize]_unpackVars

\* The parser as the Update Daemon sees it.
U == INSTANCE Unpacker WITH
        phase <- IF State = "IDLE" THEN "idle" ELSE "working",
        report <- report,
        type <- Type

\* One final report per update pack, none after a stop, success only with a type
\* (updateUnpack.h).
ImplementsUnpacker == U!Spec

\* No callback is forgotten: an update pack that goes on, or ends, brings the
\* parser back to IDLE.
UnpackEnds == State # "IDLE" ~> State = "IDLE"

\* updateUnpack.h: "a percentDone of 80 means that 80% of the update data has been
\* unpacked."  So progress does not go back while a payload is copied.
ProgressMonotonic ==
    [][State = "UNPACKING_PAYLOAD" /\ State' = "UNPACKING_PAYLOAD"
        => PercentDone' >= PercentDone \/ PayloadBytesCopied = 0]_unpackVars
=============================================================================
