------------------------------ MODULE Unpacker ------------------------------
(***************************************************************************)
(* What the update pack parser promises to the Update Daemon               *)
(* (framework/daemons/linux/updateDaemon/updateUnpack.h): after a start it *)
(* works until it reports one final result, or until it is stopped, and it *)
(* reports nothing after that.  Success is reported only when the type of  *)
(* the update pack is known.                                               *)
(***************************************************************************)

VARIABLES
    phase,      \* "idle" or "working"
    report,     \* the final progress code of the last update pack, if any
    type        \* updateUnpack_GetType()

UnpackTypes ==
    {"UNKNOWN", "SYSTEM_UPDATE", "APP_UPDATE", "APP_REMOVE", "FIRMWARE_UPDATE"}

FinalReports == {"DONE", "BAD_PACKAGE", "INTERNAL_ERROR"}

Init ==
    /\ phase = "idle"
    /\ report = "none"
    /\ type = "UNKNOWN"

Start ==
    /\ phase = "idle"
    /\ phase' = "working"
    /\ report' = "none"
    /\ type' = "UNKNOWN"

\* The type never changes once it is known.
Learn ==
    /\ type' \in UnpackTypes
    /\ type # "UNKNOWN" => type' = type

Work ==
    /\ phase = "working"
    /\ Learn
    /\ UNCHANGED <<phase, report>>

Finish ==
    /\ phase = "working"
    /\ phase' = "idle"
    /\ Learn
    /\ report' \in FinalReports
    /\ report' = "DONE" => type' # "UNKNOWN"

Stop ==
    /\ phase' = "idle"
    /\ UNCHANGED <<report, type>>

\* The process of the daemon is started anew.
Restart == phase' = "idle" /\ report' = "none" /\ type' = "UNKNOWN"

Next == Start \/ Work \/ Finish \/ Stop \/ Restart

Spec == Init /\ [][Next]_<<phase, report, type>>
=============================================================================
