SPECIFICATION DaemonSpec
CONSTANTS
    Clients = {c1}
    MaxCount = 1
    Sessions = {s1, s2}
    NoSession = NoSession
INVARIANTS
    InstallOnlyVerified
PROPERTIES
    AppliedIsVerified
    FailedIsFinal
    ImplementsCtrl
    
