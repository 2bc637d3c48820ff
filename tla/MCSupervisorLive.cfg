SPECIFICATION SupervisorFairSpec
CONSTANTS
    a = a
    b = b
    ProcsOfA = {p1}
    Apps = {a}
    ProcsOf <- MCProcsOf
    Child = Child
    Daemons = 2
    MaxRetryCount = 1
    MaxMsgs = 1
PROPERTIES
    ShutdownLinkEnds
CHECK_DEADLOCK FALSE
