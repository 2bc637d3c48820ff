SPECIFICATION SupervisorSpec
CONSTANTS
    a = a
    b = b
    ProcsOfA = {p1, p2}
    Apps = {a}
    ProcsOf <- MCProcsOf
    Child = Child
    Daemons = 1
    MaxRetryCount = 1
    MaxMsgs = 1
SYMMETRY MCSymmetry
INVARIANTS
    StoppedMeansGone
    EmptyIsNoticed
    DaemonsOutliveApps
CHECK_DEADLOCK FALSE
