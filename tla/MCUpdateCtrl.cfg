SPECIFICATION CtrlSpec
CONSTANTS
    Clients = {c1, c2}
    MaxCount = 2
INVARIANT AggregatesMatch
INVARIANT RollbackTargetKept
INVARIANT ProbationWillEnd
PROPERTY LockHoldsProbation
