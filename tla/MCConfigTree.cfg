SPECIFICATION ConfigFairSpec
CONSTANTS
    Sessions = {s1, s2}
    NoSession = NoSession
    Slots = {i1, i2}
    NoSlot = NoSlot
    NoIter = NoIter
    Vals = {a}
    Empty = Empty
    NoFile = NoFile
    Partial = Partial
    NoChange = NoChange
    MaxFaults = 1
INVARIANTS
    NobodyWaitsForNothing
    StoredTreeSurvives
PROPERTIES
    TransactionsIsolated
    RequestsServed
