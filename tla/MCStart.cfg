SPECIFICATION StartFairSpec
CONSTANTS
    MAX_TRIES = 2
    MaxIndex = 4
INVARIANTS
    GoodSystemKept
    
    
    ChosenIsSaved
PROPERTIES
    
    BootLoopEnds
