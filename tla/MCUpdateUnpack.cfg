SPECIFICATION UnpackFairSpec
CONSTANTS
    Payloads <- MCPayloads
    SizeSpan <- MCSizeSpan
    MaxSections = 3
    MaxParsers = 6
    TarDrains = TRUE
INVARIANTS
    InputClosedOnce
    PayloadWatched
PROPERTIES
    DoneMeansUnpacked
    ImplementsUnpacker
    UnpackEnds
