SPECIFICATION AppSpec
CONSTANTS
    Apps <- MCApps
    Hashes <- MCHashes
    MAX_TRIES = 2
    None = None
    Missing = Missing
INVARIANTS
    FilesKept
    HalfChangedIsBad
    RenamedIsUnpacked
    
