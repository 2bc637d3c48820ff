SPECIFICATION DirectorySpec
CONSTANTS
    root = root
    app = app
    name = name
    Users = {root, app}
    Names = {name}
    Protocols = {p1, p2}
    Clients = {c1, c2, c3, c4}
    Servers = {s1, s2}
    HardCoded <- MCHardCoded
    NoServer = NoServer
    NoService = NoService
    NoConn = NoConn
SYMMETRY MCSymmetry
INVARIANTS
    BindingsResolved
    NobodyWaitsInVain
PROPERTIES
    ServedInOrder
