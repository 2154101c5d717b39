SPECIFICATION SyncSpec
CONSTANTS
    Clients = {c1, c2}
    Hashes = {h1, h2}
    None = None
    MaxHistory = 1
    MaxRevision = 4
SYMMETRY MCSymmetry
INVARIANTS
    WindowKept
    LockSuffices
PROPERTIES
    NoLostUpdate
    ImplementsRegister
