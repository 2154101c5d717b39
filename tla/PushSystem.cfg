SPECIFICATION SystemSpec
CONSTANTS
    Installations = {i1}
    Events = {1}
    Conns = {c1, c2}
    Producers = {p1}
    Worker = Worker
    None = None
    TTL <- MCTTL
    Retention = 1
    MaxAttempts = 2
    PowerLimit = 1
    BatchLimit = 1
    MaxRecords = 1
    MaxTime = 1
    MaxSeq = 1
    MaxUpsets = 1
SYMMETRY MCSymmetry
INVARIANTS
    HubLive
    SupersededCloses
PROPERTIES
    DetachOwn
    ImplementsQueue
