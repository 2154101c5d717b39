SPECIFICATION QueueSpec
CONSTANTS
    Installations = {i1}
    Events = {1, 2}
    Conns = {}
    Producers = {p1, p2}
    Worker = Worker
    None = None
    TTL <- MCTTL
    Retention = 1
    MaxAttempts = 2
    PowerLimit = 1
    BatchLimit = 2
    MaxRecords = 1
    MaxTime = 2
    MaxSeq = 3
    MaxUpsets = 1
SYMMETRY MCSymmetry
INVARIANTS
    UniqueDelivery
    DeathEarned
    AttemptsBounded
    CapacityOvershoot
PROPERTIES
    AckNeedsReceipt
    AckOnlyRaced
