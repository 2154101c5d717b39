SPECIFICATION QueueFairSpec
CONSTANTS
    Installations = {i1}
    Events = {1, 2}
    Conns = {}
    Producers = {p1}
    Worker = Worker
    None = None
    TTL <- MCTTL
    Retention = 1
    MaxAttempts = 2
    PowerLimit = 1
    BatchLimit = 2
    MaxRecords = 1
    MaxTime = 2
    MaxSeq = 2
    MaxUpsets = 1
PROPERTIES
    Settles
    FlushReturns
