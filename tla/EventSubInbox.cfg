SPECIFICATION InboxSpec
CONSTANTS
    Messages = {2}
    Title <- MCTitle
    Earlier = Earlier
    Installations = {i1, i2}
    Hooks = {h1, h2}
    Workers = {w1, w2}
    None = None
    QueueCap = 1
    MaxAttempts = 2
    Lifetime = 1
    SeenTTL = 1
    Retention = 0
    MaxTime = 3
    MaxUpsets = 2
SYMMETRY MCSymmetry
INVARIANTS
    ProcessedOnce
    CompletedDelivered
    InboxDeathEarned
PROPERTY
    ReentryRaced
