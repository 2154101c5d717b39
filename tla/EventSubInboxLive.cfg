SPECIFICATION InboxFairSpec
CONSTANTS
    Messages = {1, 2}
    Title <- MCTitle
    Earlier = Earlier
    Installations = {i1}
    Hooks = {h1}
    Workers = {w1}
    None = None
    QueueCap = 1
    MaxAttempts = 2
    Lifetime = 1
    SeenTTL = 1
    Retention = 0
    MaxTime = 1
    MaxUpsets = 1
PROPERTIES
    InboxDrains
    InflightFreed
