SPECIFICATION InboxSpec
CONSTANTS
    Messages = {1, 2}
    Title <- MCTitle
    Earlier = Earlier
    Installations = {i1, i2}
    Hooks = {h1}
    Workers = {w1, w2}
    None = None
    QueueCap = 1
    MaxAttempts = 2
    Lifetime = 2
    SeenTTL = 1
    Retention = 0
    MaxTime = 2
    MaxUpsets = 0
INVARIANT
    FailureHasCause
