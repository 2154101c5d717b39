SPECIFICATION AuthSpec
CONSTANTS
    Devices = {d1, d2, d3}
    Apart = d3
    Installation <- MCInstallation
    Users = {u1, u2}
    Attempts = {a1, a2}
    Calls = {c1, c2}
    Stripe <- MCStripe
    None = None
    MaxPending = 2
    MaxHandoffs = 1
    MaxSessions = 2
    MaxUpsets = 1
SYMMETRY MCSymmetry
INVARIANTS
    AuthTypeOK
    Referenced
    CredentialKept
    RefreshTokenSafe
PROPERTIES
    SessionLossExplained
    RevokedOut
    RevokedAllOut
CHECK_DEADLOCK FALSE
