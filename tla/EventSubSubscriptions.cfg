SPECIFICATION SubsFairSpec
CONSTANTS
    Channel = ch
    Viewer = viewer
    Channels = {ch}
    None = None
    Twitch = Twitch
    Installations = {i1, i2}
    RegValues <- MCRegValues
    Initial <- MCInitial
    MaxIds = 3
    MaxChanges = 2
    MaxUpsets = 1
INVARIANTS
    SubsTypeOK
    RequestNotLost
PROPERTIES
    Reconciled
    CoverageLossExplained
    Converges
