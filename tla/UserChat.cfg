SPECIFICATION ChatFairSpec
CONSTANTS
    Users = {1, 2}
    Channels = {1, 2, 3}
    None = None
    Installations = {i1, i2}
    RegValues <- MCRegValues
    Lives = {1, 2}
    MaxChannels = 2
    MaxChanges = 2
    MaxUpsets = 2
INVARIANTS
    ChatTypeOK
    UpMeansSubscribed
    SoleListener
    AssignmentSound
PROPERTY
    ChatCovered
