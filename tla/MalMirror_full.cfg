\* One show: an edit here, one on either site, a fault, a renewal.
SPECIFICATION Spec
CONSTANTS
    None = None
    Planning = "planning"
    Watching = "watching"
    Status = {"planning", "watching"}
    MaxProgress = 1
    Score = {0, 2, 3}
    Id = {a}
    a = a
    MalScore <- MalRounds
    AniScore <- AniRounds
    MaxEdits = 1
    MaxRemote = 1
    MaxFaults = 1
    MaxPairs = 1
INVARIANTS OneRunSettles ExpiredOnlyIfLost
PROPERTIES NoMalEditLost
