\* One show; one sync process with every kind of edit and fault, or two.
SPECIFICATION MCSpec
CONSTANTS
    None = None
    Planning = "planning"
    Watching = "watching"
    Completed = "completed"
    Status = {"planning", "watching", "completed"}
    MaxProgress = 1
    Score = {0, 1, 2}
    Id = {a}
    Worker = {tui, cli}
    a = a
    tui = tui
    cli = cli
    Total <- OneEpisode
    Stored <- Lossy
    MaxEdits = 2
    MaxRemote = 1
    MaxFaults = 1
INVARIANTS SnapshotWasOnServer
PROPERTIES NoRemoteEditLost LocalMovesSurvive PushesAreOwed
