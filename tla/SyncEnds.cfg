\* One show, an edit on each side and one fault; two launches of the interface,
\* a queue of two that fills, two posts.
SPECIFICATION MCSpec
CONSTANTS
    None = None
    Planning = "planning"
    Watching = "watching"
    Completed = "completed"
    Status = {"planning", "watching", "completed"}
    MaxProgress = 1
    Score = {0, 1, 2}
    Id = {a}
    Worker = {tui}
    a = a
    tui = tui
    Total <- UnknownTotal
    Stored <- Lossy
    MaxEdits = 1
    MaxRemote = 1
    MaxFaults = 1
    MaxDepth = 2
    FlushTicks = 2
    MaxPosts = 2
    MaxUiEdits = 2
    MaxLaunches = 2
    MaxAgings = 1
PROPERTIES Converges RunsEnd EveryEditIsHeard
CHECK_DEADLOCK FALSE
