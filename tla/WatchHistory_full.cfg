\* Two episodes, two seconds, two positions recorded, two changes by hand or tracker.
SPECIFICATION Spec
CONSTANTS
    None = None
    Planning = "planning"
    Watching = "watching"
    Completed = "completed"
    Status = {"planning", "watching", "completed"}
    Total = 2
    Episodes = 2
    MaxProgress = 2
    MaxClock = 2
    MaxPlays = 2
    MaxChanges = 2
INVARIANTS DeadPartialsStayDead LivePartialsResume FinishesAreKept LibraryIsEarned
