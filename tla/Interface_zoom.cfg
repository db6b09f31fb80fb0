SPECIFICATION Spec
CONSTANTS
    None = None
    Shows = {a, b}
    Stocked = {"Browse", "Discover", "History"}
    Sections = FALSE
    MaxFetches = 1
    a = a
    b = b
PROPERTIES PlaysWhatIsShown
