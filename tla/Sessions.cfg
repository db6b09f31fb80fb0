\* Two workers asking two sources; two sign-ins and one stray connection; a
\* play of two attempts; spans over three sources that list differently.
SPECIFICATION MCSpec
CONSTANTS
    None = None
    Workers = {w1, w2}
    Modes = {"auto", "anilist", "mal"}
    MaxSessions = 2
    MaxOthers = 1
    Backends = {"mpv", "mplayer", "qmplay2"}
    MaxPlayAttempts = 2
    IpcTries = 2
    Secs = {0, 1, 2}
    MaxReports = 2
    MaxConns = 1
    Canon <- MCCanon
    CliSources <- MCSources
    Listing <- MCListing
    ordinal_of <- MCOrdinals
    Typed = {"s", "2"}
    MaxPlays = 2
PROPERTIES WaitsEnd OwnTabSignsIn KeepsItsPromise SpanInOrder
CHECK_DEADLOCK FALSE
