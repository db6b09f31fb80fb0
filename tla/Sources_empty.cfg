\* Each source on a site with up to three episodes; any reply to any request.
SPECIFICATION Spec
CONSTANTS
    None = None
    Impersonates = TRUE
    Servers = 2
    MaxNumber = 3
INVARIANT EmptyIsNotStocked
CHECK_DEADLOCK FALSE
