SPECIFICATION BootSpec
CONSTANTS
    c1 = c1
    c2 = c2
    Empty = Empty
    Placeholder = Placeholder
    Stale = Stale
    Fresh = Fresh
    Credentials <- MCCredentials
    Environments <- MCEnvironments
    SkipPersist = FALSE
    MaxFlaws = 1
    MaxEdits = 0
INVARIANTS NeverOverwritten
