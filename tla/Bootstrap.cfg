SPECIFICATION BootEnvSpec
CONSTANTS
    c1 = c1
    c2 = c2
    Empty = Empty
    Placeholder = Placeholder
    Stale = Stale
    Fresh = Fresh
    Credentials <- MCCredentials
    Environments <- MCEnvironments
    SkipPersist = FALSE
    MaxFlaws = 2
    MaxEdits = 1
    MaxLines = 3
    MaxChars = 4
    Order <- MCOrder
    Cases <- MCCases
    Later <- MCLater
INVARIANTS KeepsOperatorValues TokenIsKept RestartContinues SuccessIsRecorded
PROPERTIES ReadsBack OtherLinesStay
