SPECIFICATION VisitSpec
CONSTANTS
    Visits = {"once", "returning"}
    a = a
    b = b
    Byte <- MCByte
    Typed <- MCByte
    Spoken = {}
    Tapes <- MCTapes
    Silence = Silence
    Nothing = Nothing
    MaxInput = 0
    MaxOutput = 0
    MaxInstances = 1
    MaxSteps = 1
    MaxJobs = 3
    MaxChecks = 2
    HistoryCache = FALSE
INVARIANTS OneChain
PROPERTIES LastChoiceWins CheckpointHolds
