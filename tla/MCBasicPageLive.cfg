SPECIFICATION VisitSpec
CONSTANTS
    Visits = {"once"}
    a = a
    b = b
    Byte <- MCByte
    Typed <- MCByte
    Spoken = {}
    Tapes <- MCTapes
    Silence = Silence
    Nothing = Nothing
    MaxInput = 1
    MaxOutput = 0
    MaxInstances = 1
    MaxSteps = 1
    MaxJobs = 2
    MaxChecks = 1
    HistoryCache = FALSE
PROPERTIES BatchesContinue InputArrives
