SPECIFICATION SessionSpec
CONSTANTS
    a = a
    b = b
    Byte <- MCBytes
    Typed <- MCTyped
    Spoken <- MCSpoken
    Tapes <- MCTapes
    Silence = Silence
    Nothing = Nothing
    MaxInput = 1
    MaxOutput = 2
    MaxInstances = 2
    MaxSteps = 1
    MaxJobs = 1
    MaxChecks = 0
    HistoryCache = FALSE
    Visits = {}
PROPERTIES
  ImplementsLine
