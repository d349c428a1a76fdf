SPECIFICATION MCSpec
CONSTANTS
    Families <- MCFamilies
    Addresses = 3
    MaxSteps = 2
    EndAddress = 2
    Levels = {2, 7}
    Masks = {0, 3}
    Offsets = 2
    PrefixLimit = 2
    MaxEdits = 1
    LineEnds = {0, 1, 8, 9}
    EditBytes = {0, 118}
INVARIANTS
    AttemptsAreRecorded
    EntriesAreSound
    AccountsAreTrue
PROPERTIES
    RunReports
