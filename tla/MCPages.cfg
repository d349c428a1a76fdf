SPECIFICATION MCSpec
CONSTANTS
    None = None
    Disks = {d}
    Names = {n}
    QueueLimit = 0
    MaxChecks = 2
    KeyLimit = 1
    Rows = 2
    Columns = 2
    KeySteps = 2
    KeyQueue = 2
    CocoChords <- MCCocoChords
    Drivers <- MCDrivers
    Sockets = {"system", "basic"}
    Keys = {"ArrowUp", "Numpad8", "Control"}
    CodeOf <- MCCodeOf
    Characters <- MCCharacters
    ShiftCode = 42
    XtChords <- MCXtChords
    QueueCapacity = 5
    PasteLimit = 1
INVARIANTS
    PagesAgree
    LocksAreHeld
PROPERTIES
    OnlyLatestApplies
