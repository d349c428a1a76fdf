SPECIFICATION MCSpec
CONSTANTS
    ByteWidth = 2
    WordSamples = {0, 1, 2, 3, 4, 5, 6, 7, 8, 9, 10, 11, 12, 13, 14, 15}
    LongSamples = {0, 1, 5, 16, 127, 128, 170, 254, 255}
    Inputs = 3
    MaxCaptures = 4
    Connections = {"segmented"}
    Kinds = {"capture", "write", "fetch-byte", "fetch-word", "read-memory", "write-memory", "read-program-memory",
        "read-port", "read-test", "report-interrupt", "notify-reti", "defer irq", "defer intr", "read-pending-register",
        "read-next-address", "resolve-address", "commit-address-updates", "alignment-fault", "report-clocks",
        "report-clocks when", "add-clocks"}
    MaxSteps = 2
    MaxDeclarations = 4
    MaxRead = 4
    Highest = 1
INVARIANTS
    EmittedIsDenoted
    AcceptedIsSafe
    DecodingIsDeclared
    ContractIsServed
    MachineIsWired
PROPERTY DeviceServes
\* A chapter ends where the author stops writing.
CHECK_DEADLOCK FALSE
