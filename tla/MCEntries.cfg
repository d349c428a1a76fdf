SPECIFICATION Spec
CONSTANTS
    Kinds = {"capture", "write", "fetch-byte", "fetch-word", "read-memory", "write-memory", "read-program-memory",
        "read-port", "read-test", "report-interrupt", "notify-reti", "defer irq", "defer intr", "read-pending-register",
        "read-next-address", "resolve-address", "commit-address-updates", "alignment-fault", "report-clocks",
        "report-clocks when", "add-clocks"}
    MaxSteps = 2
INVARIANTS EntriesCannotReject
