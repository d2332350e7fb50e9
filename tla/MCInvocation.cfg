\* Each part at its own bounds.
SPECIFICATION PartsSpec
CONSTANTS
    Depth = 1
    MaxRows = 2
    MaxText = 3
    MaxLength = 7
    MaxExpiry = 1
    MaxEdits = 1
    MaxRaw = 3
    MaxFileEdits = 2
    MaxChanges = 2
    m1 = m1
    m2 = m2
    Window = 2
    MinReads = 2
    Latency = 3
    MaxTime = 4
    MaxReads = 3
INVARIANTS
    MachineReadsOneDocument
    AutomationLeavesNoTrace
    ExitTellsTheEnd
    PingsAreListed
    NonceNamesMessage
    RenderedIsRequestable
    TextMatchesReported
    HashIsMeaning
    ReadyIsUsable
    AbsenceIsTrue
    VerdictFromCompletePages
CHECK_DEADLOCK FALSE
