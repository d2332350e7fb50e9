SPECIFICATION PartsSpec
CONSTANTS
    Databases <- MCDatabases
    MaxCleanups = 2
    MaxChanges = 1
    p1 = p1
    p2 = p2
    Process = {p1, p2}
    MaxOpens = 3
    MaxFiles = 3
    DiskMayFill = TRUE
    FirstFiles = {"none", "empty", "ready", "damaged", "corrupt", "newer", "directory", "logged"}
    MaxMajor = 2
    MaxMinor = 2
    MaxPages = 3
INVARIANTS
    PlanExecutedOnce
    OpenedIsReady
    VerifierSeesCommits
    ListedOnce
PROPERTIES
    ImplementsPromise
    LossOnlyByFault
    FailedOpenLeavesBytes
CHECK_DEADLOCK FALSE
