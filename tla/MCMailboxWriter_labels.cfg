SPECIFICATION Spec
CONSTANTS
    Writers = {w1}
    Names <- MCNames
    PathOf <- Paths
    PackageDirs = {"Inbox.mbox"}
    GroupsDirs = {"g@"}
    MaxLevels = 3
    TempOf <- MCTempOf
    Printable <- MCPrintable
    TrimStart <- MCTrimStart
    TrimEnd <- MCTrimEnd
    Disks <- MCDisks
    Tasks <- SanitizedTasks
    MaxRuns = 2
INVARIANT
    LabelsAreTraceable
CHECK_DEADLOCK FALSE
