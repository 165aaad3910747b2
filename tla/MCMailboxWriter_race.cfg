SPECIFICATION Spec
CONSTANTS
    Writers = {w1, w2}
    Names <- MCNames
    PathOf <- Paths
    PackageDirs = {"Inbox.mbox"}
    GroupsDirs = {"g@"}
    MaxLevels = 3
    TempOf <- MCTempOf
    Printable <- MCPrintable
    TrimStart <- MCTrimStart
    TrimEnd <- MCTrimEnd
    Disks <- RaceDisks
    Tasks <- RaceTasks
    MaxRuns = 1
INVARIANT
    DoneIsWhole
CHECK_DEADLOCK FALSE
