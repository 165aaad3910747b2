SPECIFICATION LiveSpec
CONSTANTS
    N = 3
    Readable = {1, 2, 3}
    Labels <- MCLabels
    Labelled <- MCLabelled
    Queries <- MCQueries
    EmptyQuery = ""
    Hits <- MCHits
    QuickHits <- MCQuickHits
    NeedsBodyScan <- MCNeedsBodyScan
    NeedsFulltext <- MCNeedsFulltext
    SortKey <- MCSortKey
    Conversations <- MCConversations
    MaxMatches = 1
    MaxJobs = 2
    Keys = {"slash", "type", "enter", "leave", "filter", "cancel"}
INVARIANTS
    AppliedAnswersAreWhole
PROPERTIES
    JobsEnd
    InputIsSearched
CHECK_DEADLOCK FALSE
