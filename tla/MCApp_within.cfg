SPECIFICATION Spec
CONSTANTS
    N = 3
    Readable = {1, 2}
    Labels <- MCLabels
    Labelled <- MCLabelled
    Queries <- MCQueries
    EmptyQuery = ""
    Hits <- MCHits
    QuickHits <- MCQuickHits
    NeedsBodyScan <- MCNeedsBodyScan
    NeedsFulltext <- MCNeedsFulltext
    SortKey <- MCSortKey
    Conversations <- MCConversations
    MaxMatches = 1
    MaxJobs = 1
    Keys = {"slash", "type", "enter", "leave", "filter", "within", "focus", "label",
            "move", "results", "cancel", "reverse"}
PROPERTIES
    SearchesStayWithinResults
CHECK_DEADLOCK FALSE
