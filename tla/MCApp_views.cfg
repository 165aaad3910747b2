SPECIFICATION Spec
CONSTANTS
    N = 3
    Readable = {1, 2}
    Labels <- MCLabels
    Labelled <- MCLabelled
    Queries <- MCQueries
    EmptyQuery = ""
    Hits <- MCHits
    QuickHits <- MCQuickHits
    NeedsBodyScan <- MCNeedsBodyScan
    NeedsFulltext <- MCNeedsFulltext
    SortKey <- MCSortKey
    Conversations <- MCConversations
    MaxMatches = 2
    MaxJobs = 1
    Keys = {"slash", "type", "enter", "leave", "filter", "popup", "focus", "move", "results",
            "sort", "threads", "bodysearch", "quit"}
INVARIANTS
    MatchesAreOfTheBody
    KeyboardAlive
PROPERTIES
    BodyFollowsSelection
CHECK_DEADLOCK FALSE
