SPECIFICATION BothSpec
CONSTANTS
    MaxLines = 5
    MaxCutLines = 4
    MaxLineRetain = 4
    MaxHeaderRetain = 6
    MaxMessageSize = 5
    Mailboxes <- MCMailboxes
INVARIANTS
    ScanTypes
    HeadersAreOwn
    ScansAgree
    Tiling
PROPERTIES
    DeliversTheMessages
    ScansEnd
CHECK_DEADLOCK FALSE
