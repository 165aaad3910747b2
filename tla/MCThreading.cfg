SPECIFICATION Spec
CONSTANTS
    a = a
    b = b
    c = c
    Names <- MCNames
    Topics <- MCTopics
    ConversationIds = {"thrid"}
    NoSubject = ""
    Mailboxes <- MCMailboxes
    MaxChain = 100
INVARIANTS
    TypeOK
    LinksAgree
    Forest
    EveryMessageOnce
    DepthCountsMessagesAbove
    ChainIsOneTree
CHECK_DEADLOCK FALSE
