SPECIFICATION Spec
CONSTANTS
    Messages <- MCMessages
    MaxDepth = 3
INVARIANTS
    EmlIsTheMessage
    QpKeepsTheContent
    QpIsSevenBit
CHECK_DEADLOCK FALSE
