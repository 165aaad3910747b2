SPECIFICATION Spec
CONSTANTS
    Typed <- MCTyped
    LabelLists <- MCLabelLists
    SizeOptions <- MCSizeOptions
    MaxHistory = 2
    MaxChanges = 3
INVARIANTS
    FormMeansItsFields
    HistoryIsBrowsable
