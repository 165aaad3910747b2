SPECIFICATION Spec
CONSTANTS
    N = 3
    BaseName <- MCBaseName
    FolderName <- MCFolderName
    Attachments <- MCAttachments
    Undecodable <- MCUndecodable
    Views = {{1, 2, 3}, {2}, {}}
    Cuts = {1}
    Kinds = {"eml", "html", "csv", "attachments", "one", "bulk"}
    CacheSize = 1
    MaxTries = 2
    MaxExports = 2
INVARIANTS
    EachChosenItsFile
PROPERTIES
    NothingOverwritten
