SPECIFICATION Spec
CONSTANTS
    FolderNames <- SomeFolders
    Epubs <- NewBooks
    MaxSaves = 1
    MaxChoices = 1
    Plain = "plain"
INVARIANTS ObfuscationIsUndone
CHECK_DEADLOCK FALSE
