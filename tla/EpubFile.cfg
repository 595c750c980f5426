SPECIFICATION Spec
CONSTANTS
    FolderNames <- SomeFolders
    Epubs <- SomeEpubs
    MaxSaves = 2
    MaxChoices = 2
    Plain = "plain"
INVARIANTS TypeInv FontsAreReadable SavedBookOpens
PROPERTIES  ManifestIsKept
CHECK_DEADLOCK FALSE
