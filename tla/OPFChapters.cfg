CONSTANTS
    HTMLs = {h1, h2, h3, h4}
    Images = {i1}
    HTMLNames = {"Section0001", "Section0002", "Section0003", "Section0004", "Section0005"}
    ImageNames = {"map"}
    Names = {"Section0001", "Section0002", "Section0003", "Section0004", "Section0005", "map"}
    Plain <- UnencodedNames
    ValidID <- IDs
    Section <- FiveSections
    GuideTypes = {}
    TextType = "text"
    NoType = "none"
    NoId = NoId
    NoMeta = NoMeta
    NoCache = NoCache
    MaxNewChapters = 3
    MaxReferences = 0
    Deleting = FALSE
    Stealing = TRUE
SPECIFICATION Spec
SYMMETRY Symmetry
INVARIANTS TypeInv FilenamesAreUnique
PROPERTIES JobsListTheirChapters
