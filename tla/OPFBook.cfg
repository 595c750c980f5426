CONSTANTS
    HTMLs = {h1, h2, h3}
    Images = {}
    HTMLNames = {"Section0001", "Section0002", "Section0003", "Section0004"}
    ImageNames = {}
    Names = {"Section0001", "Section0002", "Section0003", "Section0004"}
    Plain <- UnencodedNames
    ValidID <- IDs
    Section <- FourSections
    GuideTypes = {"toc", "text"}
    TextType = "text"
    NoType = "none"
    NoId = NoId
    NoMeta = NoMeta
    NoCache = NoCache
    MaxNewChapters = 0
    MaxReferences = 2
    Deleting = TRUE
    Stealing = FALSE
SPECIFICATION Spec
SYMMETRY Symmetry
INVARIANTS ManifestListsTheBook SpineListsTheChapters MergeHasPrevious
PROPERTIES ReadingOrderKept SplitPutsFirstPartBefore SemanticsFollowTheChapter
