SPECIFICATION Spec
CONSTANTS
    Chapters = {c1, c2}
    Package = Package
    Edits = {e1, e2}
    Paths = {p1, p2}
    OtherPath = OtherPath
    NoPath = NoPath
    NoFile = NoFile
    Damaged = Damaged
SYMMETRY Symmetry
INVARIANTS
    TypeInv
    OnlyTheCurrentTabIsUnsaved
    UnmarkedBookIsStored
    ModifiedBookMarksTheWindow
    LossIsExcused
PROPERTY StoresTheBook
