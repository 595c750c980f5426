CONSTANTS
    Edits = {e1, e2, e3}
    HeadingIds = {h1}
    NoSource = NoSource
    Detours = {"otherpane", "malformed", "replace", "unfocused", "splitchapter"}
SPECIFICATION Spec
SYMMETRY Symmetry
INVARIANTS TypeInv SavingStoresEveryEdit UserSeesWhatIsSaved
PROPERTIES DomIsFinalArbiter
