CONSTANTS
    GUI = GUI
    Original = Original
    NoOne = NoOne
    Workers = {w1, w2}
    Edits = {e1, e2, e3, e4}
SPECIFICATION FairSpec
INVARIANTS TypeInv OneDelayedUpdate EditsSurvive
PROPERTIES TextChangesOnlyWhenSet DocumentCatchesUp BatchEnds
