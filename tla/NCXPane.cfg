SPECIFICATION FairPaneSpec
CONSTANTS
    Books = {b1, b2, b3}
    MaxEdits = 3
INVARIANTS
    PaneTypeInv
    StalePaneWillBeRefreshed
PROPERTY PaneCatchesUp
\* The bounds of the model are reached, and nobody opens or changes anything.
CHECK_DEADLOCK FALSE
