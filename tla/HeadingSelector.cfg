SPECIFICATION SelectorSpec
CONSTANTS
    MaxHeadings = 4
    MaxLevel = 4
INVARIANTS
    NavMapFollowsTheHeadings
    DialogShowsWhatIsGenerated
