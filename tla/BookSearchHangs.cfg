CONSTANTS
    c1 = c1
    c2 = c2
    c3 = c3
    Chapters <- ThreeChapters
    Stylesheet = Stylesheet
    Elsewhere = Elsewhere
    NoTab = NoTab
    Spines <- SomeSpines
    Places = 2
    Occurrences <- FewOccurrences
    AtTheEnd = {c1, c2}
    MaxWaiting = 2
SPECIFICATION FairSpec
PROPERTIES SearchAlwaysEnds
