SPECIFICATION Spec
CONSTANTS
    Files = {f1, f2}
    Headings = {h1, h2, h3}
SYMMETRY Symmetry
INVARIANTS
    IdsClashOnlyWithUnwanted
    NavPointsLeadToTheirHeading
