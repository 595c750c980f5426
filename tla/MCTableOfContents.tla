------------------------- MODULE MCTableOfContents -------------------------
EXTENDS TableOfContents, TLC

\* Neither the files nor the headings have an order of their own.
Symmetry == Permutations(Files) \cup Permutations(Headings)
=============================================================================
