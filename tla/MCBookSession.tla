--------------------------- MODULE MCBookSession ---------------------------
EXTENDS BookSession, TLC

\* Chapters, edits and paths are interchangeable.
Symmetry == Permutations(Chapters) \cup Permutations(Edits) \cup Permutations(Paths)
=============================================================================
