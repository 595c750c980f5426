---------------------------- MODULE MCBookSearch ----------------------------
(* Books of three chapters for TLC; two of them hold the search term at most. *)
EXTENDS BookSearch

CONSTANTS c1, c2, c3

ThreeChapters == {c1, c2, c3}

\* In order, with chapters that are not listed, and with an itemref that leads
\* nowhere.
SomeSpines ==
    {<<c1, c2, c3>>, <<c1, c2>>, <<c1>>, <<Elsewhere, c1, c2, c3>>}

\* Up to two matches, also two in one chapter.
FewOccurrences ==
    {f \in [Chapters -> SUBSET (1..Places)] :
        /\ f[c2] \subseteq {2} /\ f[c3] \subseteq {1}
        /\ Cardinality(f[c1]) + Cardinality(f[c2]) + Cardinality(f[c3]) <= 2}
=============================================================================
