--------------------------- MODULE MCHTMLViews ---------------------------
(* HTMLViews for TLC.  The edits are interchangeable: no definition tells    *)
(* one from another.                                                         *)
EXTENDS HTMLViews, TLC

Symmetry == Permutations(Edits)
=============================================================================
