----------------------------- MODULE MCOPFBook -----------------------------
(* Filenames and ids for the runs of OPFBook; extensions are left out. *)
EXTENDS OPFBook

\* URLEncodePath encodes the space, and GetValidID drops it.
EncodedNames == {"Part One"}

UnencodedNames == Names \ EncodedNames

IDs == [n \in Names |-> IF n = "Part One" THEN "PartOne" ELSE n]

ThreeSections == <<"Section0001", "Section0002", "Section0003">>
FourSections == ThreeSections \o <<"Section0004">>
FiveSections == FourSections \o <<"Section0005">>

Symmetry == Permutations(HTMLs) \cup Permutations(Images)
=============================================================================
