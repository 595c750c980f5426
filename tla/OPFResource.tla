---------------------------- MODULE OPFResource ----------------------------
(***************************************************************************)
(* The package document of a book and the operations of OPFResource on it  *)
(* (ResourceObjects/OPFResource.cpp).  Every operation takes a document    *)
(* and returns the document it writes back with UpdateTextFromDom.         *)
(*                                                                         *)
(* The manifest lists the files: an item has an id and an href.  The spine *)
(* lists the chapters in reading order by the ids of their items; the      *)
(* guide refers to chapters by href; the cover meta names an item by id.   *)
(* All hrefs are written URL-encoded, so an href is the filename it        *)
(* decodes to.  Folders are left out: filenames are unique in a book.      *)
(***************************************************************************)
EXTENDS Integers, SequencesExt, FiniteSets

CONSTANTS
    Names,     \* filenames
    Plain,     \* the filenames that URLEncodePath leaves as they are
    ValidID,   \* XMLResource::GetValidID: the id made from a filename
    TextType,  \* the guide type several chapters may have
    NoType,    \* GuideSemantics::NoType
    NoId,      \* the empty string where an id is expected
    NoMeta     \* there is no cover meta element

ASSUME NamesAssumption == Plain \subseteq Names /\ DOMAIN ValidID = Names

Ids == {ValidID[n] : n \in Names}

ASSUME IdsAssumption == NoId \notin Ids /\ NoMeta \notin Ids

\* The elements of s at the given positions, in their order
SubsequenceAt(s, positions) ==
    [k \in 1..Cardinality(positions) |->
        s[CHOOSE i \in positions : Cardinality(positions \cap 1..i) = k]]

-----------------------------------------------------------------------------
(* Looking a file up: positions, 0 when there is none *)

ItemOf(d, n) == SelectInSeq(d.manifest, LAMBDA item : item.href = n)

\* ResourceRenamed and GetResourceManifestIDMapping compare the href with a
\* path they did not encode.
ItemOfPath(d, path) == IF path \in Plain THEN ItemOf(d, path) ELSE 0

IdAt(d, i) == IF i = 0 THEN NoId ELSE d.manifest[i].id

GetResourceManifestID(d, n) == IdAt(d, ItemOf(d, n))

ItemrefOf(d, id) == SelectInSeq(d.spine, LAMBDA idref : idref = id)

GetGuideReference(d, n) == SelectInSeq(d.guide, LAMBDA ref : ref.href = n)

GetGuideSemanticType(d, n) ==
    IF GetGuideReference(d, n) = 0 THEN NoType
    ELSE d.guide[GetGuideReference(d, n)].type

\* The index from 1; 0 stands for the -1 of GetReadingOrder
GetReadingOrder(d, n) == ItemrefOf(d, GetResourceManifestID(d, n))

\* An id stands for the file of the last item that has it; an itemref whose
\* idref is not in the manifest is skipped.
GetSpineOrderFilenames(d) ==
    LET known == SubsequenceAt(d.spine, {k \in DOMAIN d.spine :
                     \E i \in DOMAIN d.manifest : d.manifest[i].id = d.spine[k]})
        lastItem(idref) == SelectLastInSeq(d.manifest, LAMBDA item : item.id = idref)
    IN  [k \in DOMAIN known |-> d.manifest[lastItem(known[k])].href]

-----------------------------------------------------------------------------
(* Files that come, go and change their names *)

AddResource(d, n, isChapter) ==
    [d EXCEPT !.manifest = Append(@, [id |-> ValidID[n], href |-> n]),
              !.spine = IF isChapter THEN Append(@, ValidID[n]) ELSE @]

RemoveResource(d, n, isChapter) ==
    LET i == ItemOf(d, n)
    IN  [d EXCEPT !.manifest = IF i = 0 THEN @ ELSE RemoveAt(@, i),
                  !.spine = IF isChapter THEN RemoveFirst(@, IdAt(d, i)) ELSE @]

\* Mutant: the itemref keeps the old id.
RenameItemOnly(d, old, new) ==
    LET i == ItemOfPath(d, old)
    IN  IF i = 0 THEN d
        ELSE [d EXCEPT !.manifest[i] = [id |-> ValidID[new], href |-> new]]

\* Mutant: the href is left to the update of the paths.
RenameIdOnly(d, old, new) ==
    LET i == ItemOfPath(d, old)
        k == ItemrefOf(d, IdAt(d, i))
    IN  IF i = 0 THEN d
        ELSE [d EXCEPT !.manifest[i].id = ValidID[new],
                       !.spine = IF k = 0 THEN @ ELSE ReplaceAt(@, k, ValidID[new])]

\* Mutant: the itemref is removed, and a new one appended.
RenameMovesItemref(d, old, new) ==
    LET i == ItemOfPath(d, old)
        k == ItemrefOf(d, IdAt(d, i))
    IN  IF i = 0 THEN d
        ELSE [d EXCEPT !.manifest[i] = [id |-> ValidID[new], href |-> new],
                       !.spine = IF k = 0 THEN @ ELSE Append(RemoveAt(@, k), ValidID[new])]

\* GetUniqueID returns the id it is given: no DTD and no setIdAttribute
\* declares an attribute of type ID, so getElementById finds nothing.
ResourceRenamed(d, old, new) ==
    LET i == ItemOfPath(d, old)
        k == ItemrefOf(d, IdAt(d, i))
    IN  IF i = 0 THEN d
        ELSE [d EXCEPT !.manifest[i] = [id |-> ValidID[new], href |-> new],
                       !.spine = IF k = 0 THEN @ ELSE ReplaceAt(@, k, ValidID[new])]

\* Mutant: the references of the guide are not among the path tags.
UpdateItemPaths(d, old, new) ==
    [d EXCEPT !.manifest = [i \in DOMAIN @ |-> IF @[i].href = old
                                               THEN [@[i] EXCEPT !.href = new] ELSE @[i]]]

\* PerformOPFUpdates: the hrefs of items and references that decode to old
UpdatePaths(d, old, new) ==
    LET updated(s) == [i \in DOMAIN s |-> IF s[i].href = old
                                          THEN [s[i] EXCEPT !.href = new] ELSE s[i]]
    IN  [d EXCEPT !.manifest = updated(@), !.guide = updated(@)]

-----------------------------------------------------------------------------
(* Reading order *)

\* The idref of each file's itemref, old or new; a file that is not found in the
\* manifest has the empty id, and is given a new itemref with that.
GetItemrefsForHTMLResources(d, names) ==
    [k \in DOMAIN names |-> IdAt(d, ItemOfPath(d, names[k]))]

\* An itemref that was in the spine is one element however many files it was
\* found for, and an element appended twice stays where it was put last.
UpdateSpineOrder(d, names) ==
    LET id == GetItemrefsForHTMLResources(d, names)
        stays(k) == \/ ItemrefOf(d, id[k]) = 0
                    \/ \A j \in DOMAIN names : j > k => id[j] # id[k]
    IN  [d EXCEPT !.spine = SubsequenceAt(id, {k \in DOMAIN names : stays(k)})]

-----------------------------------------------------------------------------
(* Guide and cover *)

RemoveDuplicateGuideTypes(d, type) ==
    IF type = TextType THEN d
    ELSE [d EXCEPT !.guide = SubsequenceAt(@, {k \in DOMAIN @ : @[k].type # type})]

SetGuideSemanticType(d, n, type) ==
    LET r == GetGuideReference(d, n)
    IN  [d EXCEPT !.guide = IF r = 0
                            THEN Append(@, [type |-> type, href |-> n])
                            ELSE [@ EXCEPT ![r].type = type]]

\* Choosing the type a chapter has takes it away.
AddGuideSemanticType(d, n, type) ==
    IF GetGuideSemanticType(d, n) = type
    THEN [d EXCEPT !.guide = RemoveAt(@, GetGuideReference(d, n))]
    ELSE SetGuideSemanticType(RemoveDuplicateGuideTypes(d, type), n, type)

SetResourceAsCoverImage(d, n) ==
    LET id == GetResourceManifestID(d, n)
    IN  [d EXCEPT !.cover = IF @ = id THEN NoMeta ELSE id]
=============================================================================
