--------------------------- MODULE OPFBookProofs ---------------------------
(***************************************************************************)
(* Proofs about the files of a book and its package document, for any      *)
(* files, any names and any number of jobs at once:                        *)
(*   - type correctness, unique filenames, and semantics that stay with    *)
(*     their chapter, whatever the names are;                              *)
(*   - the manifest and the spine list the book, the reading order stays   *)
(*     what the user made it, a split puts the first part before the rest  *)
(*     and the merge has a file before it, while no path needs encoding    *)
(*     and the waiting GUI thread runs no job;                             *)
(*   - what the jobs of a batch listed is in the document they leave,      *)
(*     while no path needs encoding.                                       *)
(***************************************************************************)
EXTENDS OPFBook, SequenceLemmas

-----------------------------------------------------------------------------
(* GetUniqueFilenameVersion *)

\* The name that GetUniqueFilenameVersion gives is not in use.
LEMMA VersionIsFree ==
    ASSUME NEW k, NEW files, UniqueVersion(k, files) \in DOMAIN Section
    PROVE  Section[UniqueVersion(k, files)] \notin Range(files)
<1> DEFINE used == SectionsUsed(files)
           v == UniqueVersion(k, files)
<1>1. v \notin used
  <2>1. CASE k \notin used
    BY <2>1 DEF UniqueVersion
  <2>2. CASE k \in used
    <3>1. Len(Section) \in Nat /\ DOMAIN Section = 1..Len(Section)
      BY SectionAssumption
    <3>2. used \in SUBSET (0..Len(Section)) /\ used # {}
      BY <2>2, <3>1 DEF SectionsUsed
    <3>3. Max(used) \in used /\ \A j \in used : j <= Max(used)
      BY <3>1, <3>2, MaxIsGreatest
    <3>4. Max(used) \in Nat
      BY <3>2, <3>3
    <3>5. v = Max(used) + 1
      BY <2>2 DEF UniqueVersion
    <3> QED
      BY <3>3, <3>4, <3>5
  <2> QED
    BY <2>1, <2>2
<1> QED
  BY <1>1 DEF SectionsUsed

-----------------------------------------------------------------------------
(* SubsequenceAt *)

\* The k-th element of the subsequence of s is the one at g[k].
TakesFrom(g, s, I) ==
    /\ SubsequenceAt(s, I) = [k \in 1..Cardinality(I) |-> s[g[k]]]
    /\ \A k, l \in 1..Cardinality(I) : k < l => g[k] < g[l]
    /\ \A i \in I : \E k \in 1..Cardinality(I) : g[k] = i

LEMMA SubsequenceValues ==
    ASSUME NEW s, NEW n \in Nat, NEW I \in SUBSET (1..n)
    PROVE  /\ Cardinality(I) \in Nat
           /\ \E g \in [1..Cardinality(I) -> I] : TakesFrom(g, s, I)
<1> DEFINE c == Cardinality(I)
           rank == [i \in I |-> Cardinality(I \cap 1..i)]
           g == [k \in 1..c |-> CHOOSE i \in I : Cardinality(I \cap 1..i) = k]
<1>0. I \subseteq Nat
  OBVIOUS
<1>1. IsFiniteSet(I) /\ c \in Nat
  <2>1. IsFiniteSet(1..n)
    BY FS_Interval
  <2>2. IsFiniteSet(I)
    BY <2>1, FS_Subset
  <2> QED
    BY <2>2, FS_CardinalityType
<1>2. ASSUME NEW i \in I PROVE rank[i] \in 1..c
  <2>0. 0 \in Nat /\ 0 < i
    OBVIOUS
  <2>1. Cardinality(I \cap 1..0) < Cardinality(I \cap 1..i) /\ Cardinality(I \cap 1..i) \in Nat
    BY <2>0, CountsGrow
  <2>2. I \cap 1..0 = {} /\ Cardinality({}) = 0
    BY FS_EmptySet
  <2>3. Cardinality(I \cap 1..i) <= c
    BY <1>1, FS_Subset
  <2> QED
    BY <1>1, <2>1, <2>2, <2>3
<1>3. ASSUME NEW i \in I, NEW j \in I, i < j PROVE rank[i] < rank[j]
  <2>1. i \in Nat
    BY <1>0
  <2> QED
    BY <1>3, <2>1, CountsGrow
<1>4. rank \in Injection(I, 1..c)
  <2>1. ASSUME NEW i \in I, NEW j \in I, rank[i] = rank[j] PROVE i = j
    <3>1. i \in Nat /\ j \in Nat /\ rank[i] \in Nat /\ rank[j] \in Nat
      BY <1>2
    <3>2. ~(i < j) /\ ~(j < i)
      BY <1>3, <2>1, <3>1
    <3> QED
      BY <3>1, <3>2
  <2>2. rank \in [I -> 1..c]
    BY <1>2
  <2> HIDE DEF rank, c
  <2> QED
    BY <2>1, <2>2 DEF Injection, IsInjective
<1>5. ASSUME NEW k \in 1..c PROVE \E i \in I : rank[i] = k
  <2>1. IsFiniteSet(1..c) /\ Cardinality(1..c) = c
    BY <1>1, FS_Interval
  <2> HIDE DEF rank, c
  <2>2. rank \in Surjection(I, 1..c)
    BY <1>4, <2>1, FS_Injection DEF c
  <2> QED
    BY <2>2 DEF Surjection
<1>6. ASSUME NEW k \in 1..c PROVE g[k] \in I /\ rank[g[k]] = k
  BY <1>5
<1>7. SubsequenceAt(s, I) = [k \in 1..c |-> s[g[k]]]
  BY DEF SubsequenceAt
<1> HIDE DEF rank, g, c
<1>8. ASSUME NEW k \in 1..c, NEW l \in 1..c, k < l PROVE g[k] < g[l]
  <2>1. g[k] \in Nat /\ g[l] \in Nat /\ rank[g[k]] = k /\ rank[g[l]] = l
    BY <1>0, <1>6
  <2>2. g[k] # g[l] /\ ~(g[l] < g[k])
    <3>1. ASSUME g[l] < g[k] PROVE FALSE
      <4>1. l < k
        BY <1>3, <1>6, <2>1, <3>1
      <4> QED
        BY <1>8, <4>1
    <3> QED
      BY <1>1, <1>8, <2>1, <3>1
  <2> QED
    BY <2>1, <2>2
<1>9. ASSUME NEW i \in I PROVE \E k \in 1..c : g[k] = i
  <2>1. rank[i] \in 1..c /\ g[rank[i]] \in I /\ rank[g[rank[i]]] = rank[i]
    BY <1>2, <1>6
  <2> QED
    BY <1>4, <2>1 DEF Injection, IsInjective
<1>10. g \in [1..c -> I]
  BY <1>6 DEF g
<1> QED
  BY <1>1, <1>7, <1>8, <1>9, <1>10 DEF c, TakesFrom

LEMMA SubsequenceType ==
    ASSUME NEW T, NEW s, NEW n \in Nat, NEW I \in SUBSET (1..n), \A i \in I : s[i] \in T
    PROVE  SubsequenceAt(s, I) \in Seq(T)
<1>1. PICK g \in [1..Cardinality(I) -> I] : TakesFrom(g, s, I)
  BY SubsequenceValues
<1>2. Cardinality(I) \in Nat
  BY SubsequenceValues
<1>3. SubsequenceAt(s, I) \in [1..Cardinality(I) -> T]
  BY <1>1 DEF TakesFrom
<1> QED
  BY <1>2, <1>3, FunctionIsASequence

\* At all its positions a sequence is its own subsequence.
LEMMA WholeSubsequence ==
    ASSUME NEW T, NEW s \in Seq(T) PROVE SubsequenceAt(s, DOMAIN s) = s
<1> DEFINE n == Len(s)
<1>1. n \in Nat /\ DOMAIN s = 1..n /\ s \in [1..n -> T]
  BY SequenceIsAFunction
<1> HIDE DEF n
<1>2. Cardinality(1..n) = n
  BY <1>1, FS_Interval
<1>3. ASSUME NEW i \in 1..n PROVE Cardinality(1..n \cap 1..i) = i
  <2>1. 1..n \cap 1..i = 1..i
    BY <1>1
  <2>2. Cardinality(1..i) = i
    BY <1>1, FS_Interval
  <2> QED
    BY <2>1, <2>2
<1>4. ASSUME NEW k \in 1..n PROVE (CHOOSE i \in 1..n : Cardinality(1..n \cap 1..i) = k) = k
  BY <1>3
<1>5. SubsequenceAt(s, 1..n) =
         [k \in 1..n |-> s[CHOOSE i \in 1..n : Cardinality(1..n \cap 1..i) = k]]
  BY <1>2, Zenon DEF SubsequenceAt
<1>6. SubsequenceAt(s, 1..n) = [k \in 1..n |-> s[k]]
  BY <1>4, <1>5, Zenon
<1> QED
  BY <1>1, <1>6

-----------------------------------------------------------------------------
(* Operations on the document: what they look up, and their types *)

Items == [id : Ids, href : Names]
References == [type : GuideTypes, href : Names]

LEMMA DocumentParts ==
    ASSUME NEW d \in Documents
    PROVE  /\ d.manifest \in Seq(Items) /\ d.spine \in Seq(Ids \cup {NoId})
           /\ d.guide \in Seq(References) /\ d.cover \in Ids \cup {NoId, NoMeta}
BY DEF Documents, Items, References

LEMMA NewLists ==
    ASSUME NEW d \in Documents, NEW m \in Seq(Items), NEW sp \in Seq(Ids \cup {NoId})
    PROVE  /\ [d EXCEPT !.manifest = m, !.spine = sp] \in Documents
           /\ [d EXCEPT !.manifest = m, !.spine = sp].manifest = m
           /\ [d EXCEPT !.manifest = m, !.spine = sp].spine = sp
BY DEF Documents, Items

LEMMA NewSpine ==
    ASSUME NEW d \in Documents, NEW sp \in Seq(Ids \cup {NoId})
    PROVE  /\ [d EXCEPT !.spine = sp] \in Documents
           /\ [d EXCEPT !.spine = sp].manifest = d.manifest
           /\ [d EXCEPT !.spine = sp].spine = sp
BY DEF Documents

LEMMA NewHrefs ==
    ASSUME NEW d \in Documents, NEW m \in Seq(Items), NEW g \in Seq(References)
    PROVE  /\ [d EXCEPT !.manifest = m, !.guide = g] \in Documents
           /\ [d EXCEPT !.manifest = m, !.guide = g].manifest = m
           /\ [d EXCEPT !.manifest = m, !.guide = g].spine = d.spine
BY DEF Documents, Items, References

LEMMA NewGuide ==
    ASSUME NEW d \in Documents, NEW g \in Seq(References)
    PROVE  /\ [d EXCEPT !.guide = g] \in Documents
           /\ [d EXCEPT !.guide = g].manifest = d.manifest
           /\ [d EXCEPT !.guide = g].spine = d.spine
BY DEF Documents, References

LEMMA NewCover ==
    ASSUME NEW d \in Documents, NEW c \in Ids \cup {NoId, NoMeta}
    PROVE  /\ [d EXCEPT !.cover = c] \in Documents
           /\ [d EXCEPT !.cover = c].manifest = d.manifest
           /\ [d EXCEPT !.cover = c].spine = d.spine
BY DEF Documents

\* ItemOf is the place of the first item with the href.
LEMMA ItemFound ==
    ASSUME NEW d \in Documents, NEW n
    PROVE  /\ ItemOf(d, n) \in 0..Len(d.manifest) /\ Len(d.manifest) \in Nat
           /\ ItemOf(d, n) = 0 <=> \A i \in DOMAIN d.manifest : d.manifest[i].href # n
           /\ ItemOf(d, n) # 0 => /\ ItemOf(d, n) \in DOMAIN d.manifest
                                  /\ d.manifest[ItemOf(d, n)].href = n
<1> DEFINE m == d.manifest
           I == {i \in 1..Len(m) : m[i].href = n}
<1>1. m \in Seq(Items)
  BY DocumentParts
<1>2. Len(m) \in Nat /\ DOMAIN m = 1..Len(m)
  BY <1>1, SequenceIsAFunction
<1>3. ItemOf(d, n) = IF I # {} THEN Min(I) ELSE 0
  BY DEF ItemOf, SelectInSeq
<1>4. I \in SUBSET (1..Len(m))
  OBVIOUS
<1> HIDE DEF I
<1>5. /\ ItemOf(d, n) \in 0..Len(m) /\ (ItemOf(d, n) = 0 <=> I = {})
      /\ ItemOf(d, n) # 0 => ItemOf(d, n) \in I
  BY <1>2, <1>3, <1>4, FirstPosition
<1> QED
  BY <1>2, <1>5 DEF I

\* ItemrefOf is the place of the first itemref with the id.
LEMMA ItemrefFound ==
    ASSUME NEW d \in Documents, NEW id
    PROVE  /\ ItemrefOf(d, id) \in 0..Len(d.spine) /\ Len(d.spine) \in Nat
           /\ ItemrefOf(d, id) = 0 <=> \A i \in DOMAIN d.spine : d.spine[i] # id
           /\ ItemrefOf(d, id) # 0 => /\ ItemrefOf(d, id) \in DOMAIN d.spine
                                      /\ d.spine[ItemrefOf(d, id)] = id
                                      /\ \A i \in DOMAIN d.spine : d.spine[i] = id => ItemrefOf(d, id) <= i
<1> DEFINE sp == d.spine
           I == {i \in 1..Len(sp) : sp[i] = id}
<1>1. sp \in Seq(Ids \cup {NoId})
  BY DocumentParts
<1>2. Len(sp) \in Nat /\ DOMAIN sp = 1..Len(sp)
  BY <1>1, SequenceIsAFunction
<1>3. ItemrefOf(d, id) = IF I # {} THEN Min(I) ELSE 0
  BY DEF ItemrefOf, SelectInSeq
<1>4. I \in SUBSET (1..Len(sp))
  OBVIOUS
<1> HIDE DEF I
<1>5. /\ ItemrefOf(d, id) \in 0..Len(sp) /\ (ItemrefOf(d, id) = 0 <=> I = {})
      /\ ItemrefOf(d, id) # 0 => ItemrefOf(d, id) \in I /\ \A i \in I : ItemrefOf(d, id) <= i
  BY <1>2, <1>3, <1>4, FirstPosition
<1> QED
  BY <1>2, <1>5 DEF I

LEMMA ReferenceFound ==
    ASSUME NEW d \in Documents, NEW n
    PROVE  GetGuideReference(d, n) # 0 => GetGuideReference(d, n) \in DOMAIN d.guide
<1> DEFINE g == d.guide
           I == {i \in 1..Len(g) : g[i].href = n}
<1>1. g \in Seq(References)
  BY DocumentParts
<1>2. Len(g) \in Nat /\ DOMAIN g = 1..Len(g)
  BY <1>1, SequenceIsAFunction
<1>3. GetGuideReference(d, n) = IF I # {} THEN Min(I) ELSE 0
  BY DEF GetGuideReference, SelectInSeq
<1>4. I \in SUBSET (1..Len(g))
  OBVIOUS
<1> HIDE DEF I
<1>5. GetGuideReference(d, n) # 0 => GetGuideReference(d, n) \in I
  BY <1>2, <1>3, <1>4, FirstPosition
<1> QED
  BY <1>2, <1>4, <1>5

LEMMA IdType ==
    ASSUME NEW d \in Documents, NEW i, i = 0 \/ i \in DOMAIN d.manifest
    PROVE  IdAt(d, i) \in Ids \cup {NoId}
<1>1. d.manifest \in Seq(Items)
  BY DocumentParts
<1>2. i # 0 => d.manifest[i] \in Items
  BY <1>1, SequenceIsAFunction
<1> QED
  BY <1>2 DEF IdAt, Items

LEMMA IdOfAName == ASSUME NEW n \in Names PROVE ValidID[n] \in Ids
BY DEF Ids

LEMMA AddType ==
    ASSUME NEW d \in Documents, NEW n \in Names, NEW isChapter \in BOOLEAN
    PROVE  AddResource(d, n, isChapter) \in Documents
<1>1. Append(d.manifest, [id |-> ValidID[n], href |-> n]) \in Seq(Items)
  <2>1. [id |-> ValidID[n], href |-> n] \in Items
    BY IdOfAName DEF Items
  <2> QED
    BY <2>1, DocumentParts
<1>2. (IF isChapter THEN Append(d.spine, ValidID[n]) ELSE d.spine) \in Seq(Ids \cup {NoId})
  BY DocumentParts, IdOfAName
<1> QED
  BY <1>1, <1>2, NewLists DEF AddResource

\* RemoveFirst takes the first itemref with the id out of the spine.
LEMMA RemoveItemref ==
    ASSUME NEW d \in Documents, NEW id
    PROVE  RemoveFirst(d.spine, id) = IF ItemrefOf(d, id) = 0 THEN d.spine
                                      ELSE RemoveAt(d.spine, ItemrefOf(d, id))
<1>1. d.spine \in Seq(Ids \cup {NoId})
  BY DocumentParts
<1>2. DOMAIN d.spine = 1..Len(d.spine)
  BY <1>1, SequenceIsAFunction
<1>3. RemoveFirst(d.spine, id) = IF \E i \in 1..Len(d.spine) : d.spine[i] = id
                                 THEN RemoveAt(d.spine, ItemrefOf(d, id)) ELSE d.spine
  BY DEF RemoveFirst, ItemrefOf, SelectInSeq
<1> QED
  BY <1>2, <1>3, ItemrefFound

LEMMA RemoveType ==
    ASSUME NEW d \in Documents, NEW n, NEW isChapter \in BOOLEAN
    PROVE  RemoveResource(d, n, isChapter) \in Documents
<1> DEFINE i == ItemOf(d, n)
           k == ItemrefOf(d, IdAt(d, i))
           m == IF i = 0 THEN d.manifest ELSE RemoveAt(d.manifest, i)
           sp == IF isChapter THEN RemoveFirst(d.spine, IdAt(d, i)) ELSE d.spine
<1>1. d.manifest \in Seq(Items) /\ d.spine \in Seq(Ids \cup {NoId})
  BY DocumentParts
<1>2. m \in Seq(Items)
  BY <1>1, ItemFound, RemoveAtType
<1>3. sp \in Seq(Ids \cup {NoId})
  <2>1. k # 0 => k \in DOMAIN d.spine
    BY ItemrefFound
  <2>2. RemoveFirst(d.spine, IdAt(d, i)) = IF k = 0 THEN d.spine ELSE RemoveAt(d.spine, k)
    BY RemoveItemref
  <2> HIDE DEF k
  <2> QED
    BY <1>1, <2>1, <2>2, RemoveAtType
<1>4. RemoveResource(d, n, isChapter) = [d EXCEPT !.manifest = m, !.spine = sp]
  BY DEF RemoveResource
<1> HIDE DEF m, sp
<1>5. [d EXCEPT !.manifest = m, !.spine = sp] \in Documents
  BY <1>2, <1>3, NewLists
<1> QED
  BY <1>4, <1>5

LEMMA PathFound ==
    ASSUME NEW d \in Documents, NEW path
    PROVE  ItemOfPath(d, path) # 0 => ItemOfPath(d, path) \in DOMAIN d.manifest
                                      /\ ItemOfPath(d, path) = ItemOf(d, path)
BY ItemFound DEF ItemOfPath

LEMMA RenamedType ==
    ASSUME NEW d \in Documents, NEW old, NEW new \in Names
    PROVE  ResourceRenamed(d, old, new) \in Documents
<1> DEFINE i == ItemOfPath(d, old)
           k == ItemrefOf(d, IdAt(d, i))
           m == [d.manifest EXCEPT ![i] = [id |-> ValidID[new], href |-> new]]
           sp == IF k = 0 THEN d.spine ELSE ReplaceAt(d.spine, k, ValidID[new])
<1>1. CASE i = 0
  BY <1>1 DEF ResourceRenamed
<1>2. CASE i # 0
  <2>1. d.manifest \in Seq(Items) /\ d.spine \in Seq(Ids \cup {NoId})
    BY DocumentParts
  <2>2. i \in DOMAIN d.manifest /\ [id |-> ValidID[new], href |-> new] \in Items
    BY <1>2, PathFound, IdOfAName DEF Items
  <2>3. m \in Seq(Items)
    BY <2>1, <2>2, ReplaceType
  <2>4. sp \in Seq(Ids \cup {NoId})
    <3>1. k # 0 => k \in DOMAIN d.spine
      BY ItemrefFound
    <3> HIDE DEF k
    <3> QED
      BY <2>1, <3>1, IdOfAName, ReplaceType DEF ReplaceAt
  <2>5. ResourceRenamed(d, old, new) = [d EXCEPT !.manifest = m, !.spine = sp]
    BY <1>2 DEF ResourceRenamed, Documents
  <2> HIDE DEF m, sp
  <2>6. [d EXCEPT !.manifest = m, !.spine = sp] \in Documents
    BY <2>3, <2>4, NewLists
  <2> QED
    BY <2>5, <2>6
<1> QED
  BY <1>1, <1>2

LEMMA PathsType ==
    ASSUME NEW d \in Documents, NEW old, NEW new \in Names
    PROVE  UpdatePaths(d, old, new) \in Documents
<1> DEFINE updated(s) == [i \in DOMAIN s |-> IF s[i].href = old
                                             THEN [s[i] EXCEPT !.href = new] ELSE s[i]]
<1>1. d.manifest \in Seq(Items) /\ d.guide \in Seq(References)
  BY DocumentParts
<1>2. \A i \in DOMAIN d.manifest : d.manifest[i] \in Items
  BY <1>1, SequenceIsAFunction
<1>3. \A i \in DOMAIN d.guide : d.guide[i] \in References
  BY <1>1, SequenceIsAFunction
<1>4. updated(d.manifest) \in [DOMAIN d.manifest -> Items]
  BY <1>2 DEF Items
<1>5. updated(d.guide) \in [DOMAIN d.guide -> References]
  BY <1>3 DEF References
<1>6. UpdatePaths(d, old, new) = [d EXCEPT !.manifest = updated(d.manifest), !.guide = updated(d.guide)]
  BY DEF UpdatePaths
<1> HIDE DEF updated
<1>7. updated(d.manifest) \in Seq(Items) /\ updated(d.guide) \in Seq(References)
  BY <1>1, <1>4, <1>5, MapType
<1>8. [d EXCEPT !.manifest = updated(d.manifest), !.guide = updated(d.guide)] \in Documents
  BY <1>7, NewHrefs
<1> QED
  BY <1>6, <1>8

LEMMA ItemrefsType ==
    ASSUME NEW d \in Documents, NEW names, NEW n \in Nat, DOMAIN names = 1..n
    PROVE  GetItemrefsForHTMLResources(d, names) \in [1..n -> Ids \cup {NoId}]
BY PathFound, IdType DEF GetItemrefsForHTMLResources

LEMMA SpineOrderType ==
    ASSUME NEW d \in Documents, NEW names, NEW n \in Nat, DOMAIN names = 1..n
    PROVE  UpdateSpineOrder(d, names) \in Documents
<1> DEFINE id == GetItemrefsForHTMLResources(d, names)
           stays(k) == \/ ItemrefOf(d, id[k]) = 0
                       \/ \A j \in DOMAIN names : j > k => id[j] # id[k]
           I == {k \in DOMAIN names : stays(k)}
<1>1. id \in [1..n -> Ids \cup {NoId}]
  BY ItemrefsType
<1>2. I \in SUBSET (1..n)
  OBVIOUS
<1>3. UpdateSpineOrder(d, names) = [d EXCEPT !.spine = SubsequenceAt(id, I)]
  BY DEF UpdateSpineOrder
<1> HIDE DEF id, I
<1>4. SubsequenceAt(id, I) \in Seq(Ids \cup {NoId})
  BY <1>1, <1>2, SubsequenceType
<1> QED
  BY <1>3, <1>4, NewSpine, ZenonT(60)

LEMMA GuideType ==
    ASSUME NEW d \in Documents, NEW n \in Names, NEW type \in GuideTypes
    PROVE  AddGuideSemanticType(d, n, type) \in Documents
<1>1. ASSUME NEW e \in Documents PROVE SetGuideSemanticType(e, n, type) \in Documents
  <2> DEFINE r == GetGuideReference(e, n)
  <2>1. e.guide \in Seq(References)
    BY DocumentParts
  <2>2. r # 0 => r \in DOMAIN e.guide
    BY ReferenceFound
  <2> HIDE DEF r
  <2>3. CASE r = 0
    <3>1. Append(e.guide, [type |-> type, href |-> n]) \in Seq(References)
      BY <2>1 DEF References
    <3> QED
      BY <2>3, <3>1, NewGuide DEF SetGuideSemanticType, r
  <2>4. CASE r # 0
    <3>1. e.guide[r] \in References
      BY <2>1, <2>2, <2>4, SequenceIsAFunction
    <3>2. [e.guide[r] EXCEPT !.type = type] \in References
      BY <3>1 DEF References
    <3>3. [e.guide EXCEPT ![r] = [e.guide[r] EXCEPT !.type = type]] \in Seq(References)
      BY <2>1, <2>2, <2>4, <3>2, ReplaceType
    <3>4. SetGuideSemanticType(e, n, type) =
             [e EXCEPT !.guide = [e.guide EXCEPT ![r] = [e.guide[r] EXCEPT !.type = type]]]
      BY <2>4 DEF SetGuideSemanticType, r
    <3> QED
      BY <3>3, <3>4, NewGuide
  <2> QED
    BY <2>3, <2>4
<1>2. RemoveDuplicateGuideTypes(d, type) \in Documents
  <2> DEFINE I == {k \in DOMAIN d.guide : d.guide[k].type # type}
  <2>1. d.guide \in Seq(References)
    BY DocumentParts
  <2>2. I \in SUBSET (1..Len(d.guide)) /\ Len(d.guide) \in Nat /\ \A i \in I : d.guide[i] \in References
    BY <2>1, SequenceIsAFunction
  <2> HIDE DEF I
  <2>3. SubsequenceAt(d.guide, I) \in Seq(References)
    BY <2>2, SubsequenceType
  <2> QED
    BY <2>3, NewGuide DEF RemoveDuplicateGuideTypes, I
<1>3. GetGuideReference(d, n) \in DOMAIN d.guide => RemoveAt(d.guide, GetGuideReference(d, n)) \in Seq(References)
  BY DocumentParts, RemoveAtType
<1>4. CASE GetGuideSemanticType(d, n) = type /\ GetGuideReference(d, n) # 0
  BY <1>3, <1>4, ReferenceFound, NewGuide DEF AddGuideSemanticType
<1>5. CASE GetGuideSemanticType(d, n) # type
  BY <1>1, <1>2, <1>5 DEF AddGuideSemanticType
<1>6. CASE GetGuideReference(d, n) = 0
  BY <1>1, <1>2, <1>6, GuideAssumption DEF AddGuideSemanticType, GetGuideSemanticType
<1> QED
  BY <1>4, <1>5, <1>6

LEMMA CoverType ==
    ASSUME NEW d \in Documents, NEW n \in Names
    PROVE  SetResourceAsCoverImage(d, n) \in Documents
<1>1. GetResourceManifestID(d, n) \in Ids \cup {NoId}
  BY ItemFound, IdType DEF GetResourceManifestID
<1> QED
  BY <1>1, NewCover DEF SetResourceAsCoverImage

-----------------------------------------------------------------------------
(* The chapters in reading order *)

LastItemOf(d, id) == SelectLastInSeq(d.manifest, LAMBDA item : item.id = id)

\* LastItemOf is the place of the last item with the id.
LEMMA LastItemFound ==
    ASSUME NEW d \in Documents, NEW id
    PROVE  /\ LastItemOf(d, id) = 0 <=> \A i \in DOMAIN d.manifest : d.manifest[i].id # id
           /\ LastItemOf(d, id) # 0 => /\ LastItemOf(d, id) \in DOMAIN d.manifest
                                       /\ d.manifest[LastItemOf(d, id)].id = id
<1> DEFINE m == d.manifest
           I == {i \in 1..Len(m) : m[i].id = id}
<1>1. m \in Seq(Items)
  BY DocumentParts
<1>2. Len(m) \in Nat /\ DOMAIN m = 1..Len(m)
  BY <1>1, SequenceIsAFunction
<1>3. LastItemOf(d, id) = IF I # {} THEN Max(I) ELSE 0
  BY DEF LastItemOf, SelectLastInSeq
<1>4. I \in SUBSET (1..Len(m))
  OBVIOUS
<1> HIDE DEF I
<1>5. /\ (LastItemOf(d, id) = 0 <=> I = {})
      /\ LastItemOf(d, id) # 0 => LastItemOf(d, id) \in I
  BY <1>2, <1>3, <1>4, LastPosition
<1> QED
  BY <1>2, <1>5 DEF I

KnownItemrefs(d) == {k \in DOMAIN d.spine :
                        \E i \in DOMAIN d.manifest : d.manifest[i].id = d.spine[k]}

\* Every itemref that leads to an item gives the name of a file.
LEMMA SpineFilenames ==
    ASSUME NEW d \in Documents
    PROVE  /\ GetSpineOrderFilenames(d) \in Seq(Names)
           /\ GetSpineOrderFilenames(d) =
                [k \in DOMAIN SubsequenceAt(d.spine, KnownItemrefs(d)) |->
                   d.manifest[LastItemOf(d, SubsequenceAt(d.spine, KnownItemrefs(d))[k])].href]
<1> DEFINE I == KnownItemrefs(d)
           known == SubsequenceAt(d.spine, I)
           T == {id \in Ids \cup {NoId} : \E i \in DOMAIN d.manifest : d.manifest[i].id = id}
           names == [k \in DOMAIN known |-> d.manifest[LastItemOf(d, known[k])].href]
<1>1. d.manifest \in Seq(Items) /\ d.spine \in Seq(Ids \cup {NoId})
  BY DocumentParts
<1>2. /\ Len(d.spine) \in Nat /\ DOMAIN d.spine = 1..Len(d.spine)
      /\ \A k \in DOMAIN d.spine : d.spine[k] \in Ids \cup {NoId}
      /\ \A i \in DOMAIN d.manifest : d.manifest[i] \in Items
  BY <1>1, SequenceIsAFunction
<1>3. I \in SUBSET (1..Len(d.spine)) /\ \A k \in I : d.spine[k] \in T
  BY <1>2 DEF KnownItemrefs
<1> HIDE DEF I, T
<1>4. known \in Seq(T)
  BY <1>2, <1>3, SubsequenceType
<1> HIDE DEF known
<1>5. \A k \in DOMAIN known : known[k] \in T
  BY <1>4, SequenceIsAFunction
<1>6. ASSUME NEW k \in DOMAIN known PROVE d.manifest[LastItemOf(d, known[k])].href \in Names
  <2>1. LastItemOf(d, known[k]) # 0
    BY <1>5, LastItemFound DEF T
  <2>2. LastItemOf(d, known[k]) \in DOMAIN d.manifest
    BY <2>1, LastItemFound
  <2> QED
    BY <1>2, <2>2 DEF Items
<1>7. names \in [DOMAIN known -> Names]
  BY <1>6
<1>8. GetSpineOrderFilenames(d) = names
  BY DEF GetSpineOrderFilenames, LastItemOf, known, I, KnownItemrefs
<1> HIDE DEF names
<1>9. names \in Seq(Names)
  BY <1>4, <1>7, MapType
<1> QED
  BY <1>8, <1>9 DEF names, known, I

\* The chapters that the spine lists, each once
LEMMA ChaptersOnce ==
    ASSUME NEW d \in Documents, NEW files
    PROVE  /\ ToSet(ChaptersInSpine(d, files)) \subseteq Chapters(files)
           /\ Enumerates(ChaptersInSpine(d, files), ToSet(ChaptersInSpine(d, files)))
<1> DEFINE names == GetSpineOrderFilenames(d)
           chapter(n) == {r \in Chapters(files) : files[r] = n}
           I == {k \in DOMAIN names : /\ chapter(names[k]) # {}
                                      /\ \A j \in 1..(k - 1) : names[j] # names[k]}
           f == [k \in I |-> CHOOSE r \in chapter(names[k]) : TRUE]
           s == SubsequenceAt(f, I)
           c == Cardinality(I)
<1>1. Len(names) \in Nat /\ DOMAIN names = 1..Len(names)
  BY SpineFilenames, SequenceIsAFunction
<1> HIDE DEF names
<1>2. I \in SUBSET (1..Len(names))
  BY <1>1
<1>3. \A k \in I : f[k] \in Chapters(files) /\ files[f[k]] = names[k]
  OBVIOUS
<1>4. ASSUME NEW k \in I, NEW l \in I, f[k] = f[l] PROVE k = l
  <2>1. names[k] = names[l] /\ k \in Nat /\ l \in Nat /\ k > 0 /\ l > 0
    BY <1>2, <1>3, <1>4
  <2>2. ~(k < l) /\ ~(l < k)
    BY <2>1
  <2> QED
    BY <2>1, <2>2
<1>5. ChaptersInSpine(d, files) = s
  BY DEF ChaptersInSpine, names
<1> HIDE DEF I, f
<1>6. c \in Nat
  BY <1>1, <1>2, SubsequenceValues
<1>7. PICK g \in [1..c -> I] : TakesFrom(g, f, I)
  BY <1>1, <1>2, SubsequenceValues
<1>8. s = [k \in 1..c |-> f[g[k]]] /\ \A k, l \in 1..c : k < l => g[k] < g[l]
  BY <1>7 DEF TakesFrom
<1> HIDE DEF s, c
<1>9. s \in [1..c -> Chapters(files)]
  BY <1>3, <1>8
<1>10. s \in Seq(Chapters(files)) /\ DOMAIN s = 1..c
  BY <1>6, <1>9, FunctionIsASequence
<1>11. ASSUME NEW k \in DOMAIN s, NEW l \in DOMAIN s, s[k] = s[l] PROVE k = l
  <2>0. k \in 1..c /\ l \in 1..c /\ g[k] \in I /\ g[l] \in I /\ f[g[k]] = f[g[l]]
    BY <1>8, <1>10, <1>11
  <2>1. g[k] = g[l]
    BY <1>4, <2>0
  <2>2. g[k] \in Nat /\ g[l] \in Nat /\ k \in Nat /\ l \in Nat
    <3>1. g[k] \in 1..Len(names) /\ g[l] \in 1..Len(names)
      BY <1>2, <2>0
    <3>2. k \in Nat /\ l \in Nat
      BY <1>6, <2>0
    <3> QED
      BY <1>1, <3>1, <3>2
  <2>3. ~(k < l) /\ ~(l < k)
    BY <1>8, <2>0, <2>1, <2>2
  <2> QED
    BY <2>2, <2>3
<1>12. Enumerates(s, ToSet(s)) /\ ToSet(s) \subseteq Chapters(files)
  <2>1. \A i \in DOMAIN s : s[i] \in ToSet(s)
    BY DEF ToSet
  <2>2. \A x \in ToSet(s) : \E i \in DOMAIN s : s[i] = x
    BY DEF ToSet
  <2>3. ToSet(s) \subseteq Chapters(files)
    BY <1>9, <1>10 DEF ToSet
  <2> QED
    BY <1>10, <1>11, <2>1, <2>2, <2>3, EnumerationOf
<1> QED
  BY <1>5, <1>12

\* GetResourceTypeList( true ) returns every chapter once.
LEMMA OrdersEnumerate ==
    ASSUME NEW d \in Documents, NEW files, IsFiniteSet(DOMAIN files),
           NEW s \in ReadingOrders(d, files)
    PROVE  Enumerates(s, Chapters(files))
<1> DEFINE inSpine == ChaptersInSpine(d, files)
           others == Chapters(files) \ ToSet(inSpine)
<1>1. PICK rest \in SetToSeqs(others) : s = inSpine \o rest
  BY DEF ReadingOrders
<1>2. IsFiniteSet(others)
  BY FS_Subset DEF Chapters
<1>3. Enumerates(rest, others)
  BY <1>2, SetToSeqsEnumerates
<1>4. ToSet(inSpine) \subseteq Chapters(files) /\ Enumerates(inSpine, ToSet(inSpine))
  BY ChaptersOnce
<1> HIDE DEF inSpine
<1>5. Enumerates(s, ToSet(inSpine) \cup others)
  BY <1>1, <1>3, <1>4, ConcatEnumerates
<1>6. ToSet(inSpine) \cup others = Chapters(files)
  BY <1>4
<1> QED
  BY <1>5, <1>6

-----------------------------------------------------------------------------
(* Type correctness *)

\* A book has finitely many files.
TypesAndSize == TypeInv /\ IsFiniteSet(Live)

FilesOK(files) ==
    /\ DOMAIN files \subseteq Resources /\ IsFiniteSet(DOMAIN files)
    /\ \A r \in DOMAIN files : files[r] \in NamesFor(r)

LEMMA FileNames ==
    /\ \A r : NamesFor(r) \subseteq Names
    /\ \A i \in DOMAIN Section : Section[i] \in HTMLNames
<1>1. DOMAIN Section = 1..Len(Section) /\ Section \in [1..Len(Section) -> HTMLNames \cap Plain]
  BY SectionAssumption, SequenceIsAFunction
<1> QED
  BY <1>1, FilenamesAssumption DEF NamesFor

LEMMA WithValues ==
    ASSUME NEW files, NEW r, NEW n
    PROVE  /\ DOMAIN With(files, r, n) = DOMAIN files \cup {r}
           /\ With(files, r, n)[r] = n
           /\ \A x \in DOMAIN files : x # r => With(files, r, n)[x] = files[x]
BY DEF With

LEMMA WithoutValues ==
    ASSUME NEW files, NEW r
    PROVE  /\ DOMAIN Without(files, r) = DOMAIN files \ {r}
           /\ \A x \in DOMAIN files \ {r} : Without(files, r)[x] = files[x]
BY DEF Without, Restrict

LEMMA FilesStayOK ==
    ASSUME NEW files, FilesOK(files), NEW r
    PROVE  /\ \A n \in NamesFor(r) : r \in Resources => FilesOK(With(files, r, n))
           /\ FilesOK(Without(files, r))
           /\ \A n \in NamesFor(r) : r \in DOMAIN files => FilesOK([files EXCEPT ![r] = n])
<1>1. IsFiniteSet(DOMAIN files \cup {r}) /\ IsFiniteSet(DOMAIN files \ {r})
  BY FS_AddElement, FS_Subset DEF FilesOK
<1>2. ASSUME NEW n \in NamesFor(r), r \in Resources PROVE FilesOK(With(files, r, n))
  <2>1. /\ DOMAIN With(files, r, n) = DOMAIN files \cup {r}
        /\ With(files, r, n)[r] = n
        /\ \A x \in DOMAIN files : x # r => With(files, r, n)[x] = files[x]
    BY DEF With
  <2> QED
    BY <1>1, <1>2, <2>1, Zenon DEF FilesOK
<1>3. FilesOK(Without(files, r))
  BY <1>1, WithoutValues DEF FilesOK
<1>4. ASSUME NEW n \in NamesFor(r), r \in DOMAIN files PROVE FilesOK([files EXCEPT ![r] = n])
  BY <1>4 DEF FilesOK
<1> QED
  BY <1>2, <1>3, <1>4

\* Outside a batch the variables of the batch are empty.
LEMMA TypesOutsideBatch ==
    ASSUME TypeInv, asked = 0, UNCHANGED batch_vars,
           FilesOK(filename'), opf' \in Documents, UNCHANGED cache
    PROVE  TypesAndSize'
<1>1. DOMAIN created = {}
  <2>1. DOMAIN created \subseteq 1..0
    BY DEF TypeInv
  <2> QED
    BY <2>1
<1>2. Range(created) = {}
  BY <1>1 DEF Range
<1> QED
  BY <1>1, <1>2 DEF TypesAndSize, TypeInv, FilesOK, Live, batch_vars

LEMMA TypesOfChapters ==
    ASSUME NEW files, FilesOK(files), NEW n \in Nat, NEW s, DOMAIN s = 1..n
    PROVE  DOMAIN FilenamesOf(s, files) = 1..n
BY DEF FilenamesOf

LEMMA EnumerationDomain ==
    ASSUME NEW s, NEW S, Enumerates(s, S)
    PROVE  \E n \in Nat : DOMAIN s = 1..n
BY EnumerationHas

\* The list UpdateHTMLReadingOrders makes
LEMMA MovedEnumerates ==
    ASSUME NEW s, NEW S, Enumerates(s, S), NEW r \in S, NEW k \in 1..Cardinality(S)
    PROVE  Enumerates(InsertAt(RemoveFirst(s, r), k, r), S)
<1>1. Enumerates(RemoveFirst(s, r), S \ {r})
  BY RemoveFirstEnumerates
<1>2. IsFiniteSet(S)
  BY EnumerationLength
<1>3. Cardinality(S \ {r}) = Cardinality(S) - 1 /\ Cardinality(S) \in Nat
  BY <1>2, FS_RemoveElement, FS_CardinalityType
<1>4. Len(RemoveFirst(s, r)) = Cardinality(S) - 1
  BY <1>1, <1>3, EnumerationLength
<1>5. k \in 1..(Len(RemoveFirst(s, r)) + 1)
  BY <1>3, <1>4
<1>6. Enumerates(InsertAt(RemoveFirst(s, r), k, r), (S \ {r}) \cup {r})
  BY <1>1, <1>5, InsertEnumerates
<1>7. (S \ {r}) \cup {r} = S
  OBVIOUS
<1> QED
  BY <1>6, <1>7

\* The list of a split
LEMMA InsertedEnumerates ==
    ASSUME NEW s, NEW S, Enumerates(s, S), NEW e, e \notin S, NEW i \in Nat
    PROVE  Enumerates(Insert(s, i, e), S \cup {e})
<1>1. Len(s) \in Nat
  BY EnumerationHas
<1>2. Max({1, Min({i, Len(s) + 1})}) \in 1..(Len(s) + 1)
  BY <1>1, WithinBounds
<1> QED
  BY <1>2, InsertEnumerates DEF Insert

\* The list a batch leaves
LEMMA BatchEnumerates ==
    ASSUME NEW s, NEW S, Enumerates(s, S), NEW n \in Nat,
           IsInjective(created), DOMAIN created = 1..n, Range(created) \cap S = {}
    PROVE  Enumerates(s \o [i \in 1..n |-> created[i]], S \cup Range(created))
<1> DEFINE t == [i \in 1..n |-> created[i]]
<1>1. t \in [1..n -> Range(created)]
  BY DEF Range
<1>2. t \in Seq(Range(created)) /\ DOMAIN t = 1..n
  BY <1>1, FunctionIsASequence
<1>3. /\ \A i \in DOMAIN t : t[i] \in Range(created)
      /\ \A i, j \in DOMAIN t : t[i] = t[j] => i = j
      /\ \A x \in Range(created) : \E i \in DOMAIN t : t[i] = x
  BY <1>2 DEF Range, IsInjective
<1> HIDE DEF t
<1>4. Enumerates(t, Range(created))
  BY <1>2, <1>3, EnumerationOf
<1> QED
  BY <1>4, ConcatEnumerates DEF t

LEMMA ReadingOrderType ==
    ASSUME NEW d \in Documents, NEW n
    PROVE  GetReadingOrder(d, n) \in Nat
BY ItemrefFound DEF GetReadingOrder

LEMMA ContentFileTypes ==
    ASSUME TypesAndSize, NEW r \in Resources, NEW n \in NamesFor(r), AddContentFile(r, n) \/ Rename(r, n)
    PROVE  TypesAndSize'
<1>1. /\ asked = 0 /\ UNCHANGED batch_vars /\ UNCHANGED cache
      /\ TypeInv /\ opf \in Documents /\ FilesOK(filename)
  BY DEF AddContentFile, Rename, Ready, SetText, TypesAndSize, TypeInv, FilesOK, Live
<1>2. n \in Names
  BY FileNames
<1>3. CASE AddContentFile(r, n)
  <2>1. opf' = AddResource(opf, n, IsChapter(r)) /\ filename' = With(filename, r, n)
    BY <1>3 DEF AddContentFile, SetText
  <2>2. AddResource(opf, n, IsChapter(r)) \in Documents
    <3>1. IsChapter(r) \in BOOLEAN
      BY DEF IsChapter
    <3> QED
      BY <1>1, <1>2, <3>1, AddType
  <2>3. FilesOK(With(filename, r, n))
    BY <1>1, FilesStayOK
  <2> QED
    BY <1>1, <2>1, <2>2, <2>3, TypesOutsideBatch
<1>4. CASE Rename(r, n)
  <2>1. /\ opf' = UpdatePaths(ResourceRenamed(opf, filename[r], n), filename[r], n)
        /\ filename' = [filename EXCEPT ![r] = n] /\ r \in DOMAIN filename
    BY <1>4 DEF Rename, SetText, Live
  <2>2. opf' \in Documents
    BY <1>1, <1>2, <2>1, RenamedType, PathsType
  <2>3. FilesOK(filename')
    BY <1>1, <2>1, FilesStayOK
  <2> QED
    BY <1>1, <2>2, <2>3, TypesOutsideBatch
<1> QED
  BY <1>3, <1>4

LEMMA DropTypes ==
    ASSUME TypesAndSize, NEW r, Ready, Drop(r)
    PROVE  TypesAndSize'
<1>1. /\ asked = 0 /\ UNCHANGED batch_vars /\ UNCHANGED cache
      /\ TypeInv /\ opf \in Documents /\ FilesOK(filename)
  BY DEF Drop, Ready, SetText, TypesAndSize, TypeInv, FilesOK, Live
<1>2. /\ opf' = RemoveResource(opf, filename[r], IsChapter(r))
      /\ filename' = Without(filename, r)
  BY DEF Drop, SetText
<1>3. opf' \in Documents
  <2>1. IsChapter(r) \in BOOLEAN
    BY DEF IsChapter
  <2>2. RemoveResource(opf, filename[r], IsChapter(r)) \in Documents
    BY <1>1, <2>1, RemoveType
  <2> QED
    BY <1>2, <2>2
<1>4. FilesOK(filename')
  BY <1>1, <1>2, FilesStayOK
<1> QED
  BY <1>1, <1>3, <1>4, TypesOutsideBatch

LEMMA MoveTypes ==
    ASSUME TypesAndSize, NEW r, NEW k, MoveHTML(r, k)
    PROVE  TypesAndSize'
<1>1. /\ asked = 0 /\ UNCHANGED batch_vars /\ UNCHANGED cache /\ UNCHANGED filename
      /\ TypeInv /\ opf \in Documents /\ FilesOK(filename)
      /\ r \in Chapters(filename) /\ k \in 1..Cardinality(Chapters(filename))
  BY DEF MoveHTML, Ready, SetText, TypesAndSize, TypeInv, FilesOK, Live
<1>2. PICK s \in ReadingOrders(opf, filename) :
         opf' = UpdateSpineOrder(opf, FilenamesOf(InsertAt(RemoveFirst(s, r), k, r), filename))
  BY DEF MoveHTML, SetText
<1> DEFINE moved == InsertAt(RemoveFirst(s, r), k, r)
<1>3. Enumerates(s, Chapters(filename))
  BY <1>1, OrdersEnumerate DEF FilesOK
<1>4. Enumerates(moved, Chapters(filename))
  BY <1>1, <1>3, MovedEnumerates
<1> HIDE DEF moved
<1>5. PICK n \in Nat : DOMAIN moved = 1..n
  BY <1>4, EnumerationDomain
<1>6. DOMAIN FilenamesOf(moved, filename) = 1..n
  BY <1>5 DEF FilenamesOf
<1>7. UpdateSpineOrder(opf, FilenamesOf(moved, filename)) \in Documents
  BY <1>1, <1>6, SpineOrderType
<1>8. opf' \in Documents
  BY <1>2, <1>7 DEF moved
<1> QED
  BY <1>1, <1>8, TypesOutsideBatch

LEMMA SplitTypes ==
    ASSUME TypesAndSize, NEW r, NEW new \in HTMLs, SplitChapter(r, new)
    PROVE  TypesAndSize'
<1> DEFINE v == UniqueVersion(1, filename)
           files1 == [filename EXCEPT ![r] = Section[v]]
           opf1 == ResourceRenamed(opf, filename[r], Section[v])
           w == UniqueVersion(1, files1)
           opf2 == ResourceRenamed(AddResource(opf1, Section[w], TRUE), Section[w], filename[r])
           i == GetReadingOrder(opf1, Section[v])
<1>1. /\ asked = 0 /\ UNCHANGED batch_vars /\ UNCHANGED cache
      /\ TypeInv /\ opf \in Documents /\ FilesOK(filename)
      /\ r \in Chapters(filename) /\ new \notin DOMAIN filename
      /\ v \in DOMAIN Section /\ w \in DOMAIN Section
      /\ filename' = With(files1, new, filename[r])
  BY DEF SplitChapter, Ready, SetText, TypesAndSize, TypeInv, FilesOK, Live
<1>2. PICK s \in ReadingOrders(opf1, files1) :
         opf' = UpdateSpineOrder(opf2, FilenamesOf(Insert(s, i, new), filename'))
  BY DEF SplitChapter, SetText
<1> HIDE DEF v, w
<1>3. /\ r \in HTMLs /\ r \in DOMAIN filename
      /\ NamesFor(r) = HTMLNames /\ NamesFor(new) = HTMLNames
      /\ filename[r] \in HTMLNames /\ Section[v] \in HTMLNames /\ Section[w] \in HTMLNames
  BY <1>1, FileNames DEF Chapters, NamesFor, IsChapter, FilesOK
<1>4. filename[r] \in Names /\ Section[v] \in Names /\ Section[w] \in Names
  BY <1>3, FilenamesAssumption
<1>5. FilesOK(files1) /\ Chapters(files1) = Chapters(filename) /\ DOMAIN files1 = DOMAIN filename
  BY <1>1, <1>3, FilesStayOK DEF Chapters
<1> HIDE DEF files1
<1>6. FilesOK(filename')
  BY <1>1, <1>3, <1>5, FilesStayOK DEF Resources
<1>7. opf1 \in Documents
  BY <1>1, <1>4, RenamedType
<1> HIDE DEF opf1
<1>8. opf2 \in Documents
  BY <1>4, <1>7, AddType, RenamedType
<1> HIDE DEF opf2
<1>9. Enumerates(s, Chapters(files1)) /\ new \notin Chapters(files1)
  BY <1>1, <1>5, <1>7, OrdersEnumerate DEF FilesOK, Chapters
<1>10. i \in Nat
  BY <1>7, ReadingOrderType
<1> HIDE DEF i
<1>11. Enumerates(Insert(s, i, new), Chapters(files1) \cup {new})
  BY <1>9, <1>10, InsertedEnumerates
<1>12. PICK n \in Nat : DOMAIN Insert(s, i, new) = 1..n
  BY <1>11, EnumerationDomain
<1>13. DOMAIN FilenamesOf(Insert(s, i, new), filename') = 1..n
  BY <1>12 DEF FilenamesOf
<1>14. opf' \in Documents
  BY <1>2, <1>8, <1>13, SpineOrderType
<1> QED
  BY <1>1, <1>6, <1>14, TypesOutsideBatch

LEMMA BatchTypes ==
    ASSUME TypesAndSize, NEW i \in 1..MaxNewChapters, NEW r \in HTMLs,
           InsertChapter(i, r) \/ ListChapter(i)
    PROVE  TypesAndSize'
<1>1. TypeInv /\ FilesOK(filename)
  BY DEF TypesAndSize, TypeInv, FilesOK, Live
<1>2. CASE InsertChapter(i, r)
  <2> DEFINE v == UniqueVersion(Len(order) + i, filename)
  <2>1. /\ v \in DOMAIN Section /\ filename' = With(filename, r, Section[v])
        /\ created' = With(created, i, r) /\ i \in 1..asked
        /\ stolen' = stolen \/ stolen' = stolen \cup {i}
        /\ UNCHANGED <<opf, cache, asked, order, listed>>
    BY <1>2 DEF InsertChapter, Begin
  <2> HIDE DEF v
  <2>2. NamesFor(r) = HTMLNames /\ Section[v] \in HTMLNames
    BY <2>1, FileNames DEF NamesFor, IsChapter
  <2>3. FilesOK(filename')
    BY <1>1, <2>1, <2>2, FilesStayOK DEF Resources
  <2>4. DOMAIN created' = DOMAIN created \cup {i} /\ DOMAIN filename' = DOMAIN filename \cup {r}
    BY <2>1 DEF With
  <2>5. Range(created') \subseteq Chapters(filename')
    <3>1. Range(created) \subseteq Chapters(filename)
      BY <1>1 DEF TypeInv
    <3>2. Range(created') \subseteq Range(created) \cup {r}
      BY <2>1 DEF With, Range
    <3> QED
      BY <2>4, <3>1, <3>2 DEF Chapters
  <2>6. DOMAIN created' \subseteq 1..asked' /\ listed' \subseteq DOMAIN created' /\ stolen' \subseteq DOMAIN created'
    BY <1>1, <2>1, <2>4 DEF TypeInv
  <2> QED
    BY <1>1, <2>1, <2>3, <2>5, <2>6 DEF TypesAndSize, TypeInv, FilesOK, Live
<1>3. CASE ListChapter(i)
  <2> DEFINE added == AddResource(Document, filename[created[i]], TRUE)
  <2>1. /\ i \in DOMAIN created /\ listed' = listed \cup {i}
        /\ \/ cache' = added /\ opf' = opf
           \/ opf' = added /\ cache' = cache
        /\ UNCHANGED <<filename, asked, order, created, stolen>>
    BY <1>3 DEF ListChapter, SetText
  <2>2. Document \in Documents
    BY <1>1 DEF Document, TypeInv
  <2>3. filename[created[i]] \in Names
    <3>1. created[i] \in Chapters(filename)
      BY <1>1, <2>1 DEF TypeInv, Range
    <3> QED
      BY <1>1, <3>1, FileNames DEF FilesOK, Chapters
  <2>4. added \in Documents
    BY <2>2, <2>3, AddType
  <2> HIDE DEF added
  <2>5. opf' \in Documents /\ cache' \in Documents \cup {NoCache}
    BY <1>1, <2>1, <2>4 DEF TypeInv
  <2> QED
    BY <1>1, <2>1, <2>5, Zenon DEF TypesAndSize, TypeInv, FilesOK, Live, Chapters
<1> QED
  BY <1>2, <1>3

LEMMA FinishTypes == ASSUME TypesAndSize, FinishChapters PROVE TypesAndSize'
<1> DEFINE t == [i \in 1..asked |-> created[i]]
           all == order \o t
<1>1. TypeInv /\ asked \in Nat /\ DOMAIN created = 1..asked /\ order \in Seq(HTMLs)
  <2>1. TypeInv /\ listed = 1..asked
    BY DEF TypesAndSize, FinishChapters
  <2>2. asked \in 0..MaxNewChapters /\ order \in Seq(HTMLs)
        /\ DOMAIN created \subseteq 1..asked /\ listed \subseteq DOMAIN created
    BY <2>1 DEF TypeInv
  <2>3. asked \in Nat
    BY <2>2, BoundAssumption
  <2>4. DOMAIN created = 1..asked
    BY <2>1, <2>2
  <2> QED
    BY <2>1, <2>2, <2>3, <2>4
<1>2. /\ opf' = UpdateSpineOrder(Document, FilenamesOf(all, filename))
      /\ UNCHANGED <<filename, cache>> /\ asked' = 0 /\ order' = <<>>
      /\ created' = <<>> /\ stolen' = {} /\ listed' = {}
  BY DEF FinishChapters, SetText
<1>3. t \in [1..asked -> HTMLs]
  BY <1>1 DEF TypeInv, Range, Chapters
<1>4. t \in Seq(HTMLs)
  BY <1>1, <1>3, FunctionIsASequence
<1> HIDE DEF t
<1>5. all \in Seq(HTMLs)
  BY <1>1, <1>4
<1> HIDE DEF all
<1>6. DOMAIN FilenamesOf(all, filename) = 1..Len(all) /\ Len(all) \in Nat
  BY <1>5, SequenceIsAFunction DEF FilenamesOf
<1>7. Document \in Documents
  BY <1>1 DEF Document, TypeInv
<1>8. opf' \in Documents
  BY <1>2, <1>6, <1>7, SpineOrderType
<1>9. <<>> \in Seq(HTMLs) /\ DOMAIN <<>> = {} /\ 0 \in 0..MaxNewChapters
  BY BoundAssumption
<1>10. Range(<<>>) = {}
  BY <1>9 DEF Range
<1> QED
  BY <1>1, <1>2, <1>8, <1>9, <1>10 DEF TypesAndSize, TypeInv, Live, Chapters

LEMMA TypeStep == ASSUME TypesAndSize, [Next]_vars PROVE TypesAndSize'
<1>1. TypeInv /\ FilesOK(filename) /\ opf \in Documents
  BY DEF TypesAndSize, TypeInv, FilesOK, Live
<1>2. CASE DelayedUpdateToTextDocument
  BY <1>1, <1>2 DEF DelayedUpdateToTextDocument, TypesAndSize, TypeInv, Live, batch_vars, Chapters
<1>3. ASSUME NEW r \in Resources, Delete(r) \/ MergeWithPrevious(r) PROVE TypesAndSize'
  BY <1>3, DropTypes DEF Delete, MergeWithPrevious, MergeIsOffered
<1>4. ASSUME NEW r \in Resources, SetCoverImage(r) PROVE TypesAndSize'
  <2>1. /\ asked = 0 /\ UNCHANGED batch_vars /\ UNCHANGED cache /\ UNCHANGED filename
        /\ r \in DOMAIN filename /\ opf' = SetResourceAsCoverImage(opf, filename[r])
    BY <1>4 DEF SetCoverImage, Ready, SetText, Live
  <2>2. filename[r] \in Names
    BY <1>1, <2>1, FileNames DEF FilesOK
  <2>3. opf' \in Documents
    BY <1>1, <2>1, <2>2, CoverType
  <2> QED
    BY <1>1, <2>1, <2>3, TypesOutsideBatch
<1>5. ASSUME NEW r \in Resources, NEW type \in GuideTypes, AddSemantics(r, type)
      PROVE  TypesAndSize'
  <2>1. /\ asked = 0 /\ UNCHANGED batch_vars /\ UNCHANGED cache /\ UNCHANGED filename
        /\ r \in DOMAIN filename /\ opf' = AddGuideSemanticType(opf, filename[r], type)
    BY <1>5 DEF AddSemantics, Ready, SetText, Chapters
  <2>2. filename[r] \in Names
    BY <1>1, <2>1, FileNames DEF FilesOK
  <2>3. opf' \in Documents
    BY <1>1, <2>1, <2>2, GuideType
  <2> QED
    BY <1>1, <2>1, <2>3, TypesOutsideBatch
<1>6. ASSUME NEW k \in 1..MaxNewChapters, CreateNewChapters(k) PROVE TypesAndSize'
  <2>1. /\ asked' = k /\ order' \in ReadingOrders(opf, filename) /\ asked = 0
        /\ UNCHANGED <<filename, opf, cache, created, stolen, listed>>
    BY <1>6 DEF CreateNewChapters, Ready
  <2>2. Enumerates(order', Chapters(filename))
    BY <1>1, <2>1, OrdersEnumerate DEF FilesOK
  <2>3. order' \in Seq(HTMLs)
    <3>1. order' \in Seq(Chapters(filename))
      BY <2>2 DEF Enumerates
    <3> QED
      BY <3>1 DEF Chapters
  <2>4. DOMAIN created \subseteq 1..0
    BY <1>1, <2>1 DEF TypeInv
  <2>5. DOMAIN created' \subseteq 1..asked' /\ asked' \in 0..MaxNewChapters
    BY <2>1, <2>4, BoundAssumption
  <2> QED
    BY <1>1, <2>1, <2>3, <2>5 DEF TypesAndSize, TypeInv, Live, Chapters
<1>7. CASE Next
  <2>1. ASSUME NEW r \in Resources, NEW n \in NamesFor(r), AddContentFile(r, n) \/ Rename(r, n)
        PROVE  TypesAndSize'
    BY <2>1, ContentFileTypes
  <2>2. ASSUME NEW r \in Resources, NEW k \in 1..Cardinality(HTMLs), MoveHTML(r, k)
        PROVE  TypesAndSize'
    BY <2>2, MoveTypes
  <2>3. ASSUME NEW r \in Resources, NEW new \in HTMLs, SplitChapter(r, new)
        PROVE  TypesAndSize'
    BY <2>3, SplitTypes
  <2>4. ASSUME NEW i \in 1..MaxNewChapters, NEW r \in HTMLs, InsertChapter(i, r)
        PROVE  TypesAndSize'
    BY <2>4, BatchTypes
  <2>5. ASSUME NEW i \in 1..MaxNewChapters, ListChapter(i) PROVE TypesAndSize'
    <3>1. created[i] \in HTMLs
      BY <1>1, <2>5 DEF ListChapter, TypeInv, Range, Chapters
    <3> QED
      BY <2>5, <3>1, BatchTypes
  <2>6. CASE FinishChapters
    BY <2>6, FinishTypes
  <2> QED
    BY <1>2, <1>3, <1>4, <1>5, <1>6, <1>7, <2>1, <2>2, <2>3, <2>4, <2>5, <2>6, Zenon DEF Next
<1>8. CASE UNCHANGED vars
  BY <1>1, <1>8 DEF vars, batch_vars, TypesAndSize, TypeInv, Live, Chapters
<1> QED
  BY <1>7, <1>8

LEMMA TypesAtStart == Init => TypesAndSize
<1> SUFFICES ASSUME Init PROVE TypesAndSize
  OBVIOUS
<1>1. PICK r \in HTMLs : filename = [x \in {r} |-> Section[1]]
  BY DEF Init
<1>2. Section[1] \in HTMLNames
  <2>1. Len(Section) \in Nat /\ Len(Section) # 0 /\ DOMAIN Section = 1..Len(Section)
    BY SectionAssumption
  <2>2. 1 \in DOMAIN Section
    BY <2>1
  <2> QED
    BY <2>2, FileNames
<1>3. Section[1] \in Names /\ ValidID[Section[1]] \in Ids
  BY <1>2, FilenamesAssumption, IdOfAName
<1>4. opf \in Documents
  <2>1. [id |-> ValidID[Section[1]], href |-> Section[1]] \in [id : Ids, href : Names]
    BY <1>3
  <2>2. <<[id |-> ValidID[Section[1]], href |-> Section[1]]>> \in Seq([id : Ids, href : Names])
    BY <2>1
  <2>3. <<ValidID[Section[1]]>> \in Seq(Ids \cup {NoId})
    BY <1>3
  <2> QED
    BY <2>2, <2>3 DEF Init, Documents
<1>5. DOMAIN filename = {r} /\ filename[r] \in HTMLNames
  BY <1>1, <1>2
<1>6. IsFiniteSet({r})
  BY FS_Singleton
<1>7. Live \subseteq Resources /\ IsFiniteSet(Live) /\ \A x \in Live : filename[x] \in NamesFor(x)
  BY <1>5, <1>6 DEF Live, Resources, NamesFor, IsChapter
<1>8. <<>> \in Seq(HTMLs) /\ DOMAIN <<>> = {} /\ 0 \in 0..MaxNewChapters
  BY BoundAssumption
<1>9. Range(<<>>) = {}
  BY <1>8 DEF Range
<1> QED
  BY <1>4, <1>7, <1>8, <1>9 DEF Init, TypesAndSize, TypeInv

\* Every variable has its type, and the package document is one, for any files
\* and names and any number of jobs that create chapters.
THEOREM TypesHold == Spec => []TypeInv
<1>1. TypesAndSize => TypeInv
  BY DEF TypesAndSize
<1>2. TypesAndSize /\ [Next]_vars => TypesAndSize'
  BY TypeStep
<1> QED
  BY <1>1, <1>2, TypesAtStart, PTL DEF Spec

-----------------------------------------------------------------------------
(* Steps *)

LEMMA NewNameKeepsUnique ==
    ASSUME NEW files, IsInjective(files), NEW r, NEW n, n \notin Range(files)
    PROVE  /\ IsInjective(With(files, r, n))
           /\ IsInjective([files EXCEPT ![r] = n])
BY DEF IsInjective, Range, With

LEMMA UniqueStep == FilenamesAreUnique /\ [Next]_vars => FilenamesAreUnique'
<1> SUFFICES ASSUME FilenamesAreUnique, [Next]_vars PROVE FilenamesAreUnique'
  OBVIOUS
<1>0. IsInjective(filename)
  BY DEF FilenamesAreUnique
<1>1. CASE filename' = filename
  BY <1>1 DEF FilenamesAreUnique
<1>2. ASSUME NEW r, filename' = Without(filename, r) PROVE FilenamesAreUnique'
  BY <1>0, <1>2 DEF FilenamesAreUnique, IsInjective, Without, Restrict
<1>3. ASSUME NEW r, NEW n, AddContentFile(r, n) \/ Rename(r, n) PROVE FilenamesAreUnique'
  <2>1. /\ n \notin Range(filename)
        /\ \/ filename' = With(filename, r, n)
           \/ filename' = [filename EXCEPT ![r] = n]
    BY <1>3 DEF AddContentFile, Rename
  <2>2. IsInjective(With(filename, r, n)) /\ IsInjective([filename EXCEPT ![r] = n])
    BY <1>0, <2>1, NewNameKeepsUnique
  <2> QED
    BY <2>1, <2>2 DEF FilenamesAreUnique
<1>4. ASSUME NEW r, NEW new \in HTMLs, SplitChapter(r, new) PROVE FilenamesAreUnique'
  <2> DEFINE v == UniqueVersion(1, filename)
             files1 == [filename EXCEPT ![r] = Section[v]]
  <2>1. /\ r \in DOMAIN filename /\ new \notin DOMAIN filename
        /\ v \in DOMAIN Section
        /\ filename' = With(files1, new, filename[r])
    BY <1>4 DEF SplitChapter, Chapters, Live
  <2>2. Section[v] \notin Range(filename)
    BY <2>1, VersionIsFree
  <2>3. IsInjective(files1)
    BY <1>0, <2>2, NewNameKeepsUnique
  <2>4. filename[r] \notin Range(files1)
    BY <1>0, <2>1, <2>2 DEF Range, IsInjective
  <2>5. IsInjective(With(files1, new, filename[r]))
    BY <2>3, <2>4, NewNameKeepsUnique
  <2> QED
    BY <2>1, <2>5 DEF FilenamesAreUnique
<1>5. ASSUME NEW i \in 1..MaxNewChapters, NEW r, InsertChapter(i, r)
      PROVE  FilenamesAreUnique'
  <2> DEFINE v == UniqueVersion(Len(order) + i, filename)
  <2>1. v \in DOMAIN Section /\ filename' = With(filename, r, Section[v])
      BY <1>5 DEF InsertChapter
  <2>2. Section[v] \notin Range(filename)
    BY <2>1, VersionIsFree
  <2> QED
    BY <1>0, <2>1, <2>2, NewNameKeepsUnique DEF FilenamesAreUnique
<1>6. CASE Next
  <2>1. CASE DelayedUpdateToTextDocument \/ FinishChapters
    BY <1>1, <2>1 DEF DelayedUpdateToTextDocument, FinishChapters
  <2>2. ASSUME NEW r \in Resources, Delete(r) \/ MergeWithPrevious(r) \/ SetCoverImage(r)
        PROVE  FilenamesAreUnique'
    BY <1>1, <1>2, <2>2 DEF Delete, MergeWithPrevious, Drop, SetCoverImage
  <2>3. ASSUME NEW r \in Resources, NEW k \in 1..Cardinality(HTMLs), MoveHTML(r, k)
        PROVE  FilenamesAreUnique'
    BY <1>1, <2>3 DEF MoveHTML
  <2>4. ASSUME NEW r \in Resources, NEW type \in GuideTypes, AddSemantics(r, type)
        PROVE  FilenamesAreUnique'
    BY <1>1, <2>4 DEF AddSemantics
  <2>5. ASSUME NEW k \in 1..MaxNewChapters, CreateNewChapters(k) PROVE FilenamesAreUnique'
    BY <1>1, <2>5 DEF CreateNewChapters
  <2>6. ASSUME NEW i \in 1..MaxNewChapters, ListChapter(i) PROVE FilenamesAreUnique'
    BY <1>1, <2>6 DEF ListChapter
  <2> QED
    BY <1>3, <1>4, <1>5, <1>6, <2>1, <2>2, <2>3, <2>4, <2>5, <2>6, Zenon DEF Next
<1>7. CASE UNCHANGED vars
  BY <1>1, <1>7 DEF vars
<1> QED
  BY <1>6, <1>7

\* No two files of the book ever have one name, however many jobs create
\* chapters at once, whatever the names are, and in any order of commands.
THEOREM NamesStayUnique == Spec => []FilenamesAreUnique
<1>1. Init => FilenamesAreUnique
  BY DEF Init, FilenamesAreUnique, IsInjective
<1> QED
  BY <1>1, UniqueStep, PTL DEF Spec

-----------------------------------------------------------------------------
(* What the document lists: the operations, while no path needs encoding   *)
(* and no two names give one id                                            *)

PlainNames == Plain = Names /\ IsInjective(ValidID)

IdsOf(C) == {ValidID[n] : n \in C}

\* The manifest m has one item for every name in N and no other.
ListsFiles(m, N) ==
    /\ \A i \in DOMAIN m : m[i].href \in N /\ m[i].id = ValidID[m[i].href]
    /\ \A i, j \in DOMAIN m : m[i].href = m[j].href => i = j
    /\ \A n \in N : \E i \in DOMAIN m : m[i].href = n

\* The document lists the files N, and the chapters C in some order.
Lists(d, N, C) ==
    /\ N \subseteq Names /\ C \subseteq N
    /\ ListsFiles(d.manifest, N)
    /\ Enumerates(d.spine, IdsOf(C))

LEMMA IdsAreDifferent ==
    ASSUME PlainNames, NEW C \in SUBSET Names, NEW n \in Names
    PROVE  /\ ValidID[n] \in IdsOf(C) <=> n \in C
           /\ IdsOf(C \cup {n}) = IdsOf(C) \cup {ValidID[n]}
           /\ IdsOf(C \ {n}) = IdsOf(C) \ {ValidID[n]}
           /\ IdsOf(C) \subseteq Ids
<1>1. \A a, b \in Names : ValidID[a] = ValidID[b] => a = b
  BY NamesAssumption DEF PlainNames, IsInjective
<1> QED
  BY <1>1 DEF IdsOf, Ids

LEMMA ListedItem ==
    ASSUME PlainNames, NEW d \in Documents, NEW N, NEW C, Lists(d, N, C), NEW n \in Names
    PROVE  /\ ItemOfPath(d, n) = ItemOf(d, n)
           /\ n \in N => /\ ItemOf(d, n) \in DOMAIN d.manifest /\ ItemOf(d, n) # 0
                         /\ d.manifest[ItemOf(d, n)].href = n
                         /\ IdAt(d, ItemOf(d, n)) = ValidID[n]
           /\ n \notin N => ItemOf(d, n) = 0
<1>1. ItemOfPath(d, n) = ItemOf(d, n)
  BY DEF ItemOfPath, PlainNames
<1>2. ASSUME n \in N
      PROVE  /\ ItemOf(d, n) \in DOMAIN d.manifest /\ ItemOf(d, n) # 0
             /\ d.manifest[ItemOf(d, n)].href = n
             /\ IdAt(d, ItemOf(d, n)) = ValidID[n]
  <2>1. PICK i \in DOMAIN d.manifest : d.manifest[i].href = n
    BY <1>2 DEF Lists, ListsFiles
  <2>2. ItemOf(d, n) # 0
    BY <2>1, ItemFound
  <2>3. ItemOf(d, n) \in DOMAIN d.manifest /\ d.manifest[ItemOf(d, n)].href = n
    BY <2>2, ItemFound
  <2>4. d.manifest[ItemOf(d, n)].id = ValidID[n]
    BY <2>3 DEF Lists, ListsFiles
  <2> QED
    BY <2>2, <2>3, <2>4 DEF IdAt
<1>3. ASSUME n \notin N PROVE ItemOf(d, n) = 0
  <2>1. \A i \in DOMAIN d.manifest : d.manifest[i].href # n
    BY <1>3 DEF Lists, ListsFiles
  <2> QED
    BY <2>1, ItemFound
<1> QED
  BY <1>1, <1>2, <1>3

LEMMA ListedItemref ==
    ASSUME PlainNames, NEW d \in Documents, NEW N, NEW C, Lists(d, N, C), NEW n \in Names
    PROVE  /\ n \in C => /\ ItemrefOf(d, ValidID[n]) \in DOMAIN d.spine /\ ItemrefOf(d, ValidID[n]) # 0
                         /\ d.spine[ItemrefOf(d, ValidID[n])] = ValidID[n]
           /\ n \notin C => ItemrefOf(d, ValidID[n]) = 0
<1>1. /\ \A i \in DOMAIN d.spine : d.spine[i] \in IdsOf(C)
      /\ \A x \in IdsOf(C) : \E i \in DOMAIN d.spine : d.spine[i] = x
  BY EnumerationHas DEF Lists
<1>2. C \in SUBSET Names
  BY DEF Lists
<1>3. ValidID[n] \in IdsOf(C) <=> n \in C
  BY <1>2, IdsAreDifferent
<1> QED
  BY <1>1, <1>3, ItemrefFound

\* A new file is listed, a chapter at the end of the spine.
LEMMA AddLists ==
    ASSUME PlainNames, NEW d \in Documents, NEW N, NEW C, Lists(d, N, C),
           NEW n \in Names \ N, NEW isChapter \in BOOLEAN
    PROVE  Lists(AddResource(d, n, isChapter), N \cup {n}, IF isChapter THEN C \cup {n} ELSE C)
<1> DEFINE item == [id |-> ValidID[n], href |-> n]
           m == Append(d.manifest, item)
           sp == IF isChapter THEN Append(d.spine, ValidID[n]) ELSE d.spine
           C2 == IF isChapter THEN C \cup {n} ELSE C
<1>1. d.manifest \in Seq(Items) /\ d.spine \in Seq(Ids \cup {NoId}) /\ item \in Items
  BY DocumentParts, IdOfAName DEF Items
<1>2. m \in Seq(Items) /\ sp \in Seq(Ids \cup {NoId})
  BY <1>1, IdOfAName
<1>3. AddResource(d, n, isChapter).manifest = m /\ AddResource(d, n, isChapter).spine = sp
  <2>1. AddResource(d, n, isChapter) = [d EXCEPT !.manifest = m, !.spine = sp]
    BY DEF AddResource
  <2> HIDE DEF m, sp
  <2>2. /\ [d EXCEPT !.manifest = m, !.spine = sp].manifest = m
        /\ [d EXCEPT !.manifest = m, !.spine = sp].spine = sp
    BY DEF Documents
  <2> QED
    BY <2>1, <2>2
<1>4. ListsFiles(m, N \cup {n})
  <2>1. ListsFiles(d.manifest, N)
    BY DEF Lists
  <2>2. /\ Len(d.manifest) \in Nat /\ DOMAIN d.manifest = 1..Len(d.manifest)
        /\ DOMAIN m = 1..(Len(d.manifest) + 1) /\ m[Len(d.manifest) + 1] = item
        /\ \A i \in DOMAIN d.manifest : m[i] = d.manifest[i]
    BY <1>1
  <2>3. item.href = n /\ item.id = ValidID[n]
    OBVIOUS
  <2> HIDE DEF m, item
  <2>4. DOMAIN m = DOMAIN d.manifest \cup {Len(d.manifest) + 1}
    BY <2>2
  <2>5. \A i \in DOMAIN m : m[i].href \in N \cup {n} /\ m[i].id = ValidID[m[i].href]
    BY <2>1, <2>2, <2>3, <2>4 DEF ListsFiles
  <2>6. ASSUME NEW i \in DOMAIN m, NEW j \in DOMAIN m, m[i].href = m[j].href PROVE i = j
    <3> DEFINE last == Len(d.manifest) + 1
    <3>1. \A k \in DOMAIN d.manifest : m[k].href # n
      BY <2>1, <2>2 DEF ListsFiles
    <3>2. m[last].href = n /\ last \notin DOMAIN d.manifest
      BY <2>2, <2>3
    <3> HIDE DEF last
    <3>3. CASE i = last \/ j = last
      BY <2>4, <2>6, <3>1, <3>2, <3>3 DEF last
    <3>4. CASE i # last /\ j # last
      <4>1. i \in DOMAIN d.manifest /\ j \in DOMAIN d.manifest
        BY <2>4, <3>4 DEF last
      <4> QED
        BY <2>1, <2>2, <2>6, <4>1 DEF ListsFiles
    <3> QED
      BY <3>3, <3>4
  <2>7. \A x \in N \cup {n} : \E i \in DOMAIN m : m[i].href = x
    BY <2>1, <2>2, <2>3, <2>4 DEF ListsFiles
  <2> QED
    BY <2>5, <2>6, <2>7 DEF ListsFiles
<1>5. Enumerates(sp, IdsOf(C2)) /\ C2 \subseteq N \cup {n}
  <2>1. C \in SUBSET Names /\ n \notin C /\ C \subseteq N /\ Enumerates(d.spine, IdsOf(C))
    BY DEF Lists
  <2>2. ValidID[n] \notin IdsOf(C) /\ IdsOf(C \cup {n}) = IdsOf(C) \cup {ValidID[n]}
    BY <2>1, IdsAreDifferent
  <2>3. Enumerates(Append(d.spine, ValidID[n]), IdsOf(C) \cup {ValidID[n]})
    BY <2>1, <2>2, AppendEnumerates
  <2> QED
    BY <2>1, <2>2, <2>3
<1>6. N \cup {n} \subseteq Names
  BY DEF Lists
<1> HIDE DEF m, sp, C2
<1>7. Lists(AddResource(d, n, isChapter), N \cup {n}, C2)
  BY <1>3, <1>4, <1>5, <1>6 DEF Lists
<1> QED
  BY <1>7 DEF C2

\* A deleted file is not listed any more.
LEMMA RemoveLists ==
    ASSUME PlainNames, NEW d \in Documents, NEW N, NEW C, Lists(d, N, C),
           NEW n \in N, NEW isChapter \in BOOLEAN, isChapter <=> n \in C
    PROVE  Lists(RemoveResource(d, n, isChapter), N \ {n}, C \ {n})
<1> DEFINE i == ItemOf(d, n)
           m == RemoveAt(d.manifest, i)
           sp == IF isChapter THEN RemoveFirst(d.spine, ValidID[n]) ELSE d.spine
<1>1. n \in Names /\ d.manifest \in Seq(Items)
  BY DocumentParts DEF Lists
<1>2. i \in DOMAIN d.manifest /\ i # 0 /\ d.manifest[i].href = n /\ IdAt(d, i) = ValidID[n]
  BY <1>1, ListedItem
<1>3. m \in Seq(Items)
  BY <1>1, <1>2, RemoveAtType
<1>4. Enumerates(sp, IdsOf(C \ {n}))
  <2>1. C \in SUBSET Names /\ Enumerates(d.spine, IdsOf(C))
    BY DEF Lists
  <2>2. IdsOf(C \ {n}) = IdsOf(C) \ {ValidID[n]} /\ (ValidID[n] \in IdsOf(C) <=> n \in C)
    BY <1>1, <2>1, IdsAreDifferent
  <2>3. CASE isChapter
    BY <2>1, <2>2, <2>3, RemoveFirstEnumerates
  <2>4. CASE ~isChapter
    <3>1. C \ {n} = C
      BY <2>4
    <3> QED
      BY <2>1, <2>4, <3>1
  <2> QED
    BY <2>3, <2>4
<1>5. sp \in Seq(Ids \cup {NoId})
  <2>1. C \ {n} \in SUBSET Names
    BY DEF Lists
  <2>2. IdsOf(C \ {n}) \subseteq Ids
    BY <1>1, <2>1, IdsAreDifferent
  <2>3. sp \in Seq(IdsOf(C \ {n}))
    BY <1>4 DEF Enumerates
  <2> QED
    BY <2>2, <2>3
<1>6. RemoveResource(d, n, isChapter) = [d EXCEPT !.manifest = m, !.spine = sp]
  BY <1>2, Zenon DEF RemoveResource, Documents
<1>7. ListsFiles(m, N \ {n})
  <2>1. ListsFiles(d.manifest, N)
    BY DEF Lists
  <2>2. /\ Len(d.manifest) \in Nat /\ DOMAIN d.manifest = 1..Len(d.manifest)
        /\ DOMAIN m = 1..(Len(d.manifest) - 1)
        /\ \A k \in 1..(Len(d.manifest) - 1) :
              m[k] = IF k < i THEN d.manifest[k] ELSE d.manifest[k + 1]
    BY <1>1, <1>2, RemoveAtValues, SequenceIsAFunction
  <2> DEFINE from(k) == IF k < i THEN k ELSE k + 1
             to(k) == IF k < i THEN k ELSE k - 1
  <2> HIDE DEF m, i
  <2>3. \A k \in DOMAIN m : from(k) \in DOMAIN d.manifest \ {i} /\ m[k] = d.manifest[from(k)]
    BY <1>2, <2>2
  <2>4. \A k, l \in DOMAIN m : from(k) = from(l) => k = l
    BY <1>2, <2>2
  <2>5. \A k \in DOMAIN d.manifest \ {i} : to(k) \in DOMAIN m /\ m[to(k)] = d.manifest[k]
    BY <1>2, <2>2
  <2> HIDE DEF from, to
  <2>6. \A k \in DOMAIN m : m[k].href \in N \ {n} /\ m[k].id = ValidID[m[k].href]
    BY <1>2, <2>1, <2>3 DEF ListsFiles
  <2>7. ASSUME NEW k \in DOMAIN m, NEW l \in DOMAIN m, m[k].href = m[l].href PROVE k = l
    BY <2>1, <2>3, <2>4, <2>7 DEF ListsFiles
  <2>8. ASSUME NEW x \in N \ {n} PROVE \E k \in DOMAIN m : m[k].href = x
    <3>1. PICK k \in DOMAIN d.manifest : d.manifest[k].href = x
      BY <2>1 DEF ListsFiles
    <3>2. k # i
      BY <1>2, <3>1
    <3> QED
      BY <2>5, <3>1, <3>2
  <2> QED
    BY <2>6, <2>7, <2>8 DEF ListsFiles
<1> HIDE DEF m, sp, i
<1>8. RemoveResource(d, n, isChapter).manifest = m /\ RemoveResource(d, n, isChapter).spine = sp
  <2>1. /\ [d EXCEPT !.manifest = m, !.spine = sp].manifest = m
        /\ [d EXCEPT !.manifest = m, !.spine = sp].spine = sp
    BY DEF Documents
  <2> QED
    BY <1>6, <2>1
<1>9. N \ {n} \subseteq Names /\ C \ {n} \subseteq N \ {n}
  BY DEF Lists
<1> QED
  BY <1>4, <1>7, <1>8, <1>9 DEF Lists

\* A renamed file is listed with its new name, a chapter in its place.
LEMMA RenamedLists ==
    ASSUME PlainNames, NEW d \in Documents, NEW N, NEW C, Lists(d, N, C),
           NEW old \in N, NEW new \in Names, new \notin N \ {old}
    PROVE  Lists(ResourceRenamed(d, old, new), (N \ {old}) \cup {new},
                 IF old \in C THEN (C \ {old}) \cup {new} ELSE C)
<1> DEFINE i == ItemOf(d, old)
           k == ItemrefOf(d, ValidID[old])
           item == [id |-> ValidID[new], href |-> new]
           m == [d.manifest EXCEPT ![i] = item]
           sp == IF k = 0 THEN d.spine ELSE ReplaceAt(d.spine, k, ValidID[new])
           N2 == (N \ {old}) \cup {new}
           C2 == IF old \in C THEN (C \ {old}) \cup {new} ELSE C
<1>1. /\ old \in Names /\ d.manifest \in Seq(Items) /\ C \in SUBSET Names /\ C \subseteq N
      /\ Enumerates(d.spine, IdsOf(C))
  BY DocumentParts DEF Lists
<1>2. /\ i \in DOMAIN d.manifest /\ i # 0 /\ d.manifest[i].href = old /\ IdAt(d, i) = ValidID[old]
      /\ ItemOfPath(d, old) = i
  BY <1>1, ListedItem
<1>3. /\ old \in C => k \in DOMAIN d.spine /\ k # 0 /\ d.spine[k] = ValidID[old]
      /\ old \notin C => k = 0
  BY <1>1, ListedItemref
<1>4. ResourceRenamed(d, old, new) = [d EXCEPT !.manifest = m, !.spine = sp]
  BY <1>2, Zenon DEF ResourceRenamed, Documents
<1>5. m \in Seq(Items)
  <2>1. item \in Items
    BY IdOfAName DEF Items
  <2> QED
    BY <1>1, <1>2, <2>1, ReplaceType
<1>6. Enumerates(sp, IdsOf(C2)) /\ C2 \subseteq N2
  <2>1. CASE old \notin C
    BY <1>1, <1>3, <2>1
  <2>2. CASE old \in C
    <3>1. C \ {old} \in SUBSET Names
      BY <1>1
    <3>2. /\ IdsOf(C \ {old}) = IdsOf(C) \ {ValidID[old]}
          /\ IdsOf((C \ {old}) \cup {new}) = IdsOf(C \ {old}) \cup {ValidID[new]}
          /\ ValidID[new] \in IdsOf(C \ {old}) <=> new \in C \ {old}
      BY <1>1, <3>1, IdsAreDifferent
    <3>3. ValidID[new] \notin IdsOf(C) \ {ValidID[old]}
      BY <1>1, <3>2
    <3>4. Enumerates([d.spine EXCEPT ![k] = ValidID[new]], (IdsOf(C) \ {ValidID[old]}) \cup {ValidID[new]})
      BY <1>1, <1>3, <2>2, <3>3, ReplaceEnumerates
    <3>5. sp = [d.spine EXCEPT ![k] = ValidID[new]]
      BY <1>3, <2>2 DEF ReplaceAt
    <3>6. Enumerates(sp, IdsOf((C \ {old}) \cup {new}))
      BY <3>2, <3>4, <3>5
    <3> QED
      BY <1>1, <2>2, <3>6
  <2> QED
    BY <2>1, <2>2
<1>7. sp \in Seq(Ids \cup {NoId})
  <2>1. C2 \in SUBSET Names
    BY <1>1
  <2>2. IdsOf(C2) \subseteq Ids
    BY <1>1, <2>1, IdsAreDifferent
  <2>3. sp \in Seq(IdsOf(C2))
    BY <1>6 DEF Enumerates
  <2> HIDE DEF sp, C2
  <2> QED
    BY <2>2, <2>3
<1>8. ListsFiles(m, N2)
  <2>1. ListsFiles(d.manifest, N)
    BY DEF Lists
  <2>2. /\ DOMAIN m = DOMAIN d.manifest /\ m[i] = item
        /\ \A j \in DOMAIN d.manifest : j # i => m[j] = d.manifest[j]
    BY <1>2
  <2>3. item.href = new /\ item.id = ValidID[new]
    OBVIOUS
  <2> HIDE DEF m, item, i
  <2>4. \A j \in DOMAIN m : j # i => m[j].href \in N \ {old}
    BY <1>2, <2>1, <2>2 DEF ListsFiles
  <2>5. \A j \in DOMAIN m : m[j].href \in N2 /\ m[j].id = ValidID[m[j].href]
    BY <2>1, <2>2, <2>3, <2>4 DEF ListsFiles
  <2>6. ASSUME NEW j \in DOMAIN m, NEW l \in DOMAIN m, m[j].href = m[l].href PROVE j = l
    BY <2>1, <2>2, <2>3, <2>4, <2>6 DEF ListsFiles
  <2>7. ASSUME NEW x \in N2 PROVE \E j \in DOMAIN m : m[j].href = x
    BY <1>2, <2>1, <2>2, <2>3 DEF ListsFiles
  <2> QED
    BY <2>5, <2>6, <2>7 DEF ListsFiles
<1> HIDE DEF m, sp, C2
<1>9. ResourceRenamed(d, old, new).manifest = m /\ ResourceRenamed(d, old, new).spine = sp
  <2>1. /\ [d EXCEPT !.manifest = m, !.spine = sp].manifest = m
        /\ [d EXCEPT !.manifest = m, !.spine = sp].spine = sp
    BY DEF Documents
  <2> QED
    BY <1>4, <2>1
<1>10. N2 \subseteq Names
  BY DEF Lists
<1>11. Lists(ResourceRenamed(d, old, new), N2, C2)
  BY <1>6, <1>8, <1>9, <1>10 DEF Lists
<1> QED
  BY <1>11 DEF C2

\* A path that is not in the manifest changes nothing there.
LEMMA PathsLists ==
    ASSUME NEW d \in Documents, NEW N, NEW C, Lists(d, N, C), NEW old, old \notin N, NEW new
    PROVE  Lists(UpdatePaths(d, old, new), N, C)
<1> DEFINE updated(s) == [i \in DOMAIN s |-> IF s[i].href = old
                                             THEN [s[i] EXCEPT !.href = new] ELSE s[i]]
<1>1. \A i \in DOMAIN d.manifest : d.manifest[i].href # old
  BY DEF Lists, ListsFiles
<1>2. d.manifest \in Seq(Items)
  BY DocumentParts
<1>3. DOMAIN updated(d.manifest) = DOMAIN d.manifest
      /\ \A i \in DOMAIN d.manifest : updated(d.manifest)[i] = d.manifest[i]
  BY <1>1
<1>4. updated(d.manifest) = d.manifest
  <2>1. /\ d.manifest = [i \in DOMAIN d.manifest |-> d.manifest[i]]
        /\ updated(d.manifest) = [i \in DOMAIN updated(d.manifest) |-> updated(d.manifest)[i]]
    BY <1>2
  <2> HIDE DEF updated
  <2> QED
    BY <1>3, <2>1
<1>5. UpdatePaths(d, old, new) =
         [d EXCEPT !.manifest = updated(d.manifest), !.guide = updated(d.guide)]
  BY DEF UpdatePaths
<1> HIDE DEF updated
<1>6. /\ UpdatePaths(d, old, new).manifest = updated(d.manifest)
      /\ UpdatePaths(d, old, new).spine = d.spine
  BY <1>5 DEF Documents
<1> QED
  BY <1>4, <1>6 DEF Lists

\* The reading order becomes the one that is asked for.
LEMMA SpineOrderLists ==
    ASSUME PlainNames, NEW d \in Documents, NEW N, NEW C, Lists(d, N, C),
           NEW C2 \in SUBSET N, NEW names, Enumerates(names, C2)
    PROVE  /\ Lists(UpdateSpineOrder(d, names), N, C2)
           /\ UpdateSpineOrder(d, names).spine = [k \in DOMAIN names |-> ValidID[names[k]]]
<1> DEFINE id == GetItemrefsForHTMLResources(d, names)
           stays(k) == \/ ItemrefOf(d, id[k]) = 0
                       \/ \A j \in DOMAIN names : j > k => id[j] # id[k]
           I == {k \in DOMAIN names : stays(k)}
           n == Len(names)
<1>1. /\ n \in Nat /\ DOMAIN names = 1..n
      /\ \A k \in DOMAIN names : names[k] \in C2
      /\ \A k, l \in DOMAIN names : names[k] = names[l] => k = l
      /\ \A x \in C2 : \E k \in DOMAIN names : names[k] = x
  BY EnumerationHas
<1> HIDE DEF n
<1>2. N \subseteq Names /\ C2 \subseteq Names
  BY DEF Lists
<1>3. ASSUME NEW k \in DOMAIN names
      PROVE  IdAt(d, ItemOfPath(d, names[k])) = ValidID[names[k]]
  <2>1. names[k] \in Names /\ names[k] \in N
    BY <1>1, <1>2
  <2> QED
    BY <2>1, ListedItem
<1>4. id = [k \in DOMAIN names |-> ValidID[names[k]]]
  BY <1>3, Zenon DEF GetItemrefsForHTMLResources
<1> HIDE DEF id
<1>5. \A a, b \in Names : ValidID[a] = ValidID[b] => a = b
  BY NamesAssumption DEF PlainNames, IsInjective
<1>6. \A k, l \in DOMAIN id : id[k] = id[l] => k = l
  BY <1>1, <1>2, <1>4, <1>5
<1>7. I = DOMAIN names
  <2>1. ASSUME NEW k \in DOMAIN names PROVE stays(k)
    <3>1. ASSUME NEW j \in DOMAIN names, j > k PROVE id[j] # id[k]
      BY <1>1, <1>4, <1>6, <3>1
    <3> QED
      BY <3>1
  <2> QED
    BY <2>1
<1>8. \A k \in DOMAIN id : id[k] \in IdsOf(C2)
  BY <1>1, <1>4 DEF IdsOf
<1>9. IdsOf(C2) \subseteq Ids
  BY <1>2 DEF IdsOf, Ids
<1>10. id \in Seq(IdsOf(C2))
  <2>1. id \in [1..n -> IdsOf(C2)]
    BY <1>1, <1>4, <1>8
  <2> QED
    BY <1>1, <2>1, FunctionIsASequence
<1>11. Enumerates(id, IdsOf(C2))
  <2>1. ASSUME NEW x \in IdsOf(C2) PROVE \E k \in DOMAIN id : id[k] = x
    <3>1. PICK a \in C2 : x = ValidID[a]
      BY DEF IdsOf
    <3>2. PICK k \in DOMAIN names : names[k] = a
      BY <1>1
    <3> QED
      BY <1>4, <3>1, <3>2
  <2> QED
    BY <1>6, <1>8, <1>10, <2>1, EnumerationOf
<1>12. UpdateSpineOrder(d, names) = [d EXCEPT !.spine = SubsequenceAt(id, I)]
  BY DEF UpdateSpineOrder, id
<1> HIDE DEF I
<1>13. SubsequenceAt(id, I) = id
  BY <1>4, <1>7, <1>10, WholeSubsequence
<1>14. UpdateSpineOrder(d, names).spine = id /\ UpdateSpineOrder(d, names).manifest = d.manifest
  BY <1>12, <1>13 DEF Documents
<1> QED
  BY <1>4, <1>11, <1>14 DEF Lists

\* The guide and the cover are not about the lists.
LEMMA SameLists ==
    ASSUME NEW d \in Documents, NEW n, NEW type
    PROVE  /\ AddGuideSemanticType(d, n, type).manifest = d.manifest
           /\ AddGuideSemanticType(d, n, type).spine = d.spine
           /\ SetResourceAsCoverImage(d, n).manifest = d.manifest
           /\ SetResourceAsCoverImage(d, n).spine = d.spine
<1>1. \A e : \/ RemoveDuplicateGuideTypes(d, type) = d
             \/ RemoveDuplicateGuideTypes(d, type) =
                  [d EXCEPT !.guide = SubsequenceAt(d.guide, {k \in DOMAIN d.guide : d.guide[k].type # type})]
  BY DEF RemoveDuplicateGuideTypes
<1>2. \A g : [d EXCEPT !.guide = g].manifest = d.manifest /\ [d EXCEPT !.guide = g].spine = d.spine
  BY DEF Documents
<1>3. \A g, h : [[d EXCEPT !.guide = g] EXCEPT !.guide = h].manifest = d.manifest
                /\ [[d EXCEPT !.guide = g] EXCEPT !.guide = h].spine = d.spine
  BY DEF Documents
<1>4. /\ SetResourceAsCoverImage(d, n).manifest = d.manifest
      /\ SetResourceAsCoverImage(d, n).spine = d.spine
  BY DEF SetResourceAsCoverImage, Documents
<1>5. /\ AddGuideSemanticType(d, n, type).manifest = d.manifest
      /\ AddGuideSemanticType(d, n, type).spine = d.spine
  BY <1>1, <1>2, <1>3, Zenon DEF AddGuideSemanticType, SetGuideSemanticType
<1> QED
  BY <1>4, <1>5

\* The names of the files in S
NamesOf(files, S) == {files[r] : r \in S}

LEMMA FilenamesEnumerate ==
    ASSUME NEW files, IsInjective(files), NEW S \in SUBSET DOMAIN files,
           NEW s, Enumerates(s, S)
    PROVE  Enumerates(FilenamesOf(s, files), NamesOf(files, S))
<1> DEFINE t == FilenamesOf(s, files)
<1>1. /\ Len(s) \in Nat /\ DOMAIN s = 1..Len(s)
      /\ \A i \in DOMAIN s : s[i] \in S
      /\ \A i, j \in DOMAIN s : s[i] = s[j] => i = j
      /\ \A x \in S : \E i \in DOMAIN s : s[i] = x
  BY EnumerationHas
<1>2. DOMAIN t = DOMAIN s /\ \A i \in DOMAIN s : t[i] = files[s[i]]
  BY DEF FilenamesOf
<1>3. t \in [1..Len(s) -> NamesOf(files, S)]
  BY <1>1 DEF FilenamesOf, NamesOf
<1> HIDE DEF t
<1>4. t \in Seq(NamesOf(files, S))
  BY <1>1, <1>3, FunctionIsASequence
<1>5. \A i \in DOMAIN t : t[i] \in NamesOf(files, S)
  BY <1>1, <1>2 DEF NamesOf
<1>6. \A i, j \in DOMAIN t : t[i] = t[j] => i = j
  BY <1>1, <1>2 DEF IsInjective
<1>7. \A x \in NamesOf(files, S) : \E i \in DOMAIN t : t[i] = x
  BY <1>1, <1>2 DEF NamesOf
<1> QED
  BY <1>4, <1>5, <1>6, <1>7, EnumerationOf DEF t

\* The document lists the files of the book.
ListsBook(d, files) == Lists(d, NamesOf(files, DOMAIN files), NamesOf(files, Chapters(files)))

\* The spine leads to the chapters, one by one.
SpineIs(d, files, s) ==
    /\ DOMAIN s = DOMAIN d.spine
    /\ \A k \in DOMAIN d.spine : s[k] \in Chapters(files) /\ d.spine[k] = ValidID[files[s[k]]]

LEMMA ListedChapters ==
    ASSUME PlainNames, NEW d \in Documents, NEW files, IsInjective(files), NEW L \in SUBSET DOMAIN files,
           Lists(d, NamesOf(files, L), NamesOf(files, L \cap HTMLs))
    PROVE  /\ SpineIs(d, files, ChaptersInSpine(d, files))
           /\ Enumerates(ChaptersInSpine(d, files), L \cap HTMLs)
<1> DEFINE C == NamesOf(files, L \cap HTMLs)
           N == NamesOf(files, L)
           sp == d.spine
           known == SubsequenceAt(sp, KnownItemrefs(d))
           names == GetSpineOrderFilenames(d)
           chapter(n) == {r \in Chapters(files) : files[r] = n}
           I == {k \in DOMAIN names : /\ chapter(names[k]) # {}
                                      /\ \A j \in 1..(k - 1) : names[j] # names[k]}
           f == [k \in I |-> CHOOSE r \in chapter(names[k]) : TRUE]
<1>1. /\ N \subseteq Names /\ C \subseteq N /\ ListsFiles(d.manifest, N) /\ Enumerates(sp, IdsOf(C))
  BY Zenon DEF Lists
<1>2. /\ sp \in Seq(Ids \cup {NoId}) /\ Len(sp) \in Nat /\ DOMAIN sp = 1..Len(sp)
      /\ \A k \in DOMAIN sp : sp[k] \in IdsOf(C)
      /\ \A k, l \in DOMAIN sp : sp[k] = sp[l] => k = l
      /\ \A x \in IdsOf(C) : \E k \in DOMAIN sp : sp[k] = x
  <2> HIDE DEF C
  <2>1. sp \in Seq(Ids \cup {NoId})
    BY DocumentParts
  <2> HIDE DEF sp
  <2>2. Enumerates(sp, IdsOf(C))
    BY <1>1
  <2>3. /\ Len(sp) \in Nat /\ DOMAIN sp = 1..Len(sp)
        /\ \A k \in DOMAIN sp : sp[k] \in IdsOf(C)
        /\ \A k, l \in DOMAIN sp : sp[k] = sp[l] => k = l
        /\ \A x \in IdsOf(C) : \E k \in DOMAIN sp : sp[k] = x
    BY <2>2, EnumerationHas
  <2> QED
    BY <2>1, <2>3
<1>3. ASSUME NEW k \in DOMAIN sp
      PROVE  /\ LastItemOf(d, sp[k]) # 0 /\ d.manifest[LastItemOf(d, sp[k])].href \in C
             /\ ValidID[d.manifest[LastItemOf(d, sp[k])].href] = sp[k]
             /\ k \in KnownItemrefs(d)
  <2>1. PICK n \in C : sp[k] = ValidID[n]
    <3>1. sp[k] \in IdsOf(C)
      BY <1>2
    <3> HIDE DEF sp, C
    <3> QED
      BY <3>1 DEF IdsOf
  <2>2. PICK i \in DOMAIN d.manifest : d.manifest[i].href = n
    BY <1>1 DEF ListsFiles
  <2>3. d.manifest[i].id = sp[k]
    BY <1>1, <2>1, <2>2 DEF ListsFiles
  <2>4. LastItemOf(d, sp[k]) # 0
    BY <2>3, LastItemFound
  <2> DEFINE l == LastItemOf(d, sp[k])
  <2>5. l \in DOMAIN d.manifest /\ d.manifest[l].id = sp[k]
    BY <2>4, LastItemFound
  <2> HIDE DEF l
  <2>6. d.manifest[l].href \in N /\ ValidID[d.manifest[l].href] = sp[k]
    BY <1>1, <2>5 DEF ListsFiles
  <2>7. d.manifest[l].href = n
    <3>1. \A a, b \in Names : ValidID[a] = ValidID[b] => a = b
      BY NamesAssumption DEF PlainNames, IsInjective
    <3> QED
      BY <1>1, <2>1, <2>6, <3>1
  <2> QED
    BY <2>3, <2>4, <2>6, <2>7 DEF l, KnownItemrefs
<1>4. KnownItemrefs(d) = DOMAIN sp
  BY <1>3 DEF KnownItemrefs
<1>5. known = sp
  BY <1>2, <1>4, WholeSubsequence
<1>6. names = [k \in DOMAIN known |-> d.manifest[LastItemOf(d, known[k])].href]
  BY SpineFilenames
<1> HIDE DEF known, names
<1>7. /\ DOMAIN names = DOMAIN sp
      /\ \A k \in DOMAIN sp : names[k] \in C /\ ValidID[names[k]] = sp[k]
  BY <1>3, <1>5, <1>6
<1>8. I = DOMAIN sp
  <2>1. ASSUME NEW k \in DOMAIN sp PROVE chapter(names[k]) # {}
    BY <1>7 DEF NamesOf, Chapters
  <2>2. ASSUME NEW k \in DOMAIN sp, NEW j \in 1..(k - 1) PROVE names[j] # names[k]
    <3>1. j \in DOMAIN sp /\ j # k
      BY <1>2
    <3>2. sp[j] # sp[k]
      BY <1>2, <3>1
    <3> QED
      BY <1>7, <3>1, <3>2
  <2> QED
    BY <1>7, <2>1, <2>2
<1>9. ASSUME NEW k \in DOMAIN sp PROVE f[k] \in L \cap HTMLs /\ files[f[k]] = names[k]
  <2>1. k \in I
    BY <1>8
  <2>2. f[k] \in Chapters(files) /\ files[f[k]] = names[k]
    BY <2>1
  <2> HIDE DEF f, I
  <2>3. PICK x \in L \cap HTMLs : names[k] = files[x]
    BY <1>7 DEF NamesOf
  <2>4. f[k] = x
    BY <2>2, <2>3 DEF IsInjective, Chapters
  <2> QED
    BY <2>2, <2>4
<1>10. ChaptersInSpine(d, files) = SubsequenceAt(f, I)
  BY DEF ChaptersInSpine, names
<1>11. DOMAIN f = I
  OBVIOUS
<1>12. f \in [1..Len(sp) -> L \cap HTMLs]
  BY <1>2, <1>8, <1>9
<1> HIDE DEF f, I
<1>13. f \in Seq(L \cap HTMLs)
  BY <1>2, <1>12, FunctionIsASequence
<1>14. ChaptersInSpine(d, files) = f
  BY <1>10, <1>11, <1>13, WholeSubsequence
<1>15. SpineIs(d, files, f)
  BY <1>7, <1>8, <1>9, <1>11 DEF SpineIs, Chapters
<1>16. Enumerates(f, L \cap HTMLs)
  <2>1. \A k \in DOMAIN f : f[k] \in L \cap HTMLs
    BY <1>8, <1>9, <1>11
  <2>2. ASSUME NEW k \in DOMAIN f, NEW l \in DOMAIN f, f[k] = f[l] PROVE k = l
    <3>1. names[k] = names[l] /\ k \in DOMAIN sp /\ l \in DOMAIN sp
      BY <1>8, <1>9, <1>11, <2>2
    <3>2. sp[k] = sp[l]
      BY <1>7, <3>1
    <3> QED
      BY <1>2, <3>1, <3>2
  <2>3. ASSUME NEW r \in L \cap HTMLs PROVE \E k \in DOMAIN f : f[k] = r
    <3>1. files[r] \in C /\ ValidID[files[r]] \in IdsOf(C)
      BY DEF NamesOf, IdsOf
    <3>2. PICK k \in DOMAIN sp : sp[k] = ValidID[files[r]]
      BY <1>2, <3>1
    <3>3. names[k] = files[r]
      <4>1. \A a, b \in Names : ValidID[a] = ValidID[b] => a = b
        BY NamesAssumption DEF PlainNames, IsInjective
      <4> QED
        BY <1>1, <1>7, <3>1, <3>2, <4>1
    <3>4. f[k] = r
      BY <1>9, <3>3 DEF IsInjective, Chapters
    <3> QED
      BY <1>8, <1>11, <3>4
  <2> QED
    BY <1>13, <2>1, <2>2, <2>3, EnumerationOf
<1> QED
  BY <1>14, <1>15, <1>16

LEMMA ChaptersAreTheSpine ==
    ASSUME PlainNames, NEW d \in Documents, NEW files, IsInjective(files), ListsBook(d, files)
    PROVE  /\ SpineIs(d, files, ChaptersInSpine(d, files))
           /\ Enumerates(ChaptersInSpine(d, files), Chapters(files))
<1>1. Chapters(files) = DOMAIN files \cap HTMLs
  BY DEF Chapters
<1>2. Lists(d, NamesOf(files, DOMAIN files), NamesOf(files, DOMAIN files \cap HTMLs))
  BY <1>1 DEF ListsBook
<1>3. DOMAIN files \in SUBSET DOMAIN files
  OBVIOUS
<1>4. /\ SpineIs(d, files, ChaptersInSpine(d, files))
      /\ Enumerates(ChaptersInSpine(d, files), DOMAIN files \cap HTMLs)
  BY <1>2, <1>3, ListedChapters
<1> QED
  BY <1>1, <1>4

-----------------------------------------------------------------------------
(* The names of the files of a book *)

LEMMA NamesWith ==
    ASSUME NEW files, NEW r, r \notin DOMAIN files, NEW n, NEW g, g = With(files, r, n)
    PROVE  /\ NamesOf(g, DOMAIN g) = NamesOf(files, DOMAIN files) \cup {n}
           /\ NamesOf(g, Chapters(g)) = IF IsChapter(r) THEN NamesOf(files, Chapters(files)) \cup {n}
                                        ELSE NamesOf(files, Chapters(files))
<1>1. /\ DOMAIN g = DOMAIN files \cup {r} /\ g[r] = n
      /\ \A x \in DOMAIN files : g[x] = files[x]
  BY DEF With
<1>2. NamesOf(g, DOMAIN g) = NamesOf(files, DOMAIN files) \cup {n}
  BY <1>1 DEF NamesOf
<1>3. CASE r \in HTMLs
  <2>1. Chapters(g) = Chapters(files) \cup {r} /\ Chapters(files) \subseteq DOMAIN files
    BY <1>1, <1>3 DEF Chapters
  <2>2. NamesOf(g, Chapters(g)) = NamesOf(files, Chapters(files)) \cup {n}
    BY <1>1, <2>1 DEF NamesOf
  <2> QED
    BY <1>2, <1>3, <2>2 DEF IsChapter
<1>4. CASE r \notin HTMLs
  <2>1. Chapters(g) = Chapters(files) /\ Chapters(files) \subseteq DOMAIN files
    BY <1>1, <1>4 DEF Chapters
  <2>2. NamesOf(g, Chapters(g)) = NamesOf(files, Chapters(files))
    BY <1>1, <2>1 DEF NamesOf
  <2> QED
    BY <1>2, <1>4, <2>2 DEF IsChapter
<1> QED
  BY <1>3, <1>4

LEMMA NamesWithout ==
    ASSUME NEW files, IsInjective(files), NEW r \in DOMAIN files, NEW g, g = Without(files, r)
    PROVE  /\ NamesOf(g, DOMAIN g) = NamesOf(files, DOMAIN files) \ {files[r]}
           /\ NamesOf(g, Chapters(g)) = NamesOf(files, Chapters(files)) \ {files[r]}
           /\ files[r] \in NamesOf(files, DOMAIN files)
           /\ files[r] \in NamesOf(files, Chapters(files)) <=> IsChapter(r)
<1>1. /\ DOMAIN g = DOMAIN files \ {r}
      /\ \A x \in DOMAIN files \ {r} : g[x] = files[x]
  BY DEF Without, Restrict
<1>2. \A x \in DOMAIN files \ {r} : files[x] # files[r]
  BY DEF IsInjective
<1>3. NamesOf(g, DOMAIN g) = NamesOf(files, DOMAIN files) \ {files[r]}
  BY <1>1, <1>2 DEF NamesOf
<1>4. Chapters(g) = Chapters(files) \ {r} /\ Chapters(files) \subseteq DOMAIN files
  BY <1>1 DEF Chapters
<1>5. NamesOf(g, Chapters(g)) = NamesOf(files, Chapters(files)) \ {files[r]}
  BY <1>1, <1>2, <1>4 DEF NamesOf
<1>6. files[r] \in NamesOf(files, DOMAIN files)
  BY DEF NamesOf
<1>7. files[r] \in NamesOf(files, Chapters(files)) <=> IsChapter(r)
  <2>1. files[r] \in NamesOf(files, Chapters(files)) <=> r \in Chapters(files)
    BY <1>2, <1>4 DEF NamesOf
  <2> QED
    BY <2>1 DEF Chapters, IsChapter
<1> QED
  BY <1>3, <1>5, <1>6, <1>7

\* In g the file r is called n, and the others as before.
Renames(g, files, r, n) ==
    /\ r \in DOMAIN files /\ DOMAIN g = DOMAIN files /\ g[r] = n
    /\ \A x \in DOMAIN files \ {r} : g[x] = files[x]

LEMMA NamesRenamed ==
    ASSUME NEW files, IsInjective(files), NEW r, NEW n, NEW g, Renames(g, files, r, n)
    PROVE  /\ NamesOf(g, DOMAIN g) = (NamesOf(files, DOMAIN files) \ {files[r]}) \cup {n}
           /\ NamesOf(g, Chapters(g)) = IF files[r] \in NamesOf(files, Chapters(files))
                                        THEN (NamesOf(files, Chapters(files)) \ {files[r]}) \cup {n}
                                        ELSE NamesOf(files, Chapters(files))
<1> DEFINE C == NamesOf(files, Chapters(files))
<1>1. /\ DOMAIN g = DOMAIN files /\ g[r] = n /\ r \in DOMAIN files
      /\ \A x \in DOMAIN files \ {r} : g[x] = files[x]
  BY DEF Renames
<1>2. \A x \in DOMAIN files \ {r} : files[x] # files[r]
  BY <1>1 DEF IsInjective
<1>3. NamesOf(g, DOMAIN g) = (NamesOf(files, DOMAIN files) \ {files[r]}) \cup {n}
  BY <1>1, <1>2 DEF NamesOf
<1>4. Chapters(g) = Chapters(files) /\ Chapters(files) \subseteq DOMAIN files
  BY <1>1 DEF Chapters
<1>5. files[r] \in C <=> r \in Chapters(files)
  BY <1>2, <1>4 DEF NamesOf
<1>6. CASE r \in Chapters(files)
  <2>1. NamesOf(g, Chapters(g)) = (C \ {files[r]}) \cup {n}
    BY <1>1, <1>2, <1>4, <1>6 DEF NamesOf
  <2> QED
    BY <1>3, <1>5, <1>6, <2>1
<1>7. CASE r \notin Chapters(files)
  <2>1. NamesOf(g, Chapters(g)) = C
    BY <1>1, <1>4, <1>7 DEF NamesOf
  <2> QED
    BY <1>3, <1>5, <1>7, <2>1
<1> QED
  BY <1>6, <1>7

-----------------------------------------------------------------------------
(* The order of the chapters *)

\* The chapters in reading order, when the spine is the one made for them
LEMMA OrderOfSpine ==
    ASSUME PlainNames, NEW d \in Documents, NEW files, IsInjective(files), ListsBook(d, files),
           NEW s, Enumerates(s, Chapters(files)),
           DOMAIN d.spine = DOMAIN s, \A k \in DOMAIN s : d.spine[k] = ValidID[files[s[k]]]
    PROVE  ChaptersInSpine(d, files) = s
<1> DEFINE t == ChaptersInSpine(d, files)
<1>1. SpineIs(d, files, t) /\ Enumerates(t, Chapters(files))
  BY ChaptersAreTheSpine
<1> HIDE DEF t
<1>2. DOMAIN t = DOMAIN s
  BY <1>1 DEF SpineIs
<1>3. /\ s \in Seq(Chapters(files)) /\ t \in Seq(Chapters(files))
      /\ \A k \in DOMAIN s : s[k] \in Chapters(files)
  BY <1>1, EnumerationHas
<1>4. NamesOf(files, DOMAIN files) \subseteq Names
  BY DEF ListsBook, Lists
<1>5. ASSUME NEW k \in DOMAIN s PROVE t[k] = s[k]
  <2>1. /\ t[k] \in Chapters(files) /\ s[k] \in Chapters(files)
        /\ ValidID[files[t[k]]] = ValidID[files[s[k]]]
    BY <1>1, <1>3 DEF SpineIs
  <2>2. files[t[k]] \in Names /\ files[s[k]] \in Names
    BY <1>4, <2>1 DEF NamesOf, Chapters
  <2>3. files[t[k]] = files[s[k]]
    BY <2>1, <2>2, NamesAssumption DEF PlainNames, IsInjective
  <2> QED
    BY <2>1, <2>3 DEF IsInjective, Chapters
<1>6. Len(s) \in Nat /\ Len(t) \in Nat /\ DOMAIN s = 1..Len(s) /\ DOMAIN t = 1..Len(t)
  BY <1>3, SequenceIsAFunction
<1>7. s \in [1..Len(s) -> Chapters(files)] /\ t \in [1..Len(t) -> Chapters(files)]
  BY <1>3, SequenceIsAFunction
<1>8. t = s
  BY <1>2, <1>5, <1>6, <1>7
<1> QED
  BY <1>8 DEF t

\* Then there is one reading order: no chapter comes after those of the spine.
LEMMA OneReadingOrder ==
    ASSUME PlainNames, NEW d \in Documents, NEW files, IsInjective(files), ListsBook(d, files),
           NEW all \in ReadingOrders(d, files)
    PROVE  all = ChaptersInSpine(d, files)
<1> DEFINE s == ChaptersInSpine(d, files)
<1>1. Enumerates(s, Chapters(files))
  BY ChaptersAreTheSpine
<1>2. PICK rest : all = s \o rest /\ rest \in SetToSeqs(Chapters(files) \ ToSet(s))
  BY DEF ReadingOrders
<1> HIDE DEF s
<1>3. Enumerates(rest, {})
  <2>1. Chapters(files) \ ToSet(s) = {} /\ IsFiniteSet({})
    BY <1>1, FS_EmptySet DEF Enumerates
  <2> QED
    BY <1>2, <2>1, SetToSeqsEnumerates
<1>4. s \in Seq(Chapters(files)) /\ rest \in Seq({})
  BY <1>1, <1>3 DEF Enumerates
<1>5. rest = <<>>
  BY <1>4
<1> QED
  BY <1>2, <1>4, <1>5 DEF s

\* GetReadingOrder is the place of the chapter among them.
LEMMA ReadingOrderIsPlace ==
    ASSUME PlainNames, NEW d \in Documents, NEW files, IsInjective(files), ListsBook(d, files),
           NEW r \in Chapters(files)
    PROVE  /\ GetReadingOrder(d, files[r]) \in DOMAIN ChaptersInSpine(d, files)
           /\ ChaptersInSpine(d, files)[GetReadingOrder(d, files[r])] = r
<1> DEFINE s == ChaptersInSpine(d, files)
           n == files[r]
           k == GetReadingOrder(d, n)
<1>1. SpineIs(d, files, s) /\ Enumerates(s, Chapters(files))
  BY ChaptersAreTheSpine
<1> HIDE DEF s
<1>2. n \in NamesOf(files, DOMAIN files) /\ n \in Names
  BY DEF NamesOf, Chapters, ListsBook, Lists
<1>3. k = ItemrefOf(d, ValidID[n])
  <2>1. GetResourceManifestID(d, n) = ValidID[n]
    BY <1>2, ListedItem DEF ListsBook, GetResourceManifestID
  <2> QED
    BY <2>1 DEF GetReadingOrder
<1>4. PICK i \in DOMAIN s : s[i] = r
  BY <1>1, EnumerationHas
<1>5. i \in DOMAIN d.spine /\ d.spine[i] = ValidID[n]
  BY <1>1, <1>4 DEF SpineIs
<1>6. k \in DOMAIN d.spine /\ d.spine[k] = ValidID[n]
  BY <1>3, <1>5, ItemrefFound
<1>7. i = k
  <2>1. Enumerates(d.spine, IdsOf(NamesOf(files, Chapters(files))))
    BY DEF ListsBook, Lists
  <2> QED
    BY <1>5, <1>6, <2>1 DEF Enumerates, IsInjective
<1> QED
  BY <1>4, <1>7 DEF s

\* The itemref of a file that is renamed changes its id and not its place.
LEMMA RenamedSpine ==
    ASSUME PlainNames, NEW d \in Documents, NEW N, NEW C, Lists(d, N, C),
           NEW old \in N, NEW new \in Names
    PROVE  /\ DOMAIN ResourceRenamed(d, old, new).spine = DOMAIN d.spine
           /\ \A i \in DOMAIN d.spine :
                 ResourceRenamed(d, old, new).spine[i] =
                    IF d.spine[i] = ValidID[old] THEN ValidID[new] ELSE d.spine[i]
<1> DEFINE j == ItemOfPath(d, old)
           k == ItemrefOf(d, IdAt(d, j))
           sp == IF k = 0 THEN d.spine ELSE ReplaceAt(d.spine, k, ValidID[new])
           m == [d.manifest EXCEPT ![j] = [id |-> ValidID[new], href |-> new]]
<1>1. j # 0 /\ IdAt(d, j) = ValidID[old]
  <2>1. old \in Names
    BY DEF Lists
  <2> QED
    BY <2>1, ListedItem
<1>2. ResourceRenamed(d, old, new) = [d EXCEPT !.manifest = m, !.spine = sp]
  BY <1>1 DEF ResourceRenamed, Documents
<1> HIDE DEF j, m, sp
<1>3. ResourceRenamed(d, old, new).spine = sp
  BY <1>2 DEF Documents
<1>4. k = ItemrefOf(d, ValidID[old])
  BY <1>1
<1> HIDE DEF k
<1>5. /\ k = 0 <=> \A i \in DOMAIN d.spine : d.spine[i] # ValidID[old]
      /\ k # 0 => k \in DOMAIN d.spine /\ d.spine[k] = ValidID[old]
  BY <1>4, ItemrefFound
<1>6. \A i, l \in DOMAIN d.spine : d.spine[i] = d.spine[l] => i = l
  BY DEF Lists, Enumerates, IsInjective
<1>7. sp = IF k = 0 THEN d.spine ELSE [d.spine EXCEPT ![k] = ValidID[new]]
  BY DEF sp, ReplaceAt
<1> QED
  BY <1>3, <1>5, <1>6, <1>7

\* So the order of the chapters is the same.
LEMMA RenamedChapters ==
    ASSUME PlainNames, NEW d \in Documents, NEW files, IsInjective(files), ListsBook(d, files),
           NEW r, NEW n \in Names, NEW g, Renames(g, files, r, n), IsInjective(g),
           NEW e \in Documents, ListsBook(e, g), e.spine = ResourceRenamed(d, files[r], n).spine
    PROVE  ChaptersInSpine(e, g) = ChaptersInSpine(d, files)
<1> DEFINE s == ChaptersInSpine(d, files)
           old == files[r]
<1>1. SpineIs(d, files, s) /\ Enumerates(s, Chapters(files))
  BY ChaptersAreTheSpine
<1> HIDE DEF s
<1>2. /\ r \in DOMAIN files /\ DOMAIN g = DOMAIN files /\ g[r] = n
      /\ \A x \in DOMAIN files \ {r} : g[x] = files[x]
  BY DEF Renames
<1>3. Chapters(g) = Chapters(files)
  BY <1>2 DEF Chapters
<1>4. NamesOf(files, DOMAIN files) \subseteq Names /\ old \in NamesOf(files, DOMAIN files)
  BY <1>2 DEF ListsBook, Lists, NamesOf
<1>5. /\ DOMAIN e.spine = DOMAIN d.spine
      /\ \A i \in DOMAIN d.spine :
            e.spine[i] = IF d.spine[i] = ValidID[old] THEN ValidID[n] ELSE d.spine[i]
  BY <1>4, RenamedSpine DEF ListsBook
<1>6. ASSUME NEW k \in DOMAIN s PROVE e.spine[k] = ValidID[g[s[k]]]
  <2>1. k \in DOMAIN d.spine /\ s[k] \in Chapters(files) /\ d.spine[k] = ValidID[files[s[k]]]
    BY <1>1 DEF SpineIs
  <2>2. CASE s[k] = r
    BY <1>2, <1>5, <2>1, <2>2
  <2>3. CASE s[k] # r
    <3>1. s[k] \in DOMAIN files /\ files[s[k]] # old
      BY <1>2, <2>1, <2>3 DEF IsInjective, Chapters
    <3>2. files[s[k]] \in Names /\ old \in Names
      BY <1>4, <3>1 DEF NamesOf
    <3>3. d.spine[k] # ValidID[old]
      BY <2>1, <3>1, <3>2, NamesAssumption DEF PlainNames, IsInjective
    <3> QED
      BY <1>2, <1>5, <2>1, <2>3, <3>1, <3>3
  <2> QED
    BY <2>2, <2>3
<1>7. DOMAIN e.spine = DOMAIN s /\ Enumerates(s, Chapters(g))
  BY <1>1, <1>3, <1>5 DEF SpineIs
<1>8. ChaptersInSpine(e, g) = s
  BY <1>6, <1>7, OrderOfSpine
<1> QED
  BY <1>8 DEF s

\* An index of the list is not changed by the bounds of Insert.
LEMMA InsertInBounds ==
    ASSUME NEW T, NEW s \in Seq(T), NEW i \in DOMAIN s, NEW e
    PROVE  Insert(s, i, e) = InsertAt(s, i, e)
<1> DEFINE n == Len(s)
           m == Min({i, n + 1})
           M == Max({1, m})
<1>1. n \in Nat /\ i \in 1..n
  BY SequenceIsAFunction
<1> HIDE DEF n
<1>2. m = i
  <2>1. {i, n + 1} \in SUBSET Nat /\ {i, n + 1} # {}
    BY <1>1
  <2>2. m \in {i, n + 1} /\ m <= i
    BY <2>1, MinIsLeast
  <2> QED
    BY <1>1, <2>2
<1> HIDE DEF m
<1>3. M = i
  <2>1. {1, m} \in SUBSET (0..(n + 1)) /\ {1, m} # {} /\ n + 1 \in Nat
    BY <1>1, <1>2
  <2>2. M \in {1, m} /\ m <= M /\ 1 <= M
    BY <2>1, MaxIsGreatest
  <2> QED
    BY <1>1, <1>2, <2>2
<1> QED
  BY <1>3 DEF Insert, M, m, n

-----------------------------------------------------------------------------
(* The commands and the jobs *)

\* A chapter that was created is not listed until its job has done it.
Pending == {created[i] : i \in DOMAIN created \ listed}

Listed == Live \ Pending

\* The chapters a batch puts in order are those that were there before it.
OrderIsOfOthers == asked > 0 => Enumerates(order, Chapters(filename) \ Range(created))

ListsInv ==
    /\ TypesAndSize /\ FilenamesAreUnique
    /\ IsInjective(created) /\ stolen = {}
    /\ OrderIsOfOthers
    /\ Lists(Document, NamesOf(filename, Listed), NamesOf(filename, Listed \cap HTMLs))

LEMMA QuietBook ==
    ASSUME ListsInv, asked = 0
    PROVE  /\ created = <<>> \/ DOMAIN created = {}
           /\ DOMAIN created = {} /\ Range(created) = {}
           /\ ListsBook(Document, filename) /\ IsInjective(filename) /\ FilesOK(filename)
           /\ cache = NoCache => Document = opf
           /\ Document \in Documents /\ opf \in Documents
           /\ DOMAIN filename = Live /\ Live \subseteq Resources
<1>1. TypeInv /\ FilesOK(filename) /\ IsInjective(filename)
  BY DEF ListsInv, TypesAndSize, TypeInv, FilesOK, Live, FilenamesAreUnique
<1>2. DOMAIN created = {}
  <2>1. DOMAIN created \subseteq 1..0
    BY <1>1 DEF TypeInv
  <2> QED
    BY <2>1
<1>3. Range(created) = {} /\ Pending = {}
  BY <1>2 DEF Range, Pending
<1>4. Listed = DOMAIN filename /\ Listed \cap HTMLs = Chapters(filename)
  BY <1>3 DEF Listed, Live, Chapters
<1>5. ListsBook(Document, filename)
  BY <1>4 DEF ListsInv, ListsBook
<1> QED
  BY <1>1, <1>2, <1>3, <1>5 DEF Document, TypeInv, Live

\* A command leaves a document that lists the book.
LEMMA QuietStep ==
    ASSUME ListsInv, Ready, UNCHANGED batch_vars, UNCHANGED cache,
           TypesAndSize', FilenamesAreUnique', ListsBook(opf', filename')
    PROVE  ListsInv'
<1>1. asked = 0 /\ asked' = 0 /\ cache' = NoCache /\ DOMAIN created' = {}
      /\ created' = created /\ stolen' = stolen
  BY QuietBook DEF Ready, batch_vars
<1>2. Pending' = {}
  BY <1>1 DEF Pending
<1>3. Listed' = DOMAIN filename' /\ Listed' \cap HTMLs = Chapters(filename')
  BY <1>2 DEF Listed, Live, Chapters
<1>4. Document' = opf'
  BY <1>1 DEF Document
<1>5. Lists(Document', NamesOf(filename', Listed'), NamesOf(filename', Listed' \cap HTMLs))
  BY <1>3, <1>4 DEF ListsBook
<1> QED
  BY <1>1, <1>5 DEF ListsInv, OrderIsOfOthers

LEMMA ContentFileLists ==
    ASSUME PlainNames, ListsInv, TypesAndSize', FilenamesAreUnique',
           NEW r \in Resources, NEW n \in NamesFor(r), AddContentFile(r, n) \/ Rename(r, n)
    PROVE  ListsInv'
<1> DEFINE N == NamesOf(filename, DOMAIN filename)
           C == NamesOf(filename, Chapters(filename))
<1>1. /\ Ready /\ asked = 0 /\ cache = NoCache /\ UNCHANGED batch_vars /\ UNCHANGED cache
      /\ n \notin Range(filename)
  BY DEF AddContentFile, Rename, Ready, SetText
<1>2. Lists(opf, N, C) /\ opf \in Documents /\ IsInjective(filename)
  BY <1>1, QuietBook DEF ListsBook
<1>3. n \in Names /\ n \notin N
  BY <1>1, FileNames DEF Range, NamesOf
<1>4. CASE AddContentFile(r, n)
  <2>1. /\ opf' = AddResource(opf, n, IsChapter(r)) /\ filename' = With(filename, r, n)
        /\ r \notin DOMAIN filename
    BY <1>4 DEF AddContentFile, SetText, Live
  <2>2. IsChapter(r) \in BOOLEAN
    BY DEF IsChapter
  <2>3. Lists(AddResource(opf, n, IsChapter(r)), N \cup {n}, IF IsChapter(r) THEN C \cup {n} ELSE C)
    BY <1>2, <1>3, <2>2, AddLists
  <2>4. /\ NamesOf(filename', DOMAIN filename') = N \cup {n}
        /\ NamesOf(filename', Chapters(filename')) = IF IsChapter(r) THEN C \cup {n} ELSE C
    BY <2>1, NamesWith
  <2> HIDE DEF N, C
  <2>5. ListsBook(opf', filename')
    BY <2>1, <2>3, <2>4 DEF ListsBook
  <2> QED
    BY <1>1, <2>5, QuietStep
<1>5. CASE Rename(r, n)
  <2> DEFINE old == filename[r]
             opf1 == ResourceRenamed(opf, old, n)
             N1 == (N \ {old}) \cup {n}
             C1 == IF old \in C THEN (C \ {old}) \cup {n} ELSE C
  <2>1. /\ opf' = UpdatePaths(opf1, old, n)
        /\ filename' = [filename EXCEPT ![r] = n] /\ r \in DOMAIN filename
    BY <1>5 DEF Rename, SetText, Live
  <2>2. old \in N /\ n \notin N \ {old} /\ old # n
    BY <1>3, <2>1 DEF NamesOf
  <2> HIDE DEF old
  <2>3. Lists(opf1, N1, C1)
    BY <1>2, <1>3, <2>2, RenamedLists
  <2>4. opf1 \in Documents /\ old \notin N1
    BY <1>2, <1>3, <2>2, RenamedType
  <2> HIDE DEF opf1, N1, C1
  <2>5. Lists(UpdatePaths(opf1, old, n), N1, C1)
    BY <2>3, <2>4, PathsLists
  <2>6. NamesOf(filename', DOMAIN filename') = N1 /\ NamesOf(filename', Chapters(filename')) = C1
    <3>0. Renames(filename', filename, r, n)
      BY <2>1 DEF Renames
    <3>1. /\ NamesOf(filename', DOMAIN filename') = (N \ {filename[r]}) \cup {n}
          /\ NamesOf(filename', Chapters(filename')) =
                IF filename[r] \in C THEN (C \ {filename[r]}) \cup {n} ELSE C
      BY <1>2, <3>0, NamesRenamed
    <3> QED
      BY <3>1 DEF N1, C1, old
  <2>7. ListsBook(opf', filename')
    BY <2>1, <2>5, <2>6 DEF ListsBook
  <2> QED
    BY <1>1, <2>7, QuietStep
<1> QED
  BY <1>4, <1>5

LEMMA DropLists ==
    ASSUME PlainNames, ListsInv, TypesAndSize', FilenamesAreUnique', NEW r \in Live, Ready, Drop(r)
    PROVE  ListsInv'
<1> DEFINE N == NamesOf(filename, DOMAIN filename)
           C == NamesOf(filename, Chapters(filename))
           n == filename[r]
<1>1. /\ asked = 0 /\ cache = NoCache /\ UNCHANGED batch_vars /\ UNCHANGED cache
      /\ opf' = RemoveResource(opf, n, IsChapter(r)) /\ filename' = Without(filename, r)
      /\ r \in DOMAIN filename
  BY DEF Drop, Ready, SetText, Live
<1>2. Lists(opf, N, C) /\ opf \in Documents /\ IsInjective(filename)
  BY <1>1, QuietBook DEF ListsBook
<1>3. /\ NamesOf(filename', DOMAIN filename') = N \ {n}
      /\ NamesOf(filename', Chapters(filename')) = C \ {n}
      /\ n \in N /\ (n \in C <=> IsChapter(r))
  BY <1>1, <1>2, NamesWithout
<1>4. IsChapter(r) \in BOOLEAN
  BY DEF IsChapter
<1> HIDE DEF N, C, n
<1>5. Lists(RemoveResource(opf, n, IsChapter(r)), N \ {n}, C \ {n})
  BY <1>2, <1>3, <1>4, RemoveLists
<1>6. ListsBook(opf', filename')
  BY <1>1, <1>3, <1>5 DEF ListsBook
<1> QED
  BY <1>1, <1>6, QuietStep

LEMMA MoveLists ==
    ASSUME PlainNames, ListsInv, TypesAndSize', FilenamesAreUnique', NEW r, NEW k, MoveHTML(r, k)
    PROVE  ListsInv'
<1> DEFINE N == NamesOf(filename, DOMAIN filename)
           C == NamesOf(filename, Chapters(filename))
<1>1. /\ Ready /\ asked = 0 /\ cache = NoCache /\ UNCHANGED batch_vars /\ UNCHANGED cache
      /\ UNCHANGED filename /\ r \in Chapters(filename) /\ k \in 1..Cardinality(Chapters(filename))
  BY DEF MoveHTML, Ready, SetText
<1>2. PICK s \in ReadingOrders(opf, filename) :
         opf' = UpdateSpineOrder(opf, FilenamesOf(InsertAt(RemoveFirst(s, r), k, r), filename))
  BY DEF MoveHTML, SetText
<1> DEFINE moved == InsertAt(RemoveFirst(s, r), k, r)
           names == FilenamesOf(moved, filename)
<1>3. Lists(opf, N, C) /\ opf \in Documents /\ IsInjective(filename) /\ FilesOK(filename)
  BY <1>1, QuietBook DEF ListsBook
<1>4. Enumerates(s, Chapters(filename))
  BY <1>3, OrdersEnumerate DEF FilesOK
<1>5. Enumerates(moved, Chapters(filename))
  BY <1>1, <1>4, MovedEnumerates
<1>6. opf' = UpdateSpineOrder(opf, names)
  BY <1>2
<1> HIDE DEF moved
<1>7. Chapters(filename) \in SUBSET DOMAIN filename
  BY DEF Chapters
<1>8. Enumerates(names, C)
  BY <1>3, <1>5, <1>7, FilenamesEnumerate
<1> HIDE DEF names
<1>9. C \in SUBSET N
  BY <1>3 DEF Lists
<1>10. Lists(UpdateSpineOrder(opf, names), N, C)
  BY <1>3, <1>8, <1>9, SpineOrderLists
<1>11. ListsBook(opf', filename')
  BY <1>1, <1>6, <1>10 DEF ListsBook
<1> QED
  BY <1>1, <1>11, QuietStep

\* The new file is in front of the one it was split from, and the others as before.
FirstPartBefore(r, new) ==
    \E k \in DOMAIN ChaptersInSpine(opf, filename) :
        /\ ChaptersInSpine(opf, filename)[k] = r
        /\ ChaptersInSpine(opf', filename') = InsertAt(ChaptersInSpine(opf, filename), k, new)

LEMMA SplitLists ==
    ASSUME PlainNames, ListsInv, TypesAndSize', FilenamesAreUnique',
           NEW r, NEW new \in HTMLs, SplitChapter(r, new)
    PROVE  ListsInv' /\ FirstPartBefore(r, new)
<1> DEFINE N == NamesOf(filename, DOMAIN filename)
           C == NamesOf(filename, Chapters(filename))
           old == filename[r]
           v == UniqueVersion(1, filename)
           Sv == Section[v]
           files1 == [filename EXCEPT ![r] = Sv]
           N1 == (N \ {old}) \cup {Sv}
           C1 == (C \ {old}) \cup {Sv}
           opf1 == ResourceRenamed(opf, old, Sv)
           w == UniqueVersion(1, files1)
           Sw == Section[w]
           added == AddResource(opf1, Sw, TRUE)
           opf2 == ResourceRenamed(added, Sw, old)
           i == GetReadingOrder(opf1, Sv)
<1>1. /\ Ready /\ asked = 0 /\ cache = NoCache /\ UNCHANGED batch_vars /\ UNCHANGED cache
      /\ r \in Chapters(filename) /\ new \notin DOMAIN filename
      /\ v \in DOMAIN Section /\ w \in DOMAIN Section
      /\ filename' = With(files1, new, old)
  BY DEF SplitChapter, Ready, SetText, Live
<1>2. PICK s \in ReadingOrders(opf1, files1) :
         opf' = UpdateSpineOrder(opf2, FilenamesOf(Insert(s, i, new), filename'))
  BY DEF SplitChapter, SetText
<1>3. Lists(opf, N, C) /\ opf \in Documents /\ IsInjective(filename) /\ FilesOK(filename)
  BY <1>1, QuietBook DEF ListsBook
<1>4. Sv \in Names /\ Sv \notin N /\ Sw \in Names /\ Sw \notin Range(files1)
  <2>1. Sv \notin Range(filename) /\ Sw \notin Range(files1)
    BY <1>1, VersionIsFree
  <2>2. Sv \notin N
    BY <2>1 DEF Range, NamesOf
  <2> HIDE DEF v, w, N
  <2> QED
    BY <1>1, <2>1, <2>2, FileNames, FilenamesAssumption
<1>5. old \in N /\ old \in C /\ old \in Names /\ old # Sv /\ old \notin N1
  BY <1>1, <1>3, <1>4 DEF NamesOf, Chapters, Lists
<1> HIDE DEF v, w
<1>6. Renames(files1, filename, r, Sv) /\ IsInjective(files1)
  <2>1. Sv \notin Range(filename)
    BY <1>4 DEF Range, NamesOf
  <2> HIDE DEF Sv
  <2>2. IsInjective(files1)
    BY <1>3, <2>1, NewNameKeepsUnique
  <2> QED
    BY <1>1, <2>2 DEF Renames, Chapters
<1> HIDE DEF files1, Sv
<1>7. NamesOf(files1, DOMAIN files1) = N1 /\ NamesOf(files1, Chapters(files1)) = C1
  BY <1>3, <1>5, <1>6, NamesRenamed
<1>8. Lists(opf1, N1, C1) /\ opf1 \in Documents
  <2>1. Sv \notin N \ {old}
    BY <1>4
  <2> HIDE DEF N, C, old
  <2>2. Lists(opf1, N1, IF old \in C THEN (C \ {old}) \cup {Sv} ELSE C)
    BY <1>3, <1>4, <1>5, <2>1, RenamedLists
  <2> QED
    BY <1>3, <1>4, <1>5, <2>2, RenamedType
<1>9. Sw \notin N1
  BY <1>4, <1>7 DEF Range, NamesOf
<1> HIDE DEF N, C, old, Sw, opf1, N1, C1
<1>10. Lists(added, N1 \cup {Sw}, C1 \cup {Sw}) /\ added \in Documents
  BY <1>4, <1>8, <1>9, AddLists, AddType
<1> HIDE DEF added
<1>11. Lists(opf2, N1 \cup {old}, C1 \cup {old}) /\ opf2 \in Documents
  <2>1. Sw \in N1 \cup {Sw} /\ old \notin (N1 \cup {Sw}) \ {Sw} /\ Sw \in C1 \cup {Sw}
    BY <1>5, <1>9
  <2>2. Lists(opf2, ((N1 \cup {Sw}) \ {Sw}) \cup {old},
                    IF Sw \in C1 \cup {Sw} THEN ((C1 \cup {Sw}) \ {Sw}) \cup {old} ELSE C1 \cup {Sw})
    BY <1>5, <1>10, <2>1, RenamedLists
  <2>3. C1 \subseteq N1
    BY <1>8 DEF Lists
  <2>4. (N1 \cup {Sw}) \ {Sw} = N1 /\ (C1 \cup {Sw}) \ {Sw} = C1
    BY <1>9, <2>3
  <2>5. opf2 \in Documents
    BY <1>5, <1>10, RenamedType
  <2> QED
    BY <2>1, <2>2, <2>4, <2>5
<1> HIDE DEF opf2
<1>12. /\ DOMAIN files1 = DOMAIN filename /\ new \notin DOMAIN files1 /\ IsChapter(new)
       /\ IsFiniteSet(DOMAIN files1)
  BY <1>1, <1>3, <1>6 DEF Renames, IsChapter, FilesOK
<1>13. /\ NamesOf(filename', DOMAIN filename') = N1 \cup {old}
       /\ NamesOf(filename', Chapters(filename')) = C1 \cup {old}
       /\ Chapters(filename') = Chapters(files1) \cup {new}
  <2>1. /\ NamesOf(filename', DOMAIN filename') = N1 \cup {old}
        /\ NamesOf(filename', Chapters(filename')) = C1 \cup {old}
    BY <1>1, <1>7, <1>12, NamesWith
  <2>2. DOMAIN filename' = DOMAIN files1 \cup {new}
    BY <1>1 DEF With
  <2> QED
    BY <2>1, <2>2 DEF Chapters
<1>14. Enumerates(s, Chapters(files1)) /\ new \notin Chapters(files1)
  BY <1>8, <1>12, OrdersEnumerate DEF Chapters
<1>15. i \in Nat
  BY <1>8, ReadingOrderType
<1> DEFINE all == Insert(s, i, new)
           names == FilenamesOf(all, filename')
<1>16. opf' = UpdateSpineOrder(opf2, names)
  BY <1>2
<1> HIDE DEF i
<1>17. Enumerates(all, Chapters(filename'))
  BY <1>13, <1>14, <1>15, InsertedEnumerates
<1> HIDE DEF all
<1>18. Chapters(filename') \in SUBSET DOMAIN filename' /\ IsInjective(filename')
  BY DEF Chapters, FilenamesAreUnique
<1>19. Enumerates(names, C1 \cup {old})
  BY <1>13, <1>17, <1>18, FilenamesEnumerate
<1> HIDE DEF names
<1>20. C1 \cup {old} \in SUBSET (N1 \cup {old})
  BY <1>11 DEF Lists
<1>21. /\ Lists(UpdateSpineOrder(opf2, names), N1 \cup {old}, C1 \cup {old})
       /\ UpdateSpineOrder(opf2, names).spine = [k \in DOMAIN names |-> ValidID[names[k]]]
  BY <1>11, <1>19, <1>20, SpineOrderLists
<1>22. ListsBook(opf', filename')
  BY <1>13, <1>16, <1>21 DEF ListsBook
<1>23. ListsInv'
  BY <1>1, <1>22, QuietStep
<1> DEFINE before == ChaptersInSpine(opf, filename)
           place == GetReadingOrder(opf1, Sv)
<1>24. ListsBook(opf, filename) /\ ListsBook(opf1, files1)
  BY <1>3, <1>7, <1>8 DEF N, C, ListsBook
<1>25. s = ChaptersInSpine(opf1, files1)
  BY <1>2, <1>6, <1>8, <1>24, OneReadingOrder
<1>26. ChaptersInSpine(opf1, files1) = before
  <2>1. opf1.spine = ResourceRenamed(opf, filename[r], Sv).spine
    BY DEF opf1, old
  <2> QED
    BY <1>3, <1>4, <1>6, <1>8, <1>24, <2>1, RenamedChapters
<1>27. place \in DOMAIN before /\ before[place] = r
  <2>1. r \in Chapters(files1) /\ files1[r] = Sv
    BY <1>1, <1>6 DEF Renames, Chapters
  <2> QED
    BY <1>6, <1>8, <1>24, <1>26, <2>1, ReadingOrderIsPlace
<1>28. all = InsertAt(before, place, new)
  <2>1. s \in Seq(Chapters(files1)) /\ s = before
    BY <1>14, <1>25, <1>26 DEF Enumerates
  <2>2. all = Insert(s, place, new)
    BY DEF all, i
  <2> HIDE DEF place, before
  <2> QED
    BY <1>27, <2>1, <2>2, InsertInBounds
<1>29. ChaptersInSpine(opf', filename') = all
  <2>1. DOMAIN names = DOMAIN all /\ \A k \in DOMAIN all : names[k] = filename'[all[k]]
    BY DEF names, FilenamesOf
  <2>2. opf'.spine = [k \in DOMAIN names |-> ValidID[names[k]]]
    BY <1>16, <1>21
  <2>3. DOMAIN opf'.spine = DOMAIN all /\ \A k \in DOMAIN all : opf'.spine[k] = ValidID[filename'[all[k]]]
    BY <2>1, <2>2
  <2>4. opf' \in Documents
    BY DEF TypesAndSize, TypeInv
  <2> QED
    BY <1>17, <1>18, <1>22, <2>3, <2>4, OrderOfSpine
<1>30. FirstPartBefore(r, new)
  BY <1>27, <1>28, <1>29 DEF FirstPartBefore
<1> QED
  BY <1>23, <1>30

LEMMA InsertLists ==
    ASSUME ListsInv, TypesAndSize', FilenamesAreUnique', ~Stealing,
           NEW i, NEW r \in HTMLs, InsertChapter(i, r)
    PROVE  ListsInv'
<1>1. /\ i \notin DOMAIN created /\ r \notin Live /\ created' = With(created, i, r)
      /\ stolen' = stolen /\ UNCHANGED <<opf, cache, asked, order, listed>>
  BY DEF InsertChapter, Begin
<1>2. PICK n : filename' = With(filename, r, n)
  BY DEF InsertChapter
<1>3. /\ Range(created) \subseteq Live /\ listed \subseteq DOMAIN created
      /\ IsInjective(created) /\ stolen = {}
  BY DEF ListsInv, TypesAndSize, TypeInv, Chapters, Live
<1>4. /\ DOMAIN created' = DOMAIN created \cup {i} /\ created'[i] = r
      /\ \A j \in DOMAIN created : created'[j] = created[j]
      /\ Live' = Live \cup {r}
      /\ \A x \in Live : filename'[x] = filename[x]
  BY <1>1, <1>2 DEF With, Live
<1>5. Range(created') = Range(created) \cup {r} /\ r \notin Range(created)
  BY <1>1, <1>3, <1>4 DEF Range
<1>6. IsInjective(created')
  <2>1. \A j \in DOMAIN created : created[j] # r
    BY <1>1, <1>3 DEF Range
  <2> QED
    BY <1>3, <1>4, <2>1 DEF IsInjective
<1>7. Pending' = Pending \cup {r}
  BY <1>1, <1>3, <1>4 DEF Pending
<1>8. Listed' = Listed
  BY <1>1, <1>4, <1>7 DEF Listed
<1>9. \A S \in SUBSET Live : NamesOf(filename', S) = NamesOf(filename, S)
  BY <1>4 DEF NamesOf
<1>10. /\ NamesOf(filename', Listed') = NamesOf(filename, Listed)
       /\ NamesOf(filename', Listed' \cap HTMLs) = NamesOf(filename, Listed \cap HTMLs)
  BY <1>8, <1>9 DEF Listed
<1>11. Document' = Document
  BY <1>1 DEF Document
<1>12. Chapters(filename') \ Range(created') = Chapters(filename) \ Range(created)
  BY <1>1, <1>4, <1>5 DEF Chapters, Live
<1> QED
  BY <1>1, <1>3, <1>6, <1>10, <1>11, <1>12 DEF ListsInv, OrderIsOfOthers

LEMMA ListLists ==
    ASSUME PlainNames, ListsInv, TypesAndSize', FilenamesAreUnique', NEW i, ListChapter(i)
    PROVE  ListsInv'
<1> DEFINE r == created[i]
           n == filename[r]
           N == NamesOf(filename, Listed)
           C == NamesOf(filename, Listed \cap HTMLs)
           added == AddResource(Document, n, TRUE)
<1>1. TypeInv /\ IsInjective(created) /\ stolen = {} /\ Lists(Document, N, C) /\ IsInjective(filename)
  BY DEF ListsInv, TypesAndSize, FilenamesAreUnique
<1>2. /\ i \in DOMAIN created /\ i \notin listed /\ listed' = listed \cup {i}
      /\ cache' = added /\ UNCHANGED <<opf, filename, asked, order, created, stolen>>
  BY <1>1 DEF ListChapter
<1>3. Document \in Documents
  BY <1>1 DEF Document, TypeInv
<1>4. r \in Live /\ r \in HTMLs /\ r \in Pending
  BY <1>1, <1>2 DEF TypeInv, Range, Chapters, Live, Pending
<1>5. Pending' = Pending \ {r}
  BY <1>1, <1>2 DEF Pending, IsInjective
<1>6. Listed' = Listed \cup {r} /\ r \notin Listed
  BY <1>2, <1>4, <1>5 DEF Listed, Live
<1>7. n \in Names \ N
  <2>1. n \in Names
    BY <1>1, <1>4, FileNames DEF TypeInv
  <2>2. n \notin N
    BY <1>1, <1>4, <1>6 DEF NamesOf, IsInjective, Listed, Live
  <2> QED
    BY <2>1, <2>2
<1>8. NamesOf(filename', Listed') = N \cup {n} /\ NamesOf(filename', Listed' \cap HTMLs) = C \cup {n}
  <2>1. Listed' \cap HTMLs = (Listed \cap HTMLs) \cup {r}
    BY <1>4, <1>6
  <2> QED
    BY <1>2, <1>6, <2>1 DEF NamesOf
<1> HIDE DEF N, C, n
<1>9. Lists(added, N \cup {n}, C \cup {n}) /\ added \in Documents
  BY <1>1, <1>3, <1>7, AddLists, AddType
<1>10. Document' = added
  BY <1>2, <1>9, CacheAssumption DEF Document
<1> HIDE DEF added, r
<1>11. Lists(Document', NamesOf(filename', Listed'), NamesOf(filename', Listed' \cap HTMLs))
  BY <1>8, <1>9, <1>10
<1>12. OrderIsOfOthers'
  BY <1>2 DEF ListsInv, OrderIsOfOthers, Chapters
<1> QED
  BY <1>1, <1>2, <1>11, <1>12 DEF ListsInv

LEMMA FinishLists ==
    ASSUME PlainNames, ListsInv, TypesAndSize', FilenamesAreUnique', FinishChapters
    PROVE  ListsInv'
<1> DEFINE N == NamesOf(filename, DOMAIN filename)
           C == NamesOf(filename, Chapters(filename))
           all == order \o [i \in 1..asked |-> created[i]]
           names == FilenamesOf(all, filename)
<1>1. TypeInv /\ IsInjective(created) /\ IsInjective(filename) /\ OrderIsOfOthers
  BY DEF ListsInv, TypesAndSize, FilenamesAreUnique
<1>2. /\ asked > 0 /\ listed = 1..asked
      /\ opf' = UpdateSpineOrder(Document, names)
      /\ UNCHANGED <<filename, cache>> /\ asked' = 0 /\ order' = <<>>
      /\ created' = <<>> /\ stolen' = {} /\ listed' = {}
  BY DEF FinishChapters, SetText
<1>3. DOMAIN created = 1..asked /\ asked \in Nat
  <2>1. asked \in 0..MaxNewChapters
        /\ DOMAIN created \subseteq 1..asked /\ listed \subseteq DOMAIN created
    BY <1>1 DEF TypeInv
  <2>2. asked \in Nat
    BY <2>1, BoundAssumption
  <2> QED
    BY <1>2, <2>1, <2>2
<1>4. Pending = {}
  BY <1>2, <1>3 DEF Pending
<1>5. DOMAIN created' = {}
  <2>1. DOMAIN <<>> = {}
    OBVIOUS
  <2> QED
    BY <1>2, <2>1
<1>6. Pending' = {} /\ IsInjective(created')
  BY <1>5 DEF Pending, IsInjective
<1>7. Lists(Document, N, C)
  <2>1. Listed = DOMAIN filename /\ Listed \cap HTMLs = Chapters(filename)
    BY <1>4 DEF Listed, Live, Chapters
  <2> QED
    BY <2>1 DEF ListsInv
<1>8. /\ NamesOf(filename', Listed') = N
      /\ NamesOf(filename', Listed' \cap HTMLs) = C
  <2>1. Listed' = DOMAIN filename /\ Listed' \cap HTMLs = Chapters(filename)
    BY <1>2, <1>6 DEF Listed, Live, Chapters
  <2> QED
    BY <1>2, <2>1
<1>9. Enumerates(all, Chapters(filename))
  <2>1. Enumerates(order, Chapters(filename) \ Range(created))
    BY <1>1, <1>2 DEF OrderIsOfOthers
  <2>2. Range(created) \subseteq Chapters(filename)
    BY <1>1 DEF TypeInv
  <2>3. Range(created) \cap (Chapters(filename) \ Range(created)) = {}
    OBVIOUS
  <2>4. Enumerates(all, (Chapters(filename) \ Range(created)) \cup Range(created))
    BY <1>1, <1>3, <2>1, <2>3, BatchEnumerates
  <2>5. (Chapters(filename) \ Range(created)) \cup Range(created) = Chapters(filename)
    BY <2>2
  <2> QED
    BY <2>4, <2>5
<1> HIDE DEF all
<1>10. Chapters(filename) \in SUBSET DOMAIN filename
  BY DEF Chapters
<1>11. Enumerates(names, C)
  BY <1>1, <1>9, <1>10, FilenamesEnumerate
<1> HIDE DEF names
<1>12. Document \in Documents /\ C \in SUBSET N
  BY <1>1, <1>7 DEF Document, TypeInv, Lists
<1> HIDE DEF N, C
<1>13. Lists(UpdateSpineOrder(Document, names), N, C)
  BY <1>7, <1>11, <1>12, SpineOrderLists
<1>14. Document' = UpdateSpineOrder(Document, names) \/ Document' = Document
  BY <1>2 DEF Document
<1>15. Lists(Document', N, C)
  BY <1>7, <1>13, <1>14
<1> QED
  BY <1>2, <1>6, <1>8, <1>15 DEF ListsInv, OrderIsOfOthers

LEMMA ListsStep ==
    ASSUME PlainNames, ~Stealing, ListsInv, [Next]_vars
    PROVE  ListsInv'
<1>1. TypesAndSize' /\ FilenamesAreUnique'
  BY TypeStep, UniqueStep DEF ListsInv
<1>2. CASE DelayedUpdateToTextDocument
  <2>1. Document' = Document /\ UNCHANGED <<filename, batch_vars>>
    BY <1>2 DEF DelayedUpdateToTextDocument, Document
  <2> QED
    BY <1>1, <2>1 DEF ListsInv, batch_vars, Listed, Pending, Live, OrderIsOfOthers, Chapters
<1>3. ASSUME NEW r \in Resources, Delete(r) \/ MergeWithPrevious(r) PROVE ListsInv'
  <2>1. Ready /\ r \in Live /\ Drop(r)
    BY <1>3 DEF Delete, MergeWithPrevious, MergeIsOffered, Chapters, Live
  <2> QED
    BY <1>1, <2>1, DropLists
<1>4. ASSUME NEW r \in Resources, NEW type, SetCoverImage(r) \/ AddSemantics(r, type) PROVE ListsInv'
  <2>1. /\ Ready /\ asked = 0 /\ cache = NoCache
        /\ UNCHANGED batch_vars /\ UNCHANGED cache /\ UNCHANGED filename
        /\ \/ opf' = SetResourceAsCoverImage(opf, filename[r])
           \/ opf' = AddGuideSemanticType(opf, filename[r], type)
    BY <1>4 DEF SetCoverImage, AddSemantics, Ready, SetText
  <2>2. ListsBook(opf, filename) /\ opf \in Documents
    BY <2>1, QuietBook
  <2>3. opf'.manifest = opf.manifest /\ opf'.spine = opf.spine
    BY <2>1, <2>2, SameLists
  <2>4. ListsBook(opf', filename')
    BY <2>1, <2>2, <2>3 DEF ListsBook, Lists, Chapters
  <2> QED
    BY <1>1, <2>1, <2>4, QuietStep
<1>5. ASSUME NEW k \in 1..MaxNewChapters, CreateNewChapters(k) PROVE ListsInv'
  <2>1. /\ asked' = k /\ order' \in ReadingOrders(opf, filename) /\ asked = 0
        /\ UNCHANGED <<filename, opf, cache, created, stolen, listed>>
    BY <1>5 DEF CreateNewChapters, Ready
  <2>2. opf \in Documents /\ FilesOK(filename) /\ Range(created) = {}
    BY <2>1, QuietBook
  <2>3. Enumerates(order', Chapters(filename))
    BY <2>1, <2>2, OrdersEnumerate DEF FilesOK
  <2>4. Chapters(filename') \ Range(created') = Chapters(filename)
    BY <2>1, <2>2
  <2> QED
    BY <1>1, <2>1, <2>3, <2>4 DEF ListsInv, Listed, Pending, Live, OrderIsOfOthers, Document
<1>6. CASE Next
  <2>1. ASSUME NEW r \in Resources, NEW n \in NamesFor(r), AddContentFile(r, n) \/ Rename(r, n)
        PROVE  ListsInv'
    BY <1>1, <2>1, ContentFileLists
  <2>2. ASSUME NEW r \in Resources, NEW k \in 1..Cardinality(HTMLs), MoveHTML(r, k)
        PROVE  ListsInv'
    BY <1>1, <2>2, MoveLists
  <2>3. ASSUME NEW r \in Resources, NEW new \in HTMLs, SplitChapter(r, new)
        PROVE  ListsInv'
    BY <1>1, <2>3, SplitLists
  <2>4. ASSUME NEW i \in 1..MaxNewChapters, NEW r \in HTMLs, InsertChapter(i, r)
        PROVE  ListsInv'
    BY <1>1, <2>4, InsertLists
  <2>5. ASSUME NEW i \in 1..MaxNewChapters, ListChapter(i) PROVE ListsInv'
    BY <1>1, <2>5, ListLists
  <2>6. CASE FinishChapters
    BY <1>1, <2>6, FinishLists
  <2> QED
    BY <1>2, <1>3, <1>4, <1>5, <1>6, <2>1, <2>2, <2>3, <2>4, <2>5, <2>6, Zenon DEF Next
<1>7. CASE UNCHANGED vars
  BY <1>1, <1>7 DEF vars, batch_vars, ListsInv, Listed, Pending, Live, OrderIsOfOthers, Document, Chapters
<1> QED
  BY <1>6, <1>7

LEMMA ListsAtStart == ASSUME Init PROVE ListsInv
<1> DEFINE S1 == Section[1]
<1>1. PICK r \in HTMLs : filename = [x \in {r} |-> S1]
  BY DEF Init
<1>2. TypesAndSize
  BY TypesAtStart
<1>3. DOMAIN filename = {r} /\ filename[r] = S1
  BY <1>1
<1>4. DOMAIN created = {} /\ stolen = {} /\ asked = 0
  <2>1. DOMAIN <<>> = {}
    OBVIOUS
  <2> QED
    BY <2>1 DEF Init
<1>5. IsInjective(created) /\ IsInjective(filename) /\ Pending = {}
  BY <1>3, <1>4 DEF IsInjective, Pending
<1>6. NamesOf(filename, Listed) = {S1} /\ NamesOf(filename, Listed \cap HTMLs) = {S1}
  BY <1>1, <1>3, <1>5 DEF NamesOf, Listed, Live
<1>7. /\ Document.manifest = <<[id |-> ValidID[S1], href |-> S1]>>
      /\ Document.spine = <<ValidID[S1]>>
  BY DEF Init, Document
<1>8. S1 \in Names
  <2>1. filename[r] \in NamesFor(r)
    BY <1>2, <1>3 DEF TypesAndSize, TypeInv, Live
  <2> QED
    BY <1>3, <2>1, FileNames
<1> HIDE DEF S1
<1>9. ListsFiles(<<[id |-> ValidID[S1], href |-> S1]>>, {S1})
  <2>1. DOMAIN <<[id |-> ValidID[S1], href |-> S1]>> = {1}
    OBVIOUS
  <2>2. /\ <<[id |-> ValidID[S1], href |-> S1]>>[1].href = S1
        /\ <<[id |-> ValidID[S1], href |-> S1]>>[1].id = ValidID[S1]
    OBVIOUS
  <2> QED
    BY <2>1, <2>2 DEF ListsFiles
<1>10. Enumerates(<<ValidID[S1]>>, IdsOf({S1}))
  <2> DEFINE s == <<ValidID[S1]>>
  <2>1. s \in Seq({ValidID[S1]}) /\ DOMAIN s = {1} /\ s[1] = ValidID[S1]
    OBVIOUS
  <2>2. IdsOf({S1}) = {ValidID[S1]}
    BY DEF IdsOf
  <2> HIDE DEF s
  <2>3. Enumerates(s, IdsOf({S1}))
    BY <2>1, <2>2, EnumerationOf
  <2> QED
    BY <2>3 DEF s
<1>11. Lists(Document, {S1}, {S1})
  BY <1>7, <1>8, <1>9, <1>10 DEF Lists
<1>12. OrderIsOfOthers
  BY <1>4 DEF OrderIsOfOthers
<1>13. Lists(Document, NamesOf(filename, Listed), NamesOf(filename, Listed \cap HTMLs))
  BY <1>6, <1>11, Zenon
<1> QED
  BY <1>2, <1>4, <1>5, <1>12, <1>13 DEF ListsInv, FilenamesAreUnique

\* A document that lists the book has as many items as the book has files.
LEMMA ManifestHasAll ==
    ASSUME PlainNames, NEW d \in Documents, NEW files, IsInjective(files), ListsBook(d, files)
    PROVE  /\ Len(d.manifest) = Cardinality(DOMAIN files)
           /\ {d.manifest[i].href : i \in DOMAIN d.manifest} = Range(files)
<1> DEFINE N == NamesOf(files, DOMAIN files)
           n == Len(d.manifest)
           g == [i \in 1..n |-> CHOOSE r \in DOMAIN files : files[r] = d.manifest[i].href]
<1>1. ListsFiles(d.manifest, N)
  BY DEF ListsBook, Lists
<1>2. n \in Nat /\ DOMAIN d.manifest = 1..n
  BY DocumentParts, SequenceIsAFunction
<1> HIDE DEF n
<1>3. ASSUME NEW i \in 1..n PROVE g[i] \in DOMAIN files /\ files[g[i]] = d.manifest[i].href
  <2>1. d.manifest[i].href \in N
    BY <1>1, <1>2 DEF ListsFiles
  <2>2. \E r \in DOMAIN files : files[r] = d.manifest[i].href
    BY <2>1 DEF NamesOf
  <2> QED
    BY <2>2
<1>4. g \in [1..n -> DOMAIN files]
  BY <1>3
<1> HIDE DEF g
<1>5. ASSUME NEW i \in 1..n, NEW j \in 1..n, g[i] = g[j] PROVE i = j
  <2>1. d.manifest[i].href = d.manifest[j].href
    BY <1>3, <1>5
  <2> QED
    BY <1>1, <1>2, <2>1 DEF ListsFiles
<1>6. ASSUME NEW r \in DOMAIN files PROVE \E i \in 1..n : g[i] = r
  <2>1. files[r] \in N
    BY DEF NamesOf
  <2>2. PICK i \in DOMAIN d.manifest : d.manifest[i].href = files[r]
    BY <1>1, <2>1 DEF ListsFiles
  <2> QED
    BY <1>2, <1>3, <2>2 DEF IsInjective
<1>7. n = Cardinality(DOMAIN files)
  BY <1>2, <1>4, <1>5, <1>6, EnumerationCounts
<1>8. {d.manifest[i].href : i \in DOMAIN d.manifest} = Range(files)
  BY <1>1 DEF ListsFiles, NamesOf, Range
<1> QED
  BY <1>7, <1>8 DEF n

\* Between two commands the manifest lists the files of the book, whatever
\* they are and however many chapters are created at once: while paths need no
\* encoding, no two names give one id, and only pool threads run jobs.
THEOREM ManifestFollows ==
    ASSUME PlainNames, ~Stealing PROVE Spec => []ManifestListsTheBook
<1>1. Init => ListsInv
  BY ListsAtStart
<1>2. ListsInv /\ [Next]_vars => ListsInv'
  BY ListsStep
<1>3. ListsInv => ManifestListsTheBook
  <2> SUFFICES ASSUME ListsInv, Ready PROVE ManifestListsTheBook
    BY DEF ManifestListsTheBook
  <2>1. ListsBook(opf, filename) /\ opf \in Documents /\ IsInjective(filename) /\ Live = DOMAIN filename
    BY QuietBook DEF Ready
  <2> QED
    BY <2>1, ManifestHasAll DEF ManifestListsTheBook
<1> QED
  BY <1>1, <1>2, <1>3, PTL DEF Spec

\* And the spine has one itemref for every chapter, which leads to it.
THEOREM SpineFollows ==
    ASSUME PlainNames, ~Stealing PROVE Spec => []SpineListsTheChapters
<1>1. Init => ListsInv
  BY ListsAtStart
<1>2. ListsInv /\ [Next]_vars => ListsInv'
  BY ListsStep
<1>3. ListsInv => SpineListsTheChapters
  <2> SUFFICES ASSUME ListsInv, Ready PROVE SpineListsTheChapters
    BY DEF SpineListsTheChapters
  <2> DEFINE s == ChaptersInSpine(opf, filename)
  <2>1. ListsBook(opf, filename) /\ opf \in Documents /\ IsInjective(filename)
    BY QuietBook DEF Ready
  <2>2. SpineIs(opf, filename, s) /\ Enumerates(s, Chapters(filename))
    BY <2>1, ChaptersAreTheSpine
  <2> HIDE DEF s
  <2>3. Len(s) = Cardinality(Chapters(filename)) /\ ToSet(s) = Chapters(filename)
    BY <2>2, EnumerationLength DEF Enumerates
  <2>4. Len(s) = Len(opf.spine)
    <3>1. Len(s) \in Nat /\ DOMAIN s = 1..Len(s)
      BY <2>2, EnumerationHas
    <3>2. Len(opf.spine) \in Nat /\ DOMAIN opf.spine = 1..Len(opf.spine)
      BY <2>1, DocumentParts, SequenceIsAFunction
    <3>3. DOMAIN s = DOMAIN opf.spine
      BY <2>2 DEF SpineIs
    <3>4. \A n \in Nat : Cardinality(1..n) = n
      BY FS_Interval
    <3> QED
      BY <3>1, <3>2, <3>3, <3>4, Zenon
  <2> QED
    BY <2>3, <2>4 DEF SpineListsTheChapters, s
<1> QED
  BY <1>1, <1>2, <1>3, PTL DEF Spec

\* The chapter whose menu offers the merge is never the first one, so that
\* there is a chapter to merge it with.
THEOREM MergeFindsPrevious ==
    ASSUME PlainNames, ~Stealing PROVE Spec => []MergeHasPrevious
<1>1. Init => ListsInv
  BY ListsAtStart
<1>2. ListsInv /\ [Next]_vars => ListsInv'
  BY ListsStep
<1>3. ListsInv => MergeHasPrevious
  <2> SUFFICES ASSUME ListsInv, NEW r \in HTMLs, MergeIsOffered(r),
                      NEW all \in ReadingOrders(opf, filename)
               PROVE  all[1] # r
    BY DEF MergeHasPrevious
  <2> DEFINE s == ChaptersInSpine(opf, filename)
             n == filename[r]
  <2>1. /\ Ready /\ ListsBook(opf, filename) /\ opf \in Documents /\ IsInjective(filename)
        /\ r \in Chapters(filename) /\ GetReadingOrder(opf, n) > 1
    BY QuietBook DEF MergeIsOffered, Ready
  <2>2. SpineIs(opf, filename, s) /\ Enumerates(s, Chapters(filename))
    BY <2>1, ChaptersAreTheSpine
  <2>3. PICK rest : all = s \o rest /\ rest \in SetToSeqs(Chapters(filename) \ ToSet(s))
    BY DEF ReadingOrders
  <2> HIDE DEF s
  <2>4. all = s \o rest /\ Enumerates(rest, {})
    <3>1. Chapters(filename) \ ToSet(s) = {} /\ IsFiniteSet({})
      BY <2>2, FS_EmptySet DEF Enumerates
    <3> QED
      BY <2>3, <3>1, SetToSeqsEnumerates
  <2>5. n \in NamesOf(filename, DOMAIN filename) /\ n \in NamesOf(filename, Chapters(filename)) /\ n \in Names
    BY <2>1 DEF NamesOf, Chapters, ListsBook, Lists
  <2>6. GetReadingOrder(opf, n) = ItemrefOf(opf, ValidID[n])
    <3>1. GetResourceManifestID(opf, n) = ValidID[n]
      BY <2>1, <2>5, ListedItem DEF ListsBook, GetResourceManifestID
    <3> QED
      BY <3>1 DEF GetReadingOrder
  <2> HIDE DEF n
  <2>7. /\ ItemrefOf(opf, ValidID[n]) \in DOMAIN opf.spine
        /\ \A i \in DOMAIN opf.spine : opf.spine[i] = ValidID[n] => ItemrefOf(opf, ValidID[n]) <= i
    BY <2>1, <2>6, ItemrefFound
  <2>8. DOMAIN opf.spine = 1..Len(opf.spine) /\ Len(opf.spine) \in Nat
    BY <2>1, DocumentParts, SequenceIsAFunction
  <2>9. 1 \in DOMAIN opf.spine /\ opf.spine[1] # ValidID[n]
    BY <2>1, <2>6, <2>7, <2>8
  <2>10. s[1] # r
    BY <2>2, <2>9 DEF SpineIs, n
  <2>11. all[1] = s[1]
    <3>1. /\ s \in Seq(Chapters(filename)) /\ rest \in Seq({}) /\ 1 \in DOMAIN s
      BY <2>2, <2>4, <2>9 DEF SpineIs, Enumerates
    <3>2. rest \in Seq(Chapters(filename))
      BY <3>1
    <3> QED
      BY <2>4, <3>1, <3>2
  <2> QED
    BY <2>10, <2>11
<1> QED
  BY <1>1, <1>2, <1>3, PTL DEF Spec

-----------------------------------------------------------------------------
(* The guide *)

\* A reference of d is to n exactly if the same reference of e is to m.
SameReferences(d, n, e, m) ==
    /\ DOMAIN d.guide = DOMAIN e.guide
    /\ \A i \in DOMAIN d.guide : /\ d.guide[i].href = n <=> e.guide[i].href = m
                                 /\ d.guide[i].type = e.guide[i].type

LEMMA SameSemantics ==
    ASSUME NEW d \in Documents, NEW e \in Documents, NEW n, NEW m, SameReferences(d, n, e, m)
    PROVE  GetGuideSemanticType(d, n) = GetGuideSemanticType(e, m)
<1> DEFINE I == {i \in 1..Len(d.guide) : d.guide[i].href = n}
           J == {i \in 1..Len(e.guide) : e.guide[i].href = m}
<1>1. d.guide \in Seq(References) /\ e.guide \in Seq(References)
  BY DocumentParts
<1>2. DOMAIN d.guide = 1..Len(d.guide) /\ DOMAIN e.guide = 1..Len(e.guide)
  BY <1>1, SequenceIsAFunction
<1>3. I = J
  BY <1>2 DEF SameReferences
<1>4. /\ GetGuideReference(d, n) = IF I # {} THEN Min(I) ELSE 0
      /\ GetGuideReference(e, m) = IF J # {} THEN Min(J) ELSE 0
  BY DEF GetGuideReference, SelectInSeq
<1> HIDE DEF I, J
<1>5. GetGuideReference(d, n) = GetGuideReference(e, m)
  BY <1>3, <1>4
<1>6. GetGuideReference(d, n) # 0 => GetGuideReference(d, n) \in DOMAIN d.guide
  BY ReferenceFound
<1> QED
  BY <1>5, <1>6 DEF GetGuideSemanticType, SameReferences

\* Only the paths of the references and Add Semantics change the guide.
LEMMA GuideIsKept ==
    ASSUME NEW d \in Documents, NEW n, NEW old, NEW isChapter, NEW names
    PROVE  /\ AddResource(d, n, isChapter).guide = d.guide
           /\ RemoveResource(d, n, isChapter).guide = d.guide
           /\ ResourceRenamed(d, old, n).guide = d.guide
           /\ UpdateSpineOrder(d, names).guide = d.guide
           /\ SetResourceAsCoverImage(d, n).guide = d.guide
<1>1. \A m, sp : [d EXCEPT !.manifest = m, !.spine = sp].guide = d.guide
  BY DEF Documents
<1>2. ResourceRenamed(d, old, n).guide = d.guide
  BY DEF ResourceRenamed, Documents
<1>3. AddResource(d, n, isChapter).guide = d.guide /\ RemoveResource(d, n, isChapter).guide = d.guide
  BY <1>1, Zenon DEF AddResource, RemoveResource
<1>4. UpdateSpineOrder(d, names).guide = d.guide /\ SetResourceAsCoverImage(d, n).guide = d.guide
  BY DEF UpdateSpineOrder, SetResourceAsCoverImage, Documents
<1> QED
  BY <1>2, <1>3, <1>4

\* The chapters that are in the book before and after have their types.
TypesKept ==
    \A r \in Chapters(filename) \cap Chapters(filename') :
        GetGuideSemanticType(Document', filename'[r]) = GetGuideSemanticType(Document, filename[r])

LEMMA SameGuideKeepsTypes ==
    ASSUME Document \in Documents, Document' \in Documents, Document'.guide = Document.guide,
           \A r \in DOMAIN filename \cap DOMAIN filename' : filename'[r] = filename[r]
    PROVE  TypesKept
<1> SUFFICES ASSUME NEW r \in Chapters(filename) \cap Chapters(filename')
             PROVE  GetGuideSemanticType(Document', filename'[r])
                    = GetGuideSemanticType(Document, filename[r])
  BY DEF TypesKept
<1>1. filename'[r] = filename[r]
  BY DEF Chapters
<1>2. SameReferences(Document', filename'[r], Document, filename[r])
  BY <1>1 DEF SameReferences
<1> QED
  BY <1>2, SameSemantics

\* The new name is no chapter's, so no reference is to it.
LEMMA RenameKeepsTypes ==
    ASSUME TypesAndSize, FilenamesAreUnique, TypesAndSize', GuideNamesChapters,
           NEW r \in Resources, NEW n \in NamesFor(r), Rename(r, n)
    PROVE  TypesKept
<1> DEFINE old == filename[r]
           opf1 == ResourceRenamed(opf, old, n)
<1>1. /\ cache = NoCache /\ cache' = NoCache /\ n \notin Range(filename)
      /\ filename' = [filename EXCEPT ![r] = n] /\ r \in DOMAIN filename
      /\ opf' = UpdatePaths(opf1, old, n)
  BY DEF Rename, Ready, SetText, Live
<1>2. Document = opf /\ Document' = opf' /\ opf \in Documents /\ opf' \in Documents
  BY <1>1 DEF Document, TypesAndSize, TypeInv
<1>3. n \in Names
  BY FileNames
<1>4. opf1 \in Documents /\ opf1.guide = opf.guide
  BY <1>2, <1>3, RenamedType, GuideIsKept
<1> HIDE DEF opf1
<1>5. opf'.guide = [i \in DOMAIN opf.guide |-> IF opf.guide[i].href = old
                                                THEN [opf.guide[i] EXCEPT !.href = n]
                                                ELSE opf.guide[i]]
  BY <1>1, <1>4 DEF UpdatePaths, Documents
<1>6. \A i \in DOMAIN opf.guide : opf.guide[i] \in References
  BY <1>2, DocumentParts, SequenceIsAFunction
<1>7. /\ DOMAIN opf'.guide = DOMAIN opf.guide
      /\ \A i \in DOMAIN opf.guide : /\ opf'.guide[i].type = opf.guide[i].type
                                     /\ opf'.guide[i].href = IF opf.guide[i].href = old THEN n
                                                             ELSE opf.guide[i].href
  BY <1>5, <1>6 DEF References
<1>8. \A i \in DOMAIN opf.guide : opf.guide[i].href # n
  BY <1>1, <1>2 DEF GuideNamesChapters, Range, Chapters
<1>9. ASSUME NEW x \in Chapters(filename) \cap Chapters(filename')
      PROVE  GetGuideSemanticType(Document', filename'[x]) = GetGuideSemanticType(Document, filename[x])
  <2>1. SameReferences(opf', filename'[x], opf, filename[x])
    <3>1. x \in DOMAIN filename /\ filename[x] # n
      BY <1>1 DEF Chapters, Range
    <3>2. CASE x = r
      BY <1>1, <1>7, <1>8, <3>2 DEF SameReferences
    <3>3. CASE x # r
      <4>1. filename'[x] = filename[x] /\ filename[x] # old
        BY <1>1, <3>1, <3>3 DEF FilenamesAreUnique, IsInjective
      <4> QED
        BY <1>7, <3>1, <4>1 DEF SameReferences
    <3> QED
      BY <3>2, <3>3
  <2> QED
    BY <1>2, <2>1, SameSemantics
<1> QED
  BY <1>9 DEF TypesKept

\* A job that lists its chapter, and the end of a batch, leave the guide.
LEMMA BatchKeepsGuide ==
    ASSUME TypesAndSize, NEW i, ListChapter(i) \/ FinishChapters
    PROVE  Document'.guide = Document.guide /\ UNCHANGED filename
<1>1. Document \in Documents /\ TypeInv
  BY DEF Document, TypesAndSize, TypeInv
<1>2. CASE ListChapter(i)
  <2> DEFINE added == AddResource(Document, filename[created[i]], TRUE)
  <2>1. /\ i \in DOMAIN created /\ UNCHANGED filename
        /\ \/ cache' = added /\ opf' = opf
           \/ opf' = added /\ cache' = cache
    BY <1>2 DEF ListChapter, SetText
  <2>2. filename[created[i]] \in Names
    <3>1. created[i] \in Chapters(filename)
      BY <1>1, <2>1 DEF TypeInv, Range
    <3> QED
      BY <1>1, <3>1, FileNames DEF TypeInv, Chapters, Live
  <2>3. added \in Documents
    BY <1>1, <2>2, AddType
  <2>4. added.guide = Document.guide
    BY <1>1 DEF AddResource, Documents
  <2> HIDE DEF added
  <2>5. added # NoCache
    BY <2>3, CacheAssumption
  <2>6. Document' = added \/ Document' = Document
    BY <2>1, <2>5 DEF Document
  <2> QED
    BY <2>1, <2>4, <2>6
<1>3. CASE FinishChapters
  <2> DEFINE names == FilenamesOf(order \o [j \in 1..asked |-> created[j]], filename)
  <2>1. opf' = UpdateSpineOrder(Document, names) /\ UNCHANGED <<filename, cache>>
    BY <1>3 DEF FinishChapters, SetText
  <2> HIDE DEF names
  <2>2. UpdateSpineOrder(Document, names).guide = Document.guide
    BY <1>1, GuideIsKept
  <2>3. Document' = UpdateSpineOrder(Document, names) \/ Document' = Document
    BY <2>1 DEF Document
  <2> QED
    BY <2>1, <2>2, <2>3
<1> QED
  BY <1>2, <1>3

LEMMA SemanticsStep ==
    ASSUME TypesAndSize, FilenamesAreUnique, Next, GuideNamesChapters
    PROVE  \/ \E r \in HTMLs, type \in GuideTypes : AddSemantics(r, type)
           \/ \E r, new \in HTMLs : SplitChapter(r, new)
           \/ TypesKept
<1>1. TypesAndSize' /\ Document \in Documents /\ Document' \in Documents
  <2>1. TypesAndSize'
    BY TypeStep
  <2> QED
    BY <2>1 DEF TypesAndSize, TypeInv, Document
<1>2. ASSUME Document'.guide = Document.guide, UNCHANGED filename PROVE TypesKept
  BY <1>1, <1>2, SameGuideKeepsTypes
<1>3. CASE DelayedUpdateToTextDocument
  <2>1. Document' = Document /\ UNCHANGED filename
    BY <1>3 DEF DelayedUpdateToTextDocument, Document
  <2> QED
    BY <1>2, <2>1
<1>4. ASSUME NEW r \in Resources, Ready, opf'.guide = opf.guide, cache' = cache,
             \A x \in DOMAIN filename \cap DOMAIN filename' : filename'[x] = filename[x]
      PROVE  TypesKept
  <2>1. Document' = opf' /\ Document = opf
    BY <1>4 DEF Ready, Document
  <2> QED
    BY <1>1, <1>4, <2>1, SameGuideKeepsTypes
<1>5. opf \in Documents
  BY DEF TypesAndSize, TypeInv
<1>6. ASSUME NEW r \in Resources, Delete(r) \/ MergeWithPrevious(r) PROVE TypesKept
  <2>1. /\ Ready /\ cache' = cache /\ filename' = Without(filename, r)
        /\ opf' = RemoveResource(opf, filename[r], IsChapter(r))
    BY <1>6 DEF Delete, MergeWithPrevious, MergeIsOffered, Drop, SetText
  <2>2. opf'.guide = opf.guide
    BY <1>5, <2>1, GuideIsKept
  <2>3. \A x \in DOMAIN filename \cap DOMAIN filename' : filename'[x] = filename[x]
    BY <2>1, WithoutValues
  <2> QED
    BY <1>4, <2>1, <2>2, <2>3
<1>7. ASSUME NEW r \in Resources, SetCoverImage(r) PROVE TypesKept
  <2>1. /\ Ready /\ cache' = cache /\ filename' = filename
        /\ opf' = SetResourceAsCoverImage(opf, filename[r])
    BY <1>7 DEF SetCoverImage, SetText
  <2>2. opf'.guide = opf.guide
    BY <1>5, <2>1, GuideIsKept
  <2> QED
    BY <1>4, <2>1, <2>2
<1>8. ASSUME NEW r \in Resources, NEW n \in NamesFor(r), AddContentFile(r, n) PROVE TypesKept
  <2>1. /\ Ready /\ cache' = cache /\ filename' = With(filename, r, n) /\ r \notin DOMAIN filename
        /\ opf' = AddResource(opf, n, IsChapter(r))
    BY <1>8 DEF AddContentFile, SetText, Live
  <2>2. opf'.guide = opf.guide
    BY <1>5, <2>1, GuideIsKept
  <2>3. \A x \in DOMAIN filename \cap DOMAIN filename' : filename'[x] = filename[x]
    BY <2>1 DEF With
  <2> QED
    BY <1>4, <2>1, <2>2, <2>3
<1>9. ASSUME NEW r \in Resources, NEW n \in NamesFor(r), Rename(r, n) PROVE TypesKept
  BY <1>1, <1>9, RenameKeepsTypes
<1>10. ASSUME NEW r \in Resources, NEW k, MoveHTML(r, k) PROVE TypesKept
  <2>1. Ready /\ cache' = cache /\ filename' = filename
    BY <1>10 DEF MoveHTML, SetText
  <2>2. PICK names : opf' = UpdateSpineOrder(opf, names)
    BY <1>10 DEF MoveHTML, SetText
  <2>3. opf'.guide = opf.guide
    BY <1>5, <2>2, GuideIsKept
  <2> QED
    BY <1>4, <2>1, <2>3
<1>11. ASSUME NEW k, CreateNewChapters(k) PROVE TypesKept
  BY <1>2, <1>11 DEF CreateNewChapters, Document
<1>12. ASSUME NEW i, NEW r \in HTMLs, InsertChapter(i, r) PROVE TypesKept
  <2>1. PICK n : filename' = With(filename, r, n)
    BY <1>12 DEF InsertChapter
  <2>2. Document' = Document /\ r \notin DOMAIN filename
    BY <1>12 DEF InsertChapter, Document, Live
  <2>3. \A x \in DOMAIN filename \cap DOMAIN filename' : filename'[x] = filename[x]
    BY <2>1, <2>2 DEF With
  <2> QED
    BY <1>1, <2>2, <2>3, SameGuideKeepsTypes
<1>13. ASSUME NEW i, ListChapter(i) \/ FinishChapters PROVE TypesKept
  BY <1>2, <1>13, BatchKeepsGuide
<1>14. ASSUME NEW r \in Resources, NEW type \in GuideTypes, AddSemantics(r, type)
       PROVE  \E x \in HTMLs, t \in GuideTypes : AddSemantics(x, t)
  BY <1>14 DEF AddSemantics, Chapters
<1>15. ASSUME NEW r \in Resources, NEW new \in HTMLs, SplitChapter(r, new)
       PROVE  \E x, y \in HTMLs : SplitChapter(x, y)
  BY <1>15 DEF SplitChapter, Chapters
<1> QED
  BY <1>3, <1>6, <1>7, <1>8, <1>9, <1>10, <1>11, <1>12, <1>13, <1>14, <1>15, Zenon DEF Next

\* A chapter keeps its guide type through every command but Add Semantics and a
\* split and through every job, for any names: while every reference is to a
\* chapter that is there.
THEOREM SemanticsAreKept == Spec => SemanticsFollowTheChapter
<1>1. TypesAndSize /\ FilenamesAreUnique /\ [Next]_vars =>
         \/ \E r \in HTMLs, type \in GuideTypes : AddSemantics(r, type)
         \/ \E r, new \in HTMLs : SplitChapter(r, new)
         \/ GuideNamesChapters => TypesKept
         \/ UNCHANGED vars
  BY SemanticsStep
<1>2. TypesAndSize /\ FilenamesAreUnique /\ [Next]_vars =>
         [ \/ \E r \in HTMLs, type \in GuideTypes : AddSemantics(r, type)
           \/ \E r, new \in HTMLs : SplitChapter(r, new)
           \/ GuideNamesChapters =>
              \A r \in Chapters(filename) \cap Chapters(filename') :
                 GetGuideSemanticType(Document', filename'[r])
                 = GetGuideSemanticType(Document, filename[r]) ]_vars
  BY <1>1 DEF TypesKept
<1>3. TypesAndSize /\ [Next]_vars => TypesAndSize'
  BY TypeStep
<1>4. FilenamesAreUnique /\ [Next]_vars => FilenamesAreUnique'
  BY UniqueStep
<1>5. Init => FilenamesAreUnique
  BY DEF Init, FilenamesAreUnique, IsInjective
<1> QED
  BY <1>2, <1>3, <1>4, <1>5, TypesAtStart, PTL DEF Spec, SemanticsFollowTheChapter

-----------------------------------------------------------------------------
(* Commands and jobs keep the order of the chapters *)

LEMMA InsertKeepsOrder ==
    ASSUME NEW T, NEW s \in Seq(T), NEW i \in 1..(Len(s) + 1), NEW e \in T,
           NEW a, NEW b, Before(s, a, b)
    PROVE  Before(InsertAt(s, i, e), a, b)
<1> DEFINE t == InsertAt(s, i, e)
           to(k) == IF k < i THEN k ELSE k + 1
<1>1. Len(s) \in Nat /\ DOMAIN s = 1..Len(s) /\ i \in Nat
  OBVIOUS
<1>2. /\ DOMAIN t = 1..(Len(s) + 1)
      /\ \A k \in 1..(Len(s) + 1) : t[k] = IF k < i THEN s[k] ELSE IF k = i THEN e ELSE s[k - 1]
  BY InsertAtValues
<1> HIDE DEF t
<1>3. \A k \in DOMAIN s : to(k) \in DOMAIN t /\ t[to(k)] = s[k]
  BY <1>1, <1>2
<1>4. \A k, l \in DOMAIN s : k < l => to(k) < to(l)
  BY <1>1
<1> HIDE DEF to
<1>5. PICK k \in DOMAIN s, l \in DOMAIN s : k < l /\ s[k] = a /\ s[l] = b
  BY DEF Before
<1>6. to(k) \in DOMAIN t /\ to(l) \in DOMAIN t /\ to(k) < to(l) /\ t[to(k)] = a /\ t[to(l)] = b
  BY <1>3, <1>4, <1>5
<1> QED
  BY <1>6 DEF Before, t

LEMMA RemoveKeepsOrder ==
    ASSUME NEW T, NEW s \in Seq(T), NEW i \in DOMAIN s, NEW a, NEW b,
           a # s[i], b # s[i], Before(s, a, b)
    PROVE  Before(RemoveAt(s, i), a, b)
<1> DEFINE t == RemoveAt(s, i)
           to(k) == IF k < i THEN k ELSE k - 1
<1>1. Len(s) \in Nat /\ DOMAIN s = 1..Len(s) /\ i \in 1..Len(s)
  OBVIOUS
<1>2. /\ DOMAIN t = 1..(Len(s) - 1)
      /\ \A k \in 1..(Len(s) - 1) : t[k] = IF k < i THEN s[k] ELSE s[k + 1]
  BY RemoveAtValues
<1> HIDE DEF t
<1>3. \A k \in DOMAIN s \ {i} : to(k) \in DOMAIN t /\ t[to(k)] = s[k]
  BY <1>1, <1>2
<1>4. \A k, l \in DOMAIN s \ {i} : k < l => to(k) < to(l)
  BY <1>1
<1> HIDE DEF to
<1>5. PICK k \in DOMAIN s, l \in DOMAIN s : k < l /\ s[k] = a /\ s[l] = b
  BY DEF Before
<1>6. k # i /\ l # i
  BY <1>5
<1>7. to(k) \in DOMAIN t /\ to(l) \in DOMAIN t /\ to(k) < to(l) /\ t[to(k)] = a /\ t[to(l)] = b
  BY <1>3, <1>4, <1>5, <1>6
<1> QED
  BY <1>7 DEF Before, t

LEMMA AppendKeepsOrder ==
    ASSUME NEW T, NEW s \in Seq(T), NEW e, NEW a, NEW b, Before(s, a, b)
    PROVE  Before(Append(s, e), a, b)
<1>1. DOMAIN s \subseteq DOMAIN Append(s, e) /\ \A k \in DOMAIN s : Append(s, e)[k] = s[k]
  OBVIOUS
<1> QED
  BY <1>1 DEF Before

\* Two chapters are in the order of their itemrefs.
LEMMA OrderInSpine ==
    ASSUME PlainNames, NEW d \in Documents, NEW files, IsInjective(files), NEW L \in SUBSET DOMAIN files,
           Lists(d, NamesOf(files, L), NamesOf(files, L \cap HTMLs)),
           NEW a \in DOMAIN files, NEW b \in DOMAIN files, files[a] \in Names, files[b] \in Names
    PROVE  Before(ChaptersInSpine(d, files), a, b)
           <=> Before(d.spine, ValidID[files[a]], ValidID[files[b]])
<1> DEFINE s == ChaptersInSpine(d, files)
<1>1. SpineIs(d, files, s) /\ Enumerates(s, L \cap HTMLs)
  BY ListedChapters
<1> HIDE DEF s
<1>2. /\ DOMAIN s = DOMAIN d.spine
      /\ \A k \in DOMAIN s : s[k] \in L /\ d.spine[k] = ValidID[files[s[k]]]
  BY <1>1, EnumerationHas DEF SpineIs
<1>3. \A x \in L : files[x] \in Names
  BY DEF Lists, NamesOf
<1>4. ASSUME NEW k \in DOMAIN s, NEW x \in DOMAIN files, files[x] \in Names, d.spine[k] = ValidID[files[x]]
      PROVE  s[k] = x
  <2>1. files[s[k]] \in Names /\ ValidID[files[s[k]]] = ValidID[files[x]]
    BY <1>2, <1>3, <1>4
  <2>2. files[s[k]] = files[x]
    BY <1>4, <2>1, NamesAssumption DEF PlainNames, IsInjective
  <2> QED
    BY <1>2, <2>2 DEF IsInjective
<1>5. \A k \in DOMAIN s : s[k] = a <=> d.spine[k] = ValidID[files[a]]
  BY <1>2, <1>4
<1>6. \A k \in DOMAIN s : s[k] = b <=> d.spine[k] = ValidID[files[b]]
  BY <1>2, <1>4
<1> QED
  BY <1>2, <1>5, <1>6 DEF Before, s

\* The chapters that are in the book before and after stay in their order.
KeepsOrder ==
    \A a, b \in Chapters(filename) \cap Chapters(filename') :
        Before(ChaptersInSpine(Document, filename), a, b)
        => Before(ChaptersInSpine(Document', filename'), a, b)

\* The ids of the chapters before and after stay in their order.
KeepsIds ==
    \A a, b \in Chapters(filename) \cap Chapters(filename') :
        Before(Document.spine, ValidID[filename[a]], ValidID[filename[b]])
        => Before(Document'.spine, ValidID[filename'[a]], ValidID[filename'[b]])

LEMMA OrderOfIds == ASSUME PlainNames, ListsInv, ListsInv', KeepsIds PROVE KeepsOrder
<1> SUFFICES ASSUME NEW a \in Chapters(filename) \cap Chapters(filename'),
                    NEW b \in Chapters(filename) \cap Chapters(filename'),
                    Before(ChaptersInSpine(Document, filename), a, b)
             PROVE  Before(ChaptersInSpine(Document', filename'), a, b)
  BY DEF KeepsOrder
<1>1. /\ Document \in Documents /\ Document' \in Documents
      /\ IsInjective(filename) /\ IsInjective(filename')
      /\ Listed \in SUBSET DOMAIN filename /\ Listed' \in SUBSET DOMAIN filename'
      /\ Lists(Document, NamesOf(filename, Listed), NamesOf(filename, Listed \cap HTMLs))
      /\ Lists(Document', NamesOf(filename', Listed'), NamesOf(filename', Listed' \cap HTMLs))
  BY DEF ListsInv, TypesAndSize, TypeInv, Document, FilenamesAreUnique, Listed, Live
<1>2. /\ a \in DOMAIN filename /\ b \in DOMAIN filename /\ a \in DOMAIN filename' /\ b \in DOMAIN filename'
      /\ filename[a] \in Names /\ filename[b] \in Names /\ filename'[a] \in Names /\ filename'[b] \in Names
  BY FileNames DEF ListsInv, TypesAndSize, TypeInv, Live, Chapters
<1>3. Before(Document.spine, ValidID[filename[a]], ValidID[filename[b]])
  BY <1>1, <1>2, OrderInSpine
<1>4. Before(Document'.spine, ValidID[filename'[a]], ValidID[filename'[b]])
  BY <1>3 DEF KeepsIds
<1> QED
  BY <1>1, <1>2, <1>4, OrderInSpine

LEMMA QuietDocuments ==
    ASSUME Ready, UNCHANGED cache
    PROVE  Document = opf /\ Document' = opf'
BY DEF Ready, Document

LEMMA ContentFileKeepsOrder ==
    ASSUME PlainNames, ListsInv, ListsInv', NEW r \in Resources, NEW n \in NamesFor(r),
           AddContentFile(r, n) \/ Rename(r, n)
    PROVE  KeepsOrder
<1>1. Ready /\ asked = 0 /\ UNCHANGED cache /\ n \in Names /\ n \notin Range(filename)
  BY FileNames DEF AddContentFile, Rename, Ready, SetText
<1>2. /\ Document = opf /\ Document' = opf' /\ opf \in Documents
      /\ ListsBook(opf, filename) /\ IsInjective(filename)
  BY <1>1, QuietDocuments, QuietBook
<1>3. CASE AddContentFile(r, n)
  <2>1. /\ opf' = AddResource(opf, n, IsChapter(r)) /\ filename' = With(filename, r, n)
        /\ r \notin DOMAIN filename
    BY <1>3 DEF AddContentFile, SetText, Live
  <2>2. opf'.spine = opf.spine \/ opf'.spine = Append(opf.spine, ValidID[n])
    BY <1>2, <2>1 DEF AddResource, Documents
  <2>3. \A x \in DOMAIN filename : filename'[x] = filename[x]
    BY <2>1 DEF With
  <2>4. opf.spine \in Seq(Ids \cup {NoId})
    BY <1>2, DocumentParts
  <2>5. \A x, y : Before(opf.spine, x, y) => Before(opf'.spine, x, y)
    BY <2>2, <2>4, AppendKeepsOrder
  <2>6. KeepsIds
    BY <1>2, <2>3, <2>5 DEF KeepsIds, Chapters
  <2> QED
    BY <2>6, OrderOfIds
<1>4. CASE Rename(r, n)
  <2> DEFINE old == filename[r]
             opf1 == ResourceRenamed(opf, old, n)
             N == NamesOf(filename, DOMAIN filename)
             C == NamesOf(filename, Chapters(filename))
  <2>1. /\ opf' = UpdatePaths(opf1, old, n)
        /\ filename' = [filename EXCEPT ![r] = n] /\ r \in DOMAIN filename
    BY <1>4 DEF Rename, SetText, Live
  <2>2. Lists(opf, N, C) /\ old \in N
    BY <1>2, <2>1 DEF ListsBook, NamesOf
  <2>3. \A x \in DOMAIN filename : filename[x] \in Names
    BY <2>2 DEF Lists, NamesOf
  <2>4. opf1 \in Documents
    BY <1>1, <1>2, RenamedType
  <2> HIDE DEF N, C
  <2>5. /\ DOMAIN opf1.spine = DOMAIN opf.spine
        /\ \A i \in DOMAIN opf.spine :
              opf1.spine[i] = IF opf.spine[i] = ValidID[old] THEN ValidID[n] ELSE opf.spine[i]
    BY <1>1, <1>2, <2>2, RenamedSpine
  <2>6. opf'.spine = opf1.spine
    BY <2>1, <2>4 DEF UpdatePaths, Documents
  <2> HIDE DEF opf1
  <2>7. ASSUME NEW x \in DOMAIN filename, NEW i \in DOMAIN opf.spine, opf.spine[i] = ValidID[filename[x]]
        PROVE  opf'.spine[i] = ValidID[filename'[x]]
    <3>1. CASE x = r
      BY <2>1, <2>5, <2>6, <2>7, <3>1
    <3>2. CASE x # r
      <4>1. filename'[x] = filename[x] /\ filename[x] # old
        BY <1>2, <2>1, <3>2 DEF IsInjective
      <4>2. ValidID[filename[x]] # ValidID[old]
        BY <2>1, <2>3, <4>1, NamesAssumption DEF PlainNames, IsInjective
      <4> QED
        BY <2>5, <2>6, <2>7, <4>1, <4>2
    <3> QED
      BY <3>1, <3>2
  <2>8. ASSUME NEW a \in DOMAIN filename, NEW b \in DOMAIN filename,
               Before(opf.spine, ValidID[filename[a]], ValidID[filename[b]])
        PROVE  Before(opf'.spine, ValidID[filename'[a]], ValidID[filename'[b]])
    BY <2>5, <2>6, <2>7, <2>8 DEF Before
  <2>9. KeepsIds
    BY <1>2, <2>8 DEF KeepsIds, Chapters
  <2> QED
    BY <2>9, OrderOfIds
<1> QED
  BY <1>3, <1>4

LEMMA DropKeepsOrder ==
    ASSUME PlainNames, ListsInv, ListsInv', NEW r \in Live, Ready, Drop(r)
    PROVE  KeepsOrder
<1> DEFINE n == filename[r]
           k == ItemrefOf(opf, ValidID[n])
<1>1. /\ asked = 0 /\ UNCHANGED cache /\ r \in DOMAIN filename
      /\ opf' = RemoveResource(opf, n, IsChapter(r)) /\ filename' = Without(filename, r)
  BY DEF Drop, Ready, SetText, Live
<1>2. /\ Document = opf /\ Document' = opf' /\ opf \in Documents
      /\ ListsBook(opf, filename) /\ IsInjective(filename)
  BY <1>1, QuietDocuments, QuietBook
<1>3. NamesOf(filename, DOMAIN filename) \subseteq Names /\ n \in NamesOf(filename, DOMAIN filename)
  BY <1>1, <1>2 DEF ListsBook, Lists, NamesOf
<1>4. IdAt(opf, ItemOf(opf, n)) = ValidID[n]
  BY <1>2, <1>3, ListedItem DEF ListsBook
<1>5. RemoveFirst(opf.spine, ValidID[n]) = IF k = 0 THEN opf.spine ELSE RemoveAt(opf.spine, k)
  BY <1>2, RemoveItemref
<1>6. opf'.spine = opf.spine \/ (k # 0 /\ opf'.spine = RemoveAt(opf.spine, k))
  <2>1. opf'.spine = IF IsChapter(r) THEN RemoveFirst(opf.spine, IdAt(opf, ItemOf(opf, n))) ELSE opf.spine
    BY <1>1, <1>2 DEF RemoveResource, Documents
  <2> HIDE DEF k, n
  <2> QED
    BY <1>4, <1>5, <2>1
<1>7. k # 0 => k \in DOMAIN opf.spine /\ opf.spine[k] = ValidID[n]
  BY <1>2, ItemrefFound
<1>8. opf.spine \in Seq(Ids \cup {NoId})
  BY <1>2, DocumentParts
<1> HIDE DEF k
<1>9. ASSUME NEW x, NEW y, x # ValidID[n], y # ValidID[n], Before(opf.spine, x, y)
      PROVE  Before(opf'.spine, x, y)
  BY <1>6, <1>7, <1>8, <1>9, RemoveKeepsOrder
<1>10. ASSUME NEW x \in Chapters(filename) \cap Chapters(filename')
       PROVE  filename'[x] = filename[x] /\ ValidID[filename[x]] # ValidID[n]
  <2>1. x \in DOMAIN filename \ {r} /\ filename'[x] = filename[x]
    BY <1>1 DEF Without, Restrict, Chapters
  <2>2. filename[x] # n /\ filename[x] \in Names /\ n \in Names
    BY <1>1, <1>2, <1>3, <2>1 DEF IsInjective, NamesOf
  <2> QED
    BY <2>1, <2>2, NamesAssumption DEF PlainNames, IsInjective
<1>11. KeepsIds
  BY <1>2, <1>9, <1>10 DEF KeepsIds
<1> QED
  BY <1>11, OrderOfIds

LEMMA SplitKeepsOrder ==
    ASSUME PlainNames, ListsInv, NEW r, NEW new, SplitChapter(r, new), FirstPartBefore(r, new)
    PROVE  KeepsOrder
<1> DEFINE s == ChaptersInSpine(opf, filename)
<1>1. /\ Document = opf /\ Document' = opf' /\ opf \in Documents
      /\ ListsBook(opf, filename) /\ IsInjective(filename)
  <2>1. Ready /\ asked = 0 /\ UNCHANGED cache
    BY DEF SplitChapter, Ready, SetText
  <2> QED
    BY <2>1, QuietDocuments, QuietBook
<1>2. Enumerates(s, Chapters(filename))
  BY <1>1, ChaptersAreTheSpine
<1>3. PICK k \in DOMAIN s : ChaptersInSpine(opf', filename') = InsertAt(s, k, new)
  BY DEF FirstPartBefore
<1> HIDE DEF s
<1> DEFINE T == Chapters(filename) \cup {new}
<1>4. s \in Seq(T) /\ k \in 1..(Len(s) + 1) /\ new \in T
  <2>1. s \in Seq(Chapters(filename)) /\ Len(s) \in Nat /\ DOMAIN s = 1..Len(s)
    BY <1>2, EnumerationHas
  <2>2. s \in [1..Len(s) -> T]
    BY <2>1
  <2>3. s \in Seq(T)
    BY <2>1, <2>2, FunctionIsASequence
  <2>4. k \in 1..(Len(s) + 1)
    BY <2>1
  <2> QED
    BY <2>3, <2>4
<1> HIDE DEF T
<1>5. ASSUME NEW a, NEW b, Before(s, a, b) PROVE Before(ChaptersInSpine(opf', filename'), a, b)
  BY <1>3, <1>4, <1>5, InsertKeepsOrder
<1> QED
  BY <1>1, <1>5 DEF KeepsOrder, s

\* While no job runs on the GUI thread, what jobs have listed is in the cache.
JobsStoreInCache == stolen = {} /\ listed # {} => cache # NoCache

LEMMA JobsStoreStep ==
    ASSUME TypesAndSize, JobsStoreInCache, [Next]_vars
    PROVE  JobsStoreInCache'
<1>1. TypeInv
  BY DEF TypesAndSize
<1>2. ASSUME asked = 0, UNCHANGED batch_vars PROVE JobsStoreInCache'
  <2>1. listed \subseteq 1..0
    BY <1>1, <1>2 DEF TypeInv
  <2>2. listed' = {}
    BY <1>2, <2>1 DEF batch_vars
  <2> QED
    BY <2>2 DEF JobsStoreInCache
<1>3. ASSUME NEW k, CreateNewChapters(k) PROVE JobsStoreInCache'
  <2>1. asked = 0 /\ listed' = listed
    BY <1>3 DEF CreateNewChapters, Ready
  <2>2. listed \subseteq 1..0
    BY <1>1, <2>1 DEF TypeInv
  <2>3. listed' = {}
    BY <2>1, <2>2
  <2> QED
    BY <2>3 DEF JobsStoreInCache
<1>4. ASSUME NEW i, NEW r, InsertChapter(i, r) PROVE JobsStoreInCache'
  BY <1>4 DEF InsertChapter, Begin, JobsStoreInCache
<1>5. ASSUME NEW i, ListChapter(i) PROVE JobsStoreInCache'
  <2> DEFINE added == AddResource(Document, filename[created[i]], TRUE)
  <2>1. /\ i \in DOMAIN created /\ stolen' = stolen
        /\ i \notin stolen => cache' = added
    BY <1>5 DEF ListChapter
  <2>2. filename[created[i]] \in Names /\ Document \in Documents
    <3>1. created[i] \in Live
      BY <1>1, <2>1 DEF TypeInv, Range, Chapters, Live
    <3> QED
      BY <1>1, <3>1, FileNames DEF TypeInv, Document
  <2>3. added \in Documents
    BY <2>2, AddType
  <2> HIDE DEF added
  <2> QED
    BY <2>1, <2>3, CacheAssumption DEF JobsStoreInCache
<1>6. CASE FinishChapters
  BY <1>6 DEF FinishChapters, JobsStoreInCache
<1>7. CASE UNCHANGED vars
  BY <1>7 DEF vars, batch_vars, JobsStoreInCache
<1>8. CASE DelayedUpdateToTextDocument
  BY <1>2, <1>8 DEF DelayedUpdateToTextDocument
<1>9. ASSUME NEW r, Delete(r) \/ SetCoverImage(r) \/ MergeWithPrevious(r) PROVE JobsStoreInCache'
  BY <1>2, <1>9 DEF Delete, SetCoverImage, MergeWithPrevious, MergeIsOffered, Drop, Ready
<1>10. ASSUME NEW r, NEW n, AddContentFile(r, n) \/ Rename(r, n) PROVE JobsStoreInCache'
  BY <1>2, <1>10 DEF AddContentFile, Rename, Ready
<1>11. ASSUME NEW r, NEW k, MoveHTML(r, k) PROVE JobsStoreInCache'
  BY <1>2, <1>11 DEF MoveHTML, Ready
<1>12. ASSUME NEW r, NEW type, AddSemantics(r, type) PROVE JobsStoreInCache'
  BY <1>2, <1>12 DEF AddSemantics, Ready
<1>13. ASSUME NEW r, NEW new, SplitChapter(r, new) PROVE JobsStoreInCache'
  BY <1>2, <1>13 DEF SplitChapter, Ready
<1> QED
  BY <1>3, <1>4, <1>5, <1>6, <1>7, <1>8, <1>9, <1>10, <1>11, <1>12, <1>13, Zenon DEF Next

LEMMA JobsStoreAtStart == Init => JobsStoreInCache
BY DEF Init, JobsStoreInCache

LEMMA OrderStep ==
    ASSUME PlainNames, ~Stealing, ListsInv, ListsInv', JobsStoreInCache, Next
    PROVE  (\E r \in HTMLs, k \in 1..Cardinality(HTMLs) : MoveHTML(r, k)) \/ KeepsOrder
<1>1. ASSUME UNCHANGED <<Document, filename>> PROVE KeepsOrder
  BY <1>1 DEF KeepsOrder, Chapters
<1>2. ASSUME UNCHANGED <<opf, cache, filename>> PROVE KeepsOrder
  BY <1>1, <1>2 DEF Document
<1>3. CASE DelayedUpdateToTextDocument
  BY <1>1, <1>3 DEF DelayedUpdateToTextDocument, Document
<1>4. CASE FinishChapters
  <2>1. asked > 0 /\ listed = 1..asked /\ UNCHANGED <<cache, filename>>
    BY <1>4 DEF FinishChapters, SetText
  <2>2. asked \in Nat /\ stolen = {}
    BY BoundAssumption DEF ListsInv, TypesAndSize, TypeInv
  <2>3. cache # NoCache
    <3>1. 1 \in listed
      BY <2>1, <2>2
    <3> QED
      BY <2>2, <3>1 DEF JobsStoreInCache
  <2> QED
    BY <1>1, <2>1, <2>3 DEF Document
<1>5. ASSUME NEW r \in Resources, Delete(r) \/ MergeWithPrevious(r) PROVE KeepsOrder
  <2>1. Ready /\ r \in Live /\ Drop(r)
    BY <1>5 DEF Delete, MergeWithPrevious, MergeIsOffered, Chapters, Live
  <2> QED
    BY <2>1, DropKeepsOrder
<1>6. ASSUME NEW r \in Resources, NEW type, SetCoverImage(r) \/ AddSemantics(r, type) PROVE KeepsOrder
  <2>1. /\ Ready /\ asked = 0 /\ UNCHANGED cache /\ UNCHANGED filename
        /\ \/ opf' = SetResourceAsCoverImage(opf, filename[r])
           \/ opf' = AddGuideSemanticType(opf, filename[r], type)
    BY <1>6 DEF SetCoverImage, AddSemantics, Ready, SetText
  <2>2. Document = opf /\ Document' = opf' /\ opf \in Documents
    BY <2>1, QuietDocuments, QuietBook
  <2>3. opf'.spine = opf.spine
    BY <2>1, <2>2, SameLists
  <2>4. KeepsIds
    BY <2>1, <2>2, <2>3 DEF KeepsIds
  <2> QED
    BY <2>4, OrderOfIds
<1>7. ASSUME NEW k, CreateNewChapters(k) PROVE KeepsOrder
  BY <1>2, <1>7 DEF CreateNewChapters
<1>8. ASSUME NEW i, NEW r \in HTMLs, InsertChapter(i, r) PROVE KeepsOrder
  <2>1. PICK n : filename' = With(filename, r, n)
    BY <1>8 DEF InsertChapter
  <2>2. Document' = Document /\ r \notin DOMAIN filename
    BY <1>8 DEF InsertChapter, Document, Live
  <2>3. \A x \in DOMAIN filename : filename'[x] = filename[x]
    BY <2>1, <2>2 DEF With
  <2>4. KeepsIds
    BY <2>2, <2>3 DEF KeepsIds, Chapters
  <2> QED
    BY <2>4, OrderOfIds
<1>9. ASSUME NEW i, ListChapter(i) PROVE KeepsOrder
  <2> DEFINE n == filename[created[i]]
             added == AddResource(Document, n, TRUE)
  <2>1. i \in DOMAIN created /\ cache' = added /\ UNCHANGED filename
    BY <1>9 DEF ListChapter, ListsInv
  <2>2. n \in Names /\ Document \in Documents
    <3>1. TypeInv
      BY DEF ListsInv, TypesAndSize
    <3>2. created[i] \in Live
      BY <2>1, <3>1 DEF TypeInv, Range, Chapters, Live
    <3> QED
      BY <3>1, <3>2, FileNames DEF TypeInv, Document
  <2> HIDE DEF n
  <2>3. added \in Documents
    BY <2>2, AddType
  <2>4. added.spine = Append(Document.spine, ValidID[n])
    BY <2>2 DEF AddResource, Documents
  <2> HIDE DEF added
  <2>5. Document' = added
    BY <2>1, <2>3, CacheAssumption DEF Document
  <2>6. Document.spine \in Seq(Ids \cup {NoId})
    BY <2>2, DocumentParts
  <2>7. \A x, y : Before(Document.spine, x, y) => Before(Document'.spine, x, y)
    BY <2>4, <2>5, <2>6, AppendKeepsOrder
  <2>8. KeepsIds
    BY <2>1, <2>7 DEF KeepsIds
  <2> QED
    BY <2>8, OrderOfIds
<1>10. ASSUME NEW r \in Resources, NEW n \in NamesFor(r), AddContentFile(r, n) \/ Rename(r, n)
       PROVE  KeepsOrder
  BY <1>10, ContentFileKeepsOrder
<1>11. ASSUME NEW r \in Resources, NEW new \in HTMLs, SplitChapter(r, new) PROVE KeepsOrder
  <2>1. TypesAndSize' /\ FilenamesAreUnique'
    BY DEF ListsInv
  <2> QED
    BY <1>11, <2>1, SplitLists, SplitKeepsOrder
<1>12. ASSUME NEW r \in Resources, NEW k \in 1..Cardinality(HTMLs), MoveHTML(r, k)
       PROVE  \E x \in HTMLs, j \in 1..Cardinality(HTMLs) : MoveHTML(x, j)
  BY <1>12 DEF MoveHTML, Chapters
<1> QED
  BY <1>3, <1>4, <1>5, <1>6, <1>7, <1>8, <1>9, <1>10, <1>11, <1>12, Zenon DEF Next

\* Only moving a chapter changes the order of the chapters: no other command
\* does and no job, in whatever order the pool threads run them.
THEOREM OrderIsKept ==
    ASSUME PlainNames, ~Stealing PROVE Spec => ReadingOrderKept
<1>1. ListsInv /\ [Next]_vars => ListsInv'
  BY ListsStep
<1>2. ListsInv /\ JobsStoreInCache /\ [Next]_vars => JobsStoreInCache'
  BY JobsStoreStep DEF ListsInv
<1>3. ListsInv /\ JobsStoreInCache /\ [Next]_vars =>
         [ \/ \E r \in HTMLs, k \in 1..Cardinality(HTMLs) : MoveHTML(r, k)
           \/ \A a, b \in (Chapters(filename) \ Range(created)) \cap Chapters(filename') :
                 Before(ChaptersInSpine(Document, filename), a, b)
                 => Before(ChaptersInSpine(Document', filename'), a, b) ]_vars
  <2> SUFFICES ASSUME ListsInv, JobsStoreInCache, Next
               PROVE  \/ \E r \in HTMLs, k \in 1..Cardinality(HTMLs) : MoveHTML(r, k)
                      \/ \A a, b \in (Chapters(filename) \ Range(created)) \cap Chapters(filename') :
                            Before(ChaptersInSpine(Document, filename), a, b)
                            => Before(ChaptersInSpine(Document', filename'), a, b)
    OBVIOUS
  <2>1. ListsInv'
    BY <1>1
  <2>2. (\E r \in HTMLs, k \in 1..Cardinality(HTMLs) : MoveHTML(r, k)) \/ KeepsOrder
    BY <2>1, OrderStep
  <2> QED
    BY <2>2 DEF KeepsOrder
<1>4. Init => ListsInv /\ JobsStoreInCache
  BY ListsAtStart, JobsStoreAtStart
<1> QED
  BY <1>1, <1>2, <1>3, <1>4, PTL DEF Spec, ReadingOrderKept

\* The file with the first part of a chapter that is split comes directly in
\* front of the other part, and the other chapters stay where they are.
THEOREM SplitIsInPlace ==
    ASSUME PlainNames, ~Stealing PROVE Spec => SplitPutsFirstPartBefore
<1>1. ListsInv /\ [Next]_vars => ListsInv'
  BY ListsStep
<1>2. ListsInv /\ [Next]_vars =>
         [ \A r, new \in HTMLs : SplitChapter(r, new) =>
             \E k \in DOMAIN ChaptersInSpine(opf, filename) :
                /\ ChaptersInSpine(opf, filename)[k] = r
                /\ ChaptersInSpine(opf', filename')
                     = InsertAt(ChaptersInSpine(opf, filename), k, new) ]_vars
  <2> SUFFICES ASSUME ListsInv, [Next]_vars, NEW r \in HTMLs, NEW new \in HTMLs, SplitChapter(r, new)
               PROVE  FirstPartBefore(r, new)
    BY DEF FirstPartBefore
  <2>1. TypesAndSize' /\ FilenamesAreUnique'
    BY <1>1 DEF ListsInv
  <2> QED
    BY <2>1, SplitLists
<1>3. Init => ListsInv
  BY ListsAtStart
<1> QED
  BY <1>1, <1>2, <1>3, PTL DEF Spec, SplitPutsFirstPartBefore

-----------------------------------------------------------------------------
(* What a batch leaves, also when the waiting GUI thread runs jobs.  Then a *)
(* document need not list the book, but what it lists is right.            *)

\* The items of the manifest m are for different files in N.
SoundItems(m, N) ==
    /\ \A i \in DOMAIN m : m[i].href \in N /\ m[i].id = ValidID[m[i].href]
    /\ \A i, j \in DOMAIN m : m[i].href = m[j].href => i = j

LEMMA AddSound ==
    ASSUME NEW d \in Documents, NEW N, SoundItems(d.manifest, N), NEW n \in Names, n \notin N,
           NEW isChapter
    PROVE  SoundItems(AddResource(d, n, isChapter).manifest, N \cup {n})
<1> DEFINE item == [id |-> ValidID[n], href |-> n]
           m == d.manifest
           t == Append(m, item)
<1>1. m \in Seq(Items) /\ item.href = n /\ item.id = ValidID[n]
  BY DocumentParts
<1>2. AddResource(d, n, isChapter).manifest = t
  BY DEF AddResource, Documents
<1> HIDE DEF item, m
<1>3. /\ Len(m) \in Nat /\ DOMAIN m = 1..Len(m) /\ DOMAIN t = 1..(Len(m) + 1)
      /\ t[Len(m) + 1] = item /\ \A i \in DOMAIN m : t[i] = m[i]
  BY <1>1
<1> HIDE DEF t
<1>4. \A i \in DOMAIN t : i \in DOMAIN m \/ i = Len(m) + 1
  BY <1>3
<1>5. /\ \A i \in DOMAIN m : m[i].href \in N /\ m[i].id = ValidID[m[i].href]
      /\ \A i, j \in DOMAIN m : m[i].href = m[j].href => i = j
  BY DEF SoundItems, m
<1>6. \A i \in DOMAIN t : t[i].href \in N \cup {n} /\ t[i].id = ValidID[t[i].href]
  BY <1>1, <1>3, <1>4, <1>5
<1>7. ASSUME NEW i \in DOMAIN t, NEW j \in DOMAIN t, t[i].href = t[j].href PROVE i = j
  BY <1>1, <1>3, <1>4, <1>5, <1>7
<1> QED
  BY <1>2, <1>6, <1>7 DEF SoundItems

LEMMA RemoveSound ==
    ASSUME NEW d \in Documents, NEW N, SoundItems(d.manifest, N), NEW n, NEW isChapter
    PROVE  SoundItems(RemoveResource(d, n, isChapter).manifest, N \ {n})
<1> DEFINE m == d.manifest
           i == ItemOf(d, n)
           t == RemoveAt(m, i)
           from(k) == IF k < i THEN k ELSE k + 1
<1>1. m \in Seq(Items)
  BY DocumentParts
<1>2. RemoveResource(d, n, isChapter).manifest = IF i = 0 THEN m ELSE t
  BY DEF RemoveResource, Documents
<1>3. /\ i = 0 <=> \A k \in DOMAIN m : m[k].href # n
      /\ i # 0 => i \in DOMAIN m /\ m[i].href = n
  BY ItemFound
<1> HIDE DEF m, i
<1>4. /\ \A k \in DOMAIN m : m[k].href \in N /\ m[k].id = ValidID[m[k].href]
      /\ \A k, l \in DOMAIN m : m[k].href = m[l].href => k = l
  BY DEF SoundItems, m
<1>5. CASE i = 0
  BY <1>2, <1>3, <1>4, <1>5 DEF SoundItems
<1>6. CASE i # 0
  <2>1. /\ DOMAIN t = 1..(Len(m) - 1) /\ Len(m) \in Nat /\ DOMAIN m = 1..Len(m)
        /\ \A k \in 1..(Len(m) - 1) : t[k] = IF k < i THEN m[k] ELSE m[k + 1]
    BY <1>1, <1>3, <1>6, RemoveAtValues, SequenceIsAFunction
  <2> HIDE DEF t
  <2>2. \A k \in DOMAIN t : from(k) \in DOMAIN m \ {i} /\ t[k] = m[from(k)]
    BY <1>3, <1>6, <2>1
  <2>3. \A k, l \in DOMAIN t : k # l => from(k) # from(l)
    BY <1>3, <1>6, <2>1
  <2> HIDE DEF from
  <2>4. \A k \in DOMAIN t : t[k].href \in N \ {n} /\ t[k].id = ValidID[t[k].href]
    BY <1>3, <1>4, <1>6, <2>2
  <2>5. \A k, l \in DOMAIN t : t[k].href = t[l].href => k = l
    BY <1>4, <2>2, <2>3
  <2> QED
    BY <1>2, <1>6, <2>4, <2>5 DEF SoundItems
<1> QED
  BY <1>5, <1>6

LEMMA RenamedSound ==
    ASSUME PlainNames, NEW d \in Documents, NEW N \in SUBSET Names, SoundItems(d.manifest, N),
           NEW old \in Names, NEW new \in Names, new \notin N \ {old}
    PROVE  SoundItems(ResourceRenamed(d, old, new).manifest, (N \ {old}) \cup {new})
<1> DEFINE m == d.manifest
           i == ItemOfPath(d, old)
           item == [id |-> ValidID[new], href |-> new]
           t == [m EXCEPT ![i] = item]
<1>1. i = ItemOf(d, old)
  BY DEF ItemOfPath, PlainNames
<1>2. /\ i = 0 <=> \A k \in DOMAIN m : m[k].href # old
      /\ i # 0 => i \in DOMAIN m /\ m[i].href = old
  BY <1>1, ItemFound
<1>3. ResourceRenamed(d, old, new).manifest = IF i = 0 THEN m ELSE t
  BY DEF ResourceRenamed, Documents
<1>4. item.href = new /\ item.id = ValidID[new]
  OBVIOUS
<1> HIDE DEF m, i, item
<1>5. /\ \A k \in DOMAIN m : m[k].href \in N /\ m[k].id = ValidID[m[k].href]
      /\ \A k, l \in DOMAIN m : m[k].href = m[l].href => k = l
  BY DEF SoundItems, m
<1>6. CASE i = 0
  BY <1>2, <1>3, <1>5, <1>6 DEF SoundItems
<1>7. CASE i # 0
  <2>1. DOMAIN t = DOMAIN m /\ t[i] = item /\ \A k \in DOMAIN m \ {i} : t[k] = m[k]
    BY <1>2, <1>7
  <2> HIDE DEF t
  <2>2. \A k \in DOMAIN m \ {i} : t[k].href \in N \ {old} /\ t[k].href # new
                                  /\ t[k].id = ValidID[t[k].href]
    BY <1>2, <1>5, <1>7, <2>1
  <2>3. \A k \in DOMAIN t : t[k].href \in (N \ {old}) \cup {new} /\ t[k].id = ValidID[t[k].href]
    BY <1>4, <2>1, <2>2
  <2>4. ASSUME NEW k \in DOMAIN t, NEW l \in DOMAIN t, t[k].href = t[l].href PROVE k = l
    BY <1>4, <1>5, <2>1, <2>2, <2>4
  <2> QED
    BY <1>3, <1>7, <2>3, <2>4 DEF SoundItems
<1> QED
  BY <1>6, <1>7

LEMMA PathsSound ==
    ASSUME NEW d \in Documents, NEW N, SoundItems(d.manifest, N), NEW old, old \notin N, NEW new
    PROVE  SoundItems(UpdatePaths(d, old, new).manifest, N)
<1> DEFINE m == d.manifest
           t == [i \in DOMAIN m |-> IF m[i].href = old THEN [m[i] EXCEPT !.href = new] ELSE m[i]]
<1>1. UpdatePaths(d, old, new).manifest = t
  BY DEF UpdatePaths, Documents
<1>2. \A i \in DOMAIN m : m[i].href # old
  BY DEF SoundItems
<1>3. DOMAIN t = DOMAIN m /\ \A i \in DOMAIN m : t[i] = m[i]
  BY <1>2
<1> HIDE DEF t, m
<1> QED
  BY <1>1, <1>3 DEF SoundItems, m

\* The chapter called n has an item and an itemref.
HasChapter(d, n) ==
    /\ \E i \in DOMAIN d.manifest : d.manifest[i].href = n
    /\ \E k \in DOMAIN d.spine : d.spine[k] = ValidID[n]

\* Then it is one of the chapters that the spine lists.
LEMMA ChapterIsInSpine ==
    ASSUME PlainNames, NEW d \in Documents, NEW N \in SUBSET Names, SoundItems(d.manifest, N),
           NEW files, IsInjective(files), NEW r \in Chapters(files), files[r] \in Names,
           HasChapter(d, files[r])
    PROVE  r \in ToSet(ChaptersInSpine(d, files))
<1> DEFINE n == files[r]
           sp == d.spine
           K == KnownItemrefs(d)
           known == SubsequenceAt(sp, K)
           names == GetSpineOrderFilenames(d)
           chapter(x) == {y \in Chapters(files) : files[y] = x}
           I == {k \in DOMAIN names : /\ chapter(names[k]) # {}
                                      /\ \A j \in 1..(k - 1) : names[j] # names[k]}
           f == [k \in I |-> CHOOSE y \in chapter(names[k]) : TRUE]
<1>1. Len(sp) \in Nat /\ DOMAIN sp = 1..Len(sp)
  BY DocumentParts, SequenceIsAFunction
<1>2. PICK i \in DOMAIN d.manifest : d.manifest[i].href = n
  BY DEF HasChapter
<1>3. PICK k \in DOMAIN sp : sp[k] = ValidID[n]
  BY DEF HasChapter
<1>4. k \in K
  BY <1>2, <1>3 DEF KnownItemrefs, SoundItems
<1>5. K \in SUBSET (1..Len(sp))
  BY <1>1 DEF KnownItemrefs
<1>6. names = [l \in DOMAIN known |-> d.manifest[LastItemOf(d, known[l])].href] /\ names \in Seq(Names)
  BY SpineFilenames
<1> HIDE DEF K, sp, names
<1>7. PICK g \in [1..Cardinality(K) -> K] : TakesFrom(g, sp, K)
  BY <1>1, <1>5, SubsequenceValues
<1>8. PICK l \in 1..Cardinality(K) : g[l] = k
  BY <1>4, <1>7 DEF TakesFrom
<1>9. l \in DOMAIN known /\ known[l] = ValidID[n]
  BY <1>3, <1>7, <1>8 DEF TakesFrom
<1> HIDE DEF known
<1>10. l \in DOMAIN names /\ names[l] = n
  <2> DEFINE j == LastItemOf(d, ValidID[n])
  <2>1. d.manifest[i].id = ValidID[n]
    BY <1>2 DEF SoundItems
  <2>2. j # 0
    BY <2>1, LastItemFound
  <2>3. j \in DOMAIN d.manifest /\ d.manifest[j].id = ValidID[n]
    BY <2>2, LastItemFound
  <2>4. names[l] = d.manifest[j].href /\ l \in DOMAIN names
    BY <1>6, <1>9
  <2> HIDE DEF j
  <2>5. d.manifest[j].href \in Names /\ ValidID[d.manifest[j].href] = ValidID[n]
    BY <2>3 DEF SoundItems
  <2> QED
    BY <2>4, <2>5, NamesAssumption DEF PlainNames, IsInjective
<1>11. Len(names) \in Nat /\ DOMAIN names = 1..Len(names)
  BY <1>6, SequenceIsAFunction
<1> DEFINE P == {p \in 1..Len(names) : names[p] = n}
<1>12. PICK p \in P : \A q \in P : p <= q
  <2>1. P \in SUBSET Nat /\ P # {}
    BY <1>10, <1>11
  <2> HIDE DEF P
  <2> QED
    BY <2>1, LeastNatural
<1>13. p \in I /\ f[p] = r
  <2>1. r \in chapter(names[p])
    BY <1>12
  <2>2. \A x \in chapter(names[p]) : x = r
    BY <1>12 DEF IsInjective, Chapters
  <2>3. \A j \in 1..(p - 1) : names[j] # names[p]
    BY <1>11, <1>12
  <2>4. p \in I
    BY <1>11, <1>12, <2>1, <2>3
  <2> QED
    BY <2>1, <2>2, <2>4
<1>14. ChaptersInSpine(d, files) = SubsequenceAt(f, I)
  BY DEF ChaptersInSpine, names
<1>15. I \in SUBSET (1..Len(names))
  BY <1>11
<1> HIDE DEF f, I, P
<1>16. PICK h \in [1..Cardinality(I) -> I] : TakesFrom(h, f, I)
  BY <1>11, <1>15, SubsequenceValues
<1>17. PICK q \in 1..Cardinality(I) : h[q] = p
  BY <1>13, <1>16 DEF TakesFrom
<1>18. SubsequenceAt(f, I) = [x \in 1..Cardinality(I) |-> f[h[x]]]
  BY <1>16 DEF TakesFrom
<1>19. q \in DOMAIN SubsequenceAt(f, I) /\ SubsequenceAt(f, I)[q] = r
  BY <1>13, <1>17, <1>18
<1> QED
  BY <1>14, <1>19 DEF ToSet

\* What a document lists is right, whoever has run the jobs.
SoundInv ==
    /\ TypesAndSize /\ FilenamesAreUnique /\ IsInjective(created)
    /\ SoundItems(opf.manifest, NamesOf(filename, Listed))
    /\ cache # NoCache => SoundItems(cache.manifest, NamesOf(filename, Listed))

LEMMA SoundFiles ==
    ASSUME SoundInv, Ready
    PROVE  /\ asked = 0 /\ cache = NoCache /\ DOMAIN created = {}
           /\ opf \in Documents /\ IsInjective(filename) /\ FilesOK(filename)
           /\ NamesOf(filename, DOMAIN filename) \in SUBSET Names
           /\ SoundItems(opf.manifest, NamesOf(filename, DOMAIN filename))
<1>1. TypeInv /\ FilesOK(filename) /\ IsInjective(filename) /\ asked = 0 /\ cache = NoCache
  BY DEF SoundInv, Ready, TypesAndSize, TypeInv, FilesOK, Live, FilenamesAreUnique
<1>2. DOMAIN created = {}
  <2>1. DOMAIN created \subseteq 1..0
    BY <1>1 DEF TypeInv
  <2> QED
    BY <2>1
<1>3. Pending = {}
  BY <1>2 DEF Pending
<1>4. Listed = DOMAIN filename
  BY <1>3 DEF Listed, Live
<1>5. NamesOf(filename, DOMAIN filename) \in SUBSET Names
  BY <1>1, FileNames DEF NamesOf, FilesOK
<1> QED
  BY <1>1, <1>2, <1>4, <1>5 DEF SoundInv, TypeInv

LEMMA QuietSound ==
    ASSUME SoundInv, Ready, UNCHANGED batch_vars, UNCHANGED cache,
           TypesAndSize', FilenamesAreUnique',
           SoundItems(opf'.manifest, NamesOf(filename', DOMAIN filename'))
    PROVE  SoundInv'
<1>1. cache' = NoCache /\ created' = created /\ DOMAIN created = {}
  BY SoundFiles DEF batch_vars
<1>2. Pending' = {}
  BY <1>1 DEF Pending
<1>3. Listed' = DOMAIN filename'
  BY <1>2 DEF Listed, Live
<1> QED
  BY <1>1, <1>3 DEF SoundInv

LEMMA ContentFileSound ==
    ASSUME PlainNames, SoundInv, TypesAndSize', FilenamesAreUnique',
           NEW r \in Resources, NEW n \in NamesFor(r), AddContentFile(r, n) \/ Rename(r, n)
    PROVE  SoundInv'
<1> DEFINE N == NamesOf(filename, DOMAIN filename)
<1>1. Ready /\ UNCHANGED batch_vars /\ UNCHANGED cache /\ n \notin Range(filename)
  BY DEF AddContentFile, Rename, SetText
<1>2. /\ opf \in Documents /\ IsInjective(filename)
      /\ N \in SUBSET Names /\ SoundItems(opf.manifest, N)
  BY <1>1, SoundFiles
<1>3. n \in Names /\ n \notin N
  BY <1>1, FileNames DEF Range, NamesOf
<1>4. CASE AddContentFile(r, n)
  <2>1. /\ opf' = AddResource(opf, n, IsChapter(r)) /\ filename' = With(filename, r, n)
        /\ r \notin DOMAIN filename
    BY <1>4 DEF AddContentFile, SetText, Live
  <2>2. NamesOf(filename', DOMAIN filename') = N \cup {n}
    BY <2>1, NamesWith
  <2> HIDE DEF N
  <2>3. SoundItems(AddResource(opf, n, IsChapter(r)).manifest, N \cup {n})
    <3>1. \A c : SoundItems(AddResource(opf, n, c).manifest, N \cup {n})
      BY <1>2, <1>3, AddSound
    <3> QED
      BY <3>1, Zenon
  <2> QED
    BY <1>1, <2>1, <2>2, <2>3, QuietSound
<1>5. CASE Rename(r, n)
  <2> DEFINE old == filename[r]
             opf1 == ResourceRenamed(opf, old, n)
             N1 == (N \ {old}) \cup {n}
  <2>1. /\ opf' = UpdatePaths(opf1, old, n)
        /\ filename' = [filename EXCEPT ![r] = n] /\ r \in DOMAIN filename
    BY <1>5 DEF Rename, SetText, Live
  <2>2. NamesOf(filename', DOMAIN filename') = N1
    <3>1. Renames(filename', filename, r, n)
      BY <2>1 DEF Renames
    <3> QED
      BY <1>2, <3>1, NamesRenamed
  <2>3. old \in Names /\ old \in N /\ old # n
    BY <1>2, <1>3, <2>1 DEF NamesOf
  <2> HIDE DEF N, old
  <2>4. SoundItems(opf1.manifest, N1) /\ opf1 \in Documents /\ old \notin N1
    BY <1>2, <1>3, <2>3, RenamedSound, RenamedType
  <2> HIDE DEF opf1, N1
  <2>5. SoundItems(UpdatePaths(opf1, old, n).manifest, N1)
    BY <2>4, PathsSound
  <2> QED
    BY <1>1, <2>1, <2>2, <2>5, QuietSound
<1> QED
  BY <1>4, <1>5

LEMMA DropSound ==
    ASSUME SoundInv, TypesAndSize', FilenamesAreUnique', NEW r \in Live, Ready, Drop(r)
    PROVE  SoundInv'
<1> DEFINE N == NamesOf(filename, DOMAIN filename)
           n == filename[r]
<1>1. /\ UNCHANGED batch_vars /\ UNCHANGED cache /\ r \in DOMAIN filename
      /\ opf' = RemoveResource(opf, n, IsChapter(r)) /\ filename' = Without(filename, r)
  BY DEF Drop, SetText, Live
<1>2. opf \in Documents /\ IsInjective(filename) /\ SoundItems(opf.manifest, N)
  BY SoundFiles
<1>3. NamesOf(filename', DOMAIN filename') = N \ {n}
  BY <1>1, <1>2, NamesWithout
<1> HIDE DEF N, n
<1>4. SoundItems(opf'.manifest, N \ {n})
  <2>1. \A c : SoundItems(RemoveResource(opf, n, c).manifest, N \ {n})
    BY <1>2, RemoveSound
  <2> QED
    BY <1>1, <2>1, Zenon
<1> QED
  BY <1>1, <1>3, <1>4, QuietSound

LEMMA SplitSound ==
    ASSUME PlainNames, SoundInv, TypesAndSize', FilenamesAreUnique',
           NEW r, NEW new, SplitChapter(r, new)
    PROVE  SoundInv'
<1> DEFINE N == NamesOf(filename, DOMAIN filename)
           old == filename[r]
           v == UniqueVersion(1, filename)
           Sv == Section[v]
           files1 == [filename EXCEPT ![r] = Sv]
           opf1 == ResourceRenamed(opf, old, Sv)
           N1 == (N \ {old}) \cup {Sv}
           w == UniqueVersion(1, files1)
           Sw == Section[w]
           added == AddResource(opf1, Sw, TRUE)
           opf2 == ResourceRenamed(added, Sw, old)
           N2 == ((N1 \cup {Sw}) \ {Sw}) \cup {old}
<1>1. /\ Ready /\ UNCHANGED batch_vars /\ UNCHANGED cache
      /\ r \in DOMAIN filename /\ new \notin DOMAIN filename
      /\ v \in DOMAIN Section /\ w \in DOMAIN Section
      /\ filename' = With(files1, new, old)
  BY DEF SplitChapter, SetText, Live, Chapters
<1>2. PICK names : opf' = UpdateSpineOrder(opf2, names)
  BY DEF SplitChapter, SetText
<1>3. /\ opf \in Documents /\ IsInjective(filename)
      /\ N \in SUBSET Names /\ SoundItems(opf.manifest, N)
  BY <1>1, SoundFiles
<1>4. Sv \in Names /\ Sv \notin N /\ Sw \in Names /\ Sw \notin Range(files1)
  <2>1. Sv \notin Range(filename) /\ Sw \notin Range(files1)
    BY <1>1, VersionIsFree
  <2>2. Sv \notin N
    BY <2>1 DEF Range, NamesOf
  <2> HIDE DEF v, w, N
  <2> QED
    BY <1>1, <2>1, <2>2, FileNames, FilenamesAssumption
<1>5. old \in N /\ old \in Names /\ old # Sv
  BY <1>1, <1>3, <1>4 DEF NamesOf
<1> HIDE DEF v, w
<1>6. Renames(files1, filename, r, Sv)
  BY <1>1 DEF Renames
<1> HIDE DEF files1, Sv
<1>7. NamesOf(files1, DOMAIN files1) = N1
  BY <1>3, <1>6, NamesRenamed
<1>8. Sw \notin N1
  BY <1>4, <1>7 DEF Range, NamesOf
<1> HIDE DEF N, old, Sw
<1>9. SoundItems(opf1.manifest, N1) /\ opf1 \in Documents /\ N1 \in SUBSET Names
  BY <1>3, <1>4, <1>5, RenamedSound, RenamedType
<1>10. old \notin N1
  BY <1>5
<1> HIDE DEF opf1, N1
<1>11. SoundItems(added.manifest, N1 \cup {Sw}) /\ added \in Documents /\ N1 \cup {Sw} \in SUBSET Names
  BY <1>4, <1>8, <1>9, AddSound, AddType
<1> HIDE DEF added
<1>12. SoundItems(opf2.manifest, N2) /\ opf2 \in Documents
  <2>1. old \notin (N1 \cup {Sw}) \ {Sw}
    BY <1>10
  <2> QED
    BY <1>4, <1>5, <1>11, <2>1, RenamedSound, RenamedType
<1>13. N2 = N1 \cup {old}
  BY <1>8
<1> HIDE DEF opf2, N2
<1>14. opf'.manifest = opf2.manifest
  BY <1>2, <1>12 DEF UpdateSpineOrder, Documents
<1>15. NamesOf(filename', DOMAIN filename') = N1 \cup {old}
  <2>1. new \notin DOMAIN files1
    BY <1>1, <1>6 DEF Renames
  <2> QED
    BY <1>1, <1>7, <2>1, NamesWith
<1> QED
  BY <1>1, <1>12, <1>13, <1>14, <1>15, QuietSound

LEMMA InsertSound ==
    ASSUME SoundInv, TypesAndSize', FilenamesAreUnique',
           NEW i, NEW r, InsertChapter(i, r)
    PROVE  SoundInv'
<1>1. /\ i \notin DOMAIN created /\ r \notin Live /\ created' = With(created, i, r)
      /\ UNCHANGED <<opf, cache, listed>>
  BY DEF InsertChapter
<1>2. PICK n : filename' = With(filename, r, n)
  BY DEF InsertChapter
<1>3. /\ Range(created) \subseteq Live /\ listed \subseteq DOMAIN created
      /\ IsInjective(created)
  BY DEF SoundInv, TypesAndSize, TypeInv, Chapters, Live
<1>4. /\ DOMAIN created' = DOMAIN created \cup {i} /\ created'[i] = r
      /\ \A j \in DOMAIN created : created'[j] = created[j]
      /\ Live' = Live \cup {r}
      /\ \A x \in Live : filename'[x] = filename[x]
  BY <1>1, <1>2 DEF With, Live
<1>5. IsInjective(created')
  <2>1. \A j \in DOMAIN created : created[j] # r
    BY <1>1, <1>3 DEF Range
  <2> QED
    BY <1>3, <1>4, <2>1 DEF IsInjective
<1>6. Pending' = Pending \cup {r}
  BY <1>1, <1>3, <1>4 DEF Pending
<1>7. Listed' = Listed
  BY <1>1, <1>4, <1>6 DEF Listed
<1>8. NamesOf(filename', Listed') = NamesOf(filename, Listed)
  BY <1>4, <1>7 DEF NamesOf, Listed
<1> QED
  BY <1>1, <1>5, <1>8 DEF SoundInv

LEMMA ListSound ==
    ASSUME SoundInv, TypesAndSize', FilenamesAreUnique', NEW i, ListChapter(i)
    PROVE  SoundInv'
<1> DEFINE r == created[i]
           n == filename[r]
           N == NamesOf(filename, Listed)
           added == AddResource(Document, n, TRUE)
<1>1. /\ TypeInv /\ IsInjective(created) /\ IsInjective(filename)
      /\ SoundItems(opf.manifest, N)
      /\ cache # NoCache => SoundItems(cache.manifest, N)
  BY DEF SoundInv, TypesAndSize, FilenamesAreUnique
<1>2. /\ i \in DOMAIN created /\ i \notin listed /\ listed' = listed \cup {i}
      /\ \/ cache' = added /\ opf' = opf
         \/ opf' = added /\ cache' = cache
      /\ UNCHANGED <<filename, created>>
  BY DEF ListChapter, SetText
<1>3. Document \in Documents /\ SoundItems(Document.manifest, N)
  BY <1>1 DEF Document, TypeInv
<1>4. r \in Live /\ r \in Pending
  BY <1>1, <1>2 DEF TypeInv, Range, Chapters, Live, Pending
<1>5. Pending' = Pending \ {r}
  BY <1>1, <1>2 DEF Pending, IsInjective
<1>6. Listed' = Listed \cup {r} /\ r \notin Listed
  BY <1>2, <1>4, <1>5 DEF Listed, Live
<1>7. n \in Names /\ n \notin N
  <2>1. n \in Names
    BY <1>1, <1>4, FileNames DEF TypeInv
  <2>2. n \notin N
    BY <1>1, <1>4, <1>6 DEF NamesOf, IsInjective, Listed, Live
  <2> QED
    BY <2>1, <2>2
<1>8. NamesOf(filename', Listed') = N \cup {n}
  BY <1>2, <1>6 DEF NamesOf
<1> HIDE DEF N, n, r
<1>9. SoundItems(added.manifest, N \cup {n})
  BY <1>3, <1>7, AddSound
<1> HIDE DEF added
<1>10. \A m : SoundItems(m, N) => SoundItems(m, N \cup {n})
  BY DEF SoundItems
<1>11. SoundItems(opf'.manifest, N \cup {n}) /\ (cache' # NoCache => SoundItems(cache'.manifest, N \cup {n}))
  BY <1>1, <1>2, <1>9, <1>10
<1> QED
  BY <1>1, <1>2, <1>8, <1>11 DEF SoundInv

LEMMA FinishSound ==
    ASSUME SoundInv, TypesAndSize', FilenamesAreUnique', FinishChapters
    PROVE  SoundInv'
<1>1. TypeInv /\ Document \in Documents
  BY DEF SoundInv, TypesAndSize, TypeInv, Document
<1>2. /\ listed = 1..asked /\ UNCHANGED <<filename, cache>> /\ created' = <<>>
  BY DEF FinishChapters, SetText
<1>3. PICK names : opf' = UpdateSpineOrder(Document, names)
  BY DEF FinishChapters, SetText
<1>4. Pending = {}
  BY <1>1, <1>2 DEF Pending, TypeInv
<1>5. DOMAIN created' = {}
  <2>1. DOMAIN <<>> = {}
    OBVIOUS
  <2> QED
    BY <1>2, <2>1
<1>6. Pending' = {} /\ IsInjective(created')
  BY <1>5 DEF Pending, IsInjective
<1>7. NamesOf(filename', Listed') = NamesOf(filename, Listed)
  BY <1>2, <1>4, <1>6 DEF Listed, Live
<1>8. opf'.manifest = Document.manifest
  BY <1>1, <1>3 DEF UpdateSpineOrder, Documents
<1>9. Document = opf \/ (cache # NoCache /\ Document = cache)
  BY DEF Document
<1>10. SoundItems(Document.manifest, NamesOf(filename, Listed))
  BY <1>9 DEF SoundInv
<1>11. SoundItems(opf'.manifest, NamesOf(filename', Listed'))
  BY <1>7, <1>8, <1>10
<1>12. cache' # NoCache => SoundItems(cache'.manifest, NamesOf(filename', Listed'))
  BY <1>2, <1>7 DEF SoundInv
<1> QED
  BY <1>6, <1>11, <1>12 DEF SoundInv

LEMMA SoundStep ==
    ASSUME PlainNames, SoundInv, [Next]_vars
    PROVE  SoundInv'
<1>1. TypesAndSize' /\ FilenamesAreUnique'
  BY TypeStep, UniqueStep DEF SoundInv
<1>2. CASE DelayedUpdateToTextDocument
  <2>1. cache # NoCache /\ opf' = cache /\ cache' = NoCache /\ UNCHANGED <<filename, created, listed>>
    BY <1>2 DEF DelayedUpdateToTextDocument, batch_vars
  <2>2. Listed' = Listed
    BY <2>1 DEF Listed, Pending, Live
  <2>3. NamesOf(filename', Listed') = NamesOf(filename, Listed)
    BY <2>1, <2>2
  <2> QED
    BY <1>1, <2>1, <2>3 DEF SoundInv
<1>3. ASSUME NEW r \in Resources, Delete(r) \/ MergeWithPrevious(r) PROVE SoundInv'
  <2>1. Ready /\ r \in Live /\ Drop(r)
    BY <1>3 DEF Delete, MergeWithPrevious, MergeIsOffered, Chapters, Live
  <2> QED
    BY <1>1, <2>1, DropSound
<1>4. ASSUME Ready, UNCHANGED <<filename, batch_vars, cache>>, opf'.manifest = opf.manifest PROVE SoundInv'
  <2>1. SoundItems(opf'.manifest, NamesOf(filename', DOMAIN filename'))
    BY <1>4, SoundFiles
  <2> QED
    BY <1>1, <1>4, <2>1, QuietSound
<1>5. ASSUME NEW r \in Resources, NEW type, SetCoverImage(r) \/ AddSemantics(r, type) PROVE SoundInv'
  <2>1. /\ Ready /\ UNCHANGED <<filename, batch_vars, cache>>
        /\ \/ opf' = SetResourceAsCoverImage(opf, filename[r])
           \/ opf' = AddGuideSemanticType(opf, filename[r], type)
    BY <1>5 DEF SetCoverImage, AddSemantics, SetText
  <2>2. opf \in Documents
    BY <2>1, SoundFiles
  <2> QED
    BY <1>4, <2>1, <2>2, SameLists
<1>6. ASSUME NEW r, NEW k, MoveHTML(r, k) PROVE SoundInv'
  <2>1. Ready /\ UNCHANGED <<filename, batch_vars, cache>>
    BY <1>6 DEF MoveHTML, SetText
  <2>2. PICK names : opf' = UpdateSpineOrder(opf, names)
    BY <1>6 DEF MoveHTML, SetText
  <2>3. opf'.manifest = opf.manifest
    BY <2>1, <2>2, SoundFiles DEF UpdateSpineOrder, Documents
  <2> QED
    BY <1>4, <2>1, <2>3
<1>7. ASSUME NEW k, CreateNewChapters(k) PROVE SoundInv'
  <2>1. UNCHANGED <<filename, opf, cache, created, listed>>
    BY <1>7 DEF CreateNewChapters
  <2>2. Listed' = Listed
    BY <2>1 DEF Listed, Pending, Live
  <2>3. NamesOf(filename', Listed') = NamesOf(filename, Listed)
    BY <2>1, <2>2
  <2> QED
    BY <1>1, <2>1, <2>3 DEF SoundInv
<1>8. CASE UNCHANGED vars
  <2>1. UNCHANGED <<filename, opf, cache, created, listed>>
    BY <1>8 DEF vars, batch_vars
  <2>2. Listed' = Listed
    BY <2>1 DEF Listed, Pending, Live
  <2>3. NamesOf(filename', Listed') = NamesOf(filename, Listed)
    BY <2>1, <2>2
  <2> QED
    BY <1>1, <2>1, <2>3 DEF SoundInv
<1>9. ASSUME NEW r \in Resources, NEW n \in NamesFor(r), AddContentFile(r, n) \/ Rename(r, n)
      PROVE  SoundInv'
  BY <1>1, <1>9, ContentFileSound
<1>10. ASSUME NEW r, NEW new, SplitChapter(r, new) PROVE SoundInv'
  BY <1>1, <1>10, SplitSound
<1>11. ASSUME NEW i, NEW r, InsertChapter(i, r) PROVE SoundInv'
  BY <1>1, <1>11, InsertSound
<1>12. ASSUME NEW i, ListChapter(i) PROVE SoundInv'
  BY <1>1, <1>12, ListSound
<1>13. CASE FinishChapters
  BY <1>1, <1>13, FinishSound
<1> QED
  BY <1>2, <1>3, <1>5, <1>6, <1>7, <1>8, <1>9, <1>10, <1>11, <1>12, <1>13, Zenon DEF Next

\* While no job runs on the GUI thread, the cache has what jobs have listed.
JobsAreInCache ==
    stolen = {} => \A i \in listed : cache # NoCache /\ HasChapter(cache, filename[created[i]])

LEMMA JobsInCacheStep ==
    ASSUME TypesAndSize, JobsAreInCache, [Next]_vars
    PROVE  JobsAreInCache'
<1>1. TypeInv
  BY DEF TypesAndSize
<1>2. ASSUME listed' = {} PROVE JobsAreInCache'
  BY <1>2 DEF JobsAreInCache
<1>3. ASSUME asked = 0, listed' = listed PROVE JobsAreInCache'
  <2>1. listed \subseteq 1..0
    BY <1>1, <1>3 DEF TypeInv
  <2>2. listed' = {}
    BY <1>3, <2>1
  <2> QED
    BY <1>2, <2>2
<1>4. ASSUME NEW i, NEW r, InsertChapter(i, r) PROVE JobsAreInCache'
  <2>1. /\ i \notin DOMAIN created /\ r \notin Live /\ created' = With(created, i, r)
        /\ stolen' = {} => stolen = {}
        /\ UNCHANGED <<cache, listed>>
    BY <1>4 DEF InsertChapter, Begin
  <2>2. PICK n : filename' = With(filename, r, n)
    BY <1>4 DEF InsertChapter
  <2>3. ASSUME NEW j \in listed PROVE filename'[created'[j]] = filename[created[j]]
    <3>1. j \in DOMAIN created /\ created[j] \in DOMAIN filename /\ r \notin DOMAIN filename
      BY <1>1, <2>1 DEF TypeInv, Range, Chapters, Live
    <3>2. created'[j] = created[j]
      BY <2>1, <3>1 DEF With
    <3> QED
      BY <2>2, <3>1, <3>2 DEF With
  <2> QED
    BY <2>1, <2>3 DEF JobsAreInCache
<1>5. ASSUME NEW i, ListChapter(i) PROVE JobsAreInCache'
  <2> DEFINE n == filename[created[i]]
             added == AddResource(Document, n, TRUE)
  <2>1. /\ i \in DOMAIN created /\ listed' = listed \cup {i}
        /\ UNCHANGED <<filename, created, stolen>>
        /\ i \notin stolen => cache' = added
    BY <1>5 DEF ListChapter
  <2>2. n \in Names /\ Document \in Documents
    <3>1. created[i] \in Live
      BY <1>1, <2>1 DEF TypeInv, Range, Chapters, Live
    <3> QED
      BY <1>1, <3>1, FileNames DEF TypeInv, Document
  <2> HIDE DEF n
  <2>3. added # NoCache
    BY <2>2, AddType, CacheAssumption
  <2>4. /\ added.manifest = Append(Document.manifest, [id |-> ValidID[n], href |-> n])
        /\ added.spine = Append(Document.spine, ValidID[n])
    BY <2>2 DEF AddResource, Documents
  <2>5. Document.manifest \in Seq(Items) /\ Document.spine \in Seq(Ids \cup {NoId})
    BY <2>2, DocumentParts
  <2> HIDE DEF added
  <2>6. /\ DOMAIN Document.manifest \subseteq DOMAIN added.manifest
        /\ \A k \in DOMAIN Document.manifest : added.manifest[k] = Document.manifest[k]
        /\ \E k \in DOMAIN added.manifest : added.manifest[k] = [id |-> ValidID[n], href |-> n]
    <3>1. Len(Document.manifest) + 1 \in DOMAIN added.manifest
          /\ added.manifest[Len(Document.manifest) + 1] = [id |-> ValidID[n], href |-> n]
      BY <2>4, <2>5
    <3> QED
      BY <2>4, <2>5, <3>1
  <2>7. /\ DOMAIN Document.spine \subseteq DOMAIN added.spine
        /\ \A k \in DOMAIN Document.spine : added.spine[k] = Document.spine[k]
        /\ \E k \in DOMAIN added.spine : added.spine[k] = ValidID[n]
    <3>1. Len(Document.spine) + 1 \in DOMAIN added.spine
          /\ added.spine[Len(Document.spine) + 1] = ValidID[n]
      BY <2>4, <2>5
    <3>2. DOMAIN Document.spine \subseteq DOMAIN added.spine
      BY <2>4, <2>5
    <3>3. \A k \in DOMAIN Document.spine : added.spine[k] = Document.spine[k]
      BY <2>4, <2>5
    <3> QED
      BY <3>1, <3>2, <3>3, Zenon
  <2>8. HasChapter(added, n) /\ \A x : HasChapter(Document, x) => HasChapter(added, x)
    BY <2>6, <2>7 DEF HasChapter
  <2> SUFFICES ASSUME stolen' = {}, NEW j \in listed'
               PROVE  cache' # NoCache /\ HasChapter(cache', filename'[created'[j]])
    BY DEF JobsAreInCache
  <2>9. cache' = added
    BY <2>1
  <2>10. CASE j = i
    BY <2>1, <2>3, <2>8, <2>9, <2>10 DEF n
  <2>11. CASE j \in listed
    <3>1. cache # NoCache /\ HasChapter(cache, filename[created[j]])
      BY <2>1, <2>11 DEF JobsAreInCache
    <3>2. Document = cache
      BY <3>1 DEF Document
    <3> QED
      BY <2>1, <2>3, <2>8, <2>9, <3>1, <3>2
  <2> QED
    BY <2>1, <2>10, <2>11
<1>6. CASE FinishChapters
  BY <1>2, <1>6 DEF FinishChapters
<1>7. CASE UNCHANGED vars
  BY <1>7 DEF vars, batch_vars, JobsAreInCache
<1>8. CASE DelayedUpdateToTextDocument
  BY <1>3, <1>8 DEF DelayedUpdateToTextDocument, batch_vars
<1>9. ASSUME NEW r, Delete(r) \/ SetCoverImage(r) \/ MergeWithPrevious(r) PROVE JobsAreInCache'
  BY <1>3, <1>9 DEF Delete, SetCoverImage, MergeWithPrevious, MergeIsOffered, Drop, Ready, batch_vars
<1>10. ASSUME NEW r, NEW n, AddContentFile(r, n) \/ Rename(r, n) PROVE JobsAreInCache'
  BY <1>3, <1>10 DEF AddContentFile, Rename, Ready, batch_vars
<1>11. ASSUME NEW r, NEW k, MoveHTML(r, k) PROVE JobsAreInCache'
  BY <1>3, <1>11 DEF MoveHTML, Ready, batch_vars
<1>12. ASSUME NEW r, NEW type, AddSemantics(r, type) PROVE JobsAreInCache'
  BY <1>3, <1>12 DEF AddSemantics, Ready, batch_vars
<1>13. ASSUME NEW r, NEW new, SplitChapter(r, new) PROVE JobsAreInCache'
  BY <1>3, <1>13 DEF SplitChapter, Ready, batch_vars
<1>14. ASSUME NEW k, CreateNewChapters(k) PROVE JobsAreInCache'
  BY <1>3, <1>14 DEF CreateNewChapters, Ready
<1> QED
  BY <1>4, <1>5, <1>6, <1>7, <1>8, <1>9, <1>10, <1>11, <1>12, <1>13, <1>14, Zenon DEF Next

\* Only the end of a batch sets asked to 0.
LEMMA BatchEnds ==
    ASSUME TypesAndSize, Next, asked > 0, asked' = 0
    PROVE  FinishChapters
<1>1. asked # 0
  BY BoundAssumption DEF TypesAndSize, TypeInv
<1>2. ~Ready
  BY <1>1 DEF Ready
<1>3. ~DelayedUpdateToTextDocument
  BY <1>1 DEF DelayedUpdateToTextDocument
<1>4. \A r, n : ~Delete(r) /\ ~SetCoverImage(r) /\ ~MergeWithPrevious(r) /\ ~AddContentFile(r, n)
                /\ ~Rename(r, n) /\ ~MoveHTML(r, n) /\ ~AddSemantics(r, n) /\ ~SplitChapter(r, n)
  BY <1>2 DEF Delete, SetCoverImage, MergeWithPrevious, MergeIsOffered, AddContentFile, Rename,
              MoveHTML, AddSemantics, SplitChapter
<1>5. \A k : ~CreateNewChapters(k)
  BY <1>2 DEF CreateNewChapters
<1>6. \A i, r : ~ListChapter(i) /\ ~InsertChapter(i, r)
  BY <1>1 DEF ListChapter, InsertChapter
<1> QED
  BY <1>3, <1>4, <1>5, <1>6, Zenon DEF Next

\* What is delivered after a batch lists every chapter of the batch, in whatever
\* order pool threads created and listed them, unless the GUI thread ran one of
\* its jobs; whatever became of the document in batches before.
THEOREM JobsAreListed ==
    ASSUME PlainNames PROVE Spec => JobsListTheirChapters
<1>1. SoundInv /\ [Next]_vars => SoundInv'
  BY SoundStep
<1>2. SoundInv /\ JobsAreInCache /\ [Next]_vars => JobsAreInCache'
  BY JobsInCacheStep DEF SoundInv
<1>3. SoundInv /\ JobsAreInCache /\ [Next]_vars =>
         [ asked > 0 /\ asked' = 0 /\ stolen = {} =>
             Range(created) \subseteq ToSet(ChaptersInSpine(cache', filename')) ]_vars
  <2> SUFFICES ASSUME SoundInv, JobsAreInCache, Next, asked > 0, asked' = 0, stolen = {},
                      NEW r \in Range(created)
               PROVE  r \in ToSet(ChaptersInSpine(cache', filename'))
    BY DEF Range
  <2>1. TypesAndSize /\ TypeInv /\ IsInjective(filename)
    BY DEF SoundInv, TypesAndSize, FilenamesAreUnique
  <2>2. FinishChapters
    BY <2>1, BatchEnds
  <2>3. listed = 1..asked /\ UNCHANGED <<filename, cache>>
    BY <2>2 DEF FinishChapters, SetText
  <2>4. PICK i \in DOMAIN created : r = created[i]
    BY DEF Range
  <2>5. i \in listed
    BY <2>1, <2>3, <2>4 DEF TypeInv
  <2>6. cache # NoCache /\ HasChapter(cache, filename[r])
    BY <2>4, <2>5 DEF JobsAreInCache
  <2>7. cache \in Documents /\ SoundItems(cache.manifest, NamesOf(filename, Listed))
    BY <2>1, <2>6 DEF SoundInv, TypeInv
  <2>8. \A x \in Live : filename[x] \in Names
    BY <2>1, FileNames DEF TypeInv
  <2>9. NamesOf(filename, Listed) \in SUBSET Names /\ r \in Chapters(filename) /\ filename[r] \in Names
    BY <2>1, <2>8 DEF NamesOf, Listed, TypeInv, Chapters, Live
  <2>10. r \in ToSet(ChaptersInSpine(cache, filename))
    BY <2>1, <2>6, <2>7, <2>9, ChapterIsInSpine
  <2> QED
    BY <2>3, <2>10
<1>4. Init => SoundInv /\ JobsAreInCache
  <2> SUFFICES ASSUME Init PROVE SoundInv /\ JobsAreInCache
    OBVIOUS
  <2>1. ListsInv
    BY ListsAtStart
  <2>2. cache = NoCache /\ listed = {} /\ Document = opf
    BY DEF Init, Document
  <2>3. SoundItems(opf.manifest, NamesOf(filename, Listed))
    BY <2>1, <2>2 DEF ListsInv, Lists, ListsFiles, SoundItems
  <2> QED
    BY <2>1, <2>2, <2>3 DEF SoundInv, ListsInv, JobsAreInCache
<1> QED
  BY <1>1, <1>2, <1>3, <1>4, PTL DEF Spec, JobsListTheirChapters

=============================================================================
