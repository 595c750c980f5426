----------------------- MODULE TableOfContentsProofs -----------------------
(***************************************************************************)
(* Proofs about the ids of headings and the links of the NCX, for any      *)
(* files and headings: a save gives no id twice where it can help it, and  *)
(* a link leads to its heading through all later editing.  Then about the  *)
(* pane that shows the table of contents, NCXPane; and about the dialog    *)
(* that generates it, HeadingSelector, with the tree of Headings: an       *)
(* outline by level is unique, the tree that is made of a list of headings *)
(* is one, and removing excluded items from one leaves one.                *)
(***************************************************************************)
EXTENDS TableOfContents, NCXPane, HeadingSelector, SequenceLemmas, SequenceTheorems

HeadingElements == [name : Headings, id : Nat, wanted : BOOLEAN]

NavPoints == [name : Headings, file : Files, id : Nat \cup {AtStart}]

\* A heading is in a list once, and it is one of names.
NamedOnce(list, names) ==
    /\ Names(list) \subseteq names
    /\ \A i, j \in DOMAIN list : list[i].name = list[j].name => i = j

\* No two headings of a list of f have the same id, but for the given ones.
IdsAreDistinct(f, list, ids) ==
    \A i, j \in DOMAIN list :
        i # j /\ list[i].id = list[j].id /\ list[i].id # NoId => <<f, list[i].id>> \in ids

\* A list of headings that can be the content of f
Sound(f, list, names, ids) ==
    /\ list \in Seq(HeadingElements)
    /\ NamedOnce(list, names)
    /\ IdsAreDistinct(f, list, ids)

\* The headings of a list of f have the ids by which nav points link to them.
LinksAgree(f, list, points) ==
    \A p \in points, i \in DOMAIN list :
        p.file = f /\ p.id > NoId /\ list[i].name = p.name => list[i].id = p.id

TypeInv ==
    /\ dom \in [Files -> Seq(HeadingElements)]
    /\ view \in [Files -> Seq(HeadingElements)]
    /\ old \subseteq Files /\ current \in Files /\ edited \in BOOLEAN
    /\ ncx \subseteq NavPoints
    /\ written \subseteq Headings

\* What holds of the content of one file: its DOM and its view are sound, and
\* the links agree with the DOM and with what the user sees and may edit.
FileIsSound(f) ==
    /\ Sound(f, dom[f], written, shared) /\ Sound(f, view[f], written, shared)
    /\ LinksAgree(f, dom[f], ncx) /\ LinksAgree(f, Shown(f), ncx)

\* An old view is not an edited one; the links are to headings once written.
IInv ==
    /\ TypeInv
    /\ edited => current \notin old
    /\ \A p \in ncx : p.name \in written
    /\ \A f \in Files : FileIsSound(f)

-----------------------------------------------------------------------------
(* GiveIDsToHeadingsInResource *)

\* What is known of the elements of a list
LEMMA ElementsOf ==
    ASSUME NEW list \in Seq(HeadingElements)
    PROVE  /\ DOMAIN list = 1..Len(list) /\ Len(list) \in Nat
           /\ \A i \in DOMAIN list : list[i] \in HeadingElements
OBVIOUS

\* MaxSigilHeadingIDIndex is not below the id of any wanted heading.
LEMMA HighestIndex ==
    ASSUME NEW list \in Seq(HeadingElements)
    PROVE  /\ MaxSigilHeadingIDIndex(list) \in Nat
           /\ \A i \in WantedIn(list) : list[i].id <= MaxSigilHeadingIDIndex(list)
<1> DEFINE g == [i \in 1..Len(list) |-> list[i].id]
           S == {1} \cup {list[i].id : i \in WantedIn(list)}
<1>1. WantedIn(list) \subseteq 1..Len(list) /\ Len(list) \in Nat
  BY ElementsOf DEF WantedIn
<1>2. g \in [1..Len(list) -> Nat]
  BY ElementsOf DEF HeadingElements
<1>3. PICK b \in Nat : \A i \in 1..Len(list) : g[i] <= b
  BY <1>1, <1>2, ValuesAreBounded
<1>4. \A i \in WantedIn(list) : list[i].id \in 0..(b + 1)
  <2>1. ASSUME NEW i \in WantedIn(list) PROVE list[i].id \in Nat /\ list[i].id <= b
    BY <1>1, <1>2, <1>3
  <2>2. \A x \in Nat : x <= b => x \in 0..(b + 1)
    OBVIOUS
  <2> QED
    BY <2>1, <2>2
<1>5. S \in SUBSET (0..(b + 1)) /\ S # {}
  BY <1>4
<1> HIDE DEF S
<1>6. Max(S) \in S /\ \A s \in S : s <= Max(S)
  <2>1. b + 1 \in Nat
    OBVIOUS
  <2> QED
    BY <1>5, <2>1, MaxIsGreatest
<1>7. Max(S) \in Nat
  <2>1. Max(S) \in 0..(b + 1)
    BY <1>5, <1>6
  <2> QED
    BY <2>1
<1>8. \A i \in WantedIn(list) : list[i].id \in S
  BY DEF S
<1>9. MaxSigilHeadingIDIndex(list) = Max(S)
  BY DEF S, MaxSigilHeadingIDIndex
<1> QED
  BY <1>6, <1>7, <1>8, <1>9

\* The wanted headings that have no id
Nameless(list) == {i \in WantedIn(list) : list[i].id = NoId}

\* A heading that is wanted and has no id gets one that is above those of all
\* wanted headings and of the headings before it; the others stay as they are.
LEMMA GivenIDs ==
    ASSUME NEW list \in Seq(HeadingElements)
    PROVE  /\ GiveIDs(list) \in Seq(HeadingElements)
           /\ DOMAIN GiveIDs(list) = DOMAIN list
           /\ \A i \in DOMAIN list \ Nameless(list) : GiveIDs(list)[i] = list[i]
           /\ \A i \in Nameless(list) :
                 /\ GiveIDs(list)[i].name = list[i].name
                 /\ \A k \in WantedIn(list) : list[k].id < GiveIDs(list)[i].id
                 /\ \A k \in Nameless(list) : k < i => GiveIDs(list)[k].id < GiveIDs(list)[i].id
<1> DEFINE new == Nameless(list)
           m == MaxSigilHeadingIDIndex(list)
           count(i) == Cardinality(new \cap 1..i)
<1>1. /\ DOMAIN list = 1..Len(list) /\ Len(list) \in Nat
      /\ \A i \in DOMAIN list : list[i] \in HeadingElements
  BY ElementsOf
<1>2. new \in SUBSET (1..Len(list)) /\ WantedIn(list) \subseteq DOMAIN list
  BY <1>1 DEF Nameless, WantedIn
<1>3. m \in Nat /\ \A i \in WantedIn(list) : list[i].id <= m
  BY HighestIndex
<1>4. GiveIDs(list) = [i \in DOMAIN list |->
                          IF i \in new THEN [list[i] EXCEPT !.id = m + count(i)] ELSE list[i]]
  BY DEF GiveIDs, Nameless
<1>5. ASSUME NEW i \in new PROVE count(i) \in Nat /\ 0 < count(i)
  <2>1. 0 \in Nat /\ 0 < i /\ new \cap 1..0 = {}
    BY <1>1, <1>2
  <2>2. Cardinality(new \cap 1..0) < count(i) /\ count(i) \in Nat
    BY <1>1, <1>2, <2>1, CountsGrow
  <2> QED
    BY <2>1, <2>2, FS_EmptySet
<1>6. ASSUME NEW k \in new, NEW i \in new, k < i PROVE count(k) < count(i)
  <2>1. k \in Nat
    BY <1>1, <1>2
  <2> HIDE DEF new
  <2> QED
    BY <1>1, <1>2, <1>6, <2>1, CountsGrow
<1> HIDE DEF new, m, count
<1>7. ASSUME NEW i \in new
      PROVE  /\ GiveIDs(list)[i] \in HeadingElements
             /\ GiveIDs(list)[i].name = list[i].name
             /\ GiveIDs(list)[i].id = m + count(i)
  <2>1. PICK x \in Nat : x = m + count(i)
    BY <1>3, <1>5
  <2>2. GiveIDs(list)[i] = [list[i] EXCEPT !.id = x]
    BY <1>2, <1>1, <1>4, <2>1
  <2>3. list[i] \in HeadingElements
    BY <1>1, <1>2
  <2> QED
    BY <2>1, <2>2, <2>3 DEF HeadingElements
<1>8. ASSUME NEW i \in DOMAIN list PROVE GiveIDs(list)[i] \in HeadingElements
  BY <1>1, <1>4, <1>7
<1>9. GiveIDs(list) \in [1..Len(list) -> HeadingElements]
  BY <1>1, <1>4, <1>8
<1>10. GiveIDs(list) \in Seq(HeadingElements) /\ DOMAIN GiveIDs(list) = DOMAIN list
  BY <1>1, <1>9, FunctionIsASequence
<1>11. ASSUME NEW i \in new, NEW k \in WantedIn(list) PROVE list[k].id < GiveIDs(list)[i].id
  <2>1. list[k].id \in Nat /\ list[k].id <= m
    BY <1>1, <1>2, <1>3 DEF HeadingElements
  <2>2. m \in Nat /\ count(i) \in Nat /\ 0 < count(i) /\ GiveIDs(list)[i].id = m + count(i)
    BY <1>3, <1>5, <1>7
  <2> QED
    BY <2>1, <2>2
<1>12. ASSUME NEW k \in new, NEW i \in new, k < i PROVE GiveIDs(list)[k].id < GiveIDs(list)[i].id
  <2>1. count(k) \in Nat /\ count(i) \in Nat /\ count(k) < count(i)
    BY <1>5, <1>6, <1>12
  <2>2. m \in Nat /\ GiveIDs(list)[k].id = m + count(k) /\ GiveIDs(list)[i].id = m + count(i)
    BY <1>3, <1>7
  <2> QED
    BY <2>1, <2>2
<1>13. \A i \in DOMAIN list \ new : GiveIDs(list)[i] = list[i]
  BY <1>4
<1>14. \A i \in new : GiveIDs(list)[i].name = list[i].name
  BY <1>7
<1> QED
  BY <1>10, <1>11, <1>12, <1>13, <1>14 DEF new

-----------------------------------------------------------------------------
(* Lists of headings stay sound *)

LEMMA SoundStays ==
    ASSUME NEW f, NEW list, NEW names, NEW names2, NEW ids, NEW ids2,
           Sound(f, list, names, ids), names \subseteq names2, ids \subseteq ids2
    PROVE  Sound(f, list, names2, ids2)
BY DEF Sound, NamedOnce, IdsAreDistinct

LEMMA InsertKeepsSound ==
    ASSUME NEW f, NEW list, NEW names, NEW ids, NEW points, NEW h \in Headings \ names,
           Sound(f, list, names, ids), LinksAgree(f, list, points),
           \A p \in points : p.name \in names, NEW i \in 1..(Len(list) + 1)
    PROVE  LET longer == InsertAt(list, i, [name |-> h, id |-> NoId, wanted |-> TRUE])
           IN  Sound(f, longer, names \cup {h}, ids) /\ LinksAgree(f, longer, points)
<1> DEFINE e == [name |-> h, id |-> NoId, wanted |-> TRUE]
           longer == InsertAt(list, i, e)
           from(k) == IF k < i THEN k ELSE k - 1
<1>1. list \in Seq(HeadingElements) /\ e \in HeadingElements
  BY DEF Sound, HeadingElements, NoId
<1> HIDE DEF e
<1>2. longer \in Seq(HeadingElements) /\ DOMAIN longer = 1..(Len(list) + 1)
      /\ \A k \in 1..(Len(list) + 1) :
            longer[k] = IF k < i THEN list[k] ELSE IF k = i THEN e ELSE list[k - 1]
  BY <1>1, InsertAtType, InsertAtValues
<1> HIDE DEF longer
<1>3. longer[i] = e
  BY <1>2
<1>4. \A k \in DOMAIN longer \ {i} : from(k) \in DOMAIN list /\ longer[k] = list[from(k)]
  BY <1>1, <1>2
<1>5. \A k, l \in DOMAIN longer \ {i} : k # l => from(k) # from(l)
  BY <1>1, <1>2
<1>6. \A k \in DOMAIN list : list[k].name \in names
  BY DEF Sound, NamedOnce, Names
<1>7. \A k \in DOMAIN longer \ {i} : longer[k].name \in names
  BY <1>4, <1>6
<1>8. e.name = h /\ e.id = NoId /\ h \notin names
  BY DEF e
<1> HIDE DEF from
<1>9. NamedOnce(longer, names \cup {h})
  <2>1. Names(longer) \subseteq names \cup {h}
    BY <1>3, <1>7, <1>8 DEF Names
  <2>2. ASSUME NEW k \in DOMAIN longer, NEW l \in DOMAIN longer, longer[k].name = longer[l].name
        PROVE  k = l
    BY <1>3, <1>4, <1>5, <1>7, <1>8, <2>2 DEF Sound, NamedOnce
  <2> QED
    BY <2>1, <2>2 DEF NamedOnce
<1>10. IdsAreDistinct(f, longer, ids)
  <2> SUFFICES ASSUME NEW k \in DOMAIN longer, NEW l \in DOMAIN longer, k # l,
                      longer[k].id = longer[l].id, longer[k].id # NoId
               PROVE  <<f, longer[k].id>> \in ids
    BY DEF IdsAreDistinct
  <2>1. k # i /\ l # i
    BY <1>3, <1>8
  <2> QED
    BY <1>4, <1>5, <2>1 DEF Sound, IdsAreDistinct
<1>11. LinksAgree(f, longer, points)
  BY <1>3, <1>4, <1>8 DEF LinksAgree
<1> QED
  BY <1>2, <1>9, <1>10, <1>11 DEF Sound, longer, e

LEMMA RemoveKeepsSound ==
    ASSUME NEW f, NEW list, NEW names, NEW ids, NEW points,
           Sound(f, list, names, ids), LinksAgree(f, list, points), NEW i \in DOMAIN list
    PROVE  Sound(f, RemoveAt(list, i), names, ids) /\ LinksAgree(f, RemoveAt(list, i), points)
<1> DEFINE shorter == RemoveAt(list, i)
           from(k) == IF k < i THEN k ELSE k + 1
<1>1. list \in Seq(HeadingElements) /\ DOMAIN list = 1..Len(list) /\ Len(list) \in Nat
  BY DEF Sound
<1>2. shorter \in Seq(HeadingElements) /\ DOMAIN shorter = 1..(Len(list) - 1)
      /\ \A k \in 1..(Len(list) - 1) : shorter[k] = IF k < i THEN list[k] ELSE list[k + 1]
  BY <1>1, RemoveAtType, RemoveAtValues
<1> HIDE DEF shorter
<1>3. \A k \in DOMAIN shorter : from(k) \in DOMAIN list /\ shorter[k] = list[from(k)]
  BY <1>1, <1>2
<1>4. \A k, l \in DOMAIN shorter : k # l => from(k) # from(l)
  BY <1>1, <1>2
<1> HIDE DEF from
<1>5. NamedOnce(shorter, names)
  BY <1>3, <1>4 DEF Sound, NamedOnce, Names
<1>6. IdsAreDistinct(f, shorter, ids)
  BY <1>3, <1>4 DEF Sound, IdsAreDistinct
<1>7. LinksAgree(f, shorter, points)
  BY <1>3 DEF LinksAgree
<1> QED
  BY <1>2, <1>5, <1>6, <1>7 DEF Sound, shorter

\* A save makes no id ambiguous but those it reports as clashes, and changes no
\* id that a link uses.
LEMMA GiveIDsKeepsSound ==
    ASSUME NEW f, NEW list, NEW names, NEW ids, NEW points,
           Sound(f, list, names, ids), LinksAgree(f, list, points)
    PROVE  /\ Sound(f, GiveIDs(list), names, ids \cup {<<f, id>> : id \in Clashes(list)})
           /\ LinksAgree(f, GiveIDs(list), points)
<1> DEFINE given == GiveIDs(list)
           new == Nameless(list)
           more == ids \cup {<<f, id>> : id \in Clashes(list)}
<1>1. list \in Seq(HeadingElements)
  BY DEF Sound
<1>2. /\ given \in Seq(HeadingElements)
      /\ DOMAIN given = DOMAIN list
      /\ \A i \in DOMAIN list \ new : given[i] = list[i]
      /\ \A i \in new :
            /\ given[i].name = list[i].name
            /\ \A k \in WantedIn(list) : list[k].id < given[i].id
            /\ \A k \in new : k < i => given[k].id < given[i].id
  BY <1>1, GivenIDs
<1>3. DOMAIN list = 1..Len(list) /\ Len(list) \in Nat
      /\ \A i \in DOMAIN list : list[i] \in HeadingElements /\ given[i] \in HeadingElements
  BY <1>1, <1>2, ElementsOf
<1>4. new \subseteq WantedIn(list) /\ WantedIn(list) \subseteq DOMAIN list
      /\ \A i \in new : list[i].id = NoId
  BY DEF Nameless, WantedIn
<1>5. Clashes(list) = {given[i].id : i \in new} \cap {list[i].id : i \in DOMAIN list \ WantedIn(list)}
  BY DEF Clashes, Nameless
<1> HIDE DEF given, new
<1>6. \A i \in DOMAIN list : given[i].name = list[i].name
  BY <1>2
<1>7. NamedOnce(given, names)
  BY <1>2, <1>6 DEF Sound, NamedOnce, Names
\* one of two with the same id is new: the other one is not wanted
<1>8. ASSUME NEW i \in new, NEW j \in DOMAIN list, i # j, given[i].id = given[j].id
      PROVE  <<f, given[i].id>> \in more
  <2>1. j \notin new
    <3>1. given[i].id \in Nat /\ given[j].id \in Nat /\ i \in Nat /\ j \in Nat
      BY <1>3, <1>4 DEF HeadingElements
    <3>2. i < j \/ j < i
      BY <1>8, <3>1
    <3> QED
      BY <1>2, <1>8, <3>1, <3>2
  <2>2. given[j] = list[j]
    BY <1>2, <2>1
  <2>3. j \notin WantedIn(list)
    <3>1. ASSUME j \in WantedIn(list) PROVE FALSE
      <4>1. list[j].id < given[i].id /\ given[i].id \in Nat /\ list[j].id \in Nat
        BY <1>2, <1>3, <1>4, <3>1 DEF HeadingElements
      <4> QED
        BY <1>8, <2>2, <4>1
    <3> QED
      BY <3>1
  <2> QED
    BY <1>5, <1>8, <2>2, <2>3
<1>9. IdsAreDistinct(f, given, more)
  <2> SUFFICES ASSUME NEW i \in DOMAIN list, NEW j \in DOMAIN list, i # j,
                      given[i].id = given[j].id, given[i].id # NoId
               PROVE  <<f, given[i].id>> \in more
    BY <1>2 DEF IdsAreDistinct
  <2>1. CASE i \in new
    BY <1>8, <2>1
  <2>2. CASE j \in new
    BY <1>8, <2>2
  <2>3. CASE i \notin new /\ j \notin new
    BY <1>2, <2>3 DEF Sound, IdsAreDistinct
  <2> QED
    BY <2>1, <2>2, <2>3
<1>10. LinksAgree(f, given, points)
  <2> SUFFICES ASSUME NEW p \in points, NEW i \in DOMAIN list,
                      p.file = f, p.id > NoId, given[i].name = p.name
               PROVE  given[i].id = p.id
    BY <1>2 DEF LinksAgree
  <2>1. list[i].id = p.id
    BY <1>6 DEF LinksAgree
  <2>2. i \notin new
    BY <1>4, <2>1 DEF NoId
  <2> QED
    BY <1>2, <2>1, <2>2
<1> QED
  BY <1>2, <1>7, <1>9, <1>10 DEF Sound, given

\* The dialog changes neither names nor ids.
LEMMA MarkingKeepsSound ==
    ASSUME NEW f, NEW list, NEW names, NEW ids, NEW unwanted, Sound(f, list, names, ids)
    PROVE  Sound(f, UpdateHeadingElements(list, unwanted), names, ids)
<1> DEFINE marked == UpdateHeadingElements(list, unwanted)
<1>1. DOMAIN list = 1..Len(list) /\ Len(list) \in Nat
      /\ \A i \in DOMAIN list : list[i] \in HeadingElements
  BY ElementsOf DEF Sound
<1>2. DOMAIN marked = DOMAIN list
      /\ \A i \in DOMAIN list : marked[i] = [list[i] EXCEPT !.wanted = list[i].name \notin unwanted]
  BY DEF UpdateHeadingElements
<1>3. marked = [i \in 1..Len(list) |-> marked[i]]
  BY <1>1 DEF UpdateHeadingElements
<1> HIDE DEF marked
<1>4. \A i \in DOMAIN list : marked[i] \in HeadingElements
         /\ marked[i].name = list[i].name /\ marked[i].id = list[i].id
  BY <1>1, <1>2 DEF HeadingElements
<1>5. marked \in [1..Len(list) -> HeadingElements]
  BY <1>1, <1>3, <1>4
<1>6. marked \in Seq(HeadingElements)
  BY <1>1, <1>5, FunctionIsASequence
<1>7. NamedOnce(marked, names)
  BY <1>2, <1>4 DEF Sound, NamedOnce, Names
<1>8. IdsAreDistinct(f, marked, ids)
  BY <1>2, <1>4 DEF Sound, IdsAreDistinct
<1> QED
  BY <1>6, <1>7, <1>8 DEF Sound, marked

-----------------------------------------------------------------------------
(* The invariant *)

\* What SaveTabContent of all tabs leaves in the DOMs.
LEMMA SavedIsSound ==
    ASSUME IInv, NEW f \in Files
    PROVE  Sound(f, Saved[f], written, shared) /\ LinksAgree(f, Saved[f], ncx)
<1>1. FileIsSound(f) /\ dom \in [Files -> Seq(HeadingElements)]
  BY DEF IInv, TypeInv
<1>2. CASE edited /\ f = current
  <2>1. Saved[f] = view[f] /\ Shown(f) = view[f]
    BY <1>1, <1>2 DEF Saved, Shown, IInv
  <2> QED
    BY <1>1, <2>1 DEF FileIsSound
<1>3. CASE ~(edited /\ f = current)
  <2>1. Saved[f] = dom[f]
    BY <1>1, <1>3 DEF Saved
  <2> QED
    BY <1>1, <2>1 DEF FileIsSound
<1> QED
  BY <1>2, <1>3

\* What EditView keeps: the other files, and the current one if the list that
\* it shows from now on is a sound one.
LEMMA EditViewStep ==
    ASSUME IInv, NEW list, EditView(list), written \subseteq written', written' \subseteq Headings,
           Sound(current, list, written', shared), LinksAgree(current, list, ncx)
    PROVE  IInv'
<1>1. TypeInv'
  BY DEF EditView, IInv, TypeInv, Sound
<1>2. edited' => current' \notin old'
  BY DEF EditView
<1>3. \A p \in ncx' : p.name \in written'
  BY DEF EditView, IInv
<1>4. ASSUME NEW f \in Files PROVE FileIsSound(f)'
  <2>1. dom' = dom /\ ncx' = ncx /\ shared' = shared
    BY DEF EditView
  <2>2. FileIsSound(f) /\ view \in [Files -> Seq(HeadingElements)]
    BY DEF IInv, TypeInv
  <2>3. CASE f = current
    <3>1. view'[f] = list /\ Shown(f)' = list
      BY <2>2, <2>3 DEF EditView, Shown
    <3> QED
      BY <2>1, <2>2, <2>3, <3>1, SoundStays DEF FileIsSound
  <2>4. CASE f # current
    <3>1. view'[f] = view[f] /\ Shown(f)' = Shown(f)
      BY <2>2, <2>4 DEF EditView, Shown
    <3> QED
      BY <2>1, <2>2, <3>1, SoundStays DEF FileIsSound
  <2> QED
    BY <2>3, <2>4
<1> QED
  BY <1>1, <1>2, <1>3, <1>4 DEF IInv

\* What is shown of the current file is sound.
LEMMA ShownIsSound ==
    ASSUME IInv, NEW f \in Files
    PROVE  Sound(f, Shown(f), written, shared) /\ LinksAgree(f, Shown(f), ncx)
BY DEF IInv, FileIsSound, Shown

LEMMA EditStep ==
    ASSUME IInv, \/ \E h \in Headings, i \in 1 .. Cardinality(Headings) : WriteHeading(h, i)
                 \/ \E i \in 1 .. Cardinality(Headings) : DeleteHeading(i)
    PROVE  IInv'
<1>0. current \in Files /\ written \subseteq Headings
  BY DEF IInv, TypeInv
<1>1. Sound(current, Shown(current), written, shared) /\ LinksAgree(current, Shown(current), ncx)
  BY <1>0, ShownIsSound
<1>2. ASSUME NEW h \in Headings, NEW i, WriteHeading(h, i) PROVE IInv'
  <2> DEFINE longer == InsertAt(Shown(current), i, [name |-> h, id |-> NoId, wanted |-> TRUE])
  <2>1. h \in Headings \ written /\ i \in 1..(Len(Shown(current)) + 1)
        /\ EditView(longer) /\ written' = written \cup {h}
    BY <1>2 DEF WriteHeading
  <2>2. \A p \in ncx : p.name \in written
    BY DEF IInv
  <2>3. Sound(current, longer, written \cup {h}, shared) /\ LinksAgree(current, longer, ncx)
    BY <1>1, <2>1, <2>2, InsertKeepsSound
  <2> HIDE DEF longer
  <2> QED
    BY <1>0, <2>1, <2>3, EditViewStep
<1>3. ASSUME NEW i, DeleteHeading(i) PROVE IInv'
  <2>1. i \in DOMAIN Shown(current) /\ EditView(RemoveAt(Shown(current), i)) /\ written' = written
    BY <1>3 DEF DeleteHeading
  <2>2. Sound(current, RemoveAt(Shown(current), i), written, shared)
        /\ LinksAgree(current, RemoveAt(Shown(current), i), ncx)
    BY <1>1, <2>1, RemoveKeepsSound
  <2> QED
    BY <1>0, <2>1, <2>2, EditViewStep
<1> QED
  BY <1>2, <1>3

LEMMA SwitchStep == ASSUME IInv, NEW f \in Files, SwitchTo(f) PROVE IInv'
<1>0. TypeInv
  BY DEF IInv
<1>1. /\ dom' = Saved /\ view' = [view EXCEPT ![f] = Shown(f)] /\ old' = old \ {f}
      /\ edited' = FALSE /\ current' = f /\ f # current
      /\ UNCHANGED <<ncx, written, shared>>
  BY DEF SwitchTo
<1>2. \A g \in Files : Sound(g, Saved[g], written, shared) /\ LinksAgree(g, Saved[g], ncx)
  BY SavedIsSound
<1>3. \A g \in Files : Sound(g, Shown(g), written, shared) /\ LinksAgree(g, Shown(g), ncx)
  BY ShownIsSound
<1>4. Saved \in [Files -> Seq(HeadingElements)]
  BY <1>0 DEF TypeInv, Saved
<1>5. TypeInv'
  BY <1>0, <1>1, <1>3, <1>4 DEF TypeInv, Sound
<1>6. ASSUME NEW g \in Files PROVE FileIsSound(g)'
  <2>1. Sound(g, view[g], written, shared)
    BY DEF IInv, FileIsSound
  <2>2. view'[g] = (IF g = f THEN Shown(f) ELSE view[g])
    BY <1>0, <1>1 DEF TypeInv
  <2>3. Shown(g)' = Shown(g) \/ Shown(g)' = Saved[g]
    BY <1>1, <2>2 DEF Shown
  <2> QED
    BY <1>1, <1>2, <1>3, <2>1, <2>2, <2>3 DEF FileIsSound
<1> QED
  BY <1>1, <1>5, <1>6 DEF IInv

LEMMA SaveStep == ASSUME IInv, SaveFile PROVE IInv'
<1>0. TypeInv
  BY DEF IInv
<1>1. /\ dom' = [f \in Files |-> GiveIDs(Saved[f])] /\ edited' = FALSE
      /\ shared' = shared \cup UNION {{<<f, id>> : id \in Clashes(Saved[f])} : f \in Files}
      /\ UNCHANGED <<view, old, current, ncx, written>>
  BY DEF SaveFile
<1>2. ASSUME NEW f \in Files
      PROVE  Sound(f, dom'[f], written', shared') /\ LinksAgree(f, dom'[f], ncx')
  <2> DEFINE ids == shared \cup {<<f, id>> : id \in Clashes(Saved[f])}
  <2>1. Sound(f, GiveIDs(Saved[f]), written, ids) /\ LinksAgree(f, GiveIDs(Saved[f]), ncx)
    BY SavedIsSound, GiveIDsKeepsSound
  <2>2. ids \subseteq shared'
    BY <1>1
  <2> HIDE DEF ids
  <2> QED
    BY <1>1, <2>1, <2>2, SoundStays
<1>3. TypeInv'
  <2>1. dom' \in [Files -> Seq(HeadingElements)]
    BY <1>1, <1>2 DEF Sound
  <2> QED
    BY <1>0, <1>1, <2>1 DEF TypeInv
<1>4. ASSUME NEW f \in Files PROVE FileIsSound(f)'
  <2>1. FileIsSound(f) /\ shared \subseteq shared'
    BY <1>1 DEF IInv
  <2>2. Sound(f, view'[f], written', shared')
    BY <1>1, <2>1, SoundStays DEF FileIsSound
  <2>3. Shown(f)' = dom'[f] \/ (Shown(f)' = view[f] /\ Shown(f) = view[f])
    BY <1>1 DEF Shown
  <2> QED
    BY <1>1, <1>2, <2>1, <2>2, <2>3 DEF FileIsSound
<1> QED
  BY <1>1, <1>3, <1>4 DEF IInv

LEMMA GenerateStep ==
    ASSUME IInv, NEW unwanted, NEW near, GenerateTocFromHeadings(unwanted, near) PROVE IInv'
<1> DEFINE marked == [f \in Files |-> UpdateHeadingElements(Saved[f], unwanted)]
<1>0. TypeInv
  BY DEF IInv
<1>1. /\ dom' = marked /\ edited' = FALSE
      /\ old' = old \cup {f \in Files : marked[f] # <<>>}
      /\ ncx' = UNION {{NavPoint(f, marked[f], i, f \in near) : i \in WantedIn(marked[f])} : f \in Files}
      /\ UNCHANGED <<view, current, written, shared>>
  BY DEF GenerateTocFromHeadings
<1>2. \A f \in Files : Sound(f, marked[f], written, shared)
  BY SavedIsSound, MarkingKeepsSound
<1>3. marked \in [Files -> Seq(HeadingElements)]
  BY <1>2 DEF Sound
<1> HIDE DEF marked
<1>4. ASSUME NEW p \in ncx'
      PROVE  \E i \in DOMAIN marked[p.file] :
                /\ p.file \in Files
                /\ p.name = marked[p.file][i].name
                /\ p.id \in {AtStart, marked[p.file][i].id}
                /\ p = [name |-> p.name, file |-> p.file, id |-> p.id]
  <2> PICK f \in Files : p \in {NavPoint(f, marked[f], i, f \in near) : i \in WantedIn(marked[f])}
    BY <1>1, <1>4
  <2>1. PICK i \in WantedIn(marked[f]) : p = NavPoint(f, marked[f], i, f \in near)
    OBVIOUS
  <2>2. i \in DOMAIN marked[f]
    BY DEF WantedIn
  <2> QED
    BY <2>1, <2>2 DEF NavPoint
<1>5. ncx' \subseteq NavPoints /\ \A p \in ncx' : p.name \in written
  <2> SUFFICES ASSUME NEW p \in ncx' PROVE p \in NavPoints /\ p.name \in written
    OBVIOUS
  <2>1. PICK i \in DOMAIN marked[p.file] :
           /\ p.file \in Files
           /\ p.name = marked[p.file][i].name
           /\ p.id \in {AtStart, marked[p.file][i].id}
           /\ p = [name |-> p.name, file |-> p.file, id |-> p.id]
    BY <1>4
  <2>2. marked[p.file][i] \in HeadingElements
    BY <1>3, <2>1, ElementsOf
  <2>3. p.name \in written
    BY <1>2, <2>1 DEF Sound, NamedOnce, Names
  <2> QED
    BY <2>1, <2>2, <2>3 DEF NavPoints, HeadingElements
<1>6. ASSUME NEW f \in Files PROVE LinksAgree(f, marked[f], ncx')
  <2> SUFFICES ASSUME NEW p \in ncx', NEW i \in DOMAIN marked[f],
                      p.file = f, p.id > NoId, marked[f][i].name = p.name
               PROVE  marked[f][i].id = p.id
    BY DEF LinksAgree
  <2>1. PICK k \in DOMAIN marked[f] : p.name = marked[f][k].name /\ p.id \in {AtStart, marked[f][k].id}
    BY <1>4
  <2>2. k = i
    BY <1>2, <2>1 DEF Sound, NamedOnce
  <2>3. p.id # AtStart
    BY DEF AtStart, NoId
  <2> QED
    BY <2>1, <2>2, <2>3
<1>7. TypeInv'
  BY <1>0, <1>1, <1>3, <1>5 DEF TypeInv
<1>8. ASSUME NEW f \in Files PROVE FileIsSound(f)'
  <2>1. Sound(f, view[f], written, shared)
    BY DEF IInv, FileIsSound
  <2>2. CASE Shown(f)' = marked[f]
    BY <1>1, <1>2, <1>6, <2>1, <2>2 DEF FileIsSound
  <2>3. CASE Shown(f)' # marked[f]
    <3>1. marked[f] = <<>> /\ Shown(f)' = view[f]
      BY <1>1, <2>3 DEF Shown
    <3>2. \A p \in ncx' : p.file # f
      BY <1>4, <3>1
    <3>3. LinksAgree(f, view[f], ncx')
      BY <3>2 DEF LinksAgree
    <3> QED
      BY <1>1, <1>2, <1>6, <2>1, <3>1, <3>3 DEF FileIsSound
  <2> QED
    BY <2>2, <2>3
<1> QED
  BY <1>1, <1>5, <1>7, <1>8 DEF IInv

LEMMA InitIInv == Init => IInv
<1> SUFFICES ASSUME Init PROVE IInv
    OBVIOUS
<1>1. TypeInv
  <2>1. <<>> \in Seq(HeadingElements)
    OBVIOUS
  <2> QED
    BY <2>1 DEF Init, TypeInv
<1>2. ASSUME NEW f \in Files PROVE FileIsSound(f)
  <2>1. dom[f] = <<>> /\ view[f] = <<>> /\ Shown(f) = <<>> /\ ncx = {}
    BY DEF Init, Shown
  <2>2. Sound(f, <<>>, written, shared)
    BY DEF Sound, NamedOnce, Names, IdsAreDistinct
  <2>3. LinksAgree(f, <<>>, {})
    BY DEF LinksAgree
  <2> QED
    BY <2>1, <2>2, <2>3 DEF FileIsSound
<1> QED
  BY <1>1, <1>2 DEF Init, IInv

LEMMA InvStep == IInv /\ [Next]_vars => IInv'
<1> SUFFICES ASSUME IInv, [Next]_vars PROVE IInv'
    OBVIOUS
<1>1. CASE UNCHANGED vars
  BY <1>1 DEF vars, IInv, TypeInv, FileIsSound, Shown
<1> QED
  BY <1>1, EditStep, SwitchStep, SaveStep, GenerateStep DEF Next

LEMMA InvHolds == Spec => []IInv
<1>1. Init => IInv
  BY InitIInv
<1>2. IInv /\ [Next]_vars => IInv'
  BY InvStep
<1> QED
  BY <1>1, <1>2, PTL DEF Spec

-----------------------------------------------------------------------------
(* The theorems *)

\* GiveIDsToHeadings never gives an id that a wanted heading of the file has,
\* nor one twice: two headings share an id only if a save saw one of them as unwanted.
THEOREM IdsAreUnique == Spec => []IdsClashOnlyWithUnwanted
<1>1. IInv => IdsClashOnlyWithUnwanted
  <2> SUFFICES ASSUME IInv, NEW f \in Files PROVE IdsAreDistinct(f, dom[f], shared)
    BY DEF IdsClashOnlyWithUnwanted, IdsAreDistinct
  <2> QED
    BY DEF IInv, FileIsSound, Sound
<1> QED
  BY <1>1, InvHolds, PTL

\* What GenerateNCXFromBookContents wrote stays right: a link leads to its
\* heading through any edits, saves and switches of tabs, until the heading is
\* deleted or its id is given to another one beside it.
THEOREM LinksLeadToHeadings == Spec => []NavPointsLeadToTheirHeading
<1>1. IInv => NavPointsLeadToTheirHeading
  <2> SUFFICES ASSUME IInv, NEW p \in ncx, p.id > NoId, p.name \in Names(dom[p.file]),
                      <<p.file, p.id>> \notin shared
               PROVE  LET list == dom[p.file]
                          with == {i \in DOMAIN list : list[i].id = p.id}
                      IN  with # {} /\ list[Min(with)].name = p.name
    BY DEF NavPointsLeadToTheirHeading
  <2> DEFINE list == dom[p.file]
             with == {i \in DOMAIN list : list[i].id = p.id}
  <2>1. p.file \in Files
    BY DEF IInv, TypeInv, NavPoints
  <2>2. Sound(p.file, list, written, shared) /\ LinksAgree(p.file, list, ncx)
    BY <2>1 DEF IInv, FileIsSound
  <2>3. PICK k \in DOMAIN list : list[k].name = p.name
    BY DEF Names
  <2>4. list[k].id = p.id
    BY <2>2, <2>3 DEF LinksAgree
  <2>5. \A i \in DOMAIN list : list[i].id = p.id => i = k
    <3>1. p.id # NoId
      BY DEF NoId
    <3> QED
      BY <2>2, <2>4, <3>1 DEF Sound, IdsAreDistinct
  <2>6. with = {k} /\ k \in Nat
    <3>1. DOMAIN list = 1..Len(list) /\ Len(list) \in Nat
      BY <2>2 DEF Sound
    <3> QED
      BY <2>4, <2>5, <3>1
  <2>7. Min({k}) = k
    <3>1. {k} \in SUBSET Nat /\ {k} # {}
      BY <2>6
    <3> QED
      BY <3>1, MinIsLeast
  <2> QED
    BY <2>3, <2>6, <2>7
<1> QED
  BY <1>1, InvHolds, PTL

-----------------------------------------------------------------------------
(* The pane that shows the NCX, for all books and any number of changes *)

LEMMA PaneInitTypes == PaneInit => PaneTypeInv
<1> SUFFICES ASSUME PaneInit PROVE PaneTypeInv
    OBVIOUS
<1>1. m_Book \in Books /\ 0 \in 0..MaxEdits
  BY EditsAssumption DEF PaneInit
<1>2. text = [book |-> m_Book, edit |-> 0, entries |-> TRUE]
  BY DEF PaneInit
<1>3. text \in Texts /\ text.book = m_Book
  BY <1>1, <1>2 DEF Texts
<1>4. pane = [text EXCEPT !.entries = FALSE] /\ result = pane
  BY DEF PaneInit
<1>5. pane \in Texts
  BY <1>3, <1>4 DEF Texts
<1>6. opened \subseteq Books /\ edits \in 0..MaxEdits
  BY <1>1 DEF PaneInit
<1> QED
  BY <1>1, <1>3, <1>4, <1>5, <1>6 DEF PaneInit, PaneTypeInv

LEMMA PaneRefreshTypes ==
    ASSUME PaneTypeInv, Refresh
    PROVE  /\ m_RefreshInProgress' \in BOOLEAN /\ refused' \in BOOLEAN
           /\ job' \in {"none", "queued", "finished"}
           /\ m_RefreshInProgress' <=> job' # "none"
BY DEF PaneTypeInv, Refresh

LEMMA PaneTypeStep == PaneTypeInv /\ [PaneNext]_pane_vars => PaneTypeInv'
<1> SUFFICES ASSUME PaneTypeInv, [PaneNext]_pane_vars PROVE PaneTypeInv'
    OBVIOUS
<1>1. ASSUME NEW entries \in BOOLEAN, ChangeNCX(entries) PROVE PaneTypeInv'
  <2>1. edits' \in 0..MaxEdits /\ text' \in Texts /\ text'.book = m_Book
    BY <1>1, EditsAssumption DEF ChangeNCX, PaneTypeInv, Texts
  <2> QED
    BY <1>1, <2>1 DEF ChangeNCX, PaneTypeInv
<1>2. ASSUME NEW new \in Books, NEW entries \in BOOLEAN, SetBook(new, entries) PROVE PaneTypeInv'
  <2>1. text' \in Texts /\ text'.book = new
    BY <1>2 DEF SetBook, PaneTypeInv, Texts
  <2> QED
    BY <1>2, <2>1, PaneRefreshTypes DEF SetBook, PaneTypeInv
<1>3. CASE Timeout
  BY <1>3, PaneRefreshTypes DEF Timeout, PaneTypeInv, user_vars
<1>4. CASE GetRootNCXEntry
  BY <1>4 DEF GetRootNCXEntry, PaneTypeInv, user_vars
<1>5. CASE RefreshEnd
  BY <1>5 DEF RefreshEnd, PaneTypeInv, user_vars
<1>6. CASE UNCHANGED pane_vars
  BY <1>6 DEF PaneTypeInv, pane_vars
<1> QED
  BY <1>1, <1>2, <1>3, <1>4, <1>5, <1>6 DEF PaneNext

\* The strengthening.  A result that is out of date could replace a pane that is
\* not; then the timer runs or the last call of Refresh was refused.
OldResultIsKnown == job = "finished" /\ result # text => m_RefreshTimer \/ refused

PaneInv == PaneTypeInv /\ OldResultIsKnown /\ StalePaneWillBeRefreshed

LEMMA PaneStaleStep == PaneInv /\ [PaneNext]_pane_vars => (OldResultIsKnown /\ StalePaneWillBeRefreshed)'
<1> SUFFICES ASSUME PaneTypeInv, OldResultIsKnown, StalePaneWillBeRefreshed, [PaneNext]_pane_vars
             PROVE  (OldResultIsKnown /\ StalePaneWillBeRefreshed)'
    BY DEF PaneInv
<1> USE DEF StalePaneWillBeRefreshed, OldResultIsKnown
<1>0. Refresh => job' = "queued" \/ refused' \/ (job = "queued" /\ job' = "queued")
  BY DEF Refresh, PaneTypeInv
<1>1. ASSUME NEW entries \in BOOLEAN, ChangeNCX(entries) 
      PROVE  (OldResultIsKnown /\ StalePaneWillBeRefreshed)'
  BY <1>1 DEF ChangeNCX
<1>2. ASSUME NEW new \in Books, NEW entries \in BOOLEAN, SetBook(new, entries)
      PROVE  (OldResultIsKnown /\ StalePaneWillBeRefreshed)'
  BY <1>0, <1>2 DEF SetBook
<1>3. CASE Timeout
  BY <1>0, <1>3 DEF Timeout
<1>4. CASE GetRootNCXEntry
  BY <1>4 DEF GetRootNCXEntry, user_vars
<1>5. CASE RefreshEnd
  BY <1>5 DEF RefreshEnd, user_vars
<1>6. CASE UNCHANGED pane_vars
  BY <1>6 DEF pane_vars
<1> QED
  BY <1>1, <1>2, <1>3, <1>4, <1>5, <1>6 DEF PaneNext

\* The variables keep their types, and m_RefreshInProgress says whether there is a future.
THEOREM PaneTypesHold == PaneSpec => []PaneTypeInv
<1> QED
  BY PaneInitTypes, PaneTypeStep, PTL DEF PaneSpec

\* A pane that is out of date is about to be refreshed, or its refresh was
\* refused after the pool thread had read the NCX.
THEOREM StaleIsTemporary == PaneSpec => []StalePaneWillBeRefreshed
<1>1. PaneInit => PaneInv
  BY PaneInitTypes DEF PaneInit, PaneInv, OldResultIsKnown, StalePaneWillBeRefreshed
<1>2. PaneInv /\ [PaneNext]_pane_vars => PaneInv'
  BY PaneTypeStep, PaneStaleStep DEF PaneInv
<1>3. PaneInv => StalePaneWillBeRefreshed
  BY DEF PaneInv
<1> QED
  BY <1>1, <1>2, <1>3, PTL DEF PaneSpec

-----------------------------------------------------------------------------
(* Outlines of levels: L[i] is the level of node i and D[i] its depth *)

\* Node p is the nearest bigger one before node i.
Nearest(L, p, i) == L[p] < L[i] /\ \A k \in p + 1 .. i - 1 : L[k] >= L[i]

\* Node i is inside of the nearest bigger one before it.
IsPlaced(L, D, i) ==
    \/ D[i] = 0 /\ \A j \in 1 .. i - 1 : L[j] >= L[i]
    \/ \E p \in 1 .. i - 1 : Nearest(L, p, i) /\ D[i] = D[p] + 1

IsOutline(n, L, D) == \A i \in 1 .. n : IsPlaced(L, D, i)

\* A nearest bigger node can be found if there is any.
LEMMA NearestExists ==
    ASSUME NEW n \in Nat, NEW L \in [1 .. n -> Int], NEW m \in 0 .. n, NEW c \in Int,
           NEW j \in 1 .. m, L[j] < c
    PROVE  \E p \in 1 .. m : L[p] < c /\ \A k \in p + 1 .. m : L[k] >= c
<1> DEFINE S == {i \in 1 .. m : L[i] < c}
<1>1. S \subseteq 0 .. m /\ j \in S /\ m \in Nat
  OBVIOUS
<1>2. Max(S) \in S /\ \A s \in S : s <= Max(S)
  <2> HIDE DEF S
  <2>1. S \in SUBSET (0 .. m) /\ S # {}
    BY <1>1
  <2> QED
    BY <1>1, <2>1, MaxIsGreatest
<1> DEFINE p == Max(S)
<1> HIDE DEF p
<1>3. p \in 1 .. m /\ L[p] < c
  BY <1>2 DEF p
<1>4. ASSUME NEW k \in p + 1 .. m PROVE L[k] >= c
  <2>1. k \in 1 .. m /\ ~(k <= p)
    BY <1>3
  <2>2. k \notin S
    BY <1>2, <2>1 DEF p
  <2> QED
    BY <2>1, <2>2
<1> QED
  BY <1>3, <1>4

\* What is less big than node m, up to the next node that is not, is inside of it.
LEMMA SmallerIsDeeper ==
    ASSUME NEW n \in Nat, NEW L \in [1 .. n -> Int], NEW D \in [1 .. n -> Nat],
           IsOutline(n, L, D), NEW m \in 1 .. n, NEW j \in m + 1 .. n,
           \A k \in m + 1 .. j : L[k] > L[m]
    PROVE  D[j] > D[m]
<1> DEFINE S == {k \in 0 .. n : k \in m + 1 .. j => D[k] > D[m] /\ \A i \in m + 1 .. k : D[i] > D[m]}
<1>1. 0 \in S
  OBVIOUS
<1>2. ASSUME NEW k \in 1 .. n, k - 1 \in S PROVE k \in S
  <2>1. CASE k \notin m + 1 .. j
    BY <2>1
  <2>2. CASE k \in m + 1 .. j
    <3>1. L[k] > L[m]
      BY <2>2
    <3>2. \A i \in m + 1 .. k - 1 : D[i] > D[m]
      <4>1. CASE k = m + 1
        BY <4>1
      <4>2. CASE k # m + 1
        <5>1. k - 1 \in m + 1 .. j
          BY <2>2, <4>2
        <5> QED
          BY <1>2, <5>1
      <4> QED
        BY <4>1, <4>2
    <3>3. PICK p \in 1 .. k - 1 : Nearest(L, p, k) /\ D[k] = D[p] + 1
      <4>1. m \in 1 .. k - 1 /\ ~(L[m] >= L[k])
        BY <2>2, <3>1
      <4> QED
        BY <4>1 DEF IsOutline, IsPlaced
    <3>4. p >= m
      <4>1. m \in p + 1 .. k - 1 => L[m] >= L[k]
        BY <3>3 DEF Nearest
      <4>2. m \in 1 .. k - 1 /\ ~(L[m] >= L[k])
        BY <2>2, <3>1
      <4> QED
        BY <4>1, <4>2
    <3>5. D[p] >= D[m]
      <4>1. CASE p = m
        BY <4>1
      <4>2. CASE p # m
        <5>1. p \in m + 1 .. k - 1 /\ p \in 1 .. n
          BY <2>2, <3>4, <4>2
        <5> QED
          BY <3>2, <5>1
      <4> QED
        BY <4>1, <4>2
    <3>6. D[k] > D[m]
      <4>1. p \in 1 .. n
        OBVIOUS
      <4> QED
        BY <3>3, <3>5, <4>1
    <3>7. \A i \in m + 1 .. k : D[i] > D[m]
      BY <3>2, <3>6
    <3> QED
      BY <3>6, <3>7
  <2> QED
    BY <2>1, <2>2
<1>3. \A k \in 0 .. n : k \in S
  <2> HIDE DEF S
  <2> QED
    BY <1>1, <1>2, AllPositions
<1> QED
  BY <1>3

\* The first node after m that is not less big is not inside of it.
LEMMA BiggerIsOutside ==
    ASSUME NEW n \in Nat, NEW L \in [1 .. n -> Int], NEW D \in [1 .. n -> Nat],
           IsOutline(n, L, D), NEW m \in 1 .. n, NEW j \in m + 1 .. n, L[j] <= L[m],
           \A k \in m + 1 .. j - 1 : L[k] > L[m]
    PROVE  D[j] <= D[m]
<1>1. CASE D[j] = 0
  BY <1>1
<1>2. ASSUME NEW p \in 1 .. j - 1, Nearest(L, p, j), D[j] = D[p] + 1 PROVE D[j] <= D[m]
  <2>1. L[p] < L[j] /\ \A k \in p + 1 .. j - 1 : L[k] >= L[j]
    BY <1>2 DEF Nearest
  <2>2. p < m
    <3>1. p \in 1 .. n /\ L[p] < L[m]
      BY <2>1
    <3>2. p # m /\ p \notin m + 1 .. j - 1
      BY <3>1
    <3> QED
      BY <3>1, <3>2
  <2>3. ASSUME NEW k \in p + 1 .. m PROVE L[k] > L[p]
    <3>1. k \in p + 1 .. j - 1 /\ k \in 1 .. n
      BY <2>2
    <3> DEFINE u == L[k]
               v == L[p]
               w == L[j]
    <3>2. u \in Int /\ v \in Int /\ w \in Int
      BY <3>1
    <3>3. u >= w /\ v < w
      BY <2>1, <3>1
    <3> HIDE DEF u, v, w
    <3>4. u > v
      BY <3>2, <3>3
    <3> QED
      BY <3>4 DEF u, v
  <2>4. D[m] > D[p]
    <3>1. p \in 1 .. n /\ m \in p + 1 .. n
      BY <2>2
    <3> QED
      BY <2>3, <3>1, SmallerIsDeeper
  <2>5. p \in 1 .. n
    OBVIOUS
  <2> QED
    BY <1>2, <2>4, <2>5
<1> QED
  BY <1>1, <1>2 DEF IsOutline, IsPlaced

\* What is inside of a node by its depth is inside of it by its level.
LEMMA DeeperIsSmaller ==
    ASSUME NEW n \in Nat, NEW L \in [1 .. n -> Int], NEW D \in [1 .. n -> Nat],
           IsOutline(n, L, D), NEW m \in 1 .. n, NEW j \in m .. n
    PROVE  (\A k \in m + 1 .. j : D[k] > D[m]) <=> (\A k \in m + 1 .. j : L[k] > L[m])
<1>1. ASSUME \A k \in m + 1 .. j : L[k] > L[m], NEW k \in m + 1 .. j PROVE D[k] > D[m]
  <2>1. k \in m + 1 .. n /\ \A i \in m + 1 .. k : L[i] > L[m]
    BY <1>1
  <2> QED
    BY <2>1, SmallerIsDeeper
<1>2. ASSUME \A k \in m + 1 .. j : D[k] > D[m], NEW b \in m + 1 .. j, ~(L[b] > L[m]) PROVE FALSE
  <2> DEFINE S == {k \in m + 1 .. j : ~(L[k] > L[m])}
  <2>1. S \subseteq Nat /\ b \in S
    BY <1>2
  <2>2. PICK f \in S : \A k \in S : f <= k
    <3> HIDE DEF S
    <3>1. S \in SUBSET Nat /\ S # {}
      BY <2>1
    <3> QED
      BY <3>1, LeastNatural
  <2>3. f \in m + 1 .. n /\ L[f] <= L[m] /\ f \in m + 1 .. j
    BY <2>2
  <2>4. ASSUME NEW k \in m + 1 .. f - 1 PROVE L[k] > L[m]
    <3>1. k \in m + 1 .. j /\ ~(f <= k)
      BY <2>3
    <3>2. k \notin S
      BY <2>2, <3>1
    <3> QED
      BY <3>1, <3>2
  <2>5. D[f] <= D[m]
    BY <2>3, <2>4, BiggerIsOutside
  <2> QED
    BY <1>2, <2>3, <2>5
<1> QED
  BY <1>1, <1>2

\* There is one outline of a list of levels.
LEMMA OutlineIsUnique ==
    ASSUME NEW n \in Nat, NEW L \in [1 .. n -> Int],
           NEW D \in [1 .. n -> Nat], IsOutline(n, L, D),
           NEW E \in [1 .. n -> Nat], IsOutline(n, L, E)
    PROVE  D = E
<1> DEFINE S == {k \in 0 .. n : \A i \in 1 .. k : D[i] = E[i]}
<1>1. 0 \in S
  OBVIOUS
<1>2. ASSUME NEW k \in 1 .. n, k - 1 \in S PROVE k \in S
  <2>1. \A i \in 1 .. k - 1 : D[i] = E[i]
    BY <1>2
  <2>2. D[k] = E[k]
    <3>1. CASE \A j \in 1 .. k - 1 : L[j] >= L[k]
      <4>1. ASSUME NEW p \in 1 .. k - 1, Nearest(L, p, k) PROVE FALSE
        <5>1. L[p] < L[k] /\ L[p] >= L[k]
          BY <3>1, <4>1 DEF Nearest
        <5>2. L[p] \in Int /\ L[k] \in Int
          <6>1. p \in 1 .. n /\ k \in 1 .. n
            OBVIOUS
          <6> QED
            BY <6>1
        <5> QED
          BY <5>1, <5>2
      <4>2. IsPlaced(L, D, k) /\ IsPlaced(L, E, k)
        BY DEF IsOutline
      <4> QED
        BY <4>1, <4>2 DEF IsPlaced
    <3>2. CASE ~\A j \in 1 .. k - 1 : L[j] >= L[k]
      <4>1. PICK p \in 1 .. k - 1 : Nearest(L, p, k) /\ D[k] = D[p] + 1
        BY <3>2 DEF IsOutline, IsPlaced
      <4>2. PICK q \in 1 .. k - 1 : Nearest(L, q, k) /\ E[k] = E[q] + 1
        BY <3>2 DEF IsOutline, IsPlaced
      <4>3. p = q
        <5>1. p \in 1 .. n /\ q \in 1 .. n
          OBVIOUS
        <5>2. L[p] < L[k] /\ L[q] < L[k]
          BY <4>1, <4>2 DEF Nearest
        <5>5. L[p] \in Int /\ L[q] \in Int /\ L[k] \in Int
          BY <5>1
        <5>6. \A u, v \in Int : u < v => ~(u >= v)
          OBVIOUS
        <5>3. ~(L[p] >= L[k]) /\ ~(L[q] >= L[k])
          BY <5>2, <5>5, <5>6
        <5>4. p \notin q + 1 .. k - 1 /\ q \notin p + 1 .. k - 1
          BY <4>1, <4>2, <5>3 DEF Nearest
        <5> QED
          BY <5>4
      <4> QED
        BY <2>1, <4>1, <4>2, <4>3
    <3> QED
      BY <3>1, <3>2
  <2>3. \A i \in 1 .. k : D[i] = E[i]
    BY <2>1, <2>2
  <2> QED
    BY <2>3
<1>3. \A k \in 0 .. n : k \in S
  <2> HIDE DEF S
  <2> QED
    BY <1>1, <1>2, AllPositions
<1>4. \A i \in 1 .. n : D[i] = E[i]
  <2>1. n \in S
    <3>1. n \in 0 .. n
      OBVIOUS
    <3> HIDE DEF S
    <3> QED
      BY <1>3, <3>1
  <2> QED
    BY <2>1
<1>5. D = [i \in 1 .. n |-> D[i]] /\ E = [i \in 1 .. n |-> E[i]]
  OBVIOUS
<1> HIDE DEF S
<1> QED
  BY <1>4, <1>5

Depths(outline) == [i \in DOMAIN outline |-> outline[i].depth]

\* An outline of n nodes with levels L
OutlineOf(n, L, outline) ==
    /\ DOMAIN outline = 1 .. n /\ Len(outline) = n /\ Depths(outline) \in [1 .. n -> Nat]
    /\ IsOutline(n, L, Depths(outline))

\* The bigger nodes before node i
Bigger(L, i) == {j \in 1 .. i - 1 : L[j] < L[i]}

\* Node j is before node i, and bigger than all from there to node i.
InsideByLevel(L, i, j) == j \in 1 .. i - 1 /\ \A k \in j + 1 .. i : L[k] > L[j]

\* In an outline by level, the nodes that node i is inside of are those by level.
LEMMA AboveByLevel ==
    ASSUME NEW n \in Nat, NEW L \in [1 .. n -> Int], NEW outline, OutlineOf(n, L, outline),
           NEW i \in 1 .. n
    PROVE  \A j : j \in Above(outline, i) <=> InsideByLevel(L, i, j)
<1> DEFINE D == Depths(outline)
<1>1. D \in [1 .. n -> Nat] /\ IsOutline(n, L, D) /\ \A k \in 1 .. n : D[k] = outline[k].depth
  BY DEF OutlineOf, Depths
<1> HIDE DEF D
<1>2. ASSUME NEW j \in 1 .. i - 1
      PROVE  (\A k \in j + 1 .. i : outline[k].depth > outline[j].depth)
               <=> (\A k \in j + 1 .. i : L[k] > L[j])
  <2>1. j \in 1 .. n /\ i \in j .. n /\ \A k \in j + 1 .. i : k \in 1 .. n
    OBVIOUS
  <2>2. (\A k \in j + 1 .. i : D[k] > D[j]) <=> (\A k \in j + 1 .. i : L[k] > L[j])
    BY <1>1, <2>1, DeeperIsSmaller
  <2> QED
    BY <1>1, <2>1, <2>2
<1> QED
  BY <1>2 DEF Above, InsideByLevel

\* Node p is the parent of node i; 0 stands for none.
IsParent(L, outline, i, p) ==
    /\ p \in 0 .. i - 1
    /\ p = 0 => outline[i].depth = 0 /\ \A j \in 1 .. i - 1 : L[j] >= L[i]
    /\ p # 0 => /\ Nearest(L, p, i) /\ p \in Above(outline, i)
                /\ outline[i].depth = outline[p].depth + 1

ParentOf(outline, i) == Max({0} \cup Above(outline, i))
NearestOf(L, i) == Max({0} \cup Bigger(L, i))

\* The parent of a node is the nearest bigger one before it.
LEMMA ParentIsNearest ==
    ASSUME NEW n \in Nat, NEW L \in [1 .. n -> Int], NEW outline, OutlineOf(n, L, outline),
           NEW i \in 1 .. n
    PROVE  /\ IsParent(L, outline, i, ParentOf(outline, i))
           /\ ParentOf(outline, i) = NearestOf(L, i)
<1> DEFINE A == Above(outline, i)
           B == Bigger(L, i)
<1>0. DOMAIN outline = 1 .. n
  BY DEF OutlineOf
<1>9. \A j : j \in B <=> j \in 1 .. i - 1 /\ L[j] < L[i]
  BY DEF Bigger
<1>1. \A j : j \in A <=> InsideByLevel(L, i, j)
  BY AboveByLevel
<1>7. PICK parent : parent = Max({0} \cup A)
  OBVIOUS
<1>8. SUFFICES IsParent(L, outline, i, parent) /\ parent = Max({0} \cup B)
  BY <1>7 DEF ParentOf, NearestOf, A, B
<1> HIDE DEF A, B
<1>2. A \subseteq B
  <2>1. ASSUME NEW j \in A PROVE j \in B
    <3>1. j \in 1 .. i - 1 /\ i \in j + 1 .. i /\ L[i] > L[j]
      BY <1>1 DEF InsideByLevel
    <3> QED
      BY <1>9, <3>1
  <2> QED
    BY <2>1
<1>3. \A j \in {0} \cup B : j \in 0 .. n
  BY <1>9
<1>4. /\ outline[i].depth = Depths(outline)[i]
      /\ \A p \in 1 .. i - 1 : outline[p].depth = Depths(outline)[p]
      /\ IsOutline(n, L, Depths(outline))
  BY DEF OutlineOf, Depths
<1>5. CASE Depths(outline)[i] = 0 /\ \A j \in 1 .. i - 1 : L[j] >= L[i]
  <2>1. \A j \in 1 .. i - 1 : ~(L[j] < L[i])
    BY <1>5
  <2>2. B = {} /\ A = {}
    BY <1>2, <1>9, <2>1
  <2>3. Max({0}) = 0
    <3> DEFINE Z == {0}
    <3>1. Z \in SUBSET (0 .. n) /\ Z # {}
      OBVIOUS
    <3> HIDE DEF Z
    <3>2. Max(Z) \in Z
      BY <3>1, MaxIsGreatest
    <3> QED
      BY <3>2 DEF Z
  <2>4. parent = 0 /\ parent = Max({0} \cup B)
    <3>1. {0} \cup A = {0} /\ {0} \cup B = {0}
      BY <2>2
    <3> QED
      BY <1>7, <2>3, <3>1
  <2> QED
    BY <1>4, <1>5, <2>4 DEF IsParent
<1>6. ASSUME NEW p \in 1 .. i - 1, Nearest(L, p, i), Depths(outline)[i] = Depths(outline)[p] + 1
      PROVE  /\ parent = p /\ Max({0} \cup B) = p /\ p \in A
  <2>1. p \in B
    BY <1>6, <1>9 DEF Nearest
  <2>2. p \in A
    <3>1. ASSUME NEW k \in p + 1 .. i PROVE L[k] > L[p]
      <4>1. L[p] < L[i] /\ (k # i => k \in p + 1 .. i - 1)
        BY <1>6 DEF Nearest
      <4>2. k # i => L[k] >= L[i]
        BY <1>6, <4>1 DEF Nearest
      <4>3. k \in 1 .. n /\ p \in 1 .. n
        OBVIOUS
      <4> QED
        BY <4>1, <4>2, <4>3
    <3> QED
      BY <1>1, <3>1 DEF InsideByLevel
  <2>3. ASSUME NEW b \in B PROVE b <= p
    <3>1. b \in 1 .. i - 1 /\ ~(L[b] >= L[i])
      BY <1>9
    <3>2. b \notin p + 1 .. i - 1
      BY <1>6, <3>1 DEF Nearest
    <3> QED
      BY <3>1, <3>2
  <2>4. ASSUME NEW S \in SUBSET B, p \in S PROVE Max({0} \cup S) = p
    <3> DEFINE T == {0} \cup S
    <3>0. \A j \in T : j \in 0 .. n
      BY <1>3
    <3>1. T \in SUBSET (0 .. n) /\ T # {} /\ p \in T
      <4> p \in T
        BY <2>4
      <4> HIDE DEF T
      <4> QED
        BY <3>0
    <3>2. \A s \in T : s \in 0 .. n /\ s <= p
      BY <2>3, <3>1
    <3> HIDE DEF T
    <3>3. Max(T) \in T /\ \A s \in T : s <= Max(T)
      BY <3>1, MaxIsGreatest
    <3>4. Max(T) = p
      <4>1. Max(T) \in 0 .. n /\ Max(T) <= p /\ p <= Max(T) /\ p \in 0 .. n
        BY <3>1, <3>2, <3>3
      <4> QED
        BY <4>1
    <3> QED
      BY <3>4 DEF T
  <2>5. Max({0} \cup A) = p /\ Max({0} \cup B) = p
    BY <1>2, <2>1, <2>2, <2>4
  <2> QED
    BY <1>7, <2>2, <2>5
<1>10. CASE \E p \in 1 .. i - 1 : Nearest(L, p, i) /\ Depths(outline)[i] = Depths(outline)[p] + 1
  <2>1. PICK p \in 1 .. i - 1 : Nearest(L, p, i) /\ Depths(outline)[i] = Depths(outline)[p] + 1
    BY <1>10
  <2>2. parent = p /\ Max({0} \cup B) = p /\ p \in A
    BY <1>6, <2>1
  <2>3. p # 0 /\ p \in 0 .. i - 1
    OBVIOUS
  <2> QED
    BY <1>4, <2>1, <2>2, <2>3 DEF A, IsParent
<1> QED
  BY <1>4, <1>5, <1>10 DEF IsOutline, IsPlaced

\* A child is inside of its parent and what that is inside of.
LEMMA AboveOfParent ==
    ASSUME NEW n \in Nat, NEW L \in [1 .. n -> Int], NEW outline, OutlineOf(n, L, outline),
           NEW i \in 1 .. n, NEW p \in 1 .. i - 1, Nearest(L, p, i)
    PROVE  Above(outline, i) = Above(outline, p) \cup {p} /\ p \notin Above(outline, p)
<1>1. \A j : j \in Above(outline, i) <=> InsideByLevel(L, i, j)
  BY AboveByLevel
<1>2. \A j : j \in Above(outline, p) <=> InsideByLevel(L, p, j)
  <2>1. p \in 1 .. n
    OBVIOUS
  <2> QED
    BY <2>1, AboveByLevel
<1>3. L[p] < L[i] /\ \A k \in p + 1 .. i - 1 : L[k] >= L[i]
  BY DEF Nearest
<1>4. \A k \in 1 .. n : L[k] \in Int
  OBVIOUS
<1>5. ASSUME NEW k \in p + 1 .. i PROVE L[k] > L[p]
  <2>1. k \in 1 .. n /\ p \in 1 .. n /\ (k = i \/ k \in p + 1 .. i - 1)
    OBVIOUS
  <2> QED
    BY <1>3, <1>4, <2>1
<1>6. ASSUME NEW j \in Above(outline, i) PROVE j \in Above(outline, p) \cup {p}
  <2>1. j \in 1 .. i - 1 /\ L[i] > L[j] /\ \A k \in j + 1 .. i : L[k] > L[j]
    <3>1. j \in 1 .. i - 1 /\ i \in j + 1 .. i /\ \A k \in j + 1 .. i : L[k] > L[j]
      BY <1>1 DEF InsideByLevel
    <3> QED
      BY <3>1
  <2>2. j <= p
    <3>1. j \in 1 .. n
      BY <2>1
    <3>2. j \in p + 1 .. i - 1 => L[j] >= L[i]
      BY <1>3
    <3> QED
      BY <1>4, <2>1, <3>1, <3>2
  <2>3. j # p => j \in 1 .. p - 1 /\ \A k \in j + 1 .. p : k \in j + 1 .. i
    BY <2>1, <2>2
  <2>4. j # p => InsideByLevel(L, p, j)
    BY <2>1, <2>3 DEF InsideByLevel
  <2> QED
    BY <1>2, <2>4
<1>7. ASSUME NEW j \in Above(outline, p) PROVE j \in Above(outline, i)
  <2>1. j \in 1 .. p - 1 /\ \A k \in j + 1 .. p : L[k] > L[j]
    BY <1>2 DEF InsideByLevel
  <2>2. L[p] > L[j]
    BY <2>1
  <2>3. ASSUME NEW k \in j + 1 .. i PROVE L[k] > L[j]
    <3>1. CASE k \in j + 1 .. p
      BY <2>1, <3>1
    <3>2. CASE k \in p + 1 .. i
      <4>1. k \in 1 .. n /\ j \in 1 .. n /\ p \in 1 .. n
        BY <2>1, <3>2
      <4>2. L[k] > L[p]
        BY <1>5, <3>2
      <4> QED
        BY <1>4, <2>2, <4>1, <4>2
    <3> QED
      BY <2>1, <3>1, <3>2
  <2>4. InsideByLevel(L, i, j)
    BY <2>1, <2>3 DEF InsideByLevel
  <2> QED
    BY <1>1, <2>4
<1>8. InsideByLevel(L, i, p) /\ ~InsideByLevel(L, p, p)
  BY <1>5 DEF InsideByLevel
<1>9. p \in Above(outline, i) /\ p \notin Above(outline, p)
  BY <1>1, <1>2, <1>8
<1> QED
  BY <1>6, <1>7, <1>9

\* The depth of a node is the number of nodes it is inside of.
LEMMA DepthCounts ==
    ASSUME NEW n \in Nat, NEW L \in [1 .. n -> Int], NEW outline, OutlineOf(n, L, outline)
    PROVE  \A i \in 1 .. n : /\ IsFiniteSet(Above(outline, i))
                             /\ Cardinality(Above(outline, i)) = outline[i].depth
                             /\ outline[i].depth \in Nat
<1> DEFINE Counted(i) == /\ IsFiniteSet(Above(outline, i))
                         /\ Cardinality(Above(outline, i)) = outline[i].depth
                         /\ outline[i].depth \in Nat
           S == {k \in 0 .. n : \A i \in 1 .. k : Counted(i)}
<1>1. 0 \in S
  OBVIOUS
<1>2. ASSUME NEW k \in 1 .. n, k - 1 \in S PROVE k \in S
  <2>1. \A i \in 1 .. k - 1 : Counted(i)
    BY <1>2
  <2>2. Counted(k)
    <3>0. PICK p : IsParent(L, outline, k, p)
      BY ParentIsNearest
    <3>1. /\ p \in 0 .. k - 1
          /\ p = 0 => outline[k].depth = 0 /\ \A j \in 1 .. k - 1 : L[j] >= L[k]
          /\ p # 0 => Nearest(L, p, k) /\ outline[k].depth = outline[p].depth + 1
      BY <3>0 DEF IsParent
    <3>2. CASE p = 0
      <4>1. ASSUME NEW j \in Above(outline, k) PROVE FALSE
        <5>1. j \in 1 .. k - 1 /\ L[k] > L[j]
          <6>1. j \in 1 .. k - 1 /\ \A i \in j + 1 .. k : L[i] > L[j]
            BY AboveByLevel DEF InsideByLevel
          <6>2. k \in j + 1 .. k
            BY <6>1
          <6> QED
            BY <6>1, <6>2
        <5>2. L[j] >= L[k] /\ j \in 1 .. n
          BY <3>1, <3>2, <5>1
        <5> QED
          BY <5>1, <5>2
      <4>2. Above(outline, k) = {}
        BY <4>1
      <4>3. IsFiniteSet({}) /\ Cardinality({}) = 0
        BY FS_EmptySet
      <4> QED
        BY <3>1, <3>2, <4>2, <4>3
    <3>3. CASE p # 0
      <4>1. p \in 1 .. k - 1
        BY <3>1, <3>3
      <4>2. Above(outline, k) = Above(outline, p) \cup {p} /\ p \notin Above(outline, p)
        BY <3>1, <3>3, <4>1, AboveOfParent
      <4>3. Counted(p)
        BY <2>1, <4>1
      <4>4. /\ IsFiniteSet(Above(outline, p) \cup {p})
            /\ Cardinality(Above(outline, p) \cup {p}) = Cardinality(Above(outline, p)) + 1
        BY <4>2, <4>3, FS_AddElement
      <4>5. outline[k].depth = outline[p].depth + 1
        BY <3>1, <3>3
      <4>6. Cardinality(Above(outline, p)) = outline[p].depth /\ outline[p].depth \in Nat
        BY <4>3
      <4>7. outline[k].depth = Cardinality(Above(outline, p)) + 1 /\ outline[k].depth \in Nat
        BY <4>5, <4>6
      <4>8. Above(outline, k) = Above(outline, p) \cup {p}
        BY <4>2
      <4>9. IsFiniteSet(Above(outline, k)) /\ Cardinality(Above(outline, k)) = outline[k].depth
        BY <4>4, <4>7, <4>8
      <4> QED
        BY <4>7, <4>9
    <3> QED
      BY <3>2, <3>3
  <2> HIDE DEF Counted
  <2>3. \A i \in 1 .. k : Counted(i)
    BY <2>1, <2>2
  <2> QED
    BY <2>3
<1>3. \A k \in 0 .. n : k \in S
  <2> HIDE DEF S
  <2> QED
    BY <1>1, <1>2, AllPositions
<1>4. n \in S
  <2> HIDE DEF S
  <2> QED
    BY <1>3
<1> QED
  BY <1>4

-----------------------------------------------------------------------------
\* Each step F[k] leads from the set G[k - 1] to the set G[k].
StepsLead(n, s, F, G) ==
    s \in G[0] /\ \A k \in 1 .. n : \A x \in G[k - 1] : F[k][x] \in G[k]

\* The values of a recursive function on 0 .. n
StepsFrom(n, s, F, r) == r = [k \in 0 .. n |-> IF k = 0 THEN s ELSE F[k][r[k - 1]]]

\* There is a recursive function whose values are in the sets that its steps lead to.
LEMMA Recursion ==
    ASSUME NEW n \in Nat, NEW s, NEW F, NEW G, StepsLead(n, s, F, G)
    PROVE  \E r : StepsFrom(n, s, F, r) /\ \A k \in 0 .. n : r[k] \in G[k]
<1>0. s \in G[0] /\ \A k \in 1 .. n : \A x \in G[k - 1] : F[k][x] \in G[k]
  BY DEF StepsLead
<1> DEFINE Is(a, m) == /\ a = [k \in 0 .. m |-> IF k = 0 THEN s ELSE F[k][a[k - 1]]]
                       /\ \A k \in 0 .. m : a[k] \in G[k]
           S == {m \in 0 .. n : \E a : Is(a, m)}
<1>1. 0 \in S
  <2> DEFINE a == [k \in 0 .. 0 |-> s]
  <2>1. a = [k \in 0 .. 0 |-> IF k = 0 THEN s ELSE F[k][a[k - 1]]]
    OBVIOUS
  <2>2. \A k \in 0 .. 0 : a[k] \in G[k]
    BY <1>0
  <2> HIDE DEF a
  <2>3. Is(a, 0)
    BY <2>1, <2>2
  <2> QED
    BY <2>3
<1>2. ASSUME NEW m \in 1 .. n, m - 1 \in S PROVE m \in S
  <2>1. m - 1 \in 0 .. n /\ m \in Nat \ {0} /\ m \in 0 .. n
    OBVIOUS
  <2>2. PICK a : Is(a, m - 1)
    BY <1>2
  <2>3. \A k \in 0 .. m - 1 : /\ a[k] = IF k = 0 THEN s ELSE F[k][a[k - 1]]
                              /\ a[k] \in G[k]
    BY <2>2
  <2> DEFINE c == [k \in 0 .. m |-> IF k = m THEN F[m][a[m - 1]] ELSE a[k]]
  <2>4. \A k \in 0 .. m - 1 : c[k] = a[k] /\ k \in 0 .. m
    BY <2>1
  <2>5. c[m] = F[m][a[m - 1]] /\ c = [k \in 0 .. m |-> c[k]]
    BY <2>1
  <2> HIDE DEF c, Is, S
  <2>6. ASSUME NEW k \in 0 .. m
        PROVE  c[k] = (IF k = 0 THEN s ELSE F[k][c[k - 1]]) /\ c[k] \in G[k]
    <3>1. CASE k = m
      <4>1. m - 1 \in 0 .. m - 1 /\ k # 0
        BY <2>1, <3>1
      <4>2. c[m - 1] = a[m - 1] /\ a[m - 1] \in G[m - 1]
        BY <2>3, <2>4, <4>1
      <4> QED
        BY <1>0, <2>5, <3>1, <4>1, <4>2
    <3>2. CASE k # m
      <4>1. k \in 0 .. m - 1
        BY <2>1, <3>2
      <4>2. k # 0 => k - 1 \in 0 .. m - 1
        BY <2>1, <4>1
      <4>3. k # 0 => c[k - 1] = a[k - 1]
        BY <2>4, <4>2
      <4>4. c[k] = a[k]
        BY <2>4, <4>1
      <4>5. a[k] = (IF k = 0 THEN s ELSE F[k][a[k - 1]]) /\ a[k] \in G[k]
        BY <2>3, <4>1
      <4> QED
        BY <4>3, <4>4, <4>5
    <3> QED
      BY <3>1, <3>2
  <2>7. [k \in 0 .. m |-> c[k]] = [k \in 0 .. m |-> IF k = 0 THEN s ELSE F[k][c[k - 1]]]
    BY <2>6
  <2>8. Is(c, m)
    BY <2>5, <2>6, <2>7 DEF Is
  <2> QED
    BY <2>1, <2>8 DEF S
<1>3. \A m \in 0 .. n : m \in S
  <2> HIDE DEF S
  <2> QED
    BY <1>1, <1>2, AllPositions
<1>4. n \in S
  <2> HIDE DEF S
  <2> QED
    BY <1>3
<1> QED
  BY <1>4 DEF StepsFrom

-----------------------------------------------------------------------------
(* MakeHeadingHeirarchy *)

\* All nodes after node i are less big.
IsLast(n, L, i) == i \in 1 .. n /\ \A k \in i + 1 .. n : L[k] > L[i]

\* The last root, its last child and so on, by level
LEMMA LastByLevel ==
    ASSUME NEW n \in Nat, NEW L \in [1 .. n -> Int], NEW outline, OutlineOf(n, L, outline)
    PROVE  \A i : i \in LastChildren(outline) <=> IsLast(n, L, i)
<1> DEFINE D == Depths(outline)
<1>1. /\ D \in [1 .. n -> Nat] /\ IsOutline(n, L, D) /\ \A k \in 1 .. n : D[k] = outline[k].depth
      /\ DOMAIN outline = 1 .. n /\ Len(outline) = n
  BY DEF OutlineOf, Depths
<1> HIDE DEF D
<1>2. ASSUME NEW i \in 1 .. n
      PROVE  (\A k \in i + 1 .. n : outline[k].depth > outline[i].depth)
               <=> (\A k \in i + 1 .. n : L[k] > L[i])
  <2>1. n \in i .. n /\ \A k \in i + 1 .. n : k \in 1 .. n
    OBVIOUS
  <2>2. (\A k \in i + 1 .. n : D[k] > D[i]) <=> (\A k \in i + 1 .. n : L[k] > L[i])
    <3>1. n \in Nat /\ n \in i .. n /\ D \in [1 .. n -> Nat] /\ IsOutline(n, L, D)
      BY <1>1, <2>1
    <3> QED
      BY <3>1, DeeperIsSmaller
  <2> QED
    BY <1>1, <2>1, <2>2
<1> QED
  BY <1>1, <1>2 DEF LastChildren, IsLast

\* If the last root is not less big than a new node, no node is bigger than that.
LEMMA RootIsBiggest ==
    ASSUME NEW n \in Nat \ {0}, NEW L \in [1 .. n -> Int], NEW c \in Int,
           NEW R, \A i : i \in R <=> IsLast(n, L, i)
    PROVE  /\ Min(R) \in 1 .. n /\ IsLast(n, L, Min(R))
           /\ c <= L[Min(R)] => \A j \in 1 .. n : L[j] >= c
<1>1. IsLast(n, L, n)
  BY DEF IsLast
<1>2. \A i \in R : i \in Nat
  BY DEF IsLast
<1>3. R \in SUBSET Nat /\ R # {}
  BY <1>1, <1>2
<1>4. PICK r \in R : r = Min(R) /\ \A i \in R : r <= i
  BY <1>3, MinIsLeast
<1>5. r \in 1 .. n /\ IsLast(n, L, r) /\ \A k \in r + 1 .. n : L[k] > L[r]
  BY DEF IsLast
<1>6. ASSUME NEW j \in 1 .. n, L[j] < L[r] PROVE FALSE
  <2>1. n \in 0 .. n /\ L[r] \in Int /\ n \in Nat
    BY <1>5
  <2>2. PICK p \in 1 .. n : L[p] < L[r] /\ \A k \in p + 1 .. n : L[k] >= L[r]
    BY <1>6, <2>1, NearestExists
  <2>3. ASSUME NEW k \in p + 1 .. n PROVE L[k] > L[p]
    <3>1. k \in 1 .. n
      OBVIOUS
    <3> QED
      BY <1>5, <2>2, <3>1
  <2>4. p \in R
    BY <2>3 DEF IsLast
  <2>5. r <= p /\ p # r /\ p \notin r + 1 .. n
    <3>1. ~(L[p] > L[r]) /\ p # r
      BY <1>5, <2>2
    <3> QED
      BY <1>4, <1>5, <2>4, <3>1
  <2> QED
    BY <1>5, <2>5
<1>7. ASSUME c <= L[r], NEW j \in 1 .. n PROVE L[j] >= c
  BY <1>5, <1>6, <1>7
<1> QED
  BY <1>4, <1>5, <1>7

\* Otherwise the child ends up below the nearest bigger node.
LEMMA LastPassedIsNearest ==
    ASSUME NEW n \in Nat \ {0}, NEW L \in [1 .. n -> Int], NEW c \in Int,
           NEW R, \A i : i \in R <=> IsLast(n, L, i), ~(c <= L[Min(R)]),
           NEW passed, \A i : i \in passed <=> i \in R /\ \A k \in R : k <= i => L[k] < c
    PROVE  Max(passed) \in 1 .. n /\ L[Max(passed)] < c /\ \A k \in Max(passed) + 1 .. n : L[k] >= c
<1>1. Min(R) \in 1 .. n /\ L[Min(R)] < c
  BY RootIsBiggest
<1>2. n \in 0 .. n /\ n \in Nat
  OBVIOUS
<1>3. PICK p \in 1 .. n : L[p] < c /\ \A k \in p + 1 .. n : L[k] >= c
  BY <1>1, <1>2, NearestExists
<1>4. p \in R
  <2>1. ASSUME NEW k \in p + 1 .. n PROVE L[k] > L[p]
    <3>1. k \in 1 .. n
      OBVIOUS
    <3> QED
      BY <1>3, <3>1
  <2> QED
    BY <2>1 DEF IsLast
<1>5. ASSUME NEW k \in R, k <= p PROVE L[k] < c
  <2>1. k \in 1 .. n /\ (k # p => p \in k + 1 .. n) /\ \A i \in k + 1 .. n : L[i] > L[k]
    BY <1>5 DEF IsLast
  <2>2. k # p => L[p] > L[k]
    BY <2>1
  <2> QED
    BY <1>3, <2>1, <2>2
<1>6. p \in passed
  BY <1>4, <1>5
<1>7. ASSUME NEW i \in passed PROVE i \in 1 .. n /\ i <= p
  <2>1. i \in 1 .. n /\ i \in R
    BY DEF IsLast
  <2>2. L[i] < c
    BY <2>1
  <2>3. i \notin p + 1 .. n
    BY <1>3, <2>1, <2>2
  <2> QED
    BY <2>1, <2>3
<1>8. passed \in SUBSET (0 .. n) /\ passed # {}
  BY <1>6, <1>7
<1>9. Max(passed) \in passed /\ \A s \in passed : s <= Max(passed)
  BY <1>2, <1>8, MaxIsGreatest
<1>10. Max(passed) = p
  <2>1. Max(passed) <= p /\ p <= Max(passed) /\ Max(passed) \in 1 .. n
    BY <1>6, <1>7, <1>9
  <2> QED
    BY <2>1
<1> QED
  BY <1>3, <1>10

\* A tree with one more node, which is below the nearest bigger one
Continues(n, L, outline, next) ==
    /\ DOMAIN next = 1 .. n + 1 /\ Len(next) = n + 1
    /\ \A i \in 1 .. n : next[i].depth = outline[i].depth
    /\ \/ next[n + 1].depth = 0 /\ \A j \in 1 .. n : L[j] >= L[n + 1]
       \/ \E p \in 1 .. n : Nearest(L, p, n + 1) /\ next[n + 1].depth = outline[p].depth + 1

\* An outline remains one with such a node.
LEMMA NextOutline ==
    ASSUME NEW n \in Nat, NEW L \in [1 .. n + 1 -> Int], NEW l \in [1 .. n -> Int],
           \A i \in 1 .. n : l[i] = L[i], NEW outline, OutlineOf(n, l, outline),
           NEW next, Continues(n, L, outline, next)
    PROVE  OutlineOf(n + 1, L, next)
<1> DEFINE D == Depths(outline)
           E == Depths(next)
<1>0. /\ DOMAIN next = 1 .. n + 1 /\ Len(next) = n + 1
      /\ \A i \in 1 .. n : next[i].depth = outline[i].depth
      /\ \/ next[n + 1].depth = 0 /\ \A j \in 1 .. n : L[j] >= L[n + 1]
         \/ \E p \in 1 .. n : Nearest(L, p, n + 1) /\ next[n + 1].depth = outline[p].depth + 1
  BY DEF Continues
<1>1. /\ D \in [1 .. n -> Nat] /\ IsOutline(n, l, D) /\ \A k \in 1 .. n : D[k] = outline[k].depth
      /\ \A k \in 1 .. n + 1 : E[k] = next[k].depth
      /\ E = [k \in 1 .. n + 1 |-> next[k].depth]
  BY <1>0 DEF OutlineOf, Depths
<1> HIDE DEF D, E
<1>2. \A k \in 1 .. n : E[k] = D[k] /\ D[k] \in Nat
  <2>1. ASSUME NEW k \in 1 .. n PROVE E[k] = D[k]
    <3>1. k \in 1 .. n + 1
      OBVIOUS
    <3>2. E[k] = next[k].depth /\ D[k] = outline[k].depth
      BY <1>1, <3>1
    <3> QED
      BY <1>0, <3>2
  <2>2. \A k \in 1 .. n : D[k] \in Nat
    BY <1>1
  <2> QED
    BY <2>1, <2>2
<1>3. \/ E[n + 1] = 0 /\ \A j \in 1 .. n : L[j] >= L[n + 1]
      \/ \E p \in 1 .. n : Nearest(L, p, n + 1) /\ E[n + 1] = E[p] + 1
  <2>1. E[n + 1] = next[n + 1].depth
    <3>1. n + 1 \in 1 .. n + 1
      OBVIOUS
    <3> QED
      BY <1>1, <3>1
  <2>2. \A p \in 1 .. n : outline[p].depth = E[p]
    BY <1>1, <1>2
  <2> QED
    BY <1>0, <2>1, <2>2
<1>4. E \in [1 .. n + 1 -> Nat]
  <2>1. E[n + 1] \in Nat
    <3>1. ASSUME NEW p \in 1 .. n, E[n + 1] = E[p] + 1 PROVE E[n + 1] \in Nat
      <4>1. E[p] \in Nat
        BY <1>2
      <4> QED
        BY <3>1, <4>1
    <3> QED
      BY <1>3, <3>1
  <2>2. \A k \in 1 .. n + 1 : E[k] \in Nat
    BY <1>2, <2>1
  <2> QED
    BY <1>1, <2>2
<1>5. ASSUME NEW i \in 1 .. n
      PROVE  IsPlaced(L, E, i)
  <2>0. IsPlaced(l, D, i)
    BY <1>1 DEF IsOutline
  <2>1. \A j \in 1 .. i : j \in 1 .. n
    OBVIOUS
  <2>2. CASE D[i] = 0 /\ \A j \in 1 .. i - 1 : l[j] >= l[i]
    BY <1>2, <2>1, <2>2 DEF IsPlaced
  <2>3. ASSUME NEW p \in 1 .. i - 1, Nearest(l, p, i), D[i] = D[p] + 1
        PROVE  Nearest(L, p, i) /\ E[i] = E[p] + 1
    <3>1. p \in 1 .. n /\ \A k \in p + 1 .. i - 1 : k \in 1 .. n
      OBVIOUS
    <3> QED
      BY <1>2, <2>3, <3>1 DEF Nearest
  <2> QED
    BY <2>0, <2>2, <2>3 DEF IsPlaced
<1>6. IsOutline(n + 1, L, E)
  <2>1. ASSUME NEW i \in 1 .. n + 1
        PROVE  IsPlaced(L, E, i)
    <3>1. CASE i = n + 1
      <4>1. 1 .. i - 1 = 1 .. n
        BY <3>1
      <4> QED
        BY <1>3, <3>1, <4>1 DEF IsPlaced
    <3>2. CASE i # n + 1
      BY <1>5, <3>2
    <3> QED
      BY <3>1, <3>2
  <2> QED
    BY <2>1 DEF IsOutline
<1> QED
  BY <1>0, <1>4, <1>6 DEF OutlineOf, E

LevelsOf(headings, k) == [i \in 1 .. k |-> headings[i].level]

NodesOf(headings) == [heading : {headings[i] : i \in 1 .. Len(headings)}, depth : Nat]

\* The trees of the first k headings of a list
Trees(headings, k) ==
    {t \in Seq(NodesOf(headings)) :
        /\ Len(t) = k /\ \A i \in 1 .. k : t[i].heading = headings[i]
        /\ OutlineOf(k, LevelsOf(headings, k), t)}

\* The tree with the next heading
NextTree(t, k, heading) ==
    IF k = 1 \/ heading.level <= t[Min(LastChildren(t))].heading.level
    THEN Append(t, Node(heading, 0))
    ELSE AddChildHeading(t, heading)

\* The tree of k headings is the tree of k - 1 with a node below the nearest bigger one.
LEMMA NextNode ==
    ASSUME NEW headings, Len(headings) \in Nat,
           \A i \in 1 .. Len(headings) : headings[i].level \in Int,
           NEW k \in 1 .. Len(headings), NEW t \in Trees(headings, k - 1), NEW d \in Nat,
           \/ d = 0 /\ \A j \in 1 .. k - 1 : headings[j].level >= headings[k].level
           \/ \E p \in 1 .. k - 1 : /\ Nearest(LevelsOf(headings, k), p, k)
                                    /\ d = t[p].depth + 1
    PROVE  Append(t, Node(headings[k], d)) \in Trees(headings, k)
<1> DEFINE T == NodesOf(headings)
           L == LevelsOf(headings, k)
           l == LevelsOf(headings, k - 1)
           n == k - 1
           next == Append(t, Node(headings[k], d))
<1>1. /\ t \in Seq(T) /\ Len(t) = n /\ n \in Nat /\ k = n + 1
      /\ \A i \in 1 .. n : t[i].heading = headings[i]
      /\ OutlineOf(n, l, t)
  BY DEF Trees
<1>2. /\ L \in [1 .. n + 1 -> Int] /\ l \in [1 .. n -> Int] /\ \A i \in 1 .. n : l[i] = L[i]
      /\ \A i \in 1 .. n + 1 : L[i] = headings[i].level
  <2>1. \A i \in 1 .. n + 1 : i \in 1 .. Len(headings)
    BY <1>1
  <2>2. \A i \in 1 .. n : i \in 1 .. n + 1
    OBVIOUS
  <2> QED
    BY <1>1, <2>1, <2>2 DEF LevelsOf
<1>3. Node(headings[k], d) \in T
  BY DEF Node, NodesOf
<1>4. /\ Node(headings[k], d).heading = headings[k] /\ Node(headings[k], d).depth = d
  BY DEF Node
<1> HIDE DEF T, L, l
<1>5. /\ next \in Seq(T) /\ DOMAIN next = 1 .. n + 1 /\ Len(next) = n + 1
      /\ \A i \in 1 .. n : next[i] = t[i]
      /\ next[n + 1] = Node(headings[k], d)
  BY <1>1, <1>3
<1> HIDE DEF next, n
<1>6. \/ next[n + 1].depth = 0 /\ \A j \in 1 .. n : L[j] >= L[n + 1]
      \/ \E p \in 1 .. n : Nearest(L, p, n + 1) /\ next[n + 1].depth = t[p].depth + 1
  <2>1. next[n + 1].depth = d
    BY <1>4, <1>5
  <2>2. CASE d = 0 /\ \A j \in 1 .. k - 1 : headings[j].level >= headings[k].level
    <3>1. \A j \in 1 .. n : j \in 1 .. n + 1
      BY <1>1
    <3>2. n + 1 \in 1 .. n + 1 /\ 1 .. k - 1 = 1 .. n
      BY <1>1
    <3> QED
      BY <1>1, <1>2, <2>1, <2>2, <3>1, <3>2
  <2>3. CASE \E p \in 1 .. k - 1 : Nearest(LevelsOf(headings, k), p, k) /\ d = t[p].depth + 1
    BY <1>1, <2>1, <2>3 DEF L, n
  <2> QED
    BY <2>2, <2>3
<1>7. \A i \in 1 .. n : next[i].depth = t[i].depth
  BY <1>5
<1>8. OutlineOf(n + 1, L, next)
  <2>1. Continues(n, L, t, next)
    BY <1>5, <1>6, <1>7 DEF Continues
  <2> QED
    BY <1>1, <1>2, <2>1, NextOutline
<1>9. \A i \in 1 .. k : next[i].heading = headings[i]
  BY <1>1, <1>4, <1>5
<1>10. next \in Seq(T) /\ Len(next) = k /\ OutlineOf(k, L, next)
  BY <1>1, <1>5, <1>8
<1>11. next \in Trees(headings, k)
  BY <1>9, <1>10 DEF Trees, T, L
<1> QED
  BY <1>11 DEF next

\* MakeHeadingHeirarchy and AddChildHeading put the next heading below that one.
LEMMA NextTreeType ==
    ASSUME NEW headings, Len(headings) \in Nat,
           \A i \in 1 .. Len(headings) : headings[i].level \in Int,
           NEW k \in 1 .. Len(headings), NEW t \in Trees(headings, k - 1)
    PROVE  NextTree(t, k, headings[k]) \in Trees(headings, k)
<1> DEFINE n == k - 1
           l == LevelsOf(headings, n)
           L == LevelsOf(headings, k)
           R == LastChildren(t)
           c == headings[k].level
           passed == {i \in R : \A j \in R : j <= i => t[j].heading.level < c}
<1>1. /\ Len(t) = n /\ n \in Nat /\ k = n + 1
      /\ \A i \in 1 .. n : t[i].heading = headings[i]
      /\ OutlineOf(n, l, t)
  BY DEF Trees
<1>2. /\ l \in [1 .. n -> Int] /\ c \in Int /\ \A i \in 1 .. n : l[i] = headings[i].level
      /\ \A i \in 1 .. n : l[i] = t[i].heading.level
  BY <1>1 DEF LevelsOf
<1>3. \A i \in 1 .. k : L[i] = headings[i].level
  BY DEF LevelsOf
<1> HIDE DEF l, L
<1>4. \A i : i \in R <=> IsLast(n, l, i)
  BY <1>1, <1>2, LastByLevel
<1>5. \A i \in 1 .. n : t[i].depth \in Nat
  BY <1>1, <1>2, DepthCounts
<1>6. CASE k = 1 \/ c <= t[Min(R)].heading.level
  <2>1. ASSUME k # 1, NEW j \in 1 .. n PROVE headings[j].level >= headings[k].level
    <3>1. n \in Nat \ {0}
      BY <1>1, <2>1
    <3>2. Min(R) \in 1 .. n /\ (c <= l[Min(R)] => \A i \in 1 .. n : l[i] >= c)
      <4> HIDE DEF R, n, c
      <4> QED
        BY <1>2, <1>4, <3>1, RootIsBiggest
    <3>3. c <= l[Min(R)]
      BY <1>2, <1>6, <2>1, <3>2
    <3> QED
      BY <1>2, <3>2, <3>3
  <2>2. \A j \in 1 .. k - 1 : headings[j].level >= headings[k].level
    <3>1. k = 1 => 1 .. k - 1 = {}
      OBVIOUS
    <3> QED
      BY <2>1, <3>1
  <2>3. Append(t, Node(headings[k], 0)) \in Trees(headings, k)
    BY <2>2, NextNode
  <2> QED
    BY <1>6, <2>3 DEF NextTree
<1>7. CASE ~(k = 1 \/ c <= t[Min(R)].heading.level)
  <2> DEFINE p == Max(passed)
  <2>1. n \in Nat \ {0}
    BY <1>1, <1>7
  <2>2. p \in 1 .. n /\ l[p] < c /\ \A j \in p + 1 .. n : l[j] >= c
    <3>1. Min(R) \in 1 .. n
      <4> HIDE DEF R, n, c
      <4> QED
        BY <1>2, <1>4, <2>1, RootIsBiggest
    <3>2. ~(c <= l[Min(R)])
      BY <1>2, <1>7, <3>1
    <3>3. \A j \in R : j \in 1 .. n
      BY <1>4 DEF IsLast
    <3>4. \A i : i \in passed <=> i \in R /\ \A j \in R : j <= i => l[j] < c
      BY <1>2, <3>3
    <3> HIDE DEF passed, R, n, c
    <3> QED
      BY <1>2, <1>4, <2>1, <3>2, <3>4, LastPassedIsNearest
  <2>3. AddChildHeading(t, headings[k]) = Append(t, Node(headings[k], t[p].depth + 1))
    BY DEF AddChildHeading
  <2> HIDE DEF p, passed
  <2>4. Nearest(L, p, k)
    <3>1. \A j \in p + 1 .. k - 1 : j \in p + 1 .. n /\ j \in 1 .. n /\ j \in 1 .. k
      BY <2>2
    <3>2. p \in 1 .. k /\ k \in 1 .. k
      BY <2>2
    <3>3. \A j \in 1 .. n : j \in 1 .. k
      OBVIOUS
    <3>4. \A j \in 1 .. n : L[j] = l[j]
      BY <1>2, <1>3, <3>3
    <3>5. L[p] < L[k]
      BY <1>3, <2>2, <3>2, <3>4
    <3>6. \A j \in p + 1 .. k - 1 : L[j] >= L[k]
      BY <1>3, <2>2, <3>1, <3>2, <3>4
    <3> QED
      BY <3>5, <3>6 DEF Nearest
  <2>5. t[p].depth + 1 \in Nat
    BY <1>5, <2>2
  <2>6. Append(t, Node(headings[k], t[p].depth + 1)) \in Trees(headings, k)
    <3>1. \E q \in 1 .. k - 1 : /\ Nearest(LevelsOf(headings, k), q, k)
                                /\ t[p].depth + 1 = t[q].depth + 1
      BY <2>2, <2>4 DEF L, n
    <3> QED
      BY <2>5, <3>1, NextNode
  <2> QED
    BY <1>7, <2>3, <2>6 DEF NextTree
<1> QED
  BY <1>6, <1>7

\* The trees that MakeHeadingHeirarchy goes through
TreeOf(headings) ==
    CHOOSE tree : tree = [k \in 0 .. Len(headings) |->
        IF k = 0 THEN <<>> ELSE NextTree(tree[k - 1], k, headings[k])]

\* The tree that MakeHeadingHeirarchy makes is an outline by level.
LEMMA HierarchyIsOutline ==
    ASSUME NEW headings, Len(headings) \in Nat,
           \A i \in 1 .. Len(headings) : headings[i].level \in Int
    PROVE  MakeHeadingHeirarchy(headings) \in Trees(headings, Len(headings))
<1> DEFINE n == Len(headings)
           G == [k \in 0 .. n |-> Trees(headings, k)]
           F == [k \in 1 .. n |-> [t \in Trees(headings, k - 1) |-> NextTree(t, k, headings[k])]]
           tree == TreeOf(headings)
<1>1. <<>> \in Trees(headings, 0)
  <2>1. OutlineOf(0, LevelsOf(headings, 0), <<>>)
    <3>1. DOMAIN <<>> = 1 .. 0 /\ Len(<<>>) = 0 /\ \A i \in 1 .. 0 : FALSE
      OBVIOUS
    <3>2. Depths(<<>>) = [i \in 1 .. 0 |-> <<>>[i].depth]
      BY <3>1 DEF Depths
    <3>3. Depths(<<>>) \in [1 .. 0 -> Nat]
      BY <3>1, <3>2
    <3> QED
      BY <3>1, <3>3 DEF OutlineOf, IsOutline
  <2> QED
    BY <2>1 DEF Trees
<1>2. ASSUME NEW k \in 1 .. n, NEW t \in Trees(headings, k - 1)
      PROVE  NextTree(t, k, headings[k]) \in Trees(headings, k)
  BY <1>2, NextTreeType
<1>3. \A k \in 1 .. n : k - 1 \in 0 .. n /\ k \in 0 .. n
  OBVIOUS
<1>4. 0 \in 0 .. n /\ n \in 0 .. n
  OBVIOUS
<1>5. \A k \in 0 .. n : G[k] = Trees(headings, k)
  OBVIOUS
<1>6. \A k \in 1 .. n : \A t \in Trees(headings, k - 1) : F[k][t] = NextTree(t, k, headings[k])
  OBVIOUS
<1> HIDE DEF n, G, F, tree
<1>7. PICK r : StepsFrom(n, <<>>, F, r) /\ \A k \in 0 .. n : r[k] \in G[k]
  <2>1. n \in Nat /\ <<>> \in G[0]
    BY <1>1, <1>4, <1>5 DEF n
  <2>2. ASSUME NEW k \in 1 .. n, NEW x \in G[k - 1] PROVE F[k][x] \in G[k]
    <3>1. k - 1 \in 0 .. n /\ k \in 0 .. n
      BY <1>3
    <3>2. x \in Trees(headings, k - 1) /\ G[k] = Trees(headings, k)
      BY <1>5, <3>1
    <3> QED
      BY <1>2, <1>6, <3>2
  <2>3. StepsLead(n, <<>>, F, G)
    BY <2>1, <2>2 DEF StepsLead
  <2> QED
    BY <2>1, <2>3, Recursion
<1>8. ASSUME NEW k \in 0 .. n
      PROVE  (IF k = 0 THEN <<>> ELSE F[k][r[k - 1]])
               = IF k = 0 THEN <<>> ELSE NextTree(r[k - 1], k, headings[k])
  <2>1. k # 0 => k \in 1 .. n /\ k - 1 \in 0 .. n
    BY <1>4 DEF n
  <2>2. k # 0 => r[k - 1] \in Trees(headings, k - 1)
    BY <1>5, <1>7, <2>1
  <2> QED
    BY <1>6, <2>1, <2>2
<1>9. r = [k \in 0 .. n |-> IF k = 0 THEN <<>> ELSE NextTree(r[k - 1], k, headings[k])]
  BY <1>7, <1>8 DEF StepsFrom
<1>10. tree = [k \in 0 .. n |-> IF k = 0 THEN <<>> ELSE NextTree(tree[k - 1], k, headings[k])]
  BY <1>9 DEF tree, TreeOf, n
<1>11. tree[0] = <<>> /\ \A k \in 1 .. n : tree[k] = NextTree(tree[k - 1], k, headings[k])
  <2>1. \A k \in 1 .. n : k \in 0 .. n /\ k # 0
    BY <1>3
  <2> QED
    BY <1>4, <1>10, <2>1
<1>12. tree[n] \in Trees(headings, n)
  <2> DEFINE S == {k \in 0 .. n : tree[k] \in Trees(headings, k)}
  <2>1. 0 \in S
    BY <1>1, <1>4, <1>11
  <2>2. ASSUME NEW k \in 1 .. n, k - 1 \in S PROVE k \in S
    <3>1. tree[k - 1] \in Trees(headings, k - 1)
      BY <2>2
    <3> QED
      BY <1>2, <1>3, <1>11, <3>1
  <2>3. \A k \in 0 .. n : k \in S
    <3>1. n \in Nat
      BY DEF n
    <3> HIDE DEF S
    <3> QED
      BY <2>1, <2>2, <3>1, AllPositions
  <2> QED
    BY <1>4, <2>3
<1>13. MakeHeadingHeirarchy(headings) = tree[n]
  BY DEF MakeHeadingHeirarchy, tree, TreeOf, NextTree, n
<1> QED
  BY <1>12, <1>13 DEF n

-----------------------------------------------------------------------------
(* Lists of headings *)

Increasing(n, p) == \A i, j \in 1 .. n : i < j => p[i] < p[j]

\* The values of p are values of q.
Within(n, p, m, q) == \A i \in 1 .. n : \E j \in 1 .. m : p[i] = q[j]

\* Two increasing lists with the same values are the same.
LEMMA SameStart ==
    ASSUME NEW n \in Nat, NEW m \in Nat, NEW p \in [1 .. n -> Nat], NEW q \in [1 .. m -> Nat],
           Increasing(n, p), Increasing(m, q),
           Within(n, p, m, q), Within(m, q, n, p)
    PROVE  n <= m /\ \A i \in 1 .. n : p[i] = q[i]
<1> DEFINE S == {k \in 0 .. n : k <= m /\ \A i \in 1 .. k : p[i] = q[i]}
<1>1. 0 \in S
  OBVIOUS
<1>2. ASSUME NEW k \in 1 .. n, k - 1 \in S PROVE k \in S
  <2>1. k - 1 <= m /\ \A i \in 1 .. k - 1 : p[i] = q[i]
    BY <1>2
  <2>2. PICK j \in 1 .. m : p[k] = q[j]
    BY DEF Within
  <2>3. j >= k
    <3>1. ASSUME j < k PROVE FALSE
      <4>1. j \in 1 .. k - 1 /\ j \in 1 .. n
        BY <3>1
      <4>2. p[j] = q[j] /\ p[j] < p[k]
        BY <2>1, <3>1, <4>1 DEF Increasing
      <4>3. p[j] \in Nat /\ p[k] \in Nat
        BY <4>1
      <4> QED
        BY <2>2, <4>2, <4>3
    <3> QED
      BY <3>1
  <2>4. k \in 1 .. m
    BY <2>3
  <2>5. PICK i \in 1 .. n : p[i] = q[k]
    BY <2>4 DEF Within
  <2>6. i >= k
    <3>1. ASSUME i < k PROVE FALSE
      <4>1. i \in 1 .. k - 1 /\ i \in 1 .. m
        BY <2>4, <3>1
      <4>2. p[i] = q[i] /\ q[i] < q[k]
        BY <2>1, <2>4, <3>1, <4>1 DEF Increasing
      <4>3. q[i] \in Nat /\ q[k] \in Nat
        BY <2>4, <4>1
      <4> QED
        BY <2>5, <4>2, <4>3
    <3> QED
      BY <3>1
  <2>7. p[k] = q[k]
    <3>1. q[k] <= q[j]
      <4>1. CASE k = j
        <5>1. q[k] \in Nat /\ q[k] = q[j]
          BY <2>4, <4>1
        <5> QED
          BY <5>1
      <4>2. CASE k < j
        <5>1. q[k] < q[j]
          BY <2>4, <4>2 DEF Increasing
        <5>2. q[k] \in Nat /\ q[j] \in Nat
          BY <2>4
        <5> QED
          BY <5>1, <5>2
      <4>3. k = j \/ k < j
        BY <2>3
      <4> QED
        BY <4>1, <4>2, <4>3
    <3>2. p[k] <= p[i]
      <4>1. CASE k = i
        <5>1. p[k] \in Nat /\ p[k] = p[i]
          BY <4>1
        <5> QED
          BY <5>1
      <4>2. CASE k < i
        <5>1. p[k] < p[i]
          BY <4>2 DEF Increasing
        <5>2. p[k] \in Nat /\ p[i] \in Nat
          OBVIOUS
        <5> QED
          BY <5>1, <5>2
      <4>3. k = i \/ k < i
        BY <2>6
      <4> QED
        BY <4>1, <4>2, <4>3
    <3>3. p[k] \in Nat /\ q[k] \in Nat
      BY <2>4
    <3>4. p[k] = q[j] /\ p[i] = q[k]
      BY <2>2, <2>5
    <3>5. p[k] <= q[k] /\ q[k] <= p[k]
      BY <3>1, <3>2, <3>4
    <3> QED
      BY <3>3, <3>5
  <2>8. k <= m /\ \A l \in 1 .. k : p[l] = q[l]
    <3>1. \A l \in 1 .. k : l = k \/ l \in 1 .. k - 1
      OBVIOUS
    <3>2. k <= m
      BY <2>4
    <3>3. ASSUME NEW l \in 1 .. k PROVE p[l] = q[l]
      BY <2>1, <2>7, <3>1
    <3> QED
      BY <3>2, <3>3
  <2> QED
    BY <2>8
<1>3. \A k \in 0 .. n : k \in S
  <2> HIDE DEF S
  <2> QED
    BY <1>1, <1>2, AllPositions
<1>4. n \in S
  <2> HIDE DEF S
  <2> QED
    BY <1>3
<1> QED
  BY <1>4

\* Two increasing lists with the same values are the same.
LEMMA SameValues ==
    ASSUME NEW n \in Nat, NEW m \in Nat, NEW p \in [1 .. n -> Nat], NEW q \in [1 .. m -> Nat],
           Increasing(n, p), Increasing(m, q),
           Within(n, p, m, q), Within(m, q, n, p)
    PROVE  n = m /\ \A i \in 1 .. n : p[i] = q[i]
<1>1. n <= m /\ \A i \in 1 .. n : p[i] = q[i]
  BY SameStart
<1>2. m <= n
  BY SameStart
<1> QED
  BY <1>1, <1>2

HeadingType == [pos : Nat, level : 1 .. MaxLevel, include : BOOLEAN]

\* The headings of a book in order
IsBook(headings) ==
    headings \in Seq(HeadingType) /\ \A i \in 1 .. Len(headings) : headings[i].pos = i

\* The list of the headings at the first k positions, of all or those to include
IsSelection(headings, all, k, l) ==
    /\ l \in Seq(HeadingType)
    /\ \A i \in 1 .. Len(l) : /\ l[i].pos \in 1 .. k /\ l[i] = headings[l[i].pos]
                              /\ l[i].include \/ all
    /\ \A i, j \in 1 .. Len(l) : i < j => l[i].pos < l[j].pos
    /\ \A p \in 1 .. k : headings[p].include \/ all => \E i \in 1 .. Len(l) : l[i].pos = p

\* The list with the next heading
NextList(headings, all, k, l) ==
    IF headings[k].include \/ all THEN Append(l, headings[k]) ELSE l

\* GetHeadingList takes the next heading, or does not.
LEMMA NextListSelects ==
    ASSUME NEW headings, IsBook(headings), NEW all \in BOOLEAN, NEW k \in 1 .. Len(headings),
           NEW l, IsSelection(headings, all, k - 1, l)
    PROVE  IsSelection(headings, all, k, NextList(headings, all, k, l))
<1>1. /\ l \in Seq(HeadingType) /\ Len(l) \in Nat
      /\ \A i \in 1 .. Len(l) : /\ l[i].pos \in 1 .. k - 1 /\ l[i] = headings[l[i].pos]
                                /\ l[i].include \/ all
      /\ \A i, j \in 1 .. Len(l) : i < j => l[i].pos < l[j].pos
      /\ \A p \in 1 .. k - 1 : headings[p].include \/ all => \E i \in 1 .. Len(l) : l[i].pos = p
  BY DEF IsSelection
<1>2. headings[k] \in HeadingType /\ headings[k].pos = k
  BY DEF IsBook
<1>3. \A p \in 1 .. k : p = k \/ p \in 1 .. k - 1
  OBVIOUS
<1>4. \A p \in 1 .. k - 1 : p \in 1 .. k /\ p < k
  OBVIOUS
<1>5. CASE headings[k].include \/ all
  <2> DEFINE m == Len(l)
             next == Append(l, headings[k])
  <2>1. /\ next \in Seq(HeadingType) /\ Len(next) = m + 1 /\ m \in Nat
        /\ \A i \in 1 .. m : next[i] = l[i]
        /\ next[m + 1] = headings[k]
    BY <1>1, <1>2
  <2>2. \A i \in 1 .. m + 1 : i = m + 1 \/ i \in 1 .. m
    BY <2>1
  <2> HIDE DEF m, next
  <2>3. ASSUME NEW i \in 1 .. m + 1
        PROVE  /\ next[i].pos \in 1 .. k /\ next[i] = headings[next[i].pos]
               /\ next[i].include \/ all
    <3>1. CASE i = m + 1
      BY <1>2, <1>5, <2>1, <3>1
    <3>2. CASE i \in 1 .. m
      BY <1>1, <1>4, <2>1, <3>2 DEF m
    <3> QED
      BY <2>2, <3>1, <3>2
  <2>4. ASSUME NEW i \in 1 .. m + 1, NEW j \in 1 .. m + 1, i < j
        PROVE  next[i].pos < next[j].pos
    <3>1. i \in 1 .. m
      BY <2>1, <2>4
    <3>2. CASE j = m + 1
      <4>1. l[i].pos \in 1 .. k - 1
        BY <1>1, <3>1 DEF m
      <4> QED
        BY <1>2, <1>4, <2>1, <3>1, <3>2, <4>1
    <3>3. CASE j \in 1 .. m
      BY <1>1, <2>1, <2>4, <3>1, <3>3 DEF m
    <3> QED
      BY <2>2, <3>2, <3>3
  <2>5. ASSUME NEW p \in 1 .. k, headings[p].include \/ all
        PROVE  \E i \in 1 .. m + 1 : next[i].pos = p
    <3>1. CASE p = k
      <4>1. m + 1 \in 1 .. m + 1
        BY <2>1
      <4> QED
        BY <1>2, <2>1, <3>1, <4>1
    <3>2. CASE p \in 1 .. k - 1
      <4>1. PICK i \in 1 .. m : l[i].pos = p
        BY <1>1, <2>5, <3>2 DEF m
      <4>2. i \in 1 .. m + 1 /\ next[i].pos = p
        BY <2>1, <4>1
      <4> QED
        BY <4>2
    <3> QED
      BY <1>3, <3>1, <3>2
  <2>6. IsSelection(headings, all, k, next)
    BY <2>1, <2>3, <2>4, <2>5 DEF IsSelection
  <2> QED
    BY <1>5, <2>6 DEF NextList, next
<1>6. CASE ~(headings[k].include \/ all)
  <2>1. \A p \in 1 .. k : headings[p].include \/ all => \E i \in 1 .. Len(l) : l[i].pos = p
    BY <1>1, <1>3, <1>6
  <2>2. IsSelection(headings, all, k, l)
    BY <1>1, <1>4, <2>1 DEF IsSelection
  <2> QED
    BY <1>6, <2>2 DEF NextList
<1> QED
  BY <1>5, <1>6

Selections(headings, all, k) == {l \in Seq(HeadingType) : IsSelection(headings, all, k, l)}

\* The lists that GetHeadingList goes through
ListOf(headings, all) ==
    CHOOSE list : list = [k \in 0 .. Len(headings) |->
        IF k = 0 THEN <<>> ELSE NextList(headings, all, k, list[k - 1])]

\* The list has the headings of the book, all or those to include, in its order.
LEMMA HeadingListSelects ==
    ASSUME NEW headings, IsBook(headings), NEW all \in BOOLEAN
    PROVE  IsSelection(headings, all, Len(headings), GetHeadingList(headings, all))
<1> DEFINE n == Len(headings)
           G == [k \in 0 .. n |-> Selections(headings, all, k)]
           F == [k \in 1 .. n |-> [l \in Selections(headings, all, k - 1) |->
                                      NextList(headings, all, k, l)]]
           list == ListOf(headings, all)
<1>0. \A k : \A l : l \in Selections(headings, all, k) <=> IsSelection(headings, all, k, l)
  BY DEF Selections, IsSelection
<1>1. <<>> \in Selections(headings, all, 0) /\ n \in Nat
  <2>1. IsSelection(headings, all, 0, <<>>)
    BY DEF IsSelection
  <2> QED
    BY <1>0, <2>1 DEF IsBook
<1>2. ASSUME NEW k \in 1 .. n, NEW l \in Selections(headings, all, k - 1)
      PROVE  NextList(headings, all, k, l) \in Selections(headings, all, k)
  BY <1>0, <1>2, NextListSelects
<1>3. \A k \in 1 .. n : k - 1 \in 0 .. n /\ k \in 0 .. n /\ k # 0
  OBVIOUS
<1>4. 0 \in 0 .. n /\ n \in 0 .. n
  BY <1>1
<1>5. \A k \in 0 .. n : G[k] = Selections(headings, all, k)
  OBVIOUS
<1>6. \A k \in 1 .. n : \A l \in Selections(headings, all, k - 1) :
         F[k][l] = NextList(headings, all, k, l)
  OBVIOUS
<1> HIDE DEF n, G, F, list
<1>7. PICK r : StepsFrom(n, <<>>, F, r) /\ \A k \in 0 .. n : r[k] \in G[k]
  <2>1. ASSUME NEW k \in 1 .. n, NEW x \in G[k - 1] PROVE F[k][x] \in G[k]
    <3>1. k - 1 \in 0 .. n /\ k \in 0 .. n
      BY <1>3
    <3>2. x \in Selections(headings, all, k - 1) /\ G[k] = Selections(headings, all, k)
      BY <1>5, <3>1
    <3> QED
      BY <1>2, <1>6, <3>2
  <2>2. StepsLead(n, <<>>, F, G)
    BY <1>1, <1>4, <1>5, <2>1 DEF StepsLead
  <2> QED
    BY <1>1, <2>2, Recursion
<1>8. ASSUME NEW k \in 0 .. n
      PROVE  (IF k = 0 THEN <<>> ELSE F[k][r[k - 1]])
               = IF k = 0 THEN <<>> ELSE NextList(headings, all, k, r[k - 1])
  <2>1. k # 0 => k \in 1 .. n /\ k - 1 \in 0 .. n
    BY <1>1
  <2>2. k # 0 => r[k - 1] \in Selections(headings, all, k - 1)
    BY <1>5, <1>7, <2>1
  <2> QED
    BY <1>6, <2>1, <2>2
<1>9. r = [k \in 0 .. n |-> IF k = 0 THEN <<>> ELSE NextList(headings, all, k, r[k - 1])]
  BY <1>7, <1>8 DEF StepsFrom
<1>10. list = [k \in 0 .. n |-> IF k = 0 THEN <<>> ELSE NextList(headings, all, k, list[k - 1])]
  BY <1>9 DEF list, ListOf, n
<1>11. list[0] = <<>> /\ \A k \in 1 .. n : list[k] = NextList(headings, all, k, list[k - 1])
  BY <1>3, <1>4, <1>10
<1>12. list[n] \in Selections(headings, all, n)
  <2> DEFINE S == {k \in 0 .. n : list[k] \in Selections(headings, all, k)}
  <2>1. 0 \in S
    BY <1>1, <1>4, <1>11
  <2>2. ASSUME NEW k \in 1 .. n, k - 1 \in S PROVE k \in S
    <3>1. list[k - 1] \in Selections(headings, all, k - 1)
      BY <2>2
    <3> QED
      BY <1>2, <1>3, <1>11, <3>1
  <2>3. \A k \in 0 .. n : k \in S
    <3> HIDE DEF S
    <3> QED
      BY <1>1, <2>1, <2>2, AllPositions
  <2> QED
    BY <1>4, <2>3
<1>13. GetHeadingList(headings, all) = list[n]
  BY DEF GetHeadingList, list, ListOf, NextList, n
<1> QED
  BY <1>0, <1>12, <1>13 DEF n

\* The list of all headings is the book.
LEMMA AllAreListed ==
    ASSUME NEW headings, IsBook(headings)
    PROVE  GetHeadingList(headings, TRUE) = headings
<1> DEFINE l == GetHeadingList(headings, TRUE)
           n == Len(headings)
           m == Len(l)
           p == [i \in 1 .. n |-> i]
           q == [i \in 1 .. m |-> l[i].pos]
<1>1. IsSelection(headings, TRUE, n, l)
  BY HeadingListSelects
<1> HIDE DEF l
<1>2. /\ l \in Seq(HeadingType) /\ m \in Nat /\ n \in Nat /\ headings \in Seq(HeadingType)
      /\ \A i \in 1 .. m : l[i].pos \in 1 .. n /\ l[i] = headings[l[i].pos]
      /\ \A i, j \in 1 .. m : i < j => l[i].pos < l[j].pos
      /\ \A i \in 1 .. n : (\A j \in 1 .. m : l[j].pos # i) => FALSE
  <2>1. headings \in Seq(HeadingType) /\ n \in Nat
    BY DEF IsBook
  <2>2. /\ l \in Seq(HeadingType)
        /\ \A i \in 1 .. m : l[i].pos \in 1 .. n /\ l[i] = headings[l[i].pos]
    BY <1>1 DEF IsSelection
  <2>3. \A i, j \in 1 .. m : i < j => l[i].pos < l[j].pos
    BY <1>1 DEF IsSelection
  <2>4. \A i \in 1 .. n : (\A j \in 1 .. m : l[j].pos # i) => FALSE
    BY <1>1 DEF IsSelection
  <2>5. m \in Nat
    BY <2>2
  <2> QED
    BY <2>1, <2>2, <2>3, <2>4, <2>5
<1>3. /\ p \in [1 .. n -> Nat] /\ \A i \in 1 .. n : p[i] = i
      /\ q \in [1 .. m -> Nat] /\ \A i \in 1 .. m : q[i] = l[i].pos
  BY <1>2
<1> HIDE DEF m, n, p, q
<1>4. Increasing(n, p) /\ Increasing(m, q)
  BY <1>2, <1>3 DEF Increasing
<1>5. Within(n, p, m, q)
  <2>1. ASSUME NEW i \in 1 .. n PROVE \E j \in 1 .. m : p[i] = q[j]
    <3>1. PICK j \in 1 .. m : l[j].pos = i
      BY <1>2
    <3>2. q[j] = i /\ p[i] = i
      BY <1>3, <3>1
    <3> QED
      BY <3>2
  <2> QED
    BY <2>1 DEF Within
<1>6. Within(m, q, n, p)
  <2>1. ASSUME NEW j \in 1 .. m PROVE \E i \in 1 .. n : q[j] = p[i]
    <3>1. q[j] \in 1 .. n
      BY <1>2, <1>3
    <3>2. p[q[j]] = q[j]
      BY <1>3, <3>1
    <3> QED
      BY <3>1, <3>2
  <2> QED
    BY <2>1 DEF Within
<1>7. n = m /\ \A i \in 1 .. n : p[i] = q[i]
  <2>1. n \in Nat /\ m \in Nat /\ p \in [1 .. n -> Nat] /\ q \in [1 .. m -> Nat]
    BY <1>2, <1>3
  <2> QED
    BY <1>4, <1>5, <1>6, <2>1, SameValues, SMTT(60), ZenonT(60)
<1>8. ASSUME NEW i \in 1 .. n PROVE l[i] = headings[i]
  <2>1. i \in 1 .. m /\ l[i].pos = i
    BY <1>3, <1>7
  <2> QED
    BY <1>2, <2>1
<1>9. l = headings
  BY <1>2, <1>7, <1>8, SeqEqual DEF m, n
<1> QED
  BY <1>9 DEF l

-----------------------------------------------------------------------------
(* The NCX *)

HeadingPoint(nodes, k) == [playOrder |-> k, pos |-> nodes[k].heading.pos, depth |-> nodes[k].depth]
HeadingPoints(nodes, k) == [i \in 1 .. k |-> HeadingPoint(nodes, i)]

\* The points with the next one
NextPoints(nodes, k, points) ==
    IF ~nodes[k].heading.include THEN points
    ELSE Append(points,
            [playOrder |-> Len(points) + 1, pos |-> nodes[k].heading.pos,
             depth |-> Cardinality(IncludedIn(nodes, Above(nodes, k)))])

\* The lists that WriteNavPoints goes through
PointsOf(nodes) ==
    CHOOSE points : points = [k \in 0 .. Len(nodes) |->
        IF k = 0 THEN <<>> ELSE NextPoints(nodes, k, points[k - 1])]

\* Nodes that are all included
AllIncluded(nodes, headings) ==
    /\ Len(headings) \in Nat /\ nodes \in Trees(headings, Len(headings))
    /\ \A i \in 1 .. Len(headings) : headings[i] \in HeadingType /\ headings[i].include

\* Node i is written, inside of as many points as it is inside of nodes.
IsIncluded(nodes, headings, i) ==
    /\ nodes[i].heading = headings[i] /\ nodes[i].heading.include
    /\ nodes[i].heading.pos \in Nat
    /\ nodes[i].depth \in Nat /\ nodes[i].depth = Cardinality(Above(nodes, i))
    /\ IsFiniteSet(Above(nodes, i))
    /\ IncludedIn(nodes, Above(nodes, i)) = Above(nodes, i)
    /\ IncludedIn(nodes, Above(nodes, i) \cup {i}) = Above(nodes, i) \cup {i}

\* In a tree of included headings every node is written.
LEMMA NodesAreIncluded ==
    ASSUME NEW headings, NEW nodes, AllIncluded(nodes, headings)
    PROVE  /\ Len(nodes) = Len(headings) /\ Len(nodes) \in Nat /\ DOMAIN nodes = 1 .. Len(nodes)
           /\ LevelsOf(headings, Len(nodes)) \in [1 .. Len(nodes) -> Int]
           /\ OutlineOf(Len(nodes), LevelsOf(headings, Len(nodes)), nodes)
           /\ \A i \in 1 .. Len(nodes) : IsIncluded(nodes, headings, i)
<1> DEFINE n == Len(headings)
           L == LevelsOf(headings, n)
<1>1. /\ n \in Nat /\ Len(nodes) = n /\ DOMAIN nodes = 1 .. n /\ OutlineOf(n, L, nodes)
      /\ \A i \in 1 .. n : nodes[i].heading = headings[i]
      /\ \A i \in 1 .. n : headings[i] \in HeadingType /\ headings[i].include
  BY DEF AllIncluded, Trees, OutlineOf
<1>2. L \in [1 .. n -> Int]
  <2>1. \A i \in 1 .. n : headings[i].level \in Int
    BY <1>1, LevelsAssumption DEF HeadingType
  <2> QED
    BY <2>1 DEF LevelsOf
<1> HIDE DEF L, n
<1>3. \A i \in 1 .. n : /\ IsFiniteSet(Above(nodes, i))
                        /\ Cardinality(Above(nodes, i)) = nodes[i].depth
                        /\ nodes[i].depth \in Nat
  BY <1>1, <1>2, DepthCounts
<1>4. \A i \in 1 .. n : \A j \in Above(nodes, i) \cup {i} : j \in 1 .. n
  BY <1>1 DEF Above
<1>5. \A i \in 1 .. n : nodes[i].heading.include /\ nodes[i].heading.pos \in Nat
  BY <1>1 DEF HeadingType
<1>6. \A i \in 1 .. n : /\ IncludedIn(nodes, Above(nodes, i)) = Above(nodes, i)
                        /\ IncludedIn(nodes, Above(nodes, i) \cup {i}) = Above(nodes, i) \cup {i}
  BY <1>4, <1>5 DEF IncludedIn
<1> QED
  BY <1>1, <1>2, <1>3, <1>5, <1>6 DEF L, n, IsIncluded

\* WriteNavPoints writes such a tree as it is, numbered from 1.
LEMMA PointsFollowNodes ==
    ASSUME NEW headings, NEW nodes, AllIncluded(nodes, headings)
    PROVE  WriteNavPoints(nodes) = HeadingPoints(nodes, Len(nodes))
<1> DEFINE n == Len(nodes)
           points == PointsOf(nodes)
           r == [k \in 0 .. n |-> HeadingPoints(nodes, k)]
           Point == [playOrder : Nat, pos : Nat, depth : Nat]
<1>1. /\ n \in Nat
      /\ \A i \in 1 .. n :
            /\ nodes[i].heading.include /\ nodes[i].heading.pos \in Nat
            /\ nodes[i].depth \in Nat /\ nodes[i].depth = Cardinality(Above(nodes, i))
            /\ IncludedIn(nodes, Above(nodes, i)) = Above(nodes, i)
  <2>1. n \in Nat /\ \A i \in 1 .. n : IsIncluded(nodes, headings, i)
    BY NodesAreIncluded
  <2> HIDE DEF n
  <2> QED
    BY <2>1 DEF IsIncluded
<1> HIDE DEF n
<1>2. HeadingPoints(nodes, 0) = <<>>
  BY DEF HeadingPoints
<1>3. ASSUME NEW k \in 1 .. n
      PROVE  HeadingPoints(nodes, k) = NextPoints(nodes, k, HeadingPoints(nodes, k - 1))
  <2> DEFINE a == HeadingPoints(nodes, k - 1)
             b == HeadingPoints(nodes, k)
             e == HeadingPoint(nodes, k)
  <2>1. \A i \in 1 .. k : i \in 1 .. n /\ HeadingPoint(nodes, i) \in Point
    <3>1. \A i \in 1 .. k : i \in 1 .. n /\ i \in Nat
      BY <1>1
    <3> QED
      BY <1>1, <3>1 DEF HeadingPoint
  <2>2. k - 1 \in Nat /\ k \in Nat /\ \A i \in 1 .. k - 1 : i \in 1 .. k
    BY <1>1
  <2> HIDE DEF Point
  <2>3. /\ a \in [1 .. k - 1 -> Point] /\ \A i \in 1 .. k - 1 : a[i] = HeadingPoint(nodes, i)
        /\ b \in [1 .. k -> Point] /\ \A i \in 1 .. k : b[i] = HeadingPoint(nodes, i)
    BY <2>1, <2>2 DEF HeadingPoints
  <2>4. e \in Point
    BY <2>1, <2>2
  <2> HIDE DEF a, b, e
  <2>5. /\ a \in Seq(Point) /\ Len(a) = k - 1 /\ b \in Seq(Point) /\ Len(b) = k
    BY <2>2, <2>3, FunctionIsASequence
  <2>6. /\ Append(a, e) \in Seq(Point) /\ Len(Append(a, e)) = k
        /\ \A i \in 1 .. k - 1 : Append(a, e)[i] = a[i]
        /\ Append(a, e)[k] = e
    BY <2>2, <2>4, <2>5
  <2>7. \A i \in 1 .. k : b[i] = Append(a, e)[i]
    <3>1. \A i \in 1 .. k : i = k \/ i \in 1 .. k - 1
      BY <2>2
    <3> QED
      BY <2>3, <2>6, <3>1 DEF e
  <2>8. b = Append(a, e)
    BY <2>5, <2>6, <2>7, SeqEqual
  <2>9. e = [playOrder |-> Len(a) + 1, pos |-> nodes[k].heading.pos,
             depth |-> Cardinality(IncludedIn(nodes, Above(nodes, k)))]
    <3>1. Len(a) + 1 = k
      BY <2>2, <2>5
    <3> QED
      BY <1>1, <3>1 DEF e, HeadingPoint
  <2> QED
    BY <1>1, <2>8, <2>9 DEF NextPoints, a, b
<1>4. \A k \in 1 .. n : k - 1 \in 0 .. n /\ k \in 0 .. n /\ k # 0
  BY <1>1
<1>5. 0 \in 0 .. n /\ n \in 0 .. n
  BY <1>1
<1>6. \A k \in 0 .. n : r[k] = HeadingPoints(nodes, k)
  OBVIOUS
<1>7. r = [k \in 0 .. n |-> IF k = 0 THEN <<>> ELSE NextPoints(nodes, k, r[k - 1])]
  <2>1. ASSUME NEW k \in 0 .. n
        PROVE  HeadingPoints(nodes, k) = IF k = 0 THEN <<>> ELSE NextPoints(nodes, k, r[k - 1])
    <3>1. k # 0 => k \in 1 .. n /\ k - 1 \in 0 .. n
      BY <1>1
    <3>2. k # 0 => r[k - 1] = HeadingPoints(nodes, k - 1)
      BY <1>6, <3>1
    <3> QED
      BY <1>2, <1>3, <3>1, <3>2
  <2> QED
    BY <2>1
<1> HIDE DEF r, points
<1>8. points = [k \in 0 .. n |-> IF k = 0 THEN <<>> ELSE NextPoints(nodes, k, points[k - 1])]
  BY <1>7 DEF points, PointsOf, n
<1>9. points[0] = <<>> /\ \A k \in 1 .. n : points[k] = NextPoints(nodes, k, points[k - 1])
  BY <1>4, <1>5, <1>8
<1>10. points[n] = HeadingPoints(nodes, n)
  <2> DEFINE S == {k \in 0 .. n : points[k] = HeadingPoints(nodes, k)}
  <2>1. 0 \in S
    BY <1>2, <1>5, <1>9
  <2>2. ASSUME NEW k \in 1 .. n, k - 1 \in S PROVE k \in S
    BY <1>3, <1>4, <1>9, <2>2
  <2>3. \A k \in 0 .. n : k \in S
    <3> HIDE DEF S
    <3> QED
      BY <1>1, <2>1, <2>2, AllPositions
  <2> QED
    BY <1>5, <2>3
<1>11. WriteNavPoints(nodes) = points[n]
  BY DEF WriteNavPoints, points, PointsOf, NextPoints, n
<1> QED
  BY <1>10, <1>11 DEF n

\* The greatest of some numbers is that of those and 0.
LEMMA MaxWithZero ==
    ASSUME NEW n \in Nat \ {0}, NEW g \in [1 .. n -> Nat]
    PROVE  Max({0} \cup {g[i] : i \in 1 .. n}) = Max({g[i] : i \in 1 .. n})
<1> DEFINE X == {g[i] : i \in 1 .. n}
           Y == {0} \cup X
<1>1. PICK b \in Nat : \A i \in 1 .. n : g[i] <= b
  BY ValuesAreBounded
<1>2. \A x \in X : x \in Nat /\ x <= b
  BY <1>1
<1>3. g[1] \in X
  BY <1>1
<1> HIDE DEF X
<1>4. \A y \in Y : y \in 0 .. b
  BY <1>2
<1>5. X \in SUBSET (0 .. b) /\ X # {} /\ Y \in SUBSET (0 .. b) /\ Y # {}
  <2>1. \A x \in X : x \in Y
    OBVIOUS
  <2> HIDE DEF Y
  <2> QED
    BY <1>3, <1>4, <2>1
<1>6. Max(X) \in X /\ \A x \in X : x <= Max(X)
  BY <1>5, MaxIsGreatest
<1>7. Max(Y) \in Y /\ \A y \in Y : y <= Max(Y)
  <2> HIDE DEF Y
  <2> QED
    BY <1>5, MaxIsGreatest
<1> DEFINE mx == Max(X)
           my == Max(Y)
<1>8. mx \in Nat /\ my \in Nat /\ mx <= my /\ (my = 0 \/ my <= mx)
  <2>1. mx \in X /\ mx \in Y /\ (my = 0 \/ my \in X)
    BY <1>6, <1>7
  <2> HIDE DEF mx, my, Y
  <2>2. mx \in Nat /\ my \in Nat
    BY <1>2, <2>1
  <2> QED
    BY <1>6, <1>7, <2>1, <2>2 DEF mx, my
<1>9. mx = my
  <2> HIDE DEF mx, my
  <2> QED
    BY <1>8
<1> QED
  BY <1>9 DEF X, Y

\* NavMapFollowsTheHeadings, of a book and its NCX
NavMapFollows(wanted, navigation) ==
    /\ Len(navigation.navMap) = Len(wanted)
    /\ \A i \in 1 .. Len(wanted) :
          /\ navigation.navMap[i].playOrder = i /\ navigation.navMap[i].pos = wanted[i].pos
          /\ Max({0} \cup Above(navigation.navMap, i)) = ParentIn(wanted, i)
    /\ navigation.depth = Max({Cardinality(Above(navigation.navMap, i)) + 1 : i \in 1 .. Len(wanted)})

\* The NCX that is generated for a book follows its headings.
LEMMA GeneratedFollows ==
    ASSUME NEW headings, IsBook(headings), Len(GetHeadingList(headings, FALSE)) > 0
    PROVE  NavMapFollows(GetHeadingList(headings, FALSE), GenerateNCX(headings))
<1> DEFINE wanted == GetHeadingList(headings, FALSE)
           n == Len(wanted)
           nodes == MakeHeadingHeirarchy(wanted)
           navigation == GenerateNCX(headings)
           navMap == HeadingPoints(nodes, n)
           L == LevelsOf(wanted, n)
<1>1. /\ n \in Nat \ {0} /\ wanted \in Seq(HeadingType)
      /\ \A i \in 1 .. n : wanted[i] \in HeadingType /\ wanted[i].include
  <2>1. IsSelection(headings, FALSE, Len(headings), wanted)
    BY HeadingListSelects
  <2> HIDE DEF wanted
  <2>2. wanted \in Seq(HeadingType) /\ \A i \in 1 .. n : wanted[i].include
    BY <2>1 DEF IsSelection
  <2>3. n > 0
    BY DEF wanted
  <2>4. n \in Nat /\ \A i \in 1 .. n : wanted[i] \in HeadingType
    BY <2>2
  <2> QED
    BY <2>2, <2>3, <2>4
<1>2. navigation = [depth |-> GetHeadingsDepth(nodes), navMap |-> WriteNavMap(nodes)]
  BY DEF GenerateNCX
<1> HIDE DEF wanted, navigation
<1>3. AllIncluded(nodes, wanted)
  <2>1. \A i \in 1 .. n : wanted[i].level \in Int
    BY <1>1, LevelsAssumption DEF HeadingType
  <2>2. nodes \in Trees(wanted, n)
    BY <1>1, <2>1, HierarchyIsOutline
  <2> QED
    BY <1>1, <2>2 DEF AllIncluded
<1> HIDE DEF nodes
<1>4. /\ Len(nodes) = n /\ DOMAIN nodes = 1 .. n /\ L \in [1 .. n -> Int] /\ OutlineOf(n, L, nodes)
      /\ \A i \in 1 .. n : IsIncluded(nodes, wanted, i)
  BY <1>3, NodesAreIncluded
<1> HIDE DEF n
<1>5. navigation.navMap = navMap
  <2>1. nodes # <<>>
    BY <1>1, <1>4
  <2>2. WriteNavMap(nodes) = navMap
    BY <1>3, <1>4, <2>1, PointsFollowNodes DEF WriteNavMap
  <2> QED
    BY <1>2, <2>2
<1>6. /\ DOMAIN navMap = 1 .. n /\ Len(navMap) = n
      /\ \A i \in 1 .. n : /\ navMap[i].playOrder = i /\ navMap[i].pos = wanted[i].pos
                           /\ navMap[i].depth = nodes[i].depth
  <2>1. \A i \in 1 .. n : nodes[i].heading = wanted[i]
    BY <1>4 DEF IsIncluded
  <2>2. \A i \in 1 .. n : navMap[i] = HeadingPoint(nodes, i)
    BY DEF HeadingPoints
  <2>3. DOMAIN navMap = 1 .. n /\ Len(navMap) = n
    BY <1>1 DEF HeadingPoints
  <2> HIDE DEF navMap
  <2> QED
    BY <2>1, <2>2, <2>3 DEF HeadingPoint
<1> HIDE DEF navMap, L
<1>7. OutlineOf(n, L, navMap)
  <2>1. \A i \in 1 .. n : navMap[i].depth = nodes[i].depth
    BY <1>6
  <2>2. [i \in 1 .. n |-> navMap[i].depth] = [i \in 1 .. n |-> nodes[i].depth]
    BY <2>1
  <2>3. Depths(navMap) = Depths(nodes)
    BY <1>4, <1>6, <2>2 DEF Depths
  <2> QED
    BY <1>4, <1>6, <2>3 DEF OutlineOf
<1>8. ASSUME NEW i \in 1 .. n
      PROVE  Max({0} \cup Above(navMap, i)) = ParentIn(wanted, i)
  <2>1. ParentOf(navMap, i) = NearestOf(L, i)
    <3>1. n \in Nat /\ L \in [1 .. n -> Int]
      BY <1>1, <1>4
    <3> QED
      BY <1>7, <3>1, ParentIsNearest
  <2>2. \A j \in 1 .. i - 1 : L[j] = wanted[j].level /\ L[i] = wanted[i].level
    <3>1. \A j \in 1 .. i - 1 : j \in 1 .. n
      BY <1>1
    <3> QED
      BY <3>1 DEF L, LevelsOf
  <2>3. Bigger(L, i) = {j \in 1 .. i - 1 : wanted[j].level < wanted[i].level}
    BY <2>2 DEF Bigger
  <2> QED
    BY <2>1, <2>3 DEF ParentIn, ParentOf, NearestOf
<1> DEFINE g == [i \in 1 .. n |-> nodes[i].depth + 1]
<1>9. \A i \in 1 .. n : nodes[i].depth \in Nat
  BY <1>4 DEF IsIncluded
<1>10. g \in [1 .. n -> Nat] /\ \A i \in 1 .. n : g[i] = nodes[i].depth + 1
  BY <1>9
<1>11. \A i \in 1 .. n : Cardinality(Above(navMap, i)) + 1 = g[i]
  <2>1. n \in Nat /\ L \in [1 .. n -> Int]
    BY <1>1, <1>4
  <2>2. \A i \in 1 .. n : Cardinality(Above(navMap, i)) = navMap[i].depth
    BY <1>7, <2>1, DepthCounts
  <2> QED
    BY <1>6, <1>10, <2>2
<1>12. ASSUME NEW i \in 1 .. n
       PROVE  Cardinality(IncludedIn(nodes, Above(nodes, i) \cup {i})) = g[i]
  <2>1. /\ IncludedIn(nodes, Above(nodes, i) \cup {i}) = Above(nodes, i) \cup {i}
        /\ IsFiniteSet(Above(nodes, i)) /\ Cardinality(Above(nodes, i)) = nodes[i].depth
    BY <1>4 DEF IsIncluded
  <2>2. i \notin Above(nodes, i)
    BY DEF Above
  <2>3. Cardinality(Above(nodes, i) \cup {i}) = Cardinality(Above(nodes, i)) + 1
    BY <2>1, <2>2, FS_AddElement
  <2> QED
    BY <1>10, <2>1, <2>3
<1> HIDE DEF g
<1>13. navigation.depth = Max({Cardinality(Above(navMap, i)) + 1 : i \in 1 .. n})
  <2>1. {Cardinality(Above(navMap, i)) + 1 : i \in 1 .. n} = {g[i] : i \in 1 .. n}
    BY <1>11
  <2>2. {Cardinality(IncludedIn(nodes, Above(nodes, i) \cup {i})) : i \in DOMAIN nodes}
          = {g[i] : i \in 1 .. n}
    BY <1>4, <1>12
  <2>3. GetHeadingsDepth(nodes) = Max({0} \cup {g[i] : i \in 1 .. n})
    BY <2>2 DEF GetHeadingsDepth
  <2>4. Max({0} \cup {g[i] : i \in 1 .. n}) = Max({g[i] : i \in 1 .. n})
    BY <1>1, <1>10, MaxWithZero
  <2>5. navigation.depth = GetHeadingsDepth(nodes)
    BY <1>2
  <2> QED
    BY <2>1, <2>3, <2>4, <2>5
<1>14. NavMapFollows(wanted, navigation)
  BY <1>5, <1>6, <1>8, <1>13 DEF NavMapFollows, n
<1> QED
  BY <1>14 DEF wanted, navigation

-----------------------------------------------------------------------------
(* Outlines whose nodes move *)

\* The i-th node but node x
Skip(i, x) == IF i < x THEN i ELSE i + 1

\* An outline remains one without a node that has none inside of it.
LEMMA RemoveKeepsOutline ==
    ASSUME NEW n \in Nat, NEW L \in [1 .. n + 1 -> Int], NEW D \in [1 .. n + 1 -> Nat],
           IsOutline(n + 1, L, D), NEW x \in 1 .. n + 1, x = n + 1 \/ L[x + 1] <= L[x],
           NEW M, NEW E, \A i \in 1 .. n : M[i] = L[Skip(i, x)] /\ E[i] = D[Skip(i, x)]
    PROVE  IsOutline(n, M, E)
<1> SUFFICES ASSUME NEW i \in 1 .. n PROVE IsPlaced(M, E, i)
  BY DEF IsOutline
<1> DEFINE a == Skip(i, x)
<1>1. /\ a \in 1 .. n + 1 /\ i \in Int /\ x \in Int
      /\ \A j \in 1 .. i - 1 : Skip(j, x) \in 1 .. a - 1 /\ j \in 1 .. n
  BY DEF Skip
<1>2. M[i] = L[a] /\ E[i] = D[a]
  OBVIOUS
<1>3. \A j \in 1 .. i - 1 : M[j] = L[Skip(j, x)] /\ E[j] = D[Skip(j, x)]
  BY <1>1
<1>4. IsPlaced(L, D, a)
  BY <1>1 DEF IsOutline
<1>5. CASE D[a] = 0 /\ \A j \in 1 .. a - 1 : L[j] >= L[a]
  BY <1>1, <1>2, <1>3, <1>5 DEF IsPlaced
<1>6. ASSUME NEW p \in 1 .. a - 1, Nearest(L, p, a), D[a] = D[p] + 1 PROVE IsPlaced(M, E, i)
  <2> HIDE DEF a
  <2>1. L[p] < L[a] /\ \A k \in p + 1 .. a - 1 : L[k] >= L[a]
    BY <1>6 DEF Nearest
  <2>2. p # x
    <3>1. ASSUME p = x PROVE FALSE
      <4>5. x \in 1 .. n + 1 /\ a \in 1 .. n + 1 /\ x \in 1 .. a - 1 /\ p = x
        BY <1>1, <3>1
      <4>1. x + 1 \in 1 .. n + 1 /\ (x + 1 = a \/ x + 1 \in p + 1 .. a - 1)
        BY <4>5
      <4>6. x # n + 1
        BY <4>5
      <4>2. L[x + 1] <= L[x]
        BY <4>6
      <4>3. L[x + 1] >= L[a]
        <5>1. CASE x + 1 = a
          <6>1. L[a] \in Int
            BY <4>5
          <6> QED
            BY <5>1, <6>1
        <5>2. CASE x + 1 \in p + 1 .. a - 1
          BY <2>1, <5>2
        <5> QED
          BY <4>1, <5>1, <5>2
      <4>4. L[x + 1] \in Int /\ L[x] \in Int /\ L[a] \in Int
        BY <4>1, <4>5
      <4>7. L[x] < L[a]
        BY <2>1, <3>1
      <4> DEFINE u == L[x + 1]
                 v == L[x]
                 w == L[a]
      <4>8. u \in Int /\ v \in Int /\ w \in Int /\ u <= v /\ u >= w /\ v < w
        BY <4>2, <4>3, <4>4, <4>7
      <4> HIDE DEF u, v, w
      <4> QED
        BY <4>8
    <3> QED
      BY <3>1
  <2> DEFINE q == IF p < x THEN p ELSE p - 1
  <2>3. q \in 1 .. i - 1 /\ Skip(q, x) = p /\ \A k \in q + 1 .. i - 1 : Skip(k, x) \in p + 1 .. a - 1
    BY <1>1, <2>2 DEF Skip, a
  <2> HIDE DEF q
  <2>4. M[q] = L[p] /\ E[q] = D[p]
    BY <1>3, <2>3
  <2>5. \A k \in q + 1 .. i - 1 : k \in 1 .. i - 1
    BY <1>1, <2>3
  <2>6. \A k \in q + 1 .. i - 1 : M[k] >= M[i]
    BY <1>2, <1>3, <2>1, <2>3, <2>5
  <2>7. Nearest(M, q, i) /\ E[i] = E[q] + 1
    BY <1>2, <1>6, <2>1, <2>4, <2>6 DEF Nearest
  <2> QED
    BY <2>3, <2>7 DEF IsPlaced
<1> QED
  BY <1>4, <1>5, <1>6 DEF IsPlaced

\* Where node i was before the nodes after x up to e moved before x
Old(i, x, e) == IF i < x \/ i > e THEN i ELSE IF i = e THEN x ELSE i + 1

\* Node x + 1 and those inside of it are the nodes up to e.
IsFirstInside(n, L, x, e) ==
    /\ x \in 1 .. n /\ e \in x + 1 .. n /\ L[x] < L[x + 1]
    /\ \A k \in x + 2 .. e : L[k] > L[x + 1]
    /\ e = n \/ L[e + 1] <= L[x + 1]

\* d is the depth of a node before x that is as big as node x + 1.
IsDepthBefore(L, D, x, d) ==
    \/ d = 0 /\ \A j \in 1 .. x - 1 : L[j] >= L[x + 1]
    \/ \E p \in 1 .. x - 1 : /\ L[p] < L[x + 1] /\ \A k \in p + 1 .. x - 1 : L[k] >= L[x + 1]
                             /\ d = D[p] + 1

\* Levels and depths after the nodes moved
IsRaised(n, L, D, x, e, d, M, E) ==
    \A i \in 1 .. n : /\ M[i] = L[Old(i, x, e)]
                      /\ E[i] = IF i \in x .. e - 1 THEN D[i + 1] + d - D[x + 1]
                                ELSE D[Old(i, x, e)]

\* A node of the nodes that move is below the same node as before.
LEMMA RaisedArePlaced ==
    ASSUME NEW n \in Nat, NEW L \in [1 .. n -> Int], NEW D \in [1 .. n -> Nat],
           IsOutline(n, L, D), NEW x, NEW e, IsFirstInside(n, L, x, e),
           NEW d \in Nat, IsDepthBefore(L, D, x, d),
           NEW M, NEW E, IsRaised(n, L, D, x, e, d, M, E), NEW i \in x .. e - 1
    PROVE  IsPlaced(M, E, i)
<1>1. /\ x \in 1 .. n /\ e \in x + 1 .. n /\ L[x] < L[x + 1]
      /\ \A k \in x + 2 .. e : L[k] > L[x + 1]
  BY DEF IsFirstInside
<1>2. ASSUME NEW k \in x .. e - 1
      PROVE  /\ M[k] = L[k + 1] /\ E[k] = D[k + 1] + d - D[x + 1] /\ k \in 1 .. n
             /\ D[k + 1] \in Nat
  <2>1. k \in 1 .. n /\ k + 1 \in 1 .. n /\ Old(k, x, e) = k + 1
    BY <1>1 DEF Old
  <2>2. M[k] = L[k + 1] /\ E[k] = D[k + 1] + d - D[x + 1]
    BY <2>1 DEF IsRaised
  <2> QED
    BY <2>1, <2>2
<1>3. ASSUME NEW k \in 1 .. x - 1 PROVE M[k] = L[k] /\ E[k] = D[k] /\ k \in 1 .. n
  <2>1. k \in 1 .. n /\ Old(k, x, e) = k /\ k \notin x .. e - 1
    BY <1>1 DEF Old
  <2> QED
    BY <2>1 DEF IsRaised
<1>4. D[x + 1] \in Nat
  BY <1>1
<1>5. CASE i = x
  <2>1. M[x] = L[x + 1] /\ E[x] = d
    <3>1. M[x] = L[x + 1] /\ E[x] = D[x + 1] + d - D[x + 1]
      BY <1>2, <1>5
    <3> QED
      BY <1>4, <3>1
  <2>2. CASE d = 0 /\ \A j \in 1 .. x - 1 : L[j] >= L[x + 1]
    BY <1>3, <1>5, <2>1, <2>2 DEF IsPlaced
  <2>3. ASSUME NEW p \in 1 .. x - 1, L[p] < L[x + 1], \A k \in p + 1 .. x - 1 : L[k] >= L[x + 1],
               d = D[p] + 1
        PROVE  IsPlaced(M, E, x)
    <3>1. M[p] = L[p] /\ E[p] = D[p]
      BY <1>3
    <3>2. ASSUME NEW k \in p + 1 .. x - 1 PROVE M[k] >= M[x]
      <4>1. k \in 1 .. x - 1
        OBVIOUS
      <4> QED
        BY <1>3, <2>1, <2>3, <4>1
    <3>3. Nearest(M, p, x) /\ E[x] = E[p] + 1
      BY <2>1, <2>3, <3>1, <3>2 DEF Nearest
    <3> QED
      BY <3>3 DEF IsPlaced
  <2> QED
    BY <1>5, <2>2, <2>3 DEF IsDepthBefore
<1>6. CASE i # x
  <2>1. i + 1 \in 1 .. n /\ i + 1 \in x + 2 .. e /\ x + 1 \in 1 .. i
    BY <1>1, <1>6
  <2>2. L[i + 1] > L[x + 1]
    BY <1>1, <2>1
  <2>3. IsPlaced(L, D, i + 1)
    BY <2>1 DEF IsOutline
  <2>4. PICK p \in 1 .. i : Nearest(L, p, i + 1) /\ D[i + 1] = D[p] + 1
    <3>1. L[x + 1] \in Int /\ L[i + 1] \in Int
      BY <1>1, <2>1
    <3>2. ~(L[x + 1] >= L[i + 1])
      BY <2>2, <3>1
    <3>3. (i + 1) - 1 = i
      BY <1>1
    <3> QED
      BY <2>1, <2>3, <3>2, <3>3 DEF IsPlaced
  <2>5. L[p] < L[i + 1] /\ \A k \in p + 1 .. i : L[k] >= L[i + 1]
    <3>1. (i + 1) - 1 = i
      BY <1>1
    <3> QED
      BY <2>4, <3>1 DEF Nearest
  <2>6. p >= x + 1
    <3>1. x + 1 \in p + 1 .. i => L[x + 1] >= L[i + 1]
      BY <2>5
    <3>2. L[x + 1] \in Int /\ L[i + 1] \in Int
      BY <1>1, <2>1
    <3>3. x + 1 \notin p + 1 .. i
      BY <2>2, <3>1, <3>2
    <3> QED
      BY <1>1, <2>1, <3>3
  <2>7. p - 1 \in x .. e - 1 /\ p - 1 \in 1 .. i - 1 /\ (p - 1) + 1 = p
    BY <1>1, <2>1, <2>6
  <2>8. M[p - 1] = L[p] /\ E[p - 1] = D[p] + d - D[x + 1] /\ D[p] \in Nat
    BY <1>2, <2>7
  <2>9. ASSUME NEW k \in (p - 1) + 1 .. i - 1 PROVE M[k] >= M[i]
    <3>1. k \in x .. e - 1 /\ k + 1 \in p + 1 .. i
      BY <1>1, <2>6
    <3> QED
      BY <1>2, <2>5, <3>1
  <2>10. M[i] = L[i + 1] /\ E[i] = D[i + 1] + d - D[x + 1]
    BY <1>2
  <2>11. E[i] = E[p - 1] + 1
    <3>1. D[i + 1] \in Nat /\ D[x + 1] \in Nat
      BY <1>1, <2>1
    <3>2. D[i + 1] = D[p] + 1
      BY <2>4
    <3>3. D[p] \in Nat /\ d \in Nat
      BY <2>8
    <3>4. D[p] + 1 + d - D[x + 1] = D[p] + d - D[x + 1] + 1
      <4> DEFINE u == D[p]
                 w == D[x + 1]
      <4>1. u \in Nat /\ w \in Nat
        BY <3>1, <3>3
      <4> HIDE DEF u, w
      <4>2. u + 1 + d - w = u + d - w + 1
        BY <4>1
      <4> QED
        BY <4>2 DEF u, w
    <3> QED
      BY <2>8, <2>10, <3>2, <3>4
  <2>12. Nearest(M, p - 1, i)
    BY <2>5, <2>8, <2>9, <2>10 DEF Nearest
  <2> QED
    BY <2>7, <2>11, <2>12 DEF IsPlaced
<1> QED
  BY <1>5, <1>6

\* What comes later than the nodes that move is not inside of them.
LEMMA LaterIsOutside ==
    ASSUME NEW n \in Nat, NEW L \in [1 .. n -> Int], NEW x, NEW e, IsFirstInside(n, L, x, e),
           NEW i \in e + 1 .. n, NEW p \in 1 .. i - 1, Nearest(L, p, i)
    PROVE  p \notin x + 1 .. e
<1>1. /\ x \in 1 .. n /\ e \in x + 1 .. n
      /\ \A k \in x + 2 .. e : L[k] > L[x + 1]
      /\ e = n \/ L[e + 1] <= L[x + 1]
  BY DEF IsFirstInside
<1>2. L[p] < L[i] /\ \A k \in p + 1 .. i - 1 : L[k] >= L[i]
  BY DEF Nearest
<1> SUFFICES ASSUME p \in x + 1 .. e PROVE FALSE
  OBVIOUS
<1>3. /\ e + 1 \in 1 .. n /\ x + 1 \in 1 .. n /\ p \in 1 .. n /\ i \in 1 .. n
      /\ L[e + 1] <= L[x + 1]
  BY <1>1
<1>4. L[x + 1] <= L[p]
  <2>1. p = x + 1 \/ p \in x + 2 .. e
    BY <1>1
  <2>2. p \in x + 2 .. e => L[p] > L[x + 1]
    BY <1>1
  <2> QED
    BY <1>3, <2>1, <2>2
<1>5. L[i] <= L[e + 1]
  <2>1. i = e + 1 \/ e + 1 \in p + 1 .. i - 1
    BY <1>1
  <2>2. e + 1 \in p + 1 .. i - 1 => L[e + 1] >= L[i]
    BY <1>2
  <2> QED
    BY <1>3, <2>1, <2>2
<1>6. L[p] \in Int /\ L[i] \in Int /\ L[e + 1] \in Int /\ L[x + 1] \in Int
  BY <1>3
<1> QED
  BY <1>2, <1>3, <1>4, <1>5, <1>6

\* Every other node is below the same node as before.
LEMMA OthersArePlaced ==
    ASSUME NEW n \in Nat, NEW L \in [1 .. n -> Int], NEW D \in [1 .. n -> Nat],
           IsOutline(n, L, D), NEW x, NEW e, IsFirstInside(n, L, x, e),
           NEW d \in Nat, NEW M, NEW E, IsRaised(n, L, D, x, e, d, M, E),
           NEW i \in 1 .. n, i \notin x .. e - 1
    PROVE  IsPlaced(M, E, i)
<1> DEFINE a == Old(i, x, e)
           New(p) == IF p < x \/ p > e THEN p ELSE IF p = x THEN e ELSE p - 1
<1>1. /\ x \in 1 .. n /\ e \in x + 1 .. n /\ L[x] < L[x + 1]
      /\ \A k \in x + 2 .. e : L[k] > L[x + 1]
  BY DEF IsFirstInside
<1>2. \A k \in 1 .. n : M[k] = L[Old(k, x, e)]
  BY DEF IsRaised
<1>3. \A k \in 1 .. n : k \notin x .. e - 1 => E[k] = D[Old(k, x, e)]
  BY DEF IsRaised
<1>4. /\ a \in 1 .. n /\ a = (IF i = e THEN x ELSE i) /\ M[i] = L[a] /\ E[i] = D[a]
      /\ i < x \/ i = e \/ i > e
  <2>1. a \in 1 .. n /\ a = (IF i = e THEN x ELSE i) /\ (i < x \/ i = e \/ i > e)
    BY <1>1 DEF Old
  <2> QED
    BY <1>2, <1>3, <2>1
<1>5. ASSUME NEW k \in 1 .. i - 1
      PROVE  /\ k \in 1 .. n /\ Old(k, x, e) \in 1 .. n
             /\ Old(k, x, e) \in 1 .. a - 1 \/ (i = e /\ Old(k, x, e) \in x + 1 .. e)
  <2>1. x \in 1 .. n /\ e \in x + 1 .. n /\ k \in 1 .. n
    BY <1>1
  <2>2. a = (IF i = e THEN x ELSE i) /\ (i < x \/ i = e \/ i > e)
    BY <1>4
  <2> HIDE DEF a
  <2>3. CASE i < x
    BY <2>1, <2>2, <2>3 DEF Old
  <2>4. CASE i = e
    BY <2>1, <2>2, <2>4 DEF Old
  <2>5. CASE i > e
    BY <2>1, <2>2, <2>5 DEF Old
  <2> QED
    BY <2>2, <2>3, <2>4, <2>5
<1>6. i = e => \A k \in x + 1 .. e : k \in 1 .. n /\ L[k] > L[x]
  <2>1. ASSUME NEW k \in x + 1 .. e PROVE k \in 1 .. n /\ L[k] > L[x]
    <3>5. x \in 1 .. n /\ e \in x + 1 .. n /\ L[x + 1] > L[x]
      BY <1>1
    <3>1. k \in 1 .. n /\ x + 1 \in 1 .. n /\ (k = x + 1 \/ k \in x + 2 .. e)
      BY <3>5
    <3>2. L[k] \in Int /\ L[x] \in Int /\ L[x + 1] \in Int
      BY <3>1, <3>5
    <3>3. k \in x + 2 .. e => L[k] > L[x + 1]
      BY <1>1
    <3>4. k = x + 1 => L[k] > L[x]
      BY <3>5
    <3> QED
      BY <3>1, <3>2, <3>3, <3>4, <3>5
  <2> QED
    BY <2>1
<1>7. IsPlaced(L, D, a)
  BY <1>4 DEF IsOutline
<1>8. ASSUME NEW k \in 1 .. i - 1, Old(k, x, e) \in 1 .. a - 1 => L[Old(k, x, e)] >= L[a]
      PROVE  M[k] >= M[i]
  <2> DEFINE b == Old(k, x, e)
  <2>1. /\ k \in 1 .. n /\ b \in 1 .. n
        /\ b \in 1 .. a - 1 \/ (i = e /\ b \in x + 1 .. e)
    BY <1>5
  <2>4. b \in 1 .. a - 1 => L[b] >= L[a]
    BY <1>8
  <2>5. M[k] = L[b] /\ M[i] = L[a]
    BY <1>2, <1>4, <2>1
  <2>6. i = e => a = x
    BY <1>4
  <2> HIDE DEF a, b
  <2>2. CASE b \in 1 .. a - 1
    BY <2>2, <2>4, <2>5
  <2>3. CASE b \notin 1 .. a - 1
    <3>1. b \in x + 1 .. e /\ i = e /\ a = x
      BY <2>1, <2>3, <2>6
    <3>2. L[b] > L[x] /\ L[b] \in Int /\ L[x] \in Int
      BY <1>1, <1>6, <2>1, <3>1
    <3>3. M[k] = L[b] /\ M[i] = L[x]
      BY <2>5, <3>1
    <3> DEFINE u == L[b]
               v == L[x]
    <3>4. u \in Int /\ v \in Int /\ u > v
      BY <3>2
    <3> HIDE DEF u, v
    <3>5. u >= v
      BY <3>4
    <3> QED
      BY <3>3, <3>5 DEF u, v
  <2> QED
    BY <2>2, <2>3
<1>9. CASE D[a] = 0 /\ \A j \in 1 .. a - 1 : L[j] >= L[a]
  BY <1>4, <1>8, <1>9 DEF IsPlaced
<1>10. ASSUME NEW p \in 1 .. a - 1, Nearest(L, p, a), D[a] = D[p] + 1 PROVE IsPlaced(M, E, i)
  <2>1. L[p] < L[a] /\ \A k \in p + 1 .. a - 1 : L[k] >= L[a]
    BY <1>10 DEF Nearest
  <2>2. p \notin x + 1 .. e
    <3>1. CASE i > e
      <4>1. i \in e + 1 .. n /\ a = i
        BY <1>1, <1>4, <3>1
      <4> QED
        BY <1>10, <4>1, LaterIsOutside
    <3>2. CASE ~(i > e)
      <4>2. i = e \/ i < x
        BY <1>4, <3>2
      <4>3. a = x \/ (a = i /\ i < x)
        BY <1>4, <4>2
      <4>4. a \in 1 .. n /\ x \in 1 .. n /\ p \in 1 .. a - 1
        BY <1>1, <1>4
      <4> HIDE DEF a
      <4>1. a <= x /\ a \in 1 .. n /\ x \in 1 .. n /\ p \in 1 .. a - 1
        BY <4>3, <4>4
      <4> QED
        BY <4>1
    <3> QED
      BY <3>1, <3>2
  <2> DEFINE q == New(p)
  <2>7. /\ x \in 1 .. n /\ e \in x + 1 .. n /\ i \in 1 .. n /\ a \in 1 .. n /\ p \in 1 .. a - 1
        /\ a = (IF i = e THEN x ELSE i) /\ (i < x \/ i = e \/ i > e)
    BY <1>1, <1>4
  <2>8. p < x \/ p = x \/ p > e
    BY <2>2, <2>7
  <2> HIDE DEF a
  <2>3. q \in 1 .. i - 1 /\ Old(q, x, e) = p /\ q \in 1 .. n /\ q \notin x .. e - 1
    <3>1. CASE p < x
      BY <2>7, <3>1 DEF Old
    <3>2. CASE p = x
      BY <2>7, <3>2 DEF Old
    <3>3. CASE p > e
      BY <2>7, <3>3 DEF Old
    <3> QED
      BY <2>8, <3>1, <3>2, <3>3
  <2>4. M[q] = L[p] /\ E[q] = D[p]
    BY <1>2, <1>3, <2>3
  <2>5. ASSUME NEW k \in q + 1 .. i - 1 PROVE M[k] >= M[i]
    <3>1. k \in 1 .. i - 1 /\ k \in 1 .. n
      BY <2>3
    <3>4. k \in Nat /\ k > q /\ k < i
      <4> HIDE DEF q
      <4> QED
        BY <2>3, <2>7
    <3>5. (p < x \/ p > e => k > p) /\ (p = x => k > e)
      BY <2>7, <3>4
    <3>6. /\ x \in Nat /\ e \in Nat /\ i \in Nat /\ p \in Nat /\ x < e
          /\ a = (IF i = e THEN x ELSE i) /\ (i < x \/ i = e \/ i > e)
      BY <2>7
    <3>2. Old(k, x, e) \in 1 .. a - 1 => Old(k, x, e) \in p + 1 .. a - 1
      <4> HIDE DEF q
      <4>1. CASE p < x
        BY <3>4, <3>5, <3>6, <4>1 DEF Old
      <4>2. CASE p = x
        BY <3>4, <3>5, <3>6, <4>2 DEF Old
      <4>3. CASE p > e
        BY <3>4, <3>5, <3>6, <4>3 DEF Old
      <4> QED
        BY <2>8, <4>1, <4>2, <4>3
    <3>3. Old(k, x, e) \in 1 .. a - 1 => L[Old(k, x, e)] >= L[a]
      BY <2>1, <3>2
    <3> QED
      BY <1>8, <3>1, <3>3 DEF a
  <2>6. Nearest(M, q, i) /\ E[i] = E[q] + 1
    BY <1>4, <1>10, <2>1, <2>4, <2>5 DEF Nearest
  <2> QED
    BY <2>3, <2>6 DEF IsPlaced
<1> QED
  BY <1>7, <1>9, <1>10 DEF IsPlaced

\* An outline remains one when the nodes inside of x, up to e, move before x.
LEMMA RaiseKeepsOutline ==
    ASSUME NEW n \in Nat, NEW L \in [1 .. n -> Int], NEW D \in [1 .. n -> Nat],
           IsOutline(n, L, D), NEW x, NEW e, IsFirstInside(n, L, x, e),
           NEW d \in Nat, IsDepthBefore(L, D, x, d),
           NEW M, NEW E, IsRaised(n, L, D, x, e, d, M, E)
    PROVE  IsOutline(n, M, E) /\ \A i \in 1 .. n : E[i] \in Nat /\ M[i] \in Int
<1>1. ASSUME NEW i \in 1 .. n PROVE IsPlaced(M, E, i)
  <2>1. CASE i \in x .. e - 1
    BY <2>1, RaisedArePlaced
  <2>2. CASE i \notin x .. e - 1
    BY <2>2, OthersArePlaced
  <2> QED
    BY <2>1, <2>2
<1>2. /\ x \in 1 .. n /\ e \in x + 1 .. n
      /\ \A k \in x + 2 .. e : L[k] > L[x + 1]
  BY DEF IsFirstInside
<1>3. ASSUME NEW i \in 1 .. n PROVE E[i] \in Nat
  <2>1. CASE i \in x .. e - 1
    <3>1. i + 1 \in 1 .. n /\ x + 1 \in 1 .. n
      BY <1>2, <2>1
    <3>2. D[i + 1] >= D[x + 1]
      <4>1. CASE i = x
        BY <3>1, <4>1
      <4>2. CASE i # x
        <5>1. i + 1 \in (x + 1) + 1 .. n
          BY <1>2, <2>1, <4>2
        <5>2. \A k \in (x + 1) + 1 .. i + 1 : k \in x + 2 .. e
          BY <1>2, <2>1
        <5>3. \A k \in (x + 1) + 1 .. i + 1 : L[k] > L[x + 1]
          BY <1>2, <5>2
        <5>4. D[i + 1] > D[x + 1]
          BY <3>1, <5>1, <5>3, SmallerIsDeeper
        <5> QED
          BY <3>1, <5>4
      <4> QED
        BY <4>1, <4>2
    <3>3. E[i] = D[i + 1] + d - D[x + 1]
      BY <2>1 DEF IsRaised
    <3>4. D[i + 1] \in Nat /\ D[x + 1] \in Nat /\ d \in Nat
      BY <3>1
    <3>5. D[i + 1] + d - D[x + 1] \in Nat
      <4> DEFINE u == D[i + 1]
                 w == D[x + 1]
      <4>1. u \in Nat /\ w \in Nat /\ u >= w
        BY <3>2, <3>4
      <4> HIDE DEF u, w
      <4>2. u + d - w \in Nat
        BY <4>1
      <4> QED
        BY <4>2 DEF u, w
    <3> QED
      BY <3>3, <3>5
  <2>2. CASE i \notin x .. e - 1
    <3>1. Old(i, x, e) \in 1 .. n
      BY <1>2 DEF Old
    <3> QED
      BY <2>2, <3>1 DEF IsRaised
  <2> QED
    BY <2>1, <2>2
<1>4. ASSUME NEW i \in 1 .. n PROVE M[i] \in Int
  <2>1. Old(i, x, e) \in 1 .. n
    BY <1>2 DEF Old
  <2> QED
    BY <2>1 DEF IsRaised
<1> QED
  BY <1>1, <1>3, <1>4 DEF IsOutline

-----------------------------------------------------------------------------
(* The rows of the dialog *)

RowLevels(headings, rows) == [i \in 1 .. Len(rows) |-> headings[rows[i].pos].level]

\* The rows are an outline of headings.
IsModel(headings, rows) ==
    /\ rows \in Seq([pos : 1 .. Len(headings), depth : Nat])
    /\ OutlineOf(Len(rows), RowLevels(headings, rows), rows)

\* Row i shows a heading.
IsRow(headings, rows, i) ==
    /\ rows[i] \in [pos : 1 .. Len(headings), depth : Nat]
    /\ rows[i].pos \in 1 .. Len(headings) /\ rows[i].depth \in Nat
    /\ rows[i] = Row(rows[i].pos, rows[i].depth)
    /\ Depths(rows)[i] = rows[i].depth
    /\ RowLevels(headings, rows)[i] = headings[rows[i].pos].level

\* What is known of the rows of a model
LEMMA ModelIsOutline ==
    ASSUME NEW headings, IsBook(headings), NEW rows, IsModel(headings, rows)
    PROVE  /\ Len(rows) \in Nat /\ DOMAIN rows = 1 .. Len(rows)
           /\ RowLevels(headings, rows) \in [1 .. Len(rows) -> Int]
           /\ Depths(rows) \in [1 .. Len(rows) -> Nat]
           /\ IsOutline(Len(rows), RowLevels(headings, rows), Depths(rows))
           /\ \A i \in 1 .. Len(rows) : IsRow(headings, rows, i)
<1> DEFINE R == [pos : 1 .. Len(headings), depth : Nat]
           n == Len(rows)
<1>1. rows \in Seq(R) /\ OutlineOf(n, RowLevels(headings, rows), rows)
  BY DEF IsModel
<1> HIDE DEF R
<1>2. n \in Nat /\ DOMAIN rows = 1 .. n /\ \A i \in 1 .. n : rows[i] \in R
  BY <1>1
<1>7. \A r \in R : r.pos \in 1 .. Len(headings) /\ r.depth \in Nat /\ r = Row(r.pos, r.depth)
  BY DEF R, Row
<1>3. \A p \in 1 .. Len(headings) : headings[p].level \in Int
  <2>1. \A p \in 1 .. Len(headings) : headings[p] \in HeadingType
    BY DEF IsBook
  <2> QED
    BY <2>1, LevelsAssumption DEF HeadingType
<1>4. \A i \in 1 .. n : headings[rows[i].pos].level \in Int
  BY <1>2, <1>3 DEF R
<1>5. RowLevels(headings, rows) \in [1 .. n -> Int]
  BY <1>4 DEF RowLevels
<1>6. \A i \in 1 .. n : /\ Depths(rows)[i] = rows[i].depth
                        /\ RowLevels(headings, rows)[i] = headings[rows[i].pos].level
  BY <1>2 DEF Depths, RowLevels
<1>8. \A i \in 1 .. n : IsRow(headings, rows, i)
  BY <1>2, <1>6, <1>7 DEF IsRow, R
<1>9. Depths(rows) \in [1 .. n -> Nat] /\ IsOutline(n, RowLevels(headings, rows), Depths(rows))
  BY <1>1 DEF OutlineOf
<1> QED
  BY <1>2, <1>5, <1>8, <1>9

\* Node i and those inside of it are the nodes up to e.
IsBlock(n, L, i, e) ==
    /\ e \in i .. n /\ \A k \in i + 1 .. e : L[k] > L[i]
    /\ e = n \/ L[e + 1] <= L[i]

\* LastBelow finds the last row inside of row i.
LEMMA LastBelowIsBlock ==
    ASSUME NEW n \in Nat, NEW L \in [1 .. n -> Int], NEW rows, OutlineOf(n, L, rows),
           NEW i \in 1 .. n
    PROVE  IsBlock(n, L, i, LastBelow(rows, i))
<1> DEFINE D == Depths(rows)
           S == {j \in i .. Len(rows) : \A k \in i + 1 .. j : rows[k].depth > rows[i].depth}
           e == Max(S)
<1>1. /\ D \in [1 .. n -> Nat] /\ IsOutline(n, L, D) /\ \A k \in 1 .. n : D[k] = rows[k].depth
      /\ Len(rows) = n
  BY DEF OutlineOf, Depths
<1> HIDE DEF D
<1>2. ASSUME NEW j \in i .. n
      PROVE  j \in S <=> \A k \in i + 1 .. j : L[k] > L[i]
  <2>1. \A k \in i + 1 .. j : k \in 1 .. n
    OBVIOUS
  <2>2. (\A k \in i + 1 .. j : D[k] > D[i]) <=> (\A k \in i + 1 .. j : L[k] > L[i])
    BY <1>1, DeeperIsSmaller
  <2> QED
    BY <1>1, <2>1, <2>2
<1>3. (\A s \in S : s \in i .. n) /\ i \in S
  <2>1. \A s \in S : s \in i .. n
    BY <1>1
  <2>2. i \in i .. n /\ \A k \in i + 1 .. i : L[k] > L[i]
    OBVIOUS
  <2> HIDE DEF S
  <2> QED
    BY <1>2, <2>1, <2>2
<1>4. LastBelow(rows, i) = e
  BY DEF LastBelow
<1> HIDE DEF S
<1>5. S \in SUBSET (0 .. n) /\ S # {}
  <2>1. \A s \in S : s \in 0 .. n
    BY <1>3
  <2> QED
    BY <1>3, <2>1
<1>6. e \in S /\ \A s \in S : s <= e
  BY <1>5, MaxIsGreatest
<1> HIDE DEF e
<1>7. e \in i .. n /\ \A k \in i + 1 .. e : L[k] > L[i]
  BY <1>2, <1>3, <1>6
<1>8. ASSUME e # n PROVE L[e + 1] <= L[i]
  <2>1. e + 1 \in i .. n /\ ~(e + 1 <= e) /\ e + 1 \in 1 .. n
    BY <1>7, <1>8
  <2>2. ~(\A k \in i + 1 .. e + 1 : L[k] > L[i])
    BY <1>2, <1>6, <2>1
  <2>3. PICK k \in i + 1 .. e + 1 : ~(L[k] > L[i])
    BY <2>2
  <2>4. k = e + 1
    BY <1>7, <2>3
  <2> QED
    BY <2>1, <2>3, <2>4
<1> QED
  BY <1>4, <1>7, <1>8 DEF IsBlock

\* The end of a block is unique.
LEMMA BlockEnds ==
    ASSUME NEW n \in Nat, NEW L \in [1 .. n -> Int], NEW i \in 1 .. n,
           NEW e, IsBlock(n, L, i, e), NEW f, IsBlock(n, L, i, f)
    PROVE  e = f
<1>1. /\ e \in i .. n /\ \A k \in i + 1 .. e : L[k] > L[i]
      /\ e = n \/ L[e + 1] <= L[i]
      /\ f \in i .. n /\ \A k \in i + 1 .. f : L[k] > L[i]
      /\ f = n \/ L[f + 1] <= L[i]
  BY DEF IsBlock
<1>2. ASSUME e < f PROVE FALSE
  <2>1. e + 1 \in i + 1 .. f /\ e + 1 \in 1 .. n /\ e # n
    BY <1>1, <1>2
  <2>2. L[e + 1] > L[i] /\ L[e + 1] <= L[i]
    BY <1>1, <2>1
  <2> QED
    BY <2>1, <2>2
<1>3. ASSUME f < e PROVE FALSE
  <2>1. f + 1 \in i + 1 .. e /\ f + 1 \in 1 .. n /\ f # n
    BY <1>1, <1>3
  <2>2. L[f + 1] > L[i] /\ L[f + 1] <= L[i]
    BY <1>1, <2>1
  <2> QED
    BY <2>1, <2>2
<1> QED
  BY <1>1, <1>2, <1>3

\* Row i after the rows inside of x, up to e, moved before x to depth d
MovedRow(rows, x, e, d, i) ==
    IF i \in x .. e - 1 THEN Row(rows[i + 1].pos, rows[i + 1].depth + d - rows[x + 1].depth)
    ELSE rows[Old(i, x, e)]

CanMove(N, rows, n, x, e) ==
    /\ rows \in Seq([pos : 1 .. N, depth : Nat]) /\ n = Len(rows)
    /\ x \in 1 .. n /\ e \in x + 1 .. n /\ e = LastBelow(rows, x + 1)

\* The rows new are the rows with what is inside of x moved before it.
HasMoved(N, rows, n, x, e, d, new) ==
    /\ new \in Seq([pos : 1 .. N, depth : Int]) /\ Len(new) = n
    /\ \A i \in 1 .. n : new[i] = MovedRow(rows, x, e, d, i)

\* MoveRow moves the first row of x, and those inside of it, before x.
LEMMA MoveRowMoves ==
    ASSUME NEW N \in Nat, NEW rows, NEW n, NEW x, NEW e, CanMove(N, rows, n, x, e), NEW d \in Nat
    PROVE  HasMoved(N, rows, n, x, e, d, MoveRow(rows, x + 1, x, d))
<1> DEFINE R == [pos : 1 .. N, depth : Int]
           a == SubSeq(rows, 1, x - 1)
           b == [k \in 1 .. LastBelow(rows, x + 1) - (x + 1) + 1 |->
                    Row(rows[x + 1 + k - 1].pos, rows[x + 1 + k - 1].depth + d - rows[x + 1].depth)]
           c == SubSeq(rows, x, (x + 1) - 1)
           f == SubSeq(rows, LastBelow(rows, x + 1) + 1, Len(rows))
           new == MoveRow(rows, x + 1, x, d)
<1>0. new = a \o b \o c \o f
  BY DEF MoveRow
<1>1. /\ n \in Nat /\ DOMAIN rows = 1 .. n /\ x \in 1 .. n /\ e \in x + 1 .. n
      /\ x \in Nat /\ e \in Nat /\ 1 <= x /\ x < e /\ e <= n
      /\ LastBelow(rows, x + 1) = e /\ Len(rows) = n
  BY DEF CanMove
<1>2. \A i \in 1 .. n : /\ rows[i] \in R /\ rows[i].pos \in 1 .. N /\ rows[i].depth \in Nat
  <2> DEFINE S == [pos : 1 .. N, depth : Nat]
  <2>1. \A r \in S : r \in R /\ r.pos \in 1 .. N /\ r.depth \in Nat
    OBVIOUS
  <2>2. rows \in Seq(S) /\ n = Len(rows)
    BY DEF CanMove
  <2> HIDE DEF S, R
  <2>3. \A i \in 1 .. n : rows[i] \in S
    BY <2>2
  <2> QED
    BY <2>1, <2>3
<1>3. \A p \in 1 .. N : \A t \in Int : Row(p, t) \in R
  BY DEF Row
<1> HIDE DEF R, new
<1>4. a \in Seq(R) /\ Len(a) = x - 1 /\ \A i \in 1 .. x - 1 : a[i] = rows[i]
  <2>1. \A i \in 1 .. x - 1 : i \in 1 .. n
    BY <1>1
  <2>2. \A i \in 1 .. x - 1 : rows[i] \in R
    BY <1>2, <2>1
  <2>3. 1 \in Int /\ x - 1 \in Int
    BY <1>1
  <2>4. /\ a \in Seq(R) /\ Len(a) = (IF 1 <= x - 1 THEN x - 1 - 1 + 1 ELSE 0)
        /\ \A i \in 1 .. x - 1 - 1 + 1 : a[i] = rows[1 + i - 1]
    BY <2>2, <2>3, SubSeqProperties
  <2> HIDE DEF a
  <2> QED
    BY <1>1, <2>4
<1>5. /\ b \in Seq(R) /\ Len(b) = e - x
      /\ \A i \in 1 .. e - x :
            b[i] = Row(rows[x + i].pos, rows[x + i].depth + d - rows[x + 1].depth)
  <2>1. LastBelow(rows, x + 1) - (x + 1) + 1 = e - x /\ e - x \in Nat
    BY <1>1
  <2>2. \A k \in 1 .. e - x : x + 1 + k - 1 = x + k /\ x + k \in 1 .. n
    BY <1>1
  <2>3. x + 1 \in 1 .. n
    BY <1>1
  <2>4. ASSUME NEW k \in 1 .. e - x
        PROVE  Row(rows[x + k].pos, rows[x + k].depth + d - rows[x + 1].depth) \in R
    <3>1. rows[x + k].pos \in 1 .. N /\ rows[x + k].depth \in Nat /\ rows[x + 1].depth \in Nat
      BY <1>2, <2>2, <2>3
    <3>2. rows[x + k].depth + d - rows[x + 1].depth \in Int
      BY <3>1
    <3> QED
      BY <1>3, <3>1, <3>2
  <2>5. /\ b \in [1 .. e - x -> R]
        /\ \A i \in 1 .. e - x :
              b[i] = Row(rows[x + i].pos, rows[x + i].depth + d - rows[x + 1].depth)
    BY <2>1, <2>2, <2>4
  <2> HIDE DEF b
  <2> QED
    BY <2>1, <2>5, FunctionIsASequence
<1>6. c \in Seq(R) /\ Len(c) = 1 /\ c[1] = rows[x]
  <2>1. \A i \in x .. x + 1 - 1 : i \in 1 .. n
    BY <1>1
  <2>2. \A i \in x .. x + 1 - 1 : rows[i] \in R
    BY <1>2, <2>1
  <2>3. x \in Int /\ x + 1 - 1 \in Int /\ (x + 1) - 1 = x + 1 - 1
    BY <1>1
  <2>4. /\ c \in Seq(R) /\ Len(c) = (IF x <= x + 1 - 1 THEN x + 1 - 1 - x + 1 ELSE 0)
        /\ \A i \in 1 .. x + 1 - 1 - x + 1 : c[i] = rows[x + i - 1]
    BY <2>2, <2>3, SubSeqProperties
  <2> HIDE DEF c
  <2>5. x \in Nat /\ x + 1 - 1 = x /\ x <= x /\ x - x + 1 = 1 /\ x + 1 - 1 - x + 1 = 1
    BY <1>1
  <2>6. Len(c) = 1
    BY <2>4, <2>5
  <2>7. c[1] = rows[x + 1 - 1]
    <3>1. 1 \in 1 .. x + 1 - 1 - x + 1
      BY <2>5
    <3> QED
      BY <2>4, <3>1
  <2> QED
    BY <2>4, <2>5, <2>6, <2>7
<1>7. f \in Seq(R) /\ Len(f) = n - e /\ \A i \in 1 .. n - e : f[i] = rows[e + i]
  <2>1. \A i \in e + 1 .. n : i \in 1 .. n
    BY <1>1
  <2>2. \A i \in e + 1 .. n : rows[i] \in R
    BY <1>2, <2>1
  <2>3. e + 1 \in Int /\ n \in Int /\ f = SubSeq(rows, e + 1, n)
    BY <1>1
  <2>4. /\ f \in Seq(R) /\ Len(f) = (IF e + 1 <= n THEN n - (e + 1) + 1 ELSE 0)
        /\ \A i \in 1 .. n - (e + 1) + 1 : f[i] = rows[e + 1 + i - 1]
    <3>1. /\ SubSeq(rows, e + 1, n) \in Seq(R)
          /\ Len(SubSeq(rows, e + 1, n)) = (IF e + 1 <= n THEN n - (e + 1) + 1 ELSE 0)
          /\ \A i \in 1 .. n - (e + 1) + 1 : SubSeq(rows, e + 1, n)[i] = rows[e + 1 + i - 1]
      BY <2>2, <2>3, SubSeqProperties
    <3> HIDE DEF f
    <3> QED
      BY <2>3, <3>1
  <2> HIDE DEF f
  <2>5. n - (e + 1) + 1 = n - e /\ \A i \in 1 .. n - e : e + 1 + i - 1 = e + i
    BY <1>1
  <2>6. Len(f) = n - e
    <3>1. (e + 1 <= n /\ Len(f) = n - (e + 1) + 1) \/ (~(e + 1 <= n) /\ Len(f) = 0)
      BY <2>4
    <3>2. e \in Nat /\ n \in Nat /\ e <= n
      BY <1>1
    <3> QED
      BY <3>1, <3>2
  <2>7. ASSUME NEW i \in 1 .. n - e PROVE f[i] = rows[e + i]
    BY <2>4, <2>5
  <2> QED
    BY <2>4, <2>6, <2>7
<1> HIDE DEF a, b, c, f
<1> DEFINE ab == a \o b
           abc == ab \o c
           abcf == abc \o f
<1>8. /\ ab \in Seq(R) /\ Len(ab) = e - 1
      /\ \A i \in 1 .. e - 1 : ab[i] = IF i <= x - 1 THEN a[i] ELSE b[i - (x - 1)]
  <2>1. /\ ab \in Seq(R) /\ Len(ab) = (x - 1) + (e - x)
        /\ \A i \in 1 .. (x - 1) + (e - x) : ab[i] = IF i <= x - 1 THEN a[i] ELSE b[i - (x - 1)]
    <3>1. a \in Seq(R) /\ b \in Seq(R)
      BY <1>4, <1>5
    <3>2. /\ ab \in Seq(R) /\ Len(ab) = Len(a) + Len(b)
          /\ \A i \in 1 .. Len(a) + Len(b) :
                ab[i] = IF i <= Len(a) THEN a[i] ELSE b[i - Len(a)]
      BY <3>1, ConcatProperties
    <3> HIDE DEF ab
    <3>3. Len(a) = x - 1 /\ Len(b) = e - x
      BY <1>4, <1>5
    <3> QED
      BY <3>2, <3>3
  <2>2. (x - 1) + (e - x) = e - 1
    BY <1>1
  <2> HIDE DEF ab
  <2> QED
    BY <2>1, <2>2
<1> HIDE DEF ab
<1>9. /\ abc \in Seq(R) /\ Len(abc) = e
      /\ \A i \in 1 .. e : abc[i] = IF i <= e - 1 THEN ab[i] ELSE c[i - (e - 1)]
  <2>1. /\ abc \in Seq(R) /\ Len(abc) = (e - 1) + 1
        /\ \A i \in 1 .. (e - 1) + 1 : abc[i] = IF i <= e - 1 THEN ab[i] ELSE c[i - (e - 1)]
    <3>1. ab \in Seq(R) /\ c \in Seq(R)
      BY <1>6, <1>8
    <3>2. /\ abc \in Seq(R) /\ Len(abc) = Len(ab) + Len(c)
          /\ \A i \in 1 .. Len(ab) + Len(c) :
                abc[i] = IF i <= Len(ab) THEN ab[i] ELSE c[i - Len(ab)]
      BY <3>1, ConcatProperties
    <3> HIDE DEF abc
    <3>3. Len(ab) = e - 1 /\ Len(c) = 1
      BY <1>6, <1>8
    <3> QED
      BY <3>2, <3>3
  <2>2. (e - 1) + 1 = e
    BY <1>1
  <2> HIDE DEF abc
  <2> QED
    BY <2>1, <2>2
<1> HIDE DEF abc
<1>10. /\ abcf \in Seq(R) /\ Len(abcf) = n
       /\ \A i \in 1 .. n : abcf[i] = IF i <= e THEN abc[i] ELSE f[i - e]
  <2>1. /\ abcf \in Seq(R) /\ Len(abcf) = e + (n - e)
        /\ \A i \in 1 .. e + (n - e) : abcf[i] = IF i <= e THEN abc[i] ELSE f[i - e]
    <3>1. abc \in Seq(R) /\ f \in Seq(R)
      BY <1>7, <1>9
    <3>2. /\ abcf \in Seq(R) /\ Len(abcf) = Len(abc) + Len(f)
          /\ \A i \in 1 .. Len(abc) + Len(f) :
                abcf[i] = IF i <= Len(abc) THEN abc[i] ELSE f[i - Len(abc)]
      BY <3>1, ConcatProperties
    <3> HIDE DEF abcf
    <3>3. Len(abc) = e /\ Len(f) = n - e
      BY <1>7, <1>9
    <3> QED
      BY <3>2, <3>3
  <2>2. e + (n - e) = n
    BY <1>1
  <2> HIDE DEF abcf
  <2> QED
    BY <2>1, <2>2
<1>11. new = abcf
  BY <1>0 DEF ab, abc, abcf
<1> HIDE DEF abcf
<1>12. ASSUME NEW i \in 1 .. n PROVE abcf[i] = MovedRow(rows, x, e, d, i)
  <2>1. CASE i \in 1 .. x - 1
    <3>1. i <= e /\ i \in 1 .. e /\ i <= e - 1 /\ i \in 1 .. e - 1 /\ i <= x - 1
      BY <1>1, <2>1
    <3>2. abcf[i] = rows[i]
      BY <1>4, <1>8, <1>9, <1>10, <2>1, <3>1
    <3>3. i \notin x .. e - 1 /\ Old(i, x, e) = i
      BY <1>1, <2>1 DEF Old
    <3> QED
      BY <3>2, <3>3 DEF MovedRow
  <2>2. CASE i \in x .. e - 1
    <3>1. i <= e /\ i \in 1 .. e /\ i <= e - 1 /\ i \in 1 .. e - 1 /\ ~(i <= x - 1)
      BY <1>1, <2>2
    <3>2. i - (x - 1) \in 1 .. e - x /\ x + (i - (x - 1)) = i + 1
      BY <1>1, <2>2
    <3>3. abcf[i] = b[i - (x - 1)]
      BY <1>8, <1>9, <1>10, <3>1
    <3>4. b[i - (x - 1)] = Row(rows[i + 1].pos, rows[i + 1].depth + d - rows[x + 1].depth)
      BY <1>5, <3>2
    <3> QED
      BY <2>2, <3>3, <3>4 DEF MovedRow
  <2>3. CASE i = e
    <3>1. i <= e /\ i \in 1 .. e /\ ~(i <= e - 1) /\ i - (e - 1) = 1
      BY <1>1, <2>3
    <3>2. abcf[i] = rows[x]
      BY <1>6, <1>9, <1>10, <3>1
    <3>3. i \notin x .. e - 1 /\ Old(i, x, e) = x
      BY <1>1, <2>3 DEF Old
    <3> QED
      BY <3>2, <3>3 DEF MovedRow
  <2>4. CASE i \in e + 1 .. n
    <3>1. ~(i <= e) /\ i - e \in 1 .. n - e /\ e + (i - e) = i
      BY <1>1, <2>4
    <3>2. abcf[i] = rows[i]
      BY <1>7, <1>10, <3>1
    <3>3. i \notin x .. e - 1 /\ Old(i, x, e) = i
      BY <1>1, <2>4 DEF Old
    <3> QED
      BY <3>2, <3>3 DEF MovedRow
  <2> QED
    BY <1>1, <2>1, <2>2, <2>3, <2>4
<1> QED
  BY <1>10, <1>11, <1>12 DEF new, R, HasMoved

\* A model is an outline by the levels of its headings.
LEMMA ModelHasOutline ==
    ASSUME NEW headings, IsBook(headings), NEW rows, IsModel(headings, rows)
    PROVE  OutlineOf(Len(rows), RowLevels(headings, rows), rows)
BY DEF IsModel

\* An item that has rows has its first row, and what is inside of that, after it.
LEMMA FirstRowInside ==
    ASSUME NEW headings, IsBook(headings), NEW rows, IsModel(headings, rows),
           NEW x \in 1 .. Len(rows), HasRows(rows, x)
    PROVE  IsFirstInside(Len(rows), RowLevels(headings, rows), x, LastBelow(rows, x + 1))
<1> DEFINE n == Len(rows)
           L == RowLevels(headings, rows)
           e == LastBelow(rows, x + 1)
           f == LastBelow(rows, x)
<1>1. n \in Nat /\ L \in [1 .. n -> Int] /\ OutlineOf(n, L, rows)
  BY ModelIsOutline, ModelHasOutline
<1>2. f > x
  BY DEF HasRows
<1> HIDE DEF n, L, e, f
<1>3. x \in 1 .. n
  BY DEF n
<1>4. IsBlock(n, L, x, f)
  BY <1>1, <1>3, LastBelowIsBlock DEF f
<1>5. x + 1 \in 1 .. n /\ x + 1 \in x + 1 .. f
  BY <1>1, <1>2, <1>3, <1>4 DEF IsBlock
<1>6. L[x + 1] > L[x]
  BY <1>4, <1>5 DEF IsBlock
<1>7. IsBlock(n, L, x + 1, e)
  BY <1>1, <1>5, LastBelowIsBlock DEF e
<1>8. /\ e \in x + 1 .. n /\ \A k \in (x + 1) + 1 .. e : L[k] > L[x + 1]
      /\ e = n \/ L[e + 1] <= L[x + 1]
  BY <1>7 DEF IsBlock
<1>9. (x + 1) + 1 = x + 2 /\ L[x] \in Int /\ L[x + 1] \in Int
  BY <1>1, <1>3, <1>5
<1>10. L[x] < L[x + 1]
  BY <1>6, <1>9
<1>11. \A k \in x + 2 .. e : L[k] > L[x + 1]
  BY <1>8, <1>9
<1>12. IsFirstInside(n, L, x, e)
  BY <1>3, <1>8, <1>10, <1>11 DEF IsFirstInside
<1> QED
  BY <1>12 DEF n, L, e

\* Raised to depth d, the first row of x is where the headings before x lead to.
RaisedTo(headings, rows, x, d) ==
    /\ RaiseRow(headings, rows, x) = MoveRow(rows, x + 1, x, d)
    /\ IsDepthBefore(RowLevels(headings, rows), Depths(rows), x, d)

\* The rows before x that are not inside of a row before it are included.
OthersIncluded(headings, rows, x) ==
    \A k \in ParentRow(rows, x) + 1 .. x - 1 : headings[rows[k].pos].include

\* RaiseRow moves the first row of an item to the depth that its level asks for.
LEMMA RaiseRowMoves ==
    ASSUME NEW headings, IsBook(headings), NEW rows, IsModel(headings, rows),
           NEW x \in 1 .. Len(rows), HasRows(rows, x), OthersIncluded(headings, rows, x)
    PROVE  \E d \in Nat : RaisedTo(headings, rows, x, d)
<1> DEFINE n == Len(rows)
           L == RowLevels(headings, rows)
           D == Depths(rows)
           e == LastBelow(rows, x + 1)
           p == ParentRow(rows, x)
           correct == {j \in p + 1 .. x - 1 :
                          /\ headings[rows[j].pos].include
                          /\ headings[rows[j].pos].level < headings[rows[x + 1].pos].level}
           m == Max(correct)
<1>1. /\ n \in Nat /\ L \in [1 .. n -> Int] /\ D \in [1 .. n -> Nat]
      /\ IsOutline(n, L, D) /\ OutlineOf(n, L, rows)
      /\ \A i \in 1 .. n : IsRow(headings, rows, i)
  BY ModelIsOutline, ModelHasOutline
<1>2. IsFirstInside(n, L, x, e)
  BY FirstRowInside
<1>3. RaiseRow(headings, rows, x) =
         IF correct = {} THEN MoveRow(rows, x + 1, x, rows[x].depth)
         ELSE MoveRow(rows, x + 1, LastBelow(rows, m) + 1, rows[m].depth + 1)
  BY DEF RaiseRow
<1>4. x \in 1 .. n
  OBVIOUS
<1>5. p = ParentOf(rows, x)
  BY DEF ParentRow, ParentOf
<1>6. \A i \in 1 .. n : D[i] = rows[i].depth /\ L[i] = headings[rows[i].pos].level
  BY <1>1 DEF IsRow
<1>7. \A j : j \in correct <=> /\ j \in p + 1 .. x - 1 /\ headings[rows[j].pos].include
                               /\ headings[rows[j].pos].level < headings[rows[x + 1].pos].level
  OBVIOUS
<1>8. \A k \in p + 1 .. x - 1 : headings[rows[k].pos].include
  BY DEF OthersIncluded
<1> HIDE DEF n, L, D, e, p, correct
<1>9. IsParent(L, rows, x, p)
  BY <1>1, <1>4, <1>5, ParentIsNearest
<1>10. p \in 0 .. x - 1
  BY <1>9 DEF IsParent
<1>11. x + 1 \in 1 .. n /\ L[x] < L[x + 1] /\ L[x] \in Int /\ L[x + 1] \in Int
  <2>1. x + 1 \in 1 .. n /\ L[x] < L[x + 1]
    BY <1>1, <1>2 DEF IsFirstInside
  <2> QED
    BY <1>1, <1>4, <2>1
<1>12. \A k \in p + 1 .. x - 1 : k \in 1 .. n /\ L[k] \in Int
  BY <1>1, <1>4, <1>10
<1>13. \A k \in p + 1 .. x - 1 : k \in correct <=> L[k] < L[x + 1]
  BY <1>6, <1>7, <1>8, <1>11, <1>12
<1>14. \A k \in p + 1 .. x - 1 : L[k] >= L[x]
  <2>1. CASE p = 0
    <3>1. \A j \in 1 .. x - 1 : L[j] >= L[x]
      BY <1>9, <2>1 DEF IsParent
    <3> QED
      BY <2>1, <3>1
  <2>2. CASE p # 0
    BY <1>9, <2>2 DEF IsParent, Nearest
  <2> QED
    BY <2>1, <2>2
<1>15. CASE correct = {}
  <2>1. \A k \in p + 1 .. x - 1 : L[k] >= L[x + 1]
    BY <1>11, <1>12, <1>13, <1>15
  <2>2. D[x] \in Nat /\ D[x] = rows[x].depth
    BY <1>1, <1>4, <1>6
  <2>3. IsDepthBefore(L, D, x, D[x])
    <3>1. CASE p = 0
      <4>1. D[x] = 0
        BY <1>9, <2>2, <3>1 DEF IsParent
      <4> QED
        BY <2>1, <3>1, <4>1 DEF IsDepthBefore
    <3>2. CASE p # 0
      <4>1. p \in 1 .. x - 1 /\ p \in 1 .. n
        BY <1>1, <1>4, <1>10, <3>2
      <4>2. L[p] < L[x] /\ rows[x].depth = rows[p].depth + 1
        BY <1>9, <3>2 DEF IsParent, Nearest
      <4>3. D[x] = D[p] + 1
        BY <1>6, <2>2, <4>1, <4>2
      <4>4. L[p] < L[x + 1]
        BY <1>1, <1>11, <4>1, <4>2
      <4> QED
        BY <2>1, <4>1, <4>3, <4>4 DEF IsDepthBefore
    <3> QED
      BY <3>1, <3>2
  <2>4. RaiseRow(headings, rows, x) = MoveRow(rows, x + 1, x, D[x])
    BY <1>3, <1>15, <2>2
  <2>5. RaisedTo(headings, rows, x, D[x])
    BY <2>3, <2>4 DEF RaisedTo, L, D
  <2> QED
    BY <2>2, <2>5
<1>16. CASE correct # {}
  <2>1. correct \in SUBSET (0 .. n)
    <3>1. ASSUME NEW j \in correct PROVE j \in 0 .. n
      BY <1>7, <1>12
    <3> QED
      BY <3>1
  <2>2. m \in correct /\ \A s \in correct : s <= m
    BY <1>1, <1>16, <2>1, MaxIsGreatest
  <2> HIDE DEF m
  <2>3. m \in p + 1 .. x - 1 /\ m \in 1 .. n /\ m \in 1 .. x - 1 /\ L[m] \in Int
    BY <1>7, <1>10, <1>12, <2>2
  <2>4. L[m] < L[x + 1] /\ L[m] >= L[x]
    BY <1>13, <1>14, <2>2, <2>3
  <2>5. ASSUME NEW k \in m + 1 .. x - 1 PROVE L[k] >= L[x + 1] /\ L[k] > L[m]
    <3>1. k \in p + 1 .. x - 1 /\ ~(k <= m)
      BY <1>4, <1>10, <2>3
    <3>2. ~(L[k] < L[x + 1]) /\ L[k] \in Int
      BY <1>12, <1>13, <2>2, <3>1
    <3> QED
      BY <1>11, <2>3, <2>4, <3>2
  <2>6. IsBlock(n, L, m, x - 1)
    <3>1. x - 1 \in m .. n /\ (x - 1) + 1 = x
      BY <1>1, <1>4, <2>3
    <3>2. L[x] <= L[m]
      BY <1>11, <2>3, <2>4
    <3> QED
      BY <2>5, <3>1, <3>2 DEF IsBlock
  <2>7. IsBlock(n, L, m, LastBelow(rows, m))
    BY <1>1, <2>3, LastBelowIsBlock
  <2>8. LastBelow(rows, m) = x - 1
    <3>1. n \in Nat /\ L \in [1 .. n -> Int]
      BY <1>1
    <3> QED
      BY <2>3, <2>6, <2>7, <3>1, BlockEnds
  <2>9. D[m] \in Nat /\ D[m] = rows[m].depth /\ LastBelow(rows, m) + 1 = x
    BY <1>1, <1>4, <1>6, <2>3, <2>8
  <2>10. RaiseRow(headings, rows, x) = MoveRow(rows, x + 1, x, D[m] + 1)
    BY <1>3, <1>16, <2>9 DEF m
  <2>11. IsDepthBefore(L, D, x, D[m] + 1)
    BY <2>3, <2>4, <2>5 DEF IsDepthBefore
  <2>12. RaisedTo(headings, rows, x, D[m] + 1)
    BY <2>10, <2>11 DEF RaisedTo, L, D
  <2> QED
    BY <2>9, <2>12
<1> QED
  BY <1>15, <1>16

\* The rows new after the rows inside of x, up to e, moved before x
IsMoved(headings, rows, x, e, new) ==
    /\ IsModel(headings, new) /\ Len(new) = Len(rows)
    /\ \A i \in 1 .. Len(rows) : new[i].pos = rows[Old(i, x, e)].pos

\* Rows whose depth is not negative
LEMMA MovedType ==
    ASSUME NEW N \in Nat, NEW n \in Nat, NEW new, new \in Seq([pos : 1 .. N, depth : Int]),
           Len(new) = n, \A i \in 1 .. n : new[i].depth \in Nat
    PROVE  new \in Seq([pos : 1 .. N, depth : Nat])
<1> DEFINE R == [pos : 1 .. N, depth : Int]
           S == [pos : 1 .. N, depth : Nat]
<1>1. \A r \in R : r.depth \in Nat => r \in S
  OBVIOUS
<1>2. new \in Seq(R)
  OBVIOUS
<1> HIDE DEF R, S
<1>3. \A i \in 1 .. n : new[i] \in R
  BY <1>2
<1>4. \A i \in 1 .. n : new[i] \in S
  BY <1>1, <1>3
<1>5. new = [i \in 1 .. n |-> new[i]]
  BY <1>2
<1>6. new \in [1 .. n -> S]
  BY <1>4, <1>5
<1>7. new \in Seq(S)
  BY <1>6, FunctionIsASequence
<1> QED
  BY <1>7 DEF S

\* RaiseRow leaves a model, in which the rows have moved.
LEMMA RaiseKeepsModel ==
    ASSUME NEW headings, IsBook(headings), NEW rows, IsModel(headings, rows),
           NEW x \in 1 .. Len(rows), HasRows(rows, x), OthersIncluded(headings, rows, x)
    PROVE  IsMoved(headings, rows, x, LastBelow(rows, x + 1), RaiseRow(headings, rows, x))
<1> DEFINE N == Len(headings)
           n == Len(rows)
           L == RowLevels(headings, rows)
           D == Depths(rows)
           e == LastBelow(rows, x + 1)
           new == RaiseRow(headings, rows, x)
           M == RowLevels(headings, new)
           E == Depths(new)
<1>1. /\ n \in Nat /\ L \in [1 .. n -> Int] /\ D \in [1 .. n -> Nat] /\ IsOutline(n, L, D)
      /\ \A i \in 1 .. n : IsRow(headings, rows, i)
  BY ModelIsOutline
<1>2. IsFirstInside(n, L, x, e)
  BY FirstRowInside
<1>3. PICK d \in Nat : RaisedTo(headings, rows, x, d)
  BY RaiseRowMoves
<1>4. new = MoveRow(rows, x + 1, x, d) /\ IsDepthBefore(L, D, x, d)
  BY <1>3 DEF RaisedTo
<1>5. N \in Nat
  BY DEF IsBook
<1>6. rows \in Seq([pos : 1 .. N, depth : Nat]) /\ n = Len(rows) /\ e = LastBelow(rows, x + 1)
  BY DEF IsModel
<1>7. \A i \in 1 .. Len(new) : M[i] = headings[new[i].pos].level
  BY DEF RowLevels
<1>8. E = [i \in DOMAIN new |-> new[i].depth] /\ M = [i \in 1 .. Len(new) |-> headings[new[i].pos].level]
  BY DEF Depths, RowLevels
<1>20. \A i \in 1 .. n : L[i] = headings[rows[i].pos].level /\ D[i] = rows[i].depth
  BY <1>1 DEF IsRow
<1> HIDE DEF N, n, L, D, e, new, M, E
<1>9. x \in 1 .. n /\ e \in x + 1 .. n
  BY <1>2 DEF IsFirstInside
<1>10. CanMove(N, rows, n, x, e)
  BY <1>6, <1>9 DEF CanMove
<1>11. /\ new \in Seq([pos : 1 .. N, depth : Int]) /\ Len(new) = n
       /\ \A i \in 1 .. n : new[i] = MovedRow(rows, x, e, d, i)
  <2>1. N \in Nat /\ CanMove(N, rows, n, x, e) /\ d \in Nat
    BY <1>5, <1>10
  <2>2. HasMoved(N, rows, n, x, e, d, MoveRow(rows, x + 1, x, d))
    BY <2>1, MoveRowMoves
  <2> QED
    BY <1>4, <2>2 DEF HasMoved
<1>12. DOMAIN new = 1 .. n /\ E = [i \in 1 .. n |-> new[i].depth]
       /\ M = [i \in 1 .. n |-> headings[new[i].pos].level]
  <2> DEFINE R == [pos : 1 .. N, depth : Int]
  <2>1. new \in Seq(R) /\ Len(new) = n
    BY <1>11
  <2> HIDE DEF R
  <2>2. DOMAIN new = 1 .. n
    BY <2>1
  <2> QED
    BY <1>8, <1>11, <2>2
<1>13. ASSUME NEW i \in 1 .. n
       PROVE  /\ new[i].pos = rows[Old(i, x, e)].pos
              /\ M[i] = L[Old(i, x, e)]
              /\ E[i] = IF i \in x .. e - 1 THEN D[i + 1] + d - D[x + 1] ELSE D[Old(i, x, e)]
  <2>1. M[i] = headings[new[i].pos].level /\ E[i] = new[i].depth
    BY <1>12
  <2>2. Old(i, x, e) \in 1 .. n
    BY <1>1, <1>9 DEF Old
  <2>3. CASE i \in x .. e - 1
    <3>1. i + 1 \in 1 .. n /\ x + 1 \in 1 .. n /\ Old(i, x, e) = i + 1
      BY <1>1, <1>9, <2>3 DEF Old
    <3>2. new[i] = Row(rows[i + 1].pos, rows[i + 1].depth + d - rows[x + 1].depth)
      BY <1>11, <2>3 DEF MovedRow
    <3>3. new[i].pos = rows[i + 1].pos /\ new[i].depth = rows[i + 1].depth + d - rows[x + 1].depth
      BY <3>2 DEF Row
    <3>4. D[i + 1] = rows[i + 1].depth /\ D[x + 1] = rows[x + 1].depth
          /\ L[i + 1] = headings[rows[i + 1].pos].level
      BY <1>20, <3>1
    <3> QED
      BY <2>1, <2>3, <3>1, <3>3, <3>4
  <2>4. CASE i \notin x .. e - 1
    <3>1. new[i] = rows[Old(i, x, e)]
      BY <1>11, <2>4 DEF MovedRow
    <3>2. D[Old(i, x, e)] = rows[Old(i, x, e)].depth
          /\ L[Old(i, x, e)] = headings[rows[Old(i, x, e)].pos].level
      BY <1>20, <2>2
    <3> QED
      BY <2>1, <2>4, <3>1, <3>2
  <2> QED
    BY <2>3, <2>4
<1>14. IsRaised(n, L, D, x, e, d, M, E)
  BY <1>13 DEF IsRaised
<1>15. IsOutline(n, M, E) /\ \A i \in 1 .. n : E[i] \in Nat /\ M[i] \in Int
  BY <1>1, <1>2, <1>4, <1>14, RaiseKeepsOutline
<1>16. \A i \in 1 .. n : new[i].depth \in Nat
  BY <1>12, <1>15
<1>17. new \in Seq([pos : 1 .. N, depth : Nat])
  BY <1>1, <1>5, <1>11, <1>16, MovedType
<1>18. E \in [1 .. n -> Nat]
  BY <1>12, <1>15
<1>19. OutlineOf(n, M, new)
  BY <1>11, <1>12, <1>15, <1>18 DEF OutlineOf, E
<1>21. IsModel(headings, new)
  BY <1>11, <1>17, <1>19 DEF IsModel, M, N
<1>22. \A i \in 1 .. n : new[i].pos = rows[Old(i, x, e)].pos
  BY <1>13
<1>23. IsMoved(headings, rows, x, e, new)
  BY <1>11, <1>21, <1>22 DEF IsMoved, n
<1> QED
  BY <1>23 DEF e, new

\* Before item x every row is included but those that x is inside of, and so is
\* every row inside of x.
CanRemove(headings, rows, x) ==
    /\ x \in 1 .. Len(rows)
    /\ \A k \in 1 .. x - 1 : \/ headings[rows[k].pos].include
                             \/ InsideByLevel(RowLevels(headings, rows), x, k)
    /\ \A k \in x + 1 .. LastBelow(rows, x) : headings[rows[k].pos].include

\* Such an item has only included rows before it, in its parent.
LEMMA OthersAreIncluded ==
    ASSUME NEW headings, IsBook(headings), NEW rows, IsModel(headings, rows),
           NEW x, CanRemove(headings, rows, x)
    PROVE  OthersIncluded(headings, rows, x)
<1> DEFINE n == Len(rows)
           L == RowLevels(headings, rows)
           p == ParentRow(rows, x)
<1>1. n \in Nat /\ L \in [1 .. n -> Int] /\ OutlineOf(n, L, rows)
  BY ModelIsOutline, ModelHasOutline
<1>2. x \in 1 .. n /\ \A k \in 1 .. x - 1 : headings[rows[k].pos].include \/ InsideByLevel(L, x, k)
  BY DEF CanRemove
<1>3. p = ParentOf(rows, x)
  BY DEF ParentRow, ParentOf
<1> HIDE DEF n, L, p
<1>4. IsParent(L, rows, x, p)
  BY <1>1, <1>2, <1>3, ParentIsNearest
<1>5. p \in 0 .. x - 1 /\ \A k \in p + 1 .. x - 1 : L[k] >= L[x]
  <2>1. p \in 0 .. x - 1
    BY <1>4 DEF IsParent
  <2>2. CASE p = 0
    <3>1. \A j \in 1 .. x - 1 : L[j] >= L[x]
      BY <1>4, <2>2 DEF IsParent
    <3> QED
      BY <2>1, <2>2, <3>1
  <2>3. CASE p # 0
    BY <1>4, <2>1, <2>3 DEF IsParent, Nearest
  <2> QED
    BY <2>2, <2>3
<1>6. ASSUME NEW k \in p + 1 .. x - 1 PROVE headings[rows[k].pos].include
  <2>1. k \in 1 .. x - 1 /\ k \in 1 .. n /\ x \in k + 1 .. x
    BY <1>1, <1>2, <1>5
  <2>2. L[k] >= L[x] /\ L[k] \in Int /\ L[x] \in Int
    BY <1>1, <1>2, <1>5, <2>1
  <2>3. ~InsideByLevel(L, x, k)
    BY <2>1, <2>2 DEF InsideByLevel
  <2> QED
    BY <1>2, <2>1, <2>3
<1> QED
  BY <1>6 DEF OthersIncluded, p

\* The item e of new is item x of rows, and the others have their order.
SameItem(rows, x, new, e) ==
    /\ new[e].pos = rows[x].pos
    /\ \A i \in 1 .. Len(rows) - 1 : new[Skip(i, e)].pos = rows[Skip(i, x)].pos

\* The item whose first row was moved before it, and the others, are still there.
LEMMA MovedIsSame ==
    ASSUME NEW headings, NEW rows, NEW n \in Nat, n = Len(rows), NEW x \in 1 .. n, NEW e \in x + 1 .. n,
           NEW new, IsMoved(headings, rows, x, e, new)
    PROVE  SameItem(rows, x, new, e)
<1>1. \A i \in 1 .. n : new[i].pos = rows[Old(i, x, e)].pos
  BY DEF IsMoved
<1>2. x \in Nat /\ e \in Nat /\ 1 <= x /\ x < e /\ e <= n
  OBVIOUS
<1>3. new[e].pos = rows[x].pos
  <2>1. Old(e, x, e) = x /\ e \in 1 .. n
    BY <1>2 DEF Old
  <2> QED
    BY <1>1, <2>1
<1>4. ASSUME NEW i \in 1 .. n - 1 PROVE new[Skip(i, e)].pos = rows[Skip(i, x)].pos
  <2>1. Skip(i, e) \in 1 .. n /\ Old(Skip(i, e), x, e) = Skip(i, x)
    BY <1>2 DEF Skip, Old
  <2> QED
    BY <1>1, <2>1
<1> QED
  BY <1>3, <1>4 DEF SameItem

\* After RaiseRow the item is further down, and its other rows can be raised.
LEMMA RaiseCanContinue ==
    ASSUME NEW headings, IsBook(headings), NEW rows, IsModel(headings, rows),
           NEW x, CanRemove(headings, rows, x), HasRows(rows, x)
    PROVE  /\ LastBelow(rows, x + 1) > x
           /\ LastBelow(rows, x + 1) \in Nat
           /\ IsModel(headings, RaiseRow(headings, rows, x))
           /\ Len(RaiseRow(headings, rows, x)) = Len(rows)
           /\ SameItem(rows, x, RaiseRow(headings, rows, x), LastBelow(rows, x + 1))
           /\ CanRemove(headings, RaiseRow(headings, rows, x), LastBelow(rows, x + 1))
<1> DEFINE n == Len(rows)
           L == RowLevels(headings, rows)
           e == LastBelow(rows, x + 1)
           f == LastBelow(rows, x)
           new == RaiseRow(headings, rows, x)
           M == RowLevels(headings, new)
           Included(k) == headings[rows[k].pos].include
<1>1. n \in Nat /\ L \in [1 .. n -> Int] /\ OutlineOf(n, L, rows)
  BY ModelIsOutline, ModelHasOutline
<1>2. /\ x \in 1 .. n /\ \A k \in 1 .. x - 1 : Included(k) \/ InsideByLevel(L, x, k)
      /\ \A k \in x + 1 .. f : Included(k)
  BY DEF CanRemove
<1>3. IsMoved(headings, rows, x, e, new)
  BY <1>2, OthersAreIncluded, RaiseKeepsModel
<1>4. IsFirstInside(n, L, x, e)
  BY <1>2, FirstRowInside
<1>5. /\ IsModel(headings, new) /\ Len(new) = n
      /\ \A i \in 1 .. n : new[i].pos = rows[Old(i, x, e)].pos
  BY <1>3 DEF IsMoved
<1>6. M \in [1 .. n -> Int] /\ OutlineOf(n, M, new)
  BY <1>5, ModelIsOutline, ModelHasOutline
<1>7. n = Len(rows)
  OBVIOUS
<1>8. \A i \in 1 .. n : L[i] = headings[rows[i].pos].level
  BY DEF RowLevels
<1>9. \A i \in 1 .. n : M[i] = headings[new[i].pos].level
  BY <1>5 DEF RowLevels
<1>10. IsBlock(n, L, x, f)
  BY <1>1, <1>2, LastBelowIsBlock
<1> HIDE DEF n, L, e, f, new, M
<1>11. x \in Nat /\ e \in Nat /\ 1 <= x /\ x < e /\ e <= n /\ e \in 1 .. n /\ e \in x + 1 .. n
  BY <1>1, <1>2, <1>4 DEF IsFirstInside
<1>12. SameItem(rows, x, new, e)
  BY <1>1, <1>2, <1>3, <1>7, <1>11, MovedIsSame
<1>13. ASSUME NEW i \in 1 .. n PROVE Old(i, x, e) \in 1 .. n /\ M[i] = L[Old(i, x, e)]
  <2>1. Old(i, x, e) \in 1 .. n
    BY <1>1, <1>11 DEF Old
  <2> QED
    BY <1>5, <1>8, <1>9, <2>1
<1>14. /\ f \in x .. n /\ \A k \in x + 1 .. f : L[k] > L[x]
       /\ f = n \/ L[f + 1] <= L[x]
  BY <1>10 DEF IsBlock
<1>15. /\ L[x] < L[x + 1] /\ \A k \in x + 2 .. e : L[k] > L[x + 1]
  BY <1>4 DEF IsFirstInside
<1>16. e <= f /\ f \in Nat /\ f <= n /\ n \in Nat
  <2> SUFFICES ASSUME f < e PROVE FALSE
    BY <1>1, <1>11, <1>14
  <2>1. f + 1 \in x + 1 .. e /\ f + 1 \in 1 .. n /\ x + 1 \in 1 .. n /\ f # n
    BY <1>1, <1>11, <1>14
  <2>2. L[f + 1] \in Int /\ L[x] \in Int /\ L[x + 1] \in Int
    BY <1>1, <1>2, <2>1
  <2>3. f + 1 = x + 1 \/ f + 1 \in x + 2 .. e
    BY <1>11, <2>1
  <2>4. L[f + 1] > L[x]
    BY <1>15, <2>2, <2>3
  <2> QED
    BY <1>14, <2>1, <2>2, <2>4
<1>17. M[e] = L[x]
  <2>1. Old(e, x, e) = x
    BY <1>11 DEF Old
  <2> QED
    BY <1>11, <1>13, <2>1
<1>18. ASSUME NEW k \in e + 1 .. n PROVE k \in 1 .. n /\ M[k] = L[k] /\ new[k].pos = rows[k].pos
  <2>1. k \in 1 .. n /\ Old(k, x, e) = k
    BY <1>11 DEF Old
  <2> QED
    BY <1>5, <1>13, <2>1
<1>19. IsBlock(n, M, e, f)
  <2>1. f \in e .. n
    BY <1>11, <1>14, <1>16
  <2>2. ASSUME NEW k \in e + 1 .. f PROVE M[k] > M[e]
    <3>1. k \in e + 1 .. n /\ k \in x + 1 .. f
      BY <1>11, <1>16
    <3> QED
      BY <1>14, <1>17, <1>18, <3>1
  <2>3. ASSUME f # n PROVE M[f + 1] <= M[e]
    <3>1. f + 1 \in e + 1 .. n
      BY <1>11, <1>16, <2>3
    <3> QED
      BY <1>14, <1>17, <1>18, <2>3, <3>1
  <2> QED
    BY <2>1, <2>2, <2>3 DEF IsBlock
<1>20. LastBelow(new, e) = f
  <2>1. n \in Nat /\ M \in [1 .. n -> Int] /\ e \in 1 .. n
    BY <1>1, <1>6, <1>11
  <2>2. IsBlock(n, M, e, LastBelow(new, e))
    BY <2>1, <1>6, LastBelowIsBlock
  <2> QED
    BY <1>19, <2>1, <2>2, BlockEnds
<1>21. ASSUME NEW k \in 1 .. e - 1
       PROVE  headings[new[k].pos].include \/ InsideByLevel(M, e, k)
  <2>1. CASE k \in 1 .. x - 1
    <3>1. k \in 1 .. n /\ Old(k, x, e) = k
      BY <1>1, <1>11, <2>1 DEF Old
    <3>2. new[k].pos = rows[k].pos /\ M[k] = L[k]
      BY <1>5, <1>13, <3>1
    <3>3. CASE Included(k)
      BY <3>2, <3>3
    <3>4. CASE InsideByLevel(L, x, k)
      <4>1. \A j \in k + 1 .. x : L[j] > L[k]
        BY <3>4 DEF InsideByLevel
      <4>2. x \in k + 1 .. x /\ L[x] \in Int /\ L[k] \in Int
        BY <1>1, <1>2, <1>11, <2>1, <3>1
      <4>3. L[x] > L[k]
        BY <4>1, <4>2
      <4>4. ASSUME NEW j \in k + 1 .. e PROVE M[j] > M[k]
        <5>1. j \in 1 .. n /\ k \in Nat /\ k < x
          BY <1>1, <1>11, <2>1
        <5>2. CASE j < x
          <6>1. Old(j, x, e) = j /\ j \in k + 1 .. x
            BY <1>11, <5>1, <5>2 DEF Old
          <6> QED
            BY <1>13, <3>2, <4>1, <5>1, <6>1
        <5>3. CASE j \in x .. e - 1
          <6>1. Old(j, x, e) = j + 1 /\ j + 1 \in x + 1 .. f /\ j + 1 \in 1 .. n
            BY <1>11, <1>16, <5>3 DEF Old
          <6>2. L[j + 1] > L[x] /\ L[j + 1] \in Int
            BY <1>1, <1>14, <6>1
          <6>3. M[j] = L[j + 1]
            BY <1>13, <5>1, <6>1
          <6> QED
            BY <3>2, <4>2, <4>3, <6>2, <6>3
        <5>4. CASE j = e
          BY <1>17, <3>2, <4>3, <5>4
        <5> QED
          BY <1>11, <5>1, <5>2, <5>3, <5>4
      <4> QED
        BY <4>4 DEF InsideByLevel
    <3> QED
      BY <1>2, <2>1, <3>3, <3>4
  <2>2. CASE k \in x .. e - 1
    <3>1. k \in 1 .. n /\ Old(k, x, e) = k + 1 /\ k + 1 \in x + 1 .. f
      BY <1>11, <1>16, <2>2 DEF Old
    <3> QED
      BY <1>2, <1>5, <3>1
  <2> QED
    BY <1>11, <2>1, <2>2
<1>22. ASSUME NEW k \in e + 1 .. LastBelow(new, e) PROVE headings[new[k].pos].include
  <2>1. k \in e + 1 .. n /\ k \in x + 1 .. f
    BY <1>11, <1>16, <1>20
  <2> QED
    BY <1>2, <1>18, <2>1
<1>23. CanRemove(headings, new, e)
  BY <1>5, <1>11, <1>21, <1>22 DEF CanRemove, M
<1>24. e > x /\ e \in Nat
  BY <1>11
<1> QED
  BY <1>5, <1>12, <1>23, <1>24 DEF e, n, new

\* A model remains one without a row that has none inside of it.
LEMMA RemoveKeepsModel ==
    ASSUME NEW headings, IsBook(headings), NEW rows, IsModel(headings, rows),
           NEW x \in 1 .. Len(rows), ~HasRows(rows, x)
    PROVE  /\ IsModel(headings, RemoveAt(rows, x)) /\ Len(RemoveAt(rows, x)) = Len(rows) - 1
           /\ \A i \in 1 .. Len(rows) - 1 : RemoveAt(rows, x)[i] = rows[Skip(i, x)]
<1> DEFINE N == Len(headings)
           R == [pos : 1 .. N, depth : Nat]
           n == Len(rows)
           m == n - 1
           L == RowLevels(headings, rows)
           D == Depths(rows)
           new == RemoveAt(rows, x)
           M == RowLevels(headings, new)
           E == Depths(new)
<1>1. /\ n \in Nat /\ DOMAIN rows = 1 .. n /\ L \in [1 .. n -> Int] /\ D \in [1 .. n -> Nat]
      /\ IsOutline(n, L, D) /\ OutlineOf(n, L, rows) /\ \A i \in 1 .. n : IsRow(headings, rows, i)
  BY ModelIsOutline, ModelHasOutline
<1>2. rows \in Seq(R)
  BY DEF IsModel
<1>3. x \in 1 .. n /\ x \in DOMAIN rows /\ ~(LastBelow(rows, x) > x)
  BY <1>1 DEF HasRows
<1>4. E = [i \in DOMAIN new |-> new[i].depth] /\ M = [i \in 1 .. Len(new) |-> headings[new[i].pos].level]
  BY DEF Depths, RowLevels
<1>5. \A i \in 1 .. n : L[i] = headings[rows[i].pos].level /\ D[i] = rows[i].depth
  BY <1>1 DEF IsRow
<1> HIDE DEF N, R
<1>6. /\ new \in Seq(R) /\ DOMAIN new = 1 .. Len(rows) - 1
      /\ \A k \in 1 .. Len(rows) - 1 : new[k] = IF k < x THEN rows[k] ELSE rows[k + 1]
  BY <1>2, <1>3, RemoveAtType, RemoveAtValues
<1> HIDE DEF new
<1>7. m \in Nat /\ Len(new) = m /\ DOMAIN new = 1 .. m
  <2>1. m \in Nat /\ DOMAIN new = 1 .. m
    BY <1>1, <1>3, <1>6
  <2>2. Len(new) \in Nat /\ DOMAIN new = 1 .. Len(new)
    BY <1>6
  <2> HIDE DEF m
  <2>3. Len(new) = m
    BY <2>1, <2>2
  <2> QED
    BY <2>1, <2>3
<1>8. \A i \in 1 .. m : new[i] = rows[Skip(i, x)] /\ Skip(i, x) \in 1 .. n
  BY <1>1, <1>3, <1>6 DEF Skip
<1>9. E = [i \in 1 .. m |-> new[i].depth] /\ M = [i \in 1 .. m |-> headings[new[i].pos].level]
  BY <1>4, <1>7
<1>10. n = m + 1
  BY <1>1
<1> HIDE DEF n, m, L, D, M, E
<1>11. \A i \in 1 .. m : M[i] = L[Skip(i, x)] /\ E[i] = D[Skip(i, x)]
  BY <1>5, <1>8, <1>9
<1>12. x = n \/ L[x + 1] <= L[x]
  <2>1. IsBlock(n, L, x, LastBelow(rows, x))
    BY <1>1, <1>3, LastBelowIsBlock
  <2>2. /\ LastBelow(rows, x) \in x .. n
        /\ LastBelow(rows, x) = n \/ L[LastBelow(rows, x) + 1] <= L[x]
    BY <2>1 DEF IsBlock
  <2>3. LastBelow(rows, x) = x
    BY <1>1, <1>3, <2>2
  <2> QED
    BY <2>2, <2>3
<1>13. IsOutline(m, M, E)
  <2>1. /\ m \in Nat /\ L \in [1 .. m + 1 -> Int] /\ D \in [1 .. m + 1 -> Nat]
        /\ IsOutline(m + 1, L, D) /\ x \in 1 .. m + 1 /\ (x = m + 1 \/ L[x + 1] <= L[x])
    BY <1>1, <1>3, <1>7, <1>10, <1>12
  <2> QED
    BY <1>11, <2>1, RemoveKeepsOutline
<1>14. E \in [1 .. m -> Nat]
  <2>1. \A i \in 1 .. m : D[Skip(i, x)] \in Nat
    BY <1>1, <1>8
  <2> QED
    BY <1>9, <1>11, <2>1
<1>15. OutlineOf(m, M, new)
  BY <1>7, <1>13, <1>14 DEF OutlineOf, E
<1>16. IsModel(headings, new)
  BY <1>6, <1>7, <1>15 DEF IsModel, M, R, N
<1>17. \A i \in 1 .. m : new[i] = rows[Skip(i, x)]
  BY <1>8
<1> QED
  BY <1>7, <1>16, <1>17 DEF new, m, n

\* RemoveItem raises the first row inside of an item
RaiseStep(headings, s) ==
    IF HasRows(s.rows, s.item)
    THEN [rows |-> RaiseRow(headings, s.rows, s.item), item |-> LastBelow(s.rows, s.item + 1)]
    ELSE s

\* After k rows are raised the item is the same, and if it has rows it has
\* passed as many.
IsRaising(headings, rows, item, k, s) ==
    /\ IsModel(headings, s.rows) /\ Len(s.rows) = Len(rows)
    /\ CanRemove(headings, s.rows, s.item) /\ SameItem(rows, item, s.rows, s.item)
    /\ HasRows(s.rows, s.item) => s.item > k

RaisingType(headings) == [rows : Seq([pos : 1 .. Len(headings), depth : Nat]), item : Nat]

Raisings(headings, rows, item, k) ==
    {s \in RaisingType(headings) : IsRaising(headings, rows, item, k, s)}

\* One round of the loop of RemoveItem
LEMMA NextRaising ==
    ASSUME NEW headings, IsBook(headings), NEW rows, NEW item, NEW k \in Nat \ {0},
           NEW s \in Raisings(headings, rows, item, k - 1)
    PROVE  RaiseStep(headings, s) \in Raisings(headings, rows, item, k)
<1>1. s \in RaisingType(headings) /\ IsRaising(headings, rows, item, k - 1, s)
  BY DEF Raisings
<1>2. /\ IsModel(headings, s.rows) /\ Len(s.rows) = Len(rows)
      /\ CanRemove(headings, s.rows, s.item) /\ SameItem(rows, item, s.rows, s.item)
      /\ HasRows(s.rows, s.item) => s.item > k - 1
  BY <1>1 DEF IsRaising
<1>3. CASE HasRows(s.rows, s.item)
  <2> DEFINE new == RaiseRow(headings, s.rows, s.item)
             e == LastBelow(s.rows, s.item + 1)
             t == [rows |-> new, item |-> e]
  <2>1. /\ e > s.item /\ e \in Nat /\ IsModel(headings, new) /\ Len(new) = Len(s.rows)
        /\ SameItem(s.rows, s.item, new, e) /\ CanRemove(headings, new, e)
    BY <1>2, <1>3, RaiseCanContinue
  <2>2. s.item > k - 1 /\ s.item \in Nat
    <3>1. s.item \in Nat
      BY <1>1 DEF RaisingType
    <3> QED
      BY <1>2, <1>3, <3>1
  <2> HIDE DEF new, e
  <2>3. e > k
    BY <2>1, <2>2
  <2>4. SameItem(rows, item, new, e)
    BY <1>2, <2>1 DEF SameItem
  <2>5. RaiseStep(headings, s) = t /\ t.rows = new /\ t.item = e
    BY <1>3 DEF RaiseStep, new, e
  <2>6. new \in Seq([pos : 1 .. Len(headings), depth : Nat])
    BY <2>1 DEF IsModel
  <2>7. t \in RaisingType(headings)
    BY <2>1, <2>6 DEF RaisingType
  <2> HIDE DEF t
  <2>8. IsRaising(headings, rows, item, k, t)
    BY <1>2, <2>1, <2>3, <2>4, <2>5 DEF IsRaising
  <2> QED
    BY <2>5, <2>7, <2>8 DEF Raisings
<1>4. CASE ~HasRows(s.rows, s.item)
  <2>1. RaiseStep(headings, s) = s
    BY <1>4 DEF RaiseStep
  <2>2. IsRaising(headings, rows, item, k, s)
    BY <1>2, <1>4 DEF IsRaising
  <2> QED
    BY <1>1, <2>1, <2>2 DEF Raisings
<1> QED
  BY <1>3, <1>4

\* The rows and items that RemoveItem goes through
RaisedOf(headings, rows, item) ==
    CHOOSE raised : raised = [k \in 0 .. Len(rows) |->
        IF k = 0 THEN [rows |-> rows, item |-> item] ELSE RaiseStep(headings, raised[k - 1])]

\* new has the rows but item x in their order.
IsRemoved(headings, rows, x, new) ==
    /\ IsModel(headings, new) /\ Len(new) = Len(rows) - 1
    /\ \A i \in 1 .. Len(rows) - 1 : new[i].pos = rows[Skip(i, x)].pos

\* The loop of RemoveItem ends with an item without rows.
LEMMA LastRaising ==
    ASSUME NEW headings, IsBook(headings), NEW rows, IsModel(headings, rows),
           NEW item, CanRemove(headings, rows, item)
    PROVE  RaisedOf(headings, rows, item)[Len(rows)] \in Raisings(headings, rows, item, Len(rows))
<1> DEFINE n == Len(rows)
           s0 == [rows |-> rows, item |-> item]
           T(k) == Raisings(headings, rows, item, k)
           G == [k \in 0 .. n |-> T(k)]
           F == [k \in 1 .. n |-> [s \in T(k - 1) |-> RaiseStep(headings, s)]]
           raised == RaisedOf(headings, rows, item)
<1>1. n \in Nat
  BY ModelIsOutline
<1>2. s0 \in T(0)
  <2>1. s0.rows = rows /\ s0.item = item
    OBVIOUS
  <2>2. item \in Nat /\ item > 0
    BY <1>1 DEF CanRemove
  <2>3. rows \in Seq([pos : 1 .. Len(headings), depth : Nat])
    BY DEF IsModel
  <2>4. s0 \in RaisingType(headings)
    BY <2>2, <2>3 DEF RaisingType
  <2>5. SameItem(rows, item, rows, item)
    BY DEF SameItem
  <2> HIDE DEF s0
  <2>6. IsRaising(headings, rows, item, 0, s0)
    BY <2>1, <2>2, <2>5 DEF IsRaising
  <2> QED
    BY <2>4, <2>6 DEF Raisings
<1>3. ASSUME NEW k \in 1 .. n, NEW s \in T(k - 1) PROVE RaiseStep(headings, s) \in T(k)
  <2>1. k \in Nat \ {0}
    BY <1>1
  <2> QED
    BY <1>3, <2>1, NextRaising
<1>4. \A k \in 1 .. n : k - 1 \in 0 .. n /\ k \in 0 .. n /\ k # 0
  BY <1>1
<1>5. 0 \in 0 .. n /\ n \in 0 .. n
  BY <1>1
<1>6. \A k \in 0 .. n : G[k] = T(k)
  OBVIOUS
<1>7. \A k \in 1 .. n : \A s \in T(k - 1) : F[k][s] = RaiseStep(headings, s)
  OBVIOUS
<1>8. raised = CHOOSE f : f = [k \in 0 .. n |-> IF k = 0 THEN s0 ELSE RaiseStep(headings, f[k - 1])]
  BY DEF RaisedOf
<1> HIDE DEF n, s0, T, G, F, raised
<1>9. PICK r : StepsFrom(n, s0, F, r) /\ \A k \in 0 .. n : r[k] \in G[k]
  <2>1. s0 \in G[0]
    BY <1>2, <1>5, <1>6
  <2>2. ASSUME NEW k \in 1 .. n, NEW x \in G[k - 1] PROVE F[k][x] \in G[k]
    <3>1. k - 1 \in 0 .. n /\ k \in 0 .. n
      BY <1>4
    <3>2. x \in T(k - 1) /\ G[k] = T(k)
      BY <1>6, <3>1
    <3> QED
      BY <1>3, <1>7, <3>2
  <2>3. StepsLead(n, s0, F, G)
    BY <2>1, <2>2 DEF StepsLead
  <2> QED
    BY <1>1, <2>3, Recursion
<1>10. ASSUME NEW k \in 0 .. n
       PROVE  (IF k = 0 THEN s0 ELSE F[k][r[k - 1]])
                = IF k = 0 THEN s0 ELSE RaiseStep(headings, r[k - 1])
  <2>1. k # 0 => k \in 1 .. n /\ k - 1 \in 0 .. n
    BY <1>1
  <2>2. k # 0 => r[k - 1] \in T(k - 1)
    BY <1>6, <1>9, <2>1
  <2> QED
    BY <1>7, <2>1, <2>2
<1>11. r = [k \in 0 .. n |-> IF k = 0 THEN s0 ELSE RaiseStep(headings, r[k - 1])]
  BY <1>9, <1>10 DEF StepsFrom
<1>12. raised = [k \in 0 .. n |-> IF k = 0 THEN s0 ELSE RaiseStep(headings, raised[k - 1])]
  BY <1>8, <1>11
<1>13. raised[0] = s0 /\ \A k \in 1 .. n : raised[k] = RaiseStep(headings, raised[k - 1])
  BY <1>4, <1>5, <1>12
<1>14. raised[n] \in T(n)
  <2> DEFINE S == {k \in 0 .. n : raised[k] \in T(k)}
  <2>1. 0 \in S
    BY <1>2, <1>5, <1>13
  <2>2. ASSUME NEW k \in 1 .. n, k - 1 \in S PROVE k \in S
    <3>1. raised[k - 1] \in T(k - 1)
      BY <2>2
    <3> QED
      BY <1>3, <1>4, <1>13, <3>1
  <2>3. \A k \in 0 .. n : k \in S
    <3> HIDE DEF S
    <3> QED
      BY <1>1, <2>1, <2>2, AllPositions
  <2> QED
    BY <1>5, <2>3
<1> QED
  BY <1>14 DEF raised, n, T

\* RemoveItem removes the item, and leaves a model of the others in their order.
LEMMA RemoveItemRemoves ==
    ASSUME NEW headings, IsBook(headings), NEW rows, IsModel(headings, rows),
           NEW item, CanRemove(headings, rows, item)
    PROVE  IsRemoved(headings, rows, item, RemoveItem(headings, rows, item))
<1> DEFINE n == Len(rows)
           last == RaisedOf(headings, rows, item)[n]
           new == RemoveAt(last.rows, last.item)
<1>1. n \in Nat
  BY ModelIsOutline
<1>2. RemoveItem(headings, rows, item)
        = SubSeq(last.rows, 1, last.item - 1) \o SubSeq(last.rows, last.item + 1, n)
  BY DEF RemoveItem, RaisedOf, RaiseStep
<1>3. IsRaising(headings, rows, item, n, last)
  <2>1. last \in Raisings(headings, rows, item, n)
    BY LastRaising
  <2> HIDE DEF last
  <2> QED
    BY <2>1 DEF Raisings
<1> HIDE DEF last
<1>4. /\ IsModel(headings, last.rows) /\ Len(last.rows) = n
      /\ CanRemove(headings, last.rows, last.item) /\ SameItem(rows, item, last.rows, last.item)
      /\ HasRows(last.rows, last.item) => last.item > n
  BY <1>3 DEF IsRaising
<1>5. last.item \in 1 .. n
  BY <1>4 DEF CanRemove
<1>6. ~HasRows(last.rows, last.item)
  BY <1>1, <1>4, <1>5
<1>7. RemoveItem(headings, rows, item) = new
  BY <1>2, <1>4 DEF RemoveAt
<1>8. /\ IsModel(headings, new) /\ Len(new) = n - 1
      /\ \A i \in 1 .. n - 1 : new[i] = last.rows[Skip(i, last.item)]
  BY <1>4, <1>5, <1>6, RemoveKeepsModel
<1>9. \A i \in 1 .. n - 1 : last.rows[Skip(i, last.item)].pos = rows[Skip(i, item)].pos
  BY <1>4 DEF SameItem
<1> HIDE DEF new
<1>10. \A i \in 1 .. n - 1 : new[i].pos = rows[Skip(i, item)].pos
  BY <1>8, <1>9
<1>11. IsRemoved(headings, rows, item, new)
  BY <1>8, <1>10 DEF IsRemoved
<1> QED
  BY <1>7, <1>11

\* What is inside of a node of a block ends with the block.
LEMMA BlocksNest ==
    ASSUME NEW n \in Nat, NEW L \in [1 .. n -> Int], NEW k \in 1 .. n, NEW e, IsBlock(n, L, k, e),
           NEW j \in k .. e, NEW f, IsBlock(n, L, j, f)
    PROVE  f <= e
<1>1. /\ e \in k .. n /\ \A i \in k + 1 .. e : L[i] > L[k]
      /\ e = n \/ L[e + 1] <= L[k]
      /\ f \in j .. n /\ \A i \in j + 1 .. f : L[i] > L[j]
  BY DEF IsBlock
<1> SUFFICES ASSUME e < f PROVE FALSE
  BY <1>1
<1>2. e + 1 \in j + 1 .. f /\ e + 1 \in 1 .. n /\ j \in 1 .. n /\ e # n
  BY <1>1
<1>3. L[e + 1] > L[j] /\ L[e + 1] <= L[k] /\ L[e + 1] \in Int /\ L[j] \in Int /\ L[k] \in Int
  BY <1>1, <1>2
<1>4. j = k \/ L[j] > L[k]
  BY <1>1
<1> QED
  BY <1>3, <1>4

\* The first excluded row with no excluded row inside of it
FirstFree(headings, rows) ==
    Min({i \in Excluded(headings, rows) :
            i + 1 .. LastBelow(rows, i) \cap Excluded(headings, rows) = {}})

\* The excluded item that RemoveExcludedItems comes to first can be removed.
LEMMA FirstFreeCanBeRemoved ==
    ASSUME NEW headings, IsBook(headings), NEW rows, IsModel(headings, rows),
           Excluded(headings, rows) # {}
    PROVE  /\ CanRemove(headings, rows, FirstFree(headings, rows))
           /\ FirstFree(headings, rows) \in Excluded(headings, rows)
<1> DEFINE n == Len(rows)
           L == RowLevels(headings, rows)
           X == Excluded(headings, rows)
           S == {i \in X : i + 1 .. LastBelow(rows, i) \cap X = {}}
           i == Min(S)
           Included(k) == headings[rows[k].pos].include
<1>1. n \in Nat /\ L \in [1 .. n -> Int] /\ OutlineOf(n, L, rows) /\ DOMAIN rows = 1 .. n
  BY ModelIsOutline, ModelHasOutline
<1>2. \A k : k \in X <=> k \in 1 .. n /\ ~Included(k)
  BY <1>1 DEF Excluded
<1>3. \A k : k \in S <=> k \in X /\ \A m \in k + 1 .. LastBelow(rows, k) : m \notin X
  OBVIOUS
<1>4. \A k \in 1 .. n : IsBlock(n, L, k, LastBelow(rows, k))
  BY <1>1, LastBelowIsBlock
<1> HIDE DEF n, L, X, S
<1>5. ASSUME NEW k \in X PROVE \E j \in S : j \in k .. LastBelow(rows, k)
  <2> DEFINE e == LastBelow(rows, k)
             C == {j \in X : j \in k .. e}
             j == Max(C)
  <2>1. k \in 1 .. n /\ IsBlock(n, L, k, e)
    BY <1>2, <1>4
  <2> HIDE DEF e
  <2>2. e \in k .. n
    BY <2>1 DEF IsBlock
  <2>3. C \in SUBSET (0 .. n) /\ C # {}
    <3>1. \A m \in C : m \in 0 .. n
      BY <1>2
    <3>2. k \in C
      BY <1>1, <2>1, <2>2
    <3> QED
      BY <3>1, <3>2
  <2>4. \A m : m \in C <=> m \in X /\ m \in k .. e
    OBVIOUS
  <2> HIDE DEF C
  <2>5. j \in C /\ \A m \in C : m <= j
    BY <1>1, <2>3, MaxIsGreatest
  <2> HIDE DEF j
  <2>6. j \in X /\ j \in k .. e /\ j \in 1 .. n
    BY <1>2, <2>4, <2>5
  <2>7. LastBelow(rows, j) <= e
    <3>1. IsBlock(n, L, j, LastBelow(rows, j)) /\ n \in Nat /\ L \in [1 .. n -> Int]
      BY <1>1, <1>4, <2>6
    <3> QED
      BY <2>1, <2>6, <3>1, BlocksNest
  <2>8. LastBelow(rows, j) \in Nat
    <3>1. LastBelow(rows, j) \in j .. n
      BY <1>4, <2>6 DEF IsBlock
    <3> QED
      BY <1>1, <2>6, <3>1
  <2>9. ASSUME NEW m \in j + 1 .. LastBelow(rows, j), m \in X PROVE FALSE
    <3>1. m \in k .. e /\ ~(m <= j)
      BY <1>1, <2>1, <2>2, <2>6, <2>7, <2>8
    <3> QED
      BY <2>4, <2>5, <2>9, <3>1
  <2>10. j \in S
    BY <1>3, <2>6, <2>9
  <2> QED
    BY <2>6, <2>10 DEF e
<1>6. i \in S /\ \A s \in S : i <= s
  <2>1. S \in SUBSET Nat
    <3>1. \A s \in S : s \in Nat
      BY <1>1, <1>2, <1>3
    <3> QED
      BY <3>1
  <2>2. S # {}
    <3>1. PICK k : k \in X
      BY DEF X
    <3> QED
      BY <1>5, <3>1
  <2> QED
    BY <2>1, <2>2, MinIsLeast
<1>7. FirstFree(headings, rows) = i
  BY DEF FirstFree, S, X
<1> HIDE DEF i
<1>8. i \in X /\ i \in 1 .. n /\ \A m \in i + 1 .. LastBelow(rows, i) : m \notin X
  BY <1>2, <1>3, <1>6
<1>9. ASSUME NEW k \in 1 .. i - 1, ~Included(k) PROVE InsideByLevel(L, i, k)
  <2>1. k \in 1 .. n /\ k \in X
    BY <1>1, <1>2, <1>8, <1>9
  <2>2. PICK j \in S : j \in k .. LastBelow(rows, k)
    BY <1>5, <2>1
  <2>3. i <= j
    BY <1>6
  <2>4. IsBlock(n, L, k, LastBelow(rows, k))
    BY <1>4, <2>1
  <2>5. \A m \in k + 1 .. LastBelow(rows, k) : L[m] > L[k]
    BY <2>4 DEF IsBlock
  <2>6. LastBelow(rows, k) \in k .. n
    BY <2>4 DEF IsBlock
  <2>7. \A m \in k + 1 .. i : m \in k + 1 .. LastBelow(rows, k)
    BY <1>1, <1>8, <2>1, <2>2, <2>3, <2>6
  <2> QED
    BY <2>5, <2>7 DEF InsideByLevel
<1>10. \A k \in i + 1 .. LastBelow(rows, i) : Included(k)
  <2>1. LastBelow(rows, i) \in i .. n
    BY <1>4, <1>8 DEF IsBlock
  <2>2. ASSUME NEW k \in i + 1 .. LastBelow(rows, i) PROVE k \in 1 .. n /\ k \notin X
    BY <1>1, <1>8, <2>1
  <2> QED
    BY <1>2, <2>2
<1>11. CanRemove(headings, rows, i)
  BY <1>8, <1>9, <1>10 DEF CanRemove, L, n
<1> QED
  BY <1>7, <1>8, <1>11 DEF X

\* RemoveExcludedItems removes the first excluded row that is free
RemoveStep(headings, rows) ==
    IF Excluded(headings, rows) = {} THEN rows
    ELSE RemoveItem(headings, rows, FirstFree(headings, rows))

\* After k rows are removed the others remain in their order.
IsRemaining(headings, start, k, rows) ==
    /\ IsModel(headings, rows)
    /\ \A i, j \in 1 .. Len(rows) : i < j => rows[i].pos < rows[j].pos
    /\ \A i \in 1 .. Len(rows) : \E j \in 1 .. Len(start) : rows[i].pos = start[j].pos
    /\ \A j \in 1 .. Len(start) : headings[start[j].pos].include =>
          \E i \in 1 .. Len(rows) : rows[i].pos = start[j].pos
    /\ Excluded(headings, rows) = {} \/ Len(rows) = Len(start) - k

\* One removal of RemoveExcludedItems
LEMMA NextRemaining ==
    ASSUME NEW headings, IsBook(headings), NEW start, Len(start) \in Nat, NEW k \in Nat \ {0},
           NEW rows, IsRemaining(headings, start, k - 1, rows)
    PROVE  IsRemaining(headings, start, k, RemoveStep(headings, rows))
<1> DEFINE n == Len(rows)
           m == Len(start)
           x == FirstFree(headings, rows)
           new == RemoveItem(headings, rows, x)
<1>1. /\ IsModel(headings, rows)
      /\ \A i, j \in 1 .. n : i < j => rows[i].pos < rows[j].pos
      /\ \A i \in 1 .. n : \E j \in 1 .. m : rows[i].pos = start[j].pos
      /\ \A j \in 1 .. m : headings[start[j].pos].include =>
            \E i \in 1 .. n : rows[i].pos = start[j].pos
      /\ Excluded(headings, rows) = {} \/ n = m - (k - 1)
  BY DEF IsRemaining
<1>2. CASE Excluded(headings, rows) = {}
  BY <1>1, <1>2 DEF RemoveStep, IsRemaining
<1>3. CASE Excluded(headings, rows) # {}
  <2>1. CanRemove(headings, rows, x) /\ x \in Excluded(headings, rows)
    BY <1>1, <1>3, FirstFreeCanBeRemoved
  <2>2. IsRemoved(headings, rows, x, new)
    BY <1>1, <2>1, RemoveItemRemoves
  <2>3. /\ IsModel(headings, new) /\ Len(new) = n - 1
        /\ \A i \in 1 .. n - 1 : new[i].pos = rows[Skip(i, x)].pos
    BY <2>2 DEF IsRemoved
  <2>4. n \in Nat /\ DOMAIN rows = 1 .. n
    BY <1>1, ModelIsOutline
  <2>5. x \in 1 .. n /\ ~headings[rows[x].pos].include
    BY <2>1, <2>4 DEF Excluded
  <2>6. RemoveStep(headings, rows) = new
    BY <1>3 DEF RemoveStep
  <2>15. m \in Nat
    OBVIOUS
  <2> HIDE DEF n, m, x, new
  <2>7. \A i \in 1 .. n - 1 : Skip(i, x) \in 1 .. n
    BY <2>4, <2>5 DEF Skip
  <2>8. \A i, j \in 1 .. n - 1 : i < j => Skip(i, x) < Skip(j, x)
    BY <2>4, <2>5 DEF Skip
  <2>9. ASSUME NEW i \in 1 .. n, i # x PROVE \E j \in 1 .. n - 1 : Skip(j, x) = i
    <3>1. CASE i < x
      <4>1. i \in 1 .. n - 1 /\ Skip(i, x) = i
        BY <2>4, <2>5, <3>1 DEF Skip
      <4> QED
        BY <4>1
    <3>2. CASE ~(i < x)
      <4>1. i - 1 \in 1 .. n - 1 /\ Skip(i - 1, x) = i
        BY <2>4, <2>5, <2>9, <3>2 DEF Skip
      <4> QED
        BY <4>1
    <3> QED
      BY <3>1, <3>2
  <2>10. ASSUME NEW i \in 1 .. n - 1, NEW j \in 1 .. n - 1, i < j PROVE new[i].pos < new[j].pos
    BY <1>1, <2>3, <2>7, <2>8, <2>10
  <2>11. ASSUME NEW i \in 1 .. n - 1 PROVE \E j \in 1 .. m : new[i].pos = start[j].pos
    BY <1>1, <2>3, <2>7
  <2>12. ASSUME NEW j \in 1 .. m, headings[start[j].pos].include
         PROVE  \E i \in 1 .. n - 1 : new[i].pos = start[j].pos
    <3>1. PICK i \in 1 .. n : rows[i].pos = start[j].pos
      BY <1>1, <2>12
    <3>2. i # x
      BY <2>5, <2>12, <3>1
    <3>3. PICK h \in 1 .. n - 1 : Skip(h, x) = i
      BY <2>9, <3>2
    <3> QED
      BY <2>3, <3>1, <3>3
  <2>13. n - 1 = m - k
    <3>1. n = m - (k - 1)
      BY <1>1, <1>3
    <3> QED
      BY <2>4, <2>15, <3>1
  <2>14. IsRemaining(headings, start, k, new)
    BY <2>3, <2>10, <2>11, <2>12, <2>13 DEF IsRemaining, m
  <2> QED
    BY <2>6, <2>14
<1> QED
  BY <1>2, <1>3

\* The rows that RemoveExcludedItems goes through
RemovedOf(headings, rows) ==
    CHOOSE removed : removed = [k \in 0 .. Len(rows) |->
        IF k = 0 THEN rows ELSE RemoveStep(headings, removed[k - 1])]

Remainings(headings, start, k) ==
    {rows \in Seq([pos : 1 .. Len(headings), depth : Nat]) : IsRemaining(headings, start, k, rows)}

InOrder(rows) == \A i, j \in 1 .. Len(rows) : i < j => rows[i].pos < rows[j].pos

\* The removals end with no excluded item.
LEMMA LastRemaining ==
    ASSUME NEW headings, IsBook(headings), NEW rows, IsModel(headings, rows), InOrder(rows)
    PROVE  RemovedOf(headings, rows)[Len(rows)] \in Remainings(headings, rows, Len(rows))
<1> DEFINE n == Len(rows)
           T(k) == Remainings(headings, rows, k)
           G == [k \in 0 .. n |-> T(k)]
           F == [k \in 1 .. n |-> [s \in T(k - 1) |-> RemoveStep(headings, s)]]
           removed == RemovedOf(headings, rows)
<1>1. n \in Nat /\ Len(rows) = n
  BY ModelIsOutline
<1>2. rows \in T(0)
  <2>1. rows \in Seq([pos : 1 .. Len(headings), depth : Nat])
    BY DEF IsModel
  <2>2. \A i, j \in 1 .. n : i < j => rows[i].pos < rows[j].pos
    BY DEF InOrder
  <2>3. n = n - 0
    BY <1>1
  <2> HIDE DEF n
  <2>4. IsRemaining(headings, rows, 0, rows)
    BY <2>2, <2>3 DEF IsRemaining, n
  <2> QED
    BY <2>1, <2>4 DEF Remainings
<1>3. ASSUME NEW k \in 1 .. n, NEW s \in T(k - 1) PROVE RemoveStep(headings, s) \in T(k)
  <2>1. k \in Nat \ {0} /\ Len(rows) \in Nat
    BY <1>1
  <2>2. IsRemaining(headings, rows, k - 1, s)
    BY <1>3 DEF Remainings
  <2>3. IsRemaining(headings, rows, k, RemoveStep(headings, s))
    BY <2>1, <2>2, NextRemaining
  <2>4. RemoveStep(headings, s) \in Seq([pos : 1 .. Len(headings), depth : Nat])
    BY <2>3 DEF IsRemaining, IsModel
  <2> QED
    BY <2>3, <2>4 DEF Remainings
<1>4. \A k \in 1 .. n : k - 1 \in 0 .. n /\ k \in 0 .. n /\ k # 0
  BY <1>1
<1>5. 0 \in 0 .. n /\ n \in 0 .. n
  BY <1>1
<1>6. \A k \in 0 .. n : G[k] = T(k)
  OBVIOUS
<1>7. \A k \in 1 .. n : \A s \in T(k - 1) : F[k][s] = RemoveStep(headings, s)
  OBVIOUS
<1>8. removed = CHOOSE f : f = [k \in 0 .. n |-> IF k = 0 THEN rows ELSE RemoveStep(headings, f[k - 1])]
  BY DEF RemovedOf
<1> HIDE DEF n, T, G, F, removed
<1>9. PICK r : StepsFrom(n, rows, F, r) /\ \A k \in 0 .. n : r[k] \in G[k]
  <2>1. rows \in G[0]
    BY <1>2, <1>5, <1>6
  <2>2. ASSUME NEW k \in 1 .. n, NEW x \in G[k - 1] PROVE F[k][x] \in G[k]
    <3>1. k - 1 \in 0 .. n /\ k \in 0 .. n
      BY <1>4
    <3>2. x \in T(k - 1) /\ G[k] = T(k)
      BY <1>6, <3>1
    <3> QED
      BY <1>3, <1>7, <3>2
  <2>3. StepsLead(n, rows, F, G)
    BY <2>1, <2>2 DEF StepsLead
  <2> QED
    BY <1>1, <2>3, Recursion
<1>10. ASSUME NEW k \in 0 .. n
       PROVE  (IF k = 0 THEN rows ELSE F[k][r[k - 1]])
                = IF k = 0 THEN rows ELSE RemoveStep(headings, r[k - 1])
  <2>1. k # 0 => k \in 1 .. n /\ k - 1 \in 0 .. n
    BY <1>1
  <2>2. k # 0 => r[k - 1] \in T(k - 1)
    BY <1>6, <1>9, <2>1
  <2> QED
    BY <1>7, <2>1, <2>2
<1>11. r = [k \in 0 .. n |-> IF k = 0 THEN rows ELSE RemoveStep(headings, r[k - 1])]
  BY <1>9, <1>10 DEF StepsFrom
<1>12. removed = [k \in 0 .. n |-> IF k = 0 THEN rows ELSE RemoveStep(headings, removed[k - 1])]
  BY <1>8, <1>11
<1>13. removed[0] = rows /\ \A k \in 1 .. n : removed[k] = RemoveStep(headings, removed[k - 1])
  BY <1>4, <1>5, <1>12
<1>14. removed[n] \in T(n)
  <2> DEFINE S == {k \in 0 .. n : removed[k] \in T(k)}
  <2>1. 0 \in S
    BY <1>2, <1>5, <1>13
  <2>2. ASSUME NEW k \in 1 .. n, k - 1 \in S PROVE k \in S
    <3>1. removed[k - 1] \in T(k - 1)
      BY <2>2
    <3> QED
      BY <1>3, <1>4, <1>13, <3>1
  <2>3. \A k \in 0 .. n : k \in S
    <3> HIDE DEF S
    <3> QED
      BY <1>1, <2>1, <2>2, AllPositions
  <2> QED
    BY <1>5, <2>3
<1> QED
  BY <1>14 DEF removed, n, T

\* RemoveExcludedItems removes the excluded items and no others.
LEMMA ExcludedAreRemoved ==
    ASSUME NEW headings, IsBook(headings), NEW rows, IsModel(headings, rows), InOrder(rows)
    PROVE  /\ IsRemaining(headings, rows, Len(rows), RemoveExcludedItems(headings, rows))
           /\ Excluded(headings, RemoveExcludedItems(headings, rows)) = {}
<1> DEFINE new == RemovedOf(headings, rows)[Len(rows)]
<1>1. RemoveExcludedItems(headings, rows) = new
  BY DEF RemoveExcludedItems, RemovedOf, RemoveStep, FirstFree
<1>2. IsRemaining(headings, rows, Len(rows), new)
  <2>1. new \in Remainings(headings, rows, Len(rows))
    BY LastRemaining
  <2> HIDE DEF new
  <2> QED
    BY <2>1 DEF Remainings
<1> HIDE DEF new
<1>3. Excluded(headings, new) = {}
  <2>1. IsModel(headings, new) /\ (Excluded(headings, new) = {} \/ Len(new) = Len(rows) - Len(rows))
    BY <1>2 DEF IsRemaining
  <2>2. Len(rows) \in Nat /\ Len(new) \in Nat /\ DOMAIN new = 1 .. Len(new)
    BY <2>1, ModelIsOutline
  <2>3. Len(new) = 0 => Excluded(headings, new) = {}
    BY <2>2 DEF Excluded
  <2> QED
    BY <2>1, <2>2, <2>3
<1> QED
  BY <1>1, <1>2, <1>3

\* The rows show all headings, or those to include.
Shows(headings, all, rows) ==
    /\ IsModel(headings, rows) /\ InOrder(rows)
    /\ \A i \in 1 .. Len(rows) : headings[rows[i].pos].include \/ all
    /\ \A p \in 1 .. Len(headings) :
          headings[p].include \/ all => \E i \in 1 .. Len(rows) : rows[i].pos = p

\* It leaves the headings to include.
LEMMA RemovalShows ==
    ASSUME NEW headings, IsBook(headings), NEW rows, IsModel(headings, rows), InOrder(rows),
           \A p \in 1 .. Len(headings) :
              headings[p].include => \E i \in 1 .. Len(rows) : rows[i].pos = p
    PROVE  Shows(headings, FALSE, RemoveExcludedItems(headings, rows))
<1> DEFINE new == RemoveExcludedItems(headings, rows)
<1>1. IsRemaining(headings, rows, Len(rows), new) /\ Excluded(headings, new) = {}
  BY ExcludedAreRemoved
<1> HIDE DEF new
<1>2. /\ IsModel(headings, new) /\ InOrder(new)
      /\ \A j \in 1 .. Len(rows) : headings[rows[j].pos].include =>
            \E i \in 1 .. Len(new) : new[i].pos = rows[j].pos
  BY <1>1 DEF IsRemaining, InOrder
<1>3. \A i \in 1 .. Len(new) : headings[new[i].pos].include
  <2>1. DOMAIN new = 1 .. Len(new)
    BY <1>2, ModelIsOutline
  <2> QED
    BY <1>1, <2>1 DEF Excluded
<1>4. ASSUME NEW p \in 1 .. Len(headings), headings[p].include
      PROVE  \E i \in 1 .. Len(new) : new[i].pos = p
  BY <1>2, <1>4
<1>5. Shows(headings, FALSE, new)
  BY <1>2, <1>3, <1>4 DEF Shows
<1> QED
  BY <1>5 DEF new

\* The tree that is created for a list of the headings shows them.
LEMMA CreatedShows ==
    ASSUME NEW headings, IsBook(headings), NEW all \in BOOLEAN
    PROVE  Shows(headings, all, CreateTOCModel(GetHeadingList(headings, all)))
<1> DEFINE N == Len(headings)
           R == [pos : 1 .. N, depth : Nat]
           l == GetHeadingList(headings, all)
           n == Len(l)
           t == MakeHeadingHeirarchy(l)
           rows == CreateTOCModel(l)
           L == LevelsOf(l, n)
           M == RowLevels(headings, rows)
<1>1. IsSelection(headings, all, N, l)
  BY HeadingListSelects
<1>2. rows = [i \in DOMAIN t |-> Row(t[i].heading.pos, t[i].depth)]
  BY DEF CreateTOCModel
<1>3. M = [i \in 1 .. Len(rows) |-> headings[rows[i].pos].level]
  BY DEF RowLevels
<1> HIDE DEF l
<1>4. /\ l \in Seq(HeadingType) /\ n \in Nat
      /\ \A i \in 1 .. n : l[i].pos \in 1 .. N /\ l[i] = headings[l[i].pos] /\ (l[i].include \/ all)
      /\ \A i, j \in 1 .. n : i < j => l[i].pos < l[j].pos
      /\ \A p \in 1 .. N : headings[p].include \/ all => \E i \in 1 .. n : l[i].pos = p
  BY <1>1 DEF IsSelection
<1>5. \A i \in 1 .. n : l[i].level \in Int
  <2>1. \A i \in 1 .. n : l[i] \in HeadingType
    BY <1>4
  <2>2. \A h \in HeadingType : h.level \in Int
    BY LevelsAssumption DEF HeadingType
  <2> QED
    BY <2>1, <2>2
<1>6. t \in Trees(l, n)
  BY <1>4, <1>5, HierarchyIsOutline
<1> HIDE DEF t, rows
<1>7. /\ DOMAIN t = 1 .. n /\ Len(t) = n /\ \A i \in 1 .. n : t[i].heading = l[i]
      /\ Depths(t) \in [1 .. n -> Nat] /\ IsOutline(n, L, Depths(t))
  BY <1>6 DEF Trees, OutlineOf
<1>8. \A i \in 1 .. n : t[i].depth \in Nat
  <2>1. Depths(t) = [i \in 1 .. n |-> t[i].depth]
    BY <1>7 DEF Depths
  <2> QED
    BY <1>7, <2>1
<1>9. rows = [i \in 1 .. n |-> Row(l[i].pos, t[i].depth)]
  BY <1>2, <1>7
<1>10. \A i \in 1 .. n : Row(l[i].pos, t[i].depth) \in R
  <2>1. \A p \in 1 .. N : \A d \in Nat : Row(p, d) \in R
    BY DEF Row
  <2> HIDE DEF R
  <2> QED
    BY <1>4, <1>8, <2>1
<1>11. /\ rows \in Seq(R) /\ Len(rows) = n /\ DOMAIN rows = 1 .. n
  <2>1. rows \in [1 .. n -> R]
    BY <1>9, <1>10
  <2> HIDE DEF R
  <2> QED
    BY <1>4, <2>1, FunctionIsASequence
<1>12. \A i \in 1 .. n : rows[i].pos = l[i].pos /\ rows[i].depth = t[i].depth
  BY <1>9 DEF Row
<1>13. M = L
  <2>1. L = [i \in 1 .. n |-> l[i].level]
    BY DEF LevelsOf
  <2>2. ASSUME NEW i \in 1 .. n PROVE headings[rows[i].pos].level = l[i].level
    BY <1>4, <1>12
  <2>3. M = [i \in 1 .. n |-> headings[rows[i].pos].level]
    BY <1>3, <1>11
  <2> HIDE DEF L, M
  <2> QED
    BY <2>1, <2>2, <2>3
<1>14. Depths(rows) = Depths(t)
  <2>1. Depths(rows) = [i \in 1 .. n |-> rows[i].depth]
    BY <1>11 DEF Depths
  <2>2. Depths(t) = [i \in 1 .. n |-> t[i].depth]
    BY <1>7 DEF Depths
  <2> QED
    BY <1>12, <2>1, <2>2
<1>15. OutlineOf(n, M, rows)
  <2> HIDE DEF L, M
  <2> QED
    BY <1>7, <1>11, <1>13, <1>14 DEF OutlineOf
<1>16. IsModel(headings, rows)
  BY <1>11, <1>15 DEF IsModel
<1>17. InOrder(rows)
  BY <1>4, <1>11, <1>12 DEF InOrder
<1>18. \A i \in 1 .. n : headings[rows[i].pos].include \/ all
  BY <1>4, <1>12
<1>19. ASSUME NEW p \in 1 .. N, headings[p].include \/ all PROVE \E i \in 1 .. n : rows[i].pos = p
  <2>1. PICK i \in 1 .. n : l[i].pos = p
    BY <1>4, <1>19
  <2>2. rows[i].pos = p
    BY <1>12, <2>1
  <2> QED
    BY <2>2
<1>20. Shows(headings, all, rows)
  BY <1>11, <1>16, <1>17, <1>18, <1>19 DEF Shows
<1> QED
  BY <1>20 DEF rows, l

\* There is one way to show them.
LEMMA ShownAreTheSame ==
    ASSUME NEW headings, IsBook(headings), NEW all \in BOOLEAN,
           NEW rows, Shows(headings, all, rows), NEW new, Shows(headings, all, new)
    PROVE  rows = new
<1> DEFINE N == Len(headings)
           R == [pos : 1 .. N, depth : Nat]
           n == Len(rows)
           m == Len(new)
           p == [i \in 1 .. n |-> rows[i].pos]
           q == [i \in 1 .. m |-> new[i].pos]
<1>1. /\ IsModel(headings, rows) /\ InOrder(rows)
      /\ \A i \in 1 .. n : headings[rows[i].pos].include \/ all
      /\ \A k \in 1 .. N : headings[k].include \/ all => \E i \in 1 .. n : rows[i].pos = k
  BY DEF Shows
<1>2. /\ IsModel(headings, new) /\ InOrder(new)
      /\ \A i \in 1 .. m : headings[new[i].pos].include \/ all
      /\ \A k \in 1 .. N : headings[k].include \/ all => \E i \in 1 .. m : new[i].pos = k
  BY DEF Shows
<1>3. n \in Nat /\ \A i \in 1 .. n : IsRow(headings, rows, i)
  BY <1>1, ModelIsOutline
<1>4. m \in Nat /\ \A i \in 1 .. m : IsRow(headings, new, i)
  BY <1>2, ModelIsOutline
<1>5. \A i \in 1 .. n : rows[i].pos \in 1 .. N /\ rows[i] = Row(rows[i].pos, rows[i].depth)
  BY <1>3 DEF IsRow
<1>6. \A i \in 1 .. m : new[i].pos \in 1 .. N /\ new[i] = Row(new[i].pos, new[i].depth)
  BY <1>4 DEF IsRow
<1>7. /\ p \in [1 .. n -> Nat] /\ \A i \in 1 .. n : p[i] = rows[i].pos
      /\ q \in [1 .. m -> Nat] /\ \A i \in 1 .. m : q[i] = new[i].pos
  <2>1. N \in Nat
    BY DEF IsBook
  <2> QED
    BY <1>5, <1>6, <2>1
<1>8. Increasing(n, p) /\ Increasing(m, q)
  BY <1>1, <1>2, <1>7 DEF Increasing, InOrder
<1>9. rows \in Seq(R) /\ new \in Seq(R)
  BY <1>1, <1>2 DEF IsModel
<1>10. /\ RowLevels(headings, rows) \in [1 .. n -> Int] /\ Depths(rows) \in [1 .. n -> Nat]
       /\ IsOutline(n, RowLevels(headings, rows), Depths(rows))
  BY <1>1, ModelIsOutline
<1>11. /\ Depths(new) \in [1 .. m -> Nat]
       /\ IsOutline(m, RowLevels(headings, new), Depths(new))
  BY <1>2, ModelIsOutline
<1>21. /\ RowLevels(headings, rows) = [i \in 1 .. n |-> headings[rows[i].pos].level]
       /\ RowLevels(headings, new) = [i \in 1 .. m |-> headings[new[i].pos].level]
  BY DEF RowLevels
<1>22. n = Len(rows) /\ m = Len(new)
  OBVIOUS
<1> HIDE DEF N, R, n, m, p, q
<1>12. Within(n, p, m, q)
  <2>1. ASSUME NEW i \in 1 .. n PROVE \E j \in 1 .. m : p[i] = q[j]
    <3>1. PICK j \in 1 .. m : new[j].pos = rows[i].pos
      BY <1>1, <1>2, <1>5
    <3>2. q[j] = new[j].pos /\ p[i] = rows[i].pos
      BY <1>7
    <3> QED
      BY <3>1, <3>2
  <2> QED
    BY <2>1 DEF Within
<1>13. Within(m, q, n, p)
  <2>1. ASSUME NEW i \in 1 .. m PROVE \E j \in 1 .. n : q[i] = p[j]
    <3>1. PICK j \in 1 .. n : rows[j].pos = new[i].pos
      BY <1>1, <1>2, <1>6
    <3>2. p[j] = rows[j].pos /\ q[i] = new[i].pos
      BY <1>7
    <3> QED
      BY <3>1, <3>2
  <2> QED
    BY <2>1 DEF Within
<1>14. n = m /\ \A i \in 1 .. n : p[i] = q[i]
  <2>1. n \in Nat /\ m \in Nat /\ p \in [1 .. n -> Nat] /\ q \in [1 .. m -> Nat]
    BY <1>3, <1>4, <1>7
  <2> QED
    BY <1>8, <1>12, <1>13, <2>1, SameValues, SMTT(60), ZenonT(60)
<1>15. \A i \in 1 .. n : rows[i].pos = new[i].pos
  BY <1>7, <1>14
<1>16. RowLevels(headings, rows) = RowLevels(headings, new)
  BY <1>14, <1>15, <1>21
<1>17. Depths(rows) = Depths(new)
  <2>1. /\ n \in Nat /\ Depths(new) \in [1 .. n -> Nat]
        /\ IsOutline(n, RowLevels(headings, rows), Depths(new))
    BY <1>3, <1>11, <1>14, <1>16
  <2> QED
    BY <1>10, <2>1, OutlineIsUnique
<1>18. \A i \in 1 .. n : rows[i].depth = new[i].depth
  <2>1. ASSUME NEW i \in 1 .. n PROVE Depths(rows)[i] = rows[i].depth /\ Depths(new)[i] = new[i].depth
    BY <1>3, <1>4, <1>14 DEF IsRow
  <2> QED
    BY <1>17, <2>1
<1>19. \A i \in 1 .. n : rows[i] = new[i]
  BY <1>5, <1>6, <1>14, <1>15, <1>18
<1>20. Len(rows) = Len(new) /\ \A i \in 1 .. Len(rows) : rows[i] = new[i]
  BY <1>14, <1>19, <1>22
<1> QED
  BY <1>9, <1>20, SeqEqual

\* Including or excluding a heading leaves the levels.
Toggled(headings, pos) == [headings EXCEPT ![pos].include = ~@]

\* The headings remain those of a book.
LEMMA ToggledIsBook ==
    ASSUME NEW headings, IsBook(headings), NEW pos \in 1 .. Len(headings)
    PROVE  /\ IsBook(Toggled(headings, pos)) /\ Len(Toggled(headings, pos)) = Len(headings)
           /\ \A p \in 1 .. Len(headings) : /\ Toggled(headings, pos)[p].level = headings[p].level
                                            /\ p # pos => Toggled(headings, pos)[p] = headings[p]
           /\ Toggled(headings, pos)[pos].include = ~headings[pos].include
<1> DEFINE n == Len(headings)
           h == [headings[pos] EXCEPT !.include = ~@]
           new == [headings EXCEPT ![pos] = h]
<1>1. headings \in Seq(HeadingType) /\ \A i \in 1 .. n : headings[i].pos = i
  BY DEF IsBook
<1>2. n \in Nat /\ DOMAIN headings = 1 .. n /\ headings[pos] \in HeadingType
  BY <1>1
<1>3. Toggled(headings, pos) = new
  BY DEF Toggled
<1>4. /\ h \in HeadingType /\ h.pos = headings[pos].pos /\ h.level = headings[pos].level
      /\ h.include = ~headings[pos].include
  BY <1>2 DEF HeadingType
<1> HIDE DEF h
<1>5. new \in Seq(HeadingType) /\ Len(new) = n
  BY <1>1, <1>2, <1>4, ReplaceType
<1>6. \A i \in 1 .. n : new[i] = IF i = pos THEN h ELSE headings[i]
  BY <1>2
<1> HIDE DEF new
<1>7. \A i \in 1 .. n : new[i].pos = i /\ new[i].level = headings[i].level
  BY <1>1, <1>4, <1>6
<1>8. IsBook(new)
  BY <1>5, <1>7 DEF IsBook
<1>9. new[pos].include = ~headings[pos].include
  BY <1>4, <1>6
<1>10. \A p \in 1 .. n : new[p].level = headings[p].level /\ (p # pos => new[p] = headings[p])
  BY <1>6, <1>7
<1> QED
  BY <1>3, <1>5, <1>8, <1>9, <1>10

\* Their rows remain a model, as that depends on the levels only.
LEMMA ToggledKeepsModel ==
    ASSUME NEW headings, IsBook(headings), NEW pos \in 1 .. Len(headings),
           NEW rows, IsModel(headings, rows)
    PROVE  IsModel(Toggled(headings, pos), rows)
<1> DEFINE new == Toggled(headings, pos)
<1>1. Len(new) = Len(headings) /\ \A p \in 1 .. Len(headings) : new[p].level = headings[p].level
  BY ToggledIsBook
<1> HIDE DEF new
<1>2. /\ rows \in Seq([pos : 1 .. Len(headings), depth : Nat])
      /\ OutlineOf(Len(rows), RowLevels(headings, rows), rows)
  BY DEF IsModel
<1>3. \A i \in 1 .. Len(rows) : rows[i].pos \in 1 .. Len(headings)
  <2>1. \A i \in 1 .. Len(rows) : IsRow(headings, rows, i)
    BY ModelIsOutline
  <2> QED
    BY <2>1 DEF IsRow
<1>4. RowLevels(new, rows) = RowLevels(headings, rows)
  BY <1>1, <1>3 DEF RowLevels
<1>5. IsModel(new, rows)
  BY <1>1, <1>2, <1>4 DEF IsModel
<1> QED
  BY <1>5 DEF new

-----------------------------------------------------------------------------
(* The steps of the dialog *)

\* The inductive invariant: the NCX is that of the book, and the dialog shows
\* the headings of the book as they are marked in it.
SelectorInv ==
    /\ IsBook(book) /\ toc = GenerateNCX(book) /\ itemsOnly \in BOOLEAN
    /\ open => /\ IsBook(m_Headings) /\ Len(m_Headings) = Len(book)
               /\ Shows(m_Headings, ~itemsOnly, model)

\* CreateTOCModel of all headings shows all of them.
LEMMA CreatedShowsAll ==
    ASSUME NEW headings, IsBook(headings)
    PROVE  Shows(headings, TRUE, CreateTOCModel(headings))
<1>1. GetHeadingList(headings, TRUE) = headings
  BY AllAreListed
<1>2. Shows(headings, TRUE, CreateTOCModel(GetHeadingList(headings, TRUE)))
  BY CreatedShows
<1> QED
  BY <1>1, <1>2

\* "TOC items only", after all headings
LEMMA ItemsAreShown ==
    ASSUME NEW headings, IsBook(headings), NEW rows, Shows(headings, TRUE, rows)
    PROVE  Shows(headings, FALSE, RemoveExcludedItems(headings, rows))
<1>1. IsModel(headings, rows) /\ InOrder(rows)
      /\ \A p \in 1 .. Len(headings) : \E i \in 1 .. Len(rows) : rows[i].pos = p
  BY DEF Shows
<1> QED
  BY <1>1, RemovalShows

\* UpdateHeadingInclusion leaves the rows that the display asks for.
LEMMA ToggledShows ==
    ASSUME NEW headings, IsBook(headings), NEW all \in BOOLEAN, NEW rows, Shows(headings, all, rows),
           NEW pos \in Positions(rows)
    PROVE  /\ pos \in 1 .. Len(headings)
           /\ Shows(Toggled(headings, pos), all,
                    IF all THEN rows ELSE RemoveExcludedItems(Toggled(headings, pos), rows))
<1> DEFINE N == Len(headings)
           new == Toggled(headings, pos)
<1>1. /\ IsModel(headings, rows) /\ InOrder(rows)
      /\ \A p \in 1 .. N : headings[p].include \/ all => \E i \in 1 .. Len(rows) : rows[i].pos = p
  BY DEF Shows
<1>2. PICK x \in 1 .. Len(rows) : pos = rows[x].pos
  <2>1. DOMAIN rows = 1 .. Len(rows)
    BY <1>1, ModelIsOutline
  <2> QED
    BY <2>1 DEF Positions
<1>3. pos \in 1 .. N
  <2>1. IsRow(headings, rows, x)
    BY <1>1, ModelIsOutline
  <2> QED
    BY <1>2, <2>1 DEF IsRow
<1>4. /\ IsBook(new) /\ Len(new) = N
      /\ \A p \in 1 .. N : p # pos => new[p] = headings[p]
  BY <1>3, ToggledIsBook
<1>5. IsModel(new, rows)
  BY <1>1, <1>3, ToggledKeepsModel
<1> HIDE DEF new
<1>6. CASE all
  <2>1. Shows(new, TRUE, rows)
    BY <1>1, <1>4, <1>5, <1>6 DEF Shows
  <2>2. all = TRUE
    BY <1>6
  <2> QED
    BY <1>3, <2>1, <2>2 DEF new
<1>7. CASE ~all
  <2>1. ASSUME NEW p \in 1 .. Len(new), new[p].include PROVE \E i \in 1 .. Len(rows) : rows[i].pos = p
    <3>1. CASE p = pos
      BY <1>2, <3>1
    <3>2. CASE p # pos
      BY <1>1, <1>4, <2>1, <3>2
    <3> QED
      BY <3>1, <3>2
  <2>2. Shows(new, FALSE, RemoveExcludedItems(new, rows))
    BY <1>1, <1>4, <1>5, <2>1, RemovalShows
  <2>3. all = FALSE
    BY <1>7
  <2> QED
    BY <1>3, <2>2, <2>3 DEF new
<1> QED
  BY <1>6, <1>7

\* A book of headings with any levels
LEMMA InitIsBook ==
    ASSUME NEW n \in Nat, NEW h \in [1 .. n -> [level : 1 .. MaxLevel, include : BOOLEAN]]
    PROVE  IsBook([i \in 1 .. n |-> [pos |-> i, level |-> h[i].level, include |-> h[i].include]])
<1> DEFINE b == [i \in 1 .. n |-> [pos |-> i, level |-> h[i].level, include |-> h[i].include]]
<1>1. ASSUME NEW i \in 1 .. n
      PROVE  [pos |-> i, level |-> h[i].level, include |-> h[i].include] \in HeadingType
  <2>1. h[i] \in [level : 1 .. MaxLevel, include : BOOLEAN]
    OBVIOUS
  <2>2. h[i].level \in 1 .. MaxLevel /\ h[i].include \in BOOLEAN /\ i \in Nat
    BY <2>1
  <2> QED
    BY <2>2 DEF HeadingType
<1>2. b \in [1 .. n -> HeadingType] /\ \A i \in 1 .. n : b[i].pos = i
  BY <1>1
<1> HIDE DEF b
<1>3. b \in Seq(HeadingType) /\ Len(b) = n
  BY <1>2, FunctionIsASequence
<1>4. IsBook(b)
  BY <1>2, <1>3 DEF IsBook
<1> QED
  BY <1>4 DEF b

\* UpdateHeadingElements marks the headings that are in the book.
LEMMA UpdatedIsBook ==
    ASSUME IsBook(book), IsBook(m_Headings), Len(m_Headings) = Len(book)
    PROVE  IsBook(UpdatedBook)
<1> DEFINE n == Len(book)
           rows == CreateTOCModel(m_Headings)
           new == UpdatedBook
<1>1. Shows(m_Headings, TRUE, rows)
  BY CreatedShowsAll
<1>2. \A p \in 1 .. n : p \in Positions(rows)
  <2> HIDE DEF rows
  <2>1. IsModel(m_Headings, rows) /\ \A p \in 1 .. n : \E i \in 1 .. Len(rows) : rows[i].pos = p
    BY <1>1 DEF Shows
  <2>2. DOMAIN rows = 1 .. Len(rows)
    BY <2>1, ModelIsOutline
  <2> QED
    BY <2>1, <2>2 DEF Positions
<1>3. /\ m_Headings \in Seq(HeadingType) /\ book \in Seq(HeadingType)
      /\ \A i \in 1 .. n : m_Headings[i].pos = i
  BY DEF IsBook
<1>4. n \in Nat /\ DOMAIN book = 1 .. n /\ \A i \in 1 .. n : m_Headings[i] \in HeadingType
  BY <1>3
<1>5. new = [i \in DOMAIN book |-> IF i \in Positions(rows) THEN m_Headings[i] ELSE book[i]]
  BY DEF UpdatedBook
<1> HIDE DEF n, rows, new
<1>6. new = [i \in 1 .. n |-> m_Headings[i]]
  BY <1>2, <1>4, <1>5
<1>7. new \in [1 .. n -> HeadingType] /\ \A i \in 1 .. n : new[i].pos = i
  BY <1>3, <1>4, <1>6
<1>8. new \in Seq(HeadingType) /\ Len(new) = n
  BY <1>4, <1>7, FunctionIsASequence
<1>9. IsBook(new)
  BY <1>7, <1>8 DEF IsBook
<1> QED
  BY <1>9 DEF new

\* Every action of the dialog keeps the inductive invariant.
LEMMA SelectorStep ==
    ASSUME SelectorInv, [SelectorNext]_selector_vars
    PROVE  SelectorInv'
<1>1. /\ IsBook(book) /\ toc = GenerateNCX(book) /\ itemsOnly \in BOOLEAN
      /\ open => /\ IsBook(m_Headings) /\ Len(m_Headings) = Len(book)
                 /\ Shows(m_Headings, ~itemsOnly, model)
  BY DEF SelectorInv
<1>2. CASE Open
  <2>1. /\ m_Headings' = GetHeadingList(book, TRUE) /\ itemsOnly' \in BOOLEAN
        /\ book' = book /\ toc' = toc
        /\ model' = IF itemsOnly' THEN RemoveExcludedItems(m_Headings', CreateTOCModel(m_Headings'))
                    ELSE CreateTOCModel(m_Headings')
    BY <1>2 DEF Open, Display
  <2>2. m_Headings' = book
    BY <1>1, <2>1, AllAreListed
  <2>3. Shows(book, TRUE, CreateTOCModel(book))
    BY <1>1, CreatedShowsAll
  <2>4. Shows(book, FALSE, RemoveExcludedItems(book, CreateTOCModel(book)))
    BY <1>1, <2>3, ItemsAreShown
  <2>5. Shows(m_Headings', ~itemsOnly', model')
    <3>1. CASE itemsOnly' = TRUE
      BY <2>1, <2>2, <2>4, <3>1
    <3>2. CASE itemsOnly' = FALSE
      BY <2>1, <2>2, <2>3, <3>2
    <3> QED
      BY <2>1, <3>1, <3>2
  <2> QED
    BY <1>1, <2>1, <2>2, <2>5 DEF SelectorInv
<1>3. CASE ChangeDisplayType
  <2>1. /\ open /\ itemsOnly' = ~itemsOnly /\ UNCHANGED <<book, open, m_Headings, toc>>
        /\ model' = IF itemsOnly' THEN RemoveExcludedItems(m_Headings, model)
                    ELSE CreateTOCModel(m_Headings)
    BY <1>3 DEF ChangeDisplayType
  <2>2. Shows(m_Headings, TRUE, CreateTOCModel(m_Headings))
    BY <1>1, <2>1, CreatedShowsAll
  <2>3. Shows(m_Headings, ~itemsOnly', model')
    <3>1. CASE itemsOnly = FALSE
      <4>1. Shows(m_Headings, TRUE, model)
        BY <1>1, <2>1, <3>1
      <4>2. Shows(m_Headings, FALSE, RemoveExcludedItems(m_Headings, model))
        BY <1>1, <2>1, <4>1, ItemsAreShown
      <4> QED
        BY <2>1, <3>1, <4>2
    <3>2. CASE itemsOnly = TRUE
      BY <2>1, <2>2, <3>2
    <3> QED
      BY <1>1, <3>1, <3>2
  <2> QED
    BY <1>1, <2>1, <2>3 DEF SelectorInv
<1>4. CASE Accept
  <2>1. open /\ ~open' /\ book' = UpdatedBook /\ toc' = GenerateNCX(book')
        /\ itemsOnly' = itemsOnly
    BY <1>4 DEF Accept
  <2>2. IsBook(book')
    BY <1>1, <2>1, UpdatedIsBook
  <2> QED
    BY <1>1, <2>1, <2>2 DEF SelectorInv
<1>5. CASE Reject
  BY <1>1, <1>5 DEF Reject, SelectorInv
<1>6. ASSUME NEW pos \in DOMAIN m_Headings, UpdateHeadingInclusion(pos) PROVE SelectorInv'
  <2>1. /\ open /\ pos \in Positions(model) /\ m_Headings' = Toggled(m_Headings, pos)
        /\ model' = (IF itemsOnly THEN RemoveExcludedItems(m_Headings', model) ELSE model)
        /\ UNCHANGED <<book, open, itemsOnly, toc>>
    BY <1>6 DEF UpdateHeadingInclusion, Toggled
  <2>2. (~itemsOnly) \in BOOLEAN /\ Shows(m_Headings, ~itemsOnly, model)
    <3>1. (~itemsOnly) \in BOOLEAN
      OBVIOUS
    <3>2. open
      BY <2>1
    <3> QED
      BY <1>1, <3>1, <3>2
  <2>3. /\ pos \in 1 .. Len(m_Headings)
        /\ Shows(Toggled(m_Headings, pos), ~itemsOnly,
                 IF ~itemsOnly THEN model ELSE RemoveExcludedItems(Toggled(m_Headings, pos), model))
    BY <1>1, <2>1, <2>2, ToggledShows
  <2>4. IsBook(m_Headings') /\ Len(m_Headings') = Len(m_Headings)
    BY <1>1, <2>1, <2>3, ToggledIsBook
  <2>5. Shows(m_Headings', ~itemsOnly', model')
    <3>1. CASE itemsOnly = FALSE
      BY <2>1, <2>3, <3>1
    <3>2. CASE itemsOnly = TRUE
      BY <2>1, <2>3, <3>2
    <3> QED
      BY <1>1, <3>1, <3>2
  <2> QED
    BY <1>1, <2>1, <2>4, <2>5 DEF SelectorInv
<1>7. CASE UNCHANGED selector_vars
  BY <1>1, <1>7 DEF selector_vars, SelectorInv
<1> QED
  BY <1>2, <1>3, <1>4, <1>5, <1>6, <1>7 DEF SelectorNext

\* The inductive invariant holds at all times.
LEMMA SelectorInvariant == SelectorSpec => []SelectorInv
<1>1. ASSUME SelectorInit PROVE SelectorInv
  <2>1. PICK n \in 0 .. MaxHeadings :
           \E h \in [1 .. n -> [level : 1 .. MaxLevel, include : BOOLEAN]] :
              book = [i \in 1 .. n |-> [pos |-> i, level |-> h[i].level, include |-> h[i].include]]
    BY <1>1 DEF SelectorInit
  <2>2. PICK h \in [1 .. n -> [level : 1 .. MaxLevel, include : BOOLEAN]] :
           book = [i \in 1 .. n |-> [pos |-> i, level |-> h[i].level, include |-> h[i].include]]
    BY <2>1
  <2>3. n \in Nat
    BY LevelsAssumption
  <2>4. IsBook(book)
    BY <2>2, <2>3, InitIsBook
  <2>5. open = FALSE /\ itemsOnly = FALSE /\ toc = GenerateNCX(book)
    BY <1>1 DEF SelectorInit
  <2> QED
    BY <2>4, <2>5 DEF SelectorInv
<1> QED
  BY <1>1, SelectorStep, PTL DEF SelectorSpec

\* For any number of headings and levels, whenever the dialog is closed, the NCX has
\* the included headings in the order of the book, numbered from 1, each one below
\* the nearest bigger one before it, and dtb:depth is the depth of that tree
\* (Headings.cpp, NCXWriter.cpp): no heading is lost, doubled or put under the
\* wrong parent, also where levels are skipped or the first headings are small.
THEOREM NavMapIsRight == SelectorSpec => []NavMapFollowsTheHeadings
<1>1. ASSUME SelectorInv PROVE NavMapFollowsTheHeadings
  <2>1. IsBook(book) /\ toc = GenerateNCX(book)
    BY <1>1 DEF SelectorInv
  <2>2. ASSUME Len(Wanted) > 0 PROVE NavMapFollows(Wanted, toc)
    BY <2>1, <2>2, GeneratedFollows DEF Wanted
  <2> QED
    BY <2>2 DEF NavMapFollowsTheHeadings, NavMapFollows
<1> QED
  BY <1>1, SelectorInvariant, PTL

\* For any number of headings and levels, and any excluding, including and changes of
\* the display before, the rows that are left by "TOC items only" are the tree of the
\* included headings, which OK writes to the NCX: raising the children of an excluded
\* item, one at a time, puts each one where it would be had the tree been made
\* without the item (HeadingSelector.cpp).
THEOREM DialogIsRight == SelectorSpec => []DialogShowsWhatIsGenerated
<1>1. ASSUME SelectorInv PROVE DialogShowsWhatIsGenerated
  <2> SUFFICES ASSUME open, itemsOnly
               PROVE  model = CreateTOCModel(GetHeadingList(m_Headings, FALSE))
    BY DEF DialogShowsWhatIsGenerated
  <2>1. IsBook(m_Headings) /\ Shows(m_Headings, FALSE, model)
    <3>1. itemsOnly = TRUE /\ IsBook(m_Headings) /\ Shows(m_Headings, ~itemsOnly, model)
      BY <1>1 DEF SelectorInv
    <3> QED
      BY <3>1
  <2>2. Shows(m_Headings, FALSE, CreateTOCModel(GetHeadingList(m_Headings, FALSE)))
    BY <2>1, CreatedShows
  <2> QED
    BY <2>1, <2>2, ShownAreTheSame
<1> QED
  BY <1>1, SelectorInvariant, PTL
=============================================================================
