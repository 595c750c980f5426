-------------------------- MODULE HeadingSelector --------------------------
(***************************************************************************)
(* "Generate TOC from headings" (Dialogs/HeadingSelector.cpp,              *)
(* MainUI/TableOfContents.cpp): the dialog shows the headings as a tree,   *)
(* all of them or those to include, the user includes and excludes, and on *)
(* OK the headings are marked in the files and the NCX is written.         *)
(***************************************************************************)
EXTENDS Headings

CONSTANTS
    MaxHeadings,  \* bound on the headings of a book
    MaxLevel      \* the smallest heading: h6 in the code

ASSUME LevelsAssumption == MaxHeadings \in Nat /\ MaxLevel \in 1..6

VARIABLES
    book,       \* the heading elements in the files; include is the absence of
                \* the class sigilNotInTOC
    open,       \* the dialog is open
    m_Headings, \* its headings, flat; include is also the check mark of the item
    itemsOnly,  \* cbTOCItemsOnly
    model,      \* m_TableOfContents: the outline of the rows [pos, depth] shown
    toc         \* the NCX resource

selector_vars == <<book, open, m_Headings, itemsOnly, model, toc>>

-----------------------------------------------------------------------------
(* The tree that is shown *)

Row(pos, depth) == [pos |-> pos, depth |-> depth]

\* InsertHeadingIntoModel for each heading of the tree
CreateTOCModel(headings) ==
    LET nodes == MakeHeadingHeirarchy(headings)
    IN  [i \in DOMAIN nodes |-> Row(nodes[i].heading.pos, nodes[i].depth)]

\* The last of row i and the rows inside of it
LastBelow(rows, i) ==
    Max({j \in i .. Len(rows) : \A k \in i + 1 .. j : rows[k].depth > rows[i].depth})

HasRows(rows, i) == LastBelow(rows, i) > i

\* GetActualItemParent: 0 is the invisible root
ParentRow(rows, i) == Max({0} \cup Above(rows, i))

\* takeRow and insertRow: row i and those inside of it, moved up to a place
MoveRow(rows, i, place, depth) ==
    LET last  == LastBelow(rows, i)
        moved == [k \in 1 .. last - i + 1 |->
                     Row(rows[i + k - 1].pos, rows[i + k - 1].depth + depth - rows[i].depth)]
    IN  SubSeq(rows, 1, place - 1) \o moved \o SubSeq(rows, place, i - 1)
            \o SubSeq(rows, last + 1, Len(rows))

\* Mutant: the children rise to their parent's level, whatever comes before.
RaiseRowOnly(headings, rows, item) == MoveRow(rows, item + 1, item, rows[item].depth)

\* AddRowToVisiblePredecessorSucceeded and AddRowToCorrectItem: the first row of
\* an item goes to the nearest bigger heading before the item, inside of the
\* parent, or else takes the place before the item.
RaiseRow(headings, rows, item) ==
    LET correct == {j \in ParentRow(rows, item) + 1 .. item - 1 :
                       /\ headings[rows[j].pos].include
                       /\ headings[rows[j].pos].level < headings[rows[item + 1].pos].level}
    IN  IF correct = {} THEN MoveRow(rows, item + 1, item, rows[item].depth)
        ELSE MoveRow(rows, item + 1, LastBelow(rows, Max(correct)) + 1, rows[Max(correct)].depth + 1)

\* While the item has rows, the first is raised; then the item removes itself.
RemoveItem(headings, rows, item) ==
    LET raised[k \in 0 .. Len(rows)] ==
            IF k = 0 THEN [rows |-> rows, item |-> item]
            ELSE LET before == raised[k - 1]
                 IN  IF HasRows(before.rows, before.item)
                     THEN [rows |-> RaiseRow(headings, before.rows, before.item),
                           item |-> LastBelow(before.rows, before.item + 1)]
                     ELSE before
        last == raised[Len(rows)]
    IN  SubSeq(last.rows, 1, last.item - 1) \o SubSeq(last.rows, last.item + 1, Len(rows))

Excluded(headings, rows) == {i \in DOMAIN rows : ~headings[rows[i].pos].include}

\* RemoveExcludedItems: the excluded items are removed in turn, each one after
\* those inside of it.
RemoveExcludedItems(headings, rows) ==
    LET removed[k \in 0 .. Len(rows)] ==
            IF k = 0 THEN rows
            ELSE LET before == removed[k - 1]
                     excluded == Excluded(headings, before)
                 IN  IF excluded = {} THEN before
                     ELSE RemoveItem(headings, before,
                             Min({i \in excluded : i + 1 .. LastBelow(before, i) \cap excluded = {}}))
    IN  removed[Len(rows)]

Display(headings) ==
    IF itemsOnly' THEN RemoveExcludedItems(headings, CreateTOCModel(headings))
    ELSE CreateTOCModel(headings)

Positions(rows) == {rows[i].pos : i \in DOMAIN rows}

-----------------------------------------------------------------------------
(* The dialog.  It is modal and holds the locks of all HTML files. *)

\* GenerateTocFromHeadings and the constructor
Open ==
    /\ ~open
    /\ open' = TRUE
    /\ m_Headings' = GetHeadingList(book, TRUE)
    /\ itemsOnly' \in BOOLEAN
    /\ model' = Display(m_Headings')
    /\ UNCHANGED <<book, toc>>

\* UpdateHeadingInclusion, of an item that is shown
UpdateHeadingInclusion(pos) ==
    /\ open /\ pos \in Positions(model)
    /\ m_Headings' = [m_Headings EXCEPT ![pos].include = ~@]
    /\ model' = IF itemsOnly THEN RemoveExcludedItems(m_Headings', model) ELSE model
    /\ UNCHANGED <<book, open, itemsOnly, toc>>

ChangeDisplayType ==
    /\ open
    /\ itemsOnly' = ~itemsOnly
    /\ model' = IF itemsOnly' THEN RemoveExcludedItems(m_Headings, model)
                ELSE CreateTOCModel(m_Headings)
    /\ UNCHANGED <<book, open, m_Headings, toc>>

\* UpdateHeadingElements: the tree is created again, so that every heading is in it.
UpdatedBook ==
    [i \in DOMAIN book |->
        IF i \in Positions(CreateTOCModel(m_Headings)) THEN m_Headings[i] ELSE book[i]]

Accept ==
    /\ open
    /\ open' = FALSE
    /\ book' = UpdatedBook
    /\ toc' = GenerateNCX(book')
    /\ UNCHANGED <<m_Headings, itemsOnly, model>>

Reject ==
    /\ open
    /\ open' = FALSE
    /\ UNCHANGED <<book, m_Headings, itemsOnly, model, toc>>

SelectorInit ==
    /\ \E n \in 0..MaxHeadings : \E h \in [1..n -> [level : 1..MaxLevel, include : BOOLEAN]] :
          book = [i \in 1..n |-> [pos |-> i, level |-> h[i].level, include |-> h[i].include]]
    /\ open = FALSE
    /\ m_Headings = <<>> /\ itemsOnly = FALSE /\ model = <<>>
    /\ toc = GenerateNCX(book)

SelectorNext ==
    \/ Open \/ ChangeDisplayType \/ Accept \/ Reject
    \/ \E pos \in DOMAIN m_Headings : UpdateHeadingInclusion(pos)

SelectorSpec == SelectorInit /\ [][SelectorNext]_selector_vars

-----------------------------------------------------------------------------
(* Properties *)

\* The reference for the tree: a heading belongs below the nearest one before
\* it that is bigger (0: none), among the headings of a list.
ParentIn(headings, i) ==
    Max({0} \cup {j \in 1 .. i - 1 : headings[j].level < headings[i].level})

Wanted == GetHeadingList(book, FALSE)

\* The NCX has the wanted headings, numbered in the order of the book, each one
\* below the nearest bigger heading before it, and dtb:depth is "exactly the same
\* as the depth of the NavMap element" (NCXWriter.cpp).
NavMapFollowsTheHeadings ==
    LET n == Len(Wanted)
    IN  ~open /\ n > 0 =>
          /\ Len(toc.navMap) = n
          /\ \A i \in 1..n :
                /\ toc.navMap[i].playOrder = i /\ toc.navMap[i].pos = Wanted[i].pos
                /\ Max({0} \cup Above(toc.navMap, i)) = ParentIn(Wanted, i)
          /\ toc.depth = Max({Cardinality(Above(toc.navMap, i)) + 1 : i \in 1..n})

\* With "TOC items only" the dialog shows the tree that OK will generate, in
\* whatever order headings were excluded and included: a child of an excluded
\* heading never ends up below another parent than in the NCX.
DialogShowsWhatIsGenerated ==
    open /\ itemsOnly => model = CreateTOCModel(GetHeadingList(m_Headings, FALSE))

=============================================================================
