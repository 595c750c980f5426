-------------------------- MODULE TableOfContents --------------------------
(***************************************************************************)
(* The ids of headings and the links of the NCX: a save gives ids to       *)
(* headings (BookManipulation/BookNormalization.cpp), "Generate TOC from   *)
(* headings" writes links to them (MainUI/TableOfContents.cpp,             *)
(* Exporters/NCXWriter.cpp), and the user goes on editing.                 *)
(*                                                                         *)
(* A save changes the DOMs of all files, and tells no view; the dialog     *)
(* marks the views of all files with headings old (HTMLViews has the       *)
(* details).  Levels and order in the NCX are in HeadingSelector.          *)
(***************************************************************************)
EXTENDS Integers, Sequences, SequencesExt, FiniteSets, FiniteSetsExt

CONSTANTS
    Files,     \* the HTML files
    Headings   \* the headings the user writes; each is written once

NoId == 0       \* no id attribute; n > 0 is heading_id_n
AtStart == -1   \* the link of a heading at the start of its file: no fragment

VARIABLES
    dom,      \* the headings [name, id, wanted] of each file, in order
    view,     \* the same in the view of its tab
    old,      \* the files whose view is to be loaded before it is edited
    current,  \* the file of the current tab
    edited,   \* the current view has edits that were not saved
    ncx,      \* the nav points [name, file, id]
    written,  \* history: the headings written so far
    shared    \* history: ids that were given although a heading had them

vars == <<dom, view, old, current, edited, ncx, written, shared>>

Names(list) == {list[i].name : i \in DOMAIN list}

\* What the user sees of a file.  Its tab is loaded when it gets the focus.
Shown(f) == IF f \in old THEN dom[f] ELSE view[f]

\* The DOMs after SaveTabContent of all tabs
Saved == IF edited THEN [dom EXCEPT ![current] = view[current]] ELSE dom

-----------------------------------------------------------------------------
(* Editing *)

\* The view of the current tab is loaded if it is old, and changed to list.
EditView(list) ==
    /\ view' = [view EXCEPT ![current] = list]
    /\ old' = old \ {current}
    /\ edited' = TRUE
    /\ UNCHANGED <<dom, current, ncx, shared>>

WriteHeading(h, i) ==
    /\ h \notin written /\ i \in 1 .. Len(Shown(current)) + 1
    /\ EditView(InsertAt(Shown(current), i, [name |-> h, id |-> NoId, wanted |-> TRUE]))
    /\ written' = written \cup {h}

DeleteHeading(i) ==
    /\ i \in DOMAIN Shown(current)
    /\ EditView(RemoveAt(Shown(current), i))
    /\ UNCHANGED written

\* UpdateTabStatesOnSwitch
SwitchTo(f) ==
    /\ f # current
    /\ dom' = Saved
    /\ view' = [view EXCEPT ![f] = Shown(f)]
    /\ old' = old \ {f}
    /\ edited' = FALSE
    /\ current' = f
    /\ UNCHANGED <<ncx, written, shared>>

-----------------------------------------------------------------------------
(* Saving the book *)

\* The headings that GetHeadingListForOneFile returns by default
WantedIn(list) == {i \in DOMAIN list : list[i].wanted}

\* Mutant: the search starts anew instead of after the highest index.
LowestHeadingIDIndex(list) == 1

MaxSigilHeadingIDIndex(list) == Max({1} \cup {list[i].id : i \in WantedIn(list)})

\* GiveIDsToHeadingsInResource: the new ids count on from the highest.
GiveIDs(list) ==
    LET new == {i \in WantedIn(list) : list[i].id = NoId}
    IN  [i \in DOMAIN list |->
            IF i \in new
            THEN [list[i] EXCEPT !.id = MaxSigilHeadingIDIndex(list) + Cardinality(new \cap 1..i)]
            ELSE list[i]]

\* The ids that a save gives a second time
Clashes(list) ==
    {GiveIDs(list)[i].id : i \in {k \in WantedIn(list) : list[k].id = NoId}}
        \cap {list[i].id : i \in DOMAIN list \ WantedIn(list)}

\* SaveFile: SaveTabData and Normalize.  The views are not marked old.
SaveFile ==
    /\ dom' = [f \in Files |-> GiveIDs(Saved[f])]
    /\ edited' = FALSE
    /\ shared' = shared \cup UNION {{<<f, id>> : id \in Clashes(Saved[f])} : f \in Files}
    /\ UNCHANGED <<view, old, current, ncx, written>>

-----------------------------------------------------------------------------
(* Generate TOC from headings *)

\* The nav point of the heading at i; near says whether the first one is within
\* 20 lines of the body tag.
NavPoint(f, list, i, near) ==
    [name |-> list[i].name, file |-> f,
     id |-> IF i = 1 /\ near THEN AtStart ELSE list[i].id]

\* The dialog writes into each heading whether it is wanted.
UpdateHeadingElements(list, unwanted) ==
    [i \in DOMAIN list |-> [list[i] EXCEPT !.wanted = list[i].name \notin unwanted]]

\* Mutant: the dialog does not mark the views as old.
GenerateMarksNothing(unwanted, near) ==
    LET marked == [f \in Files |-> UpdateHeadingElements(Saved[f], unwanted)]
    IN  /\ dom' = marked
        /\ edited' = FALSE
        /\ ncx' = UNION {{NavPoint(f, marked[f], i, f \in near) : i \in WantedIn(marked[f])}
                            : f \in Files}
        /\ UNCHANGED <<view, old, current, written, shared>>

\* TabDataSavedRequest, the dialog with the unwanted headings it is left with,
\* and GenerateNCXFromBookContents
GenerateTocFromHeadings(unwanted, near) ==
    LET marked == [f \in Files |-> UpdateHeadingElements(Saved[f], unwanted)]
    IN  /\ dom' = marked
        /\ edited' = FALSE
        /\ old' = old \cup {f \in Files : marked[f] # <<>>}
        /\ ncx' = UNION {{NavPoint(f, marked[f], i, f \in near) : i \in WantedIn(marked[f])}
                            : f \in Files}
        /\ UNCHANGED <<view, current, written, shared>>

Init ==
    /\ dom = [f \in Files |-> <<>>]
    /\ view = dom
    /\ old = {}
    /\ current \in Files /\ edited = FALSE
    /\ ncx = {}
    /\ written = {} /\ shared = {}

Next ==
    \/ \E h \in Headings, i \in 1 .. Cardinality(Headings) : WriteHeading(h, i)
    \/ \E i \in 1 .. Cardinality(Headings) : DeleteHeading(i)
    \/ \E f \in Files : SwitchTo(f)
    \/ SaveFile
    \/ \E unwanted \in SUBSET written, near \in SUBSET Files :
          GenerateTocFromHeadings(unwanted, near)

Spec == Init /\ [][Next]_vars

-----------------------------------------------------------------------------
(* Properties *)

\* GiveIDsToHeadings gives no id twice, unless an unwanted heading has it.
IdsClashOnlyWithUnwanted ==
    \A f \in Files : \A i, j \in DOMAIN dom[f] :
        i # j /\ dom[f][i].id = dom[f][j].id /\ dom[f][i].id # NoId
            => <<f, dom[f][i].id>> \in shared

\* A nav point that names an id leads to its heading for as long as that is in
\* the file, whatever is written, deleted and saved meanwhile: the heading has
\* this id, and it is the first one that has it.
NavPointsLeadToTheirHeading ==
    \A p \in ncx :
        p.id > NoId /\ p.name \in Names(dom[p.file]) /\ <<p.file, p.id>> \notin shared
            => LET list == dom[p.file]
                   with == {i \in DOMAIN list : list[i].id = p.id}
               IN  with # {} /\ list[Min(with)].name = p.name
=============================================================================
