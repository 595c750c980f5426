----------------------------- MODULE BookSearch -----------------------------
(***************************************************************************)
(* Find & Replace over all HTML files (Dialogs/FindReplace.cpp).  The      *)
(* current tab is searched from its caret; then the chapters after it are  *)
(* scanned in reading order, the next one with a match is opened, and the  *)
(* search goes on there.  While a new tab loads the dialog processes       *)
(* events, so that the user can act, and search again, in between.         *)
(*                                                                         *)
(* In the text of a tab the p-th place of the search term starts at        *)
(* position 2p-1 and ends at 2p; some places match, and a replaced one     *)
(* does not any more.  What is in a tab that is not shown, its caret and   *)
(* its view, may be anything when the tab becomes the current one.         *)
(***************************************************************************)
EXTENDS Integers, Sequences, FiniteSets, FiniteSetsExt

CONSTANTS
    Chapters,    \* the HTML resources
    Stylesheet,  \* a resource of another type, in a tab that can be searched
    Elsewhere,   \* what an itemref leads to when it leads to no chapter
    NoTab,       \* NULL
    Spines,      \* the spines of the books that are searched
    Places,      \* bound: the places of the search term in a text
    Occurrences, \* the places that match, at first
    AtTheEnd,    \* the chapters whose last place is one character, their last
    MaxWaiting   \* bound: searches that wait for a tab, one inside the other

\* A book always has a chapter.
ASSUME ResourcesAssumption ==
    /\ IsFiniteSet(Chapters) /\ Chapters # {}
    /\ {Stylesheet, Elsewhere, NoTab} \cap Chapters = {} /\ Stylesheet # NoTab
ASSUME SpinesAssumption == Spines \subseteq Seq(Chapters \cup {Elsewhere})
ASSUME OccurrencesAssumption ==
    Occurrences \subseteq [Chapters -> SUBSET (1..Places)] /\ AtTheEnd \subseteq Chapters
ASSUME BoundsAssumption == Places \in Nat \ {0} /\ MaxWaiting \in Nat \ {0}

Tabs == Chapters \cup {Stylesheet}
End == 2 * Places + 1
TextLength(tab) == IF tab \in AtTheEnd THEN End - 1 ELSE End
Match(p) == <<2 * p - 1, 2 * p>>
Selections == {<<i, i>> : i \in 0..End} \cup {Match(p) : p \in 1..Places}
Directions == {"up", "down", "all"}
NoOrigin == [tab |-> NoTab, from |-> 0]

VARIABLES
    spine,      \* the itemrefs of the OPF
    chapters,   \* GetResourceTypeList< HTMLResource >( true )
    matches,    \* the places that match, in each text
    current,    \* the current tab
    view,       \* its view
    caret,      \* its selection, from the start to the end
    direction, lookWhere,   \* the settings of the dialog
    last,       \* m_LastUsedSearchable
    scanning,   \* next_html_resource of a scan, NoTab when there is none
    waiting,    \* the calls that wait until a tab is loaded, the innermost
                \* first: whether the tab is new, so that events are processed
    origin,     \* history: where the search started
    answer      \* history: "none" while a search goes on, then how it ended;
                \* "idle" when the user has acted since

book_vars == <<spine, chapters>>
tab_vars == <<current, view, caret>>
dialog_vars == <<direction, lookWhere>>
vars == <<book_vars, matches, tab_vars, dialog_vars, last, scanning, waiting,
          origin, answer>>

-----------------------------------------------------------------------------
(* Reading order *)

\* OPFResource::GetReadingOrder: the index of the first itemref, or -1
GetReadingOrder(c) ==
    IF \E i \in DOMAIN spine : spine[i] = c
    THEN Min({i \in DOMAIN spine : spine[i] = c}) - 1 ELSE -1

GetHighestReadingOrder == Cardinality(Chapters) - 1

\* Mutant: Direction All never gets to the last chapter.
GetNextBeforeLast(c) ==
    LET order == GetReadingOrder(c)
        next == CASE direction = "down" -> order + 1
                  [] direction = "up" -> order - 1
                  [] OTHER -> IF order + 1 < GetHighestReadingOrder THEN order + 1 ELSE 0
    IN  IF next \in 0..GetHighestReadingOrder THEN chapters[next + 1] ELSE NoTab

GetNextHTMLResource(c) ==
    LET order == GetReadingOrder(c)
        next == CASE direction = "down" -> order + 1
                  [] direction = "up" -> order - 1
                  [] OTHER -> IF order + 1 <= GetHighestReadingOrder THEN order + 1 ELSE 0
    IN  IF next \in 0..GetHighestReadingOrder THEN chapters[next + 1] ELSE NoTab

GetStartingResource == IF current \in Chapters THEN current ELSE chapters[1]

-----------------------------------------------------------------------------
(* Searching one text *)

\* A whole text is searched upwards from toPlainText().count() - 1.
GetSelectionOffset(selection, dir, ignore) ==
    IF dir = "up" THEN IF ignore THEN TextLength(current) - 1 ELSE selection[1]
                  ELSE IF ignore THEN 0 ELSE selection[2]

\* Searchable::RunSearchRegex: the place found, in a set.  Upwards it subtracts
\* one from the offset, so that a match lies before it; above position 0 Qt
\* searches from the end, because -1 is the last position for lastIndexOf.
RunSearchRegex(places, from, dir) ==
    LET below == {p \in places : 2 * p - 1 >= from}
        above == {p \in places : 2 * p - 1 < from \/ from = 0}
        before == {p \in places : 2 * p <= from}
        first(S) == {p \in S : \A q \in S : p <= q}
    IN  CASE dir = "up" -> {p \in above : \A q \in above : q <= p}
          [] dir = "down" -> first(below)
          [] OTHER -> IF below # {} THEN first(below) ELSE first(before)

PlacesIn(found, tab) == IF tab \in Chapters THEN found[tab] ELSE {}

-----------------------------------------------------------------------------
(* FindNext *)

\* The user can act between two searches, and while a new tab loads.
UserActs == scanning = NoTab /\ (waiting # <<>> => Head(waiting))

\* Mutant: m_LastUsedSearchable is only set when something is found.
FindInAllFilesForgetful(found, selection) ==
    LET dir == IF direction = "all" THEN "down" ELSE direction
        from == GetSelectionOffset(selection, dir, last # current)
        places == RunSearchRegex(PlacesIn(found, current), from, dir)
    IN  /\ \/ /\ places = {}
              /\ scanning' = GetStartingResource
              /\ answer' = "none" /\ caret' = selection /\ UNCHANGED last
           \/ \E p \in places :
              /\ caret' = Match(p) /\ answer' = "found"
              /\ last' = current /\ UNCHANGED scanning
        /\ UNCHANGED lookWhere

FindInAllFiles(found, selection) ==
    LET dir == IF direction = "all" THEN "down" ELSE direction
        from == GetSelectionOffset(selection, dir, last # current)
        places == RunSearchRegex(PlacesIn(found, current), from, dir)
    IN  /\ last' = current
        /\ \/ /\ places = {}
              /\ scanning' = GetStartingResource
              /\ answer' = "none" /\ caret' = selection
           \/ \E p \in places :
              /\ caret' = Match(p) /\ answer' = "found" /\ UNCHANGED scanning
        /\ UNCHANGED lookWhere

FindInCurrentFile(found, selection) ==
    LET from == GetSelectionOffset(selection, direction, FALSE)
        places == RunSearchRegex(PlacesIn(found, current), from, direction)
    IN  /\ \/ places = {} /\ answer' = "cannot" /\ caret' = selection
           \/ \E p \in places : answer' = "found" /\ caret' = Match(p)
        /\ UNCHANGED <<last, scanning, lookWhere>>

\* CheckBookWideSearchingAllowed: a message, and back to the current file.
SearchRefused(selection) ==
    /\ lookWhere' = "current"
    /\ answer' = "refused" /\ caret' = selection
    /\ UNCHANGED <<last, scanning>>

FindNext(found, selection) ==
    \/ lookWhere = "current" /\ FindInCurrentFile(found, selection)
    \/ lookWhere = "all" /\ view # "book" /\ FindInAllFiles(found, selection)
    \/ lookWhere = "all" /\ view = "book" /\ SearchRefused(selection)

\* Where the search starts that FindNext makes in the current tab.
Here(selection) ==
    [tab |-> current,
     from |-> GetSelectionOffset(selection, direction, lookWhere = "all" /\ last # current)]

FindButton ==
    /\ UserActs
    /\ Len(waiting) < MaxWaiting
    /\ FindNext(matches, caret)
    /\ origin' = Here(caret)
    /\ UNCHANGED <<book_vars, matches, current, view, direction, waiting>>

\* FindReplace::Replace.  ReplaceSelected puts a text without the search term in
\* place of the selection when a match starts there: with a match selected that
\* takes it away, with a bare caret in front of one it stays.  Then the next
\* match is looked for.
ReplaceButton ==
    /\ UserActs
    /\ Len(waiting) < MaxWaiting
    /\ UNCHANGED <<book_vars, current, view, direction, waiting>>
    /\ \/ lookWhere = "all" /\ view = "book" /\ SearchRefused(caret)
          /\ UNCHANGED <<matches, origin>>
       \/ /\ lookWhere = "current" \/ view # "book"
          /\ LET at == {p \in PlacesIn(matches, current) : caret = Match(p)}
                 after == IF at = {} THEN caret ELSE <<caret[2], caret[2]>>
             IN  /\ matches' = [c \in Chapters |->
                                   IF c = current THEN matches[c] \ at ELSE matches[c]]
                 /\ FindNext(matches', after)
                 /\ origin' = Here(after)

-----------------------------------------------------------------------------
(* GetNextContainingHTMLResource, one chapter of its loop at a time *)

\* Mutant: the scan does not stop where it started.
ScanOn ==
    /\ scanning # NoTab
    /\ LET next == GetNextHTMLResource(scanning)
       IN  \/ /\ next = NoTab
              /\ scanning' = NoTab /\ answer' = "cannot"
              /\ UNCHANGED <<tab_vars, waiting>>
           \/ /\ next # NoTab /\ matches[next] = {}
              /\ scanning' = next
              /\ UNCHANGED <<tab_vars, waiting, answer>>
           \/ /\ next # NoTab /\ matches[next] # {}
              /\ scanning' = NoTab
              /\ current' = next /\ view' = "code" /\ caret' = <<0, 0>>
              /\ waiting' = <<TRUE>> \o waiting
              /\ UNCHANGED answer
    /\ UNCHANGED <<book_vars, matches, dialog_vars, last, origin>>

\* The chapter found is opened in a new tab, or its tab becomes the current one;
\* a Book View becomes a Code View.
Scan ==
    /\ scanning # NoTab
    /\ LET next == GetNextHTMLResource(scanning)
       IN  \/ /\ next \in {NoTab, GetStartingResource}
              /\ scanning' = NoTab /\ answer' = "cannot"
              /\ UNCHANGED <<tab_vars, waiting>>
           \/ /\ next \notin {NoTab, GetStartingResource} /\ matches[next] = {}
              /\ scanning' = next
              /\ UNCHANGED <<tab_vars, waiting, answer>>
           \/ /\ next \notin {NoTab, GetStartingResource} /\ matches[next] # {}
              /\ scanning' = NoTab
              /\ current' = next /\ view' = "code"
              /\ \/ caret' = <<0, 0>> /\ waiting' = <<TRUE>> \o waiting
                 \/ caret' \in Selections /\ waiting' = <<FALSE>> \o waiting
              /\ UNCHANGED answer
    /\ UNCHANGED <<book_vars, matches, dialog_vars, last, origin>>

\* The tab is loaded, and FindInAllFiles calls FindNext again.
Resume ==
    /\ scanning = NoTab /\ waiting # <<>>
    /\ waiting' = Tail(waiting)
    /\ FindNext(matches, caret)
    /\ origin' = IF answer = "none" THEN origin ELSE Here(caret)
    /\ UNCHANGED <<book_vars, matches, current, view, direction>>

-----------------------------------------------------------------------------
(* The user *)

\* Another tab becomes the current one: opened, chosen, or left by a closed one.
SwitchTab(tab) ==
    /\ UserActs
    /\ tab # current
    /\ current' = tab
    /\ view' \in IF tab \in Chapters THEN {"book", "code"} ELSE {"raw"}
    /\ caret' \in Selections
    /\ answer' = "idle" /\ origin' = NoOrigin
    /\ UNCHANGED <<book_vars, matches, dialog_vars, last, scanning, waiting>>

\* The caret is moved, or the view is changed.
MoveCaret ==
    /\ UserActs
    /\ caret' \in Selections
    /\ view' \in IF current \in Chapters THEN {"book", "code"} ELSE {"raw"}
    /\ answer' = "idle" /\ origin' = NoOrigin
    /\ UNCHANGED <<book_vars, matches, current, dialog_vars, last, scanning, waiting>>

\* LookWhereChanged refuses all files in a Book View, when the box is used.
ChangeSettings(dir, where) ==
    /\ UserActs
    /\ direction' = dir
    /\ lookWhere' = IF where = "all" /\ where # lookWhere /\ view = "book"
                    THEN "current" ELSE where
    /\ answer' = "idle" /\ origin' = NoOrigin
    /\ UNCHANGED <<book_vars, matches, tab_vars, last, scanning, waiting>>

\* The constructor does not set m_LastUsedSearchable: the memory of the dialog
\* may hold the address of the current tab's editor or any other.
OpenDialog ==
    /\ UserActs /\ waiting = <<>>
    /\ last' \in {NoTab, current}
    /\ direction' = "all" /\ lookWhere' = "current"
    /\ answer' = "idle" /\ origin' = NoOrigin
    /\ UNCHANGED <<book_vars, matches, tab_vars, scanning, waiting>>

-----------------------------------------------------------------------------
Listed == {c \in Chapters : \E i \in DOMAIN spine : spine[i] = c}

\* The chapters the spine lists, in its order, and then the others in any order.
ReadingOrders ==
    {s \in [1..Cardinality(Chapters) -> Chapters] :
        /\ \A i, j \in DOMAIN s : s[i] = s[j] => i = j
        /\ \A i, j \in DOMAIN s : i < j /\ s[j] \in Listed =>
              s[i] \in Listed /\ GetReadingOrder(s[i]) < GetReadingOrder(s[j])}

Init ==
    /\ spine \in Spines /\ chapters \in ReadingOrders
    /\ matches \in Occurrences
    /\ current \in Tabs /\ caret = <<0, 0>>
    /\ view = IF current \in Chapters THEN "code" ELSE "raw"
    /\ direction = "all" /\ lookWhere = "current"
    /\ last \in {NoTab, current}
    /\ scanning = NoTab /\ waiting = <<>>
    /\ origin = NoOrigin /\ answer = "idle"

Next ==
    \/ FindButton \/ ReplaceButton \/ Scan \/ Resume
    \/ MoveCaret \/ OpenDialog
    \/ \E tab \in Tabs : SwitchTab(tab)
    \/ \E dir \in Directions, where \in {"current", "all"} : ChangeSettings(dir, where)

Spec == Init /\ [][Next]_vars

\* The loop of GetNextContainingHTMLResource runs on the GUI thread.
FairSpec == Spec /\ WF_vars(Scan)

-----------------------------------------------------------------------------
(* Properties *)

\* Every chapter is listed once, and every itemref leads to a chapter.
Sound == spine = chapters

Index(c) == CHOOSE i \in DOMAIN chapters : chapters[i] = c

\* How many chapters a search from a to c goes through.
Distance(a, c, dir) ==
    CASE dir = "down" -> Index(c) - Index(a)
      [] dir = "up" -> Index(a) - Index(c)
      [] OTHER -> (Index(c) - Index(a)) % Cardinality(Chapters)

\* The match that a whole text does not give when it is searched upwards: one
\* character, the last of the text.  GetSelectionOffset starts behind the last
\* character but one, and RunSearchRegex wants a match to lie before its start.
MissedUpwards(d, q) == direction = "up" /\ d \in AtTheEnd /\ q = Places

\* The places between the start of the search and place p of chapter c, or the
\* end of the search when c is NoTab.  (Where the tab that it starts in is
\* searched as a whole, origin.from leaves out the same match there.)
PassedBy(c, p, d, q) ==
    LET up == direction = "up"
        after == IF up THEN 2 * q - 1 < origin.from ELSE 2 * q - 1 >= origin.from
        inFront == IF up THEN q > p ELSE q < p
        distance == Distance(origin.tab, d, direction)
    IN  \/ d = origin.tab /\ after /\ (c = d => inFront)
        \/ /\ d # origin.tab /\ distance > 0 /\ ~MissedUpwards(d, q)
           /\ c # NoTab => \/ distance < Distance(origin.tab, c, direction)
                           \/ d = c /\ inFront

SearchesBook ==
    Sound /\ lookWhere = "all" /\ origin.tab \in Chapters
    /\ (direction = "up" => origin.from # 0)

NoMatchPassedBy(c, p) ==
    \A d \in Chapters : \A q \in matches[d] : ~PassedBy(c, p, d, q)

\* No match is skipped: what a search over all files selects is the first match
\* from where it started, in its direction, also when it goes on in a tab that
\* had to be loaded; and when it says that the term cannot be found there is no
\* match from there on.  (Direction All passes by what is above the caret; a
\* text that is searched upwards from its end does not give a match of one
\* character that ends it.)
NoMatchIsSkipped ==
    [][ /\ answer' = "found" => (SearchesBook =>
              \A p \in 1..Places : caret = Match(p) => NoMatchPassedBy(current, p))'
        /\ answer' = "cannot" /\ answer # "cannot" =>
              (SearchesBook => NoMatchPassedBy(NoTab, 0))' ]_vars

\* The chapter that a scan has opened is searched from its end or beginning,
\* wherever its caret was left: the search that goes on finds its match, unless
\* it searches upwards and the only match is one character that ends the text.
OpenedChapterHasTheMatch ==
    [][ Resume /\ answer = "none" =>
            /\ current' = current
            /\ answer' = "found" \/ \A q \in matches[current] : MissedUpwards(current, q) ]_vars

\* The scan comes to an end when every itemref leads to a chapter and at most
\* one chapter is not in the spine.
SearchEnds ==
    (scanning # NoTab /\ Elsewhere \notin {spine[i] : i \in DOMAIN spine}
        /\ Cardinality(Chapters \ Listed) <= 1) ~> scanning = NoTab

\* "fixed an issue with cross-file FindNext causing a hang when the search term
\* is not in the book" (ChangeLog.txt, issue #378): every scan ends.
SearchAlwaysEnds == scanning # NoTab ~> scanning = NoTab
=============================================================================
