----------------------------- MODULE HTMLViews -----------------------------
(***************************************************************************)
(* One HTMLResource (ResourceObjects/HTMLResource.cpp) and the FlowTab     *)
(* (Tabs/FlowTab.cpp) that shows it.  The content exists three times: the  *)
(* DOM, which is the resource; the web page of the Book View; the text     *)
(* document of the Code View.  "Old" and "modified" flags decide which     *)
(* copy overwrites which when focus, views and tabs change.                *)
(*                                                                         *)
(* A content is the set of edits it contains, so an edit that saving would *)
(* not store has been lost, and of the ids that a book save has given to   *)
(* its headings.  Everything here runs on the GUI thread.                  *)
(***************************************************************************)
EXTENDS Naturals

CONSTANTS
    Edits,      \* the edits of the user and of the rest of the program
    HeadingIds, \* the ids BookNormalization may give to headings of the chapter
    NoSource,   \* m_OldSourceCache before the first view switch
    Detours     \* what the user does beyond the basics; see AllDetours

\* "otherpane": enters, or types in, the pane of a Split View that is not the
\* last view.  "malformed": types source that is not well formed in a Split
\* View.  "replace": replaces from the Find & Replace window.  "unfocused":
\* opens the tab, or uses it, while the focus is outside.  "splitchapter":
\* splits the chapter at the cursor.
AllDetours == {"otherpane", "malformed", "replace", "unfocused", "splitchapter"}

ASSUME DetoursAssumption == Detours \subseteq AllDetours
ASSUME IdsAssumption == Edits \cap HeadingIds = {}
ASSUME SourceAssumption == \A c \in SUBSET (Edits \cup HeadingIds) : NoSource # c

Contents == SUBSET (Edits \cup HeadingIds)

VARIABLES
    res,       \* the HTMLResource: three contents and their flags
    tab,       \* whether a FlowTab shows it
    lastBook,  \* m_IsLastViewBook
    split,     \* m_InSplitView
    focus,     \* the focused widget: "book", "code", or one "away" from the tab
    made,      \* history: the edits made so far
    taken      \* history: the detours taken so far

vars == <<res, tab, lastBook, split, focus, made, taken>>

-----------------------------------------------------------------------------
(* HTMLResource: each operation maps the caches to the caches *)

\* Mutant: only the web page is marked.
MarkWebPageAsOld(r) == [r EXCEPT !.webIsOld = TRUE]

MarkSecondaryCachesAsOld(r) == [r EXCEPT !.webIsOld = TRUE, !.textIsOld = TRUE]

\* BookNormalization::GiveIDsToHeadingsInResource sets ids in the DOM in place,
\* and neither copy is marked old.
GiveIDsToHeadings(r, ids) == [r EXCEPT !.dom = @ \cup ids]

\* AnchorUpdates::UpdateAnchorsInOneFile
UpdateAnchors(r, links) ==
    IF links = {} THEN r
    ELSE MarkSecondaryCachesAsOld([r EXCEPT !.dom = @ \cup links])

UpdateDomDocumentFromWebPage(r) ==
    IF r.webModified
    THEN [r EXCEPT !.dom = r.web, !.textIsOld = TRUE, !.webModified = FALSE]
    ELSE r

\* CleanSource::Clean repairs what is not well formed and keeps the rest.
UpdateDomDocumentFromTextDocument(r) ==
    IF r.textModified
    THEN [r EXCEPT !.dom = r.text, !.webIsOld = TRUE, !.textModified = FALSE]
    ELSE r

\* QWebFrame::setContent emits no contentsChanged: the modified flag stays.
SetWebPageHTML(r, content) == [r EXCEPT !.web = content, !.sourceIsWeb = FALSE]

UpdateWebPageFromDomDocument(r) ==
    IF r.webIsOld \/ r.refreshNeeded
    THEN [SetWebPageHTML(r, r.dom) EXCEPT !.webIsOld = FALSE, !.refreshNeeded = FALSE]
    ELSE r

\* QTextDocument::setPlainText leaves the document modified.
UpdateTextDocumentFromDomDocument(r) ==
    IF r.textIsOld
    THEN [r EXCEPT !.text = r.dom, !.wellFormed = TRUE,
                   !.textIsOld = FALSE, !.textModified = TRUE]
    ELSE r

\* Two sources with the same edits may still differ as strings (reformats),
\* except that the page's source is m_OldSourceCache until the page changes.
UpdateWebPageFromTextDocument(r, reformats) ==
    LET changed == r.oldSource # r.text \/ reformats \/ r.refreshNeeded
        updated == IF changed
                   THEN [SetWebPageHTML(r, r.text) EXCEPT !.oldSource = r.text,
                                                          !.refreshNeeded = FALSE]
                   ELSE r
    IN  [updated EXCEPT !.webModified = r.textModified]

\* Mutant: the modified state is not transferred.
UpdateTextDocumentOnly(r, reformats) ==
    LET changed == ~r.sourceIsWeb /\ (r.oldSource # r.web \/ reformats)
        updated == IF changed
                   THEN [r EXCEPT !.text = r.web, !.wellFormed = TRUE, !.oldSource = r.web]
                   ELSE r
    IN  [updated EXCEPT !.sourceIsWeb = TRUE]

UpdateTextDocumentFromWebPage(r, reformats) ==
    LET changed == ~r.sourceIsWeb /\ (r.oldSource # r.web \/ reformats)
        updated == IF changed
                   THEN [r EXCEPT !.text = r.web, !.wellFormed = TRUE, !.oldSource = r.web]
                   ELSE r
    IN  [updated EXCEPT !.textModified = r.webModified, !.sourceIsWeb = TRUE]

-----------------------------------------------------------------------------
(* FlowTab *)

SaveTabContent(r, book) ==
    IF book THEN UpdateDomDocumentFromWebPage(r)
            ELSE UpdateDomDocumentFromTextDocument(r)

LoadTabContent(r, book) ==
    IF book THEN UpdateWebPageFromDomDocument(r)
            ELSE UpdateTextDocumentFromDomDocument(r)

IsDataWellFormed == lastBook \/ res.wellFormed

\* ReplaceDocumentText with the cleaned source of the Code View
AutoFixWellFormedErrors(r) == [r EXCEPT !.wellFormed = TRUE, !.textModified = TRUE]

LastView == IF lastBook THEN "book" ELSE "code"

Takes(detours) ==
    /\ detours \subseteq Detours
    /\ taken' = taken \cup detours

\* A command on the tab's content goes to the last view, whatever has the focus.
OutsideLastView ==
    IF focus = LastView THEN {}
    ELSE IF focus = "away" THEN {"unfocused"} ELSE {"otherpane"}

\* AddNewContentTab and DelayedInitialization.  The new tab takes the focus,
\* unless it is opened behind the current one (precede_current_tab).
OpenTab(book, focused, reformats) ==
    /\ tab = "closed"
    /\ Takes(IF focused THEN {} ELSE {"unfocused"})
    /\ LET loaded == UpdateTextDocumentFromDomDocument(UpdateWebPageFromDomDocument(res))
       IN  res' = IF book THEN loaded
                  ELSE UpdateTextDocumentFromWebPage(loaded, reformats)
    /\ focus' = IF ~focused THEN "away" ELSE IF book THEN "book" ELSE "code"
    /\ tab' = "open" /\ lastBook' = book /\ split' = FALSE
    /\ UNCHANGED made

\* A command that is refused while the tab is not well formed checks the current
\* tab: this one, or another while the focus is outside.
CurrentTabIsWellFormed == IsDataWellFormed \/ focus = "away"

\* ContentTab::Close, which TabManager::CloseTab allows by the current tab
CloseTab ==
    /\ tab = "open" /\ CurrentTabIsWellFormed
    /\ res' = SaveTabContent(res, lastBook)
    /\ tab' = "closed" /\ focus' = "away"
    /\ UNCHANGED <<lastBook, split, made, taken>>

\* Mutant: leaving the tab does not save it.
FocusLeavesUnsaved ==
    /\ tab = "open" /\ focus # "away"
    /\ focus' = "away"
    /\ UNCHANGED <<res, tab, lastBook, split, made, taken>>

\* TabFocusChange: another widget of the window gets the focus.
FocusLeaves ==
    /\ tab = "open" /\ focus # "away"
    /\ res' = SaveTabContent(res, lastBook)
    /\ focus' = "away"
    /\ UNCHANGED <<tab, lastBook, split, made, taken>>

\* TabFocusChange: a visible view gets the focus, loading the last view.
FocusEnters(view) ==
    /\ tab = "open" /\ focus = "away"
    /\ view = LastView \/ split
    /\ Takes(IF view = LastView THEN {} ELSE {"otherpane"})
    /\ res' = LoadTabContent(res, lastBook)
    /\ focus' = view
    /\ UNCHANGED <<tab, lastBook, split, made>>

\* SplitViewFocusSwitch, from the Code View: EnterBookView, unless malformed
FocusSwitchesToBook(reformats) ==
    /\ tab = "open" /\ split /\ focus = "code"
    /\ focus' = "book"
    /\ IF IsDataWellFormed
       THEN res' = UpdateWebPageFromTextDocument(res, reformats) /\ lastBook' = TRUE
       ELSE UNCHANGED <<res, lastBook>>
    /\ UNCHANGED <<tab, split, made, taken>>

\* SplitViewFocusSwitch, from the Book View: EnterCodeView
FocusSwitchesToCode(reformats) ==
    /\ tab = "open" /\ split /\ focus = "book"
    /\ focus' = "code"
    /\ res' = UpdateTextDocumentFromWebPage(res, reformats) /\ lastBook' = FALSE
    /\ UNCHANGED <<tab, split, made, taken>>

\* BookView: the Code View is hidden after the Book View is shown, so a focus
\* in it passes to the Book View or leaves the tab.
BookView(reformats) ==
    /\ tab = "open" /\ IsDataWellFormed
    /\ LET entered == IF lastBook THEN res
                      ELSE UpdateWebPageFromTextDocument(res, reformats)
       IN  \/ focus' = (IF focus = "code" THEN "book" ELSE focus) /\ res' = entered
           \/ focus = "code" /\ focus' = "away" /\ res' = SaveTabContent(entered, TRUE)
    /\ lastBook' = TRUE /\ split' = FALSE
    /\ UNCHANGED <<tab, made, taken>>

\* CodeView: the Book View is hidden first, so a focus in it leaves the tab,
\* unless the Code View was visible in the Split View.
CodeView(reformats) ==
    /\ tab = "open"
    /\ LET entered == IF lastBook THEN UpdateTextDocumentFromWebPage(res, reformats)
                      ELSE res
       IN  \/ focus # "book" /\ focus' = focus /\ res' = entered
           \/ focus = "book" /\ split /\ focus' = "code" /\ res' = entered
           \/ focus = "book" /\ focus' = "away" /\ res' = SaveTabContent(entered, FALSE)
    /\ lastBook' = FALSE /\ split' = FALSE
    /\ UNCHANGED <<tab, made, taken>>

\* SplitView brings the other view up to date and makes it the last view;
\* the focus stays where it is.
SplitView(reformats) ==
    /\ tab = "open" /\ IsDataWellFormed
    /\ res' = IF lastBook THEN UpdateTextDocumentFromWebPage(res, reformats)
              ELSE UpdateWebPageFromTextDocument(res, reformats)
    /\ lastBook' = ~lastBook /\ split' = TRUE
    /\ UNCHANGED <<tab, focus, made, taken>>

-----------------------------------------------------------------------------
(* The user edits *)

EditBook(e) == [res EXCEPT !.web = @ \cup {e}, !.webModified = TRUE, !.sourceIsWeb = FALSE]

EditCode(e, wf) ==
    [res EXCEPT !.text = @ \cup {e}, !.textModified = TRUE, !.wellFormed = wf]

TypeInBookView(e) ==
    /\ focus = "book"
    /\ Takes(IF lastBook THEN {} ELSE {"otherpane"})
    /\ res' = EditBook(e)
    /\ made' = made \cup {e}
    /\ UNCHANGED <<tab, lastBook, split, focus>>

TypeInCodeView(e, wf) ==
    /\ focus = "code"
    /\ Takes((IF lastBook THEN {"otherpane"} ELSE {})
             \cup IF split /\ ~wf THEN {"malformed"} ELSE {})
    /\ res' = EditCode(e, wf)
    /\ made' = made \cup {e}
    /\ UNCHANGED <<tab, lastBook, split, focus>>

\* FindReplace::Replace and ReplaceAll on the current file: the window has the
\* focus and edits the last view of the tab.
ReplaceInTab(e) ==
    /\ Takes({"replace"})
    /\ tab = "open" /\ focus = "away"
    /\ res' = IF lastBook THEN EditBook(e) ELSE EditCode(e, res.wellFormed)
    /\ made' = made \cup {e}
    /\ UNCHANGED <<tab, lastBook, split, focus>>

\* Mutant: the modal box keeps the focus when it is closed.
DemandAttentionForever(reformats, fix) ==
    /\ tab = "open" /\ ~IsDataWellFormed
    /\ focus' = "box"
    /\ UNCHANGED <<res, tab, lastBook, split, made, taken>>

\* WellFormedCheckComponent: a failed check brings the tab to the front and its
\* last view, the Code View, gets the focus; a modal box takes the focus and
\* gives it back when closed.  fix: the user chose "Fix Automatically".
DemandAttention(reformats, fix) ==
    /\ tab = "open" /\ ~IsDataWellFormed
    /\ LET entered == IF focus = "away" THEN LoadTabContent(res, FALSE)
                      ELSE IF focus = "book" /\ split
                      THEN UpdateTextDocumentFromWebPage(res, reformats)
                      ELSE res
           saved   == SaveTabContent(entered, FALSE)
           fixed   == IF fix THEN AutoFixWellFormedErrors(saved) ELSE saved
       IN  res' = LoadTabContent(fixed, FALSE)
    /\ focus' = "code"
    /\ UNCHANGED <<tab, lastBook, split, made, taken>>

\* SplitChapter takes a part of the chapter out of the view, SaveTabData stores
\* the rest, and Book::CreateChapterBreakOriginalResource adjusts the links to
\* what has moved, in the DOM of every HTML resource.
SplitChapter(e, links) ==
    /\ Takes({"splitchapter"} \cup OutsideLastView)
    /\ tab = "open" /\ IsDataWellFormed
    /\ LET edited == IF lastBook THEN EditBook(e) ELSE EditCode(e, TRUE)
       IN  res' = UpdateAnchors(SaveTabContent(edited, lastBook), links)
    /\ made' = made \cup links \cup {e}
    /\ UNCHANGED <<tab, lastBook, split, focus>>

\* SplitOnSGFChapterMarkers: the same for every marker, in the DOM
SplitOnSGFChapterMarkers(e, links) ==
    /\ Takes(OutsideLastView)
    /\ tab = "open" /\ IsDataWellFormed
    /\ LET saved == SaveTabContent(res, lastBook)
           first == MarkSecondaryCachesAsOld([saved EXCEPT !.dom = @ \cup {e}])
       IN  res' = LoadTabContent(UpdateAnchors(first, links), lastBook)
    /\ made' = made \cup links \cup {e}
    /\ UNCHANGED <<tab, lastBook, split, focus>>

-----------------------------------------------------------------------------
(* The rest of the program *)

\* A rename, a merge, a TOC or a book-wide replacement changes the DOM and marks
\* the caches; all of them are started from outside the tab.
DomDocumentUpdated(e) ==
    /\ focus = "away"
    /\ res' = MarkSecondaryCachesAsOld([res EXCEPT !.dom = @ \cup {e}])
    /\ made' = made \cup {e}
    /\ UNCHANGED <<tab, lastBook, split, focus, taken>>

\* A stylesheet or an image the page uses was saved.
LinkedResourceUpdated ==
    /\ focus = "away"
    /\ res' = [res EXCEPT !.refreshNeeded = TRUE]
    /\ UNCHANGED <<tab, lastBook, split, focus, made, taken>>

\* TabManager::SaveTabData, before the Find & Replace window opens or the TOC is
\* generated, which asks for it whatever the tabs hold.
SaveTabData ==
    /\ tab = "open"
    /\ res' = SaveTabContent(res, lastBook)
    /\ UNCHANGED <<tab, lastBook, split, focus, made, taken>>

\* QWidget::setFocus of the tab, whose focus proxy is the last view
FocusReturns(r, reformats) ==
    IF focus = LastView THEN r
    ELSE IF focus = "away" THEN LoadTabContent(r, lastBook)
    ELSE IF lastBook THEN UpdateWebPageFromTextDocument(r, reformats)
    ELSE UpdateTextDocumentFromWebPage(r, reformats)

\* MainWindow::SaveFile: SaveTabData, then BookNormalization::Normalize, which
\* may find headings without ids in any chapter, open or not; the export reads
\* the DOM.  Then the current tab gets the focus, unless the export failed.
SaveFile(ids, reformats) ==
    /\ tab = "open" => CurrentTabIsWellFormed
    /\ LET saved == IF tab = "open" THEN SaveTabContent(res, lastBook) ELSE res
           normal == GiveIDsToHeadings(saved, ids)
       IN  \/ focus' = focus /\ res' = normal
           \/ /\ tab = "open" /\ IsDataWellFormed
              /\ focus' = LastView /\ res' = FocusReturns(normal, reformats)
    /\ UNCHANGED <<tab, lastBook, split, made, taken>>

\* UpdateTabStatesOnSwitch: the tab becomes the current one, or stops being
\* it, and the focus is elsewhere in the window.
SwitchTab ==
    /\ Takes({"unfocused"})
    /\ tab = "open" /\ focus = "away"
    /\ res' \in {LoadTabContent(res, lastBook), SaveTabContent(res, lastBook)}
    /\ UNCHANGED <<tab, lastBook, split, focus, made>>

-----------------------------------------------------------------------------
\* m_RefreshNeeded has no initial value in the constructor.
Init ==
    /\ \E refresh \in BOOLEAN :
         res = [dom |-> {}, web |-> {}, text |-> {}, oldSource |-> NoSource, sourceIsWeb |-> FALSE,
                webModified |-> FALSE, textModified |-> FALSE,
                webIsOld |-> TRUE, textIsOld |-> TRUE,
                refreshNeeded |-> refresh, wellFormed |-> TRUE]
    /\ tab = "closed" /\ lastBook = TRUE /\ split = FALSE /\ focus = "away"
    /\ made = {} /\ taken = {}

Next ==
    \/ CloseTab \/ FocusLeaves \/ \E view \in {"book", "code"} : FocusEnters(view)
    \/ \E reformats \in BOOLEAN :
         \/ \E book, focused \in BOOLEAN : OpenTab(book, focused, reformats)
         \/ FocusSwitchesToBook(reformats) \/ FocusSwitchesToCode(reformats)
         \/ BookView(reformats) \/ CodeView(reformats) \/ SplitView(reformats)
         \/ \E fix \in BOOLEAN : DemandAttention(reformats, fix)
         \/ \E ids \in SUBSET HeadingIds : SaveFile(ids, reformats)
    \/ LinkedResourceUpdated \/ SaveTabData \/ SwitchTab
    \/ \E e \in Edits \ made :
         \/ TypeInBookView(e) \/ \E wf \in BOOLEAN : TypeInCodeView(e, wf)
         \/ ReplaceInTab(e) \/ DomDocumentUpdated(e)
         \/ \E links \in SUBSET (Edits \ (made \cup {e})) :
              SplitChapter(e, links) \/ SplitOnSGFChapterMarkers(e, links)

Spec == Init /\ [][Next]_vars

-----------------------------------------------------------------------------
(* Properties *)

\* The three contents, their flags and the tab have their types; in particular
\* the focus is always in a view or outside the tab, never with the modal box.
TypeInv ==
    /\ res \in [dom : Contents, web : Contents, text : Contents,
                oldSource : Contents \cup {NoSource}, sourceIsWeb : BOOLEAN,
                webModified : BOOLEAN, textModified : BOOLEAN,
                webIsOld : BOOLEAN, textIsOld : BOOLEAN,
                refreshNeeded : BOOLEAN, wellFormed : BOOLEAN]
    /\ tab \in {"closed", "open"}
    /\ lastBook \in BOOLEAN /\ split \in BOOLEAN
    /\ focus \in {"book", "code", "away"}
    /\ made \subseteq Edits /\ taken \subseteq Detours

\* What the DOM holds once the tab, if there is one, saves its content
Saved == IF tab = "open" THEN SaveTabContent(res, lastBook).dom ELSE res.dom

\* TabManager::SaveTabData "saves any unsaved data" (TabManager.h:79): called at
\* any moment it would leave every edit made so far in the DOM, wherever
\* in the three copies it was made and however the flags have moved since.
SavingStoresEveryEdit == taken = {} => made \subseteq Saved

Shown == IF focus = "book" THEN res.web ELSE res.text

\* The last view, while it has the focus, shows every edit that saving would
\* store and no other: none of the user's is left behind and no stale copy comes
\* back, also when tabs are opened or searched without having the focus.  Only
\* the ids of a book save may be in the DOM and not in the view.
UserSeesWhatIsSaved ==
    taken \subseteq {"replace", "unfocused"} /\ focus = LastView =>
        Shown \ HeadingIds = Saved \ HeadingIds

\* "The final arbiter of the content in the HTMLResource" (HTMLResource.h:270):
\* an edit that is in the DOM stays there, so a secondary cache that does
\* not have it is never written over the DOM, malformed source or not.  The ids
\* of a book save do not stay: a view that was not loaded since lacks them.
DomIsFinalArbiter ==
    [][taken' \subseteq {"malformed"} => res.dom \ HeadingIds \subseteq res'.dom]_vars
=============================================================================
