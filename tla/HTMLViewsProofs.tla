-------------------------- MODULE HTMLViewsProofs --------------------------
(***************************************************************************)
(* Proofs about one chapter and its tab, for any edits: saving stores      *)
(* every edit while the user takes no detour, what the user sees is what   *)
(* is saved, and nothing that is in the DOM is lost, malformed source in a *)
(* Split View or not.                                                      *)
(***************************************************************************)
EXTENDS HTMLViews, TLAPS

\* The caches whose three contents, and the source exchanged last, are within s
CachesOf(s) == [dom : SUBSET s, web : SUBSET s, text : SUBSET s,
                oldSource : (SUBSET s) \cup {NoSource}, sourceIsWeb : BOOLEAN,
                webModified : BOOLEAN, textModified : BOOLEAN,
                webIsOld : BOOLEAN, textIsOld : BOOLEAN,
                refreshNeeded : BOOLEAN, wellFormed : BOOLEAN]

Caches == CachesOf(Edits \cup HeadingIds)

\* The caches r without the ids that a book save has given to headings: the
\* copies of a chapter differ in these at any time, and in edits only as the
\* invariants below say.
EditsOf(r) ==
    [dom |-> r.dom \ HeadingIds, web |-> r.web \ HeadingIds, text |-> r.text \ HeadingIds,
     oldSource |-> IF r.oldSource = NoSource THEN NoSource ELSE r.oldSource \ HeadingIds]

-----------------------------------------------------------------------------
(* The conversions: their types *)

LEMMA ConversionTypes ==
    ASSUME NEW s, NEW r \in CachesOf(s), NEW reformats \in BOOLEAN
    PROVE  /\ UpdateDomDocumentFromWebPage(r) \in CachesOf(s)
           /\ UpdateDomDocumentFromTextDocument(r) \in CachesOf(s)
           /\ UpdateWebPageFromDomDocument(r) \in CachesOf(s)
           /\ UpdateTextDocumentFromDomDocument(r) \in CachesOf(s)
           /\ UpdateWebPageFromTextDocument(r, reformats) \in CachesOf(s)
           /\ UpdateTextDocumentFromWebPage(r, reformats) \in CachesOf(s)
           /\ AutoFixWellFormedErrors(r) \in CachesOf(s)
           /\ MarkSecondaryCachesAsOld(r) \in CachesOf(s)
<1>1. UpdateDomDocumentFromWebPage(r) \in CachesOf(s)
  BY DEF UpdateDomDocumentFromWebPage, CachesOf
<1>2. UpdateDomDocumentFromTextDocument(r) \in CachesOf(s)
  BY DEF UpdateDomDocumentFromTextDocument, CachesOf
<1>3. UpdateWebPageFromDomDocument(r) \in CachesOf(s)
  BY DEF UpdateWebPageFromDomDocument, SetWebPageHTML, CachesOf
<1>4. UpdateTextDocumentFromDomDocument(r) \in CachesOf(s)
  BY DEF UpdateTextDocumentFromDomDocument, CachesOf
<1>5. UpdateWebPageFromTextDocument(r, reformats) \in CachesOf(s)
  BY DEF UpdateWebPageFromTextDocument, SetWebPageHTML, CachesOf
<1>6. UpdateTextDocumentFromWebPage(r, reformats) \in CachesOf(s)
  BY DEF UpdateTextDocumentFromWebPage, CachesOf
<1>7. AutoFixWellFormedErrors(r) \in CachesOf(s) /\ MarkSecondaryCachesAsOld(r) \in CachesOf(s)
  BY DEF AutoFixWellFormedErrors, MarkSecondaryCachesAsOld, CachesOf
<1> QED
  BY <1>1, <1>2, <1>3, <1>4, <1>5, <1>6, <1>7

\* What each conversion of the caches r to n changes, field by field
BookEnters(r, n) ==
    /\ EditsOf(n).dom = EditsOf(r).dom /\ EditsOf(n).text = EditsOf(r).text
    /\ n.wellFormed = r.wellFormed
    /\ n.webIsOld = r.webIsOld /\ n.textIsOld = r.textIsOld
    /\ n.webModified = r.textModified /\ n.textModified = r.textModified
    /\ \/ /\ EditsOf(n).web = EditsOf(r).text /\ EditsOf(n).oldSource = EditsOf(r).text
          /\ ~n.sourceIsWeb
       \/ /\ EditsOf(n).web = EditsOf(r).web /\ EditsOf(n).oldSource = EditsOf(r).oldSource
          /\ n.sourceIsWeb = r.sourceIsWeb /\ EditsOf(r).oldSource = EditsOf(r).text

CodeEnters(r, n) ==
    /\ EditsOf(n).dom = EditsOf(r).dom /\ EditsOf(n).web = EditsOf(r).web /\ n.sourceIsWeb
    /\ n.webIsOld = r.webIsOld /\ n.textIsOld = r.textIsOld
    /\ n.webModified = r.webModified /\ n.textModified = r.webModified
    /\ \/ /\ EditsOf(n).text = EditsOf(r).web /\ EditsOf(n).oldSource = EditsOf(r).web
          /\ n.wellFormed /\ ~r.sourceIsWeb
       \/ /\ EditsOf(n).text = EditsOf(r).text /\ EditsOf(n).oldSource = EditsOf(r).oldSource
          /\ n.wellFormed = r.wellFormed
          /\ r.sourceIsWeb \/ EditsOf(r).oldSource = EditsOf(r).web

BookSaves(r, n) ==
    /\ EditsOf(n).web = EditsOf(r).web /\ EditsOf(n).text = EditsOf(r).text
    /\ n.wellFormed = r.wellFormed
    /\ EditsOf(n).oldSource = EditsOf(r).oldSource /\ n.sourceIsWeb = r.sourceIsWeb
    /\ n.webIsOld = r.webIsOld /\ n.textModified = r.textModified /\ ~n.webModified
    /\ IF r.webModified THEN EditsOf(n).dom = EditsOf(r).web /\ n.textIsOld
       ELSE EditsOf(n).dom = EditsOf(r).dom /\ n.textIsOld = r.textIsOld

CodeSaves(r, n) ==
    /\ EditsOf(n).web = EditsOf(r).web /\ EditsOf(n).text = EditsOf(r).text
    /\ n.wellFormed = r.wellFormed
    /\ EditsOf(n).oldSource = EditsOf(r).oldSource /\ n.sourceIsWeb = r.sourceIsWeb
    /\ n.textIsOld = r.textIsOld /\ n.webModified = r.webModified /\ ~n.textModified
    /\ IF r.textModified THEN EditsOf(n).dom = EditsOf(r).text /\ n.webIsOld
       ELSE EditsOf(n).dom = EditsOf(r).dom /\ n.webIsOld = r.webIsOld

BookLoads(r, n) ==
    /\ EditsOf(n).dom = EditsOf(r).dom /\ EditsOf(n).text = EditsOf(r).text
    /\ n.wellFormed = r.wellFormed
    /\ EditsOf(n).oldSource = EditsOf(r).oldSource /\ n.textIsOld = r.textIsOld
    /\ n.webModified = r.webModified /\ n.textModified = r.textModified
    /\ ~n.webIsOld
    /\ \/ EditsOf(n).web = EditsOf(r).dom /\ ~n.sourceIsWeb
       \/ EditsOf(n).web = EditsOf(r).web /\ n.sourceIsWeb = r.sourceIsWeb /\ ~r.webIsOld

CodeLoads(r, n) ==
    /\ EditsOf(n).dom = EditsOf(r).dom /\ EditsOf(n).web = EditsOf(r).web
    /\ EditsOf(n).oldSource = EditsOf(r).oldSource /\ n.sourceIsWeb = r.sourceIsWeb
    /\ n.webIsOld = r.webIsOld /\ n.webModified = r.webModified /\ ~n.textIsOld
    /\ IF r.textIsOld THEN EditsOf(n).text = EditsOf(r).dom /\ n.wellFormed /\ n.textModified
       ELSE /\ EditsOf(n).text = EditsOf(r).text
            /\ n.wellFormed = r.wellFormed /\ n.textModified = r.textModified

LEMMA BookEntered ==
    ASSUME NEW r \in Caches, NEW reformats \in BOOLEAN, NEW n,
           n = UpdateWebPageFromTextDocument(r, reformats)
    PROVE  n \in Caches /\ BookEnters(r, n)
BY SourceAssumption
   DEF BookEnters, EditsOf, UpdateWebPageFromTextDocument, SetWebPageHTML, Caches, CachesOf

LEMMA CodeEntered ==
    ASSUME NEW r \in Caches, NEW reformats \in BOOLEAN, NEW n,
           n = UpdateTextDocumentFromWebPage(r, reformats)
    PROVE  n \in Caches /\ CodeEnters(r, n)
BY SourceAssumption
   DEF CodeEnters, EditsOf, UpdateTextDocumentFromWebPage, Caches, CachesOf

LEMMA SavedFromBook ==
    ASSUME NEW r \in Caches, NEW n, n = SaveTabContent(r, TRUE)
    PROVE  n \in Caches /\ BookSaves(r, n)
BY DEF BookSaves, EditsOf, SaveTabContent, UpdateDomDocumentFromWebPage, Caches, CachesOf

LEMMA SavedFromCode ==
    ASSUME NEW r \in Caches, NEW n, n = SaveTabContent(r, FALSE)
    PROVE  n \in Caches /\ CodeSaves(r, n)
BY DEF CodeSaves, EditsOf, SaveTabContent, UpdateDomDocumentFromTextDocument, Caches, CachesOf

LEMMA LoadedToBook ==
    ASSUME NEW r \in Caches, NEW n, n = LoadTabContent(r, TRUE)
    PROVE  n \in Caches /\ BookLoads(r, n)
BY DEF BookLoads, EditsOf, LoadTabContent, UpdateWebPageFromDomDocument, SetWebPageHTML, Caches,
   CachesOf

LEMMA LoadedToCode ==
    ASSUME NEW r \in Caches, NEW n, n = LoadTabContent(r, FALSE)
    PROVE  n \in Caches /\ CodeLoads(r, n)
BY DEF CodeLoads, EditsOf, LoadTabContent, UpdateTextDocumentFromDomDocument, Caches, CachesOf

LEMMA TabTypes ==
    ASSUME NEW s, NEW r \in CachesOf(s), NEW book \in BOOLEAN
    PROVE  SaveTabContent(r, book) \in CachesOf(s) /\ LoadTabContent(r, book) \in CachesOf(s)
BY ConversionTypes DEF SaveTabContent, LoadTabContent

LEMMA EditTypes ==
    ASSUME NEW s, NEW r \in CachesOf(s), res \in CachesOf(s),
           NEW e \in s, NEW wf \in BOOLEAN, NEW links \in SUBSET s
    PROVE  /\ EditBook(e) \in CachesOf(s) /\ EditCode(e, wf) \in CachesOf(s)
           /\ [r EXCEPT !.dom = @ \cup {e}] \in CachesOf(s)
           /\ UpdateAnchors(r, links) \in CachesOf(s)
<1>1. EditBook(e) \in CachesOf(s)
  BY DEF EditBook, CachesOf
<1>2. EditCode(e, wf) \in CachesOf(s)
  BY DEF EditCode, CachesOf
<1>3. [r EXCEPT !.dom = @ \cup {e}] \in CachesOf(s)
  BY DEF CachesOf
<1>4. UpdateAnchors(r, links) \in CachesOf(s)
  BY DEF UpdateAnchors, MarkSecondaryCachesAsOld, CachesOf
<1> QED
  BY <1>1, <1>2, <1>3, <1>4

LEMMA RefreshTypes ==
    ASSUME NEW s, NEW r \in CachesOf(s)
    PROVE  [r EXCEPT !.refreshNeeded = TRUE] \in CachesOf(s)
BY DEF CachesOf

LEMMA IdsTypes ==
    ASSUME NEW s, NEW r \in CachesOf(s), NEW ids \in SUBSET s
    PROVE  GiveIDsToHeadings(r, ids) \in CachesOf(s)
BY DEF GiveIDsToHeadings, CachesOf

LEMMA ContentTypes ==
    ASSUME NEW r \in Caches
    PROVE  /\ EditsOf(r).text # NoSource /\ EditsOf(r).web # NoSource
           /\ EditsOf(r).dom # NoSource
           /\ r.webModified \in BOOLEAN /\ r.textModified \in BOOLEAN
BY SourceAssumption DEF EditsOf, Caches, CachesOf

\* What an edit of the page or of the text changes
BookEdited(r, n, e) ==
    /\ EditsOf(n).web = EditsOf(r).web \cup {e} /\ n.webModified /\ ~n.sourceIsWeb
    /\ EditsOf(n).dom = EditsOf(r).dom /\ EditsOf(n).text = EditsOf(r).text
    /\ EditsOf(n).oldSource = EditsOf(r).oldSource /\ n.wellFormed = r.wellFormed
    /\ n.textModified = r.textModified
    /\ n.webIsOld = r.webIsOld /\ n.textIsOld = r.textIsOld

CodeEdited(r, n, e, wf) ==
    /\ EditsOf(n).text = EditsOf(r).text \cup {e} /\ n.textModified /\ n.wellFormed = wf
    /\ EditsOf(n).dom = EditsOf(r).dom /\ EditsOf(n).web = EditsOf(r).web
    /\ EditsOf(n).oldSource = EditsOf(r).oldSource /\ n.sourceIsWeb = r.sourceIsWeb
    /\ n.webModified = r.webModified
    /\ n.webIsOld = r.webIsOld /\ n.textIsOld = r.textIsOld

\* What a change of the DOM that marks the copies changes
DomEdited(r, n, edits) ==
    /\ EditsOf(n).dom = EditsOf(r).dom \cup edits /\ n.webIsOld /\ n.textIsOld
    /\ EditsOf(n).web = EditsOf(r).web /\ EditsOf(n).text = EditsOf(r).text
    /\ EditsOf(n).oldSource = EditsOf(r).oldSource /\ n.sourceIsWeb = r.sourceIsWeb
    /\ n.webModified = r.webModified /\ n.textModified = r.textModified
    /\ n.wellFormed = r.wellFormed

\* Ids that headings are given, or a refresh that is asked for, change no edit.
EditsSame(r, n) ==
    /\ EditsOf(n) = EditsOf(r) /\ n.wellFormed = r.wellFormed
    /\ n.sourceIsWeb = r.sourceIsWeb
    /\ n.webModified = r.webModified /\ n.textModified = r.textModified
    /\ n.webIsOld = r.webIsOld /\ n.textIsOld = r.textIsOld

LEMMA EditedInBook ==
    ASSUME res \in Caches, NEW e \in Edits, NEW n, n = EditBook(e)
    PROVE  n \in Caches /\ BookEdited(res, n, e)
BY IdsAssumption DEF BookEdited, EditsOf, EditBook, Caches, CachesOf

LEMMA EditedInCode ==
    ASSUME res \in Caches, NEW e \in Edits, NEW wf \in BOOLEAN, NEW n, n = EditCode(e, wf)
    PROVE  n \in Caches /\ CodeEdited(res, n, e, wf)
BY IdsAssumption DEF CodeEdited, EditsOf, EditCode, Caches, CachesOf

LEMMA EditedInDom ==
    ASSUME NEW r \in Caches, NEW e \in Edits, NEW n,
           n = MarkSecondaryCachesAsOld([r EXCEPT !.dom = @ \cup {e}])
    PROVE  n \in Caches /\ DomEdited(r, n, {e})
BY IdsAssumption DEF DomEdited, EditsOf, MarkSecondaryCachesAsOld, Caches, CachesOf

LEMMA AnchorsUpdated ==
    ASSUME NEW r \in Caches, NEW links \in SUBSET Edits, NEW n, n = UpdateAnchors(r, links)
    PROVE  n \in Caches /\ (DomEdited(r, n, links) \/ (links = {} /\ n = r))
<1>1. CASE links = {}
  BY <1>1 DEF UpdateAnchors
<1>2. CASE links # {}
  BY <1>2, IdsAssumption
  DEF UpdateAnchors, DomEdited, EditsOf, MarkSecondaryCachesAsOld, Caches, CachesOf
<1> QED
  BY <1>1, <1>2

LEMMA IdsGiven ==
    ASSUME NEW r \in Caches, NEW ids \in SUBSET HeadingIds, NEW n,
           n = GiveIDsToHeadings(r, ids)
    PROVE  n \in Caches /\ EditsSame(r, n)
BY DEF EditsSame, EditsOf, GiveIDsToHeadings, Caches, CachesOf

LEMMA RefreshAsked ==
    ASSUME NEW r \in Caches, NEW n, n = [r EXCEPT !.refreshNeeded = TRUE]
    PROVE  n \in Caches /\ EditsSame(r, n)
BY DEF EditsSame, EditsOf, Caches, CachesOf

\* What saving the last view changes, and what a book save does before the export
Saves(r, n, book) == IF book THEN BookSaves(r, n) ELSE CodeSaves(r, n)

LEMMA SavedWithIds ==
    ASSUME NEW r \in Caches, NEW book \in BOOLEAN, NEW ids \in SUBSET HeadingIds, NEW n,
           n = GiveIDsToHeadings(SaveTabContent(r, book), ids)
    PROVE  n \in Caches /\ Saves(r, n, book)
<1>1. PICK saved : saved = SaveTabContent(r, book)
  OBVIOUS
<1>2. saved \in Caches /\ Saves(r, saved, book)
  BY <1>1, SavedFromBook, SavedFromCode DEF Saves
<1>3. n \in Caches /\ EditsSame(saved, n)
  BY <1>1, <1>2, IdsGiven
<1> QED
  BY <1>2, <1>3 DEF Saves, BookSaves, CodeSaves, EditsSame

-----------------------------------------------------------------------------
(* The type invariant *)

\* No copy has an edit that was not made.
Made == res \in CachesOf(made \cup HeadingIds)

\* Edits and detours are not forgotten.
LEMMA HistoryGrows ==
    ASSUME [Next]_vars
    PROVE  taken \subseteq taken' /\ made \subseteq made'
BY DEF Next, vars, CloseTab, FocusLeaves, FocusEnters, OpenTab, FocusSwitchesToBook,
   FocusSwitchesToCode, BookView, CodeView, SplitView, DemandAttention, LinkedResourceUpdated,
   SaveTabData, SaveFile, SwitchTab, TypeInBookView, TypeInCodeView, ReplaceInTab,
   DomDocumentUpdated, SplitChapter, SplitOnSGFChapterMarkers, Takes

LEMMA TypeStep ==
    ASSUME TypeInv, Made, [Next]_vars
    PROVE  TypeInv' /\ Made'
<1> USE DEF TypeInv
<1> DEFINE s == made' \cup HeadingIds
<1>0. res \in CachesOf(s)
  BY HistoryGrows DEF Made, CachesOf
<1>1. SUFFICES /\ res' \in CachesOf(s) /\ tab' \in {"closed", "open"}
               /\ lastBook' \in BOOLEAN /\ split' \in BOOLEAN
               /\ focus' \in {"book", "code", "away"}
               /\ made' \subseteq Edits /\ taken' \subseteq Detours
  <2>1. made' \subseteq Edits => CachesOf(s) \subseteq Caches
    BY DEF Caches, CachesOf
  <2> QED
    BY <2>1 DEF Made, Caches, CachesOf, Contents
<1>2. LastView \in {"book", "code"}
  BY DEF LastView
<1>3. CASE UNCHANGED vars
  BY <1>3, <1>0 DEF vars
<1>4. CASE CloseTab
  BY <1>4, <1>0, TabTypes DEF CloseTab
<1>5. CASE FocusLeaves
  BY <1>5, <1>0, TabTypes DEF FocusLeaves
<1>6. ASSUME NEW view \in {"book", "code"}, FocusEnters(view)
      PROVE  <1>1!1
  BY <1>6, <1>0, TabTypes DEF FocusEnters, Takes
<1>7. ASSUME NEW reformats \in BOOLEAN, NEW book \in BOOLEAN, NEW focused \in BOOLEAN,
             OpenTab(book, focused, reformats)
      PROVE  <1>1!1
  <2> DEFINE page == UpdateWebPageFromDomDocument(res)
             loaded == UpdateTextDocumentFromDomDocument(page)
  <2>1. page \in CachesOf(s)
    BY <1>0, ConversionTypes
  <2>2. loaded \in CachesOf(s)
    BY <2>1, ConversionTypes
  <2>3. UpdateTextDocumentFromWebPage(loaded, reformats) \in CachesOf(s)
    BY <2>2, ConversionTypes
  <2> QED
    BY <1>7, <2>2, <2>3 DEF OpenTab, Takes
<1>8. ASSUME NEW reformats \in BOOLEAN, FocusSwitchesToBook(reformats)
      PROVE  <1>1!1
  <2>1. UpdateWebPageFromTextDocument(res, reformats) \in CachesOf(s)
    BY <1>0, ConversionTypes
  <2> QED
    BY <1>8, <1>0, <2>1 DEF FocusSwitchesToBook
<1>9. ASSUME NEW reformats \in BOOLEAN, FocusSwitchesToCode(reformats)
      PROVE  <1>1!1
  BY <1>9, <1>0, ConversionTypes DEF FocusSwitchesToCode
<1>10. ASSUME NEW reformats \in BOOLEAN, BookView(reformats)
       PROVE  <1>1!1
  <2>1. UpdateWebPageFromTextDocument(res, reformats) \in CachesOf(s)
    BY <1>0, ConversionTypes
  <2>2. SaveTabContent(UpdateWebPageFromTextDocument(res, reformats), TRUE) \in CachesOf(s)
    BY <2>1, TabTypes
  <2>3. SaveTabContent(res, TRUE) \in CachesOf(s)
    BY <1>0, TabTypes
  <2> QED
    BY <1>10, <1>0, <2>1, <2>2, <2>3 DEF BookView
<1>11. ASSUME NEW reformats \in BOOLEAN, CodeView(reformats)
       PROVE  <1>1!1
  <2>1. UpdateTextDocumentFromWebPage(res, reformats) \in CachesOf(s)
    BY <1>0, ConversionTypes
  <2>2. SaveTabContent(UpdateTextDocumentFromWebPage(res, reformats), FALSE) \in CachesOf(s)
    BY <2>1, TabTypes
  <2>3. SaveTabContent(res, FALSE) \in CachesOf(s)
    BY <1>0, TabTypes
  <2> QED
    BY <1>11, <1>0, <2>1, <2>2, <2>3 DEF CodeView
<1>12. ASSUME NEW reformats \in BOOLEAN, SplitView(reformats)
       PROVE  <1>1!1
  BY <1>12, <1>0, ConversionTypes DEF SplitView
<1>13. ASSUME NEW reformats \in BOOLEAN, NEW fix \in BOOLEAN, DemandAttention(reformats, fix)
       PROVE  <1>1!1
  <2> DEFINE entered == IF focus = "away" THEN LoadTabContent(res, FALSE)
                        ELSE IF focus = "book" /\ split
                        THEN UpdateTextDocumentFromWebPage(res, reformats)
                        ELSE res
             saved == SaveTabContent(entered, FALSE)
             fixed == IF fix THEN AutoFixWellFormedErrors(saved) ELSE saved
  <2>1. entered \in CachesOf(s)
    BY <1>0, ConversionTypes, TabTypes
  <2>2. saved \in CachesOf(s)
    BY <2>1, TabTypes
  <2>3. fixed \in CachesOf(s)
    BY <2>2, ConversionTypes
  <2>4. res' = LoadTabContent(fixed, FALSE)
    BY <1>13 DEF DemandAttention
  <2>5. res' \in CachesOf(s)
    BY <2>3, <2>4, TabTypes
  <2> QED
    BY <1>13, <2>5 DEF DemandAttention
<1>14. CASE LinkedResourceUpdated
  BY <1>14, <1>0, RefreshTypes DEF LinkedResourceUpdated
<1>15. CASE SaveTabData
  BY <1>15, <1>0, TabTypes DEF SaveTabData
<1>23. ASSUME NEW ids \in SUBSET HeadingIds, NEW reformats \in BOOLEAN,
              SaveFile(ids, reformats)
       PROVE  <1>1!1
  <2>1. PICK saved : saved = IF tab = "open" THEN SaveTabContent(res, lastBook) ELSE res
    OBVIOUS
  <2>2. PICK normal : normal = GiveIDsToHeadings(saved, ids)
    OBVIOUS
  <2>3. saved \in CachesOf(s)
    BY <1>0, <2>1, TabTypes
  <2>4. normal \in CachesOf(s)
    BY <2>2, <2>3, IdsTypes
  <2>5. FocusReturns(normal, reformats) \in CachesOf(s)
    BY <1>0, <2>4, TabTypes, ConversionTypes DEF FocusReturns
  <2>6. \/ focus' = focus /\ res' = normal
        \/ focus' = LastView /\ res' = FocusReturns(normal, reformats)
    BY <1>23, <2>1, <2>2 DEF SaveFile
  <2> QED
    BY <1>2, <1>23, <2>4, <2>5, <2>6 DEF SaveFile
<1>16. CASE SwitchTab
  <2>1. /\ LoadTabContent(res, lastBook) \in CachesOf(s)
        /\ SaveTabContent(res, lastBook) \in CachesOf(s)
    BY <1>0, TabTypes
  <2> QED
    BY <1>16, <2>1 DEF SwitchTab, Takes
<1>17. ASSUME NEW e \in Edits, TypeInBookView(e)
       PROVE  <1>1!1
  BY <1>17, <1>0, EditTypes DEF TypeInBookView, Takes
<1>18. ASSUME NEW e \in Edits, NEW wf \in BOOLEAN, TypeInCodeView(e, wf)
       PROVE  <1>1!1
  BY <1>18, <1>0, EditTypes DEF TypeInCodeView, Takes
<1>19. ASSUME NEW e \in Edits, ReplaceInTab(e)
       PROVE  <1>1!1
  <2>1. EditBook(e) \in CachesOf(s) /\ EditCode(e, res.wellFormed) \in CachesOf(s)
    <3>1. res.wellFormed \in BOOLEAN
      BY <1>0 DEF CachesOf
    <3> QED
      <4>1. e \in s
        BY <1>19 DEF ReplaceInTab
      <4> HIDE DEF s
      <4> QED
        BY <1>0, <3>1, <4>1, EditTypes
  <2> QED
    BY <1>19, <2>1 DEF ReplaceInTab, Takes
<1>20. ASSUME NEW e \in Edits, DomDocumentUpdated(e)
       PROVE  <1>1!1
  <2>1. MarkSecondaryCachesAsOld([res EXCEPT !.dom = @ \cup {e}]) \in CachesOf(s)
    <3>1. e \in s
      BY <1>20 DEF DomDocumentUpdated
    <3> HIDE DEF s
    <3>2. [res EXCEPT !.dom = @ \cup {e}] \in CachesOf(s)
      BY <1>0, <3>1, EditTypes
    <3> QED
      BY <3>2, ConversionTypes
  <2> QED
    BY <1>20, <2>1 DEF DomDocumentUpdated
<1>21. ASSUME NEW e \in Edits, NEW links \in SUBSET Edits, SplitChapter(e, links)
       PROVE  <1>1!1
  <2> DEFINE edited == IF lastBook THEN EditBook(e) ELSE EditCode(e, TRUE)
  <2>0. e \in s /\ links \in SUBSET s
    BY <1>21 DEF SplitChapter
  <2>1. edited \in CachesOf(s)
    <3> HIDE DEF s
    <3> QED
      BY <1>0, <2>0, EditTypes
  <2>2. SaveTabContent(edited, lastBook) \in CachesOf(s)
    BY <2>1, TabTypes
  <2>3. res' \in CachesOf(s)
    <3>1. res' = UpdateAnchors(SaveTabContent(edited, lastBook), links)
      BY <1>21 DEF SplitChapter
    <3> HIDE DEF s
    <3> QED
      BY <1>0, <2>0, <2>2, <3>1, EditTypes
  <2>4. taken' \subseteq Detours
    BY <1>21 DEF SplitChapter, Takes
  <2> QED
    BY <1>21, <2>3, <2>4 DEF SplitChapter
<1>22. ASSUME NEW e \in Edits, NEW links \in SUBSET Edits, SplitOnSGFChapterMarkers(e, links)
       PROVE  <1>1!1
  <2> DEFINE saved == SaveTabContent(res, lastBook)
             changed == [saved EXCEPT !.dom = @ \cup {e}]
             first == MarkSecondaryCachesAsOld(changed)
  <2>0. e \in s /\ links \in SUBSET s
    BY <1>22 DEF SplitOnSGFChapterMarkers
  <2>1. saved \in CachesOf(s)
    BY <1>0, TabTypes
  <2>2. changed \in CachesOf(s)
    <3> HIDE DEF s, saved
    <3> QED
      BY <1>0, <2>0, <2>1, EditTypes
  <2>3. first \in CachesOf(s)
    BY <2>2, ConversionTypes
  <2>4. UpdateAnchors(first, links) \in CachesOf(s)
    <3> HIDE DEF s, first
    <3> QED
      BY <1>0, <2>0, <2>3, EditTypes
  <2>5. res' = LoadTabContent(UpdateAnchors(first, links), lastBook)
    BY <1>22 DEF SplitOnSGFChapterMarkers
  <2>6. res' \in CachesOf(s)
    BY <2>4, <2>5, TabTypes
  <2>7. taken' \subseteq Detours
    BY <1>22 DEF SplitOnSGFChapterMarkers, Takes
  <2> QED
    BY <1>22, <2>6, <2>7 DEF SplitOnSGFChapterMarkers
<1> QED
  BY <1>3, <1>4, <1>5, <1>6, <1>7, <1>8, <1>9, <1>10, <1>11, <1>12, <1>13, <1>14, <1>15,
     <1>16, <1>17, <1>18, <1>19, <1>20, <1>21, <1>22, <1>23
  DEF Next

LEMMA InitTypes == Init => TypeInv /\ Made
<1> SUFFICES ASSUME Init PROVE TypeInv /\ Made
  OBVIOUS
<1>1. PICK refresh \in BOOLEAN :
          res = [dom |-> {}, web |-> {}, text |-> {}, oldSource |-> NoSource,
                 sourceIsWeb |-> FALSE, webModified |-> FALSE, textModified |-> FALSE,
                 webIsOld |-> TRUE, textIsOld |-> TRUE,
                 refreshNeeded |-> refresh, wellFormed |-> TRUE]
  BY DEF Init
<1> QED
  BY <1>1 DEF Init, TypeInv, Contents, Made, CachesOf

\* The three contents and the tab's state keep their types; in particular the
\* focus is always in a view or outside the tab, never left with a closed box.
THEOREM TypesHold == Spec => []TypeInv
<1> QED
  BY InitTypes, TypeStep, PTL DEF Spec

LEMMA CachesTyped ==
    ASSUME TypeInv
    PROVE  res \in Caches
BY DEF TypeInv, Caches, CachesOf, Contents

LEMMA MadeEdits ==
    ASSUME Made
    PROVE  /\ EditsOf(res).dom \subseteq made /\ EditsOf(res).web \subseteq made
           /\ EditsOf(res).text \subseteq made
           /\ EditsOf(res).oldSource # NoSource => EditsOf(res).oldSource \subseteq made
BY DEF Made, CachesOf, EditsOf

-----------------------------------------------------------------------------
(* The inductive invariant *)

\* The content of the view that is not the last, and of the last
OtherView == IF lastBook THEN EditsOf(res).text ELSE EditsOf(res).web
LastContent == IF lastBook THEN EditsOf(res).web ELSE EditsOf(res).text
LastModified == IF lastBook THEN res.webModified ELSE res.textModified
OtherIsOld == IF lastBook THEN res.textIsOld ELSE res.webIsOld

\* A closed tab leaves behind caches that are either marked old or complete;
\* only malformed source that was not saved may have more than the DOM.
ClosedTab ==
    /\ focus = "away"
    /\ ~res.webIsOld => EditsOf(res).dom \subseteq EditsOf(res).web
    /\ ~res.textIsOld => EditsOf(res).dom \subseteq EditsOf(res).text
    /\ EditsOf(res).web \subseteq EditsOf(res).dom
    /\ res.wellFormed => EditsOf(res).text \subseteq EditsOf(res).dom

\* The last view has what the DOM has while it is used, and is saved when it
\* is left; the other view has nothing that these two have not, unless it is
\* malformed source left behind by a tab that was closed.
OpenedTab ==
    /\ LastModified => focus # "away"
    /\ focus # "away" => EditsOf(res).dom \subseteq LastContent
    /\ ~(EditsOf(res).dom \subseteq LastContent) => res.webIsOld /\ res.textIsOld
    /\ ~OtherIsOld => EditsOf(res).dom \subseteq OtherView
    /\ (lastBook => res.wellFormed) => OtherView \subseteq EditsOf(res).dom \cup LastContent

\* A view that is not modified has nothing that the DOM has not; but malformed
\* source loses its modified flag when the user goes to the Book View and back.
Unmodified ==
    /\ ~res.webModified => EditsOf(res).web \subseteq EditsOf(res).dom
    /\ ~res.textModified =>
         \/ EditsOf(res).text \subseteq EditsOf(res).dom
         \/ ~res.wellFormed /\ (lastBook \/ EditsOf(res).web \subseteq EditsOf(res).dom)

\* The source that was exchanged last is still in both views, and a source that
\* is the page's own has what the page has: an update that compares equal may
\* be skipped.
Exchanged ==
    /\ EditsOf(res).oldSource # NoSource =>
         /\ EditsOf(res).oldSource \subseteq EditsOf(res).web
         /\ EditsOf(res).oldSource \subseteq EditsOf(res).text
         /\ focus = "away" \/ ~LastModified => EditsOf(res).oldSource \subseteq EditsOf(res).dom
    /\ res.sourceIsWeb => EditsOf(res).web \subseteq EditsOf(res).text
    /\ ~lastBook /\ split => res.sourceIsWeb

\* In a Split View the focus may be in the view that is not the last: both are
\* alike then, or the source is malformed and nothing is taken from the page.
FocusInOther ==
    focus \notin {"away", LastView} =>
        /\ split /\ (lastBook => res.wellFormed)
        /\ EditsOf(res).dom \subseteq EditsOf(res).text
        /\ res.wellFormed => /\ EditsOf(res).text = EditsOf(res).web
                             /\ res.webModified = res.textModified \/ ~LastModified

CopiesFollow ==
    /\ tab = "closed" => ClosedTab
    /\ tab = "open" => OpenedTab
    /\ Unmodified /\ Exchanged /\ FocusInOther

\* A tab is closed, and a book saved, with malformed source when another tab is
\* the current one.  Outside a Split View such source was typed after the last
\* exchange of the views and was stored, so a page that was loaded since
\* has it, and going to the Code View replaces the source by the page's.
MalformedIsStored ==
    ~res.wellFormed =>
        /\ EditsOf(res).oldSource # NoSource =>
             ~(EditsOf(res).text \subseteq EditsOf(res).oldSource)
        /\ ~split
        /\ ~res.textModified => EditsOf(res).text \subseteq EditsOf(res).dom
        /\ tab = "closed" \/ lastBook => ~res.textModified
        /\ tab = "open" /\ ~lastBook => res.textModified \/ res.webIsOld
        /\ lastBook \/ (tab = "closed" /\ ~res.webIsOld) =>
             ~res.sourceIsWeb /\ EditsOf(res).text \subseteq EditsOf(res).web

\* Without detours every edit is in the DOM or in the last view, and what is in
\* the last view only is marked as modified.
EditsAreHeld ==
    /\ tab = "closed" => made \subseteq EditsOf(res).dom
    /\ tab = "open" => made \subseteq EditsOf(res).dom \cup LastContent
    /\ ~res.textModified => EditsOf(res).text \subseteq EditsOf(res).dom

IInv ==
    /\ TypeInv /\ Made
    /\ taken \subseteq {"malformed"} => CopiesFollow
    /\ taken = {} => EditsAreHeld /\ MalformedIsStored

LEMMA MalformedStep ==
    ASSUME TypeInv, Made, MalformedIsStored, [Next]_vars,
           taken' \subseteq {"replace", "unfocused"},
           tab = "closed" => focus = "away",
           focus \notin {"away", LastView} => split
    PROVE  MalformedIsStored'
<1> USE DEF MalformedIsStored
<1>1. res \in Caches
  BY CachesTyped
<1>2. /\ lastBook \in BOOLEAN /\ split \in BOOLEAN
      /\ tab \in {"closed", "open"} /\ focus \in {"book", "code", "away"}
  BY DEF TypeInv
<1>3. /\ EditsOf(res).text # NoSource /\ EditsOf(res).web # NoSource
      /\ EditsOf(res).dom # NoSource
      /\ res.webModified \in BOOLEAN /\ res.textModified \in BOOLEAN
  BY <1>1, ContentTypes
<1>4. ASSUME NEW e \in Edits \ made
      PROVE  EditsOf(res).oldSource # NoSource => e \notin EditsOf(res).oldSource
  BY <1>4, MadeEdits
<1>5. ASSUME EditsSame(res, res'), UNCHANGED <<tab, lastBook, split>>
      PROVE  MalformedIsStored'
  BY <1>5 DEF EditsSame
<1>6. ASSUME Saves(res, res', lastBook), UNCHANGED <<lastBook, split>>,
             tab = "open", tab' = "open" \/ tab' = "closed"
      PROVE  MalformedIsStored'
  <2>1. CASE lastBook
    BY <1>3, <1>6, <2>1 DEF Saves, BookSaves
  <2>2. CASE ~lastBook
    BY <1>3, <1>6, <2>2 DEF Saves, CodeSaves
  <2> QED
    BY <2>1, <2>2
<1>7. ASSUME tab = "open", res' = LoadTabContent(res, lastBook),
             UNCHANGED <<tab, lastBook, split>>
      PROVE  MalformedIsStored'
  <2>1. CASE lastBook
    <3>1. BookLoads(res, res')
      BY <1>1, <1>7, <2>1, LoadedToBook
    <3> QED
      BY <1>7, <2>1, <3>1 DEF BookLoads
  <2>2. CASE ~lastBook
    <3>1. CodeLoads(res, res')
      BY <1>1, <1>2, <1>7, <2>2, LoadedToCode
    <3> QED
      BY <1>7, <2>2, <3>1 DEF CodeLoads
  <2> QED
    BY <2>1, <2>2
\* From the Book View malformed source is replaced by the page's.
<1>8. ASSUME NEW r \in Caches, NEW n, CodeEnters(r, n),
             ~r.wellFormed =>
               /\ EditsOf(r).text \subseteq EditsOf(r).web /\ ~r.sourceIsWeb
               /\ EditsOf(r).oldSource # NoSource =>
                    ~(EditsOf(r).text \subseteq EditsOf(r).oldSource)
      PROVE  n.wellFormed
  <2>1. EditsOf(r).web # NoSource
    BY ContentTypes
  <2> QED
    BY <1>8, <2>1 DEF CodeEnters
<1>9. CASE UNCHANGED vars
  BY <1>9 DEF vars
<1>10. CASE CloseTab \/ FocusLeaves
  <2>1. /\ tab = "open" /\ res' = SaveTabContent(res, lastBook)
        /\ tab' = "open" \/ tab' = "closed"
        /\ UNCHANGED <<lastBook, split>>
    BY <1>10 DEF CloseTab, FocusLeaves
  <2>2. Saves(res, res', lastBook)
    BY <1>1, <1>2, <2>1, SavedFromBook, SavedFromCode DEF Saves
  <2> QED
    BY <1>6, <2>1, <2>2
<1>11. ASSUME NEW view \in {"book", "code"}, FocusEnters(view)
       PROVE  MalformedIsStored'
  BY <1>7, <1>11 DEF FocusEnters
<1>12. ASSUME NEW reformats \in BOOLEAN, NEW book \in BOOLEAN, NEW focused \in BOOLEAN,
              OpenTab(book, focused, reformats)
       PROVE  MalformedIsStored'
  <2>1. PICK page : page = LoadTabContent(res, TRUE)
    OBVIOUS
  <2>2. PICK loaded : loaded = LoadTabContent(page, FALSE)
    OBVIOUS
  <2>3. page \in Caches /\ BookLoads(res, page)
    BY <1>1, <2>1, LoadedToBook
  <2>4. loaded \in Caches /\ CodeLoads(page, loaded)
    BY <2>2, <2>3, LoadedToCode
  <2>5. /\ tab = "closed" /\ tab' = "open" /\ lastBook' = book /\ split' = FALSE
        /\ res' = IF book THEN loaded ELSE UpdateTextDocumentFromWebPage(loaded, reformats)
    BY <1>12, <2>1, <2>2 DEF OpenTab, LoadTabContent
  <2>6. ~loaded.wellFormed =>
          /\ ~loaded.textModified /\ ~loaded.sourceIsWeb
          /\ EditsOf(loaded).text \subseteq EditsOf(loaded).dom
          /\ EditsOf(loaded).text \subseteq EditsOf(loaded).web
          /\ EditsOf(loaded).oldSource # NoSource =>
               ~(EditsOf(loaded).text \subseteq EditsOf(loaded).oldSource)
    <3> SUFFICES ASSUME ~loaded.wellFormed
                 PROVE  <2>6!2
      OBVIOUS
    <3>1. /\ EditsOf(loaded).text = EditsOf(page).text /\ ~page.wellFormed
          /\ loaded.textModified = page.textModified /\ EditsOf(loaded).dom = EditsOf(page).dom
          /\ EditsOf(loaded).web = EditsOf(page).web /\ loaded.sourceIsWeb = page.sourceIsWeb
          /\ EditsOf(loaded).oldSource = EditsOf(page).oldSource
      BY <2>4 DEF CodeLoads
    <3> QED
      BY <2>3, <2>5, <3>1 DEF BookLoads
  <2>7. CASE book
    BY <2>5, <2>6, <2>7
  <2>8. CASE ~book
    <3>1. CodeEnters(loaded, res')
      BY <2>4, <2>5, <2>8, CodeEntered
    <3> QED
      BY <1>8, <2>4, <2>6, <3>1
  <2> QED
    BY <2>7, <2>8
<1>13. ASSUME NEW reformats \in BOOLEAN,
              FocusSwitchesToBook(reformats) \/ FocusSwitchesToCode(reformats)
       PROVE  MalformedIsStored'
  <2>1. split /\ res.wellFormed
    BY <1>2, <1>13 DEF FocusSwitchesToBook, FocusSwitchesToCode
  <2>2. CASE FocusSwitchesToBook(reformats)
    <3>1. BookEnters(res, res')
      BY <1>1, <2>1, <2>2, BookEntered DEF FocusSwitchesToBook, IsDataWellFormed
    <3> QED
      BY <2>1, <3>1 DEF BookEnters
  <2>3. CASE FocusSwitchesToCode(reformats)
    <3>1. CodeEnters(res, res')
      BY <1>1, <2>3, CodeEntered DEF FocusSwitchesToCode
    <3> QED
      BY <2>1, <3>1 DEF CodeEnters
  <2> QED
    BY <1>13, <2>2, <2>3
<1>14. ASSUME NEW reformats \in BOOLEAN, BookView(reformats)
       PROVE  MalformedIsStored'
  <2>1. PICK n : n = IF lastBook THEN res ELSE UpdateWebPageFromTextDocument(res, reformats)
    OBVIOUS
  <2>2. /\ tab = "open" /\ tab' = "open" /\ lastBook' = TRUE /\ split' = FALSE
        /\ lastBook \/ res.wellFormed
        /\ res' = n \/ res' = SaveTabContent(n, TRUE)
    BY <1>14, <2>1 DEF BookView, IsDataWellFormed
  <2>3. n \in Caches /\ (lastBook => n = res) /\ (~lastBook => n.wellFormed)
    <3>1. CASE lastBook
      BY <1>1, <2>1, <3>1
    <3>2. CASE ~lastBook
      BY <1>1, <2>1, <2>2, <3>2, BookEntered DEF BookEnters
    <3> QED
      BY <3>1, <3>2
  <2>4. CASE res' = n
    BY <2>2, <2>3, <2>4
  <2>5. CASE res' = SaveTabContent(n, TRUE)
    <3>1. BookSaves(n, res')
      BY <2>3, <2>5, SavedFromBook
    <3> QED
      BY <2>2, <2>3, <3>1 DEF BookSaves
  <2> QED
    BY <2>2, <2>4, <2>5
<1>15. ASSUME NEW reformats \in BOOLEAN, CodeView(reformats)
       PROVE  MalformedIsStored'
  <2>1. PICK n : n = IF lastBook THEN UpdateTextDocumentFromWebPage(res, reformats) ELSE res
    OBVIOUS
  <2>2. /\ tab = "open" /\ tab' = "open" /\ lastBook' = FALSE /\ split' = FALSE
        /\ \/ focus # "book" /\ res' = n
           \/ focus = "book" /\ split /\ res' = n
           \/ focus = "book" /\ res' = SaveTabContent(n, FALSE)
    BY <1>15, <2>1 DEF CodeView
  <2>3. CASE lastBook
    <3>1. n \in Caches /\ CodeEnters(res, n)
      BY <1>1, <2>1, <2>3, CodeEntered
    <3>2. n.wellFormed
      BY <1>1, <1>8, <2>3, <3>1
    <3>3. CASE res' = n
      BY <3>2, <3>3
    <3>4. CASE res' = SaveTabContent(n, FALSE)
      <4>1. CodeSaves(n, res')
        BY <3>1, <3>4, SavedFromCode
      <4> QED
        BY <3>2, <4>1 DEF CodeSaves
    <3> QED
      BY <2>2, <3>3, <3>4
  <2>4. CASE ~lastBook
    <3>1. CASE res' = n
      BY <2>1, <2>2, <2>4, <3>1
    <3>2. CASE focus = "book" /\ res' = SaveTabContent(n, FALSE)
      <4>1. CodeSaves(res, res')
        BY <1>1, <2>1, <2>4, <3>2, SavedFromCode
      <4>2. res.wellFormed
        BY <1>2, <2>4, <3>2 DEF LastView
      <4> QED
        BY <4>1, <4>2 DEF CodeSaves
    <3> QED
      BY <2>2, <3>1, <3>2
  <2> QED
    BY <1>2, <2>3, <2>4
<1>16. ASSUME NEW reformats \in BOOLEAN, SplitView(reformats)
       PROVE  MalformedIsStored'
  <2>1. CASE lastBook
    <3>1. CodeEnters(res, res')
      BY <1>1, <1>16, <2>1, CodeEntered DEF SplitView
    <3>2. res'.wellFormed
      BY <1>1, <1>8, <2>1, <3>1
    <3> QED
      BY <3>2
  <2>2. CASE ~lastBook
    <3>1. BookEnters(res, res') /\ res.wellFormed
      BY <1>1, <1>16, <2>2, BookEntered DEF SplitView, IsDataWellFormed
    <3> QED
      BY <3>1 DEF BookEnters
  <2> QED
    BY <1>2, <2>1, <2>2
<1>17. ASSUME NEW reformats \in BOOLEAN, NEW fix \in BOOLEAN, DemandAttention(reformats, fix)
       PROVE  MalformedIsStored'
  <2>1. tab = "open" /\ ~lastBook /\ ~res.wellFormed /\ ~split
    BY <1>17 DEF DemandAttention, IsDataWellFormed
  <2>2. PICK entered : entered = IF focus = "away" THEN LoadTabContent(res, FALSE) ELSE res
    OBVIOUS
  <2>3. PICK saved : saved = SaveTabContent(entered, FALSE)
    OBVIOUS
  <2>4. PICK fixed : fixed = IF fix THEN AutoFixWellFormedErrors(saved) ELSE saved
    OBVIOUS
  <2>5. res' = LoadTabContent(fixed, FALSE) /\ UNCHANGED <<tab, lastBook, split>>
    BY <1>17, <2>1, <2>2, <2>3, <2>4 DEF DemandAttention
  <2>6. /\ entered \in Caches /\ EditsOf(entered).oldSource = EditsOf(res).oldSource
        /\ entered.webIsOld = res.webIsOld
        /\ ~entered.wellFormed =>
             /\ EditsOf(entered).text = EditsOf(res).text
             /\ EditsOf(entered).dom = EditsOf(res).dom
             /\ entered.textModified = res.textModified
    <3>1. CASE focus = "away"
      BY <1>1, <2>2, <3>1, LoadedToCode DEF CodeLoads
    <3>2. CASE focus # "away"
      BY <1>1, <2>2, <3>2
    <3> QED
      BY <3>1, <3>2
  <2>7. saved \in Caches /\ CodeSaves(entered, saved)
    BY <2>3, <2>6, SavedFromCode
  <2>8. ~saved.wellFormed =>
          /\ saved.webIsOld /\ EditsOf(saved).text \subseteq EditsOf(saved).dom
          /\ EditsOf(saved).oldSource # NoSource =>
               ~(EditsOf(saved).text \subseteq EditsOf(saved).oldSource)
    BY <2>1, <2>6, <2>7 DEF CodeSaves
  <2>9. fixed \in Caches /\ (~fixed.wellFormed => fixed = saved)
    BY <2>4, <2>7 DEF AutoFixWellFormedErrors, Caches, CachesOf
  <2>10. CodeLoads(fixed, res')
    BY <2>5, <2>9, LoadedToCode
  <2> QED
    BY <2>1, <2>5, <2>8, <2>9, <2>10 DEF CodeLoads
<1>18. CASE LinkedResourceUpdated
  BY <1>1, <1>5, <1>18, RefreshAsked DEF LinkedResourceUpdated
<1>19. CASE SaveTabData
  <2>1. Saves(res, res', lastBook)
    BY <1>1, <1>2, <1>19, SavedFromBook, SavedFromCode DEF SaveTabData, Saves
  <2> QED
    BY <1>6, <1>19, <2>1 DEF SaveTabData
<1>20. ASSUME NEW ids \in SUBSET HeadingIds, NEW reformats \in BOOLEAN,
              SaveFile(ids, reformats)
       PROVE  MalformedIsStored'
  <2>1. UNCHANGED <<tab, lastBook, split>>
    BY <1>20 DEF SaveFile
  <2>2. CASE tab = "closed"
    BY <1>1, <1>5, <1>20, <2>1, <2>2, IdsGiven DEF SaveFile
  <2>3. CASE tab = "open"
    <3>1. PICK n : n = GiveIDsToHeadings(SaveTabContent(res, lastBook), ids)
      OBVIOUS
    <3>2. n \in Caches /\ Saves(res, n, lastBook)
      BY <1>1, <1>2, <3>1, SavedWithIds
    <3>3. \/ res' = n
          \/ IsDataWellFormed /\ res' = FocusReturns(n, reformats)
      BY <1>20, <2>3, <3>1 DEF SaveFile
    <3>4. CASE res' = n
      BY <1>6, <2>1, <2>3, <3>2, <3>4
    <3>5. CASE IsDataWellFormed /\ res' = FocusReturns(n, reformats) /\ res' # n
      <4>1. CASE res.wellFormed
        <5>1. n.wellFormed
          BY <3>2, <4>1 DEF Saves, BookSaves, CodeSaves
        <5>2. res'.wellFormed
          <6>1. CASE lastBook
            <7>1. BookLoads(n, res') \/ BookEnters(n, res')
              BY <3>2, <3>5, <6>1, LoadedToBook, BookEntered DEF FocusReturns
            <7> QED
              BY <5>1, <7>1 DEF BookLoads, BookEnters
          <6>2. CASE ~lastBook
            <7>1. CodeLoads(n, res') \/ CodeEnters(n, res')
              BY <1>2, <3>2, <3>5, <6>2, LoadedToCode, CodeEntered DEF FocusReturns
            <7> QED
              BY <5>1, <7>1 DEF CodeLoads, CodeEnters
          <6> QED
            BY <6>1, <6>2
        <5> QED
          BY <5>2
      <4>2. CASE ~res.wellFormed
        <5>1. lastBook /\ focus = "away" /\ res' = LoadTabContent(n, TRUE)
          BY <1>2, <3>5, <4>2 DEF FocusReturns, IsDataWellFormed
        <5>2. BookLoads(n, res') /\ BookSaves(res, n)
          BY <3>2, <5>1, LoadedToBook DEF Saves
        <5>3. /\ EditsOf(res').text = EditsOf(res).text /\ EditsOf(res').dom = EditsOf(n).dom
              /\ EditsOf(res).text \subseteq EditsOf(n).dom
              /\ ~res'.textModified /\ ~res'.sourceIsWeb
              /\ EditsOf(res').oldSource = EditsOf(res).oldSource
              /\ EditsOf(res).text \subseteq EditsOf(res').web
          BY <4>2, <5>1, <5>2 DEF BookLoads, BookSaves
        <5> QED
          BY <2>1, <2>3, <4>2, <5>1, <5>3
      <4> QED
        BY <4>1, <4>2
    <3> QED
      BY <3>3, <3>4, <3>5
  <2> QED
    BY <1>2, <2>2, <2>3
<1>21. CASE SwitchTab
  <2>1. /\ tab = "open" /\ UNCHANGED <<tab, lastBook, split>>
        /\ res' = LoadTabContent(res, lastBook) \/ res' = SaveTabContent(res, lastBook)
    BY <1>21 DEF SwitchTab
  <2>2. CASE res' = LoadTabContent(res, lastBook)
    BY <1>7, <2>1, <2>2
  <2>3. CASE res' = SaveTabContent(res, lastBook)
    <3>1. Saves(res, res', lastBook)
      BY <1>1, <1>2, <2>3, SavedFromBook, SavedFromCode DEF Saves
    <3> QED
      BY <1>6, <2>1, <3>1
  <2> QED
    BY <2>1, <2>2, <2>3
<1>22. ASSUME NEW e \in Edits \ made, lastBook, res' = EditBook(e),
              UNCHANGED <<tab, lastBook, split>>
       PROVE  MalformedIsStored'
  <2>1. BookEdited(res, res', e)
    BY <1>1, <1>22, EditedInBook
  <2> QED
    BY <1>22, <2>1 DEF BookEdited
<1>23. ASSUME NEW e \in Edits \ made, NEW wf \in BOOLEAN, ~lastBook, tab = "open",
              split => wf \/ ~res.wellFormed, res' = EditCode(e, wf),
              UNCHANGED <<tab, lastBook, split>>
       PROVE  MalformedIsStored'
  <2>1. CodeEdited(res, res', e, wf)
    BY <1>1, <1>23, EditedInCode
  <2>2. EditsOf(res).oldSource # NoSource => e \notin EditsOf(res).oldSource
    BY <1>4
  <2> QED
    BY <1>23, <2>1, <2>2 DEF CodeEdited
<1>24. ASSUME NEW e \in Edits \ made, TypeInBookView(e)
       PROVE  MalformedIsStored'
  BY <1>22, <1>24 DEF TypeInBookView, Takes
<1>25. ASSUME NEW e \in Edits \ made, NEW wf \in BOOLEAN, TypeInCodeView(e, wf)
       PROVE  MalformedIsStored'
  <2>1. /\ ~lastBook /\ tab = "open" /\ (split => wf) /\ res' = EditCode(e, wf)
        /\ UNCHANGED <<tab, lastBook, split>>
    BY <1>2, <1>25 DEF TypeInCodeView, Takes
  <2> QED
    BY <1>23, <2>1
<1>26. ASSUME NEW e \in Edits \ made, ReplaceInTab(e)
       PROVE  MalformedIsStored'
  <2>1. /\ tab = "open" /\ UNCHANGED <<tab, lastBook, split>>
        /\ res' = IF lastBook THEN EditBook(e) ELSE EditCode(e, res.wellFormed)
    BY <1>26 DEF ReplaceInTab
  <2>2. res.wellFormed \in BOOLEAN
    BY <1>1 DEF Caches, CachesOf
  <2>3. CASE lastBook
    BY <1>22, <2>1, <2>3
  <2>4. CASE ~lastBook
    BY <1>23, <2>1, <2>2, <2>4
  <2> QED
    BY <1>2, <2>3, <2>4
<1>27. ASSUME NEW e \in Edits \ made, DomDocumentUpdated(e)
       PROVE  MalformedIsStored'
  <2>1. DomEdited(res, res', {e}) /\ UNCHANGED <<tab, lastBook, split>>
    BY <1>1, <1>27, EditedInDom DEF DomDocumentUpdated
  <2> QED
    BY <2>1 DEF DomEdited
<1>28. ASSUME NEW e \in Edits \ made, NEW links \in SUBSET (Edits \ (made \cup {e}))
       PROVE  ~SplitChapter(e, links)
  <2>1. SplitChapter(e, links) => Takes({"splitchapter"} \cup OutsideLastView)
    BY DEF SplitChapter
  <2> QED
    BY <2>1 DEF Takes
<1>29. ASSUME NEW e \in Edits \ made, NEW links \in SUBSET (Edits \ (made \cup {e})),
              SplitOnSGFChapterMarkers(e, links)
       PROVE  MalformedIsStored'
  <2>1. PICK saved : saved = SaveTabContent(res, lastBook)
    OBVIOUS
  <2>2. PICK first : first = MarkSecondaryCachesAsOld([saved EXCEPT !.dom = @ \cup {e}])
    OBVIOUS
  <2>3. PICK linked : linked = UpdateAnchors(first, links)
    OBVIOUS
  <2>4. /\ tab = "open" /\ (lastBook \/ res.wellFormed)
        /\ res' = LoadTabContent(linked, lastBook) /\ UNCHANGED <<tab, lastBook, split>>
    BY <1>29, <2>1, <2>2, <2>3 DEF SplitOnSGFChapterMarkers, IsDataWellFormed
  <2>5. saved \in Caches /\ Saves(res, saved, lastBook)
    BY <1>1, <1>2, <2>1, SavedFromBook, SavedFromCode DEF Saves
  <2>6. first \in Caches /\ DomEdited(saved, first, {e})
    BY <2>2, <2>5, EditedInDom
  <2>7. linked \in Caches /\ (DomEdited(first, linked, links) \/ linked = first)
    BY <2>3, <2>6, AnchorsUpdated
  <2>8. CASE lastBook
    <3>1. BookLoads(linked, res') /\ BookSaves(res, saved)
      BY <2>4, <2>5, <2>7, <2>8, LoadedToBook DEF Saves
    <3>2. /\ EditsOf(linked).text = EditsOf(res).text
          /\ linked.wellFormed = res.wellFormed /\ linked.textModified = res.textModified
          /\ EditsOf(linked).oldSource = EditsOf(res).oldSource
          /\ EditsOf(saved).dom \subseteq EditsOf(linked).dom /\ linked.webIsOld
      BY <2>6, <2>7, <3>1 DEF DomEdited, BookSaves
    <3>3. ~res.wellFormed => EditsOf(res).text \subseteq EditsOf(saved).dom
      BY <2>8, <3>1 DEF BookSaves
    <3> QED
      BY <2>4, <2>8, <3>1, <3>2, <3>3 DEF BookLoads
  <2>9. CASE ~lastBook
    <3>1. CodeLoads(linked, res') /\ CodeSaves(res, saved)
      BY <1>2, <2>4, <2>5, <2>7, <2>9, LoadedToCode DEF Saves
    <3>2. res'.wellFormed
      BY <2>4, <2>6, <2>7, <2>9, <3>1 DEF DomEdited, CodeLoads, CodeSaves
    <3> QED
      BY <3>2
  <2> QED
    BY <1>2, <2>8, <2>9
<1> QED
  BY <1>9, <1>10, <1>11, <1>12, <1>13, <1>14, <1>15, <1>16, <1>17, <1>18, <1>19, <1>20, <1>21,
     <1>24, <1>25, <1>26, <1>27, <1>28, <1>29
  DEF Next

\* What a step has to do: the DOM keeps what it has, and the invariants hold.
Kept ==
    /\ CopiesFollow'
    /\ EditsOf(res).dom \subseteq EditsOf(res').dom
    /\ taken' = {} /\ EditsAreHeld /\ MalformedIsStored => EditsAreHeld'

\* From the Book View the source n becomes the page's, or it has the page already.
EnteredFromBook(n) ==
    /\ EditsOf(n).dom = EditsOf(res).dom /\ EditsOf(n).web = EditsOf(res).web
    /\ EditsOf(res).web \subseteq EditsOf(n).text /\ n.sourceIsWeb
    /\ n.webIsOld = res.webIsOld /\ n.textIsOld = res.textIsOld
    /\ n.webModified = res.webModified /\ n.textModified = res.webModified
    /\ n.wellFormed => EditsOf(n).text \subseteq EditsOf(res).dom \cup EditsOf(res).web
    /\ EditsOf(n).oldSource # NoSource =>
         /\ EditsOf(n).oldSource \subseteq EditsOf(res).web
         /\ ~res.webModified => EditsOf(n).oldSource \subseteq EditsOf(res).dom
    /\ MalformedIsStored => n.wellFormed \/ EditsOf(n).text \subseteq EditsOf(res).dom
    /\ res.wellFormed => n.wellFormed
    /\ ~res.webModified => EditsOf(res).web \subseteq EditsOf(res).dom
    /\ focus = "away" => ~res.webModified
    /\ focus # "away" => EditsOf(res).dom \subseteq EditsOf(res).web
    /\ EditsOf(res).dom \subseteq EditsOf(res).web \/ (res.webIsOld /\ res.textIsOld)
    /\ focus = "code" => res.wellFormed
    /\ EditsAreHeld => made \subseteq EditsOf(res).dom \cup EditsOf(res).web

LEMMA CopiesStep ==
    ASSUME TypeInv, CopiesFollow, [Next]_vars,
           taken \subseteq taken', taken' \subseteq {"malformed"}
    PROVE  Kept
<1> USE DEF Kept, CopiesFollow, ClosedTab, OpenedTab, Unmodified, Exchanged, FocusInOther,
            EditsAreHeld, OtherView, LastContent, LastModified, OtherIsOld, LastView
<1>1. res \in Caches
  BY CachesTyped
<1>2. /\ lastBook \in BOOLEAN /\ split \in BOOLEAN
      /\ tab \in {"closed", "open"} /\ focus \in {"book", "code", "away"}
  BY DEF TypeInv
<1>3. /\ EditsOf(res).text # NoSource /\ EditsOf(res).web # NoSource
      /\ res.webModified \in BOOLEAN /\ res.textModified \in BOOLEAN
  BY <1>1, ContentTypes
<1>4. CASE UNCHANGED vars
  BY <1>4 DEF vars
<1>5. CASE CloseTab \/ FocusLeaves
  <2>0. /\ tab = "open" /\ res' = SaveTabContent(res, lastBook) /\ focus' = "away"
        /\ \/ tab' = "open" /\ focus # "away"
           \/ tab' = "closed" /\ (lastBook \/ res.wellFormed \/ focus = "away")
        /\ UNCHANGED <<lastBook, split, made, taken>>
    BY <1>5 DEF CloseTab, FocusLeaves, CurrentTabIsWellFormed, IsDataWellFormed
  <2>1. CASE lastBook
    <3>1. BookSaves(res, res')
      BY <1>1, <2>0, <2>1, SavedFromBook
    <3>2. CASE res.webModified
      BY <1>2, <1>3, <2>0, <2>1, <3>1, <3>2 DEF BookSaves
    <3>3. CASE ~res.webModified
      BY <1>2, <1>3, <2>0, <2>1, <3>1, <3>3 DEF BookSaves
    <3> QED
      BY <3>2, <3>3
  <2>2. CASE ~lastBook
    <3>1. CodeSaves(res, res')
      BY <1>1, <1>2, <2>0, <2>2, SavedFromCode
    <3>2. CASE res.textModified
      BY <1>2, <1>3, <2>0, <2>2, <3>1, <3>2 DEF CodeSaves
    <3>3. CASE ~res.textModified
      BY <1>2, <1>3, <2>0, <2>2, <3>1, <3>3 DEF CodeSaves
    <3> QED
      BY <3>2, <3>3
  <2> QED
    BY <1>2, <2>1, <2>2
<1>8. ASSUME NEW view \in {"book", "code"}, FocusEnters(view)
      PROVE  Kept
  <2>1. /\ tab = "open" /\ focus = "away" /\ view = LastView
        /\ res' = LoadTabContent(res, lastBook) /\ focus' = view
        /\ UNCHANGED <<tab, lastBook, split, made>>
    BY <1>8 DEF FocusEnters, Takes
  <2>2. CASE lastBook
    <3>1. BookLoads(res, res')
      BY <1>1, <2>1, <2>2, LoadedToBook
    <3> QED
      BY <1>2, <1>3, <2>1, <2>2, <3>1 DEF BookLoads
  <2>3. CASE ~lastBook
    <3>1. CodeLoads(res, res')
      BY <1>1, <1>2, <2>1, <2>3, LoadedToCode
    <3> QED
      BY <1>2, <1>3, <2>1, <2>3, <3>1 DEF CodeLoads
  <2> QED
    BY <1>2, <2>2, <2>3
<1>6. ASSUME lastBook, tab = "open", NEW n, CodeEnters(res, n)
      PROVE  EnteredFromBook(n)
  <2> USE DEF EnteredFromBook
  <2>1. CASE /\ EditsOf(n).text = EditsOf(res).web
             /\ EditsOf(n).oldSource = EditsOf(res).web /\ n.wellFormed
    BY <1>2, <1>3, <1>6, <2>1 DEF CodeEnters
  <2>2. CASE /\ EditsOf(n).text = EditsOf(res).text
             /\ EditsOf(n).oldSource = EditsOf(res).oldSource /\ n.wellFormed = res.wellFormed
             /\ res.sourceIsWeb \/ EditsOf(res).oldSource = EditsOf(res).web
    BY <1>2, <1>3, <1>6, <2>2 DEF CodeEnters, MalformedIsStored
  <2> QED
    BY <1>6, <2>1, <2>2 DEF CodeEnters
<1>9. ASSUME NEW reformats \in BOOLEAN, NEW book \in BOOLEAN, NEW focused \in BOOLEAN,
             OpenTab(book, focused, reformats)
      PROVE  Kept
  <2>1. PICK page : page = LoadTabContent(res, TRUE)
    OBVIOUS
  <2>2. PICK loaded : loaded = LoadTabContent(page, FALSE)
    OBVIOUS
  <2>3. tab = "closed" /\ focused
    BY <1>9 DEF OpenTab, Takes
  <2>4. page \in Caches /\ BookLoads(res, page)
    BY <1>1, <2>1, LoadedToBook
  <2>5. loaded \in Caches /\ CodeLoads(page, loaded)
    BY <2>2, <2>4, LoadedToCode
  <2>6. /\ EditsOf(loaded).dom = EditsOf(res).dom /\ EditsOf(loaded).web = EditsOf(res).dom
        /\ EditsOf(res).dom \subseteq EditsOf(loaded).text
        /\ loaded.wellFormed => EditsOf(loaded).text = EditsOf(res).dom
        /\ EditsOf(loaded).oldSource = EditsOf(res).oldSource
        /\ EditsOf(res).oldSource # NoSource =>
             EditsOf(res).oldSource \subseteq EditsOf(res).dom
        /\ MalformedIsStored => EditsOf(loaded).text = EditsOf(res).dom
    <3>1. EditsOf(res).web \subseteq EditsOf(res).dom
      BY <2>3
    <3>2. /\ EditsOf(page).dom = EditsOf(res).dom /\ EditsOf(page).web = EditsOf(res).dom
          /\ EditsOf(page).text = EditsOf(res).text /\ page.textIsOld = res.textIsOld
          /\ page.wellFormed = res.wellFormed
          /\ EditsOf(page).oldSource = EditsOf(res).oldSource
      BY <2>3, <2>4, <3>1 DEF BookLoads
    <3>3. MalformedIsStored => EditsOf(res).text \subseteq EditsOf(res).dom
      BY <2>3 DEF MalformedIsStored
    <3> QED
      BY <2>3, <2>5, <3>2, <3>3 DEF CodeLoads
  <2>7. /\ res' = IF book THEN loaded ELSE UpdateTextDocumentFromWebPage(loaded, reformats)
        /\ focus' = IF book THEN "book" ELSE "code"
        /\ tab' = "open" /\ lastBook' = book /\ split' = FALSE /\ made' = made
    BY <1>9, <2>1, <2>2, <2>3 DEF OpenTab, LoadTabContent
  <2>8. CASE book
    BY <2>3, <2>6, <2>7, <2>8
  <2>9. CASE ~book
    <3>1. CodeEnters(loaded, res')
      BY <2>5, <2>7, <2>9, CodeEntered
    <3>2. /\ EditsOf(res').dom = EditsOf(res).dom /\ EditsOf(res').web = EditsOf(res).dom
          /\ EditsOf(res).dom \subseteq EditsOf(res').text
          /\ res'.wellFormed => EditsOf(res').text = EditsOf(res).dom
          /\ res'.sourceIsWeb
          /\ \/ EditsOf(res').oldSource = EditsOf(res).dom
             \/ EditsOf(res').oldSource = EditsOf(res).oldSource
          /\ MalformedIsStored => EditsOf(res').text = EditsOf(res).dom
      BY <2>6, <3>1 DEF CodeEnters
    <3>3. CopiesFollow'
      BY <2>6, <2>7, <2>9, <3>2
    <3> QED
      BY <2>3, <2>7, <2>9, <3>2, <3>3
  <2> QED
    BY <2>8, <2>9
<1>10. ASSUME NEW reformats \in BOOLEAN, FocusSwitchesToBook(reformats)
       PROVE  Kept
  <2>1. CASE IsDataWellFormed
    <3>1. /\ res' = UpdateWebPageFromTextDocument(res, reformats) /\ lastBook' = TRUE
          /\ focus = "code" /\ focus' = "book" /\ tab = "open" /\ split
          /\ UNCHANGED <<tab, split, made, taken>>
      BY <1>10, <2>1 DEF FocusSwitchesToBook
    <3>2. BookEnters(res, res')
      BY <1>1, <3>1, BookEntered
    <3> QED
      BY <1>2, <1>3, <2>1, <3>1, <3>2 DEF IsDataWellFormed, BookEnters
  <2>2. CASE ~IsDataWellFormed
    BY <1>2, <1>10, <2>2 DEF FocusSwitchesToBook, IsDataWellFormed
  <2> QED
    BY <2>1, <2>2
<1>11. ASSUME NEW reformats \in BOOLEAN, FocusSwitchesToCode(reformats)
       PROVE  Kept
  <2>1. /\ res' = UpdateTextDocumentFromWebPage(res, reformats) /\ lastBook' = FALSE
        /\ focus = "book" /\ focus' = "code" /\ tab = "open" /\ split
        /\ UNCHANGED <<tab, split, made, taken>>
    BY <1>11 DEF FocusSwitchesToCode
  <2>2. CodeEnters(res, res')
    BY <1>1, <2>1, CodeEntered
  <2>3. CASE lastBook
    BY <1>2, <1>3, <2>1, <2>2, <2>3 DEF CodeEnters
  <2>4. CASE ~lastBook
    <3>1. CASE res.wellFormed
      BY <1>2, <1>3, <2>1, <2>2, <2>4, <3>1 DEF CodeEnters
    <3>2. CASE ~res.wellFormed
      BY <1>2, <1>3, <2>1, <2>2, <2>4, <3>2 DEF CodeEnters, MalformedIsStored
    <3> QED
      BY <3>1, <3>2
  <2> QED
    BY <1>2, <2>3, <2>4
<1>12. ASSUME NEW reformats \in BOOLEAN, BookView(reformats)
       PROVE  Kept
  <2>1. PICK n : n = IF lastBook THEN res ELSE UpdateWebPageFromTextDocument(res, reformats)
    OBVIOUS
  <2>2. /\ tab = "open" /\ tab' = "open" /\ lastBook' = TRUE /\ split' = FALSE
        /\ made' = made /\ taken' = taken /\ (lastBook \/ res.wellFormed)
        /\ \/ focus' = (IF focus = "code" THEN "book" ELSE focus) /\ res' = n
           \/ focus = "code" /\ focus' = "away" /\ res' = SaveTabContent(n, TRUE)
    BY <1>12, <2>1 DEF BookView, IsDataWellFormed
  <2>3. CASE lastBook
    <3>1. n = res /\ n \in Caches
      BY <1>1, <2>1, <2>3
    <3>2. CASE focus' = (IF focus = "code" THEN "book" ELSE focus) /\ res' = n
      BY <1>2, <1>3, <2>2, <2>3, <3>1, <3>2
    <3>3. CASE focus = "code" /\ focus' = "away" /\ res' = SaveTabContent(n, TRUE)
      <4>1. BookSaves(res, res')
        BY <3>1, <3>3, SavedFromBook
      <4> QED
        BY <1>2, <1>3, <2>2, <2>3, <3>3, <4>1 DEF BookSaves
    <3> QED
      BY <2>2, <3>2, <3>3
  <2>4. CASE ~lastBook
    <3>1. n \in Caches /\ BookEnters(res, n)
      BY <1>1, <2>1, <2>4, BookEntered
    <3>2. CASE focus' = (IF focus = "code" THEN "book" ELSE focus) /\ res' = n
      BY <1>2, <1>3, <2>2, <2>4, <3>1, <3>2 DEF BookEnters
    <3>3. CASE focus = "code" /\ focus' = "away" /\ res' = SaveTabContent(n, TRUE)
      <4>1. BookSaves(n, res')
        BY <3>1, <3>3, SavedFromBook
      <4>2. EditsOf(n).web = EditsOf(res).text
        BY <1>2, <1>3, <2>2, <2>4, <3>1, <3>3 DEF BookEnters
      <4>3. /\ EditsOf(res').web = EditsOf(res).text
            /\ EditsOf(res').text = EditsOf(res).text /\ res'.wellFormed
            /\ ~res'.webModified /\ res'.textModified = res.textModified
            /\ res'.webIsOld = res.webIsOld
            /\ res'.sourceIsWeb => EditsOf(res').web \subseteq EditsOf(res').text
            /\ \/ EditsOf(res').oldSource = EditsOf(res).text
               \/ EditsOf(res').oldSource = EditsOf(res).oldSource
        BY <1>2, <2>2, <2>4, <3>1, <4>1, <4>2 DEF BookEnters, BookSaves
      <4>4. CASE res.textModified
        <5>1. EditsOf(res').dom = EditsOf(res).text /\ res'.textIsOld
          BY <3>1, <4>1, <4>2, <4>4 DEF BookEnters, BookSaves
        <5>2. CopiesFollow'
          BY <1>2, <1>3, <2>2, <2>4, <3>3, <4>3, <4>4, <5>1
        <5> QED
          BY <1>2, <2>2, <2>4, <3>3, <4>3, <4>4, <5>1, <5>2
      <4>5. CASE ~res.textModified
        <5>1. EditsOf(res').dom = EditsOf(res).dom /\ res'.textIsOld = res.textIsOld
          BY <3>1, <4>1, <4>5 DEF BookEnters, BookSaves
        <5>2. CopiesFollow'
          BY <1>2, <1>3, <2>2, <2>4, <3>3, <4>3, <4>5, <5>1
        <5> QED
          BY <1>2, <2>2, <2>4, <3>3, <4>3, <4>5, <5>1, <5>2
      <4> QED
        BY <4>4, <4>5
    <3> QED
      BY <2>2, <3>2, <3>3
  <2> QED
    BY <1>2, <2>3, <2>4
<1>13. ASSUME NEW reformats \in BOOLEAN, CodeView(reformats)
       PROVE  Kept
  <2>1. PICK n : n = IF lastBook THEN UpdateTextDocumentFromWebPage(res, reformats) ELSE res
    OBVIOUS
  <2>2. /\ tab = "open" /\ tab' = "open" /\ lastBook' = FALSE /\ split' = FALSE
        /\ made' = made /\ taken' = taken
        /\ \/ focus # "book" /\ focus' = focus /\ res' = n
           \/ focus = "book" /\ split /\ focus' = "code" /\ res' = n
           \/ focus = "book" /\ focus' = "away" /\ res' = SaveTabContent(n, FALSE)
    BY <1>13, <2>1 DEF CodeView
  <2>3. CASE lastBook
    <3>1. n \in Caches /\ CodeEnters(res, n)
      BY <1>1, <2>1, <2>3, CodeEntered
    <3>2. CASE focus # "book" /\ focus' = focus /\ res' = n
      BY <1>2, <1>6, <2>2, <2>3, <3>1, <3>2 DEF EnteredFromBook
    <3>3. CASE focus = "book" /\ focus' = "code" /\ res' = n
      BY <1>6, <2>2, <2>3, <3>1, <3>3 DEF EnteredFromBook
    <3>4. CASE focus = "book" /\ focus' = "away" /\ res' = SaveTabContent(n, FALSE)
      <4>1. CodeSaves(n, res')
        BY <3>1, <3>4, SavedFromCode
      <4>2. EnteredFromBook(n)
        BY <1>6, <2>2, <2>3, <3>1
      <4>4. CASE res.webModified
        <5>1. CopiesFollow'
          BY <2>2, <3>4, <4>1, <4>2, <4>4 DEF CodeSaves, EnteredFromBook
        <5> QED
          BY <2>2, <2>3, <3>4, <4>1, <4>2, <4>4, <5>1 DEF CodeSaves, EnteredFromBook
      <4>5. CASE ~res.webModified
        <5>1. CopiesFollow'
          BY <2>2, <3>4, <4>1, <4>2, <4>5 DEF CodeSaves, EnteredFromBook
        <5> QED
          BY <2>2, <2>3, <3>4, <4>1, <4>2, <4>5, <5>1
          DEF CodeSaves, EnteredFromBook, MalformedIsStored
      <4> QED
        BY <4>4, <4>5
    <3> QED
      BY <2>2, <3>2, <3>3, <3>4
  <2>4. CASE ~lastBook
    <3>1. n = res /\ n \in Caches
      BY <1>1, <2>1, <2>4
    <3>2. CASE focus # "book" /\ focus' = focus /\ res' = n
      BY <1>2, <1>3, <2>2, <2>4, <3>1, <3>2
    <3>3. CASE focus = "book" /\ focus' = "code" /\ res' = n
      BY <1>2, <1>3, <2>2, <2>4, <3>1, <3>3
    <3>4. CASE focus = "book" /\ focus' = "away" /\ res' = SaveTabContent(n, FALSE)
      <4>1. CodeSaves(res, res')
        BY <3>1, <3>4, SavedFromCode
      <4> QED
        BY <1>2, <1>3, <2>2, <2>4, <3>4, <4>1 DEF CodeSaves
    <3> QED
      BY <2>2, <3>2, <3>3, <3>4
  <2> QED
    BY <1>2, <2>3, <2>4
<1>14. ASSUME NEW reformats \in BOOLEAN, SplitView(reformats)
       PROVE  Kept
  <2>1. /\ tab = "open" /\ lastBook' = ~lastBook /\ split'
        /\ lastBook \/ res.wellFormed
        /\ UNCHANGED <<tab, focus, made, taken>>
    BY <1>14 DEF SplitView, IsDataWellFormed
  <2>2. CASE lastBook
    <3>1. CodeEnters(res, res')
      BY <1>1, <1>14, <2>2, CodeEntered DEF SplitView
    <3>3. CASE focus = "away"
      BY <1>6, <2>1, <2>2, <3>1, <3>3 DEF EnteredFromBook
    <3>4. CASE focus # "away"
      BY <1>2, <1>6, <2>1, <2>2, <3>1, <3>4 DEF EnteredFromBook
    <3> QED
      BY <3>3, <3>4
  <2>3. CASE ~lastBook
    <3>1. BookEnters(res, res')
      BY <1>1, <1>14, <2>3, BookEntered DEF SplitView
    <3>2. CASE focus = "away"
      BY <1>2, <1>3, <2>1, <2>3, <3>1, <3>2 DEF BookEnters
    <3>3. CASE focus = "code"
      <4>1. EditsOf(res').web = EditsOf(res).text
        BY <1>2, <1>3, <2>1, <2>3, <3>1, <3>3 DEF BookEnters
      <4> QED
        BY <1>2, <1>3, <2>1, <2>3, <3>1, <3>3, <4>1 DEF BookEnters
    <3>4. CASE focus = "book"
      BY <1>2, <1>3, <2>1, <2>3, <3>1, <3>4 DEF BookEnters
    <3> QED
      BY <1>2, <3>2, <3>3, <3>4
  <2> QED
    BY <1>2, <2>2, <2>3
<1>15. ASSUME NEW reformats \in BOOLEAN, NEW fix \in BOOLEAN, DemandAttention(reformats, fix)
       PROVE  Kept
  <2>1. tab = "open" /\ ~lastBook /\ ~res.wellFormed
    BY <1>15 DEF DemandAttention, IsDataWellFormed
  <2>2. PICK entered :
          entered = IF focus = "away" THEN LoadTabContent(res, FALSE)
                    ELSE IF focus = "book" /\ split
                    THEN UpdateTextDocumentFromWebPage(res, reformats)
                    ELSE res
    OBVIOUS
  <2>3. PICK saved : saved = SaveTabContent(entered, FALSE)
    OBVIOUS
  <2>4. PICK fixed : fixed = IF fix THEN AutoFixWellFormedErrors(saved) ELSE saved
    OBVIOUS
  <2>5. /\ res' = LoadTabContent(fixed, FALSE) /\ focus' = "code"
        /\ UNCHANGED <<tab, lastBook, split, made, taken>>
    BY <1>15, <2>2, <2>3, <2>4 DEF DemandAttention
  <2>6. /\ entered \in Caches /\ EditsOf(entered).dom = EditsOf(res).dom
        /\ EditsOf(entered).web = EditsOf(res).web
        /\ EditsOf(entered).oldSource = EditsOf(res).oldSource
        /\ entered.webModified = res.webModified
        /\ split => entered.sourceIsWeb
        /\ entered.sourceIsWeb => EditsOf(entered).web \subseteq EditsOf(entered).text
        /\ EditsOf(entered).dom \subseteq EditsOf(entered).text
        /\ EditsOf(entered).oldSource # NoSource =>
             EditsOf(entered).oldSource \subseteq EditsOf(entered).text
        /\ EditsOf(entered).web \subseteq EditsOf(entered).dom \cup EditsOf(entered).text
        /\ ~entered.webModified => EditsOf(entered).web \subseteq EditsOf(entered).dom
        /\ ~entered.textModified =>
             /\ ~entered.wellFormed
             /\ \/ EditsOf(entered).text \subseteq EditsOf(entered).dom
                \/ EditsOf(entered).web \subseteq EditsOf(entered).dom
             /\ EditsOf(entered).oldSource # NoSource =>
                  EditsOf(entered).oldSource \subseteq EditsOf(entered).dom
        /\ EditsOf(entered).oldSource # NoSource =>
             EditsOf(entered).oldSource \subseteq EditsOf(entered).web
        /\ ~entered.webIsOld => EditsOf(entered).dom \subseteq EditsOf(entered).web
        /\ EditsAreHeld /\ MalformedIsStored =>
             /\ made \subseteq EditsOf(entered).dom \cup EditsOf(entered).text /\ ~split
             /\ ~entered.textModified => EditsOf(entered).text \subseteq EditsOf(entered).dom
    <3>1. CASE focus = "away"
      <4>1. entered \in Caches /\ CodeLoads(res, entered)
        BY <1>1, <2>2, <3>1, LoadedToCode
      <4> QED
        BY <1>2, <1>3, <2>1, <3>1, <4>1 DEF CodeLoads, MalformedIsStored
    <3>2. CASE focus = "book" /\ split
      <4>1. entered \in Caches /\ CodeEnters(res, entered)
        BY <1>1, <2>2, <3>2, CodeEntered
      <4> QED
        BY <1>2, <1>3, <2>1, <3>2, <4>1 DEF CodeEnters, MalformedIsStored
    <3>3. CASE focus # "away" /\ ~(focus = "book" /\ split)
      BY <1>1, <1>2, <1>3, <2>1, <2>2, <3>3 DEF MalformedIsStored
    <3> QED
      BY <3>1, <3>2, <3>3
  <2>7. saved \in Caches /\ CodeSaves(entered, saved)
    BY <2>3, <2>6, SavedFromCode
  <2>8. /\ EditsOf(res).dom \subseteq EditsOf(saved).dom
        /\ EditsOf(saved).dom \subseteq EditsOf(saved).text
        /\ EditsOf(saved).web \subseteq EditsOf(saved).dom
        /\ saved.wellFormed =>
             saved.webIsOld /\ EditsOf(saved).text \subseteq EditsOf(saved).dom
        /\ split => saved.sourceIsWeb
        /\ EditsOf(saved).oldSource # NoSource =>
             /\ EditsOf(saved).oldSource \subseteq EditsOf(saved).web
             /\ EditsOf(saved).oldSource \subseteq EditsOf(saved).dom
        /\ ~saved.webIsOld => EditsOf(saved).dom \subseteq EditsOf(saved).web
        /\ EditsAreHeld /\ MalformedIsStored =>
             /\ made \subseteq EditsOf(saved).dom /\ ~split
             /\ EditsOf(saved).text \subseteq EditsOf(saved).dom
    <3>1. CASE entered.textModified
      BY <2>6, <2>7, <3>1 DEF CodeSaves
    <3>2. CASE ~entered.textModified
      BY <2>6, <2>7, <3>2 DEF CodeSaves
    <3> QED
      BY <3>1, <3>2
  <2>9. /\ fixed \in Caches /\ EditsOf(fixed).dom = EditsOf(saved).dom
        /\ EditsOf(fixed).web = EditsOf(saved).web
        /\ EditsOf(fixed).text = EditsOf(saved).text /\ fixed.webIsOld = saved.webIsOld
        /\ EditsOf(fixed).oldSource = EditsOf(saved).oldSource
        /\ fixed.sourceIsWeb = saved.sourceIsWeb
        /\ fixed.textModified \/ fixed.wellFormed = saved.wellFormed
    BY <2>4, <2>7 DEF AutoFixWellFormedErrors, EditsOf, Caches, CachesOf
  <2>10. CodeLoads(fixed, res')
    BY <2>5, <2>9, LoadedToCode
  <2>11. CASE fixed.textIsOld
    <3>1. /\ EditsOf(res').dom = EditsOf(saved).dom
          /\ EditsOf(res').text = EditsOf(saved).dom
          /\ EditsOf(res').web = EditsOf(saved).web
          /\ res'.wellFormed /\ res'.textModified /\ ~res'.textIsOld
          /\ res'.webIsOld = saved.webIsOld
          /\ EditsOf(res').oldSource = EditsOf(saved).oldSource
          /\ res'.sourceIsWeb = saved.sourceIsWeb
      BY <2>9, <2>10, <2>11 DEF CodeLoads
    <3>2. CopiesFollow'
      BY <1>2, <2>1, <2>5, <2>8, <3>1
    <3> QED
      BY <1>2, <2>1, <2>5, <2>8, <3>1, <3>2
  <2>12. CASE ~fixed.textIsOld
    <3>1. /\ EditsOf(res').dom = EditsOf(saved).dom
          /\ EditsOf(res').text = EditsOf(saved).text
          /\ EditsOf(res').web = EditsOf(saved).web
          /\ res'.webIsOld = saved.webIsOld /\ ~res'.textIsOld
          /\ res'.textModified \/ res'.wellFormed = saved.wellFormed
          /\ EditsOf(res').oldSource = EditsOf(saved).oldSource
          /\ res'.sourceIsWeb = saved.sourceIsWeb
      BY <2>9, <2>10, <2>12 DEF CodeLoads
    <3>2. saved.sourceIsWeb => EditsOf(saved).web \subseteq EditsOf(saved).text
      BY <2>8
    <3>3. CopiesFollow'
      BY <1>2, <2>1, <2>5, <2>8, <3>1, <3>2
    <3> QED
      BY <1>2, <2>1, <2>5, <2>8, <3>1, <3>3
  <2> QED
    BY <2>11, <2>12
<1>16. ASSUME EditsSame(res, res'), UNCHANGED <<tab, lastBook, split, focus, made>>
       PROVE  Kept
  BY <1>16 DEF EditsSame
<1>17. ASSUME tab = "open", Saves(res, res', lastBook),
              UNCHANGED <<tab, lastBook, split, focus, made>>
       PROVE  Kept
  <2>1. CASE lastBook
    <3>1. BookSaves(res, res')
      BY <1>17, <2>1 DEF Saves
    <3>2. CASE res.webModified
      <4>1. EditsOf(res).dom \subseteq EditsOf(res).web /\ focus # "away"
        BY <1>17, <2>1, <3>2
      <4>2. focus = "code" => res.wellFormed /\ EditsOf(res).text = EditsOf(res).web
        BY <2>1
      <4>3. CopiesFollow'
        BY <1>2, <1>3, <1>17, <2>1, <3>1, <3>2, <4>1, <4>2 DEF BookSaves
      <4>4. MalformedIsStored =>
              EditsOf(res).text \subseteq EditsOf(res').dom \/ res.textModified
        BY <1>17, <2>1, <3>1, <3>2, <4>1 DEF BookSaves, MalformedIsStored
      <4> QED
        BY <1>2, <1>17, <2>1, <3>1, <3>2, <4>1, <4>3 DEF BookSaves, MalformedIsStored
    <3>3. CASE ~res.webModified
      BY <1>2, <1>3, <1>17, <2>1, <3>1, <3>3 DEF BookSaves
    <3> QED
      BY <3>2, <3>3
  <2>2. CASE ~lastBook
    <3>1. CodeSaves(res, res')
      BY <1>17, <2>2 DEF Saves
    <3>2. CASE res.textModified
      <4>1. EditsOf(res).dom \subseteq EditsOf(res).text /\ focus # "away"
        BY <1>17, <2>2, <3>2
      <4>2. CopiesFollow'
        BY <1>2, <1>3, <1>17, <2>2, <3>1, <3>2, <4>1 DEF CodeSaves
      <4> QED
        BY <1>2, <1>17, <2>2, <3>1, <3>2, <4>1, <4>2 DEF CodeSaves, MalformedIsStored
    <3>3. CASE ~res.textModified
      BY <1>2, <1>3, <1>17, <2>2, <3>1, <3>3 DEF CodeSaves
    <3> QED
      BY <3>2, <3>3
  <2> QED
    BY <1>2, <2>1, <2>2
<1>25. CASE LinkedResourceUpdated
  BY <1>1, <1>16, <1>25, RefreshAsked DEF LinkedResourceUpdated
<1>26. CASE SaveTabData
  <2>1. Saves(res, res', lastBook)
    BY <1>1, <1>2, <1>26, SavedFromBook, SavedFromCode DEF SaveTabData, Saves
  <2> QED
    BY <1>17, <1>26, <2>1 DEF SaveTabData
<1>27. ASSUME NEW ids \in SUBSET HeadingIds, NEW reformats \in BOOLEAN,
              SaveFile(ids, reformats)
       PROVE  Kept
  <2>1. UNCHANGED <<tab, lastBook, split, made, taken>>
    BY <1>27 DEF SaveFile
  <2>2. CASE tab = "closed"
    BY <1>1, <1>16, <1>27, <2>1, <2>2, IdsGiven DEF SaveFile
  <2>3. CASE tab = "open"
    <3>1. PICK n : n = GiveIDsToHeadings(SaveTabContent(res, lastBook), ids)
      OBVIOUS
    <3>2. n \in Caches /\ Saves(res, n, lastBook)
      BY <1>1, <1>2, <3>1, SavedWithIds
    <3>3. \/ focus' = focus /\ res' = n
          \/ /\ lastBook \/ res.wellFormed
             /\ focus' = LastView /\ res' = FocusReturns(n, reformats)
      BY <1>27, <2>3, <3>1 DEF SaveFile, IsDataWellFormed
    <3>4. CASE focus' = focus /\ res' = n
      BY <1>17, <2>1, <2>3, <3>2, <3>4
    <3>5. CASE focus # LastView /\ focus' = LastView /\ res' = FocusReturns(n, reformats)
               /\ (lastBook \/ res.wellFormed)
      <4>1. CASE focus = "away" /\ lastBook
        <5>1. BookLoads(n, res') /\ BookSaves(res, n) /\ ~res.webModified
          BY <2>3, <3>2, <3>5, <4>1, LoadedToBook DEF FocusReturns, Saves
        <5> QED
          BY <1>2, <1>3, <2>1, <2>3, <3>5, <4>1, <5>1 DEF BookLoads, BookSaves
      <4>2. CASE focus = "away" /\ ~lastBook
        <5>1. CodeLoads(n, res') /\ CodeSaves(res, n) /\ ~res.textModified
          BY <1>2, <2>3, <3>2, <3>5, <4>2, LoadedToCode DEF FocusReturns, Saves
        <5> QED
          BY <1>2, <1>3, <2>1, <2>3, <3>5, <4>2, <5>1 DEF CodeLoads, CodeSaves
      <4>3. CASE focus = "code" /\ lastBook
        <5>1. BookEnters(n, res') /\ BookSaves(res, n)
          BY <3>2, <3>5, <4>3, BookEntered DEF FocusReturns, Saves
        <5>2. res.wellFormed /\ EditsOf(res).text = EditsOf(res).web /\ split
          BY <3>5, <4>3
        <5>3. EditsOf(res').web = EditsOf(res).web /\ EditsOf(res').text = EditsOf(res).web
          BY <5>1, <5>2, <1>3 DEF BookEnters, BookSaves
        <5>4. CASE res.webModified
          <6>1. CopiesFollow'
            BY <1>2, <1>3, <2>1, <2>3, <3>5, <4>3, <5>1, <5>2, <5>3, <5>4
            DEF BookEnters, BookSaves
          <6> QED
            BY <2>1, <2>3, <3>5, <4>3, <5>1, <5>2, <5>3, <5>4, <6>1
            DEF BookEnters, BookSaves
        <5>5. CASE ~res.webModified
          <6>1. CopiesFollow'
            BY <1>2, <1>3, <2>1, <2>3, <3>5, <4>3, <5>1, <5>2, <5>3, <5>5
            DEF BookEnters, BookSaves
          <6> QED
            BY <2>1, <2>3, <3>5, <4>3, <5>1, <5>2, <5>3, <5>5, <6>1
            DEF BookEnters, BookSaves
        <5> QED
          BY <5>4, <5>5
      <4>4. CASE focus = "book" /\ ~lastBook
        <5>1. CodeEnters(n, res') /\ CodeSaves(res, n)
          BY <1>2, <3>2, <3>5, <4>4, CodeEntered DEF FocusReturns, Saves
        <5>2. res.wellFormed /\ EditsOf(res).text = EditsOf(res).web /\ split
          BY <3>5, <4>4
        <5>3. EditsOf(res').web = EditsOf(res).web /\ EditsOf(res').text = EditsOf(res).web
          BY <5>1, <5>2, <1>3 DEF CodeEnters, CodeSaves
        <5>4. CASE res.textModified
          <6>1. CopiesFollow'
            BY <1>2, <1>3, <2>1, <2>3, <3>5, <4>4, <5>1, <5>2, <5>3, <5>4
            DEF CodeEnters, CodeSaves
          <6> QED
            BY <2>1, <2>3, <3>5, <4>4, <5>1, <5>2, <5>3, <5>4, <6>1
            DEF CodeEnters, CodeSaves
        <5>5. CASE ~res.textModified
          <6>1. CopiesFollow'
            BY <1>2, <1>3, <2>1, <2>3, <3>5, <4>4, <5>1, <5>2, <5>3, <5>5
            DEF CodeEnters, CodeSaves
          <6> QED
            BY <2>1, <2>3, <3>5, <4>4, <5>1, <5>2, <5>3, <5>5, <6>1
            DEF CodeEnters, CodeSaves
        <5> QED
          BY <5>4, <5>5
      <4> QED
        BY <1>2, <3>5, <4>1, <4>2, <4>3, <4>4
    <3>6. CASE focus = LastView /\ focus' = LastView /\ res' = FocusReturns(n, reformats)
      <4>1. focus' = focus /\ res' = n
        BY <3>6 DEF FocusReturns
      <4> QED
        BY <3>4, <4>1
    <3> QED
      BY <3>3, <3>4, <3>5, <3>6
  <2> QED
    BY <1>2, <2>2, <2>3
<1>18. ~SwitchTab
  BY DEF SwitchTab, Takes
<1>19. ASSUME NEW e \in Edits \ made, TypeInBookView(e)
       PROVE  Kept
  <2>1. /\ lastBook /\ focus = "book" /\ made' = made \cup {e}
        /\ BookEdited(res, res', e) /\ UNCHANGED <<tab, lastBook, split, focus>>
    BY <1>1, <1>19, EditedInBook DEF TypeInBookView, Takes
  <2> QED
    BY <1>2, <1>3, <2>1 DEF BookEdited
<1>20. ASSUME NEW e \in Edits \ made, NEW wf \in BOOLEAN, TypeInCodeView(e, wf)
       PROVE  Kept
  <2>1. /\ ~lastBook /\ focus = "code" /\ made' = made \cup {e}
        /\ CodeEdited(res, res', e, wf) /\ UNCHANGED <<tab, lastBook, split, focus>>
    BY <1>1, <1>20, EditedInCode DEF TypeInCodeView, Takes
  <2> QED
    BY <1>2, <1>3, <2>1 DEF CodeEdited
<1>21. ASSUME NEW e \in Edits \ made PROVE ~ReplaceInTab(e)
  BY DEF ReplaceInTab, Takes
<1>22. ASSUME NEW e \in Edits \ made, DomDocumentUpdated(e)
       PROVE  Kept
  <2>1. /\ focus = "away" /\ made' = made \cup {e}
        /\ DomEdited(res, res', {e}) /\ UNCHANGED <<tab, lastBook, split, focus>>
    BY <1>1, <1>22, EditedInDom DEF DomDocumentUpdated
  <2> QED
    BY <1>2, <1>3, <2>1 DEF DomEdited
<1>23. ASSUME NEW e \in Edits \ made, NEW links \in SUBSET (Edits \ (made \cup {e}))
       PROVE  ~SplitChapter(e, links)
  <2>1. SplitChapter(e, links) => Takes({"splitchapter"} \cup OutsideLastView)
    BY DEF SplitChapter
  <2> QED
    BY <2>1 DEF Takes
<1>24. ASSUME NEW e \in Edits \ made, NEW links \in SUBSET (Edits \ (made \cup {e})),
              SplitOnSGFChapterMarkers(e, links)
       PROVE  Kept
  <2>1. tab = "open" /\ focus = LastView /\ (lastBook \/ res.wellFormed)
    BY <1>24 DEF SplitOnSGFChapterMarkers, OutsideLastView, Takes, IsDataWellFormed
  <2>2. PICK saved : saved = SaveTabContent(res, lastBook)
    OBVIOUS
  <2>3. saved \in Caches /\ Saves(res, saved, lastBook)
    BY <1>1, <1>2, <2>2, SavedFromBook, SavedFromCode DEF Saves
  <2>4. PICK first : first = MarkSecondaryCachesAsOld([saved EXCEPT !.dom = @ \cup {e}])
    OBVIOUS
  <2>5. first \in Caches /\ DomEdited(saved, first, {e})
    BY <2>3, <2>4, EditedInDom
  <2>6. PICK linked : linked = UpdateAnchors(first, links)
    OBVIOUS
  <2>7. linked \in Caches /\ DomEdited(saved, linked, links \cup {e})
    <3>1. linked \in Caches /\ (DomEdited(first, linked, links) \/ (links = {} /\ linked = first))
      BY <2>5, <2>6, AnchorsUpdated
    <3> QED
      BY <2>5, <3>1 DEF DomEdited
  <2>8. /\ res' = LoadTabContent(linked, lastBook) /\ made' = made \cup links \cup {e}
        /\ UNCHANGED <<tab, lastBook, split, focus>>
    BY <1>24, <2>2, <2>4, <2>6 DEF SplitOnSGFChapterMarkers
  <2>9. CASE lastBook
    <3>1. BookLoads(linked, res') /\ BookSaves(res, saved)
      BY <2>3, <2>7, <2>8, <2>9, LoadedToBook DEF Saves
    <3>2. /\ EditsOf(res').text = EditsOf(res).text /\ EditsOf(res').web = EditsOf(res').dom
          /\ res'.wellFormed = res.wellFormed
          /\ EditsOf(res').dom = EditsOf(saved).dom \cup links \cup {e}
          /\ EditsOf(res').oldSource = EditsOf(res).oldSource
          /\ ~res'.sourceIsWeb /\ ~res'.webModified /\ res'.textModified = res.textModified
          /\ ~res'.webIsOld /\ res'.textIsOld
      BY <2>7, <3>1 DEF BookLoads, BookSaves, DomEdited
    <3>3. /\ EditsOf(res).dom \subseteq EditsOf(saved).dom
          /\ EditsOf(res).web \subseteq EditsOf(saved).dom
      BY <1>2, <2>1, <2>9, <3>1 DEF BookSaves
    <3>4. CopiesFollow'
      BY <1>2, <2>1, <2>8, <2>9, <3>2, <3>3
    <3>5. ASSUME EditsAreHeld PROVE EditsAreHeld'
      <4>1. /\ made \subseteq EditsOf(res).dom \cup EditsOf(res).web
            /\ ~res.textModified => EditsOf(res).text \subseteq EditsOf(res).dom
        BY <2>1, <2>9, <3>5
      <4>2. made' \subseteq EditsOf(res').dom
        BY <2>8, <3>2, <3>3, <4>1
      <4> QED
        BY <2>1, <2>8, <3>2, <3>3, <4>1, <4>2
    <3> QED
      BY <3>2, <3>3, <3>4, <3>5
  <2>10. CASE ~lastBook
    <3>1. CodeLoads(linked, res') /\ CodeSaves(res, saved)
      BY <1>2, <2>3, <2>7, <2>8, <2>10, LoadedToCode DEF Saves
    <3> QED
      BY <1>2, <1>3, <2>1, <2>7, <2>8, <2>10, <3>1 DEF CodeLoads, CodeSaves, DomEdited
  <2> QED
    BY <1>2, <2>9, <2>10
<1> QED
  BY <1>4, <1>5, <1>8, <1>9, <1>10, <1>11, <1>12, <1>13, <1>14, <1>15, <1>18,
     <1>19, <1>20, <1>21, <1>22, <1>23, <1>24, <1>25, <1>26, <1>27
  DEF Next

LEMMA InvariantStep == IInv /\ [Next]_vars => IInv'
<1> SUFFICES ASSUME IInv, [Next]_vars PROVE IInv'
  OBVIOUS
<1> USE DEF IInv
<1>1. taken \subseteq taken'
  BY HistoryGrows
<1>2. TypeInv' /\ Made'
  BY TypeStep
<1>3. taken' \subseteq {"malformed"} => Kept
  BY <1>1, CopiesStep
<1>4. taken' = {} => CopiesFollow /\ EditsAreHeld /\ MalformedIsStored
  BY <1>1
<1>5. taken' = {} => MalformedIsStored'
  <2>1. CopiesFollow => (tab = "closed" => focus = "away")
    BY DEF CopiesFollow, ClosedTab
  <2>2. CopiesFollow => (focus \notin {"away", LastView} => split)
    BY DEF CopiesFollow, FocusInOther
  <2> QED
    BY <1>4, <2>1, <2>2, MalformedStep
<1>6. taken' = {} => EditsAreHeld'
  BY <1>3, <1>4 DEF Kept
<1> QED
  BY <1>2, <1>3, <1>5, <1>6 DEF Kept

-----------------------------------------------------------------------------
(* The theorems *)

LEMMA Inductive == Spec => []IInv
<1>1. Init => IInv
  <2> SUFFICES ASSUME Init PROVE CopiesFollow /\ EditsAreHeld /\ MalformedIsStored
    BY InitTypes DEF IInv
  <2>1. PICK refresh \in BOOLEAN :
          res = [dom |-> {}, web |-> {}, text |-> {}, oldSource |-> NoSource,
                 sourceIsWeb |-> FALSE, webModified |-> FALSE, textModified |-> FALSE,
                 webIsOld |-> TRUE, textIsOld |-> TRUE,
                 refreshNeeded |-> refresh, wellFormed |-> TRUE]
    BY DEF Init
  <2> QED
    BY <2>1 DEF Init, EditsOf, CopiesFollow, EditsAreHeld, MalformedIsStored, ClosedTab,
       Unmodified, Exchanged, FocusInOther
<1>2. IInv /\ [Next]_vars => IInv'
  BY InvariantStep
<1> QED
  BY <1>1, <1>2, PTL DEF Spec

\* Until the user takes a detour, saving would store every edit made so far,
\* however many there are and in whichever of the three copies each was made:
\* the old and modified flags never let a stale copy win.
THEOREM EditsAreStored == Spec => []SavingStoresEveryEdit
<1>1. IInv => SavingStoresEveryEdit
  <2> SUFFICES ASSUME IInv, taken = {} PROVE made \subseteq Saved
    BY DEF SavingStoresEveryEdit
  <2> USE DEF IInv, CopiesFollow, EditsAreHeld, OpenedTab, Unmodified, LastModified, LastContent
  <2>1. res \in Caches /\ tab \in {"closed", "open"} /\ lastBook \in BOOLEAN
    BY CachesTyped DEF TypeInv
  <2>2. CASE tab = "closed"
    BY <2>2 DEF Saved, EditsOf
  <2>3. PICK n : n = SaveTabContent(res, lastBook)
    OBVIOUS
  <2>4. tab = "open" => made \subseteq EditsOf(n).dom
    <3>1. CASE lastBook
      BY <2>1, <2>3, <3>1, SavedFromBook DEF BookSaves
    <3>2. CASE ~lastBook
      BY <2>1, <2>3, <3>2, SavedFromCode DEF CodeSaves
    <3> QED
      BY <3>1, <3>2
  <2>5. EditsOf(n).dom \subseteq n.dom
    BY DEF EditsOf
  <2> QED
    BY <2>1, <2>2, <2>3, <2>4, <2>5 DEF Saved
<1> QED
  BY <1>1, Inductive, PTL

\* What is in the DOM stays there, also while there is malformed source in a
\* Split View, where edits may be lost: what is lost was never in the DOM.
THEOREM DomIsKept == Spec => DomIsFinalArbiter
<1>1. IInv /\ [Next]_vars
         => [taken' \subseteq {"malformed"} => res.dom \ HeadingIds \subseteq res'.dom]_vars
  <2> SUFFICES ASSUME IInv, [Next]_vars, taken' \subseteq {"malformed"}
               PROVE  res.dom \ HeadingIds \subseteq res'.dom
    OBVIOUS
  <2>1. EditsOf(res).dom \subseteq EditsOf(res').dom
    BY HistoryGrows, CopiesStep DEF IInv, Kept
  <2> QED
    BY <2>1 DEF EditsOf
<1> QED
  BY <1>1, Inductive, PTL DEF Spec, DomIsFinalArbiter

-----------------------------------------------------------------------------
(* What the user sees.  Find & Replace and tabs used without the focus may   *)
(* lose edits, so that the copies need not contain each other any more; but  *)
(* they are equal wherever no flag says that they are not.                   *)

OtherModified == IF lastBook THEN res.textModified ELSE res.webModified

\* Before the tab is opened a copy that is not marked old is the DOM.
ClosedShows ==
    /\ focus = "away"
    /\ res.webIsOld \/ EditsOf(res).web = EditsOf(res).dom
    /\ res.textIsOld \/ EditsOf(res).text = EditsOf(res).dom

\* The last view is modified or is the DOM, unless both copies are marked old,
\* so that the view is loaded before it gets the focus; while it is not
\* modified, the same holds of the other view.
OpenedShows ==
    /\ \/ LastModified \/ LastContent = EditsOf(res).dom
       \/ focus = "away" /\ res.webIsOld /\ res.textIsOld
    /\ LastModified \/ OtherIsOld \/ OtherView = EditsOf(res).dom
    /\ ~lastBook => res.sourceIsWeb

\* m_OldSourceCache is the web page's source when it says so; while the Book View
\* is the last, it is the text's, or the tab was opened with another one, from
\* which the page differs as long as the text does.
SourcesAgree ==
    /\ res.sourceIsWeb => EditsOf(res).oldSource = EditsOf(res).web
    /\ lastBook /\ res.sourceIsWeb => EditsOf(res).text = EditsOf(res).web
    /\ tab = "open" /\ lastBook =>
         \/ EditsOf(res).oldSource = EditsOf(res).text \/ EditsOf(res).oldSource = NoSource
         \/ /\ EditsOf(res).text \subseteq EditsOf(res).web
            /\ EditsOf(res).text \subseteq EditsOf(res).dom
            /\ \/ EditsOf(res).oldSource \subseteq EditsOf(res).text
               \/ ~(EditsOf(res).oldSource \subseteq EditsOf(res).web \cup EditsOf(res).dom)

\* In a Split View the focus may be in the view that is not the last: they are
\* alike then, and what is modified in one is so in the other.
OtherShows ==
    focus \notin {"away", LastView} =>
        /\ split /\ EditsOf(res).text = EditsOf(res).web
        /\ LastModified => OtherModified \/ LastContent = EditsOf(res).dom

ViewsAgree ==
    /\ tab = "closed" => ClosedShows
    /\ tab = "open" => OpenedShows
    /\ SourcesAgree /\ OtherShows /\ MalformedIsStored

LEMMA ViewsStep ==
    ASSUME TypeInv, Made, ViewsAgree, [Next]_vars, taken' \subseteq {"replace", "unfocused"}
    PROVE  ViewsAgree'
<1>0. MalformedIsStored'
  BY MalformedStep DEF ViewsAgree, ClosedShows, OtherShows
<1> USE <1>0 DEF ViewsAgree, ClosedShows, OpenedShows, SourcesAgree, OtherShows,
            OtherView, LastContent, LastModified, OtherModified, OtherIsOld, LastView
<1>1. res \in Caches
  BY CachesTyped
<1>2. /\ lastBook \in BOOLEAN /\ split \in BOOLEAN
      /\ tab \in {"closed", "open"} /\ focus \in {"book", "code", "away"}
  BY DEF TypeInv
<1>3. /\ EditsOf(res).text # NoSource /\ EditsOf(res).web # NoSource
      /\ EditsOf(res).dom # NoSource
      /\ res.webModified \in BOOLEAN /\ res.textModified \in BOOLEAN
  BY <1>1, ContentTypes
<1>4. CASE UNCHANGED vars
  BY <1>4 DEF vars
<1>5. CASE CloseTab \/ FocusLeaves
  <2>0. /\ tab = "open" /\ res' = SaveTabContent(res, lastBook) /\ focus' = "away"
        /\ tab' = "open" \/ tab' = "closed"
        /\ UNCHANGED <<lastBook, split, made, taken>>
    BY <1>5 DEF CloseTab, FocusLeaves
  <2>1. CASE lastBook
    <3>1. BookSaves(res, res')
      BY <1>1, <2>0, <2>1, SavedFromBook
    <3> QED
      BY <1>2, <1>3, <2>0, <2>1, <3>1 DEF BookSaves
  <2>2. CASE ~lastBook
    <3>1. CodeSaves(res, res')
      BY <1>1, <1>2, <2>0, <2>2, SavedFromCode
    <3> QED
      BY <1>2, <1>3, <2>0, <2>2, <3>1 DEF CodeSaves
  <2> QED
    BY <1>2, <2>1, <2>2
<1>6. ASSUME NEW view \in {"book", "code"}, FocusEnters(view)
      PROVE  ViewsAgree'
  <2>1. /\ tab = "open" /\ focus = "away" /\ view = LastView
        /\ res' = LoadTabContent(res, lastBook) /\ focus' = view
        /\ UNCHANGED <<tab, lastBook, split, made>>
    BY <1>6 DEF FocusEnters, Takes
  <2>2. CASE lastBook
    <3>1. BookLoads(res, res')
      BY <1>1, <2>1, <2>2, LoadedToBook
    <3> QED
      BY <1>2, <1>3, <2>1, <2>2, <3>1 DEF BookLoads
  <2>3. CASE ~lastBook
    <3>1. CodeLoads(res, res')
      BY <1>1, <1>2, <2>1, <2>3, LoadedToCode
    <3> QED
      BY <1>2, <1>3, <2>1, <2>3, <3>1 DEF CodeLoads
  <2> QED
    BY <1>2, <2>2, <2>3
<1>7. ASSUME NEW reformats \in BOOLEAN, NEW book \in BOOLEAN, NEW focused \in BOOLEAN,
             OpenTab(book, focused, reformats)
      PROVE  ViewsAgree'
  <2>1. PICK page : page = LoadTabContent(res, TRUE)
    OBVIOUS
  <2>2. PICK loaded : loaded = LoadTabContent(page, FALSE)
    OBVIOUS
  <2>3. tab = "closed"
    BY <1>7 DEF OpenTab
  <2>4. page \in Caches /\ BookLoads(res, page)
    BY <1>1, <2>1, LoadedToBook
  <2>5. loaded \in Caches /\ CodeLoads(page, loaded)
    BY <2>2, <2>4, LoadedToCode
  <2>6. /\ EditsOf(loaded).dom = EditsOf(res).dom /\ EditsOf(loaded).web = EditsOf(res).dom
        /\ EditsOf(loaded).text = EditsOf(res).dom
        /\ EditsOf(loaded).oldSource = EditsOf(res).oldSource
        /\ loaded.sourceIsWeb => EditsOf(loaded).oldSource = EditsOf(res).dom
    BY <2>3, <2>4, <2>5 DEF BookLoads, CodeLoads
  <2>7. /\ res' = IF book THEN loaded ELSE UpdateTextDocumentFromWebPage(loaded, reformats)
        /\ focus' \in {"away", IF book THEN "book" ELSE "code"}
        /\ tab' = "open" /\ lastBook' = book /\ split' = FALSE /\ made' = made
    BY <1>7, <2>1, <2>2, <2>3 DEF OpenTab, LoadTabContent
  <2>8. CASE book
    BY <1>3, <2>3, <2>6, <2>7, <2>8
  <2>9. CASE ~book
    <3>1. CodeEnters(loaded, res')
      BY <2>5, <2>7, <2>9, CodeEntered
    <3>2. /\ EditsOf(res').dom = EditsOf(res).dom /\ EditsOf(res').web = EditsOf(res).dom
          /\ EditsOf(res').text = EditsOf(res).dom
          /\ EditsOf(res').oldSource = EditsOf(res).dom /\ res'.sourceIsWeb
      BY <2>6, <3>1 DEF CodeEnters
    <3> QED
      BY <2>7, <2>9, <3>2
  <2> QED
    BY <2>8, <2>9
<1>8. ASSUME lastBook, tab = "open", NEW n, CodeEnters(res, n)
      PROVE  EditsOf(n).text = EditsOf(res).web
  <2>1. res.sourceIsWeb => EditsOf(res).text = EditsOf(res).web
    BY <1>8
  <2>2. EditsOf(res).oldSource = EditsOf(res).web => EditsOf(res).text = EditsOf(res).web
    BY <1>3, <1>8
  <2> QED
    BY <1>8, <2>1, <2>2 DEF CodeEnters
<1>9. ASSUME ~lastBook, tab = "open", NEW n, BookEnters(res, n)
      PROVE  EditsOf(n).web = EditsOf(res).text /\ EditsOf(n).oldSource = EditsOf(res).text
  BY <1>3, <1>9 DEF BookEnters
<1>10. ASSUME NEW reformats \in BOOLEAN, FocusSwitchesToBook(reformats)
       PROVE  ViewsAgree'
  <2>1. CASE IsDataWellFormed
    <3>1. /\ res' = UpdateWebPageFromTextDocument(res, reformats) /\ lastBook' = TRUE
          /\ focus = "code" /\ focus' = "book" /\ tab = "open" /\ split
          /\ UNCHANGED <<tab, split, made, taken>>
      BY <1>10, <2>1 DEF FocusSwitchesToBook
    <3>2. BookEnters(res, res')
      BY <1>1, <3>1, BookEntered
    <3>3. CASE lastBook
      BY <1>2, <1>3, <2>1, <3>1, <3>2, <3>3 DEF BookEnters
    <3>4. CASE ~lastBook
      BY <1>2, <1>3, <1>9, <2>1, <3>1, <3>2, <3>4 DEF BookEnters
    <3> QED
      BY <3>3, <3>4
  <2>2. CASE ~IsDataWellFormed
    BY <1>10, <2>2 DEF FocusSwitchesToBook, IsDataWellFormed, MalformedIsStored
  <2> QED
    BY <2>1, <2>2
<1>11. ASSUME NEW reformats \in BOOLEAN, FocusSwitchesToCode(reformats)
       PROVE  ViewsAgree'
  <2>1. /\ res' = UpdateTextDocumentFromWebPage(res, reformats) /\ lastBook' = FALSE
        /\ focus = "book" /\ focus' = "code" /\ tab = "open" /\ split
        /\ UNCHANGED <<tab, split, made, taken>>
    BY <1>11 DEF FocusSwitchesToCode
  <2>2. CodeEnters(res, res')
    BY <1>1, <2>1, CodeEntered
  <2> QED
    BY <1>2, <1>3, <1>8, <2>1, <2>2 DEF CodeEnters
<1>12. ASSUME NEW reformats \in BOOLEAN, BookView(reformats)
       PROVE  ViewsAgree'
  <2>1. PICK n : n = IF lastBook THEN res ELSE UpdateWebPageFromTextDocument(res, reformats)
    OBVIOUS
  <2>2. /\ tab = "open" /\ tab' = "open" /\ lastBook' = TRUE /\ split' = FALSE
        /\ made' = made /\ taken' = taken /\ (lastBook \/ res.wellFormed)
        /\ \/ focus' = (IF focus = "code" THEN "book" ELSE focus) /\ res' = n
           \/ focus = "code" /\ focus' = "away" /\ res' = SaveTabContent(n, TRUE)
    BY <1>12, <2>1 DEF BookView, IsDataWellFormed
  <2>3. CASE lastBook
    <3>1. n = res /\ n \in Caches
      BY <1>1, <2>1, <2>3
    <3>2. CASE focus' = (IF focus = "code" THEN "book" ELSE focus) /\ res' = n
      BY <1>2, <1>3, <2>2, <2>3, <3>1, <3>2
    <3>3. CASE focus = "code" /\ focus' = "away" /\ res' = SaveTabContent(n, TRUE)
      <4>1. BookSaves(res, res')
        BY <3>1, <3>3, SavedFromBook
      <4> QED
        BY <1>2, <1>3, <2>2, <2>3, <3>3, <4>1 DEF BookSaves
    <3> QED
      BY <2>2, <3>2, <3>3
  <2>4. CASE ~lastBook
    <3>1. n \in Caches /\ BookEnters(res, n)
      BY <1>1, <2>1, <2>4, BookEntered
    <3>2. EditsOf(n).web = EditsOf(res).text /\ EditsOf(n).oldSource = EditsOf(res).text
      BY <1>9, <2>2, <2>4, <3>1
    <3>3. CASE focus' = (IF focus = "code" THEN "book" ELSE focus) /\ res' = n
      BY <1>2, <1>3, <2>2, <2>4, <3>1, <3>2, <3>3 DEF BookEnters
    <3>4. CASE focus = "code" /\ focus' = "away" /\ res' = SaveTabContent(n, TRUE)
      <4>1. BookSaves(n, res')
        BY <3>1, <3>4, SavedFromBook
      <4>2. n.textModified = res.textModified /\ n.webModified = res.textModified
            /\ EditsOf(n).dom = EditsOf(res).dom /\ EditsOf(n).text = EditsOf(res).text
            /\ n.webIsOld = res.webIsOld /\ n.textIsOld = res.textIsOld
        BY <2>2, <2>4, <3>1 DEF BookEnters
      <4>4. /\ EditsOf(res').web = EditsOf(res).text
            /\ EditsOf(res').text = EditsOf(res).text
            /\ EditsOf(res').oldSource = EditsOf(res).text
            /\ ~res'.webModified /\ res'.textModified = res.textModified
            /\ res'.webIsOld = res.webIsOld
            /\ IF res.textModified THEN EditsOf(res').dom = EditsOf(res).text /\ res'.textIsOld
               ELSE EditsOf(res').dom = EditsOf(res).dom /\ res'.textIsOld = res.textIsOld
        BY <3>2, <4>1, <4>2 DEF BookSaves
      <4>5. res.textModified \/ EditsOf(res).text = EditsOf(res).dom
        BY <2>2, <2>4, <3>4
      <4> QED
        BY <1>2, <2>2, <2>4, <3>4, <4>4, <4>5
    <3> QED
      BY <2>2, <3>3, <3>4
  <2> QED
    BY <1>2, <2>3, <2>4
<1>13. ASSUME NEW reformats \in BOOLEAN, CodeView(reformats)
       PROVE  ViewsAgree'
  <2>1. PICK n : n = IF lastBook THEN UpdateTextDocumentFromWebPage(res, reformats) ELSE res
    OBVIOUS
  <2>2. /\ tab = "open" /\ tab' = "open" /\ lastBook' = FALSE /\ split' = FALSE
        /\ made' = made /\ taken' = taken
        /\ \/ focus # "book" /\ focus' = focus /\ res' = n
           \/ focus = "book" /\ split /\ focus' = "code" /\ res' = n
           \/ focus = "book" /\ focus' = "away" /\ res' = SaveTabContent(n, FALSE)
    BY <1>13, <2>1 DEF CodeView
  <2>3. CASE lastBook
    <3>1. n \in Caches /\ CodeEnters(res, n)
      BY <1>1, <2>1, <2>3, CodeEntered
    <3>2. /\ EditsOf(n).text = EditsOf(res).web /\ EditsOf(n).oldSource = EditsOf(n).web
          /\ n.sourceIsWeb
          /\ EditsOf(n).web = EditsOf(res).web /\ EditsOf(n).dom = EditsOf(res).dom
          /\ n.webModified = res.webModified /\ n.textModified = res.webModified
          /\ n.webIsOld = res.webIsOld /\ n.textIsOld = res.textIsOld
      BY <1>8, <2>2, <2>3, <3>1 DEF CodeEnters
    <3>3. CASE focus' \in {"away", "code"} /\ focus' = "away" <=> focus = "away" /\ res' = n
      BY <1>2, <1>3, <2>2, <2>3, <3>2, <3>3
    <3>4. CASE focus = "book" /\ focus' = "away" /\ res' = SaveTabContent(n, FALSE)
      <4>1. CodeSaves(n, res')
        BY <3>1, <3>4, SavedFromCode
      <4> QED
        BY <1>2, <1>3, <2>2, <2>3, <3>2, <3>4, <4>1, ZenonT(60) DEF CodeSaves
    <3> QED
      BY <1>2, <2>2, <3>3, <3>4
  <2>4. CASE ~lastBook
    <3>1. n = res /\ n \in Caches
      BY <1>1, <2>1, <2>4
    <3>2. CASE focus # "book" /\ focus' = focus /\ res' = n
      BY <1>2, <1>3, <2>2, <2>4, <3>1, <3>2
    <3>3. CASE focus = "book" /\ focus' = "code" /\ res' = n
      BY <1>2, <1>3, <2>2, <2>4, <3>1, <3>3
    <3>4. CASE focus = "book" /\ focus' = "away" /\ res' = SaveTabContent(n, FALSE)
      <4>1. CodeSaves(res, res')
        BY <3>1, <3>4, SavedFromCode
      <4> QED
        BY <1>2, <1>3, <2>2, <2>4, <3>4, <4>1 DEF CodeSaves
    <3> QED
      BY <2>2, <3>2, <3>3, <3>4
  <2> QED
    BY <1>2, <2>3, <2>4
<1>14. ASSUME NEW reformats \in BOOLEAN, SplitView(reformats)
       PROVE  ViewsAgree'
  <2>1. /\ tab = "open" /\ lastBook' = ~lastBook /\ split'
        /\ lastBook \/ res.wellFormed
        /\ UNCHANGED <<tab, focus, made, taken>>
    BY <1>14 DEF SplitView, IsDataWellFormed
  <2>2. CASE lastBook
    <3>1. CodeEnters(res, res')
      BY <1>1, <1>14, <2>2, CodeEntered DEF SplitView
    <3>2. EditsOf(res').text = EditsOf(res).web
      BY <1>8, <2>1, <2>2, <3>1
    <3> QED
      BY <1>2, <1>3, <2>1, <2>2, <3>1, <3>2 DEF CodeEnters
  <2>3. CASE ~lastBook
    <3>1. BookEnters(res, res')
      BY <1>1, <1>14, <2>3, BookEntered DEF SplitView
    <3>2. EditsOf(res').web = EditsOf(res).text /\ EditsOf(res').oldSource = EditsOf(res).text
      BY <1>9, <2>1, <2>3, <3>1
    <3> QED
      BY <1>2, <1>3, <2>1, <2>3, <3>1, <3>2 DEF BookEnters
  <2> QED
    BY <1>2, <2>2, <2>3
<1>15. ASSUME NEW reformats \in BOOLEAN, NEW fix \in BOOLEAN, DemandAttention(reformats, fix)
       PROVE  ViewsAgree'
  <2>1. tab = "open" /\ ~lastBook /\ ~res.wellFormed /\ ~split /\ focus \in {"away", "code"}
    BY <1>2, <1>15 DEF DemandAttention, IsDataWellFormed, MalformedIsStored
  <2>2. PICK entered : entered = IF focus = "away" THEN LoadTabContent(res, FALSE) ELSE res
    OBVIOUS
  <2>3. PICK saved : saved = SaveTabContent(entered, FALSE)
    OBVIOUS
  <2>4. PICK fixed : fixed = IF fix THEN AutoFixWellFormedErrors(saved) ELSE saved
    OBVIOUS
  <2>5. /\ res' = LoadTabContent(fixed, FALSE) /\ focus' = "code"
        /\ UNCHANGED <<tab, lastBook, split, made, taken>>
    BY <1>15, <2>1, <2>2, <2>3, <2>4 DEF DemandAttention
  <2>6. /\ entered \in Caches /\ EditsOf(entered).dom = EditsOf(res).dom
        /\ EditsOf(entered).web = EditsOf(res).web
        /\ EditsOf(entered).oldSource = EditsOf(res).oldSource /\ entered.sourceIsWeb
        /\ entered.textModified \/ EditsOf(entered).text = EditsOf(entered).dom
        /\ entered.textModified \/ entered.webIsOld \/ EditsOf(entered).web = EditsOf(entered).dom
    <3>1. CASE focus = "away"
      <4>1. entered \in Caches /\ CodeLoads(res, entered)
        BY <1>1, <2>2, <3>1, LoadedToCode
      <4> QED
        BY <2>1, <3>1, <4>1 DEF CodeLoads
    <3>2. CASE focus # "away"
      BY <1>1, <2>1, <2>2, <3>2
    <3> QED
      BY <3>1, <3>2
  <2>7. saved \in Caches /\ CodeSaves(entered, saved)
    BY <2>3, <2>6, SavedFromCode
  <2>8. /\ EditsOf(saved).text = EditsOf(saved).dom
        /\ EditsOf(saved).web = EditsOf(res).web
        /\ EditsOf(saved).oldSource = EditsOf(res).oldSource /\ saved.sourceIsWeb
        /\ saved.webIsOld \/ EditsOf(saved).web = EditsOf(saved).dom
    BY <2>6, <2>7 DEF CodeSaves
  <2>9. /\ fixed \in Caches /\ EditsOf(fixed).dom = EditsOf(saved).dom
        /\ EditsOf(fixed).web = EditsOf(saved).web
        /\ EditsOf(fixed).text = EditsOf(saved).text /\ fixed.webIsOld = saved.webIsOld
        /\ EditsOf(fixed).oldSource = EditsOf(saved).oldSource
        /\ fixed.sourceIsWeb = saved.sourceIsWeb
    BY <2>4, <2>7 DEF AutoFixWellFormedErrors, EditsOf, Caches, CachesOf
  <2>10. /\ EditsOf(res').dom = EditsOf(saved).dom /\ EditsOf(res').web = EditsOf(res).web
         /\ EditsOf(res').text = EditsOf(saved).dom
         /\ res'.webIsOld = saved.webIsOld
         /\ EditsOf(res').oldSource = EditsOf(res).oldSource /\ res'.sourceIsWeb
    <3>1. CodeLoads(fixed, res')
      BY <2>5, <2>9, LoadedToCode
    <3> QED
      BY <2>8, <2>9, <3>1 DEF CodeLoads
  <2> QED
    BY <2>1, <2>5, <2>8, <2>10
<1>16. ASSUME EditsSame(res, res'), UNCHANGED <<tab, lastBook, split, focus>>
       PROVE  ViewsAgree'
  BY <1>16 DEF EditsSame
<1>17. ASSUME tab = "open", Saves(res, res', lastBook), UNCHANGED <<tab, lastBook, split, focus>>
       PROVE  ViewsAgree'
  <2>1. CASE lastBook
    BY <1>2, <1>3, <1>17, <2>1 DEF Saves, BookSaves
  <2>2. CASE ~lastBook
    BY <1>2, <1>3, <1>17, <2>2 DEF Saves, CodeSaves
  <2> QED
    BY <1>2, <2>1, <2>2
<1>25. CASE LinkedResourceUpdated
  BY <1>1, <1>16, <1>25, RefreshAsked DEF LinkedResourceUpdated
<1>26. CASE SaveTabData
  <2>1. Saves(res, res', lastBook)
    BY <1>1, <1>2, <1>26, SavedFromBook, SavedFromCode DEF SaveTabData, Saves
  <2> QED
    BY <1>17, <1>26, <2>1 DEF SaveTabData
<1>27. ASSUME NEW ids \in SUBSET HeadingIds, NEW reformats \in BOOLEAN,
              SaveFile(ids, reformats)
       PROVE  ViewsAgree'
  <2>1. UNCHANGED <<tab, lastBook, split>>
    BY <1>27 DEF SaveFile
  <2>2. CASE tab = "closed"
    BY <1>1, <1>16, <1>27, <2>1, <2>2, IdsGiven DEF SaveFile
  <2>3. CASE tab = "open"
    <3>1. PICK n : n = GiveIDsToHeadings(SaveTabContent(res, lastBook), ids)
      OBVIOUS
    <3>2. n \in Caches /\ Saves(res, n, lastBook)
      BY <1>1, <1>2, <3>1, SavedWithIds
    <3>3. \/ focus' = focus /\ res' = n
          \/ focus' = LastView /\ res' = FocusReturns(n, reformats)
      BY <1>27, <2>3, <3>1 DEF SaveFile
    <3>4. CASE focus' = focus /\ res' = n
      BY <1>17, <2>1, <2>3, <3>2, <3>4
    <3>5. CASE focus # LastView /\ focus' = LastView /\ res' = FocusReturns(n, reformats)
      <4>1. CASE focus = "away" /\ lastBook
        <5>1. BookLoads(n, res') /\ BookSaves(res, n)
          BY <2>3, <3>2, <3>5, <4>1, LoadedToBook DEF FocusReturns, Saves
        <5> QED
          BY <1>2, <1>3, <2>1, <2>3, <3>5, <4>1, <5>1 DEF BookLoads, BookSaves
      <4>2. CASE focus = "away" /\ ~lastBook
        <5>1. CodeLoads(n, res') /\ CodeSaves(res, n)
          BY <1>2, <2>3, <3>2, <3>5, <4>2, LoadedToCode DEF FocusReturns, Saves
        <5> QED
          BY <1>2, <1>3, <2>1, <2>3, <3>5, <4>2, <5>1 DEF CodeLoads, CodeSaves
      <4>3. CASE focus = "code" /\ lastBook
        <5>1. BookEnters(n, res') /\ BookSaves(res, n)
          BY <3>2, <3>5, <4>3, BookEntered DEF FocusReturns, Saves
        <5>2. EditsOf(res).text = EditsOf(res).web
          BY <3>5, <4>3
        <5>3. CASE res.webModified
          BY <1>2, <1>3, <2>1, <2>3, <3>5, <4>3, <5>1, <5>2, <5>3 DEF BookEnters, BookSaves
        <5>4. CASE ~res.webModified
          BY <1>2, <1>3, <2>1, <2>3, <3>5, <4>3, <5>1, <5>2, <5>4 DEF BookEnters, BookSaves
        <5> QED
          BY <5>3, <5>4
      <4>4. CASE focus = "book" /\ ~lastBook
        <5>1. CodeEnters(n, res') /\ CodeSaves(res, n)
          BY <1>2, <3>2, <3>5, <4>4, CodeEntered DEF FocusReturns, Saves
        <5>2. EditsOf(res).text = EditsOf(res).web
          BY <3>5, <4>4
        <5>3. CASE res.textModified
          BY <1>2, <1>3, <2>1, <2>3, <3>5, <4>4, <5>1, <5>2, <5>3 DEF CodeEnters, CodeSaves
        <5>4. CASE ~res.textModified
          BY <1>2, <1>3, <2>1, <2>3, <3>5, <4>4, <5>1, <5>2, <5>4 DEF CodeEnters, CodeSaves
        <5> QED
          BY <5>3, <5>4
      <4> QED
        BY <1>2, <3>5, <4>1, <4>2, <4>3, <4>4
    <3>6. CASE focus = LastView /\ focus' = LastView /\ res' = FocusReturns(n, reformats)
      <4>1. focus' = focus /\ res' = n
        BY <3>6 DEF FocusReturns
      <4> QED
        BY <3>4, <4>1
    <3> QED
      BY <3>3, <3>4, <3>5, <3>6
  <2> QED
    BY <1>2, <2>2, <2>3
<1>18. CASE SwitchTab
  <2>1. /\ tab = "open" /\ focus = "away"
        /\ res' = LoadTabContent(res, lastBook) \/ res' = SaveTabContent(res, lastBook)
        /\ UNCHANGED <<tab, lastBook, split, focus, made>>
    BY <1>18 DEF SwitchTab
  <2>2. CASE lastBook
    <3>1. BookLoads(res, res') \/ BookSaves(res, res')
      BY <1>1, <2>1, <2>2, LoadedToBook, SavedFromBook
    <3> QED
      BY <1>2, <1>3, <2>1, <2>2, <3>1 DEF BookLoads, BookSaves
  <2>3. CASE ~lastBook
    <3>1. CodeLoads(res, res') \/ CodeSaves(res, res')
      BY <1>1, <1>2, <2>1, <2>3, LoadedToCode, SavedFromCode
    <3> QED
      BY <1>2, <1>3, <2>1, <2>3, <3>1 DEF CodeLoads, CodeSaves
  <2> QED
    BY <1>2, <2>2, <2>3
<1>19. ASSUME NEW e \in Edits \ made, TypeInBookView(e) \/ (ReplaceInTab(e) /\ lastBook)
       PROVE  ViewsAgree'
  <2>1. /\ lastBook /\ focus \in {"book", "away"} /\ res' = EditBook(e)
        /\ UNCHANGED <<tab, lastBook, split, focus>>
    BY <1>2, <1>19 DEF TypeInBookView, ReplaceInTab, Takes
  <2>2. BookEdited(res, res', e)
    BY <1>1, <2>1, EditedInBook
  <2>3. EditsOf(res).oldSource # NoSource => e \notin EditsOf(res).oldSource
    BY MadeEdits
  <2>4. tab = "open"
    BY <1>2, <1>19, <2>1 DEF TypeInBookView, ReplaceInTab
  <2>5. SourcesAgree'
    <3>2. \/ EditsOf(res).oldSource = EditsOf(res).text \/ EditsOf(res).oldSource = NoSource
          \/ /\ EditsOf(res).text \subseteq EditsOf(res).web
             /\ EditsOf(res).text \subseteq EditsOf(res).dom
             /\ \/ EditsOf(res).oldSource \subseteq EditsOf(res).text
                \/ ~(EditsOf(res).oldSource \subseteq EditsOf(res).web \cup EditsOf(res).dom)
      BY <2>1, <2>4
    <3> QED
      BY <2>2, <2>3, <3>2 DEF BookEdited
  <2>6. OtherShows' /\ OpenedShows'
    BY <1>2, <2>1, <2>2, <2>4 DEF BookEdited
  <2> QED
    BY <2>1, <2>4, <2>5, <2>6
<1>20. ASSUME NEW e \in Edits \ made, NEW wf \in BOOLEAN,
              TypeInCodeView(e, wf) \/ (ReplaceInTab(e) /\ ~lastBook /\ wf = res.wellFormed)
       PROVE  ViewsAgree'
  <2>1. /\ ~lastBook /\ focus \in {"code", "away"} /\ res' = EditCode(e, wf)
        /\ UNCHANGED <<tab, lastBook, split, focus>>
    BY <1>2, <1>20 DEF TypeInCodeView, ReplaceInTab, Takes
  <2>2. CodeEdited(res, res', e, wf)
    BY <1>1, <2>1, EditedInCode
  <2>3. tab = "open"
    BY <1>2, <1>20, <2>1 DEF TypeInCodeView, ReplaceInTab
  <2> QED
    BY <1>2, <2>1, <2>2, <2>3 DEF CodeEdited
<1>21. ASSUME NEW e \in Edits \ made, ReplaceInTab(e)
       PROVE  ViewsAgree'
  <2>1. res.wellFormed \in BOOLEAN
    BY <1>1 DEF Caches, CachesOf
  <2> QED
    BY <1>2, <1>19, <1>20, <1>21, <2>1
<1>22. ASSUME NEW e \in Edits \ made, DomDocumentUpdated(e)
       PROVE  ViewsAgree'
  <2>1. /\ focus = "away" /\ DomEdited(res, res', {e})
        /\ UNCHANGED <<tab, lastBook, split, focus>>
    BY <1>1, <1>22, EditedInDom DEF DomDocumentUpdated
  <2>2. EditsOf(res).oldSource # NoSource => e \notin EditsOf(res).oldSource
    BY MadeEdits
  <2> QED
    BY <1>2, <1>3, <2>1, <2>2 DEF DomEdited
<1>23. ASSUME NEW e \in Edits \ made, NEW links \in SUBSET (Edits \ (made \cup {e}))
       PROVE  ~SplitChapter(e, links)
  <2>1. SplitChapter(e, links) => Takes({"splitchapter"} \cup OutsideLastView)
    BY DEF SplitChapter
  <2> QED
    BY <2>1 DEF Takes
<1>24. ASSUME NEW e \in Edits \ made, NEW links \in SUBSET (Edits \ (made \cup {e})),
              SplitOnSGFChapterMarkers(e, links)
       PROVE  ViewsAgree'
  <2>1. tab = "open" /\ focus \in {LastView, "away"} /\ (lastBook \/ res.wellFormed)
    BY <1>2, <1>24 DEF SplitOnSGFChapterMarkers, OutsideLastView, Takes, IsDataWellFormed
  <2>2. PICK saved : saved = SaveTabContent(res, lastBook)
    OBVIOUS
  <2>3. saved \in Caches /\ Saves(res, saved, lastBook)
    BY <1>1, <1>2, <2>2, SavedFromBook, SavedFromCode DEF Saves
  <2>4. PICK first : first = MarkSecondaryCachesAsOld([saved EXCEPT !.dom = @ \cup {e}])
    OBVIOUS
  <2>5. PICK linked : linked = UpdateAnchors(first, links)
    OBVIOUS
  <2>6. linked \in Caches /\ DomEdited(saved, linked, links \cup {e})
    <3>1. first \in Caches /\ DomEdited(saved, first, {e})
      BY <2>3, <2>4, EditedInDom
    <3>2. linked \in Caches /\ (DomEdited(first, linked, links) \/ (links = {} /\ linked = first))
      BY <2>5, <3>1, AnchorsUpdated
    <3> QED
      BY <3>1, <3>2 DEF DomEdited
  <2>7. res' = LoadTabContent(linked, lastBook) /\ UNCHANGED <<tab, lastBook, split, focus>>
    BY <1>24, <2>2, <2>4, <2>5 DEF SplitOnSGFChapterMarkers
  <2>8. CASE lastBook
    <3>1. BookLoads(linked, res') /\ BookSaves(res, saved)
      BY <2>3, <2>6, <2>7, <2>8, LoadedToBook DEF Saves
    <3>2. /\ EditsOf(res').text = EditsOf(res).text /\ EditsOf(res').web = EditsOf(res').dom
          /\ EditsOf(res').dom = EditsOf(saved).dom \cup links \cup {e}
          /\ EditsOf(res').oldSource = EditsOf(res).oldSource
          /\ ~res'.sourceIsWeb /\ res'.textIsOld
      BY <2>6, <3>1 DEF BookLoads, BookSaves, DomEdited
    <3>3. EditsOf(saved).dom = EditsOf(res).dom \/ EditsOf(saved).dom = EditsOf(res).web
      BY <3>1 DEF BookSaves
    <3>4. EditsOf(res).oldSource # NoSource =>
            \A d : EditsOf(res).oldSource \subseteq d \cup links \cup {e}
                    => EditsOf(res).oldSource \subseteq d
      BY MadeEdits
    <3>5. SourcesAgree'
      <4>1. CASE EditsOf(res).oldSource = EditsOf(res).text \/ EditsOf(res).oldSource = NoSource
        BY <2>7, <2>8, <3>2, <4>1
      <4>2. CASE /\ EditsOf(res).oldSource # EditsOf(res).text
                 /\ EditsOf(res).oldSource # NoSource
        <5>1. EditsOf(res).text \subseteq EditsOf(saved).dom
          BY <2>1, <2>8, <3>3, <4>2
        <5>2. \/ EditsOf(res).oldSource \subseteq EditsOf(res).text
              \/ ~(EditsOf(res).oldSource \subseteq EditsOf(saved).dom)
          BY <2>1, <2>8, <3>3, <4>2
        <5>3. EditsOf(res).oldSource \subseteq EditsOf(res').dom
                => EditsOf(res).oldSource \subseteq EditsOf(saved).dom
          BY <3>2, <3>4, <4>2
        <5> QED
          BY <2>7, <2>8, <3>2, <5>1, <5>2, <5>3
      <4> QED
        BY <4>1, <4>2
    <3> QED
      BY <1>2, <2>1, <2>7, <2>8, <3>2, <3>5
  <2>9. CASE ~lastBook
    <3>1. CodeLoads(linked, res') /\ CodeSaves(res, saved)
      BY <1>2, <2>3, <2>6, <2>7, <2>9, LoadedToCode DEF Saves
    <3> QED
      BY <1>2, <1>3, <2>1, <2>6, <2>7, <2>9, <3>1 DEF CodeLoads, CodeSaves, DomEdited
  <2> QED
    BY <1>2, <2>8, <2>9
<1> QED
  BY <1>4, <1>5, <1>6, <1>7, <1>10, <1>11, <1>12, <1>13, <1>14, <1>15, <1>18, <1>19, <1>20,
     <1>21, <1>22, <1>23, <1>24, <1>25, <1>26, <1>27
  DEF Next

LEMMA AlwaysAgree ==
    Spec => [](TypeInv /\ Made /\ (taken \subseteq {"replace", "unfocused"} => ViewsAgree))
<1> DEFINE Agree == TypeInv /\ Made /\ (taken \subseteq {"replace", "unfocused"} => ViewsAgree)
<1>1. Init => Agree
  <2> SUFFICES ASSUME Init PROVE ViewsAgree
    BY InitTypes
  <2>1. PICK refresh \in BOOLEAN :
          res = [dom |-> {}, web |-> {}, text |-> {}, oldSource |-> NoSource,
                 sourceIsWeb |-> FALSE, webModified |-> FALSE, textModified |-> FALSE,
                 webIsOld |-> TRUE, textIsOld |-> TRUE,
                 refreshNeeded |-> refresh, wellFormed |-> TRUE]
    BY DEF Init
  <2> QED
    BY <2>1 DEF Init, EditsOf, ViewsAgree, ClosedShows, SourcesAgree, OtherShows,
       MalformedIsStored
<1>2. Agree /\ [Next]_vars => Agree'
  BY HistoryGrows, TypeStep, ViewsStep
<1> QED
  BY <1>1, <1>2, PTL DEF Spec

\* While the last view has the focus it shows exactly the edits that saving would
\* store, also when the book was searched and replaced in and tabs were opened
\* and changed without having the focus: what the user does not see is not
\* saved, and what is seen is.  Only the ids of a book save may be hidden.
THEOREM NothingIsHidden == Spec => []UserSeesWhatIsSaved
<1>1. ASSUME TypeInv, taken \subseteq {"replace", "unfocused"} => ViewsAgree
      PROVE  UserSeesWhatIsSaved
  <2> SUFFICES ASSUME ViewsAgree, focus = LastView
               PROVE  Shown \ HeadingIds = Saved \ HeadingIds
    BY <1>1 DEF UserSeesWhatIsSaved
  <2>1. /\ res \in Caches /\ tab \in {"closed", "open"} /\ lastBook \in BOOLEAN
    BY <1>1, CachesTyped DEF TypeInv
  <2>2. /\ tab = "open" /\ focus = IF lastBook THEN "book" ELSE "code"
        /\ LastModified \/ LastContent = EditsOf(res).dom
    BY <2>1 DEF ViewsAgree, ClosedShows, OpenedShows, LastView
  <2>3. PICK n : n = SaveTabContent(res, lastBook)
    OBVIOUS
  <2>4. EditsOf(n).dom = LastContent
    <3>1. CASE lastBook
      BY <2>1, <2>2, <2>3, <3>1, SavedFromBook DEF BookSaves, LastModified, LastContent
    <3>2. CASE ~lastBook
      BY <2>1, <2>2, <2>3, <3>2, SavedFromCode DEF CodeSaves, LastModified, LastContent
    <3> QED
      BY <3>1, <3>2
  <2>5. Shown \ HeadingIds = LastContent
    BY <2>1, <2>2 DEF Shown, LastContent, EditsOf
  <2>6. Saved \ HeadingIds = EditsOf(n).dom
    BY <2>2, <2>3 DEF Saved, EditsOf
  <2> QED
    BY <2>4, <2>5, <2>6
<1> QED
  BY <1>1, AlwaysAgree, PTL
=============================================================================
