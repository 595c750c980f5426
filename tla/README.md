# Sigil: models and proofs

This directory holds TLA+ models of the core of Sigil, the WYSIWYG ebook
editor under `src/`, the TLC configurations that check them and TLAPS proofs.
Paths below are relative to `src/src/Sigil` unless they start with `src/`.

Sigil keeps a book as a folder of files. Every file is a `Resource` object; the
OPF (package document), the NCX, the stylesheets and the chapters are edited
in memory, by the user through tabs, and by the program through commands that
run over the whole book, partly on the threads of `QThreadPool`. What the code
has to get right is the agreement of copies: two copies of an XML text, three of
a chapter, and the list of files in the folder and in the package document.

## Inventory

| Part | State | Operations | Talks to | Hard part | Correct when |
|---|---|---|---|---|---|
| Text resources (`ResourceObjects/TextResource.cpp`, `XMLResource`, `CSSResource`) | text document, cache, cache flag, file | `GetText`, `SetText`, `DelayedUpdateToTextDocument`, `InitialLoad`, `SaveToDisk` | pool threads, GUI event queue, Code View | only the GUI thread may touch the document; the cache is delivered later | no update is lost, the document catches up |
| Source updates (`SourceUpdates/*`) | none; locks of the resources | `PerformUniversalUpdates`, `UpdateAnchors...` | every resource, `QtConcurrent` | read, modify and store are separate calls on several threads | every path is updated once, batches end |
| HTML resource (`ResourceObjects/HTMLResource.cpp`) | DOM, web page, text document, six flags and a source cache | conversions between the copies | tabs, source updates, linked resources | flags decide which copy overwrites which | no edit is overwritten by a stale copy |
| Flow tab (`Tabs/FlowTab.cpp`, `WellFormedCheckComponent`) | last view, Split View, focus | view switches, focus changes, save and load, well-formedness check | HTML resource, tab manager, Find & Replace | focus events come before or after commands | what the user sees is what is saved |
| Tab manager (`Tabs/TabManager.cpp`) | open tabs, current tab | open, switch, close, `SaveTabData` | tabs, main window | a tab that refuses to close | every tab is saved |
| OPF resource (`ResourceObjects/OPFResource.cpp`) | manifest, spine, guide, metadata: the text of a text resource | add, remove, rename, reading order, guide, cover | folder keeper, Book Browser | ids, hrefs and filenames name the same things three ways | it lists exactly the book's files, chapters in order |
| Folder keeper and Book (`BookManipulation/FolderKeeper.cpp`, `Book.cpp`) | the map of resources, the folder | add with a unique name, split, merge, create chapters, save | OPF, jobs | jobs that add files at once | unique names, nothing disappears |
| Book Browser (`MainUI/BookBrowser.cpp`, `OPFModel.cpp`) | a tree of the files | rename, remove, reorder, semantics, cover, merge | Book, OPF | commands in any order | the tree, the folder and the OPF agree |
| Find & Replace (`Dialogs/FindReplace.cpp`, `Misc/SearchOperations.cpp`) | a search position | replace in the current tab, in all files | tabs, DOMs | edits a tab that does not have the focus | no replacement is lost |
| Headings and NCX (`BookManipulation/Headings.cpp`, `BookNormalization.cpp`, `Dialogs/HeadingSelector.cpp`, `MainUI/TableOfContents.cpp`, `Exporters/NCXWriter.cpp`) | ids and marks of headings in the DOMs, the tree of the dialog, the nav points | choose headings, give ids, generate the NCX | HTML resources, NCX resource, saving | flat lists of levels made into trees, three times over; ids given at one time and used at another | order, nesting and links follow the headings |
| Table of contents pane (`MainUI/TableOfContents.cpp`, `NCXModel.cpp`) | a timer, a future, the tree shown | refresh | NCX resource, pool thread | changes while a refresh is in progress | the pane catches up |
| Importers (`Importers/ImportEPUB.cpp`, `ImportOEBPS.cpp`, `ImportHTML.cpp`) | the ids and files of the manifest, encryption.xml | load the files, update references, undo font obfuscation | folder keeper, source updates, fonts | one job for each file; names that clash | every file, link and font of the epub is in the book |
| Exporter (`Exporters/ExportEPUB.cpp`) | a copy of the folder | save the resources, copy, obfuscate fonts, pack | OPF identifiers, importer | steps that fail | what is saved is what is in memory, and can be opened again |
| Main window (`MainUI/MainWindow.cpp`, `Book::SetModified`) | the current book and path, the mark of the window | New, Open, Save, Save As, Close, the question before a book goes | everything | flags in two objects joined by a signal | no work is lost unasked |
| HTML cleaning, metadata, editors, dialogs | text and widgets | conversions, presentation | | | |
| FlightCrew and the libraries under `src/src` | none that outlives a call | | | vendored or sequential | |

`PROJECT.json` has the same list with what is modelled of each, and the hazards
with their lines.

## Modules

    TextResource ---- TextResourceProofs      one text and the threads that use it
    HTMLViews ------- HTMLViewsProofs         one chapter and its tab
    OPFResource <---- OPFBook ------- OPFBookProofs
                                              package document; files and commands
    BookStore <====== BookSession ---- BookSessionProofs
                                              what a store of books promises; tabs,
                                              marks, and the steps of a save
    Headings <------- HeadingSelector         trees of headings; the dialog, the NCX
    TableOfContents                           ids of headings and links to them
    NCXPane                                   the pane and its refresh
    TableOfContentsProofs                     about these three: TableOfContents,
                                              NCXPane, HeadingSelector
    BookSearch ------ BookSearchProofs        Find & Replace over all files
    EpubFile -------- EpubFileProofs          a book through an epub and back
    SequenceLemmas                            positions and enumerations, for the proofs of
                                              OPFBook, TableOfContents, HeadingSelector,
                                              BookSearch and EpubFile
    MCHTMLViews, MCOPFBook, MCBookSession, MCTableOfContents, MCBookSearch,
    MCEpubFile                                model values, symmetry, inputs for TLC

`<----` is EXTENDS, `<====` is a refinement, and a proof module extends what it
is about.

### TextResource

`doc`, `cache`, `cacheInUse` are `m_TextDocument`, `m_Cache`, `m_CacheInUse`;
`posted` counts calls in the GUI event queue; `disk` is the file; `writer` is
the write lock of the resource. `gui` says whether the GUI thread is in its
event loop, in an event handler, or waiting for a batch; `job`, `edit`, `local`
are each thread's job, its argument and the text it has read. A text is the set
of edits in it: every caller reads a text, changes it and sets the result, so a
missing edit is a lost update. `used`, `made`, `dropped` are history.

The actions are the calls and their atomic parts: `ReadForUpdate` (lock and
`GetText`), `StoreUpdate` (`SetText` and unlock), `AbandonUpdate` (malformed
XML), the lock-free pair `ReadForReload`, `StoreReload` of an import, typing
in a Code View, `InitialLoad`, `SaveToDisk`, and the delivery of the delayed
update. `StealJob` is `QFuture::waitForFinished`, which runs a job that no pool
thread has begun on the waiting thread. `kind`, which never changes, separates
the OPF and the NCX (loaded when constructed, updated by many) from stylesheets
(loaded on demand, updated by one job of a batch and possibly re-read).

### HTMLViews

`res` is the `HTMLResource`: the contents `dom`, `web`, `text`, the source
cache, and the flags old, modified, refresh. `m_RefreshNeeded` is not set by
the constructor, so `Init` allows both values. `lastBook`, `split`, `focus` are
the tab's. Two facts of Qt matter: `setPlainText` leaves the document
modified, and `QWebFrame::setContent` emits no `contentsChanged`, so the page's
modified flag stays what it was. A conversion may produce a source that differs
from the old one as a string though it has the same edits (`reformats`).

A book save (`SaveFile`) saves the tabs and then gives ids to headings in the DOM
in place (`GiveIDsToHeadings`; the ids are the constant `HeadingIds`) without marking
a view old; after the export the current tab gets the focus (`FocusReturns`). A save
and the closing of a tab are refused by the well-formedness of the current tab, which
while the focus is elsewhere may be another one (`CurrentTabIsWellFormed`).

Some things the user may do break what the rest keeps; the model calls them
detours, takes only those in the constant `Detours`, and remembers the ones
taken. A property says which detours it survives.

### OPFResource and OPFBook

`OPFResource` has the operations of `OPFResource.cpp` as operators on a
document `[manifest, spine, guide, cover]`. An href is the filename it
decodes to. Some lookups compare the encoded href with a path that was not
encoded; `ItemOfPath` therefore finds only the names in `Plain`. `GetUniqueID`
is the identity, because nothing declares an attribute of type ID and
`getElementById` finds no element. A removal keeps the elements at the positions
that stay (`SubsequenceAt`): positions are what the proofs count with, and the
library's `SelectSeq` has no definition that the prover can expand.

`OPFBook` has the commands: each action is the whole command with the
signals it sends (`ResourceAdded`, `Deleted`, `Renamed`) and the OPF update at
its end. `opf` and `cache` are the text document and the cache of the OPF as in
`TextResource`; edits become documents, jobs become the creation of one chapter
in two steps (`InsertChapter` under the folder's mutex, `ListChapter` under the
OPF's lock). A command of the user starts only when no batch runs and the
posted update was delivered (`Ready`): commands come from menus and editors
whose own rounds of the event loop deliver it. The other order is the subject
of `TextResource`.

### BookStore and BookSession

`BookStore` is the promise: one book in the program, a save puts exactly this
book into one file, a save that goes wrong damages at most the file it was
writing. Its variables are `work` and `stored`.

`BookSession` has several chapters with tabs (`dom`, `view`, `edited`, `tabs`,
`current`), the package document, which commands change without a tab, the
folder, the copy of it that an export makes (`publication`) and the epub files.
`path`, `bookModified` and `windowModified` are `m_CurrentFilePath`,
`Book::m_IsModified` and the mark of the window; a signal joins the last two
only when the first of them changes. `SaveFile` takes one step for each thing
that can fail (`WriteFolder`, `CopyPublication`, `CreateZip`, which empties the
old epub, `CloseZip`); before each of them `SaveFails` (an exception that
`SaveFile` catches) or `Terminate` (one that leaves a job of `blockingMap` and
ends the program) may come. `then` is what the user was about to do. History
variables: `discarded` (the answer to the question), `unmarked` (edits that never
mark the book: Replace All in files, and `ChangePackageQuietly`, which is the Metadata
Editor, dragged chapters and fonts' obfuscation methods), `failed` and `lost`.
`Store == INSTANCE BookStore WITH work <- Work, stored <- epub`, where `Work` is
a book with the edits that are still in tabs.

### Headings, HeadingSelector, TableOfContents

`Headings` makes a flat list of levels into a tree, as `Headings.cpp` does. A tree is
an outline: its nodes from top to bottom with their depths, so that the nodes a node
is inside of (`Above`) and the last child, its last child and so on (`LastChildren`)
are sets of positions. Adding a child at the end of the last child of a node appends
to the outline, and taking an item's row out of the tree and inserting it elsewhere
(`MoveRow`) moves a stretch of it. `HeadingSelector` is the dialog: the tree of
widgets, which is changed item by item when headings are included and excluded
(`RaiseRow`, `RemoveItem`), and the NCX that OK writes from a new tree. Recursion is
by recursive functions over positions. The reference definition the trees are compared with is `ParentIn`: the
nearest bigger heading before. `TableOfContents` is about ids: a save gives ids
to headings in the DOMs and tells no view; the dialog saves the tabs, gives no
ids, writes links and marks views old; the user edits between them.

### NCXPane

Its definitions begin with `Pane`, so that one module can prove about it and about
`TableOfContents`.
`m_RefreshTimer`, `m_RefreshInProgress` and the future (`job`, `result`) of the
refresh. `refused` remembers a call of `Refresh` that was refused when the pool
thread had already read the NCX.

### BookSearch

The text of a tab is a row of places that match or do not. A search begins in the
current tab, from the caret or from an end of the text (`FindNext`, in
`FindButton` and `ReplaceButton`); if it finds nothing, `Scan` goes from one
chapter to the next in reading order and opens the first with a match. The
dialog then processes events until the tab is loaded, and goes on (`Resume`).
`waiting` are the searches that are inside such a wait, one in the other: the user may switch
tabs or search again there. `last` is `m_LastUsedSearchable`, not initialised by
the constructor, so `Init` allows every tab. The 0 ms timer of a tab's loading
fires before user input that comes later. In the current file the Book View is searched as the Code
View is; where the caret of a tab stands that has not been shown is arbitrary. A text
goes on behind its last place, but in the chapters `AtTheEnd`: there this place is one
character, the last of the text (`TextLength`).
The spine does not change during a search and a replacement does not contain the
search term.

### EpubFile

An epub has files, manifest items, links between files, `encryption.xml` and
identifiers. Loading has a job for each file (`UniqueVersion` under the folder's
mutex), in any order; then the links are updated, as `SeparateHtmlCssXmlUpdates`
shares them out: the package document's for every file, references in chapters not for
fonts, styles for fonts and stylesheets only, each from a hash with an order of its own
that is left open. A link has a form: a reference, or what a style, a chapter's own
included, gives as `url( )` or as `@import`. Then fonts are
de-obfuscated. A content is what it was in the first epub plus the set of keys
its bytes were combined with. The user changes a font's method; saving writes
manifest, encryption and obfuscated fonts; the saved file is loaded again. The
package document is in `OEBPS`; the NCX, whose links are updated like those of
the package document, and `ImportHTML` are left out. A path is its folders and its
name; a relative one begins with the `..` it needs (`Resolve`). The code compares
paths as strings, the model as what they lead to. Hrefs are spelled as short
as they can be (`Hrefs`), which `Items` asks of the first epubs and which updates keep;
then two of them are equal exactly if they lead to one file. The paths of
`encryption.xml` begin at the root, though, and the two spellings of a file are the
same only below `OEBPS` (`SpelledAlike`). The loops over the manifest, over `encryption.xml` and
over the hash of updates are given by what they return, so that the proofs need no
induction over them; only the repeated replacement in a stylesheet is a recursive
function (`UpdateStyle`).

## Runs

| Run | Checks | States | Shows |
|---|---|---|---|
| `text` | TypeInv, OneDelayedUpdate, EditsSurvive, TextChangesOnlyWhenSet, DocumentCatchesUp, BatchEnds | 66,841 | three threads that read, modify and store one text lose nothing except in the ways named in `dropped`; one delayed update is posted and made; batches end |
| `html_tab` | TypeInv, SavingStoresEveryEdit, UserSeesWhatIsSaved, DomIsFinalArbiter | 1,116,668 | the flags keep three copies in step through every sequence of view switches, focus changes, dialogs, splits and book saves, except for the ids that a save gives to headings |
| `opf_book` | ManifestListsTheBook, SpineListsTheChapters, MergeHasPrevious, ReadingOrderKept, SplitPutsFirstPartBefore, SemanticsFollowTheChapter | 9,804 | the package document follows every command while no name needs encoding |
| `opf_chapters` | TypeInv, FilenamesAreUnique, JobsListTheirChapters | 71,421 | jobs at once never choose one name twice, and what pool threads list is in the document they leave |
| `book_session` | TypeInv, OnlyTheCurrentTabIsUnsaved, UnmarkedBookIsStored, ModifiedBookMarksTheWindow, LossIsExcused, StoresTheBook | 608,094 | the steps of a session, a save that fails anywhere included, implement `BookStore`; no work is lost but by Discard, a failed save or as an edit that nothing marked |
| `heading_selector` | NavMapFollowsTheHeadings, DialogShowsWhatIsGenerated | 284,300 | for every list of levels and every sequence of choices the tree shown is the table of contents that is written, and it is the one the headings define |
| `toc` | IdsClashOnlyWithUnwanted, NavPointsLeadToTheirHeading | 101,934 | the links of the NCX keep leading to their headings through saves, edits and generations |
| `ncx_pane` | PaneTypeInv, StalePaneWillBeRefreshed, PaneCatchesUp | 15,774 | the pane catches up, unless a refresh was refused |
| `book_search` | NoMatchIsSkipped, OpenedChapterHasTheMatch, SearchEnds | 422,844 | a search finds the next match in reading order and ends, with the user acting while a tab loads; only going up it misses a match of one character at the end of a text |
| `book_search_hangs` | SearchAlwaysEnds, violated | | two chapters that the spine does not list keep Direction All from ending |
| `epub_file` | TypeInv, FontsAreReadable, SavedBookOpens, LinksAreKept, ManifestIsKept | 1,182,180 | names that clash, fonts declared twice, nowhere or outside `OEBPS`, two saves: links that are updated lead to the same files, listed files stay, fonts that are de-obfuscated stay readable |
| `epub_fonts` | ObfuscationIsUndone, violated | | a font that a new book obfuscates with the IDPF method is garbled when the saved epub is opened |

Bounds. `text`: two workers and the GUI thread give every pair of a reader and a
writer and a third thread in between; four edits give two concurrent updates,
one made before and one after. `html_tab`: three edits let each copy hold an edit
that the others lack, and one id of a heading is in the DOM only. `opf_book`: three chapters are the fewest with a first, a
middle and a last one; four names leave a free section name; two guide types and
two references. `opf_chapters`: four chapters and three jobs, which finish in
every order with the GUI thread between them. `book_session`: two chapters (a
tab that is current and one that is not), two edits, two paths (Save As, and a
book opened over another). `heading_selector`: four headings and four levels give
a skipped level, a fall back and a child whose parent is excluded. `toc`: three
headings in two files. `ncx_pane`: three books and three changes, so that a
change and a book may come while a refresh of an older one is in progress.
`book_search`: three chapters and a stylesheet, at most two matches, four spines
(one with an itemref that leads nowhere), two chapters whose text ends with a place,
two searches inside each other.
`epub_file`: 12 epubs whose names clash, one with a chapter at the root, and 29 with
fonts, four of them outside `OEBPS`, two saves and two
choices of a method: a key applied, removed and applied again. `MaxNewChapters`,
`MaxReferences`, the length of `Section`, `MaxWaiting`, `MaxEdits`, `MaxSaves`
and `MaxChoices` bound what the code leaves unbounded; they appear only in
guards.

Deadlock is checked except where the bounds end the user's part: in `ncx_pane`,
when all books have been opened and all changes made and the pane has caught
up, and in the runs of `EpubFile`, after the last save and choice. Everywhere
else the user or the event loop can always do something.

Fairness. `TextResource`: a pool thread with a job, and a handler that can go
on, run: weak fairness, the scheduler's. The delayed update has strong
fairness: while a handler runs the GUI thread cannot deliver it, but every round
of the event dispatcher sends the posted events, so a call that becomes possible
again and again is made. `NCXPane`: weak fairness of the timer's timeout, of the
job on the pool thread, and of the delivery of `finished()`. `BookSearch`: weak
fairness of one step of the loop over the chapters, which runs on the GUI thread
without processing events. Nothing is assumed of the user.

## Differences between the code and what it says

Two runs violate a statement of the repository; the quotations are in
`PROJECT.json`.

- `book_search_hangs`: `GetNextContainingHTMLResource` (`FindReplace.cpp:465`)
  ends where it started, but a chapter that the spine does not list has reading
  order -1 and the loop never comes back to a second such chapter.
- `epub_fonts`: the export makes the IDPF key of the identifier without
  `urn:uuid:`, the import of the identifier as it is (`ImportEPUB.cpp:220`). The
  second opening garbles the font, and a new book's identifier has the prefix.

These were met while modelling and are visible in the models, where the
properties except them by name; no run is spent on them.

Texts and chapters:

- `SetText` on the GUI thread (`TextResource.cpp:63`) writes the document and
  leaves the cache in use, so the delayed update brings the old text back. A
  new chapter order is overwritten (`Book.cpp:229`; `src/ChangeLog.txt:5-6`), and
  a chapter that the waiting GUI thread listed itself is lost (`Book.cpp:219`;
  `src/ChangeLog.txt:35-36`). `EditsSurvive` excepts what is in `dropped`,
  `JobsListTheirChapters` what was stolen.
- An update of a stylesheet that was never loaded is lost
  (`UniversalUpdates.cpp:167`; `src/ChangeLog.txt:115-116`).
- `SaveToDisk` writes the text document also when newer text is in the cache.
- The source the user repairs by hand in Split View is not saved
  (`FlowTab.cpp:845`, `HTMLResource.cpp:226`, `WellFormedCheckComponent.cpp:44`).
- A replacement in a view that is not up to date is overwritten
  (`FindReplace.cpp:202`). Detour `replace`.
- `FlowTab::SplitView` (`Tabs/FlowTab.cpp:750`) makes the other view the last
  one and leaves the focus: what is typed in the pane with the focus is not what
  `SaveTabContent` stores. Detour `otherpane`.
- A chapter split adjusts links in the DOM of the open tab (`AnchorUpdates.cpp:72`);
  a tab that keeps the focus is not reloaded and overwrites them. Detour
  `splitchapter`.
- The ids that a book save gives to headings (`BookNormalization.cpp:64`) are not in
  a view that keeps the focus, and its next save takes them out of the DOM again.
  `UserSeesWhatIsSaved` and `DomIsFinalArbiter` are about everything but `HeadingIds`.
- The comment at `UniversalUpdates.cpp:89-92` says the OPF and the NCX are
  updated on the GUI thread so that no event crosses threads; `SetText` has
  had a cache for that since.

Package document:

- With a name outside `Plain`, `GetReadingOrder` is -1 after the rename of a
  split and the assertion of `Book.cpp:165` fails; rename and split give two
  items one id (`OPFResource.cpp:533`; `src/ChangeLog.txt:37-38`); a reordering
  writes an itemref with an empty idref, against the comment at
  `OPFResource.cpp:788`; and the first chapter's menu may offer the merge. The
  runs of `OPFBook` have plain names only.
- `ResourceRenamed` gives an item a new id and does not change the cover meta
  that names the old one (`OPFResource.cpp:540`).
- `RemoveResource` leaves the guide references of a deleted chapter behind
  (`OPFResource.cpp:398`); the premise `GuideNamesChapters` of
  `SemanticsFollowTheChapter` is needed for it.

Saving and leaving:

- `SaveFile` returns true after an exception it caught (`MainWindow.cpp:1001`),
  so the caller closes or replaces the book: `failed` excuses it in
  `LossIsExcused`. The old epub is emptied before the new one is written
  (`ExportEPUB.cpp:136`): `BookStore` has `Damage` for it.
- A book that is opened is unmodified already, so no signal clears the mark that
  the window has from the book before (`MainWindow.cpp:868`): the user is asked
  about a book that did not change. The other way round is
  `ModifiedBookMarksTheWindow`, which holds.
- Some edits are made without `SetModified`: Replace All in files
  (`SearchOperations.cpp:52`), the Metadata Editor, which writes to the package document
  itself (`Dialogs/MetaEditor.cpp:210`), chapters dragged to another place
  (`OPFModel.cpp:308`) and a font's obfuscation method (`BookBrowser.cpp:322-353`). A
  book with nothing else new is closed without a question. `unmarked` has these edits,
  and `UnmarkedBookIsStored` and `LossIsExcused` except them.

Headings, table of contents, search:

- A save gives ids in the DOMs and marks no view old
  (`BookNormalization.cpp:40`): the next save of a tab takes them away. An id may
  be given twice beside a heading that is not wanted (`BookNormalization.cpp:90`),
  and a merge of chapters brings together headings with one id. Generating
  before ids were given writes links that end in `#` (`TableOfContents.cpp:144`).
- Without headings the NCX has one nav point and depth 0 (`NCXWriter.cpp`).
- A refresh of the pane that is refused (`NCXModel.cpp:71`) may leave it stale
  until the next change, and `BuildModel` keeps the tree of the book before
  when the new NCX has no entries (`NCXModel.cpp:199`).
- Direction All leaves out matches above the caret of the current file; a
  search from the tab of a stylesheet leaves out the first chapter; Direction
  Up from the beginning of a text wraps in that text (`lastIndexOf` with -1); an
  index of the spine is used for the list of chapters. `NoMatchIsSkipped` has
  premises for them.
- Upwards a whole text is searched from its length less one (`CodeViewEditor.cpp:705`),
  and one more is subtracted (`Misc/Searchable.cpp:54`): a match of one character at the
  end of the text is not found. It is the exception `MissedUpwards` of
  `NoMatchIsSkipped` and `OpenedChapterHasTheMatch`, and the scan may open such a
  chapter for nothing.
- Replace with nothing selected and the caret in front of a match inserts the
  replacement and leaves the match (`CodeViewEditor.cpp:330-333`); `ReplaceButton` then
  changes no match. The Book View's end of a selection is one character further; no
  place of the model begins there. Selections that are not matches, and empty matches, are
  not modelled.

Epub files:

- A font that the manifest and `encryption.xml` both list is loaded twice, and the
  second copy stays, unlisted and garbled (`ImportEPUB.cpp:159`;
  `src/ChangeLog.txt:290-291`); a font listed only in `encryption.xml` gets no
  item, and is lost once it is saved without a method.
- Adobe's method with an identifier that is a UUID without `urn:uuid:` saves a book
  that cannot be opened (`ImportOEBPS.cpp:206`, `ImportEPUB.cpp:216`); with several
  identifiers export and import may take different ones.
- Of two manifest items with one id only the last one's file is loaded
  (`ImportOEBPS.cpp:235`), and a file that is listed twice is lost when the id of its
  first item is taken: the second was not counted. `ManifestIsKept` has `IdsAreOwn`
  for it. A missing file keeps its item.
- An obfuscated font outside the package document's folder stays garbled: its path is
  put together as `OEBPS/../Fonts/f.ttf` (`ImportOEBPS.cpp:298`) and compared with
  the path in `encryption.xml` as a string (`ImportEPUB.cpp:194`). `misled` has it.
- A chapter's references to fonts, and links of styles to chapters, are not updated
  (`UniversalUpdates.cpp:119-139`): when the file gets another folder or name they
  lead nowhere. `IsUpdated` says which links `LinksAreKept` is about.
- A file that the manifest spells in two ways is loaded twice
  (`ImportOEBPS.cpp:233`; `src/ChangeLog.txt:290-291`), and only the spelling that
  `encryption.xml` has is de-obfuscated (`ImportEPUB.cpp:194`). The models' epubs
  have one spelling for each file.
- Two files with one name in different folders are told apart by the name of
  the folder only (`PerformXMLUpdates.cpp:125`), in stylesheets not at all, and a
  new name that is another file's old one is replaced again
  (`PerformCSSUpdates.cpp:39`). The loop at `PerformCSSUpdates.cpp:66` ends one
  capture early, so `@import "x"` is never updated (`src/ChangeLog.txt:43-44`).
- An identifier that is `urn:uuid:` and nothing else gives an empty key and a
  remainder by zero (`FontObfuscation.cpp:90`); the model's identifiers have a
  value.

## Proofs

Every invariant and action property that a run checks is a theorem, for any values of
the constants that satisfy the named assumptions of their modules, except those of
the two runs that are violated. `SequenceLemmas` has what four of the proofs need
about sequences.

`TextResourceProofs`, for any sets of workers and edits and for both kinds:
`TypeCorrect` (`[]TypeInv`), `DelayedUpdateIsSingle` (`[]OneDelayedUpdate`),
`NoLostUpdates` (`[]EditsSurvive`), `DeliveryIsInvisible`
(`TextChangesOnlyWhenSet`). Assumed: the GUI thread is no pool thread, the
original content is no edit. `EditsSurvive` is not inductive: a thread that has
read the text stores what it read plus its edit, so nothing must change between
its two calls. `IInv` adds that the write lock belongs to exactly the thread
between `GetText` and `SetText` (`LockHeld`), that what this thread has read is
still what `GetText` returns (`ReadIsCurrent`), that a reload, which takes no
lock, is alone on a pool thread (`ReloadIsAlone`), and that no job is left when
the event loop runs (`WorkNeedsHandler`), which is what keeps typing and
delivery away from a read text. The step is proved action by action;
`SetTextEffect` states once what `SetText` does to the types, to the posted call
and to a reader.

`BookSessionProofs`, for any chapters, edits and paths: `TypesHold`
(`[]TypeInv`), `TabsAreSaved` (`[]OnlyTheCurrentTabIsUnsaved`), `ModifiedIsMarked`
(`[]ModifiedBookMarksTheWindow`), `LossNeedsAnExcuse` (`[]LossIsExcused`),
`UnmarkedIsStored` (`[]UnmarkedBookIsStored`), and `SessionImplementsStore`
(`Spec => Store!Spec`). Assumed: the values that stand
for no path, no file and a damaged file are none of the others. `LossIsExcused`
says nothing about the moment before a loss; `IInv` adds that the copies a save
makes agree with the book while it runs (`CopiesAgree`: folder, then
publication), and that a book that may be let go without a question has all its
edits in a file or excused (`LetGoIsSafe`). `CopiesAgree` needs that no tab holds
an edit during a save (`OnlyTheCurrentTabIsUnsaved`), and `LetGoIsSafe` that a
modified book has marked its window. `UnmarkedBookIsStored` is about the file in
the title bar, which a Save As, an Open or a failure changes in other steps than
the marks (edits that nothing marked, whichever of the two kinds, go through one
lemma, `QuietEditAdds`): `OwnFileHasIt` says it of every moment but those in which that very
file is being written, and its step needs `CopiesAgree` again. For the refinement every action is shown to
be a step of the store or a stutter: edits are `Store!Edit`, `CreateZip` and
failures `Store!Damage`, `CloseZip` `Store!Save`, where `CopiesAgree` gives that
what is packed is the book; the other steps of a save and of the tabs change
nothing that `Work` or the files show.

`HTMLViewsProofs`, for any edits and detours: `TypesHold` (`[]TypeInv`),
`EditsAreStored` (`[]SavingStoresEveryEdit`) and `DomIsKept` (`DomIsFinalArbiter`).
Assumed: the value that stands for no source is no content, and no edit is the id of a
heading. The ids of a book save are in the DOM without the views' knowing, so all
of the following is about contents without them. What saving stores
depends on flags that were set many steps ago, so `CopiesFollow` relates the
three copies. `OpenedTab`: the last view has what the DOM has while it has the
focus and is saved when it loses it, or else both caches are marked old; the
other view has nothing that neither of these has. `ClosedTab`: a cache that is
not marked old is complete. `Unmodified`: a view that is not modified has nothing
that the DOM has not. `Exchanged` is there for the updates that are skipped: the
source exchanged last (`m_OldSourceCache`) is still in both views, and a source
that is the page's own has what the page has. `FocusInOther`: the views are alike
while the focus is in the view that is not the last. Malformed source breaks
parts of this: clicking the Book View and going back resets the modified flag
(`UpdateTextDocumentFromWebPage`), so what was typed can be left behind, but never
what the DOM has. That is why `CopiesFollow` is kept through `malformed` and gives
`DomIsFinalArbiter`, while `EditsAreHeld` (every edit is in the DOM or the last
view, and what only the view has is marked as modified) ends with the first
detour, and so does `MalformedIsStored`: malformed source was typed after the last exchange of
the views and was stored when the focus left it, so a tab that is closed, or saved, with
it while another tab is current loses nothing. `NothingIsHidden` (`[]UserSeesWhatIsSaved`) survives other detours than
`CopiesFollow`: tabs that are changed without having the focus. Its invariant
`ViewsAgree` is about equality and not about edits that are missing: the last view
is modified or is the DOM, unless both caches are marked old, so that the view is
loaded before it gets the focus; and of the source exchanged last it says when it is
the page's own and when the text's (`SourcesAgree`), because an update that is
skipped for an equal source must leave equal views. The conversions' effects are stated once, field by field (`BookEnters`,
`CodeSaves`, ...), and the step is proved action by action from these.

`TableOfContentsProofs`, for any files and headings: `IdsAreUnique`
(`[]IdsClashOnlyWithUnwanted`) and `LinksLeadToHeadings`
(`[]NavPointsLeadToTheirHeading`). Both are about DOMs; `FileIsSound` says the
same of the view, which the user edits and which a later save of the tab puts in the
DOM's place. A view that is marked old is not edited, so of an old one it asks only
that its ids do not clash; that links agree is asked of the DOM and of what is shown.
The ids that `GiveIDsToHeadings` makes are numbers greater than every one in use;
links are only to headings that were written once, because an
element keeps its name and a heading that is typed has a new one.

The same module has the proofs about the pane, for any books and number of changes:
`PaneTypesHold` (`[]PaneTypeInv`) and `StaleIsTemporary`
(`[]StalePaneWillBeRefreshed`). The strengthening `OldResultIsKnown` says of a
finished job that read an older text that the timer runs or a refresh was refused.

And those about headings, for any number of headings (`MaxHeadings`) and any levels
(`MaxLevel` up to 6, as in HTML): `NavMapIsRight` (`[]NavMapFollowsTheHeadings`) and
`DialogIsRight` (`[]DialogShowsWhatIsGenerated`). The argument:

1. An outline is by level (`IsOutline`) if each node is a root with no bigger node
   before it, or one deeper than the nearest bigger one. For a list of levels there is
   one such outline (`OutlineIsUnique`); in it, to be inside of a node is to come after
   it with only smaller ones between (`AboveByLevel`), and a depth counts the nodes
   above (`DepthCounts`).
2. `MakeHeadingHeirarchy` makes an outline by level (`HierarchyIsOutline`): the nodes
   that the new child may go to, last children down from the last root, are the nodes
   after which only smaller ones come (`LastByLevel`), and the last that is bigger than
   the child is the nearest one before it. With the list that `GetHeadingList` selects
   this gives `GeneratedFollows`, that is `NavMapIsRight`.
3. `RaiseRow` keeps an outline by level (`RaiseKeepsModel`) if all rows before the item
   and inside of its parent are included (`OthersIncluded`): only then is the nearest
   bigger heading that the code accepts the nearest bigger one. `CanRemove` is what the
   order of `RemoveExcludedItems`, children first, gives: before the item every row is
   included but those the item is inside of. It is kept while the item's rows are
   raised, and the item moves down with each (`IsRaising`), which is why the loop ends.
   Then the item has nothing inside of it, and an outline without such a node remains
   one (`RemoveKeepsOutline`).
4. So after every removal the rows are an outline by level of the headings that are
   left (`IsRemaining`), and at the end of those to include. By 1 this is the tree that
   would be made of them (`ShownAreTheSame`).

`SelectorInv`, the inductive invariant, says of the open dialog that it shows all
headings, or those to include, as such an outline, and of the NCX that it is generated
from the book as it is marked. What the loops return is proved by induction over the
positions of a sequence (`Recursion`, which rests on `AllPositions`) for the recursive
function that a loop is.

`OPFBookProofs`, for any files, names, sections, guide types and number of jobs at
once. Assumed: chapters and images are different files with different names; the
value that stands for an empty cache is no document; new chapters' names need no
encoding, which `Section0001.xhtml` does not. Without further hypotheses:

- `TypesHold` (`[]TypeInv`). The spine and the manifest stay sequences of ids and
  of items whatever the operations find or do not find.
- `NamesStayUnique` (`[]FilenamesAreUnique`). The property is itself inductive,
  because a name is chosen and inserted in one step, which in the code is what
  `m_AccessMutex` is for. What has to be proved is that the name chosen is free
  (`VersionIsFree`): one more than the greatest number in use. A split renames
  twice in one step, so the old name is free again when the new file takes it.
- `SemanticsAreKept` (`SemanticsFollowTheChapter`). That every reference of the
  guide is to a chapter is a premise in the property; deletion breaks it (see
  Differences).

With `PlainNames` (no path needs encoding, and no two names give one id) and without
`Stealing` (the waiting GUI thread runs no job of its batch). Both hypotheses name
differences described above: a document with two items of one id, or one that was
overwritten by an older one, does not list the book.

- `ManifestFollows` (`[]ManifestListsTheBook`), `SpineFollows`
  (`[]SpineListsTheChapters`), `MergeFindsPrevious` (`[]MergeHasPrevious`). The
  properties are about the moments between commands. During a batch a chapter is
  in the folder before it is in the document, so `ListsInv` says that the document
  lists the files that are not pending (`Listed`), one item for each name and one
  itemref for each chapter, and that `order`, which `CreateNewChapters` read
  before the jobs began, has exactly the other chapters. Each operation
  on the document is shown once to keep such a list (`AddLists`, `RemoveLists`, ...).
- `OrderIsKept` (`ReadingOrderKept`) and `SplitIsInPlace`
  (`SplitPutsFirstPartBefore`). Here ids, names and resources have to be
  connected: a chapter's place in the spine is its reading order
  (`ReadingOrderIsPlace`), a rename leaves the chapters where they are although
  ids change with names (`RenamedChapters`); the other commands and jobs keep the
  order of the ids (`KeepsIds`), from which the order of the chapters follows
  (`OrderOfIds`). The end of a batch writes the order that was read at its beginning
  into the text document; by `JobsStoreInCache` there is a cache, which is what is
  read and what the delayed update delivers.

With `PlainNames` only, `Stealing` or not:

- `JobsAreListed` (`JobsListTheirChapters`). After a stolen job the document need
  not list the book, so `ListsInv` is gone for good; `SoundInv` keeps what remains
  true: items are for different files and have the ids of their names.
  `JobsAreInCache` then follows each chapter of a batch without a theft from the
  job that listed it to the end of the batch.

`EpubFileProofs`, for any epubs, folders, names, identifiers and number of saves.
Assumed: an epub has finitely many files, items and encrypted files, one
identifier at least, and `Hrefs` as described above; the folders of Sigil's books
are names of folders. No assumption is made about which names clash. Without
further hypotheses:

- `TypesHold` (`[]TypeInv`). `Shapes` says what an epub and a book are and what the
  jobs have done: `Covers`, that what is to be loaded has every file of the manifest
  whose items own their ids and every one of `encryption.xml`, and no file twice
  unless both list it; `JobsAgree`, that every job has a name for itself, which has
  what its file had. That hrefs stay short through a load and a save is part of it.
- `ListedFilesAreLoaded` (`ManifestIsKept`) and `LinksStayTheSame` (`LinksAreKept`).
  When all jobs have finished, `updates` is injective (`Renames`), because names
  are, so a reference leads to its file if the first match in the hash is this file
  in every order: that is what `Unmistakable` means. Which of the three hashes a link
  is looked up in, and whether its file is there, depends on the link's form
  (`IsUpdated`); the same holds of each order (`AreOrders`). For a style, where the
  replacements follow each other, an induction over the order (`AllPositions`) shows that
  a value changes where its path comes and at no other place.
- `SavedBooksOpen` (`[]SavedBookOpens`). `SavedAsItOpens`: an obfuscated font is only
  in a file whose identifiers have the UUID that `EnsureUUIDIdentifierPresent` saw to.

For first epubs that are `WellFormed` (items have different ids and lead to existing
files, and no two files have one name) and whose fonts are readable when they
are opened:

- `FontsStayReadable` (`[]FontsAreReadable`). `FontsInv` follows the keys: a font in the
  file has exactly the key that loading will apply, unless it is in `misled` or
  outside `OEBPS` (`KeptOutside`: loading does not undo it, and puts it into `misled`),
  and a font of the book has none (`FilesReadable`, `BookReadable`); a key that is applied
  twice is gone. The second copy of a font is garbled, and stays so; the invariant is
  that it is not listed while a listed copy has the same content and is readable.
  The hypotheses keep items and copies apart: a taken id loses the listed copy, a name
  that clashes may turn its item to another file, and an item of a missing file
  could come to lead to the second copy. The run checks the property on epubs that
  violate them too, but only on those of `MCEpubFile`.

`SequenceLemmas` has the facts that these proofs share: maxima and minima of
finite sets of numbers, from the well-foundedness of `<`; induction over the
positions of a sequence (`AllPositions`); images and enumerations of finite sets;
first and last positions of a value; the types and values of `InsertAt` and `RemoveAt`;
and what each operation does to a sequence that has each element of a set exactly
once (`Enumerates`).

`BookSearchProofs`, for any chapters, places, matches, spines and depth of searches
inside each other: `NoneIsSkipped` (`NoMatchIsSkipped`) and `OpenedIsFound`
(`OpenedChapterHasTheMatch`). Assumed: there are finitely many chapters and one at
least, as a book always has one (`BookBrowser.cpp:247`); the stylesheet and the
values that stand for an unlisted file and for no tab are none of them. Both properties
are about the step that answers a search, many steps and tabs after it began.
`SearchGoesOn` says that a search without an answer is either scanning or has opened
another chapter, which has a match and will be searched from its edge: whatever the
user does in between ends the search or begins a new one (`UserEnds`), also where
searches wait inside each other. `SearchedSoFar` says that what the search has passed
by has no match: nothing beyond its origin in the first text, and nothing in the chapters
that are nearer to it, in the direction of the search, than the one it has come to
(`NoneUpTo`), but for a last character that is missed upwards. Such a match may have its
chapter opened in vain, from where the scan goes on, so what has been passed by is
kept through an opened chapter too (`ResumedOutcome`, `ResumedGoesOn`). Distances in the reading order differ and increase by one with each step
(`DistancesDiffer`, `StepOn`), because every chapter has one position
(`PositionOfChapter`).

Model-checked only: the liveness properties `DocumentCatchesUp`, `BatchEnds`,
`PaneCatchesUp` and `SearchEnds`, since fairness and ENABLED are out of the prover's
reach; and the two properties that are violated.

## Plan

1. Done: every module above, with proofs of every safety property and action property
   that its runs check; `BookStore` and its refinement.
2. An abstract package document (a set of files and a sequence of chapters)
   that `OPFBook` implements for plain names.
3. The file an anchor leads to after a split (`AnchorUpdates.cpp`), `ImportHTML`
   with its images, renames that fail.

## Not modelled

Parsing, cleaning and serialising of HTML, XML and CSS; highlighting and
caret positions within a word; Dublin Core metadata other than the identifiers
that fonts depend on, and the repair of broken package documents; the bytes of
font obfuscation and compression; failures of the file system outside a save;
spelling of filenames beyond whether they need encoding; recent files, zoom and
the other settings of the window; FlightCrew, which validates a file without
state of its own; and the vendored libraries (Xerces, Boost, Tidy, zlib and
others), which are most of the lines under `src/src` and no part of the editor's
own logic. The models use of them what the code that calls them relies on: a
repaired source keeps its content, a rename succeeds, an encoded path decodes
to itself.
