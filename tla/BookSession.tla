---------------------------- MODULE BookSession ----------------------------
(***************************************************************************)
(* The main window's book from New or Open to Close: the tabs and the      *)
(* resources in memory, the book's temporary folder, the epub files, and   *)
(* the two flags that decide whether the user is asked to save.            *)
(*                                                                         *)
(* The content of a resource is the set of edits in it.  A chapter's tab   *)
(* has a view of its own; its edits reach the DOM when the tab is saved.   *)
(* How view and DOM keep in step within one tab is the subject of          *)
(* HTMLViews; here a tab is either edited or shows its DOM.                *)
(*                                                                         *)
(* Saving is one call, but takes one step for each thing that can fail.    *)
(***************************************************************************)
EXTENDS FiniteSets

CONSTANTS
    Chapters,    \* the HTML resources of a book
    Package,     \* the OPF and the files' settings: changed by commands, not through a tab
    Edits,       \* the changes the user makes; each is made once
    Paths,       \* the files the user saves to, *.epub
    OtherPath,   \* a file of another type: a book imported from HTML or text
    NoPath,      \* m_CurrentFilePath.isEmpty()
    NoFile,      \* there is no file at a path
    Damaged      \* an epub that was not written to its end

ASSUME ChaptersAssumption == Chapters # {} /\ Package \notin Chapters
ASSUME PathsAssumption == OtherPath \notin Paths /\ NoPath \notin Paths \cup {OtherPath}

Resources == Chapters \cup {Package}
Books == [Resources -> SUBSET Edits]
EmptyBook == [r \in Resources |-> {}]

ASSUME FilesAssumption == NoFile \notin Books \cup {Damaged} /\ Damaged \notin Books

VARIABLES
    dom,             \* each resource in memory: m_DomDocument, m_TextDocument
    view,            \* what the tab of a chapter shows
    edited,          \* the tabs whose view changed since they were saved
    tabs,            \* the chapters that are open in a tab
    current,         \* the current tab
    folder,          \* the files in the book's temporary folder
    publication,     \* the copy of the folder that an export makes
    epub,            \* the files at Paths
    path,            \* m_CurrentFilePath
    bookModified,    \* Book::m_IsModified
    windowModified,  \* isWindowModified()
    phase,           \* how far SaveFile is
    target,          \* the path SaveFile writes to
    then,            \* what the user had asked for when SaveFile was called
    used,            \* history: the edits made
    discarded,       \* history: the user has just chosen Discard
    unmarked,        \* history: edits made in a book that stayed unmodified
    failed,          \* history: edits in the book when a save failed
    lost             \* history: edits in no file, gone without a Discard

tab_vars == <<dom, view, edited, tabs, current>>
file_vars == <<folder, publication, epub>>
mark_vars == <<path, bookModified, windowModified>>
save_vars == <<phase, target, then>>
history == <<used, discarded, unmarked, failed, lost>>
vars == <<tab_vars, file_vars, mark_vars, save_vars, history>>

\* The book as the user sees it: an edited tab shows what counts.
Work == [r \in Resources |-> IF r \in edited THEN view[r] ELSE dom[r]]

EditsOf(book) == UNION {book[r] : r \in Resources}

StoredEdits == UNION {EditsOf(epub[p]) : p \in {q \in Paths : epub[q] \in Books}}

-----------------------------------------------------------------------------
(* Book::SetModified, with the signal that reaches the window *)

\* Mutant: the signal is sent only when the book becomes unmodified.
SetModifiedQuietly(modified) ==
    /\ bookModified' = modified
    /\ windowModified' = (windowModified /\ modified)

SetModified(modified) ==
    /\ bookModified' = modified
    /\ windowModified' = IF bookModified # modified THEN modified ELSE windowModified

-----------------------------------------------------------------------------
(* Editing.  Nothing else happens while SaveFile runs. *)

\* Typing in the current tab; ContentChanged is connected for this tab only.
Type(e) ==
    /\ phase = "idle" /\ e \notin used
    /\ view' = [view EXCEPT ![current] = Work[current] \cup {e}]
    /\ edited' = edited \cup {current}
    /\ used' = used \cup {e}
    /\ SetModified(TRUE)
    /\ UNCHANGED <<dom, tabs, current, file_vars, path, save_vars, discarded, unmarked, failed, lost>>

\* A command that changes the package and says so: a file added, removed or
\* renamed, a chapter split or merged, the cover, the semantics.
ChangePackage(e) ==
    /\ phase = "idle" /\ e \notin used
    /\ dom' = [dom EXCEPT ![Package] = @ \cup {e}]
    /\ used' = used \cup {e}
    /\ SetModified(TRUE)
    /\ UNCHANGED <<view, edited, tabs, current, file_vars, path, save_vars,
                   discarded, unmarked, failed, lost>>

\* An edit after which nothing calls SetModified
LeftUnmarked(e) ==
    /\ unmarked' = IF bookModified THEN unmarked ELSE unmarked \cup {e}
    /\ UNCHANGED mark_vars

\* One that does not: the Metadata Editor writes to the OPF itself, chapters
\* dragged to another place change the spine, a font gets its obfuscation method.
ChangePackageQuietly(e) ==
    /\ phase = "idle" /\ e \notin used
    /\ dom' = [dom EXCEPT ![Package] = @ \cup {e}]
    /\ used' = used \cup {e}
    /\ LeftUnmarked(e)
    /\ UNCHANGED <<view, edited, tabs, current, file_vars, save_vars, discarded, failed, lost>>

\* SaveTabContent of every tab
SaveTabData ==
    /\ dom' = Work
    /\ edited' = {}

\* Replace All in all HTML files.  The dialog has taken the focus, so the
\* current tab is saved; SetDomDocument marks the views old, and the tabs load
\* them before they can be edited again.
ReplaceInAllFiles(e, found) ==
    /\ phase = "idle" /\ e \notin used
    /\ dom' = [r \in Resources |-> IF r \in found THEN Work[r] \cup {e} ELSE Work[r]]
    /\ view' = [c \in Chapters |-> dom'[c]]
    /\ edited' = {}
    /\ used' = used \cup {e}
    /\ LeftUnmarked(e)
    /\ UNCHANGED <<tabs, current, file_vars, save_vars, discarded, failed, lost>>

-----------------------------------------------------------------------------
(* Tabs *)

\* Mutant: only LoadTabContent is called on a switch.
SwitchToUnsaved(c) ==
    /\ phase = "idle" /\ c # current
    /\ view' = IF c \in edited THEN view ELSE [view EXCEPT ![c] = dom[c]]
    /\ tabs' = tabs \cup {c}
    /\ current' = c
    /\ UNCHANGED <<dom, edited, file_vars, mark_vars, save_vars, history>>

\* OpenResource, and UpdateTabStatesOnSwitch: the old tab saves its content,
\* the new one loads it.
SwitchTo(c) ==
    /\ phase = "idle" /\ c # current
    /\ dom' = [dom EXCEPT ![current] = Work[current]]
    /\ edited' = edited \ {current}
    /\ view' = IF c \in edited THEN view ELSE [view EXCEPT ![c] = dom[c]]
    /\ tabs' = tabs \cup {c}
    /\ current' = c
    /\ UNCHANGED <<file_vars, mark_vars, save_vars, history>>

\* Mutant: the tab that is closed stays the current one.
CloseTabStays(c, next) ==
    /\ phase = "idle"
    /\ c \in tabs /\ next \in tabs \ {c}
    /\ dom' = [dom EXCEPT ![c] = Work[c]]
    /\ edited' = edited \ {c}
    /\ tabs' = tabs \ {c}
    /\ UNCHANGED <<view, current, file_vars, mark_vars, save_vars, history>>

\* Mutant: the tab is deleted without being saved.
CloseTabUnsaved(c, next) ==
    /\ phase = "idle"
    /\ c \in tabs /\ next \in tabs \ {c}
    /\ edited' = edited \ {c}
    /\ tabs' = tabs \ {c}
    /\ current' = IF c = current THEN next ELSE current
    /\ view' = IF c # current \/ next \in edited THEN view ELSE [view EXCEPT ![next] = dom[next]]
    /\ UNCHANGED <<dom, file_vars, mark_vars, save_vars, history>>

\* CloseTab: the last tab stays; the closed one saves its content first.
CloseTab(c, next) ==
    /\ phase = "idle"
    /\ c \in tabs /\ next \in tabs \ {c}
    /\ dom' = [dom EXCEPT ![c] = Work[c]]
    /\ edited' = edited \ {c}
    /\ tabs' = tabs \ {c}
    /\ current' = IF c = current THEN next ELSE current
    /\ view' = IF c # current \/ next \in edited THEN view ELSE [view EXCEPT ![next] = dom[next]]
    /\ UNCHANGED <<file_vars, mark_vars, save_vars, history>>

-----------------------------------------------------------------------------
(* Saving *)

\* SaveFile up to the first thing that can fail.  A file of another type is
\* refused, but the tabs are saved by then.
SaveFile(p, what) ==
    /\ phase = "idle"
    /\ SaveTabData
    /\ discarded' = FALSE
    /\ IF p \in Paths
       THEN phase' = "folder" /\ target' = p /\ then' = what
       ELSE UNCHANGED save_vars
    /\ UNCHANGED <<view, tabs, current, file_vars, mark_vars, used, unmarked, failed, lost>>

\* Save and SaveAs.  With a current tab that is not well-formed, or no file
\* chosen, nothing happens.
Save == \E p \in Paths \cup {OtherPath} : SaveFile(p, "stay")

\* SaveAllResourcesToDisk
WriteFolder ==
    /\ phase = "folder"
    /\ folder' = dom
    /\ phase' = "copy"
    /\ UNCHANGED <<tab_vars, publication, epub, mark_vars, target, then, history>>

\* CopyFiles
CopyPublication ==
    /\ phase = "copy"
    /\ publication' = folder
    /\ phase' = "create"
    /\ UNCHANGED <<tab_vars, folder, epub, mark_vars, target, then, history>>

\* zip.Open with zipCreate empties the file that is there.
CreateZip ==
    /\ phase = "create"
    /\ epub' = [epub EXCEPT ![target] = Damaged]
    /\ phase' = "add"
    /\ UNCHANGED <<tab_vars, folder, publication, mark_vars, target, then, history>>

\* What follows when SaveFile returns true
Return == phase' = IF then = "stay" THEN "idle" ELSE "leave"

\* Mutant: the path shown stays that of the file the book was opened from.
CloseZipKeepsPath ==
    /\ phase = "add"
    /\ epub' = [epub EXCEPT ![target] = publication]
    /\ publication' = EmptyBook
    /\ SetModified(FALSE)
    /\ Return
    /\ UNCHANGED <<tab_vars, path, folder, target, then, history>>

\* AddNewFiles, zip.Close, and the end of SaveFile
CloseZip ==
    /\ phase = "add"
    /\ epub' = [epub EXCEPT ![target] = publication]
    /\ publication' = EmptyBook
    /\ SetModified(FALSE)
    /\ path' = target
    /\ Return
    /\ UNCHANGED <<tab_vars, folder, target, then, history>>

\* An exception that SaveFile catches: the dialog is shown, and SaveFile
\* returns true.  A file that cannot be opened is left as it is.
SaveFails ==
    /\ phase \in {"copy", "create", "add"}
    /\ publication' = EmptyBook
    /\ failed' = failed \cup EditsOf(Work)
    /\ Return
    /\ UNCHANGED <<tab_vars, folder, epub, mark_vars, target, then, used, discarded, unmarked, lost>>

\* The edits that go with the book in memory
LetGo == lost' = IF discarded THEN lost ELSE lost \cup (EditsOf(Work) \ StoredEdits)

\* A file of the folder that cannot be opened: the exception leaves the pool
\* as one that nobody catches.
Terminate ==
    /\ phase = "folder"
    /\ failed' = failed \cup EditsOf(Work)
    /\ LetGo
    /\ phase' = "closed"
    /\ UNCHANGED <<tab_vars, file_vars, mark_vars, target, then, used, discarded, unmarked>>

-----------------------------------------------------------------------------
(* Leaving the book: MaybeSaveDialogSaysProceed, and what it allows *)

Leaves == {"close", "new", "open"}

\* Save: to the current file, or to one the user is asked for
SaveAndLeave(what) ==
    /\ windowModified
    /\ \E p \in IF path = NoPath THEN Paths \cup {OtherPath} ELSE {path} : SaveFile(p, what)

\* Mutant: no question is asked while the path is known.
LeaveUnaskedWithPath(what) ==
    /\ phase = "idle"
    /\ discarded' = (windowModified /\ path = NoPath)
    /\ phase' = "leave"
    /\ then' = what
    /\ UNCHANGED <<tab_vars, file_vars, mark_vars, target, used, unmarked, failed, lost>>

\* Discard, or no question at all
LeaveUnsaved(what) ==
    /\ phase = "idle"
    /\ discarded' = windowModified
    /\ phase' = "leave"
    /\ then' = what
    /\ UNCHANGED <<tab_vars, file_vars, mark_vars, target, used, unmarked, failed, lost>>

Close ==
    /\ phase = "leave" /\ then = "close"
    /\ LetGo
    /\ phase' = "closed"
    /\ UNCHANGED <<tab_vars, file_vars, mark_vars, target, then, used, discarded, unmarked, failed>>

\* SetNewBook: the tabs of the old book go with it, the first chapter of the
\* new one is opened.
SetNewBook(book) ==
    /\ dom' = book
    /\ view' = [c \in Chapters |-> book[c]]
    /\ edited' = {}
    /\ \E first \in Chapters : tabs' = {first} /\ current' = first
    /\ folder' = book
    /\ phase' = "idle"
    /\ bookModified' = FALSE
    /\ UNCHANGED <<publication, epub, target, then, used, discarded, unmarked, failed>>

\* CreateNewBook marks the new book before the window hears of its marks, so
\* that SetModified(false) is a change.
CreateNewBook ==
    /\ SetNewBook(EmptyBook)
    /\ windowModified' = FALSE
    /\ path' = NoPath

New ==
    /\ phase = "leave" /\ then = "new"
    /\ LetGo
    /\ CreateNewBook

\* The program is started again.
Start ==
    /\ phase = "closed"
    /\ CreateNewBook
    /\ UNCHANGED lost

\* The user chooses no file, or one that cannot be loaded: the old book stays.
OpenNothing ==
    /\ phase = "leave" /\ then = "open"
    /\ phase' = "idle"
    /\ UNCHANGED <<tab_vars, file_vars, mark_vars, target, then, history>>

\* LoadFile of an epub.  ImportEPUB does not mark the book, so SetModified(false)
\* is no change, and the window keeps the mark that the old book left.
OpenEpub(p) ==
    /\ phase = "leave" /\ then = "open"
    /\ epub[p] \in Books
    /\ LetGo
    /\ SetNewBook(epub[p])
    /\ path' = p
    /\ UNCHANGED windowModified

\* LoadFile of an HTML or text file; ImportHTML marks the book, ImportTXT does not.
OpenOther(marks) ==
    /\ phase = "leave" /\ then = "open"
    /\ LetGo
    /\ SetNewBook(EmptyBook)
    /\ path' = OtherPath
    /\ windowModified' = (windowModified /\ ~marks)

-----------------------------------------------------------------------------
Init ==
    /\ dom = EmptyBook
    /\ view = [c \in Chapters |-> {}]
    /\ edited = {}
    /\ \E first \in Chapters : tabs = {first} /\ current = first
    /\ folder = EmptyBook /\ publication = EmptyBook
    /\ epub = [p \in Paths |-> NoFile]
    /\ path = NoPath
    /\ bookModified = FALSE /\ windowModified = FALSE
    /\ phase = "idle" /\ target \in Paths /\ then = "stay"
    /\ used = {} /\ discarded = FALSE
    /\ unmarked = {} /\ failed = {} /\ lost = {}

Edit == \E e \in Edits :
    \/ Type(e)
    \/ ChangePackage(e)
    \/ ChangePackageQuietly(e)
    \/ \E found \in (SUBSET Chapters) \ {{}} : ReplaceInAllFiles(e, found)

Tabs == \E c \in Chapters : SwitchTo(c) \/ \E next \in Chapters : CloseTab(c, next)

SaveStep == WriteFolder \/ CopyPublication \/ CreateZip \/ CloseZip \/ SaveFails \/ Terminate

Leave ==
    \/ \E what \in Leaves : SaveAndLeave(what) \/ LeaveUnsaved(what)
    \/ Close \/ New \/ Start \/ OpenNothing
    \/ \E p \in Paths : OpenEpub(p)
    \/ \E marks \in BOOLEAN : OpenOther(marks)

Next == Edit \/ Tabs \/ Save \/ SaveStep \/ Leave

Spec == Init /\ [][Next]_vars

-----------------------------------------------------------------------------
(* Properties *)

TypeInv ==
    /\ dom \in Books /\ folder \in Books /\ publication \in Books
    /\ view \in [Chapters -> SUBSET Edits]
    /\ edited \subseteq tabs /\ tabs \subseteq Chapters /\ current \in tabs
    /\ epub \in [Paths -> Books \cup {NoFile, Damaged}]
    /\ path \in Paths \cup {OtherPath, NoPath}
    /\ bookModified \in BOOLEAN /\ windowModified \in BOOLEAN
    /\ phase \in {"idle", "folder", "copy", "create", "add", "leave", "closed"}
    /\ target \in Paths /\ then \in Leaves \cup {"stay"}
    /\ used \subseteq Edits /\ discarded \in BOOLEAN
    /\ unmarked \subseteq Edits /\ failed \subseteq Edits /\ lost \subseteq Edits

\* What a save writes is what the user sees: no tab keeps an edit that has not
\* reached its resource once SaveTabData has run, and until then only the
\* current tab can.
OnlyTheCurrentTabIsUnsaved ==
    /\ edited \subseteq {current}
    /\ phase \in {"folder", "copy", "create", "add"} => edited = {}

\* A book that is not marked modified is in the file that the title bar shows,
\* unless a save has failed or its edits never marked it: those of Replace All in
\* all files, the Metadata Editor, dragged chapters and obfuscation methods.
UnmarkedBookIsStored ==
    phase = "idle" /\ ~bookModified /\ path \in Paths =>
        LET missing == IF epub[path] \in Books
                       THEN {e \in EditsOf(Work) :
                                \E r \in Resources : e \in Work[r] \ epub[path][r]}
                       ELSE EditsOf(Work)
        IN missing \subseteq unmarked \cup failed

\* MaybeSaveDialogSaysProceed asks by the mark of the window: a modified book
\* always has it, whatever sequence of books came before.
ModifiedBookMarksTheWindow == bookModified => windowModified

\* Nothing the user did is gone from memory and files without the user having
\* chosen Discard, except after a save that failed or an edit that was never marked.
LossIsExcused == lost \subseteq unmarked \cup failed

\* The session promises what a store of books does.
Store == INSTANCE BookStore WITH work <- Work, stored <- epub

StoresTheBook == Store!Spec
=============================================================================
