------------------------- MODULE BookSessionProofs -------------------------
(***************************************************************************)
(* Proofs about BookSession for all chapters, edits and paths: the types,  *)
(* that what is lost is excused, that an unmarked book is in its file, and *)
(* that a session implements BookStore.                                    *)
(***************************************************************************)
EXTENDS BookSession, TLAPS

\* The copies that a save makes are copies of the book.
CopiesAgree ==
    /\ phase \in {"copy", "create", "add"} => folder = dom
    /\ phase \in {"create", "add"} => publication = folder

\* Every edit of the book is in a file, or there is an excuse.
BookIsSafe == EditsOf(Work) \subseteq StoredEdits \cup unmarked \cup failed

\* A book that can be let go unasked is safe: one that is not marked, but for
\* the moment when its own file is being written; and one that is being left.
LetGoIsSafe ==
    /\ ~bookModified /\ phase # "add" => BookIsSafe
    /\ ~discarded /\ phase = "leave" => BookIsSafe

IInv ==
    /\ TypeInv /\ OnlyTheCurrentTabIsUnsaved /\ CopiesAgree
    /\ ModifiedBookMarksTheWindow /\ LetGoIsSafe /\ LossIsExcused

-----------------------------------------------------------------------------
(* The book that the user sees *)

LEMMA WorkIsABook == TypeInv => Work \in Books
BY DEF TypeInv, Work, Books, Resources

LEMMA EmptyIsABook == EmptyBook \in Books /\ EditsOf(EmptyBook) = {}
<1>1. EmptyBook \in Books
  BY DEF EmptyBook, Books
<1>2. EditsOf(EmptyBook) = {}
  BY DEF EmptyBook, EditsOf
<1> QED
  BY <1>1, <1>2

\* Saving the tabs changes what is in the resources, not what is seen.
LEMMA SaveTabDataKeepsWork ==
    ASSUME TypeInv, SaveTabData PROVE Work' = Work
<1>1. dom' = Work /\ edited' = {}
  BY DEF SaveTabData
<1>2. Work' = [r \in Resources |-> dom'[r]]
  BY <1>1 DEF Work
<1> QED
  BY <1>1, <1>2 DEF Work

LEMMA UnchangedTabsKeepWork ==
    ASSUME UNCHANGED tab_vars PROVE Work' = Work
BY DEF tab_vars, Work

\* Switching and closing tabs change nothing that is seen.
LEMMA TabsKeepWork ==
    ASSUME TypeInv, OnlyTheCurrentTabIsUnsaved, Tabs PROVE Work' = Work
<1>1. ASSUME NEW c \in Chapters, SwitchTo(c) PROVE Work' = Work
  <2>1. \A r \in Resources :
           (IF r \in edited' THEN view'[r] ELSE dom'[r]) = (IF r \in edited THEN view[r] ELSE dom[r])
    BY <1>1 DEF SwitchTo, TypeInv, OnlyTheCurrentTabIsUnsaved, Work, Books, Resources
  <2> QED
    BY <2>1 DEF Work
<1>2. ASSUME NEW c \in Chapters, NEW next \in Chapters, CloseTab(c, next) PROVE Work' = Work
  <2>1. \A r \in Resources :
           (IF r \in edited' THEN view'[r] ELSE dom'[r]) = (IF r \in edited THEN view[r] ELSE dom[r])
    BY <1>2 DEF CloseTab, TypeInv, OnlyTheCurrentTabIsUnsaved, Work, Books, Resources
  <2> QED
    BY <2>1 DEF Work
<1> QED
  BY <1>1, <1>2 DEF Tabs

\* A new book is what is seen.
LEMMA NewBookIsSeen ==
    ASSUME NEW book \in Books, SetNewBook(book) PROVE Work' = book
<1>1. dom' = book /\ edited' = {}
  BY DEF SetNewBook
<1>2. Work' = [r \in Resources |-> dom'[r]]
  BY <1>1 DEF Work
<1> QED
  BY <1>1, <1>2 DEF Books

-----------------------------------------------------------------------------
(* The types *)

\* The edits after which nothing calls SetModified
QuietEdit(e) ==
    \/ ChangePackageQuietly(e)
    \/ \E found \in (SUBSET Chapters) \ {{}} : ReplaceInAllFiles(e, found)

LEMMA EditTypes ==
    ASSUME TypeInv, NEW e \in Edits, Type(e) \/ ChangePackage(e) \/ QuietEdit(e)
    PROVE  TypeInv'
<1>0. Work \in Books
  BY WorkIsABook
<1>1. CASE Type(e)
  <2>1. view' \in [Chapters -> SUBSET Edits] /\ edited' \subseteq tabs
    BY <1>0, <1>1 DEF Type, TypeInv, Books, Resources
  <2> QED
    BY <1>1, <2>1 DEF Type, TypeInv, SetModified, file_vars, save_vars
<1>2. CASE ChangePackage(e)
  <2>1. dom' \in Books
    BY <1>2 DEF ChangePackage, TypeInv, Books, Resources
  <2> QED
    BY <1>2, <2>1 DEF ChangePackage, TypeInv, SetModified, file_vars, save_vars
<1>3. CASE ChangePackageQuietly(e)
  <2>1. dom' \in Books
    BY <1>3 DEF ChangePackageQuietly, TypeInv, Books, Resources
  <2> QED
    BY <1>3, <2>1 DEF ChangePackageQuietly, LeftUnmarked, TypeInv, file_vars, mark_vars, save_vars
<1>4. ASSUME NEW found \in SUBSET Chapters, ReplaceInAllFiles(e, found) PROVE TypeInv'
  <2>1. dom' \in Books
    BY <1>0, <1>4 DEF ReplaceInAllFiles, Books
  <2>2. view' \in [Chapters -> SUBSET Edits]
    BY <1>4, <2>1 DEF ReplaceInAllFiles, Books, Resources
  <2> QED
    BY <1>4, <2>1, <2>2 DEF ReplaceInAllFiles, LeftUnmarked, TypeInv, file_vars, mark_vars, save_vars
<1> QED
  BY <1>1, <1>2, <1>3, <1>4 DEF QuietEdit

\* What these edits change: the book, by the edit, and the list of unmarked ones.
LEMMA QuietEditAdds ==
    ASSUME TypeInv, NEW e \in Edits, QuietEdit(e)
    PROVE  /\ UNCHANGED <<epub, path, bookModified, windowModified, failed, lost, phase, target>>
           /\ phase = "idle"
           /\ unmarked \subseteq unmarked' /\ (~bookModified => unmarked' = unmarked \cup {e})
           /\ \A r \in Resources : Work[r] \subseteq Work'[r] /\ Work'[r] \subseteq Work[r] \cup {e}
<1>1. CASE ChangePackageQuietly(e)
  <2>1. \A r \in Resources : Work'[r] = IF r = Package THEN Work[r] \cup {e} ELSE Work[r]
    BY <1>1, ChaptersAssumption DEF ChangePackageQuietly, TypeInv, Work, Books, Resources
  <2> QED
    BY <1>1, <2>1 DEF ChangePackageQuietly, LeftUnmarked, file_vars, mark_vars, save_vars
<1>2. ASSUME NEW found \in SUBSET Chapters, ReplaceInAllFiles(e, found)
      PROVE  /\ UNCHANGED <<epub, path, bookModified, windowModified, failed, lost, phase, target>>
             /\ phase = "idle"
             /\ unmarked \subseteq unmarked' /\ (~bookModified => unmarked' = unmarked \cup {e})
             /\ \A r \in Resources : Work[r] \subseteq Work'[r] /\ Work'[r] \subseteq Work[r] \cup {e}
  <2>1. Work' = [r \in Resources |-> IF r \in found THEN Work[r] \cup {e} ELSE Work[r]]
    BY <1>2 DEF ReplaceInAllFiles, Work
  <2> QED
    BY <1>2, <2>1 DEF ReplaceInAllFiles, LeftUnmarked, file_vars, mark_vars, save_vars
<1> QED
  BY <1>1, <1>2 DEF QuietEdit

LEMMA TabTypes == ASSUME TypeInv, Tabs PROVE TypeInv'
<1>0. Work \in Books
  BY WorkIsABook
<1>1. ASSUME NEW c \in Chapters, SwitchTo(c) PROVE TypeInv'
  <2>1. dom' \in Books /\ view' \in [Chapters -> SUBSET Edits]
    BY <1>0, <1>1 DEF SwitchTo, TypeInv, Books, Resources
  <2> QED
    BY <1>1, <2>1 DEF SwitchTo, TypeInv, file_vars, mark_vars, save_vars, history
<1>2. ASSUME NEW c \in Chapters, NEW next \in Chapters, CloseTab(c, next) PROVE TypeInv'
  <2>1. dom' \in Books /\ view' \in [Chapters -> SUBSET Edits]
    BY <1>0, <1>2 DEF CloseTab, TypeInv, Books, Resources
  <2> QED
    BY <1>2, <2>1 DEF CloseTab, TypeInv, file_vars, mark_vars, save_vars, history
<1> QED
  BY <1>1, <1>2 DEF Tabs

LEMMA SaveFileTypes ==
    ASSUME TypeInv, NEW p, NEW what \in Leaves \cup {"stay"}, SaveFile(p, what)
    PROVE  TypeInv'
<1>1. dom' \in Books /\ edited' = {}
  BY WorkIsABook DEF SaveFile, SaveTabData
<1> QED
  BY <1>1 DEF SaveFile, TypeInv, file_vars, mark_vars, save_vars

\* The edits of a book are edits.
LEMMA EditsOfABook == ASSUME NEW book \in Books PROVE EditsOf(book) \subseteq Edits
BY DEF EditsOf, Books

LEMMA SaveStepTypes == ASSUME TypeInv, SaveStep PROVE TypeInv'
<1>0. EditsOf(Work) \subseteq Edits
  BY WorkIsABook, EditsOfABook
<1>1. CASE WriteFolder
  BY <1>1 DEF WriteFolder, TypeInv, tab_vars, mark_vars, history
<1>2. CASE CopyPublication
  BY <1>2 DEF CopyPublication, TypeInv, tab_vars, mark_vars, history
<1>3. CASE CreateZip
  BY <1>3 DEF CreateZip, TypeInv, tab_vars, mark_vars, history
<1>4. CASE CloseZip
  BY <1>4, EmptyIsABook DEF CloseZip, Return, SetModified, TypeInv, tab_vars, history
<1>5. CASE SaveFails
  BY <1>0, <1>5, EmptyIsABook DEF SaveFails, Return, TypeInv, tab_vars, mark_vars
<1>6. CASE Terminate
  BY <1>0, <1>6 DEF Terminate, LetGo, TypeInv, tab_vars, file_vars, mark_vars
<1> QED
  BY <1>1, <1>2, <1>3, <1>4, <1>5, <1>6 DEF SaveStep

\* What is common to New, Start and the ways to open a book
LEMMA NewBookTypes ==
    ASSUME TypeInv, NEW book \in Books, SetNewBook(book),
           lost' \subseteq Edits, path' \in Paths \cup {OtherPath, NoPath},
           windowModified' \in BOOLEAN
    PROVE  TypeInv'
<1>1. view' \in [Chapters -> SUBSET Edits]
  BY DEF SetNewBook, Books, Resources
<1>2. PICK first \in Chapters : tabs' = {first} /\ current' = first
  BY DEF SetNewBook
<1>3. used' = used /\ discarded' = discarded /\ unmarked' = unmarked /\ failed' = failed
      /\ publication' = publication /\ epub' = epub /\ target' = target /\ then' = then
  BY DEF SetNewBook
<1>4. dom' = book /\ folder' = book /\ edited' = {} /\ phase' = "idle" /\ bookModified' = FALSE
  BY DEF SetNewBook
<1> QED
  BY <1>1, <1>2, <1>3, <1>4 DEF TypeInv

LEMMA LeaveTypes == ASSUME TypeInv, Leave PROVE TypeInv'
<1>0. EditsOf(Work) \subseteq Edits
  BY WorkIsABook, EditsOfABook
<1>1. LetGo => lost' \subseteq Edits
  BY <1>0 DEF LetGo, TypeInv
<1>2. ASSUME NEW what \in Leaves, SaveAndLeave(what) PROVE TypeInv'
  BY <1>2, SaveFileTypes DEF SaveAndLeave
<1>3. ASSUME NEW what \in Leaves, LeaveUnsaved(what) PROVE TypeInv'
  BY <1>3 DEF LeaveUnsaved, TypeInv, tab_vars, file_vars, mark_vars
<1>4. CASE Close
  BY <1>1, <1>4 DEF Close, TypeInv, tab_vars, file_vars, mark_vars
<1>5. CASE New \/ Start
  <2>1. lost' \subseteq Edits
    BY <1>1, <1>5 DEF New, Start, TypeInv
  <2> QED
    BY <1>5, <2>1, EmptyIsABook, NewBookTypes DEF New, Start, CreateNewBook
<1>6. CASE OpenNothing
  BY <1>6 DEF OpenNothing, TypeInv, tab_vars, file_vars, mark_vars, history
<1>7. ASSUME NEW p \in Paths, OpenEpub(p) PROVE TypeInv'
  <2>1. windowModified' \in BOOLEAN
    BY <1>7 DEF OpenEpub, TypeInv
  <2> QED
    BY <1>1, <1>7, <2>1, NewBookTypes DEF OpenEpub
<1>8. ASSUME NEW marks \in BOOLEAN, OpenOther(marks) PROVE TypeInv'
  <2>1. windowModified' \in BOOLEAN
    BY <1>8 DEF OpenOther, TypeInv
  <2> QED
    BY <1>1, <1>8, <2>1, EmptyIsABook, NewBookTypes DEF OpenOther
<1> QED
  BY <1>2, <1>3, <1>4, <1>5, <1>6, <1>7, <1>8 DEF Leave

LEMMA TypeStep == TypeInv /\ [Next]_vars => TypeInv'
<1> SUFFICES ASSUME TypeInv, [Next]_vars PROVE TypeInv'
    OBVIOUS
<1>1. CASE Edit
  BY <1>1, EditTypes DEF Edit, QuietEdit
<1>2. CASE Save
  BY <1>2, SaveFileTypes DEF Save
<1>3. CASE UNCHANGED vars
  BY <1>3 DEF TypeInv, vars, tab_vars, file_vars, mark_vars, save_vars, history
<1> QED
  BY <1>1, <1>2, <1>3, TabTypes, SaveStepTypes, LeaveTypes DEF Next

-----------------------------------------------------------------------------
(* The flags and the copies *)

LEMMA FlagsStep ==
    ASSUME TypeInv, OnlyTheCurrentTabIsUnsaved, CopiesAgree, ModifiedBookMarksTheWindow, [Next]_vars
    PROVE  OnlyTheCurrentTabIsUnsaved' /\ CopiesAgree' /\ ModifiedBookMarksTheWindow'
<1> DEFINE Inv == OnlyTheCurrentTabIsUnsaved /\ CopiesAgree /\ ModifiedBookMarksTheWindow
<1> USE DEF OnlyTheCurrentTabIsUnsaved, CopiesAgree, ModifiedBookMarksTheWindow
<1>0. bookModified \in BOOLEAN /\ windowModified \in BOOLEAN
  BY DEF TypeInv
<1>1. CASE Edit
  <2> PICK e \in Edits : Type(e) \/ ChangePackage(e) \/ QuietEdit(e)
    BY <1>1 DEF Edit, QuietEdit
  <2>1. CASE Type(e)
    BY <1>0, <2>1 DEF Type, SetModified, file_vars, save_vars
  <2>2. CASE ChangePackage(e)
    BY <1>0, <2>2 DEF ChangePackage, SetModified, file_vars, save_vars
  <2>3. CASE QuietEdit(e)
    BY <2>3 DEF QuietEdit, ChangePackageQuietly, ReplaceInAllFiles, LeftUnmarked,
                file_vars, mark_vars, save_vars
  <2> QED
    BY <2>1, <2>2, <2>3
<1>2. CASE Tabs
  BY <1>2 DEF Tabs, SwitchTo, CloseTab, file_vars, mark_vars, save_vars
<1>3. ASSUME NEW p, NEW what, SaveFile(p, what) PROVE Inv'
  BY <1>3 DEF SaveFile, SaveTabData, file_vars, mark_vars, save_vars
<1>4. CASE SaveStep
  <2>1. CASE WriteFolder \/ CopyPublication \/ CreateZip
    BY <1>4, <2>1 DEF WriteFolder, CopyPublication, CreateZip, tab_vars, mark_vars
  <2>2. CASE CloseZip
    BY <1>0, <2>2 DEF CloseZip, Return, SetModified, tab_vars
  <2>3. CASE SaveFails \/ Terminate
    BY <2>3 DEF SaveFails, Terminate, Return, tab_vars, mark_vars
  <2> QED
    BY <1>4, <2>1, <2>2, <2>3 DEF SaveStep
<1>5. CASE Leave
  <2>1. ASSUME NEW what \in Leaves, SaveAndLeave(what) PROVE Inv'
    BY <1>3, <2>1 DEF SaveAndLeave
  <2>2. ASSUME NEW what \in Leaves, LeaveUnsaved(what) PROVE Inv'
    BY <2>2 DEF LeaveUnsaved, tab_vars, file_vars, mark_vars
  <2>3. CASE Close \/ OpenNothing
    BY <2>3 DEF Close, OpenNothing, tab_vars, file_vars, mark_vars
  <2>4. ASSUME NEW book, SetNewBook(book) PROVE Inv'
    BY <2>4 DEF SetNewBook
  <2>5. CASE New \/ Start \/ (\E p \in Paths : OpenEpub(p)) \/ (\E marks \in BOOLEAN : OpenOther(marks))
    BY <2>4, <2>5 DEF New, Start, CreateNewBook, OpenEpub, OpenOther
  <2> QED
    BY <1>5, <2>1, <2>2, <2>3, <2>5 DEF Leave
<1>6. CASE UNCHANGED vars
  BY <1>6 DEF vars, tab_vars, file_vars, mark_vars, save_vars
<1> QED
  BY <1>1, <1>2, <1>3, <1>4, <1>5, <1>6 DEF Next, Save

-----------------------------------------------------------------------------
(* What is lost *)

\* A step that keeps the book and the files keeps a safe book safe.
LEMMA SafeStays ==
    ASSUME BookIsSafe, Work' = Work, epub' = epub,
           unmarked \subseteq unmarked', failed \subseteq failed'
    PROVE  BookIsSafe'
BY DEF BookIsSafe, EditsOf, StoredEdits

\* The edits of a file are stored edits.
LEMMA EditsOfAFile ==
    ASSUME NEW p \in Paths, epub[p] \in Books PROVE EditsOf(epub[p]) \subseteq StoredEdits
BY DEF StoredEdits

LEMMA LossStep == IInv /\ [Next]_vars => LetGoIsSafe' /\ LossIsExcused'
<1> SUFFICES ASSUME IInv, [Next]_vars PROVE LetGoIsSafe' /\ LossIsExcused'
    OBVIOUS
<1> DEFINE Inv == LetGoIsSafe /\ LossIsExcused
<1>0. TypeInv /\ OnlyTheCurrentTabIsUnsaved /\ CopiesAgree /\ ModifiedBookMarksTheWindow
      /\ LetGoIsSafe /\ LossIsExcused
  BY DEF IInv
<1>1. CASE Edit
  <2> PICK e \in Edits : Type(e) \/ ChangePackage(e) \/ QuietEdit(e)
    BY <1>1 DEF Edit, QuietEdit
  <2>1. CASE Type(e) \/ ChangePackage(e)
    BY <1>0, <2>1 DEF Type, ChangePackage, SetModified, LetGoIsSafe, LossIsExcused, save_vars
  <2>2. CASE QuietEdit(e)
    <3>1. /\ UNCHANGED <<phase, bookModified, epub, failed, lost>> /\ phase = "idle"
          /\ unmarked \subseteq unmarked' /\ (~bookModified => unmarked' = unmarked \cup {e})
          /\ \A r \in Resources : Work'[r] \subseteq Work[r] \cup {e}
      BY <1>0, <2>2, QuietEditAdds
    <3>2. EditsOf(Work') \subseteq EditsOf(Work) \cup {e}
      BY <3>1 DEF EditsOf
    <3>3. ASSUME ~bookModified PROVE BookIsSafe'
      <4>1. BookIsSafe /\ unmarked' = unmarked \cup {e}
        BY <1>0, <3>1, <3>3 DEF LetGoIsSafe
      <4>2. StoredEdits' = StoredEdits /\ EditsOf(Work)' = EditsOf(Work')
        BY <3>1 DEF StoredEdits, EditsOf
      <4> QED
        BY <3>1, <3>2, <4>1, <4>2 DEF BookIsSafe
    <3> QED
      BY <1>0, <3>1, <3>3 DEF LetGoIsSafe, LossIsExcused
  <2> QED
    BY <2>1, <2>2
<1>2. CASE Tabs
  <2>1. Work' = Work
    BY <1>0, <1>2, TabsKeepWork
  <2>2. UNCHANGED <<epub, bookModified, phase, history>>
    BY <1>2 DEF Tabs, SwitchTo, CloseTab, file_vars, mark_vars, save_vars
  <2> QED
    BY <1>0, <2>1, <2>2, SafeStays DEF LetGoIsSafe, LossIsExcused, history
<1>3. ASSUME NEW p, NEW what, SaveFile(p, what) PROVE Inv'
  <2>1. Work' = Work
    BY <1>0, <1>3, SaveTabDataKeepsWork DEF SaveFile
  <2>2. UNCHANGED <<epub, bookModified, unmarked, failed, lost>>
        /\ phase = "idle" /\ phase' \in {"idle", "folder"}
    BY <1>3 DEF SaveFile, file_vars, mark_vars, save_vars
  <2> QED
    BY <1>0, <2>1, <2>2, SafeStays DEF LetGoIsSafe, LossIsExcused
<1>4. CASE SaveStep
  <2>0. Work' = Work
    BY <1>4, UnchangedTabsKeepWork DEF SaveStep, WriteFolder, CopyPublication, CreateZip,
                                       CloseZip, SaveFails, Terminate
  <2>1. CASE WriteFolder \/ CopyPublication
    BY <1>0, <2>0, <2>1, SafeStays DEF WriteFolder, CopyPublication, LetGoIsSafe,
                                       LossIsExcused, mark_vars, history
  <2>2. CASE CreateZip
    BY <1>0, <2>2 DEF CreateZip, LetGoIsSafe, LossIsExcused, history
  <2>3. CASE CloseZip
    <3>1. Work = dom
      BY <1>0, <2>3 DEF CloseZip, OnlyTheCurrentTabIsUnsaved, Work, TypeInv, Books
    <3>2. publication = Work /\ publication \in Books /\ target \in Paths
      BY <1>0, <2>3, <3>1 DEF CloseZip, CopiesAgree, TypeInv
    <3>3. epub'[target] = Work'
      BY <1>0, <2>0, <2>3, <3>2 DEF CloseZip, TypeInv
    <3>4. EditsOf(Work)' \subseteq StoredEdits'
      BY <2>0, <3>2, <3>3 DEF StoredEdits, EditsOf
    <3> QED
      BY <1>0, <2>3, <3>4 DEF CloseZip, BookIsSafe, LetGoIsSafe, LossIsExcused, history
  <2>4. CASE SaveFails \/ Terminate
    <3>1. EditsOf(Work) \subseteq failed' /\ unmarked' = unmarked /\ failed \subseteq failed'
          /\ lost' \subseteq lost \cup EditsOf(Work)
      BY <2>4 DEF SaveFails, Terminate, LetGo
    <3>2. BookIsSafe'
      BY <2>0, <3>1 DEF BookIsSafe, EditsOf
    <3> QED
      BY <1>0, <3>1, <3>2 DEF LetGoIsSafe, LossIsExcused
  <2> QED
    BY <1>4, <2>1, <2>2, <2>3, <2>4 DEF SaveStep
<1>5. CASE Leave
  <2>1. ASSUME NEW what \in Leaves, SaveAndLeave(what) PROVE Inv'
    BY <1>3, <2>1 DEF SaveAndLeave
  <2>2. ASSUME NEW what \in Leaves, LeaveUnsaved(what) PROVE Inv'
    <3>1. Work' = Work
      BY <2>2, UnchangedTabsKeepWork DEF LeaveUnsaved
    <3>2. UNCHANGED <<epub, bookModified, unmarked, failed, lost>> /\ phase = "idle"
          /\ (~discarded' => ~bookModified)
      BY <1>0, <2>2 DEF LeaveUnsaved, ModifiedBookMarksTheWindow, file_vars, mark_vars, TypeInv
    <3> QED
      BY <1>0, <3>1, <3>2, SafeStays DEF LetGoIsSafe, LossIsExcused
  <2>3. phase = "leave" /\ LetGo => lost' \subseteq lost \cup unmarked \cup failed
    BY <1>0 DEF LetGo, LetGoIsSafe, BookIsSafe
  <2>4. CASE Close \/ OpenNothing
    <3>1. Work' = Work
      BY <2>4, UnchangedTabsKeepWork DEF Close, OpenNothing
    <3>2. UNCHANGED <<epub, bookModified, unmarked, failed>> /\ phase = "leave"
          /\ phase' \in {"idle", "closed"} /\ lost' \subseteq lost \cup unmarked \cup failed
      BY <2>3, <2>4 DEF Close, OpenNothing, file_vars, mark_vars, history
    <3> QED
      BY <1>0, <3>1, <3>2, SafeStays DEF LetGoIsSafe, LossIsExcused
  <2>5. ASSUME NEW book \in Books, SetNewBook(book),
               EditsOf(book) \subseteq StoredEdits,
               lost' \subseteq lost \cup unmarked \cup failed
        PROVE  Inv'
    <3>1. Work' = book
      BY <2>5, NewBookIsSeen
    <3>2. UNCHANGED <<epub, unmarked, failed>> /\ phase' = "idle"
      BY <2>5 DEF SetNewBook
    <3>3. BookIsSafe'
      BY <2>5, <3>1, <3>2 DEF BookIsSafe, EditsOf, StoredEdits
    <3> QED
      BY <1>0, <2>5, <3>2, <3>3 DEF LetGoIsSafe, LossIsExcused
  <2>6. CASE New \/ Start \/ \E marks \in BOOLEAN : OpenOther(marks)
    <3>1. SetNewBook(EmptyBook) /\ lost' \subseteq lost \cup unmarked \cup failed
      BY <2>3, <2>6 DEF New, Start, OpenOther, CreateNewBook
    <3> QED
      BY <2>5, <3>1, EmptyIsABook
  <2>7. ASSUME NEW p \in Paths, OpenEpub(p) PROVE Inv'
    BY <2>3, <2>5, <2>7, EditsOfAFile DEF OpenEpub
  <2> QED
    BY <1>5, <2>1, <2>2, <2>4, <2>6, <2>7 DEF Leave
<1>6. CASE UNCHANGED vars
  <2>1. Work' = Work /\ UNCHANGED <<epub, bookModified, phase, history>>
    BY <1>6, UnchangedTabsKeepWork DEF vars, file_vars, mark_vars, save_vars
  <2> QED
    BY <1>0, <2>1, SafeStays DEF LetGoIsSafe, LossIsExcused, history
<1> QED
  BY <1>1, <1>2, <1>3, <1>4, <1>5, <1>6 DEF Next, Save

-----------------------------------------------------------------------------
(* The theorems *)

LEMMA InitWork == Init => Work = EmptyBook
BY DEF Init, Work, EmptyBook

LEMMA InitIInv == Init => IInv
<1> SUFFICES ASSUME Init PROVE IInv
    OBVIOUS
<1>1. TypeInv
  BY EmptyIsABook DEF Init, TypeInv
<1>2. OnlyTheCurrentTabIsUnsaved /\ CopiesAgree /\ ModifiedBookMarksTheWindow /\ LossIsExcused
  BY DEF Init, OnlyTheCurrentTabIsUnsaved, CopiesAgree, ModifiedBookMarksTheWindow, LossIsExcused
<1>3. LetGoIsSafe
  BY InitWork, EmptyIsABook DEF LetGoIsSafe, BookIsSafe
<1> QED
  BY <1>1, <1>2, <1>3 DEF IInv

LEMMA InvStep == IInv /\ [Next]_vars => IInv'
BY TypeStep, FlagsStep, LossStep DEF IInv

LEMMA InvHolds == Spec => []IInv
<1>1. Init => IInv
  BY InitIInv
<1>2. IInv /\ [Next]_vars => IInv'
  BY InvStep
<1> QED
  BY <1>1, <1>2, PTL DEF Spec

\* The variables keep their types (the members of class MainWindow and Book).
THEOREM TypesHold == Spec => []TypeInv
<1>1. IInv => TypeInv
  BY DEF IInv
<1> QED
  BY <1>1, InvHolds, PTL

\* SaveTabData and the saves on a switch or a close leave no edit behind in a tab.
THEOREM TabsAreSaved == Spec => []OnlyTheCurrentTabIsUnsaved
<1>1. IInv => OnlyTheCurrentTabIsUnsaved
  BY DEF IInv
<1> QED
  BY <1>1, InvHolds, PTL

\* MaybeSaveDialogSaysProceed asks about every book that was marked modified.
THEOREM ModifiedIsMarked == Spec => []ModifiedBookMarksTheWindow
<1>1. IInv => ModifiedBookMarksTheWindow
  BY DEF IInv
<1> QED
  BY <1>1, InvHolds, PTL

\* Only an edit that never marked its book, or a save that failed, can make the
\* program let go of what is in no file without the user's Discard.
THEOREM LossNeedsAnExcuse == Spec => []LossIsExcused
<1>1. IInv => LossIsExcused
  BY DEF IInv
<1> QED
  BY <1>1, InvHolds, PTL

-----------------------------------------------------------------------------
(* What an unmarked book lacks in its own file *)

\* The edits that the file in the title bar does not have where the book has them.
Missing ==
    IF epub[path] \in Books
    THEN {e \in EditsOf(Work) : \E r \in Resources : e \in Work[r] \ epub[path][r]}
    ELSE EditsOf(Work)

\* A book that is not marked lacks nothing but what is excused, also while it
\* is saved or left; only while its own file is being written is that not so.
OwnFileHasIt ==
    ~bookModified /\ path \in Paths /\ ~(phase = "add" /\ target = path)
        => Missing \subseteq unmarked \cup failed

\* A step that keeps the book, its file and the marks keeps what is missing.
LEMMA OwnFileStays ==
    ASSUME OwnFileHasIt, Work' = Work, UNCHANGED <<path, bookModified>>,
           path \in Paths => epub'[path] = epub[path],
           unmarked \subseteq unmarked', failed \subseteq failed',
           phase = "add" /\ target = path => phase' = "add" /\ target' = path
    PROVE  OwnFileHasIt'
<1> SUFFICES ASSUME path \in Paths PROVE OwnFileHasIt'
  BY DEF OwnFileHasIt
<1>1. Missing' = Missing
  BY DEF Missing, EditsOf
<1> QED
  BY <1>1 DEF OwnFileHasIt

LEMMA OwnFileStep == IInv /\ OwnFileHasIt /\ [Next]_vars => OwnFileHasIt'
<1> SUFFICES ASSUME IInv, OwnFileHasIt, [Next]_vars PROVE OwnFileHasIt'
    OBVIOUS
<1>0. TypeInv /\ OnlyTheCurrentTabIsUnsaved /\ CopiesAgree
  BY DEF IInv
<1>1. CASE Edit
  <2> PICK e \in Edits : Type(e) \/ ChangePackage(e) \/ QuietEdit(e)
    BY <1>1 DEF Edit, QuietEdit
  <2>1. CASE Type(e) \/ ChangePackage(e)
    BY <2>1 DEF Type, ChangePackage, SetModified, OwnFileHasIt
  <2>2. CASE QuietEdit(e)
    <3>1. /\ UNCHANGED <<path, epub, bookModified, failed>> /\ phase = "idle"
          /\ ~bookModified => unmarked' = unmarked \cup {e}
          /\ \A r \in Resources : Work'[r] \subseteq Work[r] \cup {e}
      BY <1>0, <2>2, QuietEditAdds
    <3>2. Missing' \subseteq Missing \cup {e}
      <4>1. CASE epub[path] \in Books
        BY <3>1, <4>1 DEF Missing, EditsOf
      <4>2. CASE epub[path] \notin Books
        BY <3>1, <4>2 DEF Missing, EditsOf
      <4> QED
        BY <4>1, <4>2
    <3>3. ASSUME ~bookModified, path \in Paths PROVE Missing' \subseteq unmarked' \cup failed'
      <4>1. Missing \subseteq unmarked \cup failed
        BY <3>1, <3>3 DEF OwnFileHasIt
      <4> QED
        BY <3>1, <3>2, <3>3, <4>1
    <3> QED
      BY <3>1, <3>3 DEF OwnFileHasIt
  <2> QED
    BY <2>1, <2>2
<1>2. CASE Tabs
  <2>1. Work' = Work
    BY <1>0, <1>2, TabsKeepWork
  <2>2. UNCHANGED <<epub, path, bookModified, phase, target, unmarked, failed>>
    BY <1>2 DEF Tabs, SwitchTo, CloseTab, file_vars, mark_vars, save_vars, history
  <2> QED
    BY <2>1, <2>2, OwnFileStays
<1>3. ASSUME NEW p, NEW what, SaveFile(p, what) PROVE OwnFileHasIt'
  <2>1. Work' = Work
    BY <1>0, <1>3, SaveTabDataKeepsWork DEF SaveFile
  <2>2. UNCHANGED <<epub, path, bookModified, unmarked, failed>> /\ phase = "idle"
    BY <1>3 DEF SaveFile, file_vars, mark_vars
  <2> QED
    BY <2>1, <2>2, OwnFileStays
<1>4. CASE SaveStep
  <2>0. Work' = Work
    BY <1>4, UnchangedTabsKeepWork DEF SaveStep, WriteFolder, CopyPublication, CreateZip,
                                       CloseZip, SaveFails, Terminate
  <2>1. CASE WriteFolder \/ CopyPublication
    <3>1. UNCHANGED <<epub, path, bookModified, unmarked, failed>> /\ phase # "add"
      BY <2>1 DEF WriteFolder, CopyPublication, mark_vars, history
    <3> QED
      BY <2>0, <3>1, OwnFileStays
  <2>2. CASE CreateZip
    <3>1. UNCHANGED <<path, bookModified, target, unmarked, failed>> /\ phase # "add"
          /\ phase' = "add" /\ (path \in Paths /\ path # target => epub'[path] = epub[path])
      BY <1>0, <2>2 DEF CreateZip, mark_vars, history, TypeInv
    <3>2. CASE path = target
      BY <3>1, <3>2 DEF OwnFileHasIt
    <3>3. CASE path # target
      BY <2>0, <3>1, <3>3, OwnFileStays
    <3> QED
      BY <3>2, <3>3
  <2>3. CASE CloseZip
    <3>1. Work = dom
      BY <1>0, <2>3 DEF CloseZip, OnlyTheCurrentTabIsUnsaved, Work, TypeInv, Books
    <3>2. path' = target /\ epub'[target] = Work' /\ Work' \in Books
      BY <1>0, <2>0, <2>3, <3>1 DEF CloseZip, CopiesAgree, TypeInv
    <3>3. Missing' = {}
      BY <3>2 DEF Missing
    <3> QED
      BY <3>3 DEF OwnFileHasIt
  <2>4. CASE SaveFails \/ Terminate
    <3>1. EditsOf(Work)' \subseteq failed'
      BY <2>0, <2>4 DEF SaveFails, Terminate, EditsOf
    <3> QED
      BY <3>1 DEF Missing, OwnFileHasIt
  <2> QED
    BY <1>4, <2>1, <2>2, <2>3, <2>4 DEF SaveStep
<1>5. CASE Leave
  <2>1. ASSUME NEW what \in Leaves, SaveAndLeave(what) PROVE OwnFileHasIt'
    BY <1>3, <2>1 DEF SaveAndLeave
  <2>2. CASE Close \/ OpenNothing \/ \E what \in Leaves : LeaveUnsaved(what)
    <3>1. Work' = Work
      BY <2>2, UnchangedTabsKeepWork DEF LeaveUnsaved, Close, OpenNothing
    <3>2. UNCHANGED <<epub, path, bookModified, unmarked, failed>> /\ phase # "add"
      BY <2>2 DEF LeaveUnsaved, Close, OpenNothing, file_vars, mark_vars, history
    <3> QED
      BY <3>1, <3>2, OwnFileStays
  <2>3. CASE New \/ Start \/ \E marks \in BOOLEAN : OpenOther(marks)
    <3>1. path' \notin Paths
      BY <2>3, PathsAssumption DEF New, Start, OpenOther, CreateNewBook
    <3> QED
      BY <3>1 DEF OwnFileHasIt
  <2>4. ASSUME NEW p \in Paths, OpenEpub(p) PROVE OwnFileHasIt'
    <3>1. Work' = epub[p] /\ path' = p /\ epub' = epub /\ epub[p] \in Books
      BY <2>4, NewBookIsSeen DEF OpenEpub, SetNewBook
    <3>2. Missing' = {}
      BY <3>1 DEF Missing
    <3> QED
      BY <3>2 DEF OwnFileHasIt
  <2> QED
    BY <1>5, <2>1, <2>2, <2>3, <2>4 DEF Leave
<1>6. CASE UNCHANGED vars
  <2>1. Work' = Work /\ UNCHANGED <<epub, path, bookModified, phase, target, unmarked, failed>>
    BY <1>6, UnchangedTabsKeepWork DEF vars, file_vars, mark_vars, save_vars, history
  <2> QED
    BY <2>1, OwnFileStays
<1> QED
  BY <1>1, <1>2, <1>3, <1>4, <1>5, <1>6 DEF Next, Save

\* The title bar does not lie: when SaveFile, Open and the commands that edit
\* leave Book::m_IsModified unset, m_CurrentFilePath has the book.
THEOREM UnmarkedIsStored == Spec => []UnmarkedBookIsStored
<1>1. Init => OwnFileHasIt
  BY PathsAssumption DEF Init, OwnFileHasIt
<1>2. IInv /\ OwnFileHasIt /\ [Next]_vars => OwnFileHasIt'
  BY OwnFileStep
<1>3. OwnFileHasIt => UnmarkedBookIsStored
  BY DEF OwnFileHasIt, Missing, UnmarkedBookIsStored
<1> QED
  BY <1>1, <1>2, <1>3, InvHolds, PTL DEF Spec

-----------------------------------------------------------------------------
(* The refinement *)

LEMMA StoreInit == Init => Store!Init
BY InitWork DEF Init, Store!Init, Store!EmptyBook, EmptyBook

LEMMA StoreEdit ==
    ASSUME TypeInv, Edit PROVE Store!Edit
<1> PICK e \in Edits : Type(e) \/ ChangePackage(e) \/ QuietEdit(e)
  BY DEF Edit, QuietEdit
<1>1. Work \in Books /\ Work' \in Books
  <2>1. TypeInv'
    BY EditTypes
  <2>2. Work' \in Books
    BY <2>1 DEF TypeInv, Work, Books, Resources
  <2> QED
    BY <2>2, WorkIsABook
<1>2. epub' = epub
  BY QuietEditAdds DEF Type, ChangePackage, file_vars
<1>3. \A r \in Resources : Work[r] \subseteq Work'[r]
  <2>1. CASE Type(e)
    BY <2>1 DEF Type, TypeInv, Work, Resources
  <2>2. CASE ChangePackage(e)
    BY <2>2 DEF ChangePackage, TypeInv, Work, Books, Resources
  <2>3. CASE QuietEdit(e)
    BY <2>3, QuietEditAdds
  <2> QED
    BY <2>1, <2>2, <2>3
<1> QED
  BY <1>1, <1>2, <1>3 DEF Store!Edit, Store!Books, Books

LEMMA StoreSaveStep == ASSUME IInv, SaveStep PROVE [Store!Next]_(Store!vars)
<1>0. TypeInv /\ OnlyTheCurrentTabIsUnsaved /\ CopiesAgree
  BY DEF IInv
<1>1. Work' = Work
  BY UnchangedTabsKeepWork DEF SaveStep, WriteFolder, CopyPublication, CreateZip,
                               CloseZip, SaveFails, Terminate
<1>2. CASE WriteFolder \/ CopyPublication \/ SaveFails \/ Terminate
  BY <1>1, <1>2 DEF WriteFolder, CopyPublication, SaveFails, Terminate, file_vars, Store!vars
<1>3. CASE CreateZip
  <2>1. Store!Damage(target) /\ target \in Paths
    BY <1>0, <1>1, <1>3 DEF CreateZip, Store!Damage, TypeInv
  <2> QED
    BY <2>1 DEF Store!Next
<1>4. CASE CloseZip
  <2>1. Work = dom
    BY <1>0, <1>4 DEF CloseZip, OnlyTheCurrentTabIsUnsaved, Work, TypeInv, Books
  <2>2. Store!Save(target) /\ target \in Paths
    BY <1>0, <1>1, <1>4, <2>1 DEF CloseZip, CopiesAgree, Store!Save, TypeInv
  <2> QED
    BY <2>2 DEF Store!Next
<1> QED
  BY <1>2, <1>3, <1>4 DEF SaveStep

LEMMA StoreLeave == ASSUME TypeInv, Leave PROVE [Store!Next]_(Store!vars)
<1>1. ASSUME NEW what \in Leaves, SaveAndLeave(what) PROVE UNCHANGED Store!vars
  BY <1>1, SaveTabDataKeepsWork DEF SaveAndLeave, SaveFile, file_vars, Store!vars
<1>2. ASSUME NEW what \in Leaves, LeaveUnsaved(what) PROVE UNCHANGED Store!vars
  BY <1>2, UnchangedTabsKeepWork DEF LeaveUnsaved, file_vars, Store!vars
<1>3. CASE Close \/ OpenNothing
  BY <1>3, UnchangedTabsKeepWork DEF Close, OpenNothing, file_vars, Store!vars
<1>4. ASSUME SetNewBook(EmptyBook) PROVE Store!Replace
  <2>1. Work' = EmptyBook /\ epub' = epub
    BY <1>4, EmptyIsABook, NewBookIsSeen DEF SetNewBook
  <2> QED
    BY <2>1 DEF Store!Replace, Store!EmptyBook, EmptyBook
<1>5. CASE New \/ Start \/ \E marks \in BOOLEAN : OpenOther(marks)
  BY <1>4, <1>5 DEF New, Start, OpenOther, CreateNewBook, Store!Next
<1>6. ASSUME NEW p \in Paths, OpenEpub(p) PROVE Store!Replace
  <2>1. epub[p] \in Books /\ Work' = epub[p] /\ epub' = epub
    BY <1>6, NewBookIsSeen DEF OpenEpub, SetNewBook
  <2> QED
    BY <2>1 DEF Store!Replace, Store!Books, Books
<1> QED
  BY <1>1, <1>2, <1>3, <1>5, <1>6 DEF Leave, Store!Next

LEMMA StoreStep == IInv /\ [Next]_vars => [Store!Next]_(Store!vars)
<1> SUFFICES ASSUME IInv, [Next]_vars PROVE [Store!Next]_(Store!vars)
    OBVIOUS
<1>0. TypeInv /\ OnlyTheCurrentTabIsUnsaved
  BY DEF IInv
<1>1. CASE Edit
  BY <1>0, <1>1, StoreEdit DEF Store!Next
<1>2. CASE Tabs
  <2>1. epub' = epub
    BY <1>2 DEF Tabs, SwitchTo, CloseTab, file_vars
  <2> QED
    BY <1>0, <1>2, <2>1, TabsKeepWork DEF Store!vars
<1>3. CASE Save
  BY <1>0, <1>3, SaveTabDataKeepsWork DEF Save, SaveFile, file_vars, Store!vars
<1>4. CASE UNCHANGED vars
  BY <1>4, UnchangedTabsKeepWork DEF vars, file_vars, Store!vars
<1> QED
  BY <1>0, <1>1, <1>2, <1>3, <1>4, StoreSaveStep, StoreLeave DEF Next

\* A session implements the abstract book store: only a completed SaveFile puts
\* a book into a file, it puts the whole book there, and nothing but editing,
\* New and Open changes the book.
THEOREM SessionImplementsStore == Spec => StoresTheBook
<1>1. Init => Store!Init
  BY StoreInit
<1>2. IInv /\ [Next]_vars => [Store!Next]_(Store!vars)
  BY StoreStep
<1> QED
  BY <1>1, <1>2, InvHolds, PTL DEF Spec, StoresTheBook, Store!Spec
=============================================================================
