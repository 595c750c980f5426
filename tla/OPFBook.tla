------------------------------ MODULE OPFBook ------------------------------
(***************************************************************************)
(* The files of a book (BookManipulation/FolderKeeper.cpp), the commands   *)
(* that change the set of files or their order (BookManipulation/Book.cpp, *)
(* MainUI/BookBrowser.cpp, MainUI/OPFModel.cpp), and the package document  *)
(* that has to follow them.                                                *)
(*                                                                         *)
(* The document is the text of a TextResource: what a pool thread stores   *)
(* goes to a cache first and reaches the text document in an update posted *)
(* to the GUI thread (module TextResource).  Every command of the user     *)
(* passes through a menu or an editor, whose own rounds of the event loop  *)
(* deliver a posted update before the command runs.                        *)
(***************************************************************************)
EXTENDS OPFResource

CONSTANTS
    HTMLs,           \* HTMLResource objects
    Images,          \* ImageResource objects
    HTMLNames,       \* filenames of chapters
    ImageNames,      \* filenames of images
    Section,         \* Section0001.xhtml, Section0002.xhtml, ...: a bound
    GuideTypes,      \* the types of the Add Semantics menu
    NoCache,         \* m_CacheInUse is false
    MaxNewChapters,  \* bound: chapters one split creates
    MaxReferences,   \* bound: references of the guide
    Deleting,        \* whether files are deleted and merged
    Stealing         \* whether the waiting GUI thread runs jobs of the pool

ASSUME ResourcesAssumption == HTMLs \cap Images = {}
ASSUME FilenamesAssumption ==
    /\ Names = HTMLNames \cup ImageNames
    /\ HTMLNames \cap ImageNames = {}
ASSUME SectionAssumption ==
    /\ Section \in Seq(HTMLNames \cap Plain)
    /\ Section # <<>> /\ IsInjective(Section)
ASSUME GuideAssumption == NoType \notin GuideTypes
ASSUME BoundAssumption == MaxNewChapters \in Nat /\ MaxReferences \in Nat
ASSUME FlagsAssumption == Deleting \in BOOLEAN /\ Stealing \in BOOLEAN

\* What a package document can be
Documents ==
    [manifest : Seq([id : Ids, href : Names]), spine : Seq(Ids \cup {NoId}),
     guide : Seq([type : GuideTypes, href : Names]), cover : Ids \cup {NoId, NoMeta}]

ASSUME CacheAssumption == NoCache \notin Documents

VARIABLES
    filename,  \* m_Resources: the filename of every resource in the book
    opf,       \* the document of the OPF's m_TextDocument
    cache,     \* m_Cache of the OPF, when m_CacheInUse
    asked,     \* how many chapters CreateNewChapters is creating
    order,     \* html_resources of CreateNewChapters
    created,   \* the chapter each job has put into the folder
    stolen,    \* the jobs the waiting GUI thread runs itself
    listed     \* the jobs whose AddResource is done

batch_vars == <<asked, order, created, stolen, listed>>
vars == <<filename, opf, cache, batch_vars>>

-----------------------------------------------------------------------------
(* FolderKeeper *)

Resources == HTMLs \cup Images
Live == DOMAIN filename
IsChapter(r) == r \in HTMLs
Chapters(files) == DOMAIN files \cap HTMLs

NamesFor(r) == IF IsChapter(r) THEN HTMLNames ELSE ImageNames

SectionsUsed(files) == {j \in DOMAIN Section : Section[j] \in Range(files)}

\* GetUniqueFilenameVersion of the k-th section name, as a number: k when the
\* name is free, else one more than the highest number in use
UniqueVersion(k, files) ==
    IF k \notin SectionsUsed(files) THEN k ELSE Max(SectionsUsed(files)) + 1

With(files, r, n) == [x \in DOMAIN files \cup {r} |-> IF x = r THEN n ELSE files[x]]

Without(files, r) == Restrict(files, DOMAIN files \ {r})

\* GetResourceTypeList< HTMLResource >( true ): the chapters in spine order,
\* each once, and then the others in the order of a hash
ChaptersInSpine(d, files) ==
    LET chapter(n) == {r \in Chapters(files) : files[r] = n}
        names == GetSpineOrderFilenames(d)
        firsts == {k \in DOMAIN names : /\ chapter(names[k]) # {}
                                        /\ \A j \in 1..(k - 1) : names[j] # names[k]}
    IN  SubsequenceAt([k \in firsts |-> CHOOSE r \in chapter(names[k]) : TRUE], firsts)

ReadingOrders(d, files) ==
    LET inSpine == ChaptersInSpine(d, files)
        others == Chapters(files) \ ToSet(inSpine)
    IN  {inSpine \o rest : rest \in SetToSeqs(others)}

FilenamesOf(chapters, files) == [k \in DOMAIN chapters |-> files[chapters[k]]]

-----------------------------------------------------------------------------
(* The text of the OPF *)

\* TextResource::GetText
Document == IF cache = NoCache THEN opf ELSE cache

\* TextResource::SetText on the GUI thread
SetText(d) == opf' = d /\ UNCHANGED cache

DelayedUpdateToTextDocument ==
    /\ cache # NoCache
    /\ asked = 0
    /\ opf' = cache
    /\ cache' = NoCache
    /\ UNCHANGED <<filename, batch_vars>>

\* A command runs on the GUI thread from start to end.
Ready == asked = 0 /\ cache = NoCache

-----------------------------------------------------------------------------
(* Book Browser *)

\* BookBrowser::AddNew, which makes the name unique, and AddExisting of one
\* file, which refuses a name in use.
AddContentFile(r, n) ==
    /\ Ready
    /\ r \notin Live
    /\ n \in NamesFor(r) \ Range(filename)
    /\ filename' = With(filename, r, n)
    /\ SetText(AddResource(opf, n, IsChapter(r)))
    /\ UNCHANGED batch_vars

\* The Deleted signal: FolderKeeper and the OPF drop the file.
Drop(r) ==
    /\ filename' = Without(filename, r)
    /\ SetText(RemoveResource(opf, filename[r], IsChapter(r)))
    /\ UNCHANGED batch_vars

\* BookBrowser::Remove and Resource::Delete: the last HTML file cannot be removed.
Delete(r) ==
    /\ Ready /\ Deleting
    /\ r \in Live
    /\ IsChapter(r) => Cardinality(Chapters(filename)) > 1
    /\ Drop(r)

\* The menu of a chapter offers the merge when its reading order is above 0.
MergeIsOffered(r) ==
    /\ Ready /\ Deleting
    /\ r \in Chapters(filename)
    /\ GetReadingOrder(opf, filename[r]) > 1

\* The content moves to the chapter before; only HTML files are updated.
MergeWithPrevious(r) ==
    /\ MergeIsOffered(r)
    /\ \E chapters \in ReadingOrders(opf, filename) : chapters[1] # r
    /\ Drop(r)

\* OPFModel::ItemChangedHandler: the name is valid and free, the OPF follows
\* the Renamed signal, and then PerformUniversalUpdates rewrites the paths.
Rename(r, new) ==
    /\ Ready
    /\ r \in Live
    /\ new \in NamesFor(r) \ Range(filename)
    /\ filename' = [filename EXCEPT ![r] = new]
    /\ SetText(UpdatePaths(ResourceRenamed(opf, filename[r], new), filename[r], new))
    /\ UNCHANGED batch_vars

\* OPFModel::UpdateHTMLReadingOrders after a chapter was dragged to place k
MoveHTML(r, k) ==
    /\ Ready
    /\ r \in Chapters(filename)
    /\ k \in 1..Cardinality(Chapters(filename))
    /\ \E chapters \in ReadingOrders(opf, filename) :
          LET moved == InsertAt(RemoveFirst(chapters, r), k, r)
          IN  SetText(UpdateSpineOrder(opf, FilenamesOf(moved, filename)))
    /\ UNCHANGED <<filename, batch_vars>>

\* Bound: the references of deleted files stay, so the guide could only grow.
AddSemantics(r, type) ==
    /\ Ready
    /\ r \in Chapters(filename)
    /\ Len(AddGuideSemanticType(opf, filename[r], type).guide) <= MaxReferences
    /\ SetText(AddGuideSemanticType(opf, filename[r], type))
    /\ UNCHANGED <<filename, batch_vars>>

SetCoverImage(r) ==
    /\ Ready
    /\ r \in Live \cap Images
    /\ SetText(SetResourceAsCoverImage(opf, filename[r]))
    /\ UNCHANGED <<filename, batch_vars>>

-----------------------------------------------------------------------------
(* Splitting a chapter at the cursor *)

\* Mutant: the new chapter goes after the one it was split from.
InsertAfter(s, i, e) == InsertAt(s, Max({1, Min({i + 1, Len(s) + 1})}), e)

\* html_resources.insert( reading_order, ... ): QList::insert puts an element
\* with an index out of range at the nearer end.
Insert(s, i, e) == InsertAt(s, Max({1, Min({i, Len(s) + 1})}), e)

\* Book::CreateChapterBreakOriginalResource: the old file gets a new section
\* name, and a new file with the first part takes the old name and the place
\* in front.  The paths in the other files are not updated.
SplitChapter(r, new) ==
    /\ Ready
    /\ r \in Chapters(filename) /\ new \in HTMLs \ Live
    /\ LET v == UniqueVersion(1, filename)
           files1 == [filename EXCEPT ![r] = Section[v]]
           opf1 == ResourceRenamed(opf, filename[r], Section[v])
           w == UniqueVersion(1, files1)
           opf2 == ResourceRenamed(AddResource(opf1, Section[w], TRUE),
                                   Section[w], filename[r])
       IN  /\ v \in DOMAIN Section /\ w \in DOMAIN Section
           /\ filename' = With(files1, new, filename[r])
           /\ \E chapters \in ReadingOrders(opf1, files1) :
                 LET all == Insert(chapters, GetReadingOrder(opf1, Section[v]), new)
                 IN  SetText(UpdateSpineOrder(opf2, FilenamesOf(all, filename')))
    /\ UNCHANGED batch_vars

-----------------------------------------------------------------------------
(* Creating chapters: one job of the thread pool for each *)

\* Book::CreateNewChapters.  The GUI thread waits for the jobs.  Bound: there
\* are enough section names for the jobs.
CreateNewChapters(k) ==
    /\ Ready
    /\ k <= Cardinality(HTMLs \ Live)
    /\ Max(SectionsUsed(filename) \cup {Cardinality(Chapters(filename))}) + k <= Len(Section)
    /\ asked' = k
    /\ order' \in ReadingOrders(opf, filename)
    /\ UNCHANGED <<filename, opf, cache, created, stolen, listed>>

\* A pool thread takes the job, or the GUI thread does: it waits for the
\* futures in their order, and QFuture::waitForFinished runs a job that no
\* thread has begun.
Begin(i) ==
    \/ UNCHANGED stolen
    \/ Stealing /\ 1..(i - 1) \subseteq listed /\ stolen' = stolen \cup {i}

\* Mutant: the name is not made unique.
InsertChapterAsNamed(i, r) ==
    /\ i \in 1..asked \ DOMAIN created
    /\ r \notin Live
    /\ Begin(i)
    /\ filename' = With(filename, r, Section[Len(order) + i])
    /\ created' = With(created, i, r)
    /\ UNCHANGED <<opf, cache, asked, order, listed>>

\* CreateOneNewChapter, in AddContentFileToFolder: under m_AccessMutex the
\* name is made unique and the resource inserted.
InsertChapter(i, r) ==
    /\ i \in 1..asked \ DOMAIN created
    /\ r \notin Live
    /\ Begin(i)
    /\ LET v == UniqueVersion(Len(order) + i, filename)
       IN  v \in DOMAIN Section /\ filename' = With(filename, r, Section[v])
    /\ created' = With(created, i, r)
    /\ UNCHANGED <<opf, cache, asked, order, listed>>

\* Mutant: the document is read without its cache.
ListChapterUncached(i) ==
    /\ i \in DOMAIN created \ listed
    /\ LET added == AddResource(opf, filename[created[i]], TRUE)
       IN  \/ i \notin stolen /\ cache' = added /\ UNCHANGED opf
           \/ i \in stolen /\ SetText(added)
    /\ listed' = listed \cup {i}
    /\ UNCHANGED <<filename, asked, order, created, stolen>>

\* Then ResourceAdded calls OPFResource::AddResource, under the OPF's lock.
ListChapter(i) ==
    /\ i \in DOMAIN created \ listed
    /\ LET added == AddResource(Document, filename[created[i]], TRUE)
       IN  \/ i \notin stolen /\ cache' = added /\ UNCHANGED opf
           \/ i \in stolen /\ SetText(added)
    /\ listed' = listed \cup {i}
    /\ UNCHANGED <<filename, asked, order, created, stolen>>

\* Mutant: the futures are kept for the next split.
FinishChaptersUncleared ==
    /\ asked > 0
    /\ listed = 1..asked
    /\ LET all == order \o [i \in 1..asked |-> created[i]]
       IN  SetText(UpdateSpineOrder(Document, FilenamesOf(all, filename)))
    /\ asked' = 0 /\ order' = <<>>
    /\ UNCHANGED <<filename, created, stolen, listed>>

\* After sync.waitForFinished(): the futures are in the order of the chapters.
FinishChapters ==
    /\ asked > 0
    /\ listed = 1..asked
    /\ LET all == order \o [i \in 1..asked |-> created[i]]
       IN  SetText(UpdateSpineOrder(Document, FilenamesOf(all, filename)))
    /\ asked' = 0 /\ order' = <<>> /\ created' = <<>>
    /\ stolen' = {} /\ listed' = {}
    /\ UNCHANGED filename

-----------------------------------------------------------------------------
\* A new book: one chapter, listed in the manifest and the spine
Init ==
    /\ \E r \in HTMLs :
          filename = [x \in {r} |-> Section[1]]
    /\ opf = [manifest |-> <<[id |-> ValidID[Section[1]], href |-> Section[1]]>>,
              spine |-> <<ValidID[Section[1]]>>, guide |-> <<>>, cover |-> NoMeta]
    /\ cache = NoCache
    /\ asked = 0 /\ order = <<>> /\ created = <<>> /\ stolen = {} /\ listed = {}

Next ==
    \/ DelayedUpdateToTextDocument \/ FinishChapters
    \/ \E r \in Resources :
          \/ Delete(r) \/ SetCoverImage(r) \/ MergeWithPrevious(r)
          \/ \E n \in NamesFor(r) : AddContentFile(r, n) \/ Rename(r, n)
          \/ \E k \in 1..Cardinality(HTMLs) : MoveHTML(r, k)
          \/ \E type \in GuideTypes : AddSemantics(r, type)
          \/ \E new \in HTMLs : SplitChapter(r, new)
    \/ \E k \in 1..MaxNewChapters : CreateNewChapters(k)
    \/ \E i \in 1..MaxNewChapters :
          \/ ListChapter(i)
          \/ \E r \in HTMLs : InsertChapter(i, r)

Spec == Init /\ [][Next]_vars

-----------------------------------------------------------------------------
(* Properties *)

\* Every variable has its type; a batch creates no more files than asked.
TypeInv ==
    /\ Live \subseteq Resources
    /\ \A r \in Live : filename[r] \in NamesFor(r)
    /\ opf \in Documents /\ cache \in Documents \cup {NoCache}
    /\ asked \in 0..MaxNewChapters
    /\ order \in Seq(HTMLs)
    /\ DOMAIN created \subseteq 1..asked /\ Range(created) \subseteq Chapters(filename)
    /\ listed \subseteq DOMAIN created /\ stolen \subseteq DOMAIN created

\* No two files of the book have the same filename, whatever the jobs that
\* create files at once do (FolderKeeper::AddContentFileToFolder).
FilenamesAreUnique == IsInjective(filename)

\* Between two commands the manifest has one item for every file of the book
\* and no other.
ManifestListsTheBook ==
    Ready => /\ Len(opf.manifest) = Cardinality(Live)
             /\ {opf.manifest[i].href : i \in DOMAIN opf.manifest} = Range(filename)

\* Between two commands the spine has one itemref for every chapter, and each
\* leads to its chapter.
SpineListsTheChapters ==
    Ready => /\ Len(opf.spine) = Cardinality(Chapters(filename))
             /\ ToSet(ChaptersInSpine(opf, filename)) = Chapters(filename)

\* A chapter whose menu offers the merge has a chapter before it: "We can't
\* add the action for the first file" (BookBrowser.cpp:718).  The menu counts
\* itemrefs and the merge counts files, so an itemref that leads nowhere
\* would make the index of the previous file -1.
MergeHasPrevious ==
    \A r \in HTMLs : MergeIsOffered(r) =>
        \A chapters \in ReadingOrders(opf, filename) : chapters[1] # r

Before(s, a, b) == \E i, j \in DOMAIN s : i < j /\ s[i] = a /\ s[j] = b

\* Only the user moves a chapter: no other command and no job changes the
\* order of the chapters that are there before and after it, except that a
\* batch puts its own chapters in order.
ReadingOrderKept ==
    [][ \/ \E r \in HTMLs, k \in 1..Cardinality(HTMLs) : MoveHTML(r, k)
        \/ \A a, b \in (Chapters(filename) \ Range(created)) \cap Chapters(filename') :
              Before(ChaptersInSpine(Document, filename), a, b)
              => Before(ChaptersInSpine(Document', filename'), a, b) ]_vars

\* A split puts the file with the first part directly in front of the other.
SplitPutsFirstPartBefore ==
    [][ \A r, new \in HTMLs : SplitChapter(r, new) =>
          \E k \in DOMAIN ChaptersInSpine(opf, filename) :
             /\ ChaptersInSpine(opf, filename)[k] = r
             /\ ChaptersInSpine(opf', filename')
                  = InsertAt(ChaptersInSpine(opf, filename), k, new) ]_vars

\* The document a batch leaves to be delivered lists every chapter its jobs
\* created, in whatever order the pool threads ran, unless the waiting GUI
\* thread ran one of them: AddResource sees what the other jobs stored.
JobsListTheirChapters ==
    [][ asked > 0 /\ asked' = 0 /\ stolen = {} =>
          Range(created) \subseteq ToSet(ChaptersInSpine(cache', filename')) ]_vars

GuideNamesChapters ==
    \A i \in DOMAIN Document.guide :
        \E r \in Chapters(filename) : Document.guide[i].href = filename[r]

\* A chapter keeps its guide type when it or another file is renamed, moved,
\* added, merged or deleted: only Add Semantics and a split change it.  But the
\* reference of a deleted chapter stays, for whoever takes its name.
SemanticsFollowTheChapter ==
    [][ \/ \E r \in HTMLs, type \in GuideTypes : AddSemantics(r, type)
        \/ \E r, new \in HTMLs : SplitChapter(r, new)
        \/ GuideNamesChapters =>
              \A r \in Chapters(filename) \cap Chapters(filename') :
                 GetGuideSemanticType(Document', filename'[r])
                 = GetGuideSemanticType(Document, filename[r]) ]_vars
=============================================================================
