------------------------------ MODULE EpubFile ------------------------------
(***************************************************************************)
(* A book on its way through an epub file: ImportEPUB and ImportOEBPS load *)
(* it, one job for each file, UniversalUpdates rewrites its links to the   *)
(* new names of the files, fonts are de-obfuscated; the user chooses how   *)
(* fonts are obfuscated; ExportEPUB writes it, and it is loaded again.     *)
(*                                                                         *)
(* The content of a file is what it was in the first epub, and the keys    *)
(* that its bytes are combined with (XOR: a key applied twice is gone).    *)
(* The package document is in the folder OEBPS; the NCX, whose links are   *)
(* updated as those of the package are, is left out.                       *)
(***************************************************************************)
EXTENDS Integers, Sequences, FiniteSets, SequencesExt, FiniteSetsExt

CONSTANTS
    FolderNames, \* the names of the epub's folders and of Sigil's, and ".."
    Epubs,     \* the epub files that are opened first
    MaxSaves,  \* bound: how often the book is saved
    MaxChoices, \* bound: how often the user chooses a font's method
    Plain      \* a font's algorithm when it is not obfuscated

VARIABLES
    epub,      \* the file: [files, items, links, encryption, identifiers]
    saves,     \* how often Sigil has written the file
    choices,   \* how often the user has chosen a method
    phase,     \* "idle", or "loading"
    m_Files,   \* the path of each id that is to be loaded
    results,   \* the name that each finished job returned, as a sequence, which
               \* is empty when the file does not exist
    loaded,    \* the resources of the new book, under their names
    book,      \* the book: [resources, items, links, identifiers]
    answer,    \* how the last attempt to open this file went
    misled     \* history: the fonts that were saved with another key than they are
               \* loaded with, and those that were loaded from outside OEBPS

vars == <<epub, saves, choices, phase, m_Files, results, loaded, book, answer, misled>>
load_vars == <<m_Files, results, loaded>>

Algorithms == {"adobe", "idpf"}

\* The book before one is loaded, which has no identifier
NoBook == [resources |-> <<>>, items |-> <<>>, links |-> {},
           identifiers |-> [forms |-> <<>>, main |-> 0]]

-----------------------------------------------------------------------------
(* Paths: [dirs, name] from the root of the epub, or relative, with "..".   *)
(* A name is [stem, num, kind].                                             *)

Folder == [xhtml |-> "Text", ttf |-> "Fonts", css |-> "Styles"]

Names == [stem : STRING, num : Nat, kind : DOMAIN Folder]
Paths == [dirs : Seq(FolderNames), name : Names]

\* An item's href leads from OEBPS, and is spelled as short as it can be: Sigil
\* compares strings, so a file that was spelled in two ways would be two to it.
Hrefs == {href \in Paths :
            /\ \A i \in DOMAIN href.dirs : href.dirs[i] = ".." => i = 1
            /\ 2 \in DOMAIN href.dirs /\ href.dirs[1] = ".." => href.dirs[2] # "OEBPS"}

Items == [id : Nat, href : Hrefs]

\* A link is the href or the src of a tag, or what a style, a file's or a chapter's
\* own, gives as url( ), or as @import "name".
LinkForms == {"reference", "url", "import"}

Links == [from : Paths, value : Paths, form : LinkForms]

ASSUME FoldersAssumption ==
    {"OEBPS", ".."} \subseteq FolderNames /\ \A k \in DOMAIN Folder : Folder[k] \in FolderNames

\* Where a resource is in a book of Sigil's
PathOf(name) == [dirs |-> <<"OEBPS", Folder[name.kind]>>, name |-> name]

\* The file that a relative path leads to, which begins with the folders it leaves
Resolve(dirs, value) ==
    LET up == Cardinality({i \in DOMAIN value.dirs : value.dirs[i] = ".."})
    IN  [dirs |-> SubSeq(dirs, 1, Len(dirs) - up) \o SubSeq(value.dirs, up + 1, Len(value.dirs)),
         name |-> value.name]

FileOf(item) == Resolve(<<"OEBPS">>, item.href)

\* GetUniqueFilenameVersion
UniqueVersion(name, names) ==
    LET same == {n.num : n \in {m \in names : m.stem = name.stem /\ m.kind = name.kind}}
    IN  IF name \notin names THEN name ELSE [name EXCEPT !.num = Max(same) + 1]

-----------------------------------------------------------------------------
(* Identifiers: [forms, main].  "urn" is urn:uuid: and a UUID, "badurn" is  *)
(* urn:uuid: and something else, "uuid" a UUID alone, "text" anything else. *)

Forms == {"urn", "badurn", "uuid", "text"}

IdentifierLists == [forms : Seq(Forms), main : Nat]

\* What the first epubs are: finitely many files, items and encrypted fonts
ASSUME EpubsAssumption ==
    \A e \in Epubs :
        /\ DOMAIN e.files \subseteq Paths /\ IsFiniteSet(DOMAIN e.files)
        /\ DOMAIN e.encryption \subseteq Paths /\ IsFiniteSet(DOMAIN e.encryption)
        /\ e.items \in Seq(Items) /\ e.links \subseteq Links
        /\ e.identifiers \in IdentifierLists /\ e.identifiers.forms # <<>>
ASSUME BoundsAssumption == MaxSaves \in Nat /\ MaxChoices \in Nat

FirstOf(identifiers, wanted) ==
    LET at == {i \in DOMAIN identifiers.forms : identifiers.forms[i] \in wanted}
    IN  IF at = {} THEN 0 ELSE Min(at)

\* ReadIdentifierElement, GetUUIDIdentifierValue: 0 when there is none.  The
\* scheme attribute that is read is not the one of the OPF namespace.
ImportedUuid(identifiers) == FirstOf(identifiers, {"urn", "badurn"})
ExportedUuid(identifiers) == FirstOf(identifiers, {"urn", "uuid"})

\* The keys.  Adobe's is made of the hex digits; IDPF's of the whole value, and
\* GetMainIdentifierValue has no urn:uuid: prefix.
ImportKey(algorithm, identifiers) ==
    IF algorithm = "adobe" THEN <<"adobe", ImportedUuid(identifiers)>>
    ELSE <<"idpf", IF identifiers.forms[identifiers.main] \in {"urn", "badurn"}
                   THEN "prefixed" ELSE "bare">>

ExportKey(algorithm, identifiers) ==
    IF algorithm = "adobe" THEN <<"adobe", ExportedUuid(identifiers)>> ELSE <<"idpf", "bare">>

\* FontObfuscation::ObfuscateFile
Obfuscate(keys, key) == IF key \in keys THEN keys \ {key} ELSE keys \cup {key}

EnsureUUIDIdentifierPresent(identifiers) ==
    IF ExportedUuid(identifiers) # 0 THEN identifiers
    ELSE [identifiers EXCEPT !.forms = Append(@, "urn")]

-----------------------------------------------------------------------------
(* Loading *)

\* Of the items that count and have one id the last one stays.
FilesOf(items, counted) ==
    [id \in {items[i].id : i \in counted} |->
        FileOf(items[Max({i \in counted : items[i].id = id})])]

\* Mutant: an href may be listed twice.
ReadRepeatedItems(items) == FilesOf(items, DOMAIN items)

\* ReadManifestItemElement for each item: an href counts once, and of two items
\* with one id the later replaces the earlier.
ReadManifestItems(items) ==
    FilesOf(items, {i \in DOMAIN items : \A j \in 1 .. i - 1 : items[j].href # items[i].href})

\* Mutant: the fonts of encryption.xml are not added.
AddNoFonts(files, fonts) == files

\* AddObfuscatedButUndeclaredFonts: each font of encryption.xml under a new id,
\* which is a number above those of the manifest.
AddObfuscatedButUndeclaredFonts(files, fonts) ==
    LET new == SetToSeq(fonts)
        top == Max({0} \cup DOMAIN files)
    IN  [k \in DOMAIN files \cup (top + 1 .. top + Len(new)) |->
            IF k > top THEN new[k - top] ELSE files[k]]

\* GetBook up to LoadFolderStructure.  Bound: a file that has been opened is not
\* opened again before it is saved.
Open ==
    /\ phase = "idle" /\ answer # "opened"
    /\ \/ /\ Range(epub.encryption) \subseteq Algorithms
          /\ phase' = "loading"
          /\ m_Files' = AddObfuscatedButUndeclaredFonts(ReadManifestItems(epub.items),
                                                         DOMAIN epub.encryption)
          /\ results' = <<>> /\ loaded' = <<>>
          /\ UNCHANGED answer
       \/ /\ ~(Range(epub.encryption) \subseteq Algorithms)
          /\ answer' = "drm"
          /\ UNCHANGED <<phase, load_vars>>
    /\ UNCHANGED <<epub, saves, choices, book, misled>>

With(map, key, value) ==
    [k \in DOMAIN map \cup {key} |-> IF k = key THEN value ELSE map[k]]

\* A job of LoadFolderStructure; AddContentFileToFolder chooses the name under a mutex.
LoadOneFile(id) ==
    /\ phase = "loading" /\ id \notin DOMAIN results
    /\ LET path == m_Files[id]
           name == UniqueVersion(path.name, DOMAIN loaded)
       IN  \/ /\ path \in DOMAIN epub.files
              /\ loaded' = With(loaded, name, epub.files[path])
              /\ results' = With(results, id, <<name>>)
           \/ /\ path \notin DOMAIN epub.files
              /\ results' = With(results, id, <<>>)
              /\ UNCHANGED loaded
    /\ UNCHANGED <<epub, saves, choices, phase, m_Files, book, answer, misled>>

\* The jobs that loaded a file
JobsOf(path) == {id \in DOMAIN m_Files : m_Files[id] = path /\ results[id] # <<>>}

LoadedPaths == {path \in Range(m_Files) : JobsOf(path) # {}}

\* The new name of each path: that of the job which is last in the order of the
\* ids in their hash.
Updates(lateFonts) ==
    [path \in LoadedPaths |->
        results[IF path \in lateFonts THEN Max(JobsOf(path)) ELSE Min(JobsOf(path))][1]]

\* SeparateHtmlCssXmlUpdates: the files that references are updated for, and those
\* that styles are; the package document's items are for every file.
HtmlPaths == {path \in LoadedPaths : path.name.kind # "ttf"}
CssPaths == {path \in LoadedPaths : path.name.kind \in {"ttf", "css"}}

\* The last folder of a file's old path, which begins with the package document's
\* folder: it ends with "/.." for a file at the root.
DirName(path) == IF path.dirs = <<>> THEN ".." ELSE Last(path.dirs)

\* Mutant: the name of the folder is not compared.
MatchesByName(path, value) == path.name = value.name

\* UpdateReferenceInNode: the attribute names the file, and if it names the
\* folder, then one that has the same name.
Matches(path, value) ==
    /\ path.name = value.name
    /\ value.dirs = <<>> \/ Last(value.dirs) \in {"..", DirName(path)}

\* The attribute gets the new path of the first file in the hash that matches;
\* "order" is that of the hash's keys.
UpdateReference(value, updates, order, up) ==
    LET hits == {k \in DOMAIN order : Matches(order[k], value)}
        name == updates[order[Min(hits)]]
    IN  IF hits = {} THEN value
        ELSE [dirs |-> Append(up, Folder[name.kind]), name |-> name]

\* PerformCSSUpdates: each file in turn, by its name alone.  Of the two captures
\* of the expression only the first, url( ), is replaced.
Replace(value, path, updates) ==
    IF path.name # value.name THEN value
    ELSE [dirs |-> <<"..", Folder[path.name.kind]>>, name |-> updates[path]]

UpdateStyle(value, updates, order) ==
    LET after[k \in 0 .. Len(order)] ==
            IF k = 0 THEN value ELSE Replace(after[k - 1], order[k], updates)
    IN  after[Len(order)]

\* PerformHTMLUpdates, PerformCSSUpdates
UpdateLink(link, updates, html, css) ==
    [link EXCEPT !.from = updates[@],
                 !.value = CASE link.form = "reference" -> UpdateReference(@, updates, html, <<"..">>)
                             [] link.form = "url" -> UpdateStyle(@, updates, css)
                             [] link.form = "import" -> @]

\* The order of a hash's keys; it matters for files that share a name.
Orders(paths) ==
    LET clashing == {p \in paths : \E o \in paths \ {p} : o.name = p.name}
    IN  {order \o SetToSeq(paths \ clashing) : order \in SetToSeqs(clashing)}

\* The path that loading made of the item's href is the one that encryption.xml
\* gives, letter by letter: from another folder the href begins with "..", and
\* stays behind the package document's folder.
SpelledAlike(path) == path.dirs # <<>> /\ path.dirs[1] = "OEBPS"

EncryptedPaths == {path \in LoadedPaths \cap DOMAIN epub.encryption : SpelledAlike(path)}

\* Mutant: the algorithm is set, and the font is left as it is.
ProcessNoFonts(resources, updates) ==
    [name \in DOMAIN resources |->
        LET found == {p \in EncryptedPaths : updates[p] = name}
        IN  [what |-> resources[name].what, garbled |-> resources[name].garbled,
             algorithm |-> IF found = {} THEN Plain ELSE epub.encryption[CHOOSE p \in found : TRUE]]]

\* ProcessFontFiles: the fonts that updates leads to from encryption.xml
ProcessFontFiles(resources, updates) ==
    [name \in DOMAIN resources |->
        LET found == {p \in EncryptedPaths : updates[p] = name}
            algorithm == epub.encryption[CHOOSE p \in found : TRUE]
            plain == resources[name]
        IN  IF found = {} THEN [what |-> plain.what, garbled |-> plain.garbled, algorithm |-> Plain]
            ELSE [what |-> plain.what, algorithm |-> algorithm,
                  garbled |-> Obfuscate(plain.garbled, ImportKey(algorithm, epub.identifiers))]]

\* ObfuscateFile throws when the identifier is empty.
FontObfuscationError ==
    /\ ImportedUuid(epub.identifiers) = 0
    /\ \E path \in EncryptedPaths : epub.encryption[path] = "adobe"

\* All jobs have finished: the rest of GetBook, on the GUI thread.  The HTML and
\* CSS files are updated by jobs of their own, each alone; each of the three hashes
\* has its own order.
FinishLoading ==
    /\ phase = "loading" /\ DOMAIN results = DOMAIN m_Files
    /\ phase' = "idle"
    /\ m_Files' = <<>> /\ results' = <<>> /\ loaded' = <<>>
    /\ \/ FontObfuscationError /\ answer' = "error" /\ UNCHANGED <<book, misled>>
       \/ /\ ~FontObfuscationError
          /\ answer' = "opened"
          /\ \E lateFonts \in SUBSET DOMAIN epub.encryption,
                xml \in Orders(LoadedPaths), html \in Orders(HtmlPaths), css \in Orders(CssPaths) :
             LET updates == Updates(lateFonts)
             IN  book' = [resources |-> ProcessFontFiles(loaded, updates),
                          items |-> [i \in DOMAIN epub.items |-> [epub.items[i] EXCEPT
                                        !.href = UpdateReference(@, updates, xml, <<>>)]],
                          links |-> {UpdateLink(link, updates, html, css) :
                                       link \in {l \in epub.links : l.from \in LoadedPaths}},
                          identifiers |-> epub.identifiers]
          /\ misled' = misled \cup {epub.files[path].what : path \in
                (LoadedPaths \cap DOMAIN epub.encryption) \ EncryptedPaths}
    /\ UNCHANGED <<epub, saves, choices>>

-----------------------------------------------------------------------------
(* The loaded book *)

\* AdobesObfuscationMethod, IdpfsObfuscationMethod: a method is chosen, or, when
\* it is the current one, no method.
SetObfuscationAlgorithm(name, algorithm) ==
    /\ phase = "idle" /\ book # NoBook
    /\ name \in DOMAIN book.resources /\ name.kind = "ttf"
    /\ book' = [book EXCEPT !.resources[name].algorithm =
                   IF @ = algorithm THEN Plain ELSE algorithm]
    /\ choices < MaxChoices /\ choices' = choices + 1
    /\ UNCHANGED <<epub, saves, phase, load_vars, answer, misled>>

Obfuscated == {name \in DOMAIN book.resources : book.resources[name].algorithm # Plain}

\* Mutant: the book is saved without a UUID when it has none.
IdentifiersAsTheyAre == book.identifiers

\* WriteBook makes sure there is a UUID only when fonts need it.
IdentifiersToSave ==
    IF Obfuscated = {} THEN book.identifiers ELSE EnsureUUIDIdentifierPresent(book.identifiers)

\* ObfuscateFonts, in the copy of the book
Exported(name) ==
    LET font == book.resources[name]
    IN  [what |-> font.what,
         garbled |-> IF font.algorithm = Plain THEN font.garbled
                     ELSE Obfuscate(font.garbled, ExportKey(font.algorithm, IdentifiersToSave))]

\* ExportEPUB::WriteBook
WriteBook ==
    /\ phase = "idle" /\ book # NoBook /\ saves < MaxSaves
    /\ epub' = [files |-> [path \in {PathOf(n) : n \in DOMAIN book.resources} |-> Exported(path.name)],
                items |-> book.items,
                links |-> {[l EXCEPT !.from = PathOf(@)] : l \in book.links},
                encryption |-> [path \in {PathOf(n) : n \in Obfuscated} |->
                                   book.resources[path.name].algorithm],
                identifiers |-> IdentifiersToSave]
    /\ book' = [book EXCEPT !.identifiers = IdentifiersToSave]
    /\ saves' = saves + 1 /\ answer' = "none"
    /\ misled' = misled \cup {book.resources[n].what :
          n \in {f \in Obfuscated : LET algorithm == book.resources[f].algorithm
                                     IN  ExportKey(algorithm, IdentifiersToSave)
                                           # ImportKey(algorithm, IdentifiersToSave)}}
    /\ UNCHANGED <<choices, phase, load_vars>>

Init ==
    /\ epub \in Epubs /\ saves = 0 /\ choices = 0
    /\ phase = "idle"
    /\ m_Files = <<>> /\ results = <<>> /\ loaded = <<>>
    /\ book = NoBook /\ answer = "none"
    /\ misled = {}

Next ==
    \/ Open \/ FinishLoading \/ WriteBook
    \/ \E id \in DOMAIN m_Files : LoadOneFile(id)
    \/ phase = "idle" /\ book # NoBook /\
       \E name \in DOMAIN book.resources, algorithm \in Algorithms :
          SetObfuscationAlgorithm(name, algorithm)

Spec == Init /\ [][Next]_vars

-----------------------------------------------------------------------------
(* Properties *)

Listed == {FileOf(epub.items[i]) : i \in DOMAIN epub.items} \cap DOMAIN epub.files

\* Only an obfuscated font is loaded twice ("prevents Sigil from loading the same
\* resource multiple times", ChangeLog.txt).
TypeInv ==
    /\ saves \in 0 .. MaxSaves /\ choices \in 0 .. MaxChoices /\ phase \in {"idle", "loading"}
    /\ DOMAIN results \subseteq DOMAIN m_Files
    /\ \A i, j \in DOMAIN m_Files : m_Files[i] = m_Files[j] /\ i # j => m_Files[i] \in DOMAIN epub.encryption
    /\ answer \in {"none", "opened", "drm", "error"}
    /\ answer = "opened" => book # NoBook

\* The file of the book that a value in the folder dirs leads to, in a set
Leads(dirs, value, resources) ==
    {resources[n].what : n \in {m \in DOMAIN resources : PathOf(m) = Resolve(dirs, value)}}

\* Of the files that are looked for no other has the same name, or the value names
\* the folder and no folder with this name has another such file.
Unmistakable(value, path, paths) ==
    \A other \in paths \ {path} : other.name = path.name =>
        /\ value.dirs # <<>> /\ Last(value.dirs) # ".."
        /\ DirName(other) # DirName(path)

\* In a style no other file may have the name, nor the new name: the link would be
\* replaced again.
UnmistakableInStyle(path) ==
    \A other \in CssPaths \ {path} :
        other.name \notin {path.name} \cup {results[id][1] : id \in JobsOf(path)}

\* References to fonts are not updated, nor are styles' links to chapters, nor
\* @import "name".
IsUpdated(link, path) ==
    \/ link.form = "reference" /\ path \in HtmlPaths /\ Unmistakable(link.value, path, HtmlPaths)
    \/ link.form = "url" /\ path \in CssPaths /\ UnmistakableInStyle(path)

BookIsLoaded == phase = "loading" /\ answer' = "opened" /\ phase' = "idle"

\* Every link between two files of the epub leads to the same file once they are
\* loaded, whatever names the jobs have given to them, in whatever order they
\* ran, and whatever order the hashes have; links that may be mistaken excepted, a
\* chapter's references to fonts, a style's links to chapters and @import "name",
\* all of which are not updated.
LinksAreKept ==
    [][ BookIsLoaded =>
          \A link \in epub.links :
             LET path == Resolve(link.from.dirs, link.value)
             IN  link.from \in LoadedPaths /\ IsUpdated(link, path)
                 => \E new \in book'.links :
                       /\ book'.resources[new.from].what = epub.files[link.from].what
                       /\ Leads(PathOf(new.from).dirs, new.value, book'.resources)
                            = {epub.files[path].what} ]_vars

\* No item that leads to the path shares its id with another.
IdsAreOwn(e, path) ==
    \A i, j \in DOMAIN e.items :
        FileOf(e.items[i]) = path /\ e.items[j].id = e.items[i].id => i = j

\* Every file that the manifest or encryption.xml lists is in the loaded book,
\* and its items lead to it, unless another item has the id of one of them.
ManifestIsKept ==
    [][ BookIsLoaded =>
          /\ \A path \in DOMAIN epub.encryption \cap DOMAIN epub.files :
                \E name \in DOMAIN book'.resources :
                   book'.resources[name].what = epub.files[path].what
          /\ \A i \in DOMAIN epub.items :
                LET path == FileOf(epub.items[i])
                IN  /\ path \in DOMAIN epub.files
                    /\ IdsAreOwn(epub, path)
                    => /\ path \in LoadedPaths
                       /\ Unmistakable(epub.items[i].href, path, LoadedPaths) =>
                            Leads(<<"OEBPS">>, book'.items[i].href, book'.resources)
                              = {epub.files[path].what} ]_vars

ListedInBook(name) == \E i \in DOMAIN book.items : FileOf(book.items[i]) = PathOf(name)

\* A font is in the book as it was before it was obfuscated, however often it is
\* saved and loaded and its method is changed; but for one that was saved with
\* another key than that it is loaded with, for one that the first epub kept outside
\* the package document's folder, and for the second copy of a font that the
\* manifest and encryption.xml both list.
FontsAreReadable ==
    phase = "idle" /\ book # NoBook =>
        \A name \in DOMAIN book.resources :
            \/ book.resources[name].garbled = {}
            \/ book.resources[name].what \in misled
            \/ /\ ~ListedInBook(name)
               /\ \E other \in DOMAIN book.resources \ {name} :
                     book.resources[other].what = book.resources[name].what

\* What Sigil has saved can be opened, unless the font's UUID is one that
\* ReadIdentifierElement does not recognise.
SavedBookOpens ==
    saves > 0 /\ answer \in {"drm", "error"} =>
        answer = "error" /\ "uuid" \in Range(epub.identifiers.forms)

\* De-obfuscating a font of the manifest undoes obfuscating it: "the inverse
\* operations of the obfuscation methods are the obfuscation methods themselves"
\* (ImportEPUB.cpp).
ObfuscationIsUndone ==
    phase = "idle" /\ book # NoBook /\ saves > 0 =>
        \A name \in DOMAIN book.resources :
            book.resources[name].algorithm # Plain /\ ListedInBook(name) =>
                book.resources[name].garbled = {}
=============================================================================
