--------------------------- MODULE EpubFileProofs ---------------------------
(***************************************************************************)
(* Proofs about a book on its way through an epub file, for any epubs and  *)
(* any number of saves and choices: type correctness, what Sigil has saved *)
(* can be opened, what the manifest and encryption.xml list is in the      *)
(* loaded book, and fonts stay readable.                                   *)
(***************************************************************************)
EXTENDS EpubFile, SequenceLemmas, SequenceTheorems

-----------------------------------------------------------------------------
(* The inductive invariants *)

ListedFiles(e) == {FileOf(e.items[i]) : i \in DOMAIN e.items}

IsEpub(e) ==
    /\ DOMAIN e.files \subseteq Paths /\ IsFiniteSet(DOMAIN e.files)
    /\ DOMAIN e.encryption \subseteq Paths /\ IsFiniteSet(DOMAIN e.encryption)
    /\ e.items \in Seq(Items) /\ e.links \subseteq Links
    /\ e.identifiers \in IdentifierLists /\ e.identifiers.forms # <<>>

IsResource(r) ==
    /\ r = [what |-> r.what, garbled |-> r.garbled, algorithm |-> r.algorithm]
    /\ r.algorithm \in Algorithms \cup {Plain}

BookLinks == [from : Names, value : Paths, form : LinkForms]

IsBook(b) ==
    /\ b = [resources |-> b.resources, items |-> b.items, links |-> b.links,
            identifiers |-> b.identifiers]
    /\ DOMAIN b.resources \subseteq Names /\ IsFiniteSet(DOMAIN b.resources)
    /\ \A n \in DOMAIN b.resources : IsResource(b.resources[n])
    /\ b.items \in Seq(Items) /\ b.links \subseteq BookLinks
    /\ b.identifiers \in IdentifierLists

\* The files to be loaded: those that encryption.xml lists, and those of the
\* items that have an id for themselves; one is there twice only if it is listed
\* in both.
Covers(files, e) ==
    /\ DOMAIN files \subseteq Nat /\ IsFiniteSet(DOMAIN files)
    /\ \A id \in DOMAIN files : files[id] \in Paths
    /\ \A path \in DOMAIN e.encryption : path \in Range(files)
    /\ \A i \in DOMAIN e.items :
          IdsAreOwn(e, FileOf(e.items[i])) => FileOf(e.items[i]) \in Range(files)
    /\ \A i, j \in DOMAIN files : files[i] = files[j] /\ i # j =>
          /\ files[i] \in ListedFiles(e)
          /\ files[i] \in DOMAIN e.encryption

\* What the jobs have done: each has its own name for a file that exists.
JobsAgree(done, names, files, e) ==
    /\ DOMAIN done \subseteq DOMAIN files
    /\ DOMAIN names \subseteq Names /\ IsFiniteSet(DOMAIN names)
    /\ \A id \in DOMAIN done :
          \/ done[id] = <<>> /\ files[id] \notin DOMAIN e.files
          \/ /\ files[id] \in DOMAIN e.files
             /\ \E n \in DOMAIN names : /\ done[id] = <<n>> /\ n.kind = files[id].name.kind
                                        /\ names[n] = e.files[files[id]]
    /\ \A n \in DOMAIN names : \E id \in DOMAIN done : done[id] = <<n>>
    /\ \A i, j \in DOMAIN done : done[i] = done[j] /\ done[i] # <<>> => i = j

Shapes ==
    /\ saves \in 0 .. MaxSaves /\ choices \in 0 .. MaxChoices /\ phase \in {"idle", "loading"}
    /\ answer \in {"none", "opened", "drm", "error"}
    /\ IsEpub(epub) /\ IsBook(book)
    /\ phase = "idle" => m_Files = <<>> /\ results = <<>>
    /\ phase = "loading" => Covers(m_Files, epub) /\ JobsAgree(results, loaded, m_Files, epub)
    /\ phase = "loading" => Range(epub.encryption) \subseteq Algorithms
    /\ book # NoBook \/ answer = "opened" => book.identifiers.forms # <<>>

SavedAsItOpens ==
    saves > 0 =>
        /\ Range(epub.encryption) \subseteq Algorithms
        /\ DOMAIN epub.encryption # {} => ExportedUuid(epub.identifiers) # 0

\* ---- fonts
WellFormed(e) ==
    /\ \A i, j \in DOMAIN e.items : e.items[i].id = e.items[j].id => i = j
    /\ \A p, q \in DOMAIN e.files : p.name = q.name => p = q
    /\ ListedFiles(e) \subseteq DOMAIN e.files

\* What the bytes of a file are combined with once it is de-obfuscated, if it is a
\* font of encryption.xml
Cleared(e, path) ==
    IF path \in DOMAIN e.encryption
    THEN Obfuscate(e.files[path].garbled, ImportKey(e.encryption[path], e.identifiers))
    ELSE e.files[path].garbled

\* Loading does not de-obfuscate it.
KeptOutside(e, path) == path \in DOMAIN e.encryption /\ ~SpelledAlike(path)

FilesReadable(e, excused) ==
    \A p \in DOMAIN e.files :
        \/ Cleared(e, p) = {} \/ e.files[p].what \in excused \/ KeptOutside(e, p)
        \/ p \notin ListedFiles(e) /\ \E q \in ListedFiles(e) : e.files[q].what = e.files[p].what

ListedNames(b) == {n \in DOMAIN b.resources : \E i \in DOMAIN b.items : FileOf(b.items[i]) = PathOf(n)}

BookReadable(b, excused) ==
    /\ \A i, j \in DOMAIN b.items : b.items[i].id = b.items[j].id => i = j
    /\ \A i \in DOMAIN b.items : \E n \in DOMAIN b.resources : FileOf(b.items[i]) = PathOf(n)
    /\ \A n \in DOMAIN b.resources :
        \/ b.resources[n].garbled = {} \/ b.resources[n].what \in excused
        \/ n \notin ListedNames(b)
           /\ \E m \in ListedNames(b) : b.resources[m].what = b.resources[n].what

FontsInv ==
    /\ Range(epub.encryption) \subseteq Algorithms => FilesReadable(epub, misled)
    /\ WellFormed(epub)
    /\ BookReadable(book, misled)

-----------------------------------------------------------------------------
(* Paths *)

LEMMA Folders == \A k \in DOMAIN Folder : Folder[k] \in FolderNames /\ Folder[k] # ".."
<1>1. DOMAIN Folder = {"xhtml", "ttf", "css"}
  BY DEF Folder
<1>2. Folder["xhtml"] # ".." /\ Folder["ttf"] # ".." /\ Folder["css"] # ".."
  BY DEF Folder
<1> QED
  BY <1>1, <1>2, FoldersAssumption

\* Sequences of one and of two elements
LEMMA Pairs ==
    ASSUME NEW T, NEW a \in T, NEW b \in T
    PROVE  /\ <<a>> \in Seq(T) /\ <<a, b>> \in Seq(T)
           /\ SubSeq(<<a>>, 1, 1) = <<a>> /\ <<a>> \o <<b>> = <<a, b>>
           /\ Append(<<a>>, b) = <<a, b>>
<1>1. <<a>> \in Seq(T) /\ <<b>> \in Seq(T) /\ <<a, b>> \in Seq(T)
  OBVIOUS
<1>2. Len(<<a>>) = 1 /\ Len(<<b>>) = 1 /\ Len(<<a, b>>) = 2
  OBVIOUS
<1>3. SubSeq(<<a>>, 1, 1) \in Seq(T) /\ Len(SubSeq(<<a>>, 1, 1)) = 1 /\ SubSeq(<<a>>, 1, 1)[1] = a
  BY <1>1, <1>2
<1>4. <<a>> \o <<b>> \in Seq(T) /\ Len(<<a>> \o <<b>>) = 2
      /\ (<<a>> \o <<b>>)[1] = a /\ (<<a>> \o <<b>>)[2] = b
  BY <1>1, <1>2
<1>5. SubSeq(<<a>>, 1, 1) = <<a>>
  <2>1. \A i \in 1..1 : SubSeq(<<a>>, 1, 1)[i] = <<a>>[i]
    BY <1>3
  <2> QED
    BY <1>1, <1>2, <1>3, <2>1, SeqEqual
<1>6. <<a>> \o <<b>> = <<a, b>>
  <2>1. \A i \in 1..2 : (<<a>> \o <<b>>)[i] = <<a, b>>[i]
    BY <1>4
  <2> QED
    BY <1>1, <1>2, <1>4, <2>1, SeqEqual
<1>7. Append(<<a>>, b) = <<a, b>>
  <2>1. Append(<<a>>, b) = <<a>> \o <<b>>
    BY <1>1
  <2> QED
    BY <1>6, <2>1
<1> QED
  BY <1>1, <1>5, <1>6, <1>7

LEMMA PathsOfNames ==
    ASSUME NEW n \in Names
    PROVE  /\ PathOf(n) \in Paths /\ PathOf(n).name = n
           /\ PathOf(n).dirs = <<"OEBPS", Folder[n.kind]>>
           /\ Last(PathOf(n).dirs) = Folder[n.kind]
<1>1. Folder[n.kind] \in FolderNames /\ "OEBPS" \in FolderNames
  BY Folders, FoldersAssumption DEF Names
<1>2. <<"OEBPS", Folder[n.kind]>> \in Seq(FolderNames)
  BY <1>1, Pairs
<1> QED
  BY <1>1, <1>2 DEF PathOf, Paths, Last

\* How many folders a relative path leaves
LEMMA UpIsCounted ==
    ASSUME NEW d \in Seq(FolderNames)
    PROVE  /\ Cardinality({i \in DOMAIN d : d[i] = ".."}) \in 0..Len(d)
           /\ d # <<>> /\ Last(d) # ".." => Cardinality({i \in DOMAIN d : d[i] = ".."}) < Len(d)
           /\ (\A i \in DOMAIN d : d[i] # "..") => Cardinality({i \in DOMAIN d : d[i] = ".."}) = 0
<1> DEFINE U == {i \in DOMAIN d : d[i] = ".."}
<1>1. Len(d) \in Nat /\ DOMAIN d = 1..Len(d)
  OBVIOUS
<1>2. IsFiniteSet(1..Len(d)) /\ Cardinality(1..Len(d)) = Len(d)
  <2> DEFINE n == Len(d)
  <2>1. n \in Nat
    BY <1>1
  <2> HIDE DEF n
  <2>2. IsFiniteSet(1..n) /\ Cardinality(1..n) = n
    BY <2>1, FS_Interval
  <2> QED
    BY <2>2 DEF n
<1>3. U \in SUBSET (1..Len(d))
  BY <1>1
<1>4. (\A i \in DOMAIN d : d[i] # "..") => U = {}
  OBVIOUS
<1>5. d # <<>> /\ Last(d) # ".." => Len(d) \in (1..Len(d)) \ U
  BY <1>1 DEF Last
<1> HIDE DEF U
<1>6. IsFiniteSet(U) /\ Cardinality(U) <= Cardinality(1..Len(d))
      /\ (Cardinality(1..Len(d)) = Cardinality(U) => 1..Len(d) = U)
  BY <1>2, <1>3, FS_Subset
<1>7. Cardinality(U) \in Nat
  BY <1>6, FS_CardinalityType
<1>8. U = {} => Cardinality(U) = 0
  BY FS_EmptySet
<1> QED
  BY <1>1, <1>2, <1>4, <1>5, <1>6, <1>7, <1>8 DEF U

\* What is left of a sequence ends as the sequence does.
LEMMA LastOfRest ==
    ASSUME NEW T, NEW s \in Seq(T), NEW i \in 0..Len(s)
    PROVE  /\ SubSeq(s, i + 1, Len(s)) \in Seq(T)
           /\ Len(SubSeq(s, i + 1, Len(s))) = Len(s) - i
           /\ i < Len(s) => SubSeq(s, i + 1, Len(s))[Len(SubSeq(s, i + 1, Len(s)))] = s[Len(s)]
<1>1. SubSeq(s, i + 1, Len(s)) \in Seq(T) /\ Len(SubSeq(s, i + 1, Len(s))) = Len(s) - i
  OBVIOUS
<1>2. i < Len(s) => SubSeq(s, i + 1, Len(s))[Len(s) - i] = s[Len(s)]
  OBVIOUS
<1> QED
  BY <1>1, <1>2

LEMMA FrontType ==
    ASSUME NEW T, NEW s \in Seq(T), NEW n \in Int, n <= Len(s)
    PROVE  SubSeq(s, 1, n) \in Seq(T)
<1>1. \A i \in 1..n : s[i] \in T
  OBVIOUS
<1> QED
  BY <1>1, SubSeqProperties

LEMMA LastOfConcat ==
    ASSUME NEW T, NEW s \in Seq(T), NEW t \in Seq(T), t # <<>>
    PROVE  Last(s \o t) = t[Len(t)]
<1>1. Len(s) \in Nat /\ Len(t) \in Nat /\ Len(t) > 0
  OBVIOUS
<1>2. Len(s \o t) = Len(s) + Len(t)
  OBVIOUS
<1>3. (s \o t)[Len(s) + Len(t)] = t[Len(t)]
  BY <1>1
<1>4. Last(s \o t) = (s \o t)[Len(s \o t)]
  BY DEF Last
<1> QED
  BY <1>2, <1>3, <1>4

LEMMA ResolveType ==
    ASSUME NEW dirs \in Seq(FolderNames), NEW value \in Paths
    PROVE  /\ Resolve(dirs, value) \in Paths /\ Resolve(dirs, value).name = value.name
           /\ value.dirs # <<>> /\ Last(value.dirs) # ".." =>
                DirName(Resolve(dirs, value)) = Last(value.dirs)
<1> DEFINE d == value.dirs
           up == Cardinality({i \in DOMAIN d : d[i] = ".."})
           front == SubSeq(dirs, 1, Len(dirs) - up)
           rest == SubSeq(d, up + 1, Len(d))
<1>1. d \in Seq(FolderNames) /\ value.name \in Names
  BY DEF Paths
<1>2. up \in 0..Len(d) /\ (d # <<>> /\ Last(d) # ".." => up < Len(d))
  BY <1>1, UpIsCounted
<1>3. Resolve(dirs, value) = [dirs |-> front \o rest, name |-> value.name]
  BY DEF Resolve
<1> HIDE DEF up, d
<1>4. Len(d) \in Nat /\ Len(dirs) \in Nat /\ up \in Nat
  BY <1>1, <1>2
<1>5. front \in Seq(FolderNames)
  <2> DEFINE n == Len(dirs) - up
  <2>1. n \in Int /\ n <= Len(dirs)
    BY <1>4
  <2> HIDE DEF n
  <2>2. SubSeq(dirs, 1, n) \in Seq(FolderNames)
    BY <2>1, FrontType
  <2> QED
    BY <2>2 DEF n
<1>6. rest \in Seq(FolderNames) /\ Len(rest) = Len(d) - up
      /\ (up < Len(d) => rest[Len(rest)] = d[Len(d)])
  BY <1>1, <1>2, LastOfRest
<1> HIDE DEF front, rest
<1>8. front \o rest \in Seq(FolderNames)
  BY <1>5, <1>6
<1>9. up < Len(d) => Last(front \o rest) = d[Len(d)] /\ front \o rest # <<>>
  <2> SUFFICES ASSUME up < Len(d)
               PROVE  Last(front \o rest) = d[Len(d)] /\ front \o rest # <<>>
    OBVIOUS
  <2>1. rest \in Seq(FolderNames) /\ rest # <<>> /\ rest[Len(rest)] = d[Len(d)]
    BY <1>2, <1>4, <1>6
  <2>2. Last(front \o rest) = rest[Len(rest)]
    BY <1>5, <2>1, LastOfConcat
  <2>3. front \o rest # <<>>
    BY <1>5, <2>1
  <2> QED
    BY <2>1, <2>2, <2>3
<1>10. [dirs |-> front \o rest, name |-> value.name] \in Paths
  BY <1>1, <1>8 DEF Paths
<1>11. d # <<>> /\ Last(d) # ".." => Last(front \o rest) = Last(d) /\ front \o rest # <<>>
  BY <1>2, <1>9 DEF Last
<1> QED
  BY <1>3, <1>10, <1>11 DEF d, DirName

LEMMA FileOfItem ==
    ASSUME NEW item \in Items
    PROVE  /\ FileOf(item) \in Paths /\ FileOf(item).name = item.href.name
           /\ item.href.dirs # <<>> /\ Last(item.href.dirs) # ".." =>
                DirName(FileOf(item)) = Last(item.href.dirs)
<1>1. item.href \in Paths /\ <<"OEBPS">> \in Seq(FolderNames)
  BY FoldersAssumption, Pairs DEF Items, Hrefs
<1> QED
  BY <1>1, ResolveType DEF FileOf

\* A path that names a folder of the package's leads there.
LEMMA ResolveDown ==
    ASSUME NEW n \in Names
    PROVE  /\ [dirs |-> <<Folder[n.kind]>>, name |-> n] \in Hrefs
           /\ Resolve(<<"OEBPS">>, [dirs |-> <<Folder[n.kind]>>, name |-> n]) = PathOf(n)
<1> DEFINE d == <<Folder[n.kind]>>
           up == Cardinality({i \in DOMAIN d : d[i] = ".."})
<1>1. Folder[n.kind] \in FolderNames /\ Folder[n.kind] # ".." /\ "OEBPS" \in FolderNames
  BY Folders, FoldersAssumption DEF Names
<1>2. d \in Seq(FolderNames) /\ Len(d) = 1 /\ DOMAIN d = {1} /\ d[1] # ".."
  BY <1>1
<1>3. up = 0
  BY <1>2, UpIsCounted
<1>4. Resolve(<<"OEBPS">>, [dirs |-> d, name |-> n])
        = [dirs |-> SubSeq(<<"OEBPS">>, 1, 1 - up) \o SubSeq(d, up + 1, 1), name |-> n]
  BY <1>2 DEF Resolve
<1> HIDE DEF up
<1>5. SubSeq(<<"OEBPS">>, 1, 1) = <<"OEBPS">> /\ SubSeq(d, 1, 1) = d
  BY <1>1, Pairs
<1>6. <<"OEBPS">> \o d = <<"OEBPS", Folder[n.kind]>>
  BY <1>1, Pairs
<1> QED
  BY <1>1, <1>2, <1>3, <1>4, <1>5, <1>6 DEF PathOf, Paths, Hrefs

\* Two hrefs that lead to one file are one.
LEMMA HrefIsUnique ==
    ASSUME NEW one \in Items, NEW other \in Items, FileOf(one) = FileOf(other)
    PROVE  one.href = other.href
<1> DEFINE rest(h) == IF 1 \in DOMAIN h.dirs /\ h.dirs[1] = ".." THEN Tail(h.dirs)
                      ELSE <<"OEBPS">> \o h.dirs
<1>1. ASSUME NEW h \in Hrefs
      PROVE  Resolve(<<"OEBPS">>, h) = [dirs |-> rest(h), name |-> h.name]
  <2> DEFINE d == h.dirs
             up == Cardinality({i \in DOMAIN d : d[i] = ".."})
  <2>1. d \in Seq(FolderNames) /\ Len(d) \in Nat /\ DOMAIN d = 1..Len(d)
    BY DEF Hrefs, Paths
  <2>2. \A i \in DOMAIN d : d[i] = ".." => i = 1
    BY DEF Hrefs
  <2>3. Resolve(<<"OEBPS">>, h) =
           [dirs |-> SubSeq(<<"OEBPS">>, 1, 1 - up) \o SubSeq(d, up + 1, Len(d)), name |-> h.name]
    BY DEF Resolve
  <2>4. CASE 1 \in DOMAIN d /\ d[1] = ".."
    <3>1. {i \in DOMAIN d : d[i] = ".."} = {1}
      BY <2>2, <2>4
    <3>2. up = 1
      BY <3>1, FS_Singleton
    <3> HIDE DEF up
    <3>3. SubSeq(<<"OEBPS">>, 1, 0) = <<>> /\ Len(d) > 0
      BY <2>1, <2>4
    <3>4. SubSeq(d, 2, Len(d)) = Tail(d)
      BY <2>1, <3>3
    <3>5. Tail(d) \in Seq(FolderNames)
      BY <2>1, <3>3
    <3>6. <<>> \o Tail(d) = Tail(d)
      BY <3>5
    <3>7. 1 - up = 0 /\ up + 1 = 2
      BY <3>2
    <3>8. SubSeq(<<"OEBPS">>, 1, 1 - up) \o SubSeq(d, up + 1, Len(d)) = Tail(d)
      BY <3>3, <3>4, <3>6, <3>7
    <3> QED
      BY <2>3, <2>4, <3>8
  <2>5. CASE ~(1 \in DOMAIN d /\ d[1] = "..")
    <3>1. \A i \in DOMAIN d : d[i] # ".."
      BY <2>2, <2>5
    <3>2. up = 0
      BY <2>1, <3>1, UpIsCounted
    <3> HIDE DEF up
    <3>3. SubSeq(<<"OEBPS">>, 1, 1) = <<"OEBPS">>
      <4>1. "OEBPS" \in FolderNames
        BY FoldersAssumption
      <4> QED
        BY <4>1, Pairs
    <3>4. SubSeq(d, 1, Len(d)) = d
      <4> HIDE DEF d
      <4>1. /\ SubSeq(d, 1, Len(d)) \in Seq(FolderNames) /\ Len(SubSeq(d, 1, Len(d))) = Len(d)
            /\ \A i \in 1..Len(d) : SubSeq(d, 1, Len(d))[i] = d[i]
        BY <2>1, SubSeqProperties
      <4> QED
        BY <2>1, <4>1, SeqEqual
    <3>5. 1 - up = 1 /\ up + 1 = 1
      BY <3>2
    <3>6. SubSeq(<<"OEBPS">>, 1, 1 - up) \o SubSeq(d, up + 1, Len(d)) = <<"OEBPS">> \o d
      BY <3>3, <3>4, <3>5
    <3> QED
      BY <2>3, <2>5, <3>6
  <2> QED
    BY <2>4, <2>5
<1>2. one.href \in Hrefs /\ other.href \in Hrefs
  BY DEF Items
<1> HIDE DEF rest
<1>3. rest(one.href) = rest(other.href) /\ one.href.name = other.href.name
  <2>1. [dirs |-> rest(one.href), name |-> one.href.name]
          = [dirs |-> rest(other.href), name |-> other.href.name]
    BY <1>1, <1>2 DEF FileOf
  <2> QED
    BY <2>1
<1> DEFINE c == one.href.dirs
           d == other.href.dirs
<1>4. /\ c \in Seq(FolderNames) /\ d \in Seq(FolderNames)
      /\ one.href = [dirs |-> c, name |-> one.href.name]
      /\ other.href = [dirs |-> d, name |-> other.href.name]
      /\ 2 \in DOMAIN c /\ c[1] = ".." => c[2] # "OEBPS"
      /\ 2 \in DOMAIN d /\ d[1] = ".." => d[2] # "OEBPS"
  BY <1>2 DEF Hrefs, Paths
<1>5. /\ rest(one.href) = IF 1 \in DOMAIN c /\ c[1] = ".." THEN Tail(c) ELSE <<"OEBPS">> \o c
      /\ rest(other.href) = IF 1 \in DOMAIN d /\ d[1] = ".." THEN Tail(d) ELSE <<"OEBPS">> \o d
  BY DEF rest
<1>6. c = d
  <2> HIDE DEF c, d
  <2>1. ASSUME NEW s \in Seq(FolderNames)
        PROVE  /\ Len(s) \in Nat /\ DOMAIN s = 1..Len(s)
               /\ <<"OEBPS">> \o s \in Seq(FolderNames) /\ Len(<<"OEBPS">> \o s) = Len(s) + 1
               /\ (<<"OEBPS">> \o s)[1] = "OEBPS"
               /\ \A i \in 1..Len(s) : (<<"OEBPS">> \o s)[i + 1] = s[i]
               /\ Len(s) > 0 => Tail(s) \in Seq(FolderNames) /\ Len(Tail(s)) = Len(s) - 1
               /\ Len(s) > 0 => \A i \in 1..Len(s) - 1 : Tail(s)[i] = s[i + 1]
    <3>1. <<"OEBPS">> \in Seq(FolderNames) /\ Len(<<"OEBPS">>) = 1
      BY FoldersAssumption
    <3> QED
      BY <3>1
  <2>2. \A s \in Seq(FolderNames) : Len(s) > 1 /\ s[1] = ".." /\ s[2] # "OEBPS"
           => \A t \in Seq(FolderNames) : Tail(s) # <<"OEBPS">> \o t
    <3> SUFFICES ASSUME NEW s \in Seq(FolderNames), Len(s) > 1, s[2] # "OEBPS",
                        NEW t \in Seq(FolderNames), Tail(s) = <<"OEBPS">> \o t
                 PROVE  FALSE
      OBVIOUS
    <3>1. Tail(s)[1] = s[1 + 1]
      BY <2>1
    <3> QED
      BY <2>1, <3>1
  <2>3. \A s \in Seq(FolderNames) : Len(s) = 1
           => \A t \in Seq(FolderNames) : Tail(s) # <<"OEBPS">> \o t
    <3> SUFFICES ASSUME NEW s \in Seq(FolderNames), Len(s) = 1,
                        NEW t \in Seq(FolderNames), Tail(s) = <<"OEBPS">> \o t
                 PROVE  FALSE
      OBVIOUS
    <3>1. Len(Tail(s)) = 0 /\ Len(<<"OEBPS">> \o t) = Len(t) + 1 /\ Len(t) \in Nat
      BY <2>1
    <3>2. Len(Tail(s)) = Len(<<"OEBPS">> \o t)
      OBVIOUS
    <3> QED
      BY <3>1, <3>2
  <2>4. \A s, t \in Seq(FolderNames) : <<"OEBPS">> \o s = <<"OEBPS">> \o t => s = t
    <3> SUFFICES ASSUME NEW s \in Seq(FolderNames), NEW t \in Seq(FolderNames),
                        <<"OEBPS">> \o s = <<"OEBPS">> \o t
                 PROVE  s = t
      OBVIOUS
    <3>1. Len(s) = Len(t) /\ Len(s) \in Nat
      BY <2>1
    <3>2. \A i \in 1..Len(s) : s[i] = t[i]
      BY <2>1, <3>1
    <3> QED
      BY <3>1, <3>2, SeqEqual
  <2>5. \A s, t \in Seq(FolderNames) :
           Len(s) > 0 /\ Len(t) > 0 /\ s[1] = t[1] /\ Tail(s) = Tail(t) => s = t
    <3> SUFFICES ASSUME NEW s \in Seq(FolderNames), NEW t \in Seq(FolderNames),
                        Len(s) > 0, Len(t) > 0, s[1] = t[1], Tail(s) = Tail(t)
                 PROVE  s = t
      OBVIOUS
    <3>1. Len(s) = Len(t) /\ Len(s) \in Nat
      BY <2>1
    <3>2. ASSUME NEW i \in 1..Len(s) PROVE s[i] = t[i]
      <4>1. CASE i = 1
        BY <4>1
      <4>2. CASE i > 1
        <5>1. i - 1 \in 1 .. Len(s) - 1 /\ (i - 1) + 1 = i
          BY <3>1, <4>2
        <5>2. Tail(s)[i - 1] = s[(i - 1) + 1] /\ Tail(t)[i - 1] = t[(i - 1) + 1]
          BY <2>1, <3>1, <5>1
        <5> QED
          BY <5>1, <5>2
      <4> QED
        BY <4>1, <4>2
    <3> QED
      BY <3>1, <3>2, SeqEqual
  <2>6. \A s \in Seq(FolderNames) :
           /\ 1 \in DOMAIN s <=> Len(s) > 0
           /\ 2 \in DOMAIN s <=> Len(s) > 1
           /\ Len(s) > 0 => Len(s) = 1 \/ Len(s) > 1
    BY <2>1
  <2>7. CASE (1 \in DOMAIN c /\ c[1] = "..") /\ (1 \in DOMAIN d /\ d[1] = "..")
    BY <1>3, <1>4, <1>5, <2>5, <2>6, <2>7
  <2>8. CASE ~(1 \in DOMAIN c /\ c[1] = "..") /\ ~(1 \in DOMAIN d /\ d[1] = "..")
    BY <1>3, <1>4, <1>5, <2>4, <2>8
  <2>9. CASE (1 \in DOMAIN c /\ c[1] = "..") /\ ~(1 \in DOMAIN d /\ d[1] = "..")
    BY <1>3, <1>4, <1>5, <2>2, <2>3, <2>6, <2>9
  <2>10. CASE ~(1 \in DOMAIN c /\ c[1] = "..") /\ (1 \in DOMAIN d /\ d[1] = "..")
    BY <1>3, <1>4, <1>5, <2>2, <2>3, <2>6, <2>10
  <2> QED
    BY <2>7, <2>8, <2>9, <2>10
<1> QED
  BY <1>3, <1>4, <1>6

\* So does one from a folder of the package's to another.
LEMMA ResolveAcross ==
    ASSUME NEW m \in Names, NEW n \in Names
    PROVE  Resolve(PathOf(m).dirs, [dirs |-> <<"..", Folder[n.kind]>>, name |-> n]) = PathOf(n)
<1> DEFINE d == <<"..", Folder[n.kind]>>
           base == <<"OEBPS", Folder[m.kind]>>
           up == Cardinality({i \in DOMAIN d : d[i] = ".."})
<1>1. /\ Folder[n.kind] \in FolderNames /\ Folder[n.kind] # ".." /\ Folder[m.kind] \in FolderNames
      /\ "OEBPS" \in FolderNames /\ ".." \in FolderNames
  BY Folders, FoldersAssumption DEF Names
<1>2. Len(d) = 2 /\ DOMAIN d = {1, 2} /\ d[1] = ".." /\ d[2] # ".." /\ Len(base) = 2
  BY <1>1
<1>3. up = 1
  <2>1. {i \in DOMAIN d : d[i] = ".."} = {1}
    BY <1>2
  <2>2. Cardinality({1}) = 1
    BY FS_Singleton
  <2> QED
    BY <2>1, <2>2
<1>4. PathOf(m).dirs = base
  BY PathsOfNames
<1>5. Resolve(base, [dirs |-> d, name |-> n])
        = [dirs |-> SubSeq(base, 1, 2 - up) \o SubSeq(d, up + 1, 2), name |-> n]
  BY <1>2 DEF Resolve
<1> HIDE DEF up
<1>6. SubSeq(base, 1, 1) = <<"OEBPS">> /\ SubSeq(d, 2, 2) = <<Folder[n.kind]>>
  <2>1. base \in Seq(FolderNames) /\ d \in Seq(FolderNames)
    BY <1>1, Pairs
  <2>2. base[1] = "OEBPS" /\ d[2] = Folder[n.kind] /\ Len(base) = 2 /\ Len(d) = 2
    OBVIOUS
  <2> HIDE DEF base, d
  <2>3. /\ SubSeq(base, 1, 1) \in Seq(FolderNames) /\ Len(SubSeq(base, 1, 1)) = 1
        /\ SubSeq(base, 1, 1)[1] = "OEBPS"
    <3>1. SubSeq(base, 1, 1) \in Seq(FolderNames)
      BY <2>1, <2>2, FrontType
    <3>2. Len(SubSeq(base, 1, 1)) = 1
      BY <2>1, <2>2
    <3>3. SubSeq(base, 1, 1)[1] = base[1]
      BY <2>1, <2>2
    <3> QED
      BY <2>2, <3>1, <3>2, <3>3
  <2>4. /\ SubSeq(d, 2, 2) \in Seq(FolderNames) /\ Len(SubSeq(d, 2, 2)) = 1
        /\ SubSeq(d, 2, 2)[1] = Folder[n.kind]
    BY <2>1, <2>2
  <2>5. <<"OEBPS">> \in Seq(FolderNames) /\ <<Folder[n.kind]>> \in Seq(FolderNames)
    BY <1>1, Pairs
  <2>6. \A i \in 1 .. 1 : SubSeq(base, 1, 1)[i] = <<"OEBPS">>[i]
    BY <2>3
  <2>7. \A i \in 1 .. 1 : SubSeq(d, 2, 2)[i] = <<Folder[n.kind]>>[i]
    BY <2>4
  <2>8. SubSeq(base, 1, 1) = <<"OEBPS">>
    BY <2>3, <2>5, <2>6, SeqEqual
  <2>9. SubSeq(d, 2, 2) = <<Folder[n.kind]>>
    BY <2>4, <2>5, <2>7, SeqEqual
  <2> QED
    BY <2>8, <2>9
<1>7. <<"OEBPS">> \o <<Folder[n.kind]>> = <<"OEBPS", Folder[n.kind]>>
  BY <1>1, Pairs
<1> QED
  BY <1>3, <1>4, <1>5, <1>6, <1>7 DEF PathOf

-----------------------------------------------------------------------------
(* GetUniqueFilenameVersion *)

LEMMA VersionIsFree ==
    ASSUME NEW name \in Names, NEW names \in SUBSET Names, IsFiniteSet(names)
    PROVE  /\ UniqueVersion(name, names) \in Names \ names
           /\ UniqueVersion(name, names).kind = name.kind
<1> DEFINE like == {m \in names : m.stem = name.stem /\ m.kind = name.kind}
           same == {n.num : n \in like}
<1>1. CASE name \notin names
  BY <1>1 DEF UniqueVersion
<1>2. CASE name \in names
  <2>1. IsFiniteSet(like)
    BY FS_Subset
  <2>2. IsFiniteSet(same)
    <3> DEFINE f == [n \in like |-> n.num]
    <3>1. DOMAIN f = like /\ f = [n \in like |-> f[n]] /\ same = {f[n] : n \in like}
      OBVIOUS
    <3> HIDE DEF f, same, like
    <3> QED
      BY <2>1, <3>1, ImageIsFinite
  <2>3. same \in SUBSET Nat /\ name.num \in same
    BY <1>2 DEF Names
  <2>4. \A n \in names : n.stem = name.stem /\ n.kind = name.kind => n.num \in same
    OBVIOUS
  <2>5. UniqueVersion(name, names) = [name EXCEPT !.num = Max(same) + 1]
    BY <1>2 DEF UniqueVersion
  <2> HIDE DEF same
  <2>6. Max(same) \in Nat /\ \A s \in same : s <= Max(same)
    BY <2>2, <2>3, MaxOfFinite
  <2> DEFINE new == [name EXCEPT !.num = Max(same) + 1]
  <2>7. new \in Names /\ new.num = Max(same) + 1 /\ new.stem = name.stem /\ new.kind = name.kind
    BY <2>6 DEF Names
  <2> HIDE DEF new
  <2>8. new \notin names
    BY <2>4, <2>6, <2>7
  <2> QED
    BY <2>5, <2>7, <2>8 DEF new
<1> QED
  BY <1>1, <1>2

-----------------------------------------------------------------------------
(* The files to be loaded *)

LEMMA EpubItems ==
    ASSUME NEW e, IsEpub(e)
    PROVE  /\ Len(e.items) \in Nat /\ DOMAIN e.items = 1..Len(e.items)
           /\ \A i \in DOMAIN e.items :
                 /\ e.items[i] \in Items /\ e.items[i].id \in Nat
                 /\ FileOf(e.items[i]) \in Paths
<1>1. Len(e.items) \in Nat /\ DOMAIN e.items = 1..Len(e.items)
      /\ \A i \in DOMAIN e.items : e.items[i] \in Items
  BY DEF IsEpub
<1> QED
  BY <1>1, FileOfItem DEF Items

\* What ReadManifestItems returns: files of items, each once.
LEMMA ManifestFiles ==
    ASSUME NEW e, IsEpub(e), NEW files, files = ReadManifestItems(e.items)
    PROVE  /\ DOMAIN files \subseteq Nat /\ IsFiniteSet(DOMAIN files)
           /\ \A id \in DOMAIN files : files[id] \in Paths /\ files[id] \in ListedFiles(e)
           /\ \A id, other \in DOMAIN files :
                 files[id] = files[other] => id = other
           /\ \A i \in DOMAIN e.items :
                 IdsAreOwn(e, FileOf(e.items[i])) => FileOf(e.items[i]) \in Range(files)
<1> DEFINE items == e.items
           n == Len(items)
           counted == {i \in DOMAIN items :
                          \A j \in 1 .. i - 1 : items[j].href # items[i].href}
           of(id) == {i \in counted : items[i].id = id}
           ids == {items[i].id : i \in counted}
<1>1. n \in Nat /\ DOMAIN items = 1..n
      /\ \A i \in DOMAIN items : items[i].id \in Nat /\ FileOf(items[i]) \in Paths
  BY EpubItems
<1>2. files = [id \in ids |-> FileOf(items[Max(of(id))])]
  BY DEF ReadManifestItems, FilesOf
<1>3. counted \in SUBSET (1..n)
  BY <1>1
<1>4. \A id \in ids : Max(of(id)) \in of(id)
  <2> SUFFICES ASSUME NEW id \in ids PROVE Max(of(id)) \in of(id)
    OBVIOUS
  <2>1. of(id) \in SUBSET (0..n) /\ of(id) # {}
    BY <1>1, <1>3
  <2> HIDE DEF of
  <2> QED
    BY <1>1, <2>1, MaxIsGreatest
<1>5. \A i, j \in counted : items[i].href = items[j].href => i = j
  BY <1>1
<1>6. \A i \in DOMAIN items : \E k \in counted : items[k].href = items[i].href
  <2> SUFFICES ASSUME NEW i \in DOMAIN items
               PROVE  \E k \in counted : items[k].href = items[i].href
    OBVIOUS
  <2> DEFINE S == {k \in 1..n : items[k].href = items[i].href}
  <2>1. S \in SUBSET Nat /\ i \in S
    BY <1>1
  <2>2. PICK k \in S : \A s \in S : k <= s
    BY <2>1, LeastNatural
  <2>3. k \in 1..n /\ items[k].href = items[i].href
    OBVIOUS
  <2>4. \A j \in 1 .. k - 1 : items[j].href # items[k].href
    BY <1>1, <2>2, <2>3
  <2> QED
    BY <1>1, <2>3, <2>4
<1>7. ids \subseteq Nat /\ IsFiniteSet(ids)
  <2>1. IsFiniteSet(counted)
    <3>1. IsFiniteSet(1..n)
      BY <1>1, FS_Interval
    <3> HIDE DEF counted, n
    <3> QED
      BY <1>3, <3>1, FS_Subset
  <2> DEFINE f == [i \in counted |-> items[i].id]
  <2>2. DOMAIN f = counted /\ f = [i \in counted |-> f[i]] /\ ids = {f[i] : i \in counted}
    OBVIOUS
  <2>3. ids \subseteq Nat
    BY <1>1, <1>3
  <2> HIDE DEF f, ids, counted
  <2> QED
    BY <2>1, <2>2, <2>3, ImageIsFinite
<1>8. \A id \in ids : of(id) \subseteq counted /\ \A i \in of(id) : items[i].id = id
  OBVIOUS
<1>9. \A i \in counted : items[i].id \in ids /\ i \in of(items[i].id) /\ i \in DOMAIN items
  OBVIOUS
<1> HIDE DEF counted, ids, of
<1>10. DOMAIN files = ids /\ \A id \in ids : files[id] = FileOf(items[Max(of(id))])
  BY <1>2
<1>11. \A id \in ids : Max(of(id)) \in counted /\ items[Max(of(id))].id = id
  BY <1>4, <1>8
<1>12. \A id \in DOMAIN files : files[id] \in Paths /\ files[id] \in ListedFiles(e)
  BY <1>1, <1>9, <1>10, <1>11 DEF ListedFiles
<1>13. ASSUME NEW id \in DOMAIN files, NEW other \in DOMAIN files, files[id] = files[other]
       PROVE  id = other
  <2> DEFINE k == Max(of(id))
             l == Max(of(other))
  <2>1. /\ k \in counted /\ l \in counted /\ items[k].id = id /\ items[l].id = other
        /\ FileOf(items[k]) = files[id] /\ FileOf(items[l]) = files[id]
    BY <1>10, <1>11, <1>13
  <2>2. items[k] \in Items /\ items[l] \in Items
    BY <1>9, <2>1, EpubItems
  <2>3. items[k].href = items[l].href
    BY <2>1, <2>2, HrefIsUnique
  <2> QED
    BY <1>5, <2>1, <2>3
<1>14. ASSUME NEW i \in DOMAIN items, IdsAreOwn(e, FileOf(items[i]))
       PROVE  FileOf(items[i]) \in Range(files)
  <2>1. PICK k \in counted : FileOf(items[k]) = FileOf(items[i])
    BY <1>6 DEF FileOf
  <2> DEFINE id == items[k].id
  <2>2. id \in ids /\ Max(of(id)) \in counted /\ items[Max(of(id))].id = id
    BY <1>9, <1>11
  <2>3. Max(of(id)) = k
    BY <1>9, <1>14, <2>1, <2>2 DEF IdsAreOwn
  <2> QED
    BY <1>10, <2>1, <2>2, <2>3 DEF Range
<1> QED
  BY <1>7, <1>10, <1>12, <1>13, <1>14

LEMMA FilesAreCovered ==
    ASSUME NEW e, IsEpub(e)
    PROVE  Covers(AddObfuscatedButUndeclaredFonts(ReadManifestItems(e.items), DOMAIN e.encryption), e)
<1> DEFINE fonts == DOMAIN e.encryption
           files == ReadManifestItems(e.items)
           new == SetToSeq(fonts)
           top == Max({0} \cup DOMAIN files)
           c == Len(new)
           all == AddObfuscatedButUndeclaredFonts(files, fonts)
<1>1. /\ DOMAIN files \subseteq Nat /\ IsFiniteSet(DOMAIN files)
      /\ \A id \in DOMAIN files : files[id] \in Paths /\ files[id] \in ListedFiles(e)
      /\ \A id, other \in DOMAIN files :
            files[id] = files[other] => id = other
      /\ \A i \in DOMAIN e.items :
            IdsAreOwn(e, FileOf(e.items[i])) => FileOf(e.items[i]) \in Range(files)
  BY ManifestFiles
<1>2. /\ c \in Nat /\ DOMAIN new = 1..c
      /\ \A i \in DOMAIN new : new[i] \in fonts
      /\ \A i, j \in DOMAIN new : new[i] = new[j] => i = j
      /\ \A x \in fonts : \E i \in DOMAIN new : new[i] = x
  <2>1. Enumerates(new, fonts)
    BY SetToSeqEnumerates DEF IsEpub
  <2> HIDE DEF new
  <2> QED
    BY <2>1, EnumerationHas
<1>3. top \in Nat /\ \A id \in DOMAIN files : id <= top
  <2> DEFINE S == {0} \cup DOMAIN files
  <2>0. IsFiniteSet({0})
    BY FS_Singleton
  <2>1. S \in SUBSET Nat /\ 0 \in S
    BY <1>1
  <2>2. IsFiniteSet(S)
    BY <1>1, <2>0, FS_Union
  <2> HIDE DEF S
  <2>3. Max(S) \in S /\ \A s \in S : s <= Max(S)
    BY <2>1, <2>2, MaxOfFinite
  <2>4. Max(S) = top /\ DOMAIN files \subseteq S
    BY DEF S, top
  <2> QED
    BY <2>1, <2>3, <2>4
<1>4. all = [k \in DOMAIN files \cup (top + 1 .. top + c) |->
                IF k > top THEN new[k - top] ELSE files[k]]
  BY DEF AddObfuscatedButUndeclaredFonts
<1>5. fonts \subseteq Paths
  BY DEF IsEpub
<1> HIDE DEF new, top, c, files
<1> DEFINE N == top + 1 .. top + c
<1>6. /\ \A k \in N : k - top \in DOMAIN new /\ k \in Nat /\ k \notin DOMAIN files /\ k > top
      /\ \A k \in DOMAIN files : ~(k > top)
  BY <1>1, <1>2, <1>3
<1>7. IsFiniteSet(N)
  BY <1>2, <1>3, FS_Interval
<1>8. \A i \in DOMAIN new : top + i \in N /\ (top + i) - top = i
  BY <1>2, <1>3
<1>9. \A k, l \in N : k - top = l - top => k = l
  BY <1>3
<1> HIDE DEF N
<1>10. /\ DOMAIN all = N \cup DOMAIN files
       /\ \A k \in N : all[k] = new[k - top]
       /\ \A k \in DOMAIN files : all[k] = files[k]
  <2>1. all = [k \in DOMAIN files \cup N |-> IF k > top THEN new[k - top] ELSE files[k]]
    BY <1>4 DEF N
  <2> HIDE DEF all
  <2> QED
    BY <1>6, <2>1
<1> HIDE DEF all, fonts
<1>11. DOMAIN all \subseteq Nat /\ IsFiniteSet(DOMAIN all)
  <2>1. IsFiniteSet(N \cup DOMAIN files)
    BY <1>1, <1>7, FS_Union
  <2>2. N \cup DOMAIN files \subseteq Nat
    BY <1>1, <1>6
  <2> QED
    BY <1>10, <2>1, <2>2
<1>12. \A id \in DOMAIN all : all[id] \in Paths
  BY <1>1, <1>2, <1>5, <1>6, <1>10
<1>13. \A path \in fonts : path \in Range(all)
  <2> SUFFICES ASSUME NEW path \in fonts PROVE path \in Range(all)
    OBVIOUS
  <2>1. PICK i \in DOMAIN new : new[i] = path
    BY <1>2
  <2> DEFINE k == top + i
  <2>2. k \in N /\ k - top = i
    BY <1>8
  <2> HIDE DEF k
  <2> QED
    BY <1>10, <2>1, <2>2 DEF Range
<1>14. Range(files) \subseteq Range(all)
  BY <1>10 DEF Range
<1>15. \A i, j \in DOMAIN all : all[i] = all[j] /\ i # j =>
          all[i] \in ListedFiles(e) /\ all[i] \in fonts
  <2> SUFFICES ASSUME NEW i \in DOMAIN all, NEW j \in DOMAIN all, all[i] = all[j], i # j
               PROVE  all[i] \in ListedFiles(e) /\ all[i] \in fonts
    OBVIOUS
  <2>1. CASE i \in N /\ j \in N
    BY <1>2, <1>6, <1>9, <1>10, <2>1
  <2>2. CASE i \in DOMAIN files /\ j \in DOMAIN files
    BY <1>1, <1>10, <2>2
  <2>3. CASE i \in N /\ j \in DOMAIN files
    BY <1>1, <1>2, <1>6, <1>10, <2>3
  <2>4. CASE j \in N /\ i \in DOMAIN files
    BY <1>1, <1>2, <1>6, <1>10, <2>4
  <2> QED
    BY <1>10, <2>1, <2>2, <2>3, <2>4
<1>16. \A i \in DOMAIN e.items :
          IdsAreOwn(e, FileOf(e.items[i])) => FileOf(e.items[i]) \in Range(all)
  BY <1>1, <1>14
<1>17. Covers(all, e)
  BY <1>11, <1>12, <1>13, <1>15, <1>16 DEF Covers, fonts
<1> QED
  BY <1>17 DEF all, files, fonts

-----------------------------------------------------------------------------
(* The jobs of LoadFolderStructure *)

LEMMA JobKeeps ==
    ASSUME IsEpub(epub), Covers(m_Files, epub), JobsAgree(results, loaded, m_Files, epub),
           NEW id \in DOMAIN m_Files, LoadOneFile(id)
    PROVE  JobsAgree(results', loaded', m_Files, epub)
<1> DEFINE path == m_Files[id]
           name == UniqueVersion(path.name, DOMAIN loaded)
<1>1. id \notin DOMAIN results
  BY DEF LoadOneFile
<1>2. path \in Paths /\ path.name \in Names
  BY DEF Covers, Paths
<1>3. name \in Names \ DOMAIN loaded /\ name.kind = path.name.kind
  BY <1>2, VersionIsFree DEF JobsAgree
<1>4. \/ path \in DOMAIN epub.files /\ loaded' = With(loaded, name, epub.files[path])
         /\ results' = With(results, id, <<name>>)
      \/ path \notin DOMAIN epub.files /\ results' = With(results, id, <<>>) /\ loaded' = loaded
  BY DEF LoadOneFile
<1> HIDE DEF name
<1>5. CASE /\ path \in DOMAIN epub.files /\ loaded' = With(loaded, name, epub.files[path])
           /\ results' = With(results, id, <<name>>)
  <2>1. /\ DOMAIN results' = DOMAIN results \cup {id} /\ results'[id] = <<name>>
        /\ \A i \in DOMAIN results : results'[i] = results[i]
    BY <1>1, <1>5 DEF With
  <2>2. /\ DOMAIN loaded' = DOMAIN loaded \cup {name} /\ loaded'[name] = epub.files[path]
        /\ \A n \in DOMAIN loaded : loaded'[n] = loaded[n]
    BY <1>3, <1>5 DEF With
  <2>3. IsFiniteSet(DOMAIN loaded')
    BY <2>2, FS_AddElement DEF JobsAgree
  <2>4. /\ DOMAIN results' \subseteq DOMAIN m_Files
        /\ DOMAIN loaded' \subseteq Names
    BY <1>3, <2>1, <2>2 DEF JobsAgree
  <2>5. \A i \in DOMAIN results' :
          \/ results'[i] = <<>> /\ m_Files[i] \notin DOMAIN epub.files
          \/ /\ m_Files[i] \in DOMAIN epub.files
             /\ \E n \in DOMAIN loaded' : /\ results'[i] = <<n>> /\ n.kind = m_Files[i].name.kind
                                          /\ loaded'[n] = epub.files[m_Files[i]]
    <3>1. \E n \in DOMAIN loaded' : /\ results'[id] = <<n>> /\ n.kind = path.name.kind
                                    /\ loaded'[n] = epub.files[path]
      BY <1>3, <2>1, <2>2
    <3>2. ASSUME NEW i \in DOMAIN results, m_Files[i] \in DOMAIN epub.files
          PROVE  \E n \in DOMAIN loaded' : /\ results'[i] = <<n>> /\ n.kind = m_Files[i].name.kind
                                          /\ loaded'[n] = epub.files[m_Files[i]]
      <4>1. PICK n \in DOMAIN loaded : /\ results[i] = <<n>> /\ n.kind = m_Files[i].name.kind
                                       /\ loaded[n] = epub.files[m_Files[i]]
        BY <3>2 DEF JobsAgree
      <4> QED
        BY <2>1, <2>2, <4>1
    <3>3. \A i \in DOMAIN results : m_Files[i] \notin DOMAIN epub.files => results'[i] = <<>>
      BY <2>1 DEF JobsAgree
    <3> QED
      BY <1>5, <2>1, <3>1, <3>2, <3>3
  <2>6. \A n \in DOMAIN loaded' : \E i \in DOMAIN results' : results'[i] = <<n>>
    <3>1. \A n \in DOMAIN loaded : \E i \in DOMAIN results' : results'[i] = <<n>>
      BY <2>1 DEF JobsAgree
    <3> QED
      BY <2>1, <2>2, <3>1
  <2>7. \A i \in DOMAIN results : results[i] # <<name>>
    BY <1>3 DEF JobsAgree
  <2>8. \A i, j \in DOMAIN results' : results'[i] = results'[j] /\ results'[i] # <<>> => i = j
    BY <2>1, <2>7 DEF JobsAgree
  <2> QED
    BY <2>3, <2>4, <2>5, <2>6, <2>8 DEF JobsAgree
<1>6. CASE path \notin DOMAIN epub.files /\ results' = With(results, id, <<>>) /\ loaded' = loaded
  <2>1. /\ DOMAIN results' = DOMAIN results \cup {id} /\ results'[id] = <<>>
        /\ \A i \in DOMAIN results : results'[i] = results[i]
    BY <1>1, <1>6 DEF With
  <2>2. \A n \in DOMAIN loaded : \E i \in DOMAIN results' : results'[i] = <<n>>
    BY <2>1 DEF JobsAgree
  <2>3. \A i, j \in DOMAIN results' : results'[i] = results'[j] /\ results'[i] # <<>> => i = j
    BY <2>1 DEF JobsAgree
  <2>4. DOMAIN results' \subseteq DOMAIN m_Files
    BY <2>1 DEF JobsAgree
  <2>5. \A i \in DOMAIN results' :
          \/ results'[i] = <<>> /\ m_Files[i] \notin DOMAIN epub.files
          \/ /\ m_Files[i] \in DOMAIN epub.files
             /\ \E n \in DOMAIN loaded' : /\ results'[i] = <<n>> /\ n.kind = m_Files[i].name.kind
                                          /\ loaded'[n] = epub.files[m_Files[i]]
    BY <1>6, <2>1 DEF JobsAgree
  <2> QED
    BY <1>6, <2>2, <2>3, <2>4, <2>5 DEF JobsAgree
<1> QED
  BY <1>4, <1>5, <1>6

\* When all jobs have finished: each file that was loaded has a new name of its
\* own, and what was loaded besides is the second copy of a listed file.
Renames(updates) ==
    /\ DOMAIN updates = LoadedPaths
    /\ LoadedPaths \subseteq Paths /\ LoadedPaths \subseteq DOMAIN epub.files
    /\ IsFiniteSet(LoadedPaths)
    /\ \A p \in LoadedPaths :
          /\ updates[p] \in DOMAIN loaded /\ updates[p].kind = p.name.kind
          /\ loaded[updates[p]] = epub.files[p]
          /\ \E id \in JobsOf(p) : updates[p] = results[id][1]
    /\ \A p, q \in LoadedPaths : updates[p] = updates[q] => p = q
    /\ \A n \in DOMAIN loaded : \E p \in LoadedPaths :
          /\ loaded[n] = epub.files[p]
          /\ n = updates[p] \/ p \in ListedFiles(epub)

AllAreLoaded ==
    /\ IsEpub(epub) /\ Covers(m_Files, epub) /\ JobsAgree(results, loaded, m_Files, epub)
    /\ DOMAIN results = DOMAIN m_Files

LEMMA JobsLoadFiles ==
    ASSUME AllAreLoaded
    PROVE  \A p \in Range(m_Files) : p \in DOMAIN epub.files => p \in LoadedPaths
<1> SUFFICES ASSUME NEW id \in DOMAIN m_Files, m_Files[id] \in DOMAIN epub.files
             PROVE  m_Files[id] \in LoadedPaths
  BY DEF Range
<1>1. results[id] # <<>>
  BY DEF AllAreLoaded, JobsAgree
<1> QED
  BY <1>1 DEF LoadedPaths, JobsOf, Range

LEMMA UpdatesRename ==
    ASSUME AllAreLoaded, NEW late
    PROVE  Renames(Updates(late))
<1> DEFINE updates == Updates(late)
           job(p) == IF p \in late THEN Max(JobsOf(p)) ELSE Min(JobsOf(p))
<1>1. DOMAIN updates = LoadedPaths /\ \A p \in LoadedPaths : updates[p] = results[job(p)][1]
  BY DEF Updates
<1>2. /\ DOMAIN m_Files \subseteq Nat /\ IsFiniteSet(DOMAIN m_Files)
      /\ \A id \in DOMAIN m_Files : m_Files[id] \in Paths
  BY DEF AllAreLoaded, Covers
<1>3. \A p \in LoadedPaths : job(p) \in JobsOf(p)
  <2> SUFFICES ASSUME NEW p \in LoadedPaths PROVE job(p) \in JobsOf(p)
    OBVIOUS
  <2>1. JobsOf(p) \in SUBSET DOMAIN m_Files /\ JobsOf(p) # {}
    BY DEF JobsOf, LoadedPaths
  <2>2. JobsOf(p) \in SUBSET Nat /\ IsFiniteSet(JobsOf(p))
    BY <1>2, <2>1, FS_Subset
  <2> QED
    BY <2>1, <2>2, MaxOfFinite, MinIsLeast
<1>4. \A id \in DOMAIN m_Files : results[id] # <<>> =>
         /\ m_Files[id] \in DOMAIN epub.files
         /\ results[id] = <<results[id][1]>>
         /\ results[id][1] \in DOMAIN loaded /\ results[id][1].kind = m_Files[id].name.kind
         /\ loaded[results[id][1]] = epub.files[m_Files[id]]
  BY DEF AllAreLoaded, JobsAgree
<1>5. \A p \in LoadedPaths : \A id \in JobsOf(p) :
         id \in DOMAIN m_Files /\ m_Files[id] = p /\ results[id] # <<>>
  BY DEF JobsOf
<1>6. \A id \in DOMAIN m_Files : results[id] # <<>> => id \in JobsOf(m_Files[id]) /\ m_Files[id] \in LoadedPaths
  BY DEF JobsOf, LoadedPaths, Range
<1> HIDE DEF job, updates
<1>7. LoadedPaths \subseteq Paths /\ LoadedPaths \subseteq DOMAIN epub.files
  BY <1>2, <1>3, <1>4, <1>5
<1>8. IsFiniteSet(LoadedPaths)
  <2>1. IsFiniteSet(DOMAIN epub.files)
    BY DEF AllAreLoaded, IsEpub
  <2> QED
    BY <1>7, <2>1, FS_Subset
<1>9. \A p \in LoadedPaths :
          /\ updates[p] \in DOMAIN loaded /\ updates[p].kind = p.name.kind
          /\ loaded[updates[p]] = epub.files[p]
          /\ \E id \in JobsOf(p) : updates[p] = results[id][1]
  BY <1>1, <1>3, <1>4, <1>5
<1>10. \A p, q \in LoadedPaths : updates[p] = updates[q] => p = q
  <2> SUFFICES ASSUME NEW p \in LoadedPaths, NEW q \in LoadedPaths, updates[p] = updates[q]
               PROVE  p = q
    OBVIOUS
  <2>1. results[job(p)] = results[job(q)] /\ results[job(p)] # <<>>
    BY <1>1, <1>3, <1>4, <1>5
  <2>2. job(p) = job(q)
    BY <1>3, <1>5, <2>1 DEF AllAreLoaded, JobsAgree
  <2> QED
    BY <1>3, <1>5, <2>2
<1>11. ASSUME NEW n \in DOMAIN loaded
       PROVE  \E p \in LoadedPaths :
                 /\ loaded[n] = epub.files[p]
                 /\ n = updates[p] \/ p \in ListedFiles(epub)
  <2>1. PICK id \in DOMAIN m_Files : results[id] = <<n>>
    BY DEF AllAreLoaded, JobsAgree
  <2> DEFINE p == m_Files[id]
  <2>2. results[id] # <<>> /\ results[id][1] = n
    BY <2>1
  <2>3. p \in LoadedPaths /\ id \in JobsOf(p) /\ loaded[n] = epub.files[p]
    BY <1>4, <1>6, <2>2
  <2>4. CASE job(p) = id
    BY <1>1, <2>2, <2>3, <2>4
  <2>5. CASE job(p) # id
    <3>1. job(p) \in DOMAIN m_Files /\ m_Files[job(p)] = p
      BY <1>3, <1>5, <2>3
    <3>2. p \in ListedFiles(epub)
      BY <2>5, <3>1 DEF AllAreLoaded, Covers
    <3> QED
      BY <2>3, <3>2
  <2> QED
    BY <2>4, <2>5
<1> QED
  BY <1>1, <1>7, <1>8, <1>9, <1>10, <1>11 DEF Renames, updates

LEMMA OrdersEnumerate ==
    ASSUME NEW paths, IsFiniteSet(paths), NEW order \in Orders(paths)
    PROVE  Enumerates(order, paths)
<1> DEFINE clashing == {p \in paths : \E o \in paths \ {p} : o.name = p.name}
           others == paths \ clashing
<1>1. PICK first \in SetToSeqs(clashing) : order = first \o SetToSeq(others)
  BY DEF Orders
<1>2. clashing \subseteq paths
  OBVIOUS
<1> HIDE DEF clashing
<1>3. IsFiniteSet(clashing) /\ IsFiniteSet(others)
  BY <1>2, FS_Subset
<1>4. Enumerates(first, clashing)
  BY <1>3, SetToSeqsEnumerates
<1>5. Enumerates(SetToSeq(others), others)
  BY <1>3, SetToSeqEnumerates
<1>6. clashing \cap others = {} /\ clashing \cup others = paths
  BY <1>2
<1> HIDE DEF others
<1> QED
  BY <1>1, <1>4, <1>5, <1>6, ConcatEnumerates

-----------------------------------------------------------------------------
(* The loaded book *)

\* A reference gets the new path of one of the files that match it, if any does.
LEMMA ReferenceIsUpdated ==
    ASSUME NEW updates, NEW paths, NEW order, Enumerates(order, paths), NEW value, NEW up
    PROVE  \/ /\ UpdateReference(value, updates, order, up) = value
              /\ \A p \in paths : ~Matches(p, value)
           \/ \E p \in paths :
                 /\ Matches(p, value)
                 /\ UpdateReference(value, updates, order, up)
                      = [dirs |-> Append(up, Folder[updates[p].kind]), name |-> updates[p]]
<1> DEFINE hits == {k \in DOMAIN order : Matches(order[k], value)}
           name == updates[order[Min(hits)]]
<1>1. /\ Len(order) \in Nat /\ DOMAIN order = 1..Len(order)
      /\ \A i \in DOMAIN order : order[i] \in paths
      /\ \A p \in paths : \E i \in DOMAIN order : order[i] = p
  BY EnumerationHas
<1>2. UpdateReference(value, updates, order, up)
        = IF hits = {} THEN value ELSE [dirs |-> Append(up, Folder[name.kind]), name |-> name]
  BY DEF UpdateReference
<1>3. CASE hits = {}
  BY <1>1, <1>2, <1>3
<1>4. CASE hits # {}
  <2>1. hits \in SUBSET Nat
    BY <1>1
  <2>2. Min(hits) \in hits
    <3> HIDE DEF hits
    <3> QED
      BY <1>4, <2>1, MinIsLeast
  <2>3. order[Min(hits)] \in paths /\ Matches(order[Min(hits)], value)
    BY <1>1, <2>2
  <2> HIDE DEF hits
  <2> QED
    BY <1>2, <1>4, <2>3
<1> QED
  BY <1>3, <1>4

\* The orders of the three hashes
AreOrders(xml, html, css) ==
    Enumerates(xml, LoadedPaths) /\ Enumerates(html, HtmlPaths) /\ Enumerates(css, CssPaths)

\* The book that FinishLoading makes
IsLoaded(b, updates, xml, html, css) ==
    /\ b = [resources |-> b.resources, items |-> b.items, links |-> b.links,
            identifiers |-> b.identifiers]
    /\ b.resources = ProcessFontFiles(loaded, updates)
    /\ b.items = [i \in DOMAIN epub.items |-> [epub.items[i] EXCEPT
                    !.href = UpdateReference(epub.items[i].href, updates, xml, <<>>)]]
    /\ b.links = {UpdateLink(link, updates, html, css) :
                    link \in {l \in epub.links : l.from \in LoadedPaths}}
    /\ b.identifiers = epub.identifiers

LEMMA FinishMakesABook ==
    ASSUME AllAreLoaded, FinishLoading, ~FontObfuscationError
    PROVE  /\ answer' = "opened"
           /\ \E updates, xml, html, css :
                 Renames(updates) /\ AreOrders(xml, html, css) /\ IsLoaded(book', updates, xml, html, css)
<1>1. PICK late \in SUBSET DOMAIN epub.encryption,
           xml \in Orders(LoadedPaths), html \in Orders(HtmlPaths), css \in Orders(CssPaths) :
         LET updates == Updates(late)
         IN  book' = [resources |-> ProcessFontFiles(loaded, updates),
                      items |-> [i \in DOMAIN epub.items |-> [epub.items[i] EXCEPT
                                    !.href = UpdateReference(@, updates, xml, <<>>)]],
                      links |-> {UpdateLink(link, updates, html, css) :
                                   link \in {l \in epub.links : l.from \in LoadedPaths}},
                      identifiers |-> epub.identifiers]
  BY DEF FinishLoading
<1> DEFINE updates == Updates(late)
<1>2. Renames(updates)
  BY UpdatesRename
<1>3. AreOrders(xml, html, css)
  <2>1. IsFiniteSet(LoadedPaths)
    BY <1>2 DEF Renames
  <2>2. IsFiniteSet(HtmlPaths) /\ IsFiniteSet(CssPaths)
    BY <2>1, FS_Subset DEF HtmlPaths, CssPaths
  <2> QED
    BY <2>1, <2>2, OrdersEnumerate DEF AreOrders
<1>4. IsLoaded(book', updates, xml, html, css)
  BY <1>1 DEF IsLoaded
<1>5. answer' = "opened"
  BY DEF FinishLoading
<1> QED
  BY <1>2, <1>3, <1>4, <1>5

\* Fonts keep what they are; those of encryption.xml are de-obfuscated.
LEMMA FontsAreProcessed ==
    ASSUME NEW updates, Renames(updates), NEW r, r = ProcessFontFiles(loaded, updates)
    PROVE  /\ DOMAIN r = DOMAIN loaded
           /\ \A n \in DOMAIN loaded :
                 /\ r[n] = [what |-> r[n].what, garbled |-> r[n].garbled, algorithm |-> r[n].algorithm]
                 /\ r[n].what = loaded[n].what
                 /\ r[n].algorithm \in Range(epub.encryption) \cup {Plain}
           /\ \A p \in LoadedPaths :
                 ~KeptOutside(epub, p) => r[updates[p]].garbled = Cleared(epub, p)
<1> DEFINE found(n) == {p \in EncryptedPaths : updates[p] = n}
           chosen(n) == CHOOSE p \in found(n) : TRUE
           algorithm(n) == epub.encryption[chosen(n)]
<1>1. \A n \in DOMAIN loaded : found(n) # {} => chosen(n) \in found(n)
  OBVIOUS
<1>2. /\ DOMAIN r = DOMAIN loaded
      /\ \A n \in DOMAIN loaded : r[n] =
            IF found(n) = {}
            THEN [what |-> loaded[n].what, garbled |-> loaded[n].garbled, algorithm |-> Plain]
            ELSE [what |-> loaded[n].what, algorithm |-> algorithm(n),
                  garbled |-> Obfuscate(loaded[n].garbled,
                                        ImportKey(algorithm(n), epub.identifiers))]
  BY DEF ProcessFontFiles
<1>3. \A n \in DOMAIN loaded : found(n) # {} =>
         chosen(n) \in DOMAIN epub.encryption /\ chosen(n) \in LoadedPaths /\ updates[chosen(n)] = n
  BY <1>1 DEF EncryptedPaths
<1>4. \A p \in LoadedPaths : p \in DOMAIN epub.encryption /\ SpelledAlike(p) <=> found(updates[p]) # {}
  BY DEF Renames, EncryptedPaths
<1> HIDE DEF found, chosen
<1>5. ASSUME NEW n \in DOMAIN loaded
      PROVE  /\ r[n] = [what |-> r[n].what, garbled |-> r[n].garbled, algorithm |-> r[n].algorithm]
             /\ r[n].what = loaded[n].what
             /\ r[n].algorithm \in Range(epub.encryption) \cup {Plain}
  <2>1. CASE found(n) = {}
    BY <1>2, <2>1
  <2>2. CASE found(n) # {}
    <3>1. algorithm(n) \in Range(epub.encryption)
      BY <1>3, <2>2 DEF Range
    <3> QED
      BY <1>2, <2>2, <3>1
  <2> QED
    BY <2>1, <2>2
<1>6. ASSUME NEW p \in LoadedPaths, ~KeptOutside(epub, p)
      PROVE  r[updates[p]].garbled = Cleared(epub, p)
  <2> DEFINE n == updates[p]
  <2>1. n \in DOMAIN loaded /\ loaded[n] = epub.files[p]
    BY DEF Renames
  <2>2. CASE found(n) = {}
    BY <1>2, <1>4, <1>6, <2>1, <2>2 DEF Cleared, KeptOutside
  <2>3. CASE found(n) # {}
    <3>1. chosen(n) = p
      BY <1>3, <2>1, <2>3 DEF Renames
    <3> QED
      BY <1>2, <1>4, <2>1, <2>3, <3>1 DEF Cleared
  <2> QED
    BY <2>2, <2>3
<1> QED
  BY <1>2, <1>5, <1>6

\* The items of the loaded book: each has its id, and leads to a new file, or,
\* when no file matches it, where it did.
LEMMA ItemsAreUpdated ==
    ASSUME AllAreLoaded, NEW updates, Renames(updates), NEW xml, NEW html, NEW css, AreOrders(xml, html, css),
           NEW b, IsLoaded(b, updates, xml, html, css)
    PROVE  /\ b.items \in Seq(Items) /\ DOMAIN b.items = DOMAIN epub.items
           /\ \A i \in DOMAIN epub.items :
                 /\ b.items[i].id = epub.items[i].id
                 /\ \/ /\ b.items[i].href = epub.items[i].href
                       /\ \A p \in LoadedPaths : ~Matches(p, epub.items[i].href)
                    \/ \E p \in LoadedPaths : /\ Matches(p, epub.items[i].href)
                                              /\ FileOf(b.items[i]) = PathOf(updates[p])
<1>1. /\ Len(epub.items) \in Nat /\ DOMAIN epub.items = 1..Len(epub.items)
      /\ \A i \in DOMAIN epub.items : epub.items[i] \in Items
  BY EpubItems DEF AllAreLoaded
<1>2. \A p \in LoadedPaths : updates[p] \in Names
  BY DEF Renames, AllAreLoaded, JobsAgree
<1>3. DOMAIN b.items = DOMAIN epub.items
  BY DEF IsLoaded
<1>4. ASSUME NEW i \in DOMAIN epub.items
      PROVE  /\ b.items[i] \in Items /\ b.items[i].id = epub.items[i].id
             /\ \/ /\ b.items[i].href = epub.items[i].href
                   /\ \A p \in LoadedPaths : ~Matches(p, epub.items[i].href)
                \/ \E p \in LoadedPaths : /\ Matches(p, epub.items[i].href)
                                          /\ FileOf(b.items[i]) = PathOf(updates[p])
  <2> DEFINE value == epub.items[i].href
             new == UpdateReference(value, updates, xml, <<>>)
  <2>1. epub.items[i] = [id |-> epub.items[i].id, href |-> value] /\ epub.items[i].id \in Nat /\ value \in Paths
    BY <1>1 DEF Items, Hrefs
  <2>2. b.items[i] = [epub.items[i] EXCEPT !.href = new]
    BY DEF IsLoaded
  <2>3. b.items[i].href = new /\ b.items[i].id = epub.items[i].id
        /\ b.items[i] = [id |-> epub.items[i].id, href |-> new]
    BY <2>1, <2>2
  <2>4. CASE new = value /\ \A p \in LoadedPaths : ~Matches(p, value)
    BY <1>1, <2>1, <2>3, <2>4 DEF Items
  <2>5. ASSUME NEW p \in LoadedPaths, Matches(p, value),
               new = [dirs |-> <<Folder[updates[p].kind]>>, name |-> updates[p]]
        PROVE  b.items[i] \in Items /\ FileOf(b.items[i]) = PathOf(updates[p])
    <3>1. new \in Hrefs /\ Resolve(<<"OEBPS">>, new) = PathOf(updates[p])
      BY <1>2, <2>5, ResolveDown
    <3> HIDE DEF new, value
    <3> QED
      BY <2>1, <2>3, <3>1 DEF Items, FileOf
  <2>6. \/ new = value /\ \A p \in LoadedPaths : ~Matches(p, value)
        \/ \E p \in LoadedPaths : /\ Matches(p, value)
              /\ new = [dirs |-> <<Folder[updates[p].kind]>>, name |-> updates[p]]
    <3>1. \A x : Append(<<>>, x) = <<x>>
      OBVIOUS
    <3>2. \/ new = value /\ \A p \in LoadedPaths : ~Matches(p, value)
          \/ \E p \in LoadedPaths : /\ Matches(p, value)
                /\ new = [dirs |-> Append(<<>>, Folder[updates[p].kind]), name |-> updates[p]]
      BY ReferenceIsUpdated DEF AreOrders
    <3> QED
      BY <3>1, <3>2
  <2> QED
    BY <2>3, <2>4, <2>5, <2>6
<1>5. b.items \in Seq(Items)
  <2>1. b.items = [i \in 1..Len(epub.items) |-> b.items[i]]
    BY <1>1 DEF IsLoaded
  <2>2. b.items \in [1..Len(epub.items) -> Items]
    BY <1>1, <1>4, <2>1
  <2> QED
    BY <1>1, <2>2, FunctionIsASequence
<1> QED
  BY <1>3, <1>4, <1>5

-----------------------------------------------------------------------------
(* The links of the loaded book *)

\* What a url( ) is after the first k files of the order
Replaced(value, updates, order, n) ==
    CHOOSE after : after = [k \in 0 .. n |->
        IF k = 0 THEN value ELSE Replace(after[k - 1], order[k], updates)]

LEMMA ReplacedIsDefined ==
    ASSUME NEW value, NEW updates, NEW order, NEW n \in Nat,
           NEW after, after = Replaced(value, updates, order, n)
    PROVE  /\ after[0] = value
           /\ \A k \in 1 .. n : after[k] = Replace(after[k - 1], order[k], updates)
<1> DEFINE Is(a, m) == a = [k \in 0 .. m |->
                  IF k = 0 THEN value ELSE Replace(a[k - 1], order[k], updates)]
           S == {m \in 0 .. n : \E a : Is(a, m)}
<1>1. \A m \in 0 .. n : m \in S
  <2>1. 0 \in S
    <3> DEFINE a == [k \in 0 .. 0 |-> value]
    <3>1. a = [k \in 0 .. 0 |-> IF k = 0 THEN value ELSE Replace(a[k - 1], order[k], updates)]
      OBVIOUS
    <3> HIDE DEF a
    <3>2. Is(a, 0)
      BY <3>1
    <3> QED
      BY <3>2
  <2>2. ASSUME NEW m \in 1 .. n, m - 1 \in S PROVE m \in S
    <3>1. m - 1 \in 0 .. n /\ m \in Nat \ {0} /\ m \in 0 .. n
      OBVIOUS
    <3>2. PICK a : Is(a, m - 1)
      BY <2>2
    <3> DEFINE c == [k \in 0 .. m |-> IF k = m THEN Replace(a[m - 1], order[m], updates) ELSE a[k]]
    <3>3. \A k \in 0 .. m - 1 : a[k] = IF k = 0 THEN value
                                       ELSE Replace(a[k - 1], order[k], updates)
      BY <3>2
    <3>4. \A k \in 0 .. m - 1 : c[k] = a[k] /\ k \in 0 .. m
      BY <3>1
    <3>5. c[m] = Replace(a[m - 1], order[m], updates)
      BY <3>1
    <3>6. ASSUME NEW k \in 0 .. m
          PROVE  c[k] = IF k = 0 THEN value ELSE Replace(c[k - 1], order[k], updates)
      <4> HIDE DEF c
      <4>1. CASE k = m
        <5>1. m - 1 \in 0 .. m - 1 /\ k # 0
          BY <3>1, <4>1
        <5>2. c[m - 1] = a[m - 1]
          BY <3>4, <5>1
        <5> QED
          BY <3>5, <4>1, <5>1, <5>2
      <4>2. CASE k # m
        <5>1. k \in 0 .. m - 1
          BY <3>1, <4>2
        <5>2. k # 0 => c[k - 1] = a[k - 1]
          <6>1. k # 0 => k - 1 \in 0 .. m - 1
            BY <3>1, <5>1
          <6> QED
            BY <3>4, <6>1
        <5>3. c[k] = a[k]
          BY <3>4, <5>1
        <5>4. a[k] = IF k = 0 THEN value ELSE Replace(a[k - 1], order[k], updates)
          BY <3>3, <5>1
        <5> QED
          BY <5>2, <5>3, <5>4
      <4> QED
        BY <4>1, <4>2
    <3>7. c = [k \in 0 .. m |-> c[k]]
      OBVIOUS
    <3> HIDE DEF c
    <3>8. [k \in 0 .. m |-> c[k]] = [k \in 0 .. m |-> IF k = 0 THEN value
                                       ELSE Replace(c[k - 1], order[k], updates)]
      BY <3>6
    <3>9. Is(c, m)
      BY <3>7, <3>8
    <3> QED
      BY <3>1, <3>9
  <2> HIDE DEF S
  <2> QED
    BY <2>1, <2>2, AllPositions
<1>2. \E a : Is(a, n)
  <2>1. n \in 0 .. n
    OBVIOUS
  <2> QED
    BY <1>1, <2>1
<1>3. Is(after, n)
  BY <1>2 DEF Replaced
<1>4. 0 \in 0 .. n /\ \A k \in 1 .. n : k \in 0 .. n /\ k # 0
  OBVIOUS
<1> QED
  BY <1>3, <1>4

\* A url( ) gets the new path of its file, if no other file that styles are updated
\* for has the file's old or new name.
LEMMA StyleIsUpdated ==
    ASSUME NEW updates, Renames(updates), \A p \in LoadedPaths : updates[p] \in Names,
           NEW paths \in SUBSET LoadedPaths,
           NEW order, Enumerates(order, paths), NEW value \in Paths
    PROVE  /\ UpdateStyle(value, updates, order) \in Paths
           /\ \A path \in paths :
                 /\ path.name = value.name
                 /\ \A p \in paths \ {path} : p.name \notin {path.name, updates[path]}
                 => UpdateStyle(value, updates, order)
                      = [dirs |-> <<"..", Folder[updates[path].kind]>>, name |-> updates[path]]
<1> DEFINE n == Len(order)
           after == Replaced(value, updates, order, n)
<1>1. /\ n \in Nat /\ DOMAIN order = 1 .. n
      /\ \A i \in DOMAIN order : order[i] \in paths
      /\ \A i, j \in DOMAIN order : order[i] = order[j] => i = j
      /\ \A p \in paths : \E i \in DOMAIN order : order[i] = p
  BY EnumerationHas
<1>2. UpdateStyle(value, updates, order) = after[n]
  BY DEF UpdateStyle, Replaced
<1> HIDE DEF n
<1>3. /\ after[0] = value
      /\ \A k \in 1 .. n : after[k] = Replace(after[k - 1], order[k], updates)
  BY <1>1, ReplacedIsDefined
<1> HIDE DEF after
<1>4. paths \subseteq LoadedPaths
  OBVIOUS
<1>5. \A p \in paths :
         /\ updates[p].kind = p.name.kind
         /\ [dirs |-> <<"..", Folder[p.name.kind]>>, name |-> updates[p]] \in Paths
  <2> SUFFICES ASSUME NEW p \in paths
               PROVE  /\ updates[p].kind = p.name.kind
                      /\ [dirs |-> <<"..", Folder[p.name.kind]>>, name |-> updates[p]] \in Paths
    OBVIOUS
  <2>1. updates[p] \in Names /\ updates[p].kind = p.name.kind /\ updates[p].kind \in DOMAIN Folder
    BY DEF Renames, Names
  <2>2. Folder[p.name.kind] \in FolderNames /\ ".." \in FolderNames
    BY <2>1, Folders, FoldersAssumption
  <2>3. <<"..", Folder[p.name.kind]>> \in Seq(FolderNames)
    BY <2>2, Pairs
  <2> QED
    BY <2>1, <2>3 DEF Paths
<1>6. \A k \in 0 .. n : after[k] \in Paths
  <2> DEFINE S == {k \in 0 .. n : after[k] \in Paths}
  <2>1. 0 \in S
    BY <1>1, <1>3, <1>4
  <2>2. ASSUME NEW k \in 1 .. n, k - 1 \in S PROVE k \in S
    <3>1. after[k] = Replace(after[k - 1], order[k], updates) /\ order[k] \in paths
      BY <1>1, <1>3
    <3>2. after[k] \in Paths
      BY <1>5, <2>2, <3>1 DEF Replace
    <3> QED
      BY <3>2
  <2>3. \A k \in 0 .. n : k \in S
    <3> HIDE DEF S
    <3> QED
      BY <1>1, <2>1, <2>2, AllPositions
  <2> QED
    BY <2>3
<1>7. ASSUME NEW path \in paths, path.name = value.name,
             \A p \in paths \ {path} : p.name \notin {path.name, updates[path]}
      PROVE  after[n] = [dirs |-> <<"..", Folder[path.name.kind]>>, name |-> updates[path]]
  <2> DEFINE new == [dirs |-> <<"..", Folder[path.name.kind]>>, name |-> updates[path]]
  <2>1. PICK j \in 1 .. n : order[j] = path
    BY <1>1
  <2> DEFINE S == {k \in 0 .. n : after[k] = IF k < j THEN value ELSE new}
  <2>2. 0 \in S
    BY <1>1, <1>3
  <2>3. ASSUME NEW k \in 1 .. n, k - 1 \in S PROVE k \in S
    <3>1. after[k] = Replace(after[k - 1], order[k], updates) /\ order[k] \in paths
      BY <1>1, <1>3
    <3>2. after[k - 1] = IF k - 1 < j THEN value ELSE new
      BY <2>3
    <3>3. new.name = updates[path]
      OBVIOUS
    <3>4. CASE k < j
      <4>1. order[k] # path
        BY <1>1, <2>1, <3>4
      <4>2. after[k - 1] = value
        BY <3>2, <3>4
      <4>3. after[k] = value
        BY <1>7, <3>1, <4>1, <4>2 DEF Replace
      <4> QED
        BY <3>4, <4>3
    <3>5. CASE k = j
      <4>1. after[k - 1] = value
        BY <3>2, <3>5
      <4>2. after[k] = new
        BY <1>7, <2>1, <3>1, <3>5, <4>1 DEF Replace
      <4> QED
        BY <3>5, <4>2
    <3>6. CASE k > j
      <4>1. order[k] # path
        BY <1>1, <2>1, <3>6
      <4>2. after[k - 1] = new
        BY <3>2, <3>6
      <4>3. after[k] = new
        <5> HIDE DEF new
        <5> QED
          BY <1>7, <3>1, <3>3, <4>1, <4>2 DEF Replace
      <4> QED
        BY <3>6, <4>3
    <3> QED
      BY <3>4, <3>5, <3>6
  <2>4. \A k \in 0 .. n : k \in S
    <3> HIDE DEF S
    <3> QED
      BY <1>1, <2>2, <2>3, AllPositions
  <2>5. n \in 0 .. n /\ ~(n < j)
    BY <1>1
  <2> QED
    BY <2>4, <2>5
<1>8. n \in 0 .. n
  BY <1>1
<1> QED
  BY <1>2, <1>4, <1>5, <1>6, <1>7, <1>8

\* A link gets the new path of its file, if it is updated.
LEMMA LinkIsUpdated ==
    ASSUME NEW updates, Renames(updates), \A p \in LoadedPaths : updates[p] \in Names,
           NEW html, Enumerates(html, HtmlPaths), NEW css, Enumerates(css, CssPaths),
           NEW link \in Links, link.from \in LoadedPaths,
           NEW new, new = UpdateLink(link, updates, html, css)
    PROVE  /\ new \in BookLinks /\ new.from = updates[link.from]
           /\ LET path == Resolve(link.from.dirs, link.value)
              IN  IsUpdated(link, path) =>
                     /\ path \in LoadedPaths
                     /\ new.value = [dirs |-> <<"..", Folder[updates[path].kind]>>, name |-> updates[path]]
<1> DEFINE path == Resolve(link.from.dirs, link.value)
           reference == UpdateReference(link.value, updates, html, <<"..">>)
           style == UpdateStyle(link.value, updates, css)
           value == CASE link.form = "reference" -> reference
                      [] link.form = "url" -> style
                      [] link.form = "import" -> link.value
           to(p) == [dirs |-> <<"..", Folder[updates[p].kind]>>, name |-> updates[p]]
<1>1. /\ link = [from |-> link.from, value |-> link.value, form |-> link.form]
      /\ link.from \in Paths /\ link.value \in Paths /\ link.form \in LinkForms
  BY DEF Links
<1>2. new = [from |-> updates[link.from], value |-> value, form |-> link.form]
  <2>1. new = [link EXCEPT !.from = updates[link.from], !.value = value]
    BY DEF UpdateLink
  <2> HIDE DEF value
  <2> QED
    BY <1>1, <2>1
<1>3. path.name = link.value.name
      /\ (link.value.dirs # <<>> /\ Last(link.value.dirs) # ".." =>
            DirName(path) = Last(link.value.dirs))
  <2>1. link.from.dirs \in Seq(FolderNames)
    BY <1>1 DEF Paths
  <2> QED
    BY <1>1, <2>1, ResolveType
<1>4. \A p \in LoadedPaths : to(p) \in Paths /\ to(p).name = updates[p]
  <2> SUFFICES ASSUME NEW p \in LoadedPaths PROVE to(p) \in Paths
    OBVIOUS
  <2>1. updates[p] \in Names /\ Folder[updates[p].kind] \in FolderNames /\ ".." \in FolderNames
    BY Folders, FoldersAssumption DEF Names
  <2>2. <<"..", Folder[updates[p].kind]>> \in Seq(FolderNames)
    BY <2>1, Pairs
  <2> QED
    BY <2>1, <2>2 DEF Paths
<1>5. HtmlPaths \in SUBSET LoadedPaths /\ CssPaths \in SUBSET LoadedPaths
  BY DEF HtmlPaths, CssPaths
<1>6. \/ reference = link.value /\ \A p \in HtmlPaths : ~Matches(p, link.value)
      \/ \E p \in HtmlPaths : Matches(p, link.value) /\ reference = to(p)
  <2>1. \A p \in LoadedPaths : Folder[updates[p].kind] \in FolderNames /\ ".." \in FolderNames
    BY Folders, FoldersAssumption DEF Names
  <2>2. \A p \in LoadedPaths :
           Append(<<"..">>, Folder[updates[p].kind]) = <<"..", Folder[updates[p].kind]>>
    BY <2>1, Pairs
  <2>3. \/ reference = link.value /\ \A p \in HtmlPaths : ~Matches(p, link.value)
        \/ \E p \in HtmlPaths :
              /\ Matches(p, link.value)
              /\ reference = [dirs |-> Append(<<"..">>, Folder[updates[p].kind]), name |-> updates[p]]
    BY ReferenceIsUpdated
  <2> HIDE DEF reference
  <2> QED
    BY <1>5, <2>2, <2>3
<1>7. style \in Paths
      /\ \A p \in CssPaths : p.name = link.value.name /\ UnmistakableInStyle(p) => style = to(p)
  <2>1. style \in Paths
        /\ \A p \in CssPaths :
              /\ p.name = link.value.name
              /\ \A q \in CssPaths \ {p} : q.name \notin {p.name, updates[p]}
              => style = to(p)
    BY <1>1, <1>5, StyleIsUpdated
  <2>2. ASSUME NEW p \in CssPaths, UnmistakableInStyle(p)
        PROVE  \A q \in CssPaths \ {p} : q.name \notin {p.name, updates[p]}
    BY <1>5, <2>2 DEF UnmistakableInStyle, Renames
  <2> QED
    BY <2>1, <2>2
<1> HIDE DEF to, reference, style
<1>8. value \in Paths
  BY <1>1, <1>4, <1>5, <1>6, <1>7 DEF LinkForms
<1>9. ASSUME IsUpdated(link, path)
      PROVE  path \in LoadedPaths /\ value = to(path)
  <2> HIDE DEF path
  <2>1. CASE /\ link.form = "reference" /\ path \in HtmlPaths
             /\ Unmistakable(link.value, path, HtmlPaths)
    <3>1. Matches(path, link.value)
      BY <1>3 DEF Matches
    <3>2. ASSUME NEW p \in HtmlPaths, Matches(p, link.value) PROVE p = path
      <4>1. SUFFICES ASSUME p # path PROVE FALSE
        OBVIOUS
      <4>2. p.name = path.name
        BY <1>3, <3>2 DEF Matches
      <4>3. link.value.dirs # <<>> /\ Last(link.value.dirs) # ".." /\ DirName(p) # DirName(path)
        BY <2>1, <4>1, <4>2 DEF Unmistakable
      <4> QED
        BY <1>3, <3>2, <4>3 DEF Matches
    <3>3. reference = to(path)
      BY <1>6, <2>1, <3>1, <3>2
    <3> QED
      BY <1>5, <2>1, <3>3
  <2>2. CASE link.form = "url" /\ path \in CssPaths /\ UnmistakableInStyle(path)
    BY <1>3, <1>5, <1>7, <2>2
  <2> QED
    BY <1>9, <2>1, <2>2 DEF IsUpdated
<1> HIDE DEF value
<1>10. new \in BookLinks /\ new.from = updates[link.from] /\ new.value = value
  BY <1>1, <1>2, <1>8 DEF BookLinks
<1> QED
  BY <1>9, <1>10 DEF to

-----------------------------------------------------------------------------
(* Types *)

LEMMA ShapesAreTypes == Shapes => TypeInv
<1> SUFFICES ASSUME Shapes PROVE TypeInv
  OBVIOUS
<1>1. CASE phase = "idle"
  <2>1. DOMAIN results = {} /\ DOMAIN m_Files = {}
    BY <1>1 DEF Shapes
  <2> QED
    BY <2>1 DEF Shapes, TypeInv, NoBook
<1>2. CASE phase = "loading"
  BY <1>2 DEF Shapes, TypeInv, NoBook, Covers, JobsAgree
<1> QED
  BY <1>1, <1>2 DEF Shapes

LEMMA StartHasItsShape == Init => Shapes
<1> SUFFICES ASSUME Init PROVE Shapes
  OBVIOUS
<1>1. IsEpub(epub)
  BY EpubsAssumption DEF Init, IsEpub
<1>2. IsBook(book)
  <2>1. <<>> \in Seq(Items) /\ <<>> \in Seq(Forms) /\ DOMAIN <<>> = {}
    OBVIOUS
  <2>2. IsFiniteSet(DOMAIN <<>>)
    BY <2>1, FS_EmptySet
  <2> QED
    BY <2>1, <2>2 DEF Init, NoBook, IsBook, IdentifierLists
<1> QED
  BY <1>1, <1>2, BoundsAssumption DEF Init, Shapes

LEMMA OpenKeepsShapes ==
    ASSUME Shapes, Open
    PROVE  Shapes'
<1>1. /\ saves' = saves /\ choices' = choices /\ epub' = epub /\ book' = book
      /\ phase = "idle" /\ answer # "opened"
  BY DEF Open
<1>2. CASE /\ Range(epub.encryption) \subseteq Algorithms /\ phase' = "loading"
           /\ m_Files' = AddObfuscatedButUndeclaredFonts(ReadManifestItems(epub.items),
                                                         DOMAIN epub.encryption)
           /\ results' = <<>> /\ loaded' = <<>> /\ answer' = answer
  <2>1. Covers(m_Files', epub)
    BY <1>2, FilesAreCovered DEF Shapes
  <2>2. DOMAIN <<>> = {}
    OBVIOUS
  <2>3. IsFiniteSet(DOMAIN <<>>)
    BY <2>2, FS_EmptySet
  <2>4. JobsAgree(<<>>, <<>>, m_Files', epub)
    BY <2>2, <2>3 DEF JobsAgree
  <2> QED
    BY <1>1, <1>2, <2>1, <2>4 DEF Shapes
<1>3. CASE answer' = "drm" /\ UNCHANGED <<phase, load_vars>>
  BY <1>1, <1>3 DEF Shapes, load_vars
<1> QED
  BY <1>2, <1>3 DEF Open

LEMMA JobKeepsShapes ==
    ASSUME Shapes, NEW id \in DOMAIN m_Files, LoadOneFile(id)
    PROVE  Shapes'
<1>1. /\ phase = "loading" /\ phase' = phase /\ m_Files' = m_Files
      /\ saves' = saves /\ choices' = choices /\ epub' = epub /\ book' = book /\ answer' = answer
  BY DEF LoadOneFile
<1>2. JobsAgree(results', loaded', m_Files, epub)
  BY <1>1, JobKeeps DEF Shapes
<1> QED
  BY <1>1, <1>2 DEF Shapes

LEMMA LoadedBookIsABook ==
    ASSUME AllAreLoaded, Range(epub.encryption) \subseteq Algorithms,
           NEW updates, Renames(updates), NEW xml, NEW html, NEW css, AreOrders(xml, html, css),
           NEW b, IsLoaded(b, updates, xml, html, css)
    PROVE  IsBook(b) /\ b.identifiers.forms # <<>>
<1>1. b.items \in Seq(Items)
  BY ItemsAreUpdated
<1>2. DOMAIN b.resources = DOMAIN loaded /\ \A n \in DOMAIN loaded : IsResource(b.resources[n])
  <2>1. b.resources = ProcessFontFiles(loaded, updates)
    BY DEF IsLoaded
  <2>2. /\ DOMAIN b.resources = DOMAIN loaded
        /\ \A n \in DOMAIN loaded :
              /\ b.resources[n] = [what |-> b.resources[n].what, garbled |-> b.resources[n].garbled,
                                    algorithm |-> b.resources[n].algorithm]
              /\ b.resources[n].algorithm \in Range(epub.encryption) \cup {Plain}
    BY <2>1, FontsAreProcessed
  <2> QED
    BY <2>2 DEF IsResource
<1>3. DOMAIN loaded \subseteq Names /\ IsFiniteSet(DOMAIN loaded)
  BY DEF AllAreLoaded, JobsAgree
<1>4. b.identifiers \in IdentifierLists /\ b.identifiers.forms # <<>>
  BY DEF AllAreLoaded, IsEpub, IsLoaded
<1>5. b.links \subseteq BookLinks
  <2>1. b.links = {UpdateLink(link, updates, html, css) :
                     link \in {l \in epub.links : l.from \in LoadedPaths}}
    BY DEF IsLoaded
  <2>2. \A p \in LoadedPaths : updates[p] \in Names
    BY <1>3 DEF Renames
  <2>3. epub.links \subseteq Links
    BY DEF AllAreLoaded, IsEpub
  <2>4. \A link \in epub.links : link.from \in LoadedPaths =>
           UpdateLink(link, updates, html, css) \in BookLinks
    BY <2>2, <2>3, LinkIsUpdated DEF AreOrders
  <2> QED
    BY <2>1, <2>4
<1> QED
  BY <1>1, <1>2, <1>3, <1>4, <1>5 DEF IsBook, IsLoaded

LEMMA FinishKeepsShapes ==
    ASSUME Shapes, FinishLoading
    PROVE  Shapes'
<1>1. /\ phase = "loading" /\ phase' = "idle" /\ m_Files' = <<>> /\ results' = <<>>
      /\ saves' = saves /\ choices' = choices /\ epub' = epub /\ DOMAIN results = DOMAIN m_Files
  BY DEF FinishLoading
<1>2. AllAreLoaded
  BY <1>1 DEF Shapes, AllAreLoaded
<1>3. CASE FontObfuscationError
  <2>1. answer' = "error" /\ book' = book
    BY <1>3 DEF FinishLoading
  <2> QED
    BY <1>1, <2>1 DEF Shapes
<1>4. CASE ~FontObfuscationError
  <2>1. answer' = "opened"
    BY <1>2, <1>4, FinishMakesABook
  <2>2. PICK updates, xml, html, css :
         Renames(updates) /\ AreOrders(xml, html, css) /\ IsLoaded(book', updates, xml, html, css)
    BY <1>2, <1>4, FinishMakesABook
  <2>3. Range(epub.encryption) \subseteq Algorithms
    BY <1>1 DEF Shapes
  <2>4. IsBook(book') /\ book'.identifiers.forms # <<>>
    BY <1>2, <2>2, <2>3, LoadedBookIsABook
  <2> QED
    BY <1>1, <2>1, <2>4 DEF Shapes
<1> QED
  BY <1>3, <1>4

\* A choice of a method changes the method of one font.
LEMMA ChoiceChangesTheMethod ==
    ASSUME IsBook(book), NEW name \in DOMAIN book.resources, NEW algorithm \in Algorithms,
           SetObfuscationAlgorithm(name, algorithm)
    PROVE  /\ book' = [resources |-> book'.resources, items |-> book.items, links |-> book.links,
                       identifiers |-> book.identifiers]
           /\ DOMAIN book'.resources = DOMAIN book.resources
           /\ \A n \in DOMAIN book.resources :
                 /\ IsResource(book'.resources[n])
                 /\ book'.resources[n].what = book.resources[n].what
                 /\ book'.resources[n].garbled = book.resources[n].garbled
<1> DEFINE r == book.resources
           to == IF r[name].algorithm = algorithm THEN Plain ELSE algorithm
           s == [r EXCEPT ![name].algorithm = to]
<1>1. book' = [book EXCEPT !.resources = s]
  BY DEF SetObfuscationAlgorithm
<1>2. book = [resources |-> r, items |-> book.items, links |-> book.links,
              identifiers |-> book.identifiers]
  BY DEF IsBook
<1>3. \A n \in DOMAIN r : IsResource(r[n])
  BY DEF IsBook
<1>4. book' = [resources |-> s, items |-> book.items, links |-> book.links,
               identifiers |-> book.identifiers]
  BY <1>1, <1>2
<1>5. to \in Algorithms \cup {Plain}
  OBVIOUS
<1> HIDE DEF to
<1>6. /\ DOMAIN s = DOMAIN r /\ \A n \in DOMAIN r : n # name => s[n] = r[n]
      /\ s[name] = [r[name] EXCEPT !.algorithm = to]
  OBVIOUS
<1>7. IsResource(s[name]) /\ s[name].what = r[name].what /\ s[name].garbled = r[name].garbled
  <2>1. r[name] = [what |-> r[name].what, garbled |-> r[name].garbled, algorithm |-> r[name].algorithm]
    BY <1>3 DEF IsResource
  <2> HIDE DEF r, s
  <2>2. s[name] = [what |-> r[name].what, garbled |-> r[name].garbled, algorithm |-> to]
    BY <1>6, <2>1
  <2> QED
    BY <1>5, <2>2 DEF IsResource
<1>8. \A n \in DOMAIN r : /\ IsResource(s[n]) /\ s[n].what = r[n].what
                          /\ s[n].garbled = r[n].garbled
  BY <1>3, <1>6, <1>7
<1> QED
  BY <1>4, <1>6, <1>8

LEMMA ChoiceKeepsShapes ==
    ASSUME Shapes, NEW name \in DOMAIN book.resources, NEW algorithm \in Algorithms,
           SetObfuscationAlgorithm(name, algorithm)
    PROVE  Shapes'
<1>1. /\ phase = "idle" /\ book # NoBook /\ phase' = phase /\ m_Files' = m_Files /\ results' = results
      /\ loaded' = loaded /\ saves' = saves /\ epub' = epub /\ answer' = answer
      /\ choices < MaxChoices /\ choices' = choices + 1
  BY DEF SetObfuscationAlgorithm, load_vars
<1>2. /\ book' = [resources |-> book'.resources, items |-> book.items, links |-> book.links,
                  identifiers |-> book.identifiers]
      /\ DOMAIN book'.resources = DOMAIN book.resources
      /\ \A n \in DOMAIN book.resources : IsResource(book'.resources[n])
  BY ChoiceChangesTheMethod DEF Shapes
<1>3. /\ book'.items = book.items /\ book'.identifiers = book.identifiers
      /\ book' = [resources |-> book'.resources, items |-> book'.items, links |-> book'.links,
                  identifiers |-> book'.identifiers]
  BY <1>2
<1>4. IsBook(book')
  BY <1>2, <1>3 DEF IsBook, Shapes
<1>5. choices' \in 0 .. MaxChoices
  BY <1>1, BoundsAssumption DEF Shapes
<1> QED
  BY <1>1, <1>3, <1>4, <1>5 DEF Shapes

-----------------------------------------------------------------------------
(* Saving *)

LEMMA FirstOfIs ==
    ASSUME NEW l \in IdentifierLists, NEW wanted
    PROVE  FirstOf(l, wanted) # 0 <=> \E i \in DOMAIN l.forms : l.forms[i] \in wanted
<1> DEFINE at == {i \in DOMAIN l.forms : l.forms[i] \in wanted}
<1>1. at \in SUBSET Nat /\ 0 \notin at
  BY DEF IdentifierLists
<1>2. FirstOf(l, wanted) = IF at = {} THEN 0 ELSE Min(at)
  BY DEF FirstOf
<1>3. at # {} <=> \E i \in DOMAIN l.forms : l.forms[i] \in wanted
  OBVIOUS
<1> HIDE DEF at
<1>4. at # {} => Min(at) \in at
  BY <1>1, MinIsLeast
<1> QED
  BY <1>1, <1>2, <1>3, <1>4

\* The identifiers of a book that is saved with obfuscated fonts have a UUID.
LEMMA IdentifiersAreSaved ==
    ASSUME IsBook(book), book.identifiers.forms # <<>>
    PROVE  /\ IdentifiersToSave \in IdentifierLists /\ IdentifiersToSave.forms # <<>>
           /\ Obfuscated # {} => ExportedUuid(IdentifiersToSave) # 0
<1> DEFINE l == book.identifiers
           new == Append(l.forms, "urn")
<1>1. l \in IdentifierLists /\ l = [forms |-> l.forms, main |-> l.main]
      /\ l.forms \in Seq(Forms) /\ l.main \in Nat
  BY DEF IsBook, IdentifierLists
<1>2. "urn" \in Forms
  BY DEF Forms
<1>3. /\ new \in Seq(Forms) /\ new # <<>> /\ Len(l.forms) + 1 \in DOMAIN new
      /\ new[Len(l.forms) + 1] = "urn"
  BY <1>1, <1>2
<1>4. [l EXCEPT !.forms = Append(@, "urn")] = [forms |-> new, main |-> l.main]
  <2>1. \A k, f, m, x : k = [forms |-> f, main |-> m] =>
           [k EXCEPT !.forms = x] = [forms |-> x, main |-> m]
    OBVIOUS
  <2>2. [l EXCEPT !.forms = new] = [forms |-> new, main |-> l.main]
    <3> HIDE DEF l, new
    <3> QED
      BY <1>1, <2>1
  <2> QED
    BY <2>2
<1> HIDE DEF new
<1>5. [forms |-> new, main |-> l.main] \in IdentifierLists
  BY <1>1, <1>3 DEF IdentifierLists
<1>6. ExportedUuid([forms |-> new, main |-> l.main]) # 0
  BY <1>3, <1>5, FirstOfIs DEF ExportedUuid
<1>7. CASE ExportedUuid(l) # 0
  BY <1>1, <1>7 DEF IdentifiersToSave, EnsureUUIDIdentifierPresent
<1>8. CASE ExportedUuid(l) = 0
  <2>1. EnsureUUIDIdentifierPresent(l) = [forms |-> new, main |-> l.main]
    BY <1>4, <1>8 DEF EnsureUUIDIdentifierPresent, new
  <2> QED
    BY <1>1, <1>3, <1>5, <1>6, <2>1 DEF IdentifiersToSave
<1> QED
  BY <1>7, <1>8

\* The epub that WriteBook makes.
LEMMA WrittenEpub ==
    ASSUME IsBook(book), WriteBook
    PROVE  /\ DOMAIN epub'.files = {PathOf(n) : n \in DOMAIN book.resources}
           /\ \A n \in DOMAIN book.resources :
                 PathOf(n) \in DOMAIN epub'.files /\ epub'.files[PathOf(n)] = Exported(n)
           /\ epub'.items = book.items
           /\ DOMAIN epub'.encryption = {PathOf(n) : n \in Obfuscated}
           /\ \A n \in Obfuscated :
                 PathOf(n) \in DOMAIN epub'.encryption
                 /\ epub'.encryption[PathOf(n)] = book.resources[n].algorithm
           /\ \A n \in DOMAIN book.resources : PathOf(n) \in DOMAIN epub'.encryption => n \in Obfuscated
           /\ epub'.identifiers = IdentifiersToSave
           /\ book' = [book EXCEPT !.identifiers = IdentifiersToSave]
<1> DEFINE r == book.resources
<1>1. DOMAIN r \subseteq Names /\ Obfuscated \subseteq DOMAIN r
  BY DEF IsBook, Obfuscated
<1>2. \A n \in DOMAIN r : PathOf(n).name = n
  BY <1>1, PathsOfNames
<1>3. /\ epub'.files = [path \in {PathOf(n) : n \in DOMAIN r} |-> Exported(path.name)]
      /\ epub'.items = book.items
      /\ epub'.encryption = [path \in {PathOf(n) : n \in Obfuscated} |-> r[path.name].algorithm]
      /\ epub'.identifiers = IdentifiersToSave
      /\ book' = [book EXCEPT !.identifiers = IdentifiersToSave]
  BY DEF WriteBook
<1>4. \A n \in DOMAIN r : PathOf(n) \in {PathOf(m) : m \in Obfuscated} => n \in Obfuscated
  BY <1>1, <1>2
<1> QED
  BY <1>1, <1>2, <1>3, <1>4

LEMMA WriteKeepsShapes ==
    ASSUME Shapes, WriteBook
    PROVE  Shapes'
<1>1. /\ phase = "idle" /\ book # NoBook /\ phase' = phase /\ m_Files' = m_Files /\ results' = results
      /\ loaded' = loaded /\ choices' = choices /\ saves < MaxSaves /\ saves' = saves + 1
      /\ answer' = "none"
  BY DEF WriteBook, load_vars
<1>2. IsBook(book) /\ book.identifiers.forms # <<>>
  BY <1>1 DEF Shapes
<1>3. IdentifiersToSave \in IdentifierLists /\ IdentifiersToSave.forms # <<>>
  BY <1>2, IdentifiersAreSaved
<1>4. /\ DOMAIN epub'.files = {PathOf(n) : n \in DOMAIN book.resources}
      /\ epub'.items = book.items
      /\ DOMAIN epub'.encryption = {PathOf(n) : n \in Obfuscated}
      /\ epub'.identifiers = IdentifiersToSave
      /\ book' = [book EXCEPT !.identifiers = IdentifiersToSave]
  BY <1>2, WrittenEpub
<1>5. /\ DOMAIN book.resources \subseteq Names /\ IsFiniteSet(DOMAIN book.resources)
      /\ book.items \in Seq(Items) /\ book.links \subseteq BookLinks
      /\ book = [resources |-> book.resources, items |-> book.items, links |-> book.links,
                 identifiers |-> book.identifiers]
      /\ \A n \in DOMAIN book.resources : IsResource(book.resources[n])
  BY <1>2 DEF IsBook
<1>6. ASSUME NEW S \in SUBSET DOMAIN book.resources
      PROVE  {PathOf(n) : n \in S} \subseteq Paths /\ IsFiniteSet({PathOf(n) : n \in S})
  <2>1. IsFiniteSet(S)
    BY <1>5, FS_Subset
  <2>2. {PathOf(n) : n \in S} \subseteq Paths
    BY <1>5, PathsOfNames
  <2> DEFINE f == [n \in S |-> PathOf(n)]
  <2>3. DOMAIN f = S /\ f = [n \in S |-> f[n]] /\ {PathOf(n) : n \in S} = {f[n] : n \in S}
    OBVIOUS
  <2> HIDE DEF f
  <2>4. IsFiniteSet({f[n] : n \in S})
    BY <2>1, <2>3, ImageIsFinite
  <2> QED
    BY <2>2, <2>3, <2>4
<1>7. IsEpub(epub')
  <2>1. Obfuscated \in SUBSET DOMAIN book.resources
    BY DEF Obfuscated
  <2>2. DOMAIN epub'.files \subseteq Paths /\ IsFiniteSet(DOMAIN epub'.files)
    BY <1>4, <1>6
  <2>3. DOMAIN epub'.encryption \subseteq Paths /\ IsFiniteSet(DOMAIN epub'.encryption)
    BY <1>4, <1>6, <2>1
  <2>4. epub'.links \subseteq Links
    <3>1. epub'.links = {[l EXCEPT !.from = PathOf(l.from)] : l \in book.links}
      BY DEF WriteBook
    <3>2. ASSUME NEW l \in BookLinks PROVE [l EXCEPT !.from = PathOf(l.from)] \in Links
      <4>1. /\ l = [from |-> l.from, value |-> l.value, form |-> l.form]
            /\ l.from \in Names /\ l.value \in Paths /\ l.form \in LinkForms
        BY DEF BookLinks
      <4>2. PathOf(l.from) \in Paths
        BY <4>1, PathsOfNames
      <4>3. [l EXCEPT !.from = PathOf(l.from)]
              = [from |-> PathOf(l.from), value |-> l.value, form |-> l.form]
        BY <4>1
      <4> QED
        BY <4>1, <4>2, <4>3 DEF Links
    <3> QED
      BY <1>5, <3>1, <3>2
  <2> QED
    BY <1>3, <1>4, <1>5, <2>2, <2>3, <2>4 DEF IsEpub
<1>8. IsBook(book') /\ book'.identifiers = IdentifiersToSave
  <2>1. book' = [resources |-> book.resources, items |-> book.items, links |-> book.links,
                 identifiers |-> IdentifiersToSave]
    BY <1>4, <1>5
  <2> QED
    BY <1>3, <1>5, <2>1 DEF IsBook
<1>9. saves' \in 0 .. MaxSaves
  BY <1>1, BoundsAssumption DEF Shapes
<1> QED
  BY <1>1, <1>3, <1>7, <1>8, <1>9 DEF Shapes

\* The invariant that the others rest on
LEMMA EpubsHaveTheirShape == Spec => []Shapes
<1>1. ASSUME Shapes, [Next]_vars
      PROVE  Shapes'
  <2>1. CASE Open
    BY <1>1, <2>1, OpenKeepsShapes
  <2>2. CASE FinishLoading
    BY <1>1, <2>2, FinishKeepsShapes
  <2>3. CASE WriteBook
    BY <1>1, <2>3, WriteKeepsShapes
  <2>4. CASE \E id \in DOMAIN m_Files : LoadOneFile(id)
    BY <1>1, <2>4, JobKeepsShapes
  <2>5. CASE \E name \in DOMAIN book.resources, algorithm \in Algorithms :
                SetObfuscationAlgorithm(name, algorithm)
    BY <1>1, <2>5, ChoiceKeepsShapes
  <2>6. CASE UNCHANGED vars
    BY <1>1, <2>6 DEF vars, Shapes
  <2> QED
    BY <1>1, <2>1, <2>2, <2>3, <2>4, <2>5, <2>6 DEF Next
<1> QED
  BY <1>1, StartHasItsShape, PTL DEF Spec

\* TypeInv always holds; of what is to be loaded, only an obfuscated font is
\* listed twice, whatever the manifest and encryption.xml list how often.
THEOREM TypesHold == Spec => []TypeInv
BY EpubsHaveTheirShape, ShapesAreTypes, PTL

-----------------------------------------------------------------------------
(* What Sigil has saved can be opened *)

LEMMA SavedBookHasAUuid ==
    ASSUME Shapes, SavedAsItOpens, SavedBookOpens, [Next]_vars
    PROVE  SavedAsItOpens' /\ SavedBookOpens'
<1>1. CASE WriteBook
  <2>1. IsBook(book) /\ book.identifiers.forms # <<>> /\ answer' = "none"
    BY <1>1 DEF Shapes, WriteBook
  <2>2. /\ DOMAIN epub'.encryption = {PathOf(n) : n \in Obfuscated}
        /\ \A n \in Obfuscated : epub'.encryption[PathOf(n)] = book.resources[n].algorithm
        /\ epub'.identifiers = IdentifiersToSave
    BY <1>1, <2>1, WrittenEpub
  <2>3. Obfuscated # {} => ExportedUuid(IdentifiersToSave) # 0
    BY <2>1, IdentifiersAreSaved
  <2>4. \A n \in Obfuscated : book.resources[n].algorithm \in Algorithms
    BY <2>1 DEF Obfuscated, IsBook, IsResource
  <2>5. Range(epub'.encryption) \subseteq Algorithms
    BY <2>2, <2>4 DEF Range
  <2>6. DOMAIN epub'.encryption # {} => ExportedUuid(epub'.identifiers) # 0
    BY <2>2, <2>3
  <2> QED
    BY <2>1, <2>5, <2>6 DEF SavedAsItOpens, SavedBookOpens
<1>2. ASSUME epub' = epub, saves' = saves PROVE SavedAsItOpens'
  BY <1>2 DEF SavedAsItOpens
<1>3. CASE epub' = epub /\ saves' = saves /\ answer' = answer
  BY <1>2, <1>3 DEF SavedBookOpens
<1>4. CASE Open
  <2>1. epub' = epub /\ saves' = saves
    BY <1>4 DEF Open
  <2>2. answer' = answer \/ ~(Range(epub.encryption) \subseteq Algorithms)
    BY <1>4 DEF Open
  <2> QED
    BY <1>2, <1>3, <2>1, <2>2 DEF SavedAsItOpens, SavedBookOpens
<1>5. CASE FinishLoading
  <2>1. epub' = epub /\ saves' = saves
    BY <1>5 DEF FinishLoading
  <2>2. CASE answer' = "opened"
    BY <1>2, <2>1, <2>2 DEF SavedBookOpens
  <2>3. CASE FontObfuscationError /\ answer' = "error"
    <3>1. ASSUME saves > 0 PROVE "uuid" \in Range(epub.identifiers.forms)
      <4> DEFINE l == epub.identifiers
      <4>1. ImportedUuid(l) = 0 /\ ExportedUuid(l) # 0
        BY <2>3, <3>1 DEF SavedAsItOpens, FontObfuscationError, EncryptedPaths
      <4>2. l \in IdentifierLists
        BY DEF Shapes, IsEpub
      <4>3. PICK i \in DOMAIN l.forms : l.forms[i] \in {"urn", "uuid"}
        BY <4>1, <4>2, FirstOfIs DEF ExportedUuid
      <4>4. l.forms[i] \notin {"urn", "badurn"}
        BY <4>1, <4>2, FirstOfIs DEF ImportedUuid
      <4> QED
        BY <4>3, <4>4 DEF Range
    <3> QED
      BY <1>2, <2>1, <2>3, <3>1 DEF SavedBookOpens
  <2> QED
    BY <1>5, <2>2, <2>3 DEF FinishLoading
<1>6. CASE \E id \in DOMAIN m_Files : LoadOneFile(id)
  <2>1. epub' = epub /\ saves' = saves /\ answer' = answer
    BY <1>6 DEF LoadOneFile
  <2> QED
    BY <1>3, <2>1
<1>7. CASE \E name \in DOMAIN book.resources, algorithm \in Algorithms :
              SetObfuscationAlgorithm(name, algorithm)
  <2>1. epub' = epub /\ saves' = saves /\ answer' = answer
    BY <1>7 DEF SetObfuscationAlgorithm
  <2> QED
    BY <1>3, <2>1
<1>8. CASE UNCHANGED vars
  BY <1>3, <1>8 DEF vars
<1> QED
  BY <1>1, <1>4, <1>5, <1>6, <1>7, <1>8 DEF Next

\* What Sigil has saved is never refused as protected, and the fonts of a book
\* saved without a UUID can be de-obfuscated, because saving gives it one: only
\* when it has a UUID that ReadIdentifierElement does not recognise does
\* ObfuscateFile throw.
THEOREM SavedBooksOpen == Spec => []SavedBookOpens
<1>1. Init => SavedAsItOpens /\ SavedBookOpens
  BY DEF Init, SavedAsItOpens, SavedBookOpens
<1> QED
  BY <1>1, EpubsHaveTheirShape, SavedBookHasAUuid, PTL DEF Spec

-----------------------------------------------------------------------------
(* What is listed is in the loaded book *)

\* An item that is not mistakable leads to the file that it led to.
LEMMA ItemLeadsToItsFile ==
    ASSUME AllAreLoaded, NEW updates, Renames(updates), NEW xml, NEW html, NEW css, AreOrders(xml, html, css),
           NEW b, IsLoaded(b, updates, xml, html, css), NEW i \in DOMAIN epub.items,
           FileOf(epub.items[i]) \in LoadedPaths,
           Unmistakable(epub.items[i].href, FileOf(epub.items[i]), LoadedPaths)
    PROVE  FileOf(b.items[i]) = PathOf(updates[FileOf(epub.items[i])])
<1> DEFINE path == FileOf(epub.items[i])
           value == epub.items[i].href
<1>1. path.name = value.name
      /\ (value.dirs # <<>> /\ Last(value.dirs) # ".." => DirName(path) = Last(value.dirs))
  BY EpubItems, FileOfItem DEF AllAreLoaded
<1>2. Matches(path, value)
  BY <1>1 DEF Matches
<1>3. ASSUME NEW p \in LoadedPaths, Matches(p, value) PROVE p = path
  <2>1. SUFFICES ASSUME p # path PROVE FALSE
    OBVIOUS
  <2>2. p.name = path.name
    BY <1>1, <1>3 DEF Matches
  <2>3. value.dirs # <<>> /\ Last(value.dirs) # ".." /\ DirName(p) # DirName(path)
    BY <2>1, <2>2 DEF Unmistakable
  <2> QED
    BY <1>1, <1>3, <2>3 DEF Matches
<1>4. \/ \A p \in LoadedPaths : ~Matches(p, value)
      \/ \E p \in LoadedPaths : Matches(p, value) /\ FileOf(b.items[i]) = PathOf(updates[p])
  BY ItemsAreUpdated
<1> QED
  BY <1>2, <1>3, <1>4

LEMMA PathsOfNamesDiffer == \A n, m \in Names : PathOf(n) = PathOf(m) => n = m
<1> SUFFICES ASSUME NEW n \in Names, NEW m \in Names, PathOf(n) = PathOf(m) PROVE n = m
  OBVIOUS
<1>1. PathOf(n).name = n /\ PathOf(m).name = m
  BY PathsOfNames
<1> QED
  BY <1>1

KeepsWhatIsListed(b) ==
    /\ \A path \in DOMAIN epub.encryption \cap DOMAIN epub.files :
          \E name \in DOMAIN b.resources : b.resources[name].what = epub.files[path].what
    /\ \A i \in DOMAIN epub.items :
          LET path == FileOf(epub.items[i])
          IN  /\ path \in DOMAIN epub.files
              /\ IdsAreOwn(epub, path)
              => /\ path \in LoadedPaths
                 /\ Unmistakable(epub.items[i].href, path, LoadedPaths) =>
                      Leads(<<"OEBPS">>, b.items[i].href, b.resources) = {epub.files[path].what}

LEMMA LoadedBookHasWhatIsListed ==
    ASSUME AllAreLoaded, NEW updates, Renames(updates), NEW xml, NEW html, NEW css, AreOrders(xml, html, css),
           NEW b, IsLoaded(b, updates, xml, html, css)
    PROVE  KeepsWhatIsListed(b)
<1> DEFINE r == b.resources
<1>1. r = ProcessFontFiles(loaded, updates)
  BY DEF IsLoaded
<1>2. DOMAIN r = DOMAIN loaded /\ \A n \in DOMAIN loaded : r[n].what = loaded[n].what
  <2> HIDE DEF r
  <2> QED
    BY <1>1, FontsAreProcessed
<1>3. DOMAIN loaded \subseteq Names
  BY DEF AllAreLoaded, JobsAgree
<1>4. \A p \in LoadedPaths : updates[p] \in DOMAIN r /\ r[updates[p]].what = epub.files[p].what
  BY <1>2 DEF Renames
<1>5. \A p \in Range(m_Files) : p \in DOMAIN epub.files => p \in LoadedPaths
  BY JobsLoadFiles
<1>6. ASSUME NEW path \in DOMAIN epub.encryption \cap DOMAIN epub.files
      PROVE  \E name \in DOMAIN r : r[name].what = epub.files[path].what
  <2>1. path \in LoadedPaths
    BY <1>5 DEF AllAreLoaded, Covers
  <2> QED
    BY <1>4, <2>1
<1>7. ASSUME NEW i \in DOMAIN epub.items, FileOf(epub.items[i]) \in DOMAIN epub.files,
             IdsAreOwn(epub, FileOf(epub.items[i]))
      PROVE  /\ FileOf(epub.items[i]) \in LoadedPaths
             /\ Unmistakable(epub.items[i].href, FileOf(epub.items[i]), LoadedPaths) =>
                  Leads(<<"OEBPS">>, b.items[i].href, r) = {epub.files[FileOf(epub.items[i])].what}
  <2> DEFINE path == FileOf(epub.items[i])
  <2>1. path \in LoadedPaths
    BY <1>5, <1>7 DEF AllAreLoaded, Covers
  <2>2. ASSUME Unmistakable(epub.items[i].href, path, LoadedPaths)
        PROVE  Leads(<<"OEBPS">>, b.items[i].href, r) = {epub.files[path].what}
    <3> DEFINE n == updates[path]
    <3>1. Resolve(<<"OEBPS">>, b.items[i].href) = PathOf(n)
      BY <2>1, <2>2, ItemLeadsToItsFile DEF FileOf
    <3>2. n \in DOMAIN r /\ r[n].what = epub.files[path].what
      BY <1>4, <2>1
    <3>3. {m \in DOMAIN r : PathOf(m) = PathOf(n)} = {n}
      <4>1. DOMAIN r \subseteq Names
        BY <1>2, <1>3
      <4> HIDE DEF n, r
      <4> QED
        BY <3>2, <4>1, PathsOfNamesDiffer
    <3> HIDE DEF n, r, path
    <3> QED
      BY <3>1, <3>2, <3>3 DEF Leads
  <2> QED
    BY <2>1, <2>2
<1> QED
  BY <1>6, <1>7 DEF KeepsWhatIsListed

LEMMA OpeningMakesABook ==
    ASSUME Shapes, [Next]_vars, BookIsLoaded
    PROVE  /\ AllAreLoaded
           /\ \E updates, xml, html, css :
                 Renames(updates) /\ AreOrders(xml, html, css) /\ IsLoaded(book', updates, xml, html, css)
<1>1. phase = "loading" /\ phase' = "idle" /\ answer' = "opened"
  BY DEF BookIsLoaded
<1>2. FinishLoading
  BY <1>1 DEF Next, vars, Open, WriteBook, LoadOneFile
<1>3. AllAreLoaded
  BY <1>1, <1>2 DEF Shapes, AllAreLoaded, FinishLoading
<1>4. ~FontObfuscationError
  BY <1>1, <1>2 DEF FinishLoading
<1> QED
  BY <1>2, <1>3, <1>4, FinishMakesABook

\* Loading keeps what the manifest and encryption.xml list, for any names of
\* files in any folders, and whatever order the jobs end in and the hashes have.
THEOREM ListedFilesAreLoaded == Spec => ManifestIsKept
<1>1. ASSUME Shapes, [Next]_vars, BookIsLoaded PROVE KeepsWhatIsListed(book')
  <2>1. AllAreLoaded
    BY <1>1, OpeningMakesABook
  <2>2. PICK updates, xml, html, css :
         Renames(updates) /\ AreOrders(xml, html, css) /\ IsLoaded(book', updates, xml, html, css)
    BY <1>1, OpeningMakesABook
  <2> QED
    BY <2>1, <2>2, LoadedBookHasWhatIsListed
<1> QED
  BY <1>1, EpubsHaveTheirShape, PTL DEF Spec, ManifestIsKept, KeepsWhatIsListed

-----------------------------------------------------------------------------
(* Links lead where they did *)

KeepsLinks(b) ==
    \A link \in epub.links :
       LET path == Resolve(link.from.dirs, link.value)
       IN  link.from \in LoadedPaths /\ IsUpdated(link, path)
           => \E new \in b.links :
                 /\ b.resources[new.from].what = epub.files[link.from].what
                 /\ Leads(PathOf(new.from).dirs, new.value, b.resources) = {epub.files[path].what}

LEMMA LoadedBookKeepsLinks ==
    ASSUME AllAreLoaded, NEW updates, Renames(updates), NEW xml, NEW html, NEW css, AreOrders(xml, html, css),
           NEW b, IsLoaded(b, updates, xml, html, css)
    PROVE  KeepsLinks(b)
<1> DEFINE r == b.resources
<1>1. r = ProcessFontFiles(loaded, updates)
  BY DEF IsLoaded
<1>2. DOMAIN r = DOMAIN loaded /\ \A n \in DOMAIN loaded : r[n].what = loaded[n].what
  <2> HIDE DEF r
  <2> QED
    BY <1>1, FontsAreProcessed
<1>3. DOMAIN r \subseteq Names
  BY <1>2 DEF AllAreLoaded, JobsAgree
<1>4. \A p \in LoadedPaths : /\ updates[p] \in DOMAIN r /\ updates[p] \in Names
                            /\ r[updates[p]].what = epub.files[p].what
  BY <1>2, <1>3 DEF Renames
<1>5. epub.links \subseteq Links
  BY DEF AllAreLoaded, IsEpub
<1> HIDE DEF r
<1>6. ASSUME NEW link \in epub.links, NEW path, path = Resolve(link.from.dirs, link.value),
             link.from \in LoadedPaths, IsUpdated(link, path)
      PROVE  \E new \in b.links : /\ r[new.from].what = epub.files[link.from].what
                                 /\ Leads(PathOf(new.from).dirs, new.value, r) = {epub.files[path].what}
  <2> DEFINE new == UpdateLink(link, updates, html, css)
             n == updates[path]
             m == updates[link.from]
  <2>1. new \in b.links
    BY <1>6 DEF IsLoaded
  <2>2. /\ new.from = m /\ path \in LoadedPaths
        /\ new.value = [dirs |-> <<"..", Folder[n.kind]>>, name |-> n]
    BY <1>4, <1>5, <1>6, LinkIsUpdated DEF AreOrders
  <2>3. n \in DOMAIN r /\ n \in Names /\ m \in Names /\ r[n].what = epub.files[path].what
        /\ r[m].what = epub.files[link.from].what
    BY <1>4, <1>6, <2>2
  <2> HIDE DEF new, n, m
  <2>4. Resolve(PathOf(new.from).dirs, new.value) = PathOf(n)
    BY <2>2, <2>3, ResolveAcross
  <2>5. {k \in DOMAIN r : PathOf(k) = PathOf(n)} = {n}
    BY <1>3, <2>3, PathsOfNamesDiffer
  <2>6. Leads(PathOf(new.from).dirs, new.value, r) = {epub.files[path].what}
    BY <2>3, <2>4, <2>5 DEF Leads
  <2> QED
    BY <2>1, <2>2, <2>3, <2>6
<1> QED
  BY <1>6 DEF KeepsLinks, r

\* UniversalUpdates keeps every link that it updates and that cannot be mistaken,
\* whatever names the jobs have given to the files, and whatever order the hashes
\* have.
THEOREM LinksStayTheSame == Spec => LinksAreKept
<1>1. ASSUME Shapes, [Next]_vars, BookIsLoaded PROVE KeepsLinks(book')
  <2>1. AllAreLoaded
    BY <1>1, OpeningMakesABook
  <2>2. PICK updates, xml, html, css :
         Renames(updates) /\ AreOrders(xml, html, css) /\ IsLoaded(book', updates, xml, html, css)
    BY <1>1, OpeningMakesABook
  <2> QED
    BY <2>1, <2>2, LoadedBookKeepsLinks
<1> QED
  BY <1>1, EpubsHaveTheirShape, PTL DEF Spec, LinksAreKept, KeepsLinks

-----------------------------------------------------------------------------
(* Fonts stay readable *)

LEMMA ObfuscationIsItsInverse ==
    \A keys, key : Obfuscate(Obfuscate(keys, key), key) = keys
<1> SUFFICES ASSUME NEW keys, NEW key PROVE Obfuscate(Obfuscate(keys, key), key) = keys
  OBVIOUS
<1>1. CASE key \in keys
  <2>1. Obfuscate(keys, key) = keys \ {key} /\ key \notin keys \ {key}
    BY <1>1 DEF Obfuscate
  <2>2. (keys \ {key}) \cup {key} = keys
    BY <1>1
  <2> QED
    BY <2>1, <2>2 DEF Obfuscate
<1>2. CASE key \notin keys
  <2>1. Obfuscate(keys, key) = keys \cup {key} /\ key \in keys \cup {key}
    BY <1>2 DEF Obfuscate
  <2>2. (keys \cup {key}) \ {key} = keys
    BY <1>2
  <2> QED
    BY <2>1, <2>2 DEF Obfuscate
<1> QED
  BY <1>1, <1>2

\* In a well-formed epub every item leads to the new name of its file.
LEMMA ItemsLeadToTheirFiles ==
    ASSUME AllAreLoaded, WellFormed(epub), NEW updates, Renames(updates),
           NEW xml, NEW html, NEW css, AreOrders(xml, html, css),
           NEW b, IsLoaded(b, updates, xml, html, css)
    PROVE  /\ ListedFiles(epub) \subseteq LoadedPaths
           /\ DOMAIN b.items = DOMAIN epub.items
           /\ \A i \in DOMAIN epub.items :
                 /\ b.items[i].id = epub.items[i].id
                 /\ FileOf(b.items[i]) = PathOf(updates[FileOf(epub.items[i])])
<1>1. DOMAIN b.items = DOMAIN epub.items /\ \A i \in DOMAIN epub.items : b.items[i].id = epub.items[i].id
  BY ItemsAreUpdated
<1>2. \A i \in DOMAIN epub.items :
         FileOf(epub.items[i]) \in DOMAIN epub.files /\ IdsAreOwn(epub, FileOf(epub.items[i]))
  BY DEF WellFormed, ListedFiles, IdsAreOwn
<1>3. \A i \in DOMAIN epub.items : FileOf(epub.items[i]) \in LoadedPaths
  BY <1>2, LoadedBookHasWhatIsListed DEF KeepsWhatIsListed
<1>4. \A p, q \in LoadedPaths : p.name = q.name => p = q
  BY DEF Renames, WellFormed
<1>5. \A i \in DOMAIN epub.items : Unmistakable(epub.items[i].href, FileOf(epub.items[i]), LoadedPaths)
  BY <1>3, <1>4 DEF Unmistakable
<1> QED
  BY <1>1, <1>3, <1>5, ItemLeadsToItsFile DEF ListedFiles

\* The fonts that loading leaves garbled
LeftGarbled ==
    {epub.files[path].what : path \in (LoadedPaths \cap DOMAIN epub.encryption) \ EncryptedPaths}

LEMMA LoadedBookIsReadable ==
    ASSUME AllAreLoaded, WellFormed(epub), NEW excused, FilesReadable(epub, excused),
           NEW updates, Renames(updates), NEW xml, NEW html, NEW css, AreOrders(xml, html, css),
           NEW b, IsLoaded(b, updates, xml, html, css)
    PROVE  BookReadable(b, excused \cup LeftGarbled)
<1> DEFINE r == b.resources
           listed == ListedFiles(epub)
<1>1. /\ listed \subseteq LoadedPaths /\ DOMAIN b.items = DOMAIN epub.items
      /\ \A i \in DOMAIN epub.items : /\ b.items[i].id = epub.items[i].id
                                      /\ FileOf(b.items[i]) = PathOf(updates[FileOf(epub.items[i])])
  BY ItemsLeadToTheirFiles
<1>2. DOMAIN loaded \subseteq Names
  BY DEF AllAreLoaded, JobsAgree
<1>3. r = ProcessFontFiles(loaded, updates)
  BY DEF IsLoaded
<1>4. /\ DOMAIN r = DOMAIN loaded
      /\ \A n \in DOMAIN loaded : r[n].what = loaded[n].what
      /\ \A p \in LoadedPaths :
            ~KeptOutside(epub, p) => r[updates[p]].garbled = Cleared(epub, p)
  <2> HIDE DEF r
  <2> QED
    BY <1>3, FontsAreProcessed
<1>5. \A p \in LoadedPaths : updates[p] \in DOMAIN r /\ r[updates[p]].what = epub.files[p].what
  BY <1>4 DEF Renames
<1>6. \A n \in DOMAIN r : n \in ListedNames(b) <=> \E p \in listed : n = updates[p]
  <2>1. ASSUME NEW n \in DOMAIN r, NEW i \in DOMAIN b.items, FileOf(b.items[i]) = PathOf(n)
        PROVE  FileOf(epub.items[i]) \in listed /\ n = updates[FileOf(epub.items[i])]
    <3>1. FileOf(epub.items[i]) \in listed
      BY <1>1 DEF ListedFiles
    <3>2. updates[FileOf(epub.items[i])] \in Names /\ n \in Names
      BY <1>1, <1>2, <1>4, <1>5, <3>1
    <3>3. PathOf(updates[FileOf(epub.items[i])]) = PathOf(n)
      BY <1>1, <2>1
    <3> QED
      BY <3>1, <3>2, <3>3, PathsOfNamesDiffer
  <2>2. ASSUME NEW n \in DOMAIN r, NEW i \in DOMAIN epub.items, n = updates[FileOf(epub.items[i])]
        PROVE  i \in DOMAIN b.items /\ FileOf(b.items[i]) = PathOf(n)
    BY <1>1, <2>2
  <2> QED
    BY <2>1, <2>2 DEF ListedNames, ListedFiles
<1>7. \A p, q \in LoadedPaths : updates[p] = updates[q] => p = q
  BY DEF Renames
<1>8. \A i, j \in DOMAIN b.items : b.items[i].id = b.items[j].id => i = j
  BY <1>1 DEF WellFormed
<1>9. \A i \in DOMAIN b.items : \E n \in DOMAIN r : FileOf(b.items[i]) = PathOf(n)
  BY <1>1, <1>5 DEF ListedFiles
<1>10. ASSUME NEW n \in DOMAIN r
       PROVE  \/ r[n].garbled = {} \/ r[n].what \in excused \cup LeftGarbled
              \/ n \notin ListedNames(b) /\ \E m \in ListedNames(b) : r[m].what = r[n].what
  <2>1. \A q \in listed : updates[q] \in ListedNames(b) /\ r[updates[q]].what = epub.files[q].what
    BY <1>1, <1>5, <1>6
  <2>2. ASSUME NEW p \in LoadedPaths, n = updates[p]
        PROVE  \/ r[n].garbled = {} \/ r[n].what \in excused \cup LeftGarbled
               \/ n \notin ListedNames(b) /\ \E m \in ListedNames(b) : r[m].what = r[n].what
    <3>1. p \in DOMAIN epub.files
      BY DEF Renames
    <3>2. /\ ~KeptOutside(epub, p) => r[n].garbled = Cleared(epub, p)
          /\ r[n].what = epub.files[p].what
      BY <1>4, <1>5, <2>2
    <3>4. KeptOutside(epub, p) => epub.files[p].what \in LeftGarbled
      BY DEF KeptOutside, LeftGarbled, EncryptedPaths
    <3>3. ASSUME p \notin listed, NEW q \in listed, epub.files[q].what = epub.files[p].what
          PROVE  n \notin ListedNames(b) /\ \E m \in ListedNames(b) : r[m].what = r[n].what
      <4>1. n \notin ListedNames(b)
        BY <1>1, <1>6, <1>7, <2>2, <3>3
      <4>2. updates[q] \in ListedNames(b) /\ r[updates[q]].what = r[n].what
        BY <2>1, <3>2, <3>3
      <4> QED
        BY <4>1, <4>2
    <3> QED
      BY <3>1, <3>2, <3>3, <3>4 DEF FilesReadable
  <2>3. ASSUME \A p \in LoadedPaths : n # updates[p]
        PROVE  n \notin ListedNames(b) /\ \E m \in ListedNames(b) : r[m].what = r[n].what
    <3>1. PICK p \in LoadedPaths : loaded[n] = epub.files[p] /\ p \in listed
      BY <1>4, <2>3 DEF Renames
    <3>2. r[n].what = epub.files[p].what
      BY <1>4, <3>1
    <3>3. n \notin ListedNames(b)
      BY <1>1, <1>6, <2>3
    <3> QED
      BY <2>1, <3>1, <3>2, <3>3
  <2> QED
    BY <2>2, <2>3
<1> QED
  BY <1>8, <1>9, <1>10 DEF BookReadable

\* A font whose keys for saving and for loading differ is among the misled.
LEMMA WrittenEpubIsReadable ==
    ASSUME IsBook(book), BookReadable(book, misled), WriteBook
    PROVE  /\ WellFormed(epub') /\ FilesReadable(epub', misled')
           /\ BookReadable(book', misled')
<1> DEFINE r == book.resources
           ids == IdentifiersToSave
           alg(n) == r[n].algorithm
<1>1. /\ DOMAIN epub'.files = {PathOf(n) : n \in DOMAIN r}
      /\ \A n \in DOMAIN r : PathOf(n) \in DOMAIN epub'.files /\ epub'.files[PathOf(n)] = Exported(n)
      /\ epub'.items = book.items
      /\ \A n \in Obfuscated : PathOf(n) \in DOMAIN epub'.encryption
                               /\ epub'.encryption[PathOf(n)] = r[n].algorithm
      /\ \A n \in DOMAIN r : PathOf(n) \in DOMAIN epub'.encryption => n \in Obfuscated
      /\ epub'.identifiers = ids
      /\ book' = [book EXCEPT !.identifiers = ids]
  BY WrittenEpub
<1>2. DOMAIN r \subseteq Names
  BY DEF IsBook
<1>3. \A n \in DOMAIN r : PathOf(n).name = n
  BY <1>2, PathsOfNames
<1>4. book'.resources = r /\ book'.items = book.items
  <2>1. book = [resources |-> r, items |-> book.items, links |-> book.links,
                identifiers |-> book.identifiers]
    BY DEF IsBook
  <2> QED
    BY <1>1, <2>1
<1>5. misled' = misled \cup {r[n].what : n \in {f \in Obfuscated :
                   ExportKey(r[f].algorithm, ids) # ImportKey(r[f].algorithm, ids)}}
  BY DEF WriteBook
<1>6. misled \subseteq misled'
  BY <1>5
<1>7. BookReadable(book', misled')
  BY <1>4, <1>6 DEF BookReadable, ListedNames
<1>8. \A n \in DOMAIN r : PathOf(n) \in ListedFiles(epub') <=> n \in ListedNames(book)
  BY <1>1 DEF ListedFiles, ListedNames
<1>9. WellFormed(epub')
  <2>1. \A i, j \in DOMAIN epub'.items : epub'.items[i].id = epub'.items[j].id => i = j
    BY <1>1 DEF BookReadable
  <2>2. \A p, q \in DOMAIN epub'.files : p.name = q.name => p = q
    BY <1>1, <1>3
  <2>3. ListedFiles(epub') \subseteq DOMAIN epub'.files
    BY <1>1 DEF ListedFiles, BookReadable
  <2> QED
    BY <2>1, <2>2, <2>3 DEF WellFormed
<1>10. ASSUME NEW n \in DOMAIN r
       PROVE  /\ epub'.files[PathOf(n)].what = r[n].what
              /\ Cleared(epub', PathOf(n)) = r[n].garbled \/ r[n].what \in misled'
  <2> DEFINE p == PathOf(n)
             g == r[n].garbled
  <2>1. epub'.files[p] = Exported(n)
    BY <1>1
  <2>2. Exported(n).what = r[n].what
        /\ Exported(n).garbled = IF r[n].algorithm = Plain THEN g
                                 ELSE Obfuscate(g, ExportKey(r[n].algorithm, ids))
    BY DEF Exported
  <2>3. CASE r[n].algorithm = Plain
    <3>1. p \notin DOMAIN epub'.encryption
      BY <1>1, <2>3 DEF Obfuscated
    <3>2. Cleared(epub', p) = epub'.files[p].garbled
      BY <3>1 DEF Cleared
    <3> QED
      BY <2>1, <2>2, <2>3, <3>2
  <2>4. CASE r[n].algorithm # Plain
    <3>1. n \in Obfuscated
      BY <2>4 DEF Obfuscated
    <3>2. p \in DOMAIN epub'.encryption /\ epub'.encryption[p] = r[n].algorithm
      BY <1>1, <3>1
    <3>3. Cleared(epub', p) = Obfuscate(epub'.files[p].garbled, ImportKey(r[n].algorithm, ids))
      BY <1>1, <3>2 DEF Cleared
    <3>4. epub'.files[p].garbled = Obfuscate(g, ExportKey(r[n].algorithm, ids))
      BY <2>1, <2>2, <2>4
    <3>5. CASE ExportKey(r[n].algorithm, ids) = ImportKey(r[n].algorithm, ids)
      <4>1. Cleared(epub', p) = g
        BY <3>3, <3>4, <3>5, ObfuscationIsItsInverse
      <4> QED
        BY <2>1, <2>2, <4>1
    <3>6. CASE ExportKey(r[n].algorithm, ids) # ImportKey(r[n].algorithm, ids)
      <4>1. r[n].what \in misled'
        BY <1>5, <3>1, <3>6
      <4> QED
        BY <2>1, <2>2, <4>1
    <3> QED
      BY <3>5, <3>6
  <2> QED
    BY <2>3, <2>4
<1>11. FilesReadable(epub', misled')
  <2> SUFFICES ASSUME NEW n \in DOMAIN r
               PROVE  \/ Cleared(epub', PathOf(n)) = {} \/ epub'.files[PathOf(n)].what \in misled'
                      \/ /\ PathOf(n) \notin ListedFiles(epub')
                         /\ \E q \in ListedFiles(epub') :
                               epub'.files[q].what = epub'.files[PathOf(n)].what
    BY <1>1 DEF FilesReadable
  <2>1. CASE r[n].garbled = {} \/ r[n].what \in misled
    BY <1>6, <1>10, <2>1
  <2>2. ASSUME n \notin ListedNames(book), NEW m \in ListedNames(book), r[m].what = r[n].what
        PROVE  /\ PathOf(n) \notin ListedFiles(epub')
               /\ \E q \in ListedFiles(epub') : epub'.files[q].what = epub'.files[PathOf(n)].what
    <3>1. m \in DOMAIN r
      BY DEF ListedNames
    <3>2. PathOf(m) \in ListedFiles(epub')
      BY <1>8, <3>1
    <3>3. epub'.files[PathOf(m)].what = epub'.files[PathOf(n)].what
      BY <1>10, <2>2, <3>1
    <3> QED
      BY <1>8, <2>2, <3>2, <3>3
  <2> QED
    BY <2>1, <2>2 DEF BookReadable
<1> QED
  BY <1>7, <1>9, <1>11

LEMMA FontsInvIsKept ==
    ASSUME Shapes, FontsInv, [Next]_vars
    PROVE  FontsInv'
<1>1. ASSUME epub' = epub, book' = book, misled' = misled PROVE FontsInv'
  BY <1>1 DEF FontsInv
<1>2. CASE Open
  BY <1>1, <1>2 DEF Open
<1>3. CASE \E id \in DOMAIN m_Files : LoadOneFile(id)
  BY <1>1, <1>3 DEF LoadOneFile
<1>4. CASE FinishLoading
  <2>1. epub' = epub /\ phase = "loading" /\ DOMAIN results = DOMAIN m_Files
    BY <1>4 DEF FinishLoading
  <2>2. CASE FontObfuscationError
    BY <1>1, <1>4, <2>1, <2>2 DEF FinishLoading
  <2>3. CASE ~FontObfuscationError
    <3>1. AllAreLoaded
      BY <2>1 DEF Shapes, AllAreLoaded
    <3>2. PICK updates, xml, html, css :
         Renames(updates) /\ AreOrders(xml, html, css) /\ IsLoaded(book', updates, xml, html, css)
      BY <1>4, <2>3, <3>1, FinishMakesABook
    <3>3. WellFormed(epub) /\ FilesReadable(epub, misled)
      BY <2>1 DEF Shapes, FontsInv
    <3>4. misled' = misled \cup LeftGarbled
      BY <1>4, <2>3 DEF FinishLoading, LeftGarbled
    <3>5. BookReadable(book', misled')
      BY <3>1, <3>2, <3>3, <3>4, LoadedBookIsReadable
    <3>6. FilesReadable(epub, misled')
      BY <3>3, <3>4 DEF FilesReadable
    <3> QED
      BY <2>1, <3>3, <3>5, <3>6 DEF FontsInv, WellFormed, ListedFiles
  <2> QED
    BY <2>2, <2>3
<1>5. CASE WriteBook
  <2>1. IsBook(book) /\ BookReadable(book, misled)
    BY DEF Shapes, FontsInv
  <2>2. WellFormed(epub') /\ FilesReadable(epub', misled') /\ BookReadable(book', misled')
    BY <1>5, <2>1, WrittenEpubIsReadable
  <2> QED
    BY <2>2 DEF FontsInv
<1>6. ASSUME NEW name \in DOMAIN book.resources, NEW algorithm \in Algorithms,
             SetObfuscationAlgorithm(name, algorithm)
      PROVE  FontsInv'
  <2>1. epub' = epub /\ misled' = misled
    BY <1>6 DEF SetObfuscationAlgorithm
  <2>2. /\ book' = [resources |-> book'.resources, items |-> book.items, links |-> book.links,
                    identifiers |-> book.identifiers]
        /\ DOMAIN book'.resources = DOMAIN book.resources
        /\ \A n \in DOMAIN book.resources :
              /\ book'.resources[n].what = book.resources[n].what
              /\ book'.resources[n].garbled = book.resources[n].garbled
    BY <1>6, ChoiceChangesTheMethod DEF Shapes
  <2>3. book'.items = book.items
    BY <2>2
  <2>4. ListedNames(book') = ListedNames(book) /\ ListedNames(book) \subseteq DOMAIN book.resources
    BY <2>2, <2>3 DEF ListedNames
  <2>5. BookReadable(book', misled)
    BY <2>2, <2>3, <2>4 DEF BookReadable, FontsInv
  <2> QED
    BY <2>1, <2>5 DEF FontsInv
<1>7. CASE UNCHANGED vars
  BY <1>1, <1>7 DEF vars
<1> QED
  BY <1>2, <1>3, <1>4, <1>5, <1>6, <1>7 DEF Next

\* If the first epub is well formed and its obfuscated fonts can be read, every
\* font stays readable however often the book is saved, its fonts get another
\* method and it is loaded again, in whatever order the jobs end.
THEOREM FontsStayReadable ==
    ASSUME \A e \in Epubs :
              /\ WellFormed(e)
              /\ Range(e.encryption) \subseteq Algorithms =>
                    \A path \in DOMAIN e.files : Cleared(e, path) = {}
    PROVE  Spec => []FontsAreReadable
<1>1. Init => FontsInv
  <2> SUFFICES ASSUME Init PROVE FontsInv
    OBVIOUS
  <2>1. WellFormed(epub) /\ (Range(epub.encryption) \subseteq Algorithms => FilesReadable(epub, misled))
    BY DEF Init, FilesReadable
  <2>2. DOMAIN <<>> = {}
    OBVIOUS
  <2>3. BookReadable(book, misled)
    BY <2>2 DEF Init, NoBook, BookReadable
  <2> QED
    BY <2>1, <2>3 DEF FontsInv
<1>2. FontsInv => FontsAreReadable
  <2> SUFFICES ASSUME FontsInv, NEW name \in DOMAIN book.resources
               PROVE  \/ book.resources[name].garbled = {}
                      \/ book.resources[name].what \in misled
                      \/ /\ ~ListedInBook(name)
                         /\ \E other \in DOMAIN book.resources \ {name} :
                               book.resources[other].what = book.resources[name].what
    BY DEF FontsAreReadable
  <2>1. name \in ListedNames(book) <=> ListedInBook(name)
    BY DEF ListedNames, ListedInBook
  <2>2. ListedNames(book) \subseteq DOMAIN book.resources
    BY DEF ListedNames
  <2> QED
    BY <2>1, <2>2 DEF FontsInv, BookReadable
<1> QED
  BY <1>1, <1>2, EpubsHaveTheirShape, FontsInvIsKept, PTL DEF Spec
=============================================================================
