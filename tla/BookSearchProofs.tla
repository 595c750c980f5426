-------------------------- MODULE BookSearchProofs --------------------------
(***************************************************************************)
(* Proofs about Find & Replace over all HTML files, for any chapters,      *)
(* places of the search term and spines: a search over the book skips no   *)
(* match, whatever the user does while its tabs are loaded.                *)
(***************************************************************************)
EXTENDS BookSearch, SequenceLemmas

(* Reading orders and distances in them *)

Size == Cardinality(Chapters)

Orders == {s \in [1..Size -> Chapters] : \A i, j \in DOMAIN s : s[i] = s[j] => i = j}

LEMMA SizeType == Size \in Nat /\ Size > 0
<1>1. Size \in Nat
  BY ResourcesAssumption, FS_CardinalityType DEF Size
<1>2. Size # 0
  BY ResourcesAssumption, FS_EmptySet DEF Size
<1> QED
  BY <1>1, <1>2

\* Every chapter has one position in the reading order.
LEMMA PositionOfChapter ==
    ASSUME chapters \in Orders, NEW c \in Chapters
    PROVE  /\ Index(c) \in 1..Size /\ chapters[Index(c)] = c
           /\ \A i \in 1..Size : chapters[i] = c => i = Index(c)
<1>1. Size \in Nat
  BY SizeType
<1>2. chapters \in [1..Size -> Chapters] /\ \A i, j \in 1..Size : chapters[i] = chapters[j] => i = j
  BY DEF Orders
<1> DEFINE R == {chapters[i] : i \in 1..Size}
<1>3. IsFiniteSet(R) /\ Cardinality(R) = Size
  <2>1. chapters \in [1..Size -> R] /\ \A x \in R : \E i \in 1..Size : chapters[i] = x
    BY <1>2
  <2> HIDE DEF R
  <2> QED
    BY <1>1, <1>2, <2>1, EnumerationCounts
<1>4. R \subseteq Chapters
  BY <1>2
<1> HIDE DEF R
<1>5. R = Chapters
  BY <1>3, <1>4, ResourcesAssumption, FS_Subset DEF Size
<1>6. \E i \in 1..Size : chapters[i] = c
  BY <1>5 DEF R
<1>7. DOMAIN chapters = 1..Size
  BY <1>2
<1> QED
  BY <1>2, <1>6, <1>7 DEF Index

LEMMA PositionsDiffer ==
    ASSUME chapters \in Orders, NEW c \in Chapters, NEW d \in Chapters, Index(c) = Index(d)
    PROVE  c = d
BY PositionOfChapter

LEMMA ChapterAtPosition ==
    ASSUME chapters \in Orders, NEW i \in 1..Size
    PROVE  chapters[i] \in Chapters /\ Index(chapters[i]) = i
<1>1. chapters[i] \in Chapters
  BY DEF Orders
<1> QED
  BY <1>1, PositionOfChapter

LEMMA Remainder ==
    ASSUME NEW n \in Nat, n > 0, NEW x \in Int, -n < x, x < n
    PROVE  x % n = IF x < 0 THEN x + n ELSE x
<1>1. CASE x < 0
  BY <1>1
<1>2. CASE x >= 0
  BY <1>2
<1> QED
  BY <1>1, <1>2

LEMMA DistanceIs ==
    ASSUME chapters \in Orders, NEW a \in Chapters, NEW c \in Chapters
    PROVE  /\ direction = "down" => Distance(a, c, direction) = Index(c) - Index(a)
           /\ direction = "up" => Distance(a, c, direction) = Index(a) - Index(c)
           /\ direction = "all" =>
                 Distance(a, c, direction) = IF Index(c) < Index(a) THEN Index(c) - Index(a) + Size
                                             ELSE Index(c) - Index(a)
<1>1. Index(a) \in 1..Size /\ Index(c) \in 1..Size /\ Size \in Nat /\ Size > 0
  BY PositionOfChapter, SizeType
<1>2. CASE direction = "all"
  <2>1. Distance(a, c, direction) = (Index(c) - Index(a)) % Size
    BY <1>2 DEF Distance, Size
  <2> DEFINE x == Index(c) - Index(a)
  <2>2. x \in Int /\ -Size < x /\ x < Size /\ (x < 0 <=> Index(c) < Index(a))
    BY <1>1
  <2>3. x % Size = IF x < 0 THEN x + Size ELSE x
    <3> HIDE DEF x
    <3> QED
      BY <1>1, <2>2, Remainder
  <2> QED
    BY <1>2, <2>1, <2>2, <2>3
<1>3. CASE direction # "all"
  BY <1>3 DEF Distance
<1> QED
  BY <1>2, <1>3

LEMMA DistancesDiffer ==
    ASSUME chapters \in Orders, direction \in Directions,
           NEW a \in Chapters, NEW c \in Chapters, NEW d \in Chapters
    PROVE  /\ Distance(a, c, direction) \in Int
           /\ Distance(a, a, direction) = 0
           /\ Distance(a, c, direction) = Distance(a, d, direction) => c = d
<1>1. /\ Index(a) \in 1..Size /\ Index(c) \in 1..Size /\ Index(d) \in 1..Size
      /\ Size \in Nat /\ Size > 0
  BY PositionOfChapter, SizeType
<1>2. /\ Distance(a, c, direction) \in Int
      /\ Distance(a, a, direction) = 0
      /\ Distance(a, c, direction) = Distance(a, d, direction) => Index(c) = Index(d)
  <2>1. CASE direction = "down"
    BY <1>1, <2>1, DistanceIs
  <2>2. CASE direction = "up"
    BY <1>1, <2>2, DistanceIs
  <2>3. CASE direction = "all"
    <3> DEFINE D(x) == IF Index(x) < Index(a) THEN Index(x) - Index(a) + Size ELSE Index(x) - Index(a)
    <3>1. \A x \in Chapters : Distance(a, x, direction) = D(x)
      BY <2>3, DistanceIs
    <3>2. D(c) \in Int /\ D(a) = 0 /\ (D(c) = D(d) => Index(c) = Index(d))
      BY <1>1
    <3> QED
      BY <3>1, <3>2
  <2> QED
    BY <2>1, <2>2, <2>3 DEF Directions
<1> QED
  BY <1>2, PositionsDiffer

LEMMA ReadingOrderIs ==
    ASSUME chapters \in Orders, Sound, NEW c \in Chapters
    PROVE  GetReadingOrder(c) = Index(c) - 1
<1>1. /\ Index(c) \in 1..Size /\ chapters[Index(c)] = c
      /\ \A i \in 1..Size : chapters[i] = c => i = Index(c)
  BY PositionOfChapter
<1>2. spine = chapters /\ DOMAIN spine = 1..Size
  BY DEF Sound, Orders
<1>3. {i \in DOMAIN spine : spine[i] = c} = {Index(c)}
  BY <1>1, <1>2
<1>4. Min({Index(c)}) = Index(c)
  <2>1. {Index(c)} \in SUBSET Nat /\ {Index(c)} # {}
    BY <1>1
  <2>2. Min({Index(c)}) \in {Index(c)}
    BY <2>1, MinIsLeast
  <2> QED
    BY <2>2
<1> QED
  BY <1>1, <1>2, <1>3, <1>4 DEF GetReadingOrder

\* The next chapter in the direction of the search.
LEMMA NextIs ==
    ASSUME chapters \in Orders, Sound, NEW c \in Chapters
    PROVE  /\ direction = "down" =>
                 GetNextHTMLResource(c) = IF Index(c) < Size THEN chapters[Index(c) + 1] ELSE NoTab
           /\ direction = "up" =>
                 GetNextHTMLResource(c) = IF Index(c) > 1 THEN chapters[Index(c) - 1] ELSE NoTab
           /\ direction = "all" =>
                 GetNextHTMLResource(c) = chapters[IF Index(c) < Size THEN Index(c) + 1 ELSE 1]
<1>1. Index(c) \in 1..Size /\ Size \in Nat /\ Size > 0
  BY PositionOfChapter, SizeType
<1>2. GetReadingOrder(c) = Index(c) - 1 /\ GetHighestReadingOrder = Size - 1
  BY ReadingOrderIs DEF GetHighestReadingOrder, Size
<1>3. CASE direction = "down"
  BY <1>1, <1>2, <1>3 DEF GetNextHTMLResource
<1>4. CASE direction = "up"
  BY <1>1, <1>2, <1>4 DEF GetNextHTMLResource
<1>5. CASE direction = "all"
  <2>1. CASE Index(c) < Size
    BY <1>1, <1>2, <1>5, <2>1 DEF GetNextHTMLResource
  <2>2. CASE Index(c) = Size
    BY <1>1, <1>2, <1>5, <2>2 DEF GetNextHTMLResource
  <2> QED
    BY <1>1, <1>5, <2>1, <2>2
<1> QED
  BY <1>3, <1>4, <1>5

\* A step of a scan that began in b, for a search that began in a, gets to the
\* nearest chapter after c, unless no chapter is further from a than c.
LEMMA StepOn ==
    ASSUME chapters \in Orders, Sound, direction \in Directions,
           NEW a \in Chapters, NEW b \in Chapters, NEW c \in Chapters,
           b = a \/ direction = "up", 0 <= Distance(a, b, direction),
           Distance(a, b, direction) <= Distance(a, c, direction),
           NEW next, next = GetNextHTMLResource(c)
    PROVE  \/ /\ next \in {NoTab, b}
              /\ \A d \in Chapters : Distance(a, d, direction) <= Distance(a, c, direction)
           \/ /\ next \in Chapters \ {NoTab, b}
              /\ Distance(a, next, direction) = Distance(a, c, direction) + 1
<1>1. Index(a) \in 1..Size /\ Index(c) \in 1..Size /\ Size \in Nat /\ Size > 0
  BY PositionOfChapter, SizeType
<1>2. \A d \in Chapters : Index(d) \in 1..Size
  BY PositionOfChapter
<1>3. NoTab \notin Chapters
  BY ResourcesAssumption
<1>4. CASE direction = "down"
  <2>0. b = a
    BY <1>4
  <2>1. \A d \in Chapters : Distance(a, d, direction) = Index(d) - Index(a)
    BY <1>4, DistanceIs
  <2>2. CASE Index(c) = Size
    <3>1. next = NoTab
      BY <1>1, <1>4, <2>2, NextIs
    <3> QED
      BY <1>1, <1>2, <2>1, <2>2, <3>1
  <2>3. CASE Index(c) < Size
    <3>1. next = chapters[Index(c) + 1] /\ Index(c) + 1 \in 1..Size
      BY <1>1, <1>4, <2>3, NextIs
    <3>2. next \in Chapters /\ Index(next) = Index(c) + 1
      BY <3>1, ChapterAtPosition
    <3> QED
      BY <1>1, <1>3, <2>0, <2>1, <3>2
  <2> QED
    BY <1>1, <2>2, <2>3
<1>5. CASE direction = "up"
  <2>1. \A d \in Chapters : Distance(a, d, direction) = Index(a) - Index(d)
    BY <1>5, DistanceIs
  <2>2. CASE Index(c) = 1
    <3>1. next = NoTab
      BY <1>1, <1>5, <2>2, NextIs
    <3> QED
      BY <1>1, <1>2, <2>1, <2>2, <3>1
  <2>3. CASE Index(c) > 1
    <3>1. next = chapters[Index(c) - 1] /\ Index(c) - 1 \in 1..Size
      BY <1>1, <1>5, <2>3, NextIs
    <3>2. next \in Chapters /\ Index(next) = Index(c) - 1
      BY <3>1, ChapterAtPosition
    <3>3. next # b
      <4>1. Index(b) >= Index(c) /\ Index(next) < Index(c)
        BY <1>1, <1>2, <2>1, <2>3, <3>2
      <4> QED
        BY <1>1, <1>2, <4>1
    <3> QED
      BY <1>1, <1>3, <2>1, <3>2, <3>3
  <2> QED
    BY <1>1, <2>2, <2>3
<1>6. CASE direction = "all"
  <2>0. b = a
    BY <1>6
  <2> DEFINE D(x) == IF Index(x) < Index(a) THEN Index(x) - Index(a) + Size ELSE Index(x) - Index(a)
             k == IF Index(c) < Size THEN Index(c) + 1 ELSE 1
  <2>1. \A d \in Chapters : Distance(a, d, direction) = D(d)
    BY <1>6, DistanceIs
  <2>2. next = chapters[k] /\ k \in 1..Size
    BY <1>1, <1>6, NextIs
  <2>3. next \in Chapters /\ Index(next) = k
    <3> HIDE DEF k
    <3> QED
      BY <2>2, ChapterAtPosition
  <2>4. CASE next = a
    <3>1. D(c) = Size - 1
      BY <1>1, <2>3, <2>4
    <3>2. \A d \in Chapters : D(d) <= Size - 1
      BY <1>1, <1>2
    <3> QED
      BY <2>0, <2>1, <2>4, <3>1, <3>2
  <2>5. CASE next # a
    <3>1. k # Index(a)
      BY <2>3, <2>5, PositionsDiffer
    <3>2. D(next) = D(c) + 1
      BY <1>1, <2>3, <3>1
    <3> QED
      BY <1>3, <2>0, <2>1, <2>3, <2>5, <3>2
  <2> QED
    BY <2>4, <2>5
<1> QED
  BY <1>4, <1>5, <1>6 DEF Directions

-----------------------------------------------------------------------------
(* Searching one text *)

\* Place q lies in the direction of the search from a position.
Beyond(q, from) == IF direction = "up" THEN 2 * q - 1 < from ELSE 2 * q - 1 >= from

InFront(q, p) == IF direction = "up" THEN q > p ELSE q < p

OneWay == IF direction = "all" THEN "down" ELSE direction

LEMMA PlacesType == Places \in Nat /\ Places > 0 /\ End \in Nat /\ End = 2 * Places + 1
BY BoundsAssumption DEF End

LEMMA SelectionsType ==
    /\ \A p \in 1..Places : Match(p) \in Selections
    /\ \A i \in 0..End : <<i, i>> \in Selections
    /\ \A s \in Selections : s[1] \in 0..End /\ s[2] \in 0..End
    /\ \A s \in Selections : <<s[2], s[2]>> \in Selections
<1>1. Places \in Nat /\ End = 2 * Places + 1
  BY PlacesType
<1>2. \A p \in 1..Places : 2 * p - 1 \in 0..End /\ 2 * p \in 0..End
  BY <1>1
<1>3. \A i \in 0..End : <<i, i>> \in Selections
  BY DEF Selections
<1>4. \A p \in 1..Places : Match(p) \in Selections
  BY DEF Selections
<1>5. ASSUME NEW s \in Selections PROVE s[1] \in 0..End /\ s[2] \in 0..End
  <2>1. CASE \E i \in 0..End : s = <<i, i>>
    BY <2>1
  <2>2. CASE \E p \in 1..Places : s = Match(p)
    BY <1>2, <2>2 DEF Match
  <2> QED
    BY <2>1, <2>2 DEF Selections
<1> QED
  BY <1>3, <1>4, <1>5

LEMMA OffsetType ==
    ASSUME NEW s \in Selections, NEW dir, NEW ignore
    PROVE  GetSelectionOffset(s, dir, ignore) \in 0..End
<1>1. s[1] \in 0..End /\ s[2] \in 0..End /\ End \in Nat /\ End > 2
  BY SelectionsType, PlacesType
<1>2. TextLength(current) - 1 \in 0..End
  BY <1>1 DEF TextLength
<1> QED
  BY <1>1, <1>2 DEF GetSelectionOffset

LEMMA RunFinds ==
    ASSUME NEW S \in SUBSET (1..Places), NEW from \in 0..End, NEW dir
    PROVE  RunSearchRegex(S, from, dir) \subseteq S
BY DEF RunSearchRegex

\* A search in one text finds the first match that lies in its direction, and
\* finds none only when there is none.
LEMMA RunFindsFirst ==
    ASSUME direction \in Directions, NEW S \in SUBSET (1..Places), NEW from \in 0..End,
           direction = "up" => from # 0
    PROVE  /\ RunSearchRegex(S, from, OneWay) = {} => \A q \in S : ~Beyond(q, from)
           /\ \A p \in RunSearchRegex(S, from, OneWay) :
                 \A q \in S : Beyond(q, from) => ~InFront(q, p)
<1>1. Places \in Nat /\ End \in Nat
  BY PlacesType
<1>2. CASE direction = "up"
  <2> DEFINE above == {p \in S : 2 * p - 1 < from}
  <2>1. RunSearchRegex(S, from, OneWay) = {p \in above : \A q \in above : q <= p}
    BY <1>2 DEF RunSearchRegex, OneWay
  <2>2. above # {} => \E p \in above : \A q \in above : q <= p
    <3>1. above \subseteq 0..Places
      <4>1. \A q \in S : q \in 0..Places
        BY <1>1
      <4> QED
        BY <4>1
    <3> HIDE DEF above
    <3>2. above \in SUBSET (0..Places)
      BY <3>1
    <3>3. ASSUME above # {} PROVE Max(above) \in above /\ \A q \in above : q <= Max(above)
      BY <1>1, <3>2, <3>3, MaxIsGreatest
    <3> QED
      BY <3>3
  <2>3. \A q \in S : Beyond(q, from) <=> q \in above
    BY <1>2 DEF Beyond
  <2>4. \A p, q \in S : InFront(q, p) <=> ~(q <= p)
    BY <1>2 DEF InFront
  <2>5. above \subseteq S
    OBVIOUS
  <2> HIDE DEF above
  <2> QED
    BY <2>1, <2>2, <2>3, <2>4, <2>5
<1>3. CASE direction # "up"
  <2> DEFINE below == {p \in S : 2 * p - 1 >= from}
  <2>1. RunSearchRegex(S, from, OneWay) = {p \in below : \A q \in below : p <= q}
    BY <1>3 DEF RunSearchRegex, OneWay, Directions
  <2>2. below # {} => \E p \in below : \A q \in below : p <= q
    <3>1. below \in SUBSET Nat
      <4>1. \A q \in S : q \in Nat
        OBVIOUS
      <4> QED
        BY <4>1
    <3> HIDE DEF below
    <3>2. ASSUME below # {} PROVE \E p \in below : \A q \in below : p <= q
      BY <3>1, <3>2, MinIsLeast
    <3> QED
      BY <3>2
  <2>3. \A q \in S : Beyond(q, from) <=> q \in below
    BY <1>3 DEF Beyond
  <2>4. \A p, q \in S : InFront(q, p) <=> ~(p <= q)
    BY <1>3 DEF InFront
  <2>5. below \subseteq S
    OBVIOUS
  <2> HIDE DEF below
  <2> QED
    BY <2>1, <2>2, <2>3, <2>4, <2>5
<1> QED
  BY <1>2, <1>3

\* A search of a whole text finds a match, but for one that is missed upwards.
LEMMA RunFromTheEdge ==
    ASSUME direction \in Directions, NEW tab, NEW S \in SUBSET (1..Places),
           NEW from, from = IF direction = "up" THEN TextLength(tab) - 1 ELSE 0
    PROVE  /\ RunSearchRegex(S, from, OneWay) = {} => \A q \in S : MissedUpwards(tab, q)
           /\ \A p \in RunSearchRegex(S, from, OneWay) :
                 \A q \in S : InFront(q, p) => MissedUpwards(tab, q)
<1>1. Places \in Nat /\ End \in Nat /\ End = 2 * Places + 1 /\ Places > 0
  BY PlacesType
<1>2. TextLength(tab) = IF tab \in AtTheEnd THEN 2 * Places ELSE 2 * Places + 1
  BY <1>1 DEF TextLength
<1>3. from \in 0..End /\ (direction = "up" => from # 0)
  BY <1>1, <1>2
<1>4. ASSUME NEW q \in S, ~MissedUpwards(tab, q) PROVE Beyond(q, from)
  <2>1. q \in 1..Places /\ (direction = "up" => tab \notin AtTheEnd \/ q # Places)
    BY <1>4 DEF MissedUpwards
  <2>2. CASE direction = "up" /\ tab \in AtTheEnd
    BY <1>1, <1>2, <2>1, <2>2 DEF Beyond
  <2>3. CASE direction = "up" /\ tab \notin AtTheEnd
    BY <1>1, <1>2, <2>1, <2>3 DEF Beyond
  <2>4. CASE direction # "up"
    BY <1>1, <2>1, <2>4 DEF Beyond
  <2> QED
    BY <2>2, <2>3, <2>4
<1> QED
  BY <1>3, <1>4, RunFindsFirst

-----------------------------------------------------------------------------
(* FindNext *)

TypesInv ==
    /\ chapters \in Orders
    /\ matches \in [Chapters -> SUBSET (1..Places)]
    /\ current \in Tabs /\ view \in {"book", "code", "raw"} /\ caret \in Selections
    /\ direction \in Directions /\ lookWhere \in {"current", "all"}
    /\ last \in Tabs \cup {NoTab} /\ scanning \in Chapters \cup {NoTab}
    /\ waiting \in Seq(BOOLEAN)
    /\ origin \in [tab : Tabs \cup {NoTab}, from : 0..End]
    /\ answer \in {"idle", "none", "found", "cannot", "refused"}

\* The places that a search over all files can find in the current tab.
PlacesAhead(found, selection) ==
    RunSearchRegex(PlacesIn(found, current), Here(selection).from, OneWay)

LEMMA PlacesInType ==
    ASSUME NEW found \in [Chapters -> SUBSET (1..Places)], NEW tab
    PROVE  PlacesIn(found, tab) \in SUBSET (1..Places)
BY DEF PlacesIn

LEMMA HereType ==
    ASSUME TypesInv, NEW s \in Selections
    PROVE  Here(s) \in [tab : Tabs \cup {NoTab}, from : 0..End] /\ Here(s).tab = current
<1>1. GetSelectionOffset(s, direction, lookWhere = "all" /\ last # current) \in 0..End
  BY OffsetType
<1> QED
  BY <1>1 DEF Here, TypesInv

LEMMA StartingResourceType == TypesInv => GetStartingResource \in Chapters
<1>1. TypesInv => chapters[1] \in Chapters
  BY SizeType, ChapterAtPosition DEF TypesInv
<1> QED
  BY <1>1 DEF GetStartingResource

\* What FindNext may do: a search over all files finds a place ahead in the
\* current tab, or begins to scan the chapters.
LEMMA FindNextOutcome ==
    ASSUME TypesInv, NEW found \in [Chapters -> SUBSET (1..Places)], NEW s \in Selections,
           FindNext(found, s)
    PROVE  /\ caret' \in Selections
           /\ \/ /\ lookWhere = "current" \/ view = "book"
                 /\ lookWhere' = "current" /\ answer' \in {"found", "cannot", "refused"}
                 /\ last' = last /\ scanning' = scanning
              \/ /\ lookWhere = "all" /\ lookWhere' = "all" /\ last' = current
                 /\ \/ /\ PlacesAhead(found, s) = {}
                       /\ answer' = "none" /\ scanning' = GetStartingResource
                    \/ /\ \E p \in PlacesAhead(found, s) : caret' = Match(p)
                       /\ answer' = "found" /\ scanning' = scanning
<1> DEFINE from(ignore) == GetSelectionOffset(s, OneWay, ignore)
           places == PlacesIn(found, current)
<1>1. places \in SUBSET (1..Places)
  BY PlacesInType
<1>2. \A p \in 1..Places : Match(p) \in Selections
  BY SelectionsType
<1>3. \A f \in 0..End, dir \in Directions : RunSearchRegex(places, f, dir) \subseteq 1..Places
  <2> HIDE DEF places
  <2> QED
    BY <1>1, RunFinds
<1>4. CASE lookWhere = "current" /\ FindInCurrentFile(found, s)
  <2>1. GetSelectionOffset(s, direction, FALSE) \in 0..End
    BY OffsetType
  <2>2. RunSearchRegex(places, GetSelectionOffset(s, direction, FALSE), direction) \subseteq 1..Places
    BY <1>3, <2>1 DEF TypesInv
  <2> QED
    BY <1>2, <1>4, <2>2 DEF FindInCurrentFile
<1>5. CASE lookWhere = "all" /\ view = "book" /\ SearchRefused(s)
  BY <1>5 DEF SearchRefused
<1>6. CASE lookWhere = "all" /\ view # "book" /\ FindInAllFiles(found, s)
  <2>1. \A ignore : GetSelectionOffset(s, OneWay, ignore) = GetSelectionOffset(s, direction, ignore)
    BY DEF GetSelectionOffset, OneWay
  <2>2. Here(s).from = GetSelectionOffset(s, OneWay, last # current)
    BY <1>6, <2>1 DEF Here
  <2>3. PlacesAhead(found, s) \subseteq 1..Places
    <3>1. Here(s).from \in 0..End /\ OneWay \in Directions
      BY HereType DEF TypesInv, OneWay, Directions
    <3> QED
      BY <1>3, <3>1 DEF PlacesAhead
  <2>4. /\ last' = current /\ lookWhere' = lookWhere
        /\ \/ PlacesAhead(found, s) = {} /\ scanning' = GetStartingResource
              /\ answer' = "none" /\ caret' = s
           \/ \E p \in PlacesAhead(found, s) :
                 caret' = Match(p) /\ answer' = "found" /\ scanning' = scanning
    BY <1>6, <2>2 DEF FindInAllFiles, PlacesAhead, OneWay
  <2> QED
    BY <1>2, <1>6, <2>3, <2>4
<1> QED
  BY <1>4, <1>5, <1>6 DEF FindNext

\* The same for the button Replace, which searches in what is left.
LEMMA ReplaceOutcome ==
    ASSUME TypesInv, ReplaceButton
    PROVE  \/ /\ SearchRefused(caret) /\ UNCHANGED <<matches, origin>>
           \/ \E s \in Selections :
                 /\ matches' \in [Chapters -> SUBSET (1..Places)]
                 /\ FindNext(matches', s) /\ origin' = Here(s)
<1>1. CASE SearchRefused(caret) /\ UNCHANGED <<matches, origin>>
  BY <1>1
<1>2. CASE ~(SearchRefused(caret) /\ UNCHANGED <<matches, origin>>)
  <2> DEFINE at == {p \in PlacesIn(matches, current) : caret = Match(p)}
             after == IF at = {} THEN caret ELSE <<caret[2], caret[2]>>
  <2>1. /\ matches' = [c \in Chapters |-> IF c = current THEN matches[c] \ at ELSE matches[c]]
        /\ FindNext(matches', after) /\ origin' = Here(after)
    BY <1>2 DEF ReplaceButton
  <2>2. matches' \in [Chapters -> SUBSET (1..Places)]
    <3>1. \A c \in Chapters : matches[c] \in SUBSET (1..Places) /\ matches[c] \ at \in SUBSET (1..Places)
      BY DEF TypesInv
    <3> HIDE DEF at
    <3> QED
      BY <2>1, <3>1
  <2>3. after \in Selections
    BY SelectionsType DEF TypesInv
  <2> HIDE DEF after
  <2> QED
    BY <2>1, <2>2, <2>3
<1> QED
  BY <1>1, <1>2

-----------------------------------------------------------------------------
(* Types *)

LEMMA InitTypes == Init => TypesInv
<1> SUFFICES ASSUME Init PROVE TypesInv
    OBVIOUS
<1>1. chapters \in Orders
  BY DEF Init, ReadingOrders, Orders, Size
<1>2. matches \in [Chapters -> SUBSET (1..Places)]
  BY OccurrencesAssumption DEF Init
<1>3. caret \in Selections /\ NoOrigin \in [tab : Tabs \cup {NoTab}, from : 0..End]
  <2>1. 0 \in 0..End
    BY PlacesType
  <2>2. <<0, 0>> \in Selections
    BY <2>1, SelectionsType
  <2> QED
    BY <2>1, <2>2 DEF Init, NoOrigin
<1>4. waiting \in Seq(BOOLEAN)
  BY DEF Init
<1> QED
  BY <1>1, <1>2, <1>3, <1>4 DEF Init, TypesInv, Directions

\* The variables that FindNext changes.
FoundTypes ==
    /\ caret' \in Selections /\ lookWhere' \in {"current", "all"}
    /\ last' \in Tabs \cup {NoTab} /\ scanning' \in Chapters \cup {NoTab}
    /\ answer' \in {"idle", "none", "found", "cannot", "refused"}

LEMMA FindNextTypes ==
    ASSUME TypesInv, NEW found \in [Chapters -> SUBSET (1..Places)], NEW s \in Selections,
           FindNext(found, s)
    PROVE  FoundTypes
BY FindNextOutcome, StartingResourceType DEF FoundTypes, TypesInv

LEMMA FindTypes == TypesInv /\ FindButton => TypesInv'
<1> SUFFICES ASSUME TypesInv, FindButton PROVE TypesInv'
    OBVIOUS
<1>1. /\ FindNext(matches, caret) /\ origin' = Here(caret)
      /\ UNCHANGED <<chapters, matches, current, view, direction, waiting>>
  BY DEF FindButton, book_vars
<1>2. FoundTypes /\ origin' \in [tab : Tabs \cup {NoTab}, from : 0..End]
  BY <1>1, FindNextTypes, HereType DEF TypesInv
<1> QED
  BY <1>1, <1>2 DEF TypesInv, FoundTypes

LEMMA ReplaceTypes == TypesInv /\ ReplaceButton => TypesInv'
<1> SUFFICES ASSUME TypesInv, ReplaceButton PROVE TypesInv'
    OBVIOUS
<1>1. UNCHANGED <<chapters, current, view, direction, waiting>>
  BY DEF ReplaceButton, book_vars
<1>2. CASE SearchRefused(caret) /\ UNCHANGED <<matches, origin>>
  BY <1>1, <1>2 DEF SearchRefused, TypesInv
<1>3. ASSUME NEW s \in Selections, matches' \in [Chapters -> SUBSET (1..Places)],
             FindNext(matches', s), origin' = Here(s)
      PROVE  TypesInv'
  <2>1. FoundTypes /\ origin' \in [tab : Tabs \cup {NoTab}, from : 0..End]
    BY <1>3, FindNextTypes, HereType
  <2> QED
    BY <1>1, <1>3, <2>1 DEF TypesInv, FoundTypes
<1> QED
  BY <1>2, <1>3, ReplaceOutcome

LEMMA ResumeTypes == TypesInv /\ Resume => TypesInv'
<1> SUFFICES ASSUME TypesInv, Resume PROVE TypesInv'
    OBVIOUS
<1>1. /\ FindNext(matches, caret) /\ origin' \in {origin, Here(caret)}
      /\ UNCHANGED <<chapters, matches, current, view, direction>>
      /\ waiting # <<>> /\ waiting' = Tail(waiting)
  BY DEF Resume, book_vars
<1>2. FoundTypes /\ origin' \in [tab : Tabs \cup {NoTab}, from : 0..End]
  BY <1>1, FindNextTypes, HereType DEF TypesInv
<1>3. waiting' \in Seq(BOOLEAN)
  BY <1>1 DEF TypesInv
<1> QED
  BY <1>1, <1>2, <1>3 DEF TypesInv, FoundTypes

\* What a step of a scan may do.
LEMMA ScanOutcome ==
    ASSUME TypesInv, Scan, NEW next, next = GetNextHTMLResource(scanning)
    PROVE  /\ scanning # NoTab
           /\ UNCHANGED <<spine, chapters, matches, direction, lookWhere, last, origin>>
           /\ \/ /\ next \in {NoTab, GetStartingResource}
                 /\ scanning' = NoTab /\ answer' = "cannot"
                 /\ UNCHANGED <<current, view, caret, waiting>>
              \/ /\ next \in Chapters \ {NoTab, GetStartingResource} /\ matches[next] = {}
                 /\ scanning' = next
                 /\ UNCHANGED <<current, view, caret, waiting, answer>>
              \/ /\ next \in Chapters \ {NoTab, GetStartingResource} /\ matches[next] # {}
                 /\ scanning' = NoTab /\ current' = next /\ view' = "code" /\ answer' = answer
                 /\ caret' \in Selections /\ waiting' \in Seq(BOOLEAN) \ {<<>>}
<1> USE DEF Scan, book_vars, tab_vars, dialog_vars
<1>1. next \in Chapters \cup {NoTab}
  <2> DEFINE order == GetReadingOrder(scanning)
             k == CASE direction = "down" -> order + 1
                    [] direction = "up" -> order - 1
                    [] OTHER -> IF order + 1 <= GetHighestReadingOrder THEN order + 1 ELSE 0
  <2>1. next = IF k \in 0..GetHighestReadingOrder THEN chapters[k + 1] ELSE NoTab
    BY DEF GetNextHTMLResource
  <2>2. GetHighestReadingOrder = Size - 1
    BY DEF GetHighestReadingOrder, Size
  <2> HIDE DEF k
  <2>3. k \in 0..(Size - 1) => k + 1 \in 1..Size
    BY SizeType
  <2> QED
    BY <2>1, <2>2, <2>3, ChapterAtPosition DEF TypesInv
<1>2. <<0, 0>> \in Selections
  BY PlacesType, SelectionsType
<1>3. ASSUME NEW loaded \in BOOLEAN, waiting' = <<loaded>> \o waiting
      PROVE  waiting' \in Seq(BOOLEAN) \ {<<>>}
  <2>1. waiting \in Seq(BOOLEAN)
    BY DEF TypesInv
  <2>2. waiting' \in Seq(BOOLEAN) /\ Len(waiting') = 1 + Len(waiting)
    BY <1>3, <2>1
  <2>3. Len(waiting') # 0
    BY <2>1, <2>2
  <2> QED
    BY <2>2, <2>3
<1>4. scanning # NoTab /\ UNCHANGED <<spine, chapters, matches, direction, lookWhere, last, origin>>
  OBVIOUS
<1>5. CASE next \in {NoTab, GetStartingResource}
  BY <1>4, <1>5
<1>6. CASE next \notin {NoTab, GetStartingResource} /\ matches[next] = {}
  BY <1>1, <1>4, <1>6
<1>7. CASE next \notin {NoTab, GetStartingResource} /\ matches[next] # {}
  BY <1>1, <1>2, <1>3, <1>4, <1>7
<1> QED
  BY <1>5, <1>6, <1>7

LEMMA ScanTypes == TypesInv /\ Scan => TypesInv'
BY ScanOutcome DEF TypesInv, Tabs

LEMMA UserTypes ==
    ASSUME TypesInv
    PROVE  /\ \A tab \in Tabs : SwitchTab(tab) => TypesInv'
           /\ MoveCaret => TypesInv'
           /\ \A dir \in Directions, where \in {"current", "all"} :
                 ChangeSettings(dir, where) => TypesInv'
           /\ OpenDialog => TypesInv'
<1> USE DEF book_vars, tab_vars, dialog_vars
<1>1. NoOrigin \in [tab : Tabs \cup {NoTab}, from : 0..End]
  BY PlacesType DEF NoOrigin
<1>2. ASSUME NEW tab \in Tabs, SwitchTab(tab) PROVE TypesInv'
  BY <1>1, <1>2 DEF SwitchTab, TypesInv
<1>3. CASE MoveCaret
  BY <1>1, <1>3 DEF MoveCaret, TypesInv
<1>4. ASSUME NEW dir \in Directions, NEW where \in {"current", "all"}, ChangeSettings(dir, where)
      PROVE  TypesInv'
  BY <1>1, <1>4 DEF ChangeSettings, TypesInv
<1>5. CASE OpenDialog
  BY <1>1, <1>5 DEF OpenDialog, TypesInv, Directions
<1> QED
  BY <1>2, <1>3, <1>4, <1>5

LEMMA TypesStep == TypesInv /\ [Next]_vars => TypesInv'
<1>1. TypesInv /\ UNCHANGED vars => TypesInv'
  BY DEF vars, book_vars, tab_vars, dialog_vars, TypesInv
<1> QED
  BY <1>1, FindTypes, ReplaceTypes, ResumeTypes, ScanTypes, UserTypes DEF Next

-----------------------------------------------------------------------------
(* The chapter that a scan opens *)

\* While a search goes on, either a scan is at work, or it has opened another
\* chapter, which has a match and waits to be searched.
SearchGoesOn ==
    /\ scanning # NoTab => answer = "none"
    /\ answer = "none" =>
        /\ lookWhere = "all"
        /\ scanning # NoTab => last = current
        /\ scanning = NoTab =>
              /\ waiting # <<>> /\ current \in Chapters /\ view = "code"
              /\ matches[current] # {} /\ last # current

\* What the actions of the user do to a search: it is over, or begins anew.
LEMMA UserEnds ==
    ASSUME TypesInv
    PROVE  /\ \A tab \in Tabs : SwitchTab(tab) => scanning' = NoTab /\ answer' = "idle"
           /\ MoveCaret => scanning' = NoTab /\ answer' = "idle"
           /\ \A dir \in Directions, where \in {"current", "all"} :
                 ChangeSettings(dir, where) => scanning' = NoTab /\ answer' = "idle"
           /\ OpenDialog => scanning' = NoTab /\ answer' = "idle"
BY DEF SwitchTab, MoveCaret, ChangeSettings, OpenDialog, UserActs

LEMMA NoTabIsNoChapter == NoTab \notin Chapters
BY ResourcesAssumption

LEMMA FindNextGoesOn ==
    ASSUME TypesInv, NEW found \in [Chapters -> SUBSET (1..Places)], NEW s \in Selections,
           FindNext(found, s), scanning = NoTab, current' = current
    PROVE  SearchGoesOn'
<1>1. GetStartingResource # NoTab
  BY StartingResourceType, NoTabIsNoChapter
<1> QED
  BY <1>1, FindNextOutcome DEF SearchGoesOn

LEMMA GoesOnStep == TypesInv /\ SearchGoesOn /\ [Next]_vars => SearchGoesOn'
<1> SUFFICES ASSUME TypesInv, SearchGoesOn, [Next]_vars PROVE SearchGoesOn'
    OBVIOUS
<1>1. CASE FindButton
  BY <1>1, FindNextGoesOn DEF FindButton, UserActs, TypesInv
<1>2. CASE ReplaceButton
  <2>1. scanning = NoTab /\ current' = current
    BY <1>2 DEF ReplaceButton, UserActs
  <2>2. CASE SearchRefused(caret)
    BY <2>1, <2>2 DEF SearchRefused, SearchGoesOn
  <2> QED
    BY <1>2, <2>1, <2>2, ReplaceOutcome, FindNextGoesOn
<1>3. CASE Resume
  BY <1>3, FindNextGoesOn DEF Resume, TypesInv
<1>4. CASE Scan
  <2> DEFINE next == GetNextHTMLResource(scanning)
  <2>1. answer = "none" /\ lookWhere = "all" /\ last = current
    BY <1>4 DEF Scan, SearchGoesOn
  <2>2. current \in Chapters => GetStartingResource = current
    BY DEF GetStartingResource
  <2> HIDE DEF next
  <2>3. next \in Chapters \ {GetStartingResource} => next # current
    BY <2>2
  <2> QED
    BY <1>4, <2>1, <2>3, ScanOutcome, NoTabIsNoChapter DEF SearchGoesOn, next
<1>5. CASE UNCHANGED vars
  BY <1>5 DEF vars, book_vars, tab_vars, dialog_vars, SearchGoesOn
<1>6. scanning' = NoTab /\ answer' = "idle" => SearchGoesOn'
  BY DEF SearchGoesOn
<1> QED
  BY <1>1, <1>2, <1>3, <1>4, <1>5, <1>6, UserEnds DEF Next

\* A search goes on in the opened chapter from its beginning or end: it finds the
\* first match, or has missed all of them and scans on from there.
LEMMA ResumedOutcome ==
    ASSUME TypesInv, SearchGoesOn, Resume, answer = "none"
    PROVE  /\ current' = current /\ current \in Chapters
           /\ lookWhere' = "all" /\ origin' = origin
           /\ UNCHANGED <<spine, chapters, matches, direction>> /\ scanning = NoTab
           /\ \/ /\ answer' = "found"
                 /\ \E p \in 1..Places : /\ caret' = Match(p)
                                         /\ \A q \in matches[current] :
                                               InFront(q, p) => MissedUpwards(current, q)
              \/ /\ answer' = "none" /\ scanning' = current
                 /\ \A q \in matches[current] : MissedUpwards(current, q)
<1>1. /\ FindNext(matches, caret) /\ scanning = NoTab
      /\ current' = current /\ origin' = origin
      /\ UNCHANGED <<spine, chapters, matches, direction>>
  BY DEF Resume, book_vars
<1>2. lookWhere = "all" /\ view # "book" /\ last # current /\ current \in Chapters
  BY <1>1 DEF SearchGoesOn
<1>3. Here(caret).from = IF direction = "up" THEN TextLength(current) - 1 ELSE 0
  BY <1>2 DEF Here, GetSelectionOffset
<1>4. matches[current] \in SUBSET (1..Places) /\ PlacesIn(matches, current) = matches[current]
  BY <1>2 DEF TypesInv, PlacesIn
<1>5. /\ PlacesAhead(matches, caret) = {} => \A q \in matches[current] : MissedUpwards(current, q)
      /\ PlacesAhead(matches, caret) \subseteq matches[current]
      /\ \A p \in PlacesAhead(matches, caret) :
            \A q \in matches[current] : InFront(q, p) => MissedUpwards(current, q)
  <2> DEFINE from == Here(caret).from
  <2>1. direction \in Directions /\ from \in 0..End
    BY HereType DEF TypesInv
  <2> HIDE DEF from
  <2> QED
    BY <1>3, <1>4, <2>1, RunFromTheEdge, RunFinds DEF PlacesAhead, from
<1>6. GetStartingResource = current
  BY <1>2 DEF GetStartingResource
<1> QED
  BY <1>1, <1>2, <1>4, <1>5, <1>6, FindNextOutcome DEF TypesInv

-----------------------------------------------------------------------------
(* No match is skipped *)

\* How far chapter d is from the start of the search.
From(d) == Distance(origin.tab, d, direction)

\* The chapters up to this distance have no match but what is missed upwards.
NoneUpTo(n) ==
    \A d \in Chapters : 0 < From(d) /\ From(d) <= n => \A q \in matches[d] : MissedUpwards(d, q)

\* The strengthening: while a search goes on, what it has passed by has no match
\* that it does not miss.  A scan starts again from a chapter it has opened only
\* when the search went up and missed what is there.
SearchedSoFar ==
    answer = "none" /\ SearchesBook =>
        /\ \A q \in matches[origin.tab] : ~Beyond(q, origin.from)
        /\ scanning # NoTab =>
              /\ current \in Chapters /\ (current = origin.tab \/ direction = "up")
              /\ 0 <= From(current) /\ From(current) <= From(scanning)
              /\ NoneUpTo(From(scanning))
        /\ scanning = NoTab =>
              current \in Chapters /\ From(current) > 0 /\ NoneUpTo(From(current) - 1)

\* What has been selected is the first match.
FoundIsFirst ==
    SearchesBook => \A p \in 1..Places : caret = Match(p) => NoMatchPassedBy(current, p)

NothingIsLeft == SearchesBook => NoMatchPassedBy(NoTab, 0)

LEMMA SameMatch == \A p, q \in 1..Places : Match(p) = Match(q) => p = q
BY DEF Match

LEMMA DistancesStay ==
    ASSUME UNCHANGED <<chapters, direction>>, NEW a, origin'.tab = a
    PROVE  \A d : From(d)' = Distance(a, d, direction)
BY DEF From, Distance, Index

\* A search begins with the first match ahead, or with none in the first text.
LEMMA SearchBegins ==
    ASSUME TypesInv, NEW s \in Selections, matches' \in [Chapters -> SUBSET (1..Places)],
           FindNext(matches', s), origin' = Here(s), scanning = NoTab,
           UNCHANGED <<spine, chapters, current, direction>>
    PROVE  /\ SearchedSoFar'
           /\ answer' = "found" => FoundIsFirst'
           /\ answer' # "cannot" \/ ~SearchesBook'
<1> DEFINE from == Here(s).from
           S == matches'[current]
<1>1. /\ origin'.tab = current /\ origin'.from = from /\ from \in 0..End
      /\ direction \in Directions /\ chapters \in Orders
  BY HereType DEF TypesInv
<1>2. CASE ~SearchesBook'
  BY <1>2 DEF SearchedSoFar, FoundIsFirst
<1>3. CASE SearchesBook'
  <2>1. lookWhere' = "all" /\ current \in Chapters /\ (direction = "up" => from # 0)
    BY <1>1, <1>3 DEF SearchesBook
  <2>2. S \in SUBSET (1..Places) /\ PlacesIn(matches', current) = S
    BY <2>1 DEF PlacesIn
  <2>3. /\ PlacesAhead(matches', s) = {} => \A q \in S : ~Beyond(q, from)
        /\ \A p \in PlacesAhead(matches', s) : \A q \in S : Beyond(q, from) => ~InFront(q, p)
        /\ PlacesAhead(matches', s) \subseteq S
    <3> HIDE DEF from, S
    <3>1. PlacesAhead(matches', s) = RunSearchRegex(S, from, OneWay)
      BY <2>2 DEF PlacesAhead, from
    <3> QED
      BY <1>1, <2>1, <2>2, <3>1, RunFindsFirst, RunFinds
  <2>4. /\ \A d \in Chapters : From(d)' = Distance(current, d, direction)
        /\ Distance(current, current, direction) = 0
    BY <1>1, <2>1, DistancesStay, DistancesDiffer
  <2>5. GetStartingResource = current /\ current # NoTab
    BY <2>1, NoTabIsNoChapter DEF GetStartingResource
  <2> HIDE DEF from, S
  <2>6. /\ \A q : Beyond(q, origin.from)' <=> Beyond(q, from)
        /\ \A p, q : InFront(q, p)' <=> InFront(q, p)
    BY <1>1 DEF Beyond, InFront
  <2>7. CASE PlacesAhead(matches', s) = {} /\ answer' = "none" /\ scanning' = GetStartingResource
    <3>1. \A q \in matches'[origin'.tab] : ~Beyond(q, origin.from)'
      BY <1>1, <2>3, <2>6, <2>7 DEF S
    <3>2. From(scanning)' = 0 /\ From(current)' = 0 /\ current' = origin'.tab /\ current' \in Chapters
      BY <1>1, <2>1, <2>4, <2>5, <2>7 DEF From
    <3>3. NoneUpTo(From(scanning))'
      <4>1. ASSUME NEW d \in Chapters, From(d)' > 0, From(d)' <= From(scanning)' PROVE FALSE
        <5>1. From(d)' \in Int
          BY <1>1, <2>1, <2>4, DistancesDiffer
        <5> QED
          BY <3>2, <4>1, <5>1
      <4> QED
        BY <4>1 DEF NoneUpTo
    <3>4. SearchedSoFar'
      BY <2>5, <2>7, <3>1, <3>2, <3>3 DEF SearchedSoFar
    <3> QED
      BY <2>7, <3>4
  <2>8. ASSUME answer' = "found", NEW p0 \in PlacesAhead(matches', s), caret' = Match(p0)
        PROVE  FoundIsFirst'
    <3>1. SUFFICES ASSUME NEW p \in 1..Places, caret' = Match(p),
                          NEW d \in Chapters, NEW q \in matches'[d], PassedBy(current, p, d, q)'
                   PROVE  FALSE
      BY DEF FoundIsFirst, NoMatchPassedBy
    <3>2. p = p0
      BY <2>2, <2>3, <2>8, <3>1, SameMatch
    <3>3. CASE d = current
      <4>1. Beyond(q, origin.from)' /\ InFront(q, p)'
        BY <1>1, <3>1, <3>3 DEF PassedBy, Beyond, InFront
      <4> QED
        BY <2>3, <2>6, <3>2, <3>3, <4>1 DEF S
    <3>4. CASE d # current
      <4>1. From(d)' > 0 /\ From(d)' < From(current)'
        BY <1>1, <2>1, <2>5, <3>1, <3>4 DEF PassedBy, From
      <4>2. From(d)' \in Int /\ From(current)' = 0
        BY <1>1, <2>1, <2>4, DistancesDiffer DEF From
      <4> QED
        BY <4>1, <4>2
    <3> QED
      BY <3>3, <3>4
  <2>9. answer' = "found" => SearchedSoFar'
    BY DEF SearchedSoFar
  <2> QED
    BY <2>1, <2>7, <2>8, <2>9, FindNextOutcome DEF TypesInv
<1> QED
  BY <1>2, <1>3, FindNextOutcome DEF TypesInv, SearchesBook

\* The search that goes on in an opened chapter selects the first match from its start.
LEMMA ResumedIsFirst ==
    ASSUME TypesInv, SearchGoesOn, SearchedSoFar, Resume, answer = "none", answer' = "found"
    PROVE  FoundIsFirst'
<1>1. current' = current /\ current \in Chapters /\ lookWhere' = "all" /\ origin' = origin
  BY ResumedOutcome
<1>2. PICK p0 \in 1..Places :
         caret' = Match(p0) /\ \A q \in matches[current] : InFront(q, p0) => MissedUpwards(current, q)
  BY ResumedOutcome
<1>3. scanning = NoTab /\ UNCHANGED <<spine, chapters, matches, direction>>
  BY ResumedOutcome
<1>4. SUFFICES ASSUME SearchesBook', NEW p \in 1..Places, caret' = Match(p),
                      NEW d \in Chapters, NEW q \in matches[d], PassedBy(current, p, d, q)'
               PROVE  FALSE
  BY <1>3 DEF FoundIsFirst, NoMatchPassedBy
<1>5. SearchesBook /\ origin.tab \in Chapters
  <2>1. lookWhere = "all"
    BY DEF SearchGoesOn
  <2> QED
    BY <1>1, <1>3, <1>4, <2>1 DEF SearchesBook, Sound
<1>6. /\ \A r \in matches[origin.tab] : ~Beyond(r, origin.from)
      /\ From(current) > 0 /\ NoneUpTo(From(current) - 1)
  BY <1>3, <1>5 DEF SearchedSoFar
<1>7. \A e : From(e)' = From(e)
  BY <1>1, <1>3, DistancesStay DEF From
<1>8. p = p0
  BY <1>2, <1>4, SameMatch
<1>9. /\ \A r : Beyond(r, origin.from)' <=> Beyond(r, origin.from)
      /\ InFront(q, p)' <=> InFront(q, p)
  BY <1>1, <1>3 DEF Beyond, InFront
<1>10. From(d) \in Int /\ From(current) \in Int
  BY <1>1, <1>5, DistancesDiffer DEF From, TypesInv
<1>11. CASE d = origin.tab /\ Beyond(q, origin.from)'
  BY <1>4, <1>6, <1>9, <1>11
<1>12. CASE From(d)' > 0 /\ From(d)' < From(current)' /\ ~MissedUpwards(d, q)
  <2>1. From(d) > 0 /\ From(d) <= From(current) - 1
    BY <1>1, <1>7, <1>10, <1>12 DEF From
  <2> QED
    BY <1>4, <1>6, <1>12, <2>1 DEF NoneUpTo
<1>13. CASE d = current /\ InFront(q, p)' /\ ~MissedUpwards(d, q)
  BY <1>2, <1>4, <1>8, <1>9, <1>13
<1>14. \/ d = origin'.tab /\ Beyond(q, origin.from)'
       \/ /\ From(d)' > 0 /\ ~MissedUpwards(d, q)
          /\ From(d)' < From(current)' \/ (d = current' /\ InFront(q, p)')
  <2>1. current' # NoTab
    BY <1>1, NoTabIsNoChapter
  <2> QED
    BY <1>3, <1>4, <2>1 DEF PassedBy, Beyond, InFront, From, MissedUpwards
<1> QED
  BY <1>1, <1>11, <1>12, <1>13, <1>14

\* The search that has missed what is in an opened chapter has found nothing so far.
LEMMA ResumedGoesOn ==
    ASSUME TypesInv, SearchGoesOn, SearchedSoFar, Resume, answer = "none", answer' = "none"
    PROVE  SearchedSoFar'
<1>1. /\ current' = current /\ current \in Chapters /\ origin' = origin
      /\ UNCHANGED <<spine, chapters, matches, direction>> /\ scanning = NoTab
      /\ scanning' = current /\ \A q \in matches[current] : MissedUpwards(current, q)
      /\ lookWhere' = "all"
  BY ResumedOutcome
<1>2. SUFFICES ASSUME SearchesBook' PROVE SearchedSoFar'
  BY DEF SearchedSoFar
<1>3. SearchesBook
  <2>1. lookWhere = "all"
    BY DEF SearchGoesOn
  <2> QED
    BY <1>1, <1>2, <2>1 DEF SearchesBook, Sound
<1>4. /\ \A q \in matches[origin.tab] : ~Beyond(q, origin.from)
      /\ From(current) > 0 /\ NoneUpTo(From(current) - 1)
  BY <1>1, <1>3 DEF SearchedSoFar
<1>5. \A e : From(e)' = From(e)
  BY <1>1, DistancesStay DEF From
<1>6. /\ \A e \in Chapters : From(e) \in Int
      /\ \A e, f \in Chapters : From(e) = From(f) => e = f
  BY <1>3, DistancesDiffer DEF From, TypesInv, SearchesBook
<1>7. ASSUME NEW d \in Chapters, 0 < From(d), From(d) <= From(current), NEW q \in matches[d]
      PROVE  MissedUpwards(d, q)
  <2>1. CASE From(d) = From(current)
    BY <1>1, <1>6, <1>7, <2>1
  <2>2. CASE From(d) # From(current)
    <3>1. From(d) <= From(current) - 1
      BY <1>1, <1>6, <1>7, <2>2
    <3> QED
      BY <1>4, <1>7, <3>1 DEF NoneUpTo
  <2> QED
    BY <2>1, <2>2
<1>8. From(scanning)' = From(current) /\ From(current)' = From(current)
  BY <1>1, <1>5 DEF From, Distance, Index
<1>9. NoneUpTo(From(scanning))'
  BY <1>1, <1>5, <1>7, <1>8 DEF NoneUpTo, MissedUpwards
<1>10. current' = origin'.tab \/ direction' = "up"
  <2>1. CASE matches[current] = {}
    BY <1>1, <2>1 DEF SearchGoesOn
  <2>2. CASE matches[current] # {}
    BY <1>1, <2>2 DEF MissedUpwards
  <2> QED
    BY <2>1, <2>2
<1>11. \A q \in matches'[origin'.tab] : ~Beyond(q, origin.from)'
  BY <1>1, <1>4 DEF Beyond
<1>12. 0 <= From(current)' /\ From(current)' <= From(scanning)'
  BY <1>1, <1>4, <1>6, <1>8
<1> QED
  BY <1>1, <1>9, <1>10, <1>11, <1>12, NoTabIsNoChapter DEF SearchedSoFar

\* A scan passes by no chapter with a match, and when it ends without one there
\* is none on the way from where the search started.
LEMMA ScanPassesNone ==
    ASSUME TypesInv, SearchGoesOn, SearchedSoFar, Scan
    PROVE  /\ SearchedSoFar' /\ answer' # "found"
           /\ answer' = "cannot" => NothingIsLeft'
<1> DEFINE next == GetNextHTMLResource(scanning)
           a == origin.tab
           b == current
<1>1. /\ scanning # NoTab /\ scanning \in Chapters /\ answer = "none" /\ last = current
      /\ UNCHANGED <<spine, chapters, matches, direction, lookWhere, origin>>
  BY ScanOutcome DEF SearchGoesOn, TypesInv
<1>2. SearchesBook' <=> SearchesBook
  BY <1>1 DEF SearchesBook, Sound
<1>3. CASE ~SearchesBook
  BY <1>1, <1>2, <1>3, ScanOutcome DEF SearchedSoFar, NothingIsLeft
<1>4. CASE SearchesBook
  <2>1. /\ \A q \in matches[a] : ~Beyond(q, origin.from)
        /\ a \in Chapters /\ b \in Chapters /\ (b = a \/ direction = "up")
        /\ 0 <= From(b) /\ From(b) <= From(scanning) /\ NoneUpTo(From(scanning))
    BY <1>1, <1>4 DEF SearchedSoFar, SearchesBook
  <2>2. /\ chapters \in Orders /\ Sound /\ direction \in Directions
        /\ GetStartingResource = b
    BY <1>4, <2>1 DEF TypesInv, SearchesBook, GetStartingResource
  <2>3. /\ \A e \in Chapters : From(e) \in Int
        /\ \A e, f \in Chapters : From(e) = From(f) => e = f
    BY <2>1, <2>2, DistancesDiffer DEF From
  <2>4. \A e : From(e)' = From(e)
    BY <1>1, DistancesStay DEF From
  <2>5. \A q : Beyond(q, origin.from)' <=> Beyond(q, origin.from)
    BY <1>1 DEF Beyond
  <2>6. \A n : NoneUpTo(n)' <=> \A d \in Chapters : 0 < From(d) /\ From(d) <= n' =>
                                         \A q \in matches[d] : MissedUpwards(d, q)
    BY <1>1, <2>4 DEF NoneUpTo, MissedUpwards
  <2> HIDE DEF a, b, next
  <2>7. CASE next \in {NoTab, b} /\ scanning' = NoTab /\ answer' = "cannot"
    <3>1. \A d \in Chapters : From(d) <= From(scanning)
      BY <1>1, <2>1, <2>2, <2>7, StepOn DEF From, a, next
    <3>2. ASSUME NEW d \in Chapters, NEW q \in matches[d], PassedBy(NoTab, 0, d, q)' PROVE FALSE
      <4>1. (d = a /\ Beyond(q, origin.from)) \/ (From(d) > 0 /\ ~MissedUpwards(d, q))
        BY <1>1, <2>4, <2>5, <3>2 DEF PassedBy, Beyond, From, MissedUpwards, a
      <4> QED
        BY <2>1, <3>1, <3>2, <4>1 DEF NoneUpTo
    <3>3. NothingIsLeft'
      BY <1>1, <3>2 DEF NothingIsLeft, NoMatchPassedBy
    <3> QED
      BY <2>7, <3>3 DEF SearchedSoFar
  <2>8. ASSUME next \in Chapters \ {NoTab, b} PROVE From(next) = From(scanning) + 1
    BY <1>1, <2>1, <2>2, <2>8, StepOn DEF From, a, next
  <2>9. CASE /\ next \in Chapters \ {NoTab, b} /\ matches[next] = {}
             /\ scanning' = next /\ current' = current
    <3>1. From(scanning)' = From(next)
      BY <1>1, <2>9 DEF From, Distance, Index
    <3>2. ASSUME NEW d \in Chapters, 0 < From(d), From(d) <= From(next), NEW q \in matches[d]
          PROVE  MissedUpwards(d, q)
      <4>1. CASE From(d) = From(next)
        BY <2>3, <2>9, <4>1
      <4>2. CASE From(d) # From(next)
        <5>1. From(d) <= From(scanning)
          BY <1>1, <2>3, <2>8, <2>9, <3>2, <4>2
        <5> QED
          BY <2>1, <3>2, <5>1 DEF NoneUpTo
      <4> QED
        BY <4>1, <4>2
    <3>3. NoneUpTo(From(scanning))'
      BY <2>6, <3>1, <3>2
    <3>4. /\ 0 <= From(current)' /\ From(current)' <= From(scanning)'
          /\ current' = b /\ direction' = direction
      <4>1. From(current)' = From(b) /\ current' = b
        BY <1>1, <2>9 DEF From, Distance, Index, b
      <4> QED
        BY <1>1, <2>1, <2>3, <2>8, <2>9, <3>1, <4>1
    <3>5. SearchedSoFar'
      BY <1>1, <2>1, <2>5, <2>9, <3>3, <3>4 DEF SearchedSoFar, a
    <3> QED
      BY <1>1, <2>2, <2>9, <3>5, ScanOutcome DEF next, b
  <2>10. CASE /\ next \in Chapters \ {NoTab, b} /\ scanning' = NoTab
              /\ current' = next /\ answer' = answer
    <3>1. From(current)' = From(next)
      BY <1>1, <2>10 DEF From, Distance, Index
    <3>2. From(next) > 0 /\ From(next) - 1 = From(scanning)
      BY <1>1, <2>1, <2>3, <2>8, <2>10
    <3>3. NoneUpTo(From(current) - 1)'
      BY <2>1, <2>6, <3>1, <3>2 DEF NoneUpTo
    <3>4. SearchedSoFar'
      BY <1>1, <2>1, <2>5, <2>10, <3>1, <3>2, <3>3 DEF SearchedSoFar, a
    <3> QED
      BY <1>1, <2>10, <3>4
  <2> QED
    BY <2>2, <2>7, <2>9, <2>10, ScanOutcome DEF next
<1> QED
  BY <1>3, <1>4

-----------------------------------------------------------------------------
(* Theorems *)

IInv == TypesInv /\ SearchGoesOn /\ SearchedSoFar

\* What every step does that is not a stutter.
LEMMA SearchStep ==
    ASSUME IInv, Next
    PROVE  /\ SearchedSoFar'
           /\ answer' = "found" => FoundIsFirst'
           /\ answer' = "cannot" => NothingIsLeft'
<1>1. CASE scanning' = NoTab /\ answer' = "idle"
  BY <1>1 DEF SearchedSoFar
<1>2. ~SearchesBook' => SearchedSoFar' /\ FoundIsFirst' /\ NothingIsLeft'
  BY DEF SearchedSoFar, FoundIsFirst, NothingIsLeft
<1>3. CASE FindButton
  <2>1. /\ FindNext(matches', caret) /\ origin' = Here(caret) /\ scanning = NoTab
        /\ UNCHANGED <<spine, chapters, current, direction>>
        /\ matches' \in [Chapters -> SUBSET (1..Places)] /\ caret \in Selections
    BY <1>3 DEF FindButton, UserActs, book_vars, IInv, TypesInv
  <2> QED
    BY <1>2, <2>1, SearchBegins DEF IInv
<1>4. CASE ReplaceButton
  <2>1. scanning = NoTab /\ UNCHANGED <<spine, chapters, current, direction>>
    BY <1>4 DEF ReplaceButton, UserActs, book_vars
  <2>2. CASE SearchRefused(caret)
    BY <1>2, <2>2 DEF SearchRefused, SearchesBook
  <2> QED
    BY <1>2, <1>4, <2>1, <2>2, ReplaceOutcome, SearchBegins DEF IInv
<1>5. CASE Resume /\ answer = "none"
  <2>1. answer' \in {"found", "none"}
    BY <1>5, ResumedOutcome DEF IInv
  <2>2. CASE answer' = "found"
    BY <1>5, <2>2, ResumedIsFirst DEF IInv, SearchedSoFar
  <2>3. CASE answer' = "none"
    BY <1>5, <2>3, ResumedGoesOn DEF IInv
  <2> QED
    BY <2>1, <2>2, <2>3
<1>6. CASE Resume /\ answer # "none"
  <2>1. /\ FindNext(matches', caret) /\ origin' = Here(caret) /\ scanning = NoTab
        /\ UNCHANGED <<spine, chapters, current, direction>>
        /\ matches' \in [Chapters -> SUBSET (1..Places)] /\ caret \in Selections
    BY <1>6 DEF Resume, book_vars, IInv, TypesInv
  <2> QED
    BY <1>2, <2>1, SearchBegins DEF IInv
<1>7. CASE Scan
  BY <1>7, ScanPassesNone DEF IInv
<1> QED
  BY <1>1, <1>3, <1>4, <1>5, <1>6, <1>7, UserEnds DEF Next, IInv

LEMMA InitInv == Init => IInv
<1>1. Init => answer = "idle" /\ scanning = NoTab
  BY DEF Init
<1> QED
  BY <1>1, InitTypes DEF IInv, SearchGoesOn, SearchedSoFar

LEMMA InvStep == IInv /\ [Next]_vars => IInv'
<1> SUFFICES ASSUME IInv, [Next]_vars PROVE IInv'
    OBVIOUS
<1>1. TypesInv' /\ SearchGoesOn'
  BY TypesStep, GoesOnStep DEF IInv
<1>2. CASE UNCHANGED vars
  <2>1. \A e : From(e)' = From(e)
    BY <1>2 DEF vars, book_vars, tab_vars, dialog_vars, From, Distance, Index
  <2>2. \A q : Beyond(q, origin.from)' <=> Beyond(q, origin.from)
    BY <1>2 DEF vars, book_vars, tab_vars, dialog_vars, Beyond
  <2>3. From(scanning)' = From(scanning) /\ From(current)' = From(current)
    BY <1>2, <2>1 DEF vars, book_vars, tab_vars, dialog_vars, From, Distance, Index
  <2>4. SearchesBook' <=> SearchesBook
    BY <1>2 DEF vars, book_vars, tab_vars, dialog_vars, SearchesBook, Sound
  <2>5. /\ NoneUpTo(From(scanning))' <=> NoneUpTo(From(scanning))
        /\ NoneUpTo(From(current) - 1)' <=> NoneUpTo(From(current) - 1)
    BY <1>2, <2>1, <2>3 DEF vars, book_vars, tab_vars, dialog_vars, NoneUpTo, MissedUpwards
  <2>6. SearchedSoFar'
    BY <1>2, <2>2, <2>3, <2>4, <2>5
       DEF vars, book_vars, tab_vars, dialog_vars, SearchedSoFar, IInv
  <2> QED
    BY <1>1, <2>6 DEF IInv
<1>3. CASE Next
  BY <1>1, <1>3, SearchStep DEF IInv
<1> QED
  BY <1>2, <1>3

\* No match is skipped: for any chapters, any places of the term, and whatever
\* the user does while a tab is loaded, a search over all files selects the first
\* match from where it started, and says that there is none only when there is
\* none; but a search upwards of a whole text misses one character at its end.
THEOREM NoneIsSkipped == Spec => NoMatchIsSkipped
<1> DEFINE A == /\ answer' = "found" => (SearchesBook =>
                     \A p \in 1..Places : caret = Match(p) => NoMatchPassedBy(current, p))'
                /\ answer' = "cannot" /\ answer # "cannot" =>
                     (SearchesBook => NoMatchPassedBy(NoTab, 0))'
<1>1. IInv /\ [Next]_vars => [A]_vars
  BY SearchStep DEF FoundIsFirst, NothingIsLeft
<1>2. NoMatchIsSkipped <=> [][A]_vars
  BY DEF NoMatchIsSkipped
<1> HIDE DEF A
<1> QED
  BY <1>1, <1>2, InitInv, InvStep, PTL DEF Spec

\* The search that goes on in a chapter that a scan has opened finds its match,
\* wherever the caret of its tab was left, unless it goes up and the match is
\* one character that ends the text.
THEOREM OpenedIsFound == Spec => OpenedChapterHasTheMatch
<1> DEFINE A == Resume /\ answer = "none" =>
                    /\ current' = current
                    /\ answer' = "found" \/ \A q \in matches[current] : MissedUpwards(current, q)
<1>1. IInv /\ [Next]_vars => [A]_vars
  BY ResumedOutcome DEF IInv
<1>2. OpenedChapterHasTheMatch <=> [][A]_vars
  BY DEF OpenedChapterHasTheMatch
<1> HIDE DEF A
<1> QED
  BY <1>1, <1>2, InitInv, InvStep, PTL DEF Spec
=============================================================================
