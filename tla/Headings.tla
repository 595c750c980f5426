------------------------------ MODULE Headings ------------------------------
(***************************************************************************)
(* The headings of a book as the tree that becomes its table of contents   *)
(* (BookManipulation/Headings.cpp, Exporters/NCXWriter.cpp).               *)
(*                                                                         *)
(* A heading is [pos, level, include]: its place in the book, its level,   *)
(* and include_in_toc.  A tree is an outline: its nodes from top to        *)
(* bottom, each with its depth, the number of nodes it is inside of.       *)
(***************************************************************************)
EXTENDS Integers, Sequences, FiniteSetsExt

\* GetHeadingList: the headings of all files in reading order
GetHeadingList(headings, include_unwanted_headings) ==
    LET list[k \in 0 .. Len(headings)] ==
            IF k = 0 THEN <<>>
            ELSE IF headings[k].include \/ include_unwanted_headings
            THEN Append(list[k - 1], headings[k])
            ELSE list[k - 1]
    IN  list[Len(headings)]

-----------------------------------------------------------------------------
(* Outlines: a node, or row, has a field depth *)

\* The nodes that node i is inside of
Above(outline, i) ==
    {j \in 1 .. i - 1 : \A k \in j + 1 .. i : outline[k].depth > outline[j].depth}

\* The last root, its last child, the last child of that, and so on
LastChildren(outline) ==
    {i \in DOMAIN outline : \A k \in i + 1 .. Len(outline) : outline[k].depth > outline[i].depth}

-----------------------------------------------------------------------------
(* The tree of headings *)

Node(heading, depth) == [heading |-> heading, depth |-> depth]

\* Mutant: the child is not propagated down the tree.
AppendChildHeading(nodes, child) == Append(nodes, Node(child, 1))

\* AddChildHeading, to the last root: the child goes on to the last child while
\* that is bigger.
AddChildHeading(nodes, child) ==
    LET passed == {i \in LastChildren(nodes) :
                      \A k \in LastChildren(nodes) : k <= i => nodes[k].heading.level < child.level}
    IN  Append(nodes, Node(child, nodes[Max(passed)].depth + 1))

\* The headings become children of the last root, or a root when that is not bigger.
MakeHeadingHeirarchy(headings) ==
    LET tree[k \in 0 .. Len(headings)] ==
            IF k = 0 THEN <<>>
            ELSE IF \/ k = 1
                    \/ headings[k].level <= tree[k - 1][Min(LastChildren(tree[k - 1]))].heading.level
            THEN Append(tree[k - 1], Node(headings[k], 0))
            ELSE AddChildHeading(tree[k - 1], headings[k])
    IN  tree[Len(headings)]

-----------------------------------------------------------------------------
(* The NCX *)

IncludedIn(nodes, S) == {i \in S : nodes[i].heading.include}

\* WriteNavPoint for the nodes in turn.  The children of a heading that is not
\* written are written in its place.
WriteNavPoints(nodes) ==
    LET points[k \in 0 .. Len(nodes)] ==
            IF k = 0 THEN <<>>
            ELSE IF ~nodes[k].heading.include THEN points[k - 1]
            ELSE Append(points[k - 1],
                    [playOrder |-> Len(points[k - 1]) + 1, pos |-> nodes[k].heading.pos,
                     depth |-> Cardinality(IncludedIn(nodes, Above(nodes, k)))])
    IN  points[Len(nodes)]

\* The dummy nav point of a book without headings leads to its first file.
WriteFallbackNavPoint == [playOrder |-> 1, pos |-> 0, depth |-> 0]

WriteNavMap(nodes) ==
    IF nodes = <<>> THEN <<WriteFallbackNavPoint>> ELSE WriteNavPoints(nodes)

\* GetHeadingsDepth and DepthWalker
GetHeadingsDepth(nodes) ==
    Max({0} \cup {Cardinality(IncludedIn(nodes, Above(nodes, i) \cup {i})) : i \in DOMAIN nodes})

\* GenerateNCXFromBookContents
GenerateNCX(headings) ==
    LET nodes == MakeHeadingHeirarchy(GetHeadingList(headings, FALSE))
    IN  [depth |-> GetHeadingsDepth(nodes), navMap |-> WriteNavMap(nodes)]
=============================================================================
