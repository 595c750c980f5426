----------------------------- MODULE MCEpubFile -----------------------------
EXTENDS EpubFile, TLC

SomeFolders == {"..", "OEBPS", "Text", "Fonts", "Styles", "Notes", "Other", "Old"}

Name(stem, kind) == [stem |-> stem, num |-> 0, kind |-> kind]
In(folder, name) == [dirs |-> <<"OEBPS">> \o folder, name |-> name]

FirstChapter == In(<<"Text">>, Name("a", "xhtml"))
FirstFont == In(<<"Fonts">>, Name("f", "ttf"))
FirstStyle == In(<<"Styles">>, Name("s", "css"))

\* A relative reference from one file to another
Relative(from, to) ==
    LET common == Len(LongestCommonPrefix({from, to.dirs}))
    IN  [to EXCEPT !.dirs = [i \in 1 .. Len(from) - common |-> ".."]
                              \o SubSeq(@, common + 1, Len(@))]

Link(form, from, to) == [from |-> from, value |-> Relative(from.dirs, to), form |-> form]
Item(id, path) == [id |-> id, href |-> Relative(<<"OEBPS">>, path)]

Files(paths, key) ==
    [path \in paths |-> [what |-> path, garbled |-> IF path.name.kind = "ttf" THEN key ELSE {}]]

Identifiers(forms) == [forms |-> forms, main |-> 1]

\* Two chapters that link to each other, and a stylesheet with a font and
\* perhaps another file; names clash in several ways, the manifest lists a
\* missing file, a file twice, or an id twice.
Linked ==
    LET seconds == {In(<<"Text">>, Name("b", "xhtml")), In(<<"Notes">>, Name("a", "xhtml")),
                    In(<<>>, Name("a", "xhtml")), In(<<"Old", "Text">>, Name("a", "xhtml")),
                    [dirs |-> <<>>, name |-> Name("a", "xhtml")]}
        Book(second, other, id, more) ==
            [files |-> Files({FirstChapter, second, FirstStyle, FirstFont, other}, {}),
             items |-> <<Item(1, FirstChapter), Item(id, second), Item(3, FirstStyle),
                         Item(4, FirstFont), Item(5, other)>> \o more,
             links |-> {Link("reference", FirstChapter, second), Link("reference", second, FirstChapter),
                        Link("reference", FirstChapter, FirstStyle), Link("reference", FirstChapter, FirstFont),
                        Link("url", FirstChapter, FirstFont), Link("url", FirstStyle, FirstFont),
                        Link("url", FirstStyle, second),
                        Link("reference", FirstChapter, other),
                        Link(IF other.name.kind = "css" THEN "import" ELSE "url", FirstStyle, other)},
             encryption |-> <<>>, identifiers |-> Identifiers(<<"urn">>)]
    IN  {Book(second, In(<<"Other">>, Name("t", "css")), 2, <<>>) : second \in seconds}
        \cup {Book(In(<<"Text">>, Name("b", "xhtml")), In(<<"Other">>, Name("s", "css")), 2, <<>>)}
        \cup {Book(In(<<"Notes">>, Name("a", "xhtml")), In(<<"Other">>, Name("f", "ttf")), id, more) :
                id \in {1, 2}, more \in {<<>>, <<Item(6, FirstFont)>>,
                                        <<Item(6, In(<<"Text">>, Name("c", "xhtml")))>>}}

\* One chapter and a font, which may be obfuscated, may be missing from the manifest
\* and may lie outside OEBPS; the identifiers are of several forms.
WithFonts ==
    LET Book(font, algorithm, declared, forms) ==
            [files |-> Files({FirstChapter, FirstStyle, font},
                             IF algorithm \in Algorithms
                             THEN {ImportKey(algorithm, Identifiers(forms))} ELSE {}),
             items |-> <<Item(1, FirstChapter), Item(2, FirstStyle)>>
                         \o IF declared THEN <<Item(3, font)>> ELSE <<>>,
             links |-> {Link("reference", FirstChapter, FirstStyle), Link("url", FirstStyle, font)},
             encryption |-> IF algorithm = Plain THEN <<>> ELSE font :> algorithm,
             identifiers |-> Identifiers(forms)]
        outside == [FirstFont EXCEPT !.dirs = <<"Fonts">>]
    IN  {Book(FirstFont, algorithm, declared, forms) :
            algorithm \in Algorithms, declared \in BOOLEAN,
            forms \in {<<"urn">>, <<"text">>, <<"uuid">>, <<"text", "urn">>, <<"badurn">>}}
        \cup {Book(outside, algorithm, declared, <<"urn">>) :
                algorithm \in Algorithms, declared \in BOOLEAN}
        \cup {Book(FirstFont, Plain, declared, forms) :
                declared \in BOOLEAN, forms \in {<<"urn">>, <<"text">>}}
        \cup {Book(FirstFont, "drm", TRUE, <<"urn">>)}

\* A font added to a new book: the identifier is that of OPFResource's template.
NewBooks == {e \in WithFonts : e.encryption = <<>> /\ e.identifiers = Identifiers(<<"urn">>)}

SomeEpubs == Linked \cup WithFonts
=============================================================================
