----------------------------- MODULE BookStore -----------------------------
(***************************************************************************)
(* What Sigil promises about a book and the epub files it is saved to, as  *)
(* the user sees it: there is one book in the program, a save puts exactly *)
(* this book into one file, and a save that goes wrong damages at most the *)
(* file it was writing.  BookSession implements it in many steps.          *)
(***************************************************************************)
CONSTANTS
    Resources,  \* the files of a book
    Edits,      \* what the user does to them
    Paths,      \* where the user saves
    NoFile,     \* there is no file at a path
    Damaged     \* a file that is no complete epub

VARIABLES
    work,       \* the book in the program: the edits in each of its files
    stored      \* what the file at each path holds

vars == <<work, stored>>

Books == [Resources -> SUBSET Edits]
EmptyBook == [r \in Resources |-> {}]

Init ==
    /\ work = EmptyBook
    /\ stored = [p \in Paths |-> NoFile]

\* The book is edited; what is in it stays.
Edit ==
    /\ work' \in Books
    /\ \A r \in Resources : work[r] \subseteq work'[r]
    /\ UNCHANGED stored

\* Another book takes its place: a new one, or one of the files.
Replace ==
    /\ work' = EmptyBook \/ \E p \in Paths : stored[p] \in Books /\ work' = stored[p]
    /\ UNCHANGED stored

Save(p) ==
    /\ stored' = [stored EXCEPT ![p] = work]
    /\ UNCHANGED work

\* A save overwrites the file in place: until it is complete, and for good if
\* it fails, there is no epub at the path.
Damage(p) ==
    /\ stored' = [stored EXCEPT ![p] = Damaged]
    /\ UNCHANGED work

Next == Edit \/ Replace \/ \E p \in Paths : Save(p) \/ Damage(p)

Spec == Init /\ [][Next]_vars
=============================================================================
