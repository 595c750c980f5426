------------------------------ MODULE NCXPane ------------------------------
(***************************************************************************)
(* The pane that shows the table of contents (MainUI/TableOfContents.cpp,  *)
(* MainUI/NCXModel.cpp): a second after the NCX was changed, and when a    *)
(* book is opened, a pool thread reads and parses the NCX, and the GUI     *)
(* thread shows the result.                                                *)
(***************************************************************************)
EXTENDS Naturals

CONSTANTS
    Books,     \* the books that are opened one after the other
    MaxEdits   \* bound on the changes of the NCX texts

ASSUME EditsAssumption == MaxEdits \in Nat

\* The NCX of a book after some of the changes.  With an error in the XML, or
\* without nav points, its tree has no entries.
Texts == [book : Books, edit : 0..MaxEdits, entries : BOOLEAN]

VARIABLES
    m_Book,              \* the book of the pane and of the model
    text,                \* its NCX
    edits,               \* the number of changes so far
    opened,              \* the books opened so far
    m_RefreshTimer,      \* the timer is running
    m_RefreshInProgress,
    job,                 \* the future: not run, finished, or none at all
    result,              \* what the pool thread has read
    pane,                \* what the tree shows
    refused              \* history: the last call of Refresh came when the
                         \* thread had read the NCX, and was refused

pane_vars == <<m_Book, text, edits, opened, m_RefreshTimer, m_RefreshInProgress, job,
          result, pane, refused>>

user_vars == <<m_Book, text, edits, opened>>

-----------------------------------------------------------------------------
(* NCXModel.  The functions of the GUI thread run to their end. *)

Refresh ==
    IF m_RefreshInProgress
    THEN /\ refused' = (refused \/ job = "finished")
         /\ UNCHANGED <<m_RefreshInProgress, job>>
    ELSE /\ m_RefreshInProgress' = TRUE
         /\ job' = "queued"
         /\ refused' = FALSE

\* On the pool thread.  m_UsingBookMutex and the lock of the NCX make it one step.
GetRootNCXEntry ==
    /\ job = "queued"
    /\ job' = "finished"
    /\ result' = text
    /\ UNCHANGED <<user_vars, m_RefreshTimer, m_RefreshInProgress, pane, refused>>

\* Mutant: the flag is not reset when there is nothing to show.
RefreshEndEarly ==
    /\ job = "finished"
    /\ job' = "none"
    /\ pane' = IF result.entries THEN result ELSE pane
    /\ m_RefreshInProgress' = ~result.entries
    /\ UNCHANGED <<user_vars, m_RefreshTimer, result, refused>>

\* The signal finished() is delivered.  BuildModel leaves the tree as it is when
\* there are no entries.
RefreshEnd ==
    /\ job = "finished"
    /\ job' = "none"
    /\ pane' = IF result.entries THEN result ELSE pane
    /\ m_RefreshInProgress' = FALSE
    /\ UNCHANGED <<user_vars, m_RefreshTimer, result, refused>>

-----------------------------------------------------------------------------
(* TableOfContents *)

\* Mutant: no timer is started while a refresh is in progress.
ChangeNCXUntimed(entries) ==
    /\ edits < MaxEdits
    /\ edits' = edits + 1
    /\ text' = [book |-> m_Book, edit |-> edits + 1, entries |-> entries]
    /\ m_RefreshTimer' = (m_RefreshTimer \/ ~m_RefreshInProgress)
    /\ UNCHANGED <<m_Book, opened, m_RefreshInProgress, job, result, pane, refused>>

\* The NCX is typed in or generated; Modified starts the timer, again if it runs.
ChangeNCX(entries) ==
    /\ edits < MaxEdits
    /\ edits' = edits + 1
    /\ text' = [book |-> m_Book, edit |-> edits + 1, entries |-> entries]
    /\ m_RefreshTimer' = TRUE
    /\ UNCHANGED <<m_Book, opened, m_RefreshInProgress, job, result, pane, refused>>

\* SetBook.  It calls Refresh twice; the second call is refused in any case, and
\* what the thread may have read by then is the new book.
SetBook(book, entries) ==
    /\ book \notin opened
    /\ m_Book' = book
    /\ opened' = opened \cup {book}
    /\ text' = [book |-> book, edit |-> edits, entries |-> entries]
    /\ Refresh
    /\ UNCHANGED <<edits, m_RefreshTimer, result, pane>>

Timeout ==
    /\ m_RefreshTimer
    /\ m_RefreshTimer' = FALSE
    /\ Refresh
    /\ UNCHANGED <<user_vars, result, pane>>

PaneInit ==
    /\ m_Book \in Books /\ opened = {m_Book}
    /\ text = [book |-> m_Book, edit |-> 0, entries |-> TRUE]
    /\ edits = 0
    /\ m_RefreshTimer = FALSE
    /\ m_RefreshInProgress = TRUE /\ job = "queued"
    /\ pane = [text EXCEPT !.entries = FALSE] /\ result = pane
    /\ refused = FALSE

PaneNext ==
    \/ \E entries \in BOOLEAN : ChangeNCX(entries)
    \/ \E book \in Books, entries \in BOOLEAN : SetBook(book, entries)
    \/ Timeout \/ GetRootNCXEntry \/ RefreshEnd

PaneSpec == PaneInit /\ [][PaneNext]_pane_vars

\* The timer fires, the pool has a thread, and the GUI thread delivers signals.
FairPaneSpec == PaneSpec /\ WF_pane_vars(Timeout) /\ WF_pane_vars(GetRootNCXEntry) /\ WF_pane_vars(RefreshEnd)

-----------------------------------------------------------------------------
(* Properties *)

PaneTypeInv ==
    /\ m_Book \in Books /\ text \in Texts /\ text.book = m_Book
    /\ edits \in 0..MaxEdits /\ opened \subseteq Books
    /\ m_RefreshTimer \in BOOLEAN /\ m_RefreshInProgress \in BOOLEAN
    /\ job \in {"none", "queued", "finished"}
    /\ m_RefreshInProgress <=> job # "none"
    /\ result \in Texts /\ pane \in Texts /\ refused \in BOOLEAN

\* A pane that shows something else than the NCX of the book is about to be
\* refreshed, unless the NCX has no entries or the refresh was refused.
StalePaneWillBeRefreshed ==
    pane # text /\ text.entries =>
        \/ m_RefreshTimer
        \/ job = "queued" \/ (job = "finished" /\ result = text)
        \/ refused

\* In the end, with no more changes, the pane shows the NCX of the book.
PaneCatchesUp == <>[](pane = text \/ ~text.entries \/ refused)
=============================================================================
