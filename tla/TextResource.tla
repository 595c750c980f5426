---------------------------- MODULE TextResource ----------------------------
(***************************************************************************)
(* One TextResource (ResourceObjects/TextResource.cpp) and the threads     *)
(* that use it.  The text lives in a QTextDocument that only the GUI       *)
(* thread may set; a worker's SetText goes to a cache, and a queued call   *)
(* moves the cache into the document once the GUI thread is back in its    *)
(* event loop.                                                             *)
(*                                                                         *)
(* A text is the set of edits it contains; {} is the empty text.  Every    *)
(* caller changes a text by reading it, applying one edit and setting the  *)
(* result, so an edit that is missing from GetText() is a lost update.     *)
(*                                                                         *)
(* Two kinds of resource behave differently.  "xml" is the OPF or the NCX: *)
(* loaded when constructed, edited by jobs on pool threads and by the GUI  *)
(* thread.  "css" is a stylesheet: loaded on demand, edited by at most one *)
(* job of a batch, and re-read from disk by an import.                     *)
(***************************************************************************)
EXTENDS Naturals, FiniteSets

CONSTANTS
    GUI,        \* the thread QApplication lives in
    Workers,    \* the threads of QThreadPool
    Edits,      \* the edits callers make; each is made once
    Original,   \* what the file held when it was added to the book
    NoOne       \* the value of an unheld lock

ASSUME ThreadsAssumption == GUI \notin Workers /\ NoOne \notin Workers \cup {GUI}
ASSUME TextAssumption == Original \notin Edits

Threads == Workers \cup {GUI}
Texts == SUBSET (Edits \cup {Original})

VARIABLES
    kind,        \* "xml" or "css"; a resource keeps its kind
    doc,         \* m_TextDocument->toPlainText()
    cache,       \* m_Cache
    cacheInUse,  \* m_CacheInUse
    posted,      \* DelayedUpdateToTextDocument calls in the GUI event queue
    disk,        \* the file at GetFullPath()
    writer,      \* who holds the write lock of Resource::GetLock()
    gui,         \* the GUI thread: in its event loop, in a handler, or waiting
    job,         \* what each thread is at
    edit,        \* the edit each thread's job makes
    local,       \* the text each thread has read
    used,        \* history: edits handed to a job
    made,        \* history: edits whose SetText has returned
    dropped      \* history: edits the code is known to throw away

text_vars == <<doc, cache, cacheInUse, posted>>
thread_vars == <<writer, gui, job, edit, local>>
history == <<used, made, dropped>>
vars == <<kind, doc, cache, cacheInUse, posted, disk, writer, gui, job, edit,
          local, used, made, dropped>>

\* GetText: under m_CacheAccessMutex, the cache when it is in use
GetText == IF cacheInUse THEN cache ELSE doc

\* The updates rewrite what they find in a text: an empty one stays empty.
Apply(e, text) == IF text = {} THEN {} ELSE text \cup {e}

Idle == \A t \in Threads : job[t] = "idle"

-----------------------------------------------------------------------------
(* SetText, DelayedUpdateToTextDocument *)

\* Mutant: every worker's SetText schedules a delayed update.
SetTextAlwaysPosts(t, text) ==
    \/ t = GUI /\ doc' = text /\ UNCHANGED <<cache, cacheInUse, posted>>
    \/ /\ t # GUI
       /\ cache' = text /\ cacheInUse' = TRUE /\ posted' = posted + 1
       /\ UNCHANGED doc

\* The GUI thread writes the document and leaves the cache alone; a worker
\* writes the cache and queues one delayed update for the lot.
SetText(t, text) ==
    \/ /\ t = GUI
       /\ doc' = text
       /\ UNCHANGED <<cache, cacheInUse, posted>>
    \/ /\ t # GUI
       /\ cache' = text
       /\ cacheInUse' = TRUE
       /\ posted' = IF cacheInUse THEN posted ELSE posted + 1
       /\ UNCHANGED doc

\* Mutant: the cache is cleared before it is copied.
DelayedUpdateClearsFirst ==
    /\ gui = "loop" /\ posted > 0
    /\ posted' = posted - 1
    /\ IF cacheInUse
       THEN doc' = {} /\ cache' = {} /\ cacheInUse' = FALSE
       ELSE UNCHANGED <<doc, cache, cacheInUse>>
    /\ UNCHANGED <<kind, disk, thread_vars, history>>

\* Mutant: m_CacheInUse is not reset.
DelayedUpdateKeepsCache ==
    /\ gui = "loop" /\ posted > 0
    /\ posted' = posted - 1
    /\ IF cacheInUse
       THEN doc' = cache /\ UNCHANGED <<cache, cacheInUse>>
       ELSE UNCHANGED <<doc, cache, cacheInUse>>
    /\ UNCHANGED <<kind, disk, thread_vars, history>>

DelayedUpdateToTextDocument ==
    /\ gui = "loop" /\ posted > 0
    /\ posted' = posted - 1
    /\ IF cacheInUse
       THEN doc' = cache /\ cache' = {} /\ cacheInUse' = FALSE
       ELSE UNCHANGED <<doc, cache, cacheInUse>>
    /\ UNCHANGED <<kind, disk, thread_vars, history>>

-----------------------------------------------------------------------------
(* The GUI thread: event handlers that run batches of jobs and wait *)

BeginHandler ==
    /\ gui = "loop"
    /\ gui' = "handler"
    /\ UNCHANGED <<text_vars, kind, disk, writer, job, edit, local, history>>

\* No handler returns before its QFutureSynchronizer has waited.
EndHandler ==
    /\ gui = "handler" /\ Idle
    /\ gui' = "loop"
    /\ UNCHANGED <<text_vars, kind, disk, writer, job, edit, local, history>>

Start(t, e, task) ==
    /\ e \notin used
    /\ job[t] = "idle"
    /\ job' = [job EXCEPT ![t] = task]
    /\ edit' = [edit EXCEPT ![t] = e]
    /\ used' = used \cup {e}
    /\ UNCHANGED <<text_vars, kind, disk, writer, gui, local, made, dropped>>

\* Mutant: the function is queued without the updates it is to apply.
RunUpdateUnbound(w, e) ==
    /\ gui = "handler"
    /\ kind = "css" => Idle
    /\ Start(w, NoOne, "queued")

\* QtConcurrent::run or map of a job that updates the text.  A stylesheet
\* is in a batch once: map visits each resource once.
RunUpdate(w, e) ==
    /\ gui = "handler"
    /\ kind = "css" => Idle
    /\ Start(w, e, "queued")

\* An import maps LoadAndUpdateOneCSSFile over the stylesheets.
RunReload(w, e) ==
    /\ gui = "handler"
    /\ kind = "css" /\ Idle
    /\ Start(w, e, "reload")

\* The GUI thread updates the OPF or the NCX itself, with no batch running.
GuiUpdate(e) ==
    /\ gui = "handler"
    /\ kind = "xml" /\ Idle
    /\ Start(GUI, e, "queued")

\* The job of t is over and its variables go out of scope.
Finish(t) ==
    /\ job' = [job EXCEPT ![t] = "idle"]
    /\ edit' = [edit EXCEPT ![t] = NoOne]
    /\ local' = [local EXCEPT ![t] = {}]

WaitForFinished ==
    /\ gui = "handler"
    /\ \E w \in Workers : job[w] # "idle"
    /\ gui' = "waiting"
    /\ UNCHANGED <<text_vars, kind, disk, writer, job, edit, local, history>>

\* QFuture::waitForFinished takes a runnable no pool thread has begun and
\* runs it on the waiting thread.
StealJob(w) ==
    /\ gui = "waiting"
    /\ kind = "xml"
    /\ job[w] = "queued" /\ job[GUI] = "idle"
    /\ job' = [job EXCEPT ![w] = "idle", ![GUI] = "queued"]
    /\ edit' = [edit EXCEPT ![w] = NoOne, ![GUI] = edit[w]]
    /\ UNCHANGED <<text_vars, kind, disk, writer, gui, local, history>>

Finished ==
    /\ gui = "waiting" /\ Idle
    /\ gui' = "handler"
    /\ UNCHANGED <<text_vars, kind, disk, writer, job, edit, local, history>>

-----------------------------------------------------------------------------
(* A job that updates the text: lock, GetText, SetText, unlock *)

\* Mutant: the update reads without waiting for the lock.
ReadForUpdateUnlocked(t) ==
    /\ job[t] = "queued"
    /\ writer' = t
    /\ local' = [local EXCEPT ![t] = GetText]
    /\ job' = [job EXCEPT ![t] = "ready"]
    /\ UNCHANGED <<text_vars, kind, disk, gui, edit, history>>

ReadForUpdate(t) ==
    /\ job[t] = "queued"
    /\ writer = NoOne
    /\ writer' = t
    /\ local' = [local EXCEPT ![t] = GetText]
    /\ job' = [job EXCEPT ![t] = "ready"]
    /\ UNCHANGED <<text_vars, kind, disk, gui, edit, history>>

StoreUpdate(t) ==
    /\ job[t] = "ready"
    /\ SetText(t, Apply(edit[t], local[t]))
    /\ made' = made \cup {edit[t]}
    /\ dropped' = IF local[t] = {} \/ (t = GUI /\ cacheInUse)
                  THEN dropped \cup {edit[t]} ELSE dropped
    /\ writer' = NoOne
    /\ Finish(t)
    /\ UNCHANGED <<kind, disk, gui, used>>

\* Mutant: the error path leaves without unlocking.
AbandonUpdateLocked(t) ==
    /\ kind = "xml"
    /\ job[t] = "ready"
    /\ Finish(t)
    /\ UNCHANGED <<text_vars, kind, disk, writer, gui, history>>

\* The text is not well formed: ErrorBuildingDOM, the old text stays.
AbandonUpdate(t) ==
    /\ kind = "xml"
    /\ job[t] = "ready"
    /\ writer' = NoOne
    /\ Finish(t)
    /\ UNCHANGED <<text_vars, kind, disk, gui, history>>

(* LoadAndUpdateOneCSSFile: the file's text replaces whatever is in memory,
   and no lock is taken. *)

ReadForReload(t) ==
    /\ job[t] = "reload"
    /\ local' = [local EXCEPT ![t] = disk]
    /\ job' = [job EXCEPT ![t] = "loaded"]
    /\ UNCHANGED <<text_vars, kind, disk, writer, gui, edit, history>>

StoreReload(t) ==
    /\ job[t] = "loaded"
    /\ SetText(t, Apply(edit[t], local[t]))
    /\ made' = made \cup {edit[t]}
    /\ dropped' = dropped \cup ((GetText \cup {edit[t]}) \ Apply(edit[t], local[t]))
    /\ Finish(t)
    /\ UNCHANGED <<kind, disk, writer, gui, used>>

-----------------------------------------------------------------------------
(* Code views, loading and saving: on the GUI thread *)

\* The user types in a Code View, which edits m_TextDocument in place.
TypeInCodeView(e) ==
    /\ gui = "loop"
    /\ e \notin used
    /\ doc # {}
    /\ doc' = doc \cup {e}
    /\ used' = used \cup {e}
    /\ made' = made \cup {e}
    /\ dropped' = IF cacheInUse THEN dropped \cup {e} ELSE dropped
    /\ UNCHANGED <<cache, cacheInUse, posted, kind, disk, thread_vars>>

\* Mutant: the file is loaded again over what the document has.
LoadedAgain == disk

\* TextResource::InitialLoad: only into an empty document
Loaded == IF doc = {} THEN disk ELSE doc

InitialLoad ==
    /\ gui = "handler" /\ Idle
    /\ doc' = Loaded
    /\ UNCHANGED <<cache, cacheInUse, posted, kind, disk, thread_vars, history>>

\* SaveToDisk writes the document, whatever the cache holds.
SaveToDisk ==
    /\ gui = "handler" /\ Idle
    /\ doc' = Loaded
    /\ disk' = Loaded
    /\ UNCHANGED <<cache, cacheInUse, posted, kind, thread_vars, history>>

-----------------------------------------------------------------------------
Init ==
    /\ kind \in {"xml", "css"}
    /\ doc = IF kind = "xml" THEN {Original} ELSE {}
    /\ cache = {}
    /\ cacheInUse = FALSE
    /\ posted = 0
    /\ disk = {Original}
    /\ writer = NoOne
    /\ gui = "loop"
    /\ job = [t \in Threads |-> "idle"]
    /\ edit = [t \in Threads |-> NoOne]
    /\ local = [t \in Threads |-> {}]
    /\ used = {}
    /\ made = {}
    /\ dropped = {}

Job(t) ==
    \/ ReadForUpdate(t) \/ StoreUpdate(t) \/ AbandonUpdate(t)
    \/ ReadForReload(t) \/ StoreReload(t)

Next ==
    \/ DelayedUpdateToTextDocument
    \/ BeginHandler \/ EndHandler \/ WaitForFinished \/ Finished
    \/ InitialLoad \/ SaveToDisk
    \/ \E e \in Edits : GuiUpdate(e) \/ TypeInCodeView(e)
    \/ \E w \in Workers, e \in Edits : RunUpdate(w, e) \/ RunReload(w, e)
    \/ \E w \in Workers : StealJob(w)
    \/ \E t \in Threads : Job(t)

\* A pool thread and a handler in progress keep running; the event dispatcher
\* sends the posted events of every round, so a queued call that stays
\* possible again and again is made.
Fairness ==
    /\ SF_vars(DelayedUpdateToTextDocument)
    /\ WF_vars(EndHandler) /\ WF_vars(WaitForFinished) /\ WF_vars(Finished)
    /\ \A t \in Threads : WF_vars(Job(t))

Spec == Init /\ [][Next]_vars

FairSpec == Spec /\ Fairness

-----------------------------------------------------------------------------
(* Properties *)

\* Every variable of the resource and of its threads has its type.
TypeInv ==
    /\ kind \in {"xml", "css"}
    /\ doc \in Texts /\ cache \in Texts /\ disk \in Texts
    /\ cacheInUse \in BOOLEAN /\ posted \in Nat
    /\ writer \in Threads \cup {NoOne}
    /\ gui \in {"loop", "handler", "waiting"}
    /\ job \in [Threads -> {"idle", "queued", "ready", "reload", "loaded"}]
    /\ edit \in [Threads -> Edits \cup {NoOne}]
    /\ \A t \in Threads : job[t] # "idle" => edit[t] \in Edits
    /\ local \in [Threads -> Texts]
    /\ used \subseteq Edits /\ made \subseteq Edits
    /\ dropped \in Texts

\* "We want to make sure we schedule only one delayed update"
\* (TextResource.cpp:74): however many workers set the text, one call is
\* queued while the cache is in use and none while it is not, so the cache is
\* never left behind without a call that empties it.
OneDelayedUpdate == posted = IF cacheInUse THEN 1 ELSE 0

\* Lost updates: an edit that any thread's SetText stored is in what GetText
\* returns, through the other threads' read-modify-write cycles and the
\* delayed update, unless it was dropped in one of the three known ways: set by
\* the GUI thread or typed over a cache in use, applied to a text not yet
\* loaded, or unsaved when an import re-reads the file.
EditsSurvive == made \ dropped \subseteq GetText

\* What GetText returns changes only when somebody sets the text or types, or
\* when an empty document is loaded with what the file holds: neither the
\* delayed update, nor any scheduling step, nor the save of a text that is
\* loaded is visible to a reader, so what a job read stays current as long as
\* no other job stores, whatever is delivered or saved in between.
TextChangesOnlyWhenSet ==
    [][GetText' # GetText =>
          \/ \E t \in Threads : StoreUpdate(t) \/ StoreReload(t)
          \/ \E e \in Edits : TypeInCodeView(e)
          \/ (InitialLoad \/ SaveToDisk) /\ GetText = {} /\ GetText' = disk]_vars

\* The document that the views show catches up with what workers set.
DocumentCatchesUp == cacheInUse ~> ~cacheInUse

\* A handler that waits for its batch is released, also when it runs one of the
\* batch's jobs itself while other threads hold the resource's lock.
BatchEnds == gui = "waiting" ~> gui # "waiting"
=============================================================================
