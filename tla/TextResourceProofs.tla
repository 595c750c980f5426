------------------------ MODULE TextResourceProofs ------------------------
(***************************************************************************)
(* Proofs about TextResource for every set of threads and edits: the type  *)
(* invariant, the single delayed update, and that updates are not lost.    *)
(***************************************************************************)
EXTENDS TextResource, TLAPS

\* What holds of the threads while they work: the write lock belongs to the one
\* thread between GetText and SetText, and what that thread has read is still
\* what GetText returns; a reload is alone, on a pool thread; only the GUI thread's own handlers
\* let the workers run.
LockHeld == \A t \in Threads : job[t] = "ready" <=> writer = t

ReadIsCurrent == \A t \in Threads : job[t] = "ready" => local[t] = GetText

ReloadIsAlone ==
    \A t \in Threads : job[t] \in {"reload", "loaded"} =>
        /\ kind = "css" /\ t # GUI
        /\ \A u \in Threads \ {t} : job[u] = "idle"

WorkNeedsHandler == gui = "loop" => Idle

IInv ==
    /\ TypeInv /\ OneDelayedUpdate /\ EditsSurvive
    /\ LockHeld /\ ReadIsCurrent /\ ReloadIsAlone /\ WorkNeedsHandler

-----------------------------------------------------------------------------
LEMMA InitIInv == Init => IInv
<1> SUFFICES ASSUME Init PROVE IInv
    OBVIOUS
<1>1. TypeInv
  BY DEF Init, TypeInv, Texts
<1>2. OneDelayedUpdate /\ EditsSurvive
  BY DEF Init, OneDelayedUpdate, EditsSurvive
<1>3. LockHeld /\ ReadIsCurrent /\ ReloadIsAlone /\ WorkNeedsHandler
  BY ThreadsAssumption
  DEF Init, LockHeld, ReadIsCurrent, ReloadIsAlone, WorkNeedsHandler, Idle, Threads
<1> QED
  BY <1>1, <1>2, <1>3 DEF IInv

\* Setting a text keeps the types and the single delayed update; a reader
\* sees the new text, or the old one if the GUI thread set it past the cache.
LEMMA SetTextEffect ==
    ASSUME NEW t \in Threads, NEW text \in Texts, TypeInv, OneDelayedUpdate,
           SetText(t, text)
    PROVE  /\ doc' \in Texts /\ cache' \in Texts
           /\ cacheInUse' \in BOOLEAN /\ posted' \in Nat
           /\ OneDelayedUpdate'
           /\ GetText' = IF t = GUI /\ cacheInUse THEN GetText ELSE text
<1>1. CASE t = GUI
  BY <1>1 DEF TypeInv, OneDelayedUpdate, SetText, GetText
<1>2. CASE t # GUI
  <2>1. doc' \in Texts /\ cache' \in Texts /\ cacheInUse' = TRUE
    BY <1>2 DEF TypeInv, SetText
  <2>2. posted' = 1
    BY <1>2 DEF OneDelayedUpdate, SetText
  <2> QED
    BY <1>2, <2>1, <2>2 DEF OneDelayedUpdate, SetText, GetText
<1> QED
  BY <1>1, <1>2

LEMMA ApplyType == \A e \in Edits, text \in Texts : Apply(e, text) \in Texts
BY DEF Apply, Texts

-----------------------------------------------------------------------------
LEMMA TypeStep == IInv /\ [Next]_vars => TypeInv'
<1> SUFFICES ASSUME IInv, [Next]_vars PROVE TypeInv'
    OBVIOUS
<1> USE DEF IInv
<1>1. CASE DelayedUpdateToTextDocument
  <2>1. cacheInUse /\ posted = 1
    BY <1>1 DEF DelayedUpdateToTextDocument, TypeInv, OneDelayedUpdate
  <2>2. doc' \in Texts /\ cache' \in Texts /\ posted' = 0 /\ cacheInUse' = FALSE
    BY <1>1, <2>1 DEF DelayedUpdateToTextDocument, TypeInv, Texts
  <2>3. UNCHANGED <<kind, disk, writer, gui, job, edit, local, used, made, dropped>>
    BY <1>1 DEF DelayedUpdateToTextDocument, thread_vars, history
  <2> QED
    BY <2>2, <2>3 DEF TypeInv
<1>2. CASE BeginHandler \/ EndHandler \/ WaitForFinished \/ Finished
  BY <1>2 DEF BeginHandler, EndHandler, WaitForFinished, Finished, TypeInv,
     text_vars, history
<1>3. CASE InitialLoad \/ SaveToDisk
  BY <1>3 DEF InitialLoad, SaveToDisk, Loaded, TypeInv, thread_vars, history
<1>4. ASSUME NEW e \in Edits, TypeInCodeView(e) PROVE TypeInv'
  BY <1>4 DEF TypeInCodeView, TypeInv, thread_vars, Texts
<1>5. ASSUME NEW t \in Threads, NEW e \in Edits, NEW task \in {"queued", "reload"},
             Start(t, e, task)
      PROVE  TypeInv'
  BY <1>5 DEF Start, TypeInv, text_vars
<1>6. ASSUME NEW w \in Workers, StealJob(w) PROVE TypeInv'
  BY <1>6 DEF StealJob, TypeInv, Threads, text_vars, history
<1>7. ASSUME NEW t \in Threads, Job(t) PROVE TypeInv'
  <2>1. CASE ReadForUpdate(t)
    <3>1. GetText \in Texts
      BY DEF GetText, TypeInv
    <3> QED
      BY <2>1, <3>1 DEF ReadForUpdate, TypeInv, text_vars, history
  <2>2. CASE StoreUpdate(t)
    <3>1. edit[t] \in Edits /\ local[t] \in Texts
      BY <2>2 DEF StoreUpdate, TypeInv
    <3>2. Apply(edit[t], local[t]) \in Texts
      BY <3>1, ApplyType
    <3>3. doc' \in Texts /\ cache' \in Texts /\ cacheInUse' \in BOOLEAN /\ posted' \in Nat
      BY <2>2, <3>2, SetTextEffect DEF StoreUpdate
    <3> QED
      BY <2>2, <3>1, <3>3 DEF StoreUpdate, Finish, TypeInv, Texts
  <2>3. CASE AbandonUpdate(t)
    BY <2>3 DEF AbandonUpdate, Finish, TypeInv, text_vars, history, Texts
  <2>4. CASE ReadForReload(t)
    BY <2>4 DEF ReadForReload, TypeInv, text_vars, history
  <2>5. CASE StoreReload(t)
    <3>1. edit[t] \in Edits /\ local[t] \in Texts
      BY <2>5 DEF StoreReload, TypeInv
    <3>2. Apply(edit[t], local[t]) \in Texts
      BY <3>1, ApplyType
    <3>3. doc' \in Texts /\ cache' \in Texts /\ cacheInUse' \in BOOLEAN /\ posted' \in Nat
      BY <2>5, <3>2, SetTextEffect DEF StoreReload
    <3>4. GetText \in Texts
      BY DEF GetText, TypeInv
    <3>5. made' \subseteq Edits /\ dropped' \in Texts
      BY <2>5, <3>1, <3>4 DEF StoreReload, TypeInv, Texts
    <3> QED
      BY <2>5, <3>3, <3>5 DEF StoreReload, Finish, TypeInv, Texts
  <2> QED
    BY <1>7, <2>1, <2>2, <2>3, <2>4, <2>5 DEF Job
<1>8. CASE UNCHANGED vars
  BY <1>8 DEF vars, TypeInv
<1> QED
  BY <1>1, <1>2, <1>3, <1>4, <1>5, <1>6, <1>7, <1>8
  DEF Next, GuiUpdate, RunUpdate, RunReload, Threads

-----------------------------------------------------------------------------
\* The delayed update stays single: a worker queues it only while the cache is
\* not in use, and its delivery ends the use.
LEMMA PostedStep == IInv /\ [Next]_vars => OneDelayedUpdate'
<1> SUFFICES ASSUME IInv, [Next]_vars PROVE OneDelayedUpdate'
    OBVIOUS
<1> USE DEF IInv
<1>1. CASE DelayedUpdateToTextDocument
  BY <1>1 DEF DelayedUpdateToTextDocument, OneDelayedUpdate
<1>2. ASSUME NEW t \in Threads, StoreUpdate(t) \/ StoreReload(t)
      PROVE  OneDelayedUpdate'
  <2>1. edit[t] \in Edits /\ local[t] \in Texts
    BY <1>2 DEF StoreUpdate, StoreReload, TypeInv
  <2>2. Apply(edit[t], local[t]) \in Texts
    BY <2>1, ApplyType
  <2> QED
    BY <1>2, <2>2, SetTextEffect DEF StoreUpdate, StoreReload
<1>3. CASE UNCHANGED <<cacheInUse, posted>>
  BY <1>3 DEF OneDelayedUpdate
<1>4. Next => \/ DelayedUpdateToTextDocument
              \/ \E t \in Threads : StoreUpdate(t) \/ StoreReload(t)
              \/ UNCHANGED <<cacheInUse, posted>>
  BY DEF Next, BeginHandler, EndHandler, WaitForFinished, Finished, InitialLoad,
     SaveToDisk, GuiUpdate, RunUpdate, RunReload, Start, StealJob, TypeInCodeView,
     Job, ReadForUpdate, AbandonUpdate, ReadForReload, text_vars
<1> QED
  BY <1>1, <1>2, <1>3, <1>4 DEF vars

-----------------------------------------------------------------------------
\* The lock and the reads: one case per action that touches job, writer,
\* local or the text.
LEMMA LockStep == IInv /\ [Next]_vars => LockHeld' /\ ReadIsCurrent'
<1> SUFFICES ASSUME IInv, [Next]_vars PROVE LockHeld' /\ ReadIsCurrent'
    OBVIOUS
<1> USE DEF IInv
<1>1. CASE DelayedUpdateToTextDocument
  <2>1. GetText' = GetText
    BY <1>1 DEF DelayedUpdateToTextDocument, GetText, OneDelayedUpdate, TypeInv
  <2> QED
    BY <1>1, <2>1 DEF DelayedUpdateToTextDocument, thread_vars, LockHeld, ReadIsCurrent
<1>2. CASE BeginHandler \/ EndHandler \/ WaitForFinished \/ Finished
  BY <1>2 DEF BeginHandler, EndHandler, WaitForFinished, Finished, text_vars,
     GetText, LockHeld, ReadIsCurrent
<1>3. CASE InitialLoad \/ SaveToDisk
  BY <1>3 DEF InitialLoad, SaveToDisk, thread_vars, Idle, LockHeld, ReadIsCurrent
<1>4. ASSUME NEW e \in Edits, TypeInCodeView(e) PROVE LockHeld' /\ ReadIsCurrent'
  BY <1>4 DEF TypeInCodeView, thread_vars, WorkNeedsHandler, Idle, LockHeld, ReadIsCurrent
<1>5. ASSUME NEW t \in Threads, NEW e \in Edits, NEW task \in {"queued", "reload"},
             Start(t, e, task)
      PROVE  LockHeld' /\ ReadIsCurrent'
  BY <1>5 DEF Start, text_vars, TypeInv, GetText, LockHeld, ReadIsCurrent
<1>6. ASSUME NEW w \in Workers, StealJob(w) PROVE LockHeld' /\ ReadIsCurrent'
  BY <1>6 DEF StealJob, text_vars, TypeInv, Threads, GetText, LockHeld, ReadIsCurrent
<1>7. ASSUME NEW t \in Threads, Job(t) PROVE LockHeld' /\ ReadIsCurrent'
  <2>1. CASE ReadForUpdate(t)
    BY <2>1, ThreadsAssumption
    DEF ReadForUpdate, text_vars, TypeInv, Threads, GetText, LockHeld, ReadIsCurrent
  <2>2. CASE StoreUpdate(t) \/ AbandonUpdate(t)
    <3>1. writer = t /\ job[t] = "ready"
      BY <2>2 DEF StoreUpdate, AbandonUpdate, LockHeld
    <3>2. \A u \in Threads : job'[u] # "ready"
      BY <2>2, <3>1 DEF StoreUpdate, AbandonUpdate, Finish, LockHeld, TypeInv
    <3>3. writer' = NoOne
      BY <2>2 DEF StoreUpdate, AbandonUpdate
    <3> QED
      BY <3>2, <3>3, ThreadsAssumption DEF Threads, LockHeld, ReadIsCurrent
  <2>3. CASE ReadForReload(t)
    BY <2>3 DEF ReadForReload, text_vars, TypeInv, GetText, LockHeld, ReadIsCurrent
  <2>4. CASE StoreReload(t)
    <3>1. \A u \in Threads : job'[u] # "ready" /\ writer' # u
      BY <2>4 DEF StoreReload, Finish, ReloadIsAlone, LockHeld, TypeInv
    <3> QED
      BY <3>1 DEF LockHeld, ReadIsCurrent
  <2> QED
    BY <1>7, <2>1, <2>2, <2>3, <2>4 DEF Job
<1>8. CASE UNCHANGED vars
  BY <1>8 DEF vars, GetText, LockHeld, ReadIsCurrent
<1> QED
  BY <1>1, <1>2, <1>3, <1>4, <1>5, <1>6, <1>7, <1>8
  DEF Next, GuiUpdate, RunUpdate, RunReload, Threads

LEMMA ScheduleStep == IInv /\ [Next]_vars => ReloadIsAlone' /\ WorkNeedsHandler'
<1> SUFFICES ASSUME IInv, [Next]_vars PROVE ReloadIsAlone' /\ WorkNeedsHandler'
    OBVIOUS
<1> USE DEF IInv
<1>0. kind' = kind
  BY DEF Next, vars, DelayedUpdateToTextDocument, BeginHandler, EndHandler, WaitForFinished,
     Finished, InitialLoad, SaveToDisk, GuiUpdate, TypeInCodeView, RunUpdate, RunReload,
     StealJob, Start, Job, ReadForUpdate, StoreUpdate, AbandonUpdate, ReadForReload, StoreReload
<1>1. CASE UNCHANGED job /\ (gui' # "loop" \/ Idle)
  BY <1>0, <1>1 DEF ReloadIsAlone, WorkNeedsHandler, Idle
<1>2. CASE UNCHANGED <<job, gui>>
  BY <1>0, <1>2 DEF ReloadIsAlone, WorkNeedsHandler, Idle
<1>3. ASSUME NEW w \in Workers, NEW e \in Edits, RunUpdate(w, e)
      PROVE  ReloadIsAlone' /\ WorkNeedsHandler'
  <2>1. \A t \in Threads : job[t] \notin {"reload", "loaded"}
    BY <1>3, <1>0 DEF RunUpdate, TypeInv, Idle, ReloadIsAlone
  <2> QED
    BY <1>0, <1>3, <2>1 DEF RunUpdate, Start, TypeInv, ReloadIsAlone, WorkNeedsHandler, Threads
<1>4. ASSUME NEW w \in Workers, NEW e \in Edits, RunReload(w, e)
      PROVE  ReloadIsAlone' /\ WorkNeedsHandler'
  BY <1>4, ThreadsAssumption
  DEF RunReload, Start, Idle, TypeInv, ReloadIsAlone, WorkNeedsHandler, Threads
<1>5. ASSUME NEW e \in Edits, GuiUpdate(e)
      PROVE  ReloadIsAlone' /\ WorkNeedsHandler'
  BY <1>0, <1>5 DEF GuiUpdate, Start, Idle, TypeInv, ReloadIsAlone, WorkNeedsHandler, Threads
<1>6. ASSUME NEW w \in Workers, StealJob(w)
      PROVE  ReloadIsAlone' /\ WorkNeedsHandler'
  BY <1>6, <1>0
  DEF StealJob, TypeInv, ReloadIsAlone, WorkNeedsHandler, Threads
<1>7. ASSUME NEW t \in Threads, Job(t) PROVE ReloadIsAlone' /\ WorkNeedsHandler'
  <2>1. CASE ReadForUpdate(t) \/ ReadForReload(t)
    <3>1. gui # "loop"
      BY <2>1 DEF ReadForUpdate, ReadForReload, WorkNeedsHandler, Idle
    <3> QED
      BY <1>0, <2>1, <3>1 DEF ReadForUpdate, ReadForReload, TypeInv, ReloadIsAlone, WorkNeedsHandler
  <2>2. CASE StoreUpdate(t) \/ AbandonUpdate(t) \/ StoreReload(t)
    <3>1. UNCHANGED gui /\ job' = [job EXCEPT ![t] = "idle"]
      BY <2>2 DEF StoreUpdate, AbandonUpdate, StoreReload, Finish
    <3> QED
      BY <1>0, <3>1 DEF TypeInv, ReloadIsAlone, WorkNeedsHandler, Idle
  <2> QED
    BY <1>7, <2>1, <2>2 DEF Job
<1>8. Next => \/ UNCHANGED job /\ (gui' # "loop" \/ Idle)
              \/ UNCHANGED <<job, gui>>
              \/ \E w \in Workers, e \in Edits : RunUpdate(w, e) \/ RunReload(w, e)
              \/ \E e \in Edits : GuiUpdate(e)
              \/ \E w \in Workers : StealJob(w)
              \/ \E t \in Threads : Job(t)
  BY DEF Next, DelayedUpdateToTextDocument, BeginHandler, EndHandler,
     WaitForFinished, Finished, InitialLoad, SaveToDisk, TypeInCodeView, thread_vars
<1> QED
  BY <1>1, <1>2, <1>3, <1>4, <1>5, <1>6, <1>7, <1>8 DEF vars

-----------------------------------------------------------------------------
\* No step loses an edit: the text only shrinks in StoreReload, which records
\* what it drops; StoreUpdate writes back the current text, because nobody
\* else could set it between the read and the write.
LEMMA SurviveStep == IInv /\ [Next]_vars => EditsSurvive'
<1> SUFFICES ASSUME IInv, [Next]_vars PROVE EditsSurvive'
    OBVIOUS
<1> USE DEF IInv
<1>1. CASE DelayedUpdateToTextDocument
  <2>1. GetText' = GetText
    BY <1>1 DEF DelayedUpdateToTextDocument, GetText, OneDelayedUpdate
  <2> QED
    BY <1>1, <2>1 DEF DelayedUpdateToTextDocument, history, EditsSurvive
<1>2. CASE InitialLoad \/ SaveToDisk
  BY <1>2 DEF InitialLoad, SaveToDisk, Loaded, history, GetText, EditsSurvive
<1>3. ASSUME NEW e \in Edits, TypeInCodeView(e) PROVE EditsSurvive'
  BY <1>3 DEF TypeInCodeView, GetText, EditsSurvive
<1>4. ASSUME NEW t \in Threads, StoreUpdate(t) PROVE EditsSurvive'
  <2>1. edit[t] \in Edits /\ local[t] \in Texts /\ local[t] = GetText
    BY <1>4 DEF StoreUpdate, TypeInv, ReadIsCurrent
  <2>2. Apply(edit[t], local[t]) \in Texts
    BY <2>1, ApplyType
  <2>3. GetText' = IF t = GUI /\ cacheInUse THEN GetText ELSE Apply(edit[t], local[t])
    BY <1>4, <2>2, SetTextEffect DEF StoreUpdate
  <2>4. CASE (t = GUI /\ cacheInUse) \/ local[t] = {}
    <3>1. GetText' = GetText
      BY <2>1, <2>3, <2>4 DEF Apply
    <3> QED
      BY <1>4, <2>4, <3>1 DEF StoreUpdate, EditsSurvive
  <2>5. CASE ~ ((t = GUI /\ cacheInUse) \/ local[t] = {})
    <3>1. GetText' = GetText \cup {edit[t]}
      BY <2>1, <2>3, <2>5 DEF Apply
    <3> QED
      BY <1>4, <2>5, <3>1 DEF StoreUpdate, EditsSurvive
  <2> QED
    BY <2>4, <2>5
<1>5. ASSUME NEW t \in Threads, StoreReload(t) PROVE EditsSurvive'
  <2>1. edit[t] \in Edits /\ local[t] \in Texts /\ job[t] = "loaded"
    BY <1>5 DEF StoreReload, TypeInv
  <2>2. Apply(edit[t], local[t]) \in Texts
    BY <2>1, ApplyType
  <2>3. GetText' = IF t = GUI /\ cacheInUse THEN GetText ELSE Apply(edit[t], local[t])
    BY <1>5, <2>2, SetTextEffect DEF StoreReload
  <2>4. GetText' = Apply(edit[t], local[t])
    BY <2>1, <2>3 DEF ReloadIsAlone
  <2> QED
    BY <1>5, <2>4 DEF StoreReload, EditsSurvive
<1>6. CASE UNCHANGED <<doc, cache, cacheInUse, made, dropped>>
  BY <1>6 DEF GetText, EditsSurvive
<1>7. Next => \/ DelayedUpdateToTextDocument
              \/ InitialLoad \/ SaveToDisk
              \/ \E e \in Edits : TypeInCodeView(e)
              \/ \E t \in Threads : StoreUpdate(t) \/ StoreReload(t)
              \/ UNCHANGED <<doc, cache, cacheInUse, made, dropped>>
  BY DEF Next, BeginHandler, EndHandler, WaitForFinished, Finished, GuiUpdate,
     RunUpdate, RunReload, Start, StealJob, Job, ReadForUpdate, AbandonUpdate,
     ReadForReload, text_vars, history
<1> QED
  BY <1>1, <1>2, <1>3, <1>4, <1>5, <1>6, <1>7 DEF vars

-----------------------------------------------------------------------------
LEMMA Inductive == Spec => []IInv
<1>1. IInv /\ [Next]_vars => IInv'
  BY TypeStep, PostedStep, LockStep, ScheduleStep, SurviveStep DEF IInv
<1> QED
  BY InitIInv, <1>1, PTL DEF Spec

\* TextResource is type correct for every set of threads and edits.
THEOREM TypeCorrect == Spec => []TypeInv
<1>1. IInv => TypeInv
  BY DEF IInv
<1> QED
  BY Inductive, <1>1, PTL

\* At most one delayed update is ever queued, exactly when the cache holds a
\* text the document does not have (TextResource.cpp:74).
THEOREM DelayedUpdateIsSingle == Spec => []OneDelayedUpdate
<1>1. IInv => OneDelayedUpdate
  BY DEF IInv
<1> QED
  BY Inductive, <1>1, PTL

\* However many pool threads update a resource at once, and however their
\* GetText and SetText calls interleave with the delayed update, the only
\* updates that can be lost are those dropped in the three ways the model
\* records.
THEOREM NoLostUpdates == Spec => []EditsSurvive
<1>1. IInv => EditsSurvive
  BY DEF IInv
<1> QED
  BY Inductive, <1>1, PTL

\* The delayed update and scheduling never change what GetText returns, and a
\* load or a save changes it only from the empty text to what the file holds.
THEOREM DeliveryIsInvisible == Spec => TextChangesOnlyWhenSet
<1> DEFINE Set == \/ \E t \in Threads : StoreUpdate(t) \/ StoreReload(t)
                  \/ \E e \in Edits : TypeInCodeView(e)
                  \/ (InitialLoad \/ SaveToDisk) /\ GetText = {} /\ GetText' = disk
           Visible == GetText' # GetText => Set
<1>1. IInv /\ [Next]_vars => [Visible]_vars
  <2> SUFFICES ASSUME IInv, Next, ~Set PROVE GetText' = GetText
    BY DEF vars
  <2>1. CASE DelayedUpdateToTextDocument
    BY <2>1 DEF DelayedUpdateToTextDocument, GetText, IInv, OneDelayedUpdate
  <2>2. CASE UNCHANGED <<doc, cache, cacheInUse>>
    BY <2>2 DEF GetText
  <2>3. CASE InitialLoad \/ SaveToDisk
    <3>1. doc' = Loaded /\ UNCHANGED <<cache, cacheInUse>>
      BY <2>3 DEF InitialLoad, SaveToDisk
    <3>2. CASE cacheInUse
      BY <3>1, <3>2 DEF GetText
    <3>3. CASE ~cacheInUse /\ doc = {}
      BY <2>3, <3>1, <3>3 DEF GetText, Loaded
    <3>4. CASE ~cacheInUse /\ doc # {}
      BY <3>1, <3>4 DEF GetText, Loaded
    <3> QED
      BY <3>2, <3>3, <3>4
  <2> QED
    BY <2>1, <2>2, <2>3
    DEF Next, BeginHandler, EndHandler, WaitForFinished, Finished, GuiUpdate,
        RunUpdate, RunReload, Start, StealJob, Job, ReadForUpdate, AbandonUpdate,
        ReadForReload, text_vars
<1> QED
  BY Inductive, <1>1, PTL DEF Spec, TextChangesOnlyWhenSet
=============================================================================
