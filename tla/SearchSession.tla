---------------------------- MODULE SearchSession ----------------------------
(***************************************************************************)
(* A session of McRecoverWindow: the main thread opens, closes, scans and  *)
(* saves while GcnSearchThread searches the card on a worker thread.  The  *)
(* main thread runs one slot at a time; queued signals are handled by its  *)
(* event loop, which also runs inside a modal dialog, but not while a slot *)
(* waits for the thread or exports files.                                  *)
(*                                                                         *)
(* A patient user lets a click on Scan take effect before touching the     *)
(* window again and drops no file on it during a scan.                     *)
(***************************************************************************)
EXTENDS SearchThread, StatusBar

CONSTANTS MaxFiles      \* bound on the files saved in one go

ASSUME MaxFilesAssumption == MaxFiles \in Nat \ {0}

VARIABLES
    outcome,        \* of the process: "alive", "closed", "abort"
    card,           \* d->card
    kind,           \* of the card: "gcn", "full" (a GcnCard without a free
                    \* block) or "other" (GciCard, VmuCard)
    lost,           \* the searched card whose lost files d->card lists
    busy,           \* uiBusyCounter
    dialog,         \* what blocks the window: "none", "open", "save",
                    \* "export" (no event loop), "prompt" (overwrite?)
    job,            \* saveFiles(): the card its File pointers belong to,
                    \* number of files, number still to do
    slot,           \* the slot waiting in stopWorkerThread()
    attached,       \* statusBarManager->setSearchThread() was called
    patient         \* of the user: see above

windowVars == <<card, kind, lost, dialog, job>>
vars == <<threadVars, statusVars, windowVars, outcome, busy, slot, attached,
          patient>>

NoJob == [card |-> NoCard, files |-> 0, left |-> 0]

-----------------------------------------------------------------------------
\* The event loop of the main thread is running.
Loop == outcome = "alive" /\ slot = "none" /\ dialog # "export"

\* Seeded fault: the menu stays enabled during a scan.
ClickWhileBusy ==
    /\ Loop /\ dialog = "none"
    /\ patient => thread = "none" \/ busy > 0

\* Menu, toolbar and widgets: no modal dialog, not disabled by markUiBusy().
CanClick ==
    /\ Loop /\ dialog = "none" /\ busy = 0
    /\ patient => thread = "none" \/ busy > 0

\* Seeded fault: a drop is accepted beside a modal dialog.
DropBesideDialog == Loop /\ (patient => thread = "none")

\* The window itself stays enabled, and it is the window that accepts drops.
CanDrop ==
    /\ Loop /\ dialog = "none"
    /\ patient => thread = "none"

\* The worker may touch the card and the databases it was given.
WorkerUses == thread = "starting" \/ wpc = "scan"

\* ... and one of them is gone.
Dangling == WorkerUses /\ (wCard # card \/ ~wDbsAlive)

\* Seeded faults: the counter goes below zero; it is never decremented.
CountBelowZero == busy' = busy - 1
NeverNotBusy == busy' = busy

MarkUiBusy == busy' = busy + 1
MarkUiNotBusy == busy' = IF busy <= 0 THEN busy ELSE busy - 1

\* A card object that no pointer in use refers to.
Fresh(c) == c # card /\ (thread # "none" => c # wCard) /\ c # job.card

-----------------------------------------------------------------------------
Init ==
    /\ ThreadInit /\ StatusInit
    /\ outcome = "alive"
    /\ card = NoCard /\ kind = "other" /\ lost = NoCard
    /\ busy = 0 /\ dialog = "none" /\ job = NoJob
    /\ slot = "none" /\ attached = FALSE
    /\ patient \in BOOLEAN

\* openCard(): the old card is deleted first.  When the new one cannot be
\* opened, closeCard(true) leaves the status bar alone.
OpenCard ==
    /\ lost' = NoCard
    /\ \/ /\ \E c \in Cards : Fresh(c) /\ card' = c
          /\ kind' \in {"gcn", "full", "other"}
          /\ SayAndHide("loaded")
       \/ /\ card' = NoCard /\ kind' = "other"
          /\ UNCHANGED statusVars
    /\ UNCHANGED <<threadVars, job, outcome, busy, slot, attached, patient>>

CloseCard ==
    /\ card' = NoCard /\ kind' = "other" /\ lost' = NoCard
    /\ SayAndHide("closed")

\* Open... shows a modal dialog; the user picks a file or cancels.
ActionOpen ==
    /\ CanClick
    /\ dialog' = "open"
    /\ UNCHANGED <<threadVars, statusVars, card, kind, lost, job, outcome,
                   busy, slot, attached, patient>>

OpenChosen == Loop /\ dialog = "open" /\ dialog' = "none" /\ OpenCard

DialogCancelled ==
    /\ Loop /\ dialog \in {"open", "save"}
    /\ dialog' = "none" /\ job' = NoJob
    /\ UNCHANGED <<threadVars, statusVars, card, kind, lost, outcome, busy,
                   slot, attached, patient>>

Drop == CanDrop /\ OpenCard /\ UNCHANGED dialog

ActionClose ==
    /\ CanClick /\ card # NoCard
    /\ CloseCard
    /\ UNCHANGED <<threadVars, dialog, job, outcome, busy, slot, attached,
                   patient>>

\* Deleting the window deletes the card and the GcnSearchThread; Qt aborts
\* the process when a QThread is deleted before it has ended.
DeleteWindow == outcome' = IF thread = "none" THEN "closed" ELSE "abort"

\* closeEvent() ignores the request while the UI is busy.
CloseWindow ==
    /\ CanClick
    /\ DeleteWindow
    /\ card' = NoCard /\ kind' = "other" /\ lost' = NoCard
    /\ UNCHANGED <<threadVars, statusVars, dialog, job, busy, slot, attached,
                   patient>>

ActionExit ==
    /\ CanClick
    /\ CloseCard
    /\ DeleteWindow
    /\ UNCHANGED <<threadVars, dialog, job, busy, slot, attached, patient>>

-----------------------------------------------------------------------------
\* Scan: no database could be loaded, the old ones are gone all the same.
ScanWithoutDbs ==
    /\ CanClick /\ kind # "other"
    /\ DeleteDbs
    /\ UNCHANGED <<statusVars, windowVars, outcome, busy, slot, attached,
                   patient>>

ScanStarts ==
    /\ CanClick /\ kind # "other" /\ thread = "none"
    /\ \E all \in BOOLEAN : SearchAsync(card, all)
    /\ lost' = NoCard
    /\ StatusSetSearchThread(~attached)
    /\ attached' = TRUE
    /\ UNCHANGED <<card, kind, dialog, job, outcome, busy, slot, patient>>

\* A search is running already.  Both searchMemCard_async() and
\* searchMemCard() return -255, but the databases have been replaced and the
\* lost files removed before they are asked.
ScanAgain ==
    /\ CanClick /\ kind # "other" /\ thread # "none"
    /\ DeleteDbs
    /\ lost' = NoCard
    /\ StatusSetSearchThread(~attached)
    /\ UNCHANGED <<card, kind, dialog, job, outcome, busy, slot, attached,
                   patient>>

-----------------------------------------------------------------------------
\* Save: the File pointers are collected before the modal dialog.
ActionSave ==
    /\ CanClick /\ card # NoCard
    /\ dialog' = "save"
    /\ \E n \in 1 .. MaxFiles : job' = [card |-> card, files |-> n, left |-> n]
    /\ UNCHANGED <<threadVars, statusVars, card, kind, lost, outcome, busy,
                   slot, attached, patient>>

PathChosen ==
    /\ Loop /\ dialog = "save"
    /\ dialog' = "export"
    /\ UNCHANGED <<threadVars, statusVars, card, kind, lost, job, outcome,
                   busy, slot, attached, patient>>

\* Several files: a file that exists is asked about.
AskOverwrite ==
    /\ outcome = "alive" /\ dialog = "export"
    /\ job.files > 1 /\ job.left > 0
    /\ dialog' = "prompt"
    /\ UNCHANGED <<threadVars, statusVars, card, kind, lost, job, outcome,
                   busy, slot, attached, patient>>

\* Answered: whether the file is exported or not, it is done with.
Overwrite ==
    /\ Loop /\ dialog = "prompt"
    /\ dialog' = "export"
    /\ job' = [job EXCEPT !.left = @ - 1]
    /\ UNCHANGED <<threadVars, statusVars, card, kind, lost, outcome, busy,
                   slot, attached, patient>>

Export ==
    /\ outcome = "alive" /\ dialog = "export" /\ job.left > 0
    /\ job' = [job EXCEPT !.left = @ - 1]
    /\ UNCHANGED <<threadVars, statusVars, card, kind, lost, dialog, outcome,
                   busy, slot, attached, patient>>

FilesSaved ==
    /\ outcome = "alive" /\ dialog = "export" /\ job.left = 0
    /\ dialog' = "none" /\ job' = NoJob
    /\ SayAndHide("saved")
    /\ UNCHANGED <<threadVars, card, kind, lost, outcome, busy, slot, attached,
                   patient>>

-----------------------------------------------------------------------------
\* Queued signals, delivered by the event loop in the order of emission.
Receive(type) ==
    /\ Loop /\ events # << >> /\ Head(events).type = type
    /\ events' = Tail(events)

SearchStarted ==
    /\ Receive("started")
    /\ MarkUiBusy
    /\ StatusStarted(Head(events).n)
    /\ UNCHANGED <<thread, quit, home, wpc, wCard, wAll, wDbsAlive, blocks,
                   pos,
                   filesFound, windowVars, outcome, slot, attached, patient>>

SearchUpdate ==
    /\ Receive("update")
    /\ StatusUpdate(Head(events).n)
    /\ UNCHANGED <<thread, quit, home, wpc, wCard, wAll, wDbsAlive, blocks,
                   pos,
                   filesFound, windowVars, outcome, busy, slot,
                   attached, patient>>

\* searchFinished_slot() and searchError_slot() first stop the thread.
SearchOver(type) ==
    /\ Receive(type)
    /\ AskThreadToStop
    /\ slot' = type
    /\ UNCHANGED <<statusVars, windowVars, outcome, busy, attached, patient>>

\* ... and then emit the signal: the window takes the files found for
\* d->card, whichever card that is by now.
SearchFinished ==
    /\ outcome = "alive" /\ slot = "finished"
    /\ DeleteThread
    /\ lost' = IF kind = "other" THEN lost ELSE filesFound.card
    /\ MarkUiNotBusy
    /\ StatusFinished
    /\ slot' = "none"
    /\ UNCHANGED <<card, kind, dialog, job, outcome, attached, patient>>

SearchError ==
    /\ outcome = "alive" /\ slot = "error"
    /\ DeleteThread
    /\ MarkUiNotBusy
    /\ StatusError
    /\ slot' = "none"
    /\ UNCHANGED <<windowVars, outcome, attached, patient>>

HideTimer ==
    /\ Loop
    /\ StatusHide
    /\ UNCHANGED <<threadVars, windowVars, outcome, busy, slot, attached,
                   patient>>

-----------------------------------------------------------------------------
\* Blocks the worker finds to search; a deleted card may show anything.
BlockCounts ==
    IF wCard # card THEN 0 .. MaxBlocks
    ELSE IF kind = "full" /\ ~wAll THEN {0} ELSE 1 .. MaxBlocks

WorkerStep ==
    /\ outcome = "alive"
    /\ \/ \E n \in BlockCounts : WorkerBegin(n)
       \/ WorkerBlock \/ WorkerEnd \/ WorkerMove \/ ThreadEnd
    /\ UNCHANGED <<statusVars, windowVars, outcome, busy, slot, attached,
                   patient>>

\* Using a deleted object may also end the process.
Crash ==
    /\ outcome = "alive" /\ Dangling
    /\ outcome' = "abort"
    /\ UNCHANGED <<threadVars, statusVars, windowVars, busy, slot, attached,
                   patient>>

Terminated == outcome # "alive" /\ UNCHANGED vars

User ==
    \/ ActionOpen \/ OpenChosen \/ DialogCancelled \/ Drop \/ ActionClose
    \/ CloseWindow \/ ActionExit \/ ScanWithoutDbs \/ ScanStarts \/ ScanAgain
    \/ ActionSave \/ PathChosen \/ Overwrite

Deliver ==
    \/ SearchStarted \/ SearchUpdate
    \/ \E type \in {"finished", "error"} : SearchOver(type)

\* A slot that has begun goes on.
Continue == SearchFinished \/ SearchError \/ AskOverwrite \/ Export \/ FilesSaved

Next == User \/ Deliver \/ Continue \/ HideTimer \/ WorkerStep \/ Crash \/ Terminated

Spec == Init /\ [][Next]_vars

\* The operating system schedules both threads.  An event loop that is entered
\* again and again, whatever slots run in between, delivers what is queued
\* and due.  Nothing is assumed of the user.
FairSpec ==
    /\ Spec
    /\ WF_vars(Continue)
    /\ WF_vars(WorkerStep)
    /\ SF_vars(Deliver)
    /\ SF_vars(HideTimer)
=============================================================================
