----------------------------- MODULE MemCardModel -----------------------------
(***************************************************************************)
(* MemCardModel: the rows of the file list.  Its slots translate a card's  *)
(* signals into the begin and end calls a Qt model owes its views, and     *)
(* keep one animation helper per file with an animated icon.               *)
(*                                                                         *)
(* rows and change are the views' side of that protocol: the number of     *)
(* rows they know, and the change that was begun and not yet ended.        *)
(***************************************************************************)
EXTENDS GcnCard

VARIABLES
    attached,       \* d->card is the open card and its signals are connected
    fileCount,
    insertRange,    \* insertStart, insertEnd
    animState,      \* the files that have an IconAnimHelper
    animTimer,      \* the timer is running
    pauseCounter,
    rows, change    \* external: what the views know

modelVars == <<attached, fileCount, insertRange, animState, animTimer,
               pauseCounter, rows, change>>

NoRange == <<-1, -1>>
NoChange == [kind |-> "none", first |-> 0, last |-> 0]

File(row) == lstFiles[row + 1]

-----------------------------------------------------------------------------
(* QAbstractItemModel: a change that touches no row is not begun. *)

BeginRemoveRows(first, last) ==
    change' = [kind |-> "remove", first |-> first, last |-> last]
BeginInsertRows(first, last) ==
    change' = [kind |-> "insert", first |-> first, last |-> last]
EndRows ==
    LET n == change.last - change.first + 1 IN
    /\ rows' = IF change.kind = "insert" THEN rows + n
               ELSE IF change.kind = "remove" THEN rows - n ELSE rows
    /\ change' = NoChange
NoRows == UNCHANGED <<rows, change>>

-----------------------------------------------------------------------------
(* updateAnimTimerState(), initAnimState() *)

\* Seeded fault: the timer is started whether or not animation is paused.
TimerStateUnpaused(helpers) == helpers # {}

TimerState(helpers) == pauseCounter <= 0 /\ helpers # {}

WithHelpers(helpers, files) ==
    (helpers \ files) \cup {f \in files : Animated(f)}

\* Files of a range of rows.
FilesIn(first, last) == {File(r) : r \in first .. last}

-----------------------------------------------------------------------------
(* Slots *)

FilesAboutToBeInserted(first, last) ==
    /\ BeginInsertRows(first, last)
    /\ insertRange' = <<first, last>>
    /\ UNCHANGED <<attached, fileCount, animState, animTimer, pauseCounter, rows>>

FilesInserted ==
    /\ animState' = IF insertRange = NoRange THEN animState
                    ELSE WithHelpers(animState, FilesIn(insertRange[1], insertRange[2]))
    /\ insertRange' = NoRange
    /\ animTimer' = TimerState(animState')
    /\ fileCount' = Len(lstFiles)
    /\ EndRows
    /\ UNCHANGED <<attached, pauseCounter>>

\* Seeded fault: the helpers of the removed files stay.
KeepHelpers(first, last) ==
    /\ BeginRemoveRows(first, last)
    /\ UNCHANGED <<attached, fileCount, insertRange, animState, animTimer,
                   pauseCounter, rows>>

\* The timer is left running, also when the last helper goes.
FilesAboutToBeRemoved(first, last) ==
    /\ BeginRemoveRows(first, last)
    /\ animState' = animState \ FilesIn(first, last)
    /\ UNCHANGED <<attached, fileCount, insertRange, animTimer, pauseCounter, rows>>

\* Seeded fault: the row count is not read again.
FilesRemovedStaleCount ==
    /\ EndRows
    /\ UNCHANGED <<attached, fileCount, insertRange, animState, animTimer, pauseCounter>>

FilesRemoved ==
    /\ fileCount' = Len(lstFiles)
    /\ EndRows
    /\ UNCHANGED <<attached, insertRange, animState, animTimer, pauseCounter>>

-----------------------------------------------------------------------------
(* setCard(): the views hear of a change only if there is a file. *)

BeginDetach ==
    /\ IF attached /\ Len(lstFiles) > 0
       THEN BeginRemoveRows(0, Len(lstFiles) - 1) ELSE UNCHANGED change
    /\ UNCHANGED <<attached, fileCount, insertRange, animState, animTimer,
                   pauseCounter, rows>>

\* The helpers stay until a card is set again.
EndDetach ==
    /\ attached' = FALSE
    /\ fileCount' = IF attached THEN 0 ELSE fileCount
    /\ IF change # NoChange THEN EndRows ELSE NoRows
    /\ UNCHANGED <<insertRange, animState, animTimer, pauseCounter>>

BeginAttach ==
    /\ IF Len(lstFiles) > 0
       THEN BeginInsertRows(0, Len(lstFiles) - 1) ELSE UNCHANGED change
    /\ UNCHANGED <<attached, fileCount, insertRange, animState, animTimer,
                   pauseCounter, rows>>

\* initAnimState() drops every helper there was.
EndAttach ==
    /\ attached' = TRUE
    /\ fileCount' = Len(lstFiles)
    /\ animState' = WithHelpers({}, FilesIn(0, Len(lstFiles) - 1))
    /\ animTimer' = TimerState(animState')
    /\ IF change # NoChange THEN EndRows ELSE NoRows
    /\ UNCHANGED <<insertRange, pauseCounter>>

-----------------------------------------------------------------------------
(* Animation *)

PauseAnimation ==
    /\ pauseCounter' = pauseCounter + 1
    /\ animTimer' = FALSE
    /\ UNCHANGED <<attached, fileCount, insertRange, animState, rows, change>>

ResumeAnimation ==
    /\ pauseCounter' = IF pauseCounter > 0 THEN pauseCounter - 1 ELSE 0
    /\ animTimer' = (pauseCounter' <= 0 /\ animState # {})
    /\ UNCHANGED <<attached, fileCount, insertRange, animState, rows, change>>

\* animTimerSlot(): without a card the timer stops itself.  The frames are
\* left out.
AnimTick ==
    /\ animTimer
    /\ animTimer' = attached
    /\ UNCHANGED <<attached, fileCount, insertRange, animState, pauseCounter,
                   rows, change>>

ModelInit ==
    /\ attached = FALSE /\ fileCount = 0 /\ insertRange = NoRange
    /\ animState = {} /\ animTimer = FALSE /\ pauseCounter = 0
    /\ rows = 0 /\ change = NoChange
=============================================================================
