------------------------------ MODULE CardWidgets ------------------------------
(***************************************************************************)
(* The widgets beside the file list: FileView shows the current file and   *)
(* animates its icon, CardView the card's header and block count, and      *)
(* TableSelect a button per directory table and per block table.           *)
(***************************************************************************)
EXTENDS MemCardModel

VARIABLES
    shown,          \* FileView: d->file
    helper,         \* FileView: the file of its IconAnimHelper
    viewTimer,      \* FileView: animTimer is running
    viewed,         \* CardView and TableSelect have the card
    headerIcon,     \* CardView: "Memory card header is corrupted." is shown
    countIcon,      \* CardView: "Free block count is incorrect." is shown
    datButton,      \* TableSelect: the checked button, -1 none
    batButton

fileViewVars == <<shown, helper, viewTimer>>
cardViewVars == <<viewed, headerIcon, countIcon, datButton, batButton>>
widgetVars == <<fileViewVars, cardViewVars>>

-----------------------------------------------------------------------------
(* FileView *)

\* setFile(): without a file the helper and the timer keep what they have.
SetFile(f) ==
    /\ shown' = f
    /\ IF f = None THEN UNCHANGED <<helper, viewTimer>>
       ELSE /\ helper' = f
            /\ viewTimer' = (pauseCounter <= 0 /\ Animated(f))

\* Seeded fault: the helper does not hear that its file was deleted.
HelperNotTold(files) ==
    /\ shown' = IF shown \in files THEN None ELSE shown
    /\ UNCHANGED <<helper, viewTimer>>

\* file_destroyed_slot() of the view and of its helper.
FilesDestroyed(files) ==
    /\ shown' = IF shown \in files THEN None ELSE shown
    /\ helper' = IF helper \in files THEN None ELSE helper
    /\ UNCHANGED viewTimer

HelperAnimates == helper # None /\ Animated(helper)

ViewPauseChanged ==
    /\ viewTimer' = (pauseCounter' <= 0 /\ shown # None /\ HelperAnimates)
    /\ UNCHANGED <<shown, helper>>

ViewTick ==
    /\ viewTimer
    /\ viewTimer' = (shown # None /\ HelperAnimates /\ pauseCounter <= 0)
    /\ UNCHANGED <<shown, helper>>

-----------------------------------------------------------------------------
(* CardView, TableSelect *)

\* isFreeBlockCountValid(activeBatIdx()): a block table is valid only if its
\* free count is, so that the bits nobody initialises are never looked at.
CountInvalid == batActive = -1

\* updateBlockCountDisplay(): the branch for a valid count hides the icon of
\* the header.
BlockCountChanged ==
    /\ countIcon' = (countIcon \/ CountInvalid)
    /\ headerIcon' = (headerIcon /\ CountInvalid)
    /\ UNCHANGED <<viewed, datButton, batButton>>

\* A checked button of an exclusive group cannot be unchecked, so that
\* setChecked(false) on every button leaves the display alone.
ButtonsFor(active, button) == IF active = -1 THEN button ELSE active

\* CardView::updateWidgetDisplay() with a card, TableSelect's included.
ShowCard ==
    /\ countIcon' = (countIcon \/ CountInvalid)
    /\ headerIcon' = ~Img.header
    /\ datButton' = ButtonsFor(datActive, datButton)
    /\ batButton' = ButtonsFor(batActive, batButton)

SetViewedCard == ShowCard /\ viewed' = TRUE

\* Without a card every label is hidden; the buttons stay as they are.
ClearViewedCard ==
    /\ viewed' = FALSE /\ headerIcon' = FALSE /\ countIcon' = FALSE
    /\ UNCHANGED <<datButton, batButton>>

WidgetInit ==
    /\ shown = None /\ helper = None /\ viewTimer = FALSE
    /\ viewed = FALSE /\ headerIcon = FALSE /\ countIcon = FALSE
    /\ datButton = -1 /\ batButton = -1
=============================================================================
