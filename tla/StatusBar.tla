------------------------------ MODULE StatusBar ------------------------------
(***************************************************************************)
(* StatusBarManager: what the status bar says and whether the progress bar *)
(* is shown.  Its slots run on the main thread; SearchSession calls them.  *)
(* Texts are abstracted to the slot that wrote them.                       *)
(***************************************************************************)
EXTENDS Naturals

VARIABLES
    scanning,           \* d->scanning
    current, total,     \* currentSearchBlock, totalSearchBlocks
    message,            \* lastStatusMessage
    label,              \* the text of lblMessage
    progressVisible,    \* progressBar->isVisible()
    bar,                \* <<value, maximum>> of progressBar
    hideTimer           \* tmrHideProgressBar is running

statusVars == <<scanning, current, total, message, label, progressVisible,
                bar, hideTimer>>

StatusTexts == {"ready", "scanning", "loaded", "closed", "saved", "complete",
                "error"}

StatusInit ==
    /\ scanning = FALSE
    /\ current = 0 /\ total = 0
    /\ message = "ready" /\ label = "ready"
    /\ progressVisible = FALSE
    /\ bar = <<0, 0>>
    /\ hideTimer = FALSE

\* The fields a slot has just set, and the bar as it left it, become visible.
UpdateStatusBar(isScanning, text, cur, tot, visible) ==
    LET shown == IF isScanning THEN "scanning" ELSE text
    IN  /\ scanning' = isScanning
        /\ current' = cur /\ total' = tot
        /\ message' = shown /\ label' = shown
        /\ progressVisible' = (isScanning \/ visible)
        /\ bar' = IF isScanning \/ visible THEN <<cur, tot>> ELSE bar

\* opened(), closed() and filesSaved() differ in their text only.
SayAndHide(text) ==
    /\ UpdateStatusBar(FALSE, text, current, total, FALSE)
    /\ hideTimer' = FALSE

\* Seeded fault: the timer of the last scan goes on.
StartedWithTimer(n) ==
    /\ UpdateStatusBar(TRUE, message, 0, n, progressVisible)
    /\ UNCHANGED hideTimer

StatusStarted(n) ==
    /\ UpdateStatusBar(TRUE, message, 0, n, progressVisible)
    /\ hideTimer' = FALSE

StatusUpdate(n) ==
    /\ UpdateStatusBar(scanning, message, n, total, progressVisible)
    /\ UNCHANGED hideTimer

\* Seeded fault: the timer is not started.
FinishedForGood ==
    /\ UpdateStatusBar(FALSE, "complete", total, total, progressVisible)
    /\ UNCHANGED hideTimer

StatusFinished ==
    /\ UpdateStatusBar(FALSE, "complete", total, total, progressVisible)
    /\ hideTimer' = TRUE

\* The text is stored, but updateStatusBar() is not called.
StatusError ==
    /\ scanning' = FALSE
    /\ message' = "error"
    /\ UNCHANGED <<current, total, label, progressVisible, bar, hideTimer>>

StatusHide ==
    /\ hideTimer
    /\ hideTimer' = FALSE
    /\ UpdateStatusBar(scanning, message, current, total, FALSE)

\* setSearchThread(): everything is cleared the first time, nothing after.
StatusSetSearchThread(first) ==
    IF first
    THEN /\ UpdateStatusBar(FALSE, message, current, 0, progressVisible)
         /\ UNCHANGED hideTimer
    ELSE UNCHANGED statusVars
=============================================================================
