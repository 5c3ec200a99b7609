-------------------------- MODULE SearchSessionProps --------------------------
(* What SearchSession should guarantee, and what it does guarantee. *)
EXTENDS SearchSession

(* Guaranteed whatever the user does. *)

\* Between two searches nothing of the last one is left: the worker is back
\* in the main thread, and none of its signals can reach the next search.
QuietBetweenSearches ==
    thread = "none" => /\ home = "main" /\ wpc = "idle"
                       /\ ~quit
                       /\ events = << >>

\* The window is disabled from the moment searchStarted arrives until the
\* search is over, and markUiNotBusy() calls without a markUiBusy(), which a
\* search without blocks makes, do not count.
UiBusyMatchesSearch ==
    busy = IF \/ thread \in {"none", "starting"} \/ blocks = 0
              \/ \E i \in DOMAIN events : events[i].type = "started"
           THEN 0 ELSE 1

\* saveFiles() keeps File pointers over nested event loops: the card that
\* owns them is still open when they are exported.
JobCardAlive == job # NoJob => job.card = card

\* While a scan is displayed, its progress bar is shown and no timer of an
\* earlier scan is about to hide it; the bar that lingers after a scan is full.
BarFollowsScan ==
    /\ scanning => /\ progressVisible /\ ~hideTimer
                   /\ label = "scanning"
                   /\ busy > 0
    /\ hideTimer /\ progressVisible => bar[1] = bar[2]

\* Every search ends, and the main thread's wait() for the thread with it.
SearchEnds == thread # "none" ~> (thread = "none" \/ outcome # "alive")

\* The window does not stay disabled.
UiComesBack == busy > 0 ~> (busy = 0 \/ outcome # "alive")

\* A completed scan's progress bar goes away, or serves the next scan.
BarGoesAway ==
    (label = "complete" /\ progressVisible)
        ~> (~progressVisible \/ scanning \/ outcome # "alive")

-----------------------------------------------------------------------------
(* Guaranteed to a patient user only. *)

\* The worker's card and databases live as long as it uses them, and the
\* window is never deleted under a running search, which aborts the process.
NothingDangles == patient => ~Dangling /\ outcome # "abort"

\* A card lists only lost files that were found on it.
LostFilesAreOwn == patient => lost \in {NoCard, card}

\* The one QFile of a card is not read by two threads at once.
NoSharedReads ==
    patient => ~(dialog = "export" /\ WorkerUses /\ job.card = wCard)

=============================================================================
