--------------------------- MODULE CardBrowserProps ---------------------------
(* What CardBrowser guarantees while files come and go under the views. *)
EXTENDS CardBrowser

StepNames == {"detach", "detached", "clearViews", "delete", "open", "attach",
    "attached", "showCard", "aboutToBeRemoved", "aboutToBeInserted", "removed",
    "inserted", "deleteAll", "load", "append", "remove", "blockCount",
    "removeLost", "addLost", "datChanged", "batChanged"}

\* The variables have their types.
TypeOK ==
    /\ image = << >> \/ image[1] \in Images
    /\ dat \in TableIdx /\ bat \in TableIdx
    /\ datActive \in {-1, 0, 1} /\ batActive \in {-1, 0, 1}
    /\ freeBlocks \in Nat
    /\ DOMAIN heap \subseteq Objects
    /\ \A f \in DOMAIN heap : /\ Lost(f) \in BOOLEAN /\ Animated(f) \in BOOLEAN
                              /\ Len(heap[f].chain) <= UserBlocks
    /\ lstFiles \in Seq(DOMAIN heap) /\ IsInjective(lstFiles)
    /\ usedBlockMap \in [0 .. TotalPhys - 1 -> 0 .. MaxCount]
    /\ \A n \in DOMAIN todo : todo[n].op \in StepNames
    /\ attached \in BOOLEAN /\ fileCount \in Nat
    /\ insertRange \in (Nat \cup {-1}) \X (Nat \cup {-1})
    /\ animState \subseteq Objects /\ animTimer \in BOOLEAN
    /\ pauseCounter \in 0 .. 1
    /\ rows \in Nat /\ change.kind \in {"none", "insert", "remove"}
    /\ shown \in Objects \cup {None} /\ helper \in Objects \cup {None}
    /\ {viewTimer, viewed, headerIcon, countIcon} \subseteq BOOLEAN
    /\ datButton \in {-1, 0, 1} /\ batButton \in {-1, 0, 1}

-----------------------------------------------------------------------------
(* The card *)

\* A block's use count is the number of times the files of the list visit it,
\* up to the counter's limit; lost files do not count.  The search skips the
\* blocks this map marks.
UsedBlocksCounted ==
    Idle /\ IsOpen =>
        \A b \in FirstBlock .. TotalPhys - 1 :
            usedBlockMap[b] =
              Saturated(Cardinality(
                {v \in ToSet(lstFiles) \X (1 .. FatSize) :
                    /\ ~Lost(v[1])
                    /\ v[2] \in DOMAIN heap[v[1]].chain /\ heap[v[1]].chain[v[2]] = b}))

\* The list is the selected directory table read through the selected block
\* table, followed by the lost files.
ListFollowsTables ==
    Idle /\ IsOpen =>
        LET fresh == FilesOfTables(Img, dat, bat) IN
        /\ Len(fresh) <= Len(lstFiles)
        /\ \A n \in DOMAIN lstFiles :
             IF n <= Len(fresh) THEN heap[lstFiles[n]] = fresh[n] ELSE Lost(lstFiles[n])

\* The card is opened with a valid table whenever it has one, and of two
\* valid ones with the one updated last.
OpenedWithBestTables ==
    IsOpen =>
        /\ IF datActive = -1 THEN \A t \in TableIdx : ~DatValid(Img, t)
           ELSE /\ DatValid(Img, datActive)
                /\ DatValid(Img, 1 - datActive) =>
                     Img.dats[datActive].updated >= Img.dats[1 - datActive].updated
        /\ IF batActive = -1 THEN \A t \in TableIdx : ~BatValid(Img, t)
           ELSE /\ BatValid(Img, batActive)
                /\ BatValid(Img, 1 - batActive) =>
                     Img.bats[batActive].updated >= Img.bats[1 - batActive].updated

-----------------------------------------------------------------------------
(* The model and its views *)

\* The views are never told of rows they cannot know, and between two changes
\* they know as many rows as the model has and the card has files.
RowsInStep ==
    /\ change.kind = "remove" => change.first >= 0 /\ change.last < rows
    /\ change.kind = "insert" => change.first <= rows /\ change.first <= change.last
    /\ change.kind = "none" => fileCount = rows
    /\ Idle => /\ change.kind = "none"
               /\ rows = IF attached THEN Len(lstFiles) ELSE 0

\* Exactly the listed files with an animated icon have an animation helper.
HelpersMatchFiles ==
    Idle /\ attached => animState = {f \in ToSet(lstFiles) : Animated(f)}

\* The file view and its animation helper never keep a deleted file.
NoDanglingFile ==
    /\ shown \in DOMAIN heap \cup {None}
    /\ helper \in DOMAIN heap \cup {None}

\* While the window is minimized the list is not animated; otherwise it is,
\* if it has an animated icon.
AnimationFollowsPause ==
    /\ pauseCounter > 0 => ~animTimer
    /\ Idle /\ attached /\ pauseCounter = 0 /\ animState # {} => animTimer
=============================================================================
