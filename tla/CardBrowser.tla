------------------------------ MODULE CardBrowser ------------------------------
(***************************************************************************)
(* McRecoverWindow between two searches: the user opens and closes cards,  *)
(* picks directory and block tables, selects files; a search that ended    *)
(* replaces the lost files.  Everything runs in the main thread: a handler *)
(* runs to its end (todo = << >>) before the next event, but the views see *)
(* the card and its model at every signal on the way.                      *)
(***************************************************************************)
EXTENDS CardWidgets

CONSTANTS MaxLost       \* bound on the lost files of one search

MaxEntries(i) == IF Len(i.dats[0].entries) > Len(i.dats[1].entries)
                 THEN Len(i.dats[0].entries) ELSE Len(i.dats[1].entries)

\* There are addresses for the files of every image.
ASSUME BoundsAssumption ==
    /\ MaxLost \in Nat
    /\ \A i \in Images : MaxEntries(i) <= Cardinality(Objects)

vars == <<cardVars, modelVars, widgetVars>>

Idle == todo = << >>
Doing(op) == todo # << >> /\ Head(todo).op = op
StepDone == /\ todo' = Tail(todo)
            /\ UNCHANGED <<tableVars, heap, lstFiles, usedBlockMap>>

-----------------------------------------------------------------------------
(* Opening and closing *)

CloseSteps == << Step("detach"), Step("detached"), Step("clearViews"), Step("delete") >>

\* openCard(), closeCard()
OpenCard ==
    /\ Idle
    /\ todo' = (IF IsOpen THEN CloseSteps ELSE << >>) \o << Step("open") >>
    /\ UNCHANGED <<tableVars, heap, lstFiles, usedBlockMap, modelVars, widgetVars>>

CloseCard ==
    /\ Idle /\ IsOpen
    /\ todo' = CloseSteps
    /\ UNCHANGED <<tableVars, heap, lstFiles, usedBlockMap, modelVars, widgetVars>>

\* The image is read before anything listens to the card; a card that cannot
\* be opened is closed again.
Open ==
    /\ Doing("open")
    /\ \/ /\ \E i \in Images : OpenImage(i)
          /\ todo' = << Step("attach"), Step("attached"), Step("showCard") >>
       \/ /\ todo' = CloseSteps
          /\ UNCHANGED <<tableVars, heap, lstFiles, usedBlockMap>>
    /\ UNCHANGED <<modelVars, widgetVars>>

Delete ==
    /\ Doing("delete")
    /\ DeleteCard
    /\ todo' = Tail(todo)
    /\ FilesDestroyed(DOMAIN heap)
    /\ UNCHANGED <<modelVars, cardViewVars>>

Attach == /\ Doing("attach") /\ StepDone /\ BeginAttach /\ UNCHANGED widgetVars
Attached == /\ Doing("attached") /\ StepDone /\ EndAttach /\ UNCHANGED widgetVars
Detached == /\ Doing("detached") /\ StepDone /\ EndDetach /\ UNCHANGED widgetVars

ShowViews ==
    /\ Doing("showCard") /\ StepDone
    /\ SetViewedCard
    /\ UNCHANGED <<modelVars, fileViewVars>>

ClearViews ==
    /\ Doing("clearViews") /\ StepDone
    /\ ClearViewedCard /\ SetFile(None)
    /\ UNCHANGED modelVars

-----------------------------------------------------------------------------
(* The card's signals, and the code between them *)

\* External: when rows go away, the selection moves on, to no file or to one
\* that stays.  A current file that is not selected is not given up.
SelectionMoves(first, last) ==
    \/ UNCHANGED fileViewVars
    \/ \E f \in {None} \cup (ToSet(lstFiles) \ FilesIn(first, last)) : SetFile(f)

Detach ==
    /\ Doing("detach") /\ StepDone /\ BeginDetach
    /\ IF attached /\ Len(lstFiles) > 0
       THEN SelectionMoves(0, Len(lstFiles) - 1) ELSE UNCHANGED fileViewVars
    /\ UNCHANGED cardViewVars

EmitAboutToBeRemoved ==
    /\ Doing("aboutToBeRemoved") /\ Emitted
    /\ FilesAboutToBeRemoved(Head(todo).first, Head(todo).last)
    /\ SelectionMoves(Head(todo).first, Head(todo).last)
    /\ UNCHANGED cardViewVars

EmitRemoved ==
    /\ Doing("removed") /\ Emitted /\ FilesRemoved /\ UNCHANGED widgetVars

EmitAboutToBeInserted ==
    /\ Doing("aboutToBeInserted") /\ Emitted
    /\ FilesAboutToBeInserted(Head(todo).first, Head(todo).last)
    /\ UNCHANGED widgetVars

EmitInserted ==
    /\ Doing("inserted") /\ Emitted /\ FilesInserted /\ UNCHANGED widgetVars

EmitBlockCount ==
    /\ Doing("blockCount") /\ Emitted /\ BlockCountChanged
    /\ UNCHANGED <<modelVars, fileViewVars>>

EmitTableChanged ==
    /\ \/ /\ Doing("datChanged") /\ datButton' = Head(todo).idx /\ UNCHANGED batButton
       \/ /\ Doing("batChanged") /\ batButton' = Head(todo).idx /\ UNCHANGED datButton
    /\ Emitted
    /\ UNCHANGED <<modelVars, fileViewVars, viewed, headerIcon, countIcon>>

CardStep ==
    \/ /\ Doing("deleteAll") /\ DeleteAll /\ FilesDestroyed(ToSet(lstFiles))
       /\ UNCHANGED <<modelVars, cardViewVars>>
    \/ /\ \/ Doing("load") /\ Load
          \/ Doing("append") /\ AppendFiles
          \/ Doing("remove") /\ RemoveRow
          \/ Doing("removeLost") /\ RemoveLostFiles
          \/ Doing("addLost") /\ AddLostFiles
       /\ UNCHANGED <<modelVars, widgetVars>>

-----------------------------------------------------------------------------
(* Events *)

\* A click checks the button before the slot runs.
ClickDat(t) ==
    /\ Idle /\ viewed
    /\ SetActiveDatIdx(t) /\ datButton' = t
    /\ UNCHANGED <<modelVars, fileViewVars, viewed, headerIcon, countIcon, batButton>>

ClickBat(t) ==
    /\ Idle /\ viewed
    /\ SetActiveBatIdx(t) /\ batButton' = t
    /\ UNCHANGED <<modelVars, fileViewVars, viewed, headerIcon, countIcon, datButton>>

\* searchThread_searchFinished_slot().  The guard keeps an address for every
\* file a table can list beside the lost files, listed or not.
SearchFinished ==
    /\ Idle /\ IsOpen
    /\ \E n \in 0 .. MaxLost, anim \in BOOLEAN :
         /\ Cardinality({f \in DOMAIN heap : Lost(f)}) + n + MaxEntries(Img)
                <= Cardinality(Objects)
         /\ todo' = << Step("removeLost"), LostFound([k \in 1 .. n |-> LostFile(anim)]) >>
    /\ UNCHANGED <<tableVars, heap, lstFiles, usedBlockMap, modelVars, widgetVars>>

\* The user picks a file, or none.
SelectFile ==
    /\ Idle /\ attached
    /\ \E f \in {None} \cup ToSet(lstFiles) : SetFile(f)
    /\ UNCHANGED <<cardVars, modelVars, cardViewVars>>

Minimize ==
    /\ Idle /\ pauseCounter = 0
    /\ PauseAnimation /\ ViewPauseChanged
    /\ UNCHANGED <<cardVars, cardViewVars>>

Restore ==
    /\ Idle /\ pauseCounter > 0
    /\ ResumeAnimation /\ ViewPauseChanged
    /\ UNCHANGED <<cardVars, cardViewVars>>

\* A LanguageChange event reaches every widget.
ChangeLanguage ==
    /\ Idle
    /\ SetFile(shown)
    /\ IF viewed THEN ShowCard /\ UNCHANGED viewed ELSE ClearViewedCard
    /\ UNCHANGED <<cardVars, modelVars>>

Tick ==
    /\ Idle
    /\ \/ AnimTick /\ UNCHANGED fileViewVars
       \/ ViewTick /\ UNCHANGED modelVars
    /\ UNCHANGED <<cardVars, cardViewVars>>

Init == CardInit /\ ModelInit /\ WidgetInit

Next ==
    \/ OpenCard \/ CloseCard \/ Open \/ Delete
    \/ Attach \/ Attached \/ Detach \/ Detached \/ ShowViews \/ ClearViews
    \/ EmitAboutToBeRemoved \/ EmitRemoved
    \/ EmitAboutToBeInserted \/ EmitInserted
    \/ EmitBlockCount \/ EmitTableChanged \/ CardStep
    \/ \E t \in TableIdx : ClickDat(t) \/ ClickBat(t)
    \/ SearchFinished \/ SelectFile
    \/ Minimize \/ Restore \/ ChangeLanguage \/ Tick

Spec == Init /\ [][Next]_vars
=============================================================================
