------------------------- MODULE SearchSessionProofs -------------------------
(***************************************************************************)
(* Proofs about SearchSession.  Three facts carry everything: the queue of *)
(* signals has the shape in which one search emits them (Queue); the       *)
(* thread, the worker inside it and the slot that waits for it are in step *)
(* (Phase); and a patient user's window neither changes nor opens a dialog *)
(* while the search thread exists (Patience).                              *)
(***************************************************************************)
EXTENDS SearchSessionProps, SequenceTheorems, TLAPS

EventTypes == {"started", "update", "finished", "error"}
EndTypes == {"finished", "error"}

Events == [type : EventTypes, n : Nat]

AnyCard == Cards \cup {NoCard}

ThreadTypeOK ==
    /\ thread \in {"none", "starting", "running", "exec", "ended"}
    /\ quit \in BOOLEAN
    /\ home \in {"main", "worker"}
    /\ wpc \in {"idle", "begin", "scan", "move"}
    /\ wCard \in AnyCard
    /\ wAll \in BOOLEAN
    /\ wDbsAlive \in BOOLEAN
    /\ blocks \in Nat
    /\ pos \in Nat
    /\ filesFound \in [card : AnyCard, n : Nat]
    /\ events \in Seq(Events)
    /\ slot \in {"none", "finished", "error"}

StatusTypeOK ==
    /\ scanning \in BOOLEAN
    /\ current \in Nat /\ total \in Nat
    /\ message \in StatusTexts
    /\ label \in StatusTexts
    /\ progressVisible \in BOOLEAN
    /\ bar \in Nat \X Nat
    /\ hideTimer \in BOOLEAN

WindowTypeOK ==
    /\ outcome \in {"alive", "closed", "abort"}
    /\ card \in AnyCard
    /\ kind \in {"gcn", "full", "other"}
    /\ lost \in AnyCard
    /\ dialog \in {"none", "open", "save", "export", "prompt"}
    /\ job \in [card : AnyCard, files : Nat, left : Nat]
    /\ attached \in BOOLEAN
    /\ patient \in BOOLEAN

-----------------------------------------------------------------------------
\* The search has begun and its thread has not been deleted.
Begun == thread \in {"running", "exec", "ended"}

\* Where the worker is follows from where its thread is.
WorkerInThread ==
    /\ thread = "none" => wpc = "idle" /\ home = "main"
    /\ thread = "starting" => wpc = "begin"
    /\ thread = "running" => wpc \in {"scan", "move"}
    /\ thread \in {"exec", "ended"} => wpc = "idle" /\ home = "main"
    /\ wpc = "scan" => blocks > 0

\* quit() is called by the slot that then waits, once the search is over.
SlotWaits ==
    /\ quit = (slot # "none")
    /\ thread = "ended" => quit
    /\ slot # "none" => Begun /\ wpc # "scan" /\ events = << >>

\* The signals of one search: "started" first, then the updates, its end
\* last; "error" stands alone, and only a search without blocks emits it.
Queue ==
    /\ ~Begun => events = << >>
    /\ \A i \in DOMAIN events :
          /\ events[i].type = "started" => i = 1
          /\ events[i].type \in EndTypes => i = Len(events) /\ wpc # "scan"
          /\ (events[i].type = "error") = (blocks = 0)

\* The end of a search that is over is queued until its slot runs.
EndQueued ==
    Begun /\ slot = "none" /\ wpc # "scan" =>
        /\ events # << >>
        /\ events[Len(events)].type \in EndTypes

\* File pointers are held by the dialogs of saveFiles(), and only by them.
JobInDialog ==
    /\ dialog \in {"none", "open"} => job = NoJob
    /\ dialog \notin {"none", "open"} => job.card = card
    /\ dialog = "prompt" => job.left > 0

\* The timer of the last scan and the next scan exclude each other, and
\* both come after the first setSearchThread().
TimerInv ==
    /\ hideTimer => busy = 0 /\ attached
    /\ thread # "none" => attached

\* What was found so far was found on the worker's card.
FoundOnCard == Begun => filesFound.card \in {NoCard, wCard}

\* While the thread exists a patient user leaves the window alone.
Patience ==
    patient => /\ outcome # "abort"
               /\ thread # "none" => /\ dialog = "none"
                                     /\ wCard = card
                                     /\ wDbsAlive

ThreadInv == ThreadTypeOK /\ WorkerInThread /\ SlotWaits /\ Queue /\ EndQueued

WindowInv ==
    WindowTypeOK /\ JobInDialog /\ FoundOnCard /\ Patience /\ LostFilesAreOwn

BarInv == StatusTypeOK /\ TimerInv /\ BarFollowsScan

IInv == ThreadInv /\ UiBusyMatchesSearch /\ WindowInv /\ BarInv

-----------------------------------------------------------------------------
(* The queue of signals as a sequence. *)

\* A signal joins the queue at its end.
LEMMA Emitted ==
    ASSUME NEW es \in Seq(Events), NEW e \in Events
    PROVE  /\ Append(es, e) \in Seq(Events)
           /\ Len(es) \in Nat
           /\ Len(Append(es, e)) = Len(es) + 1
           /\ DOMAIN es = 1 .. Len(es)
           /\ DOMAIN Append(es, e) = 1 .. Len(es) + 1
           /\ \A i \in 1 .. Len(es) : Append(es, e)[i] = es[i]
           /\ Append(es, e)[Len(es) + 1] = e
           /\ Append(es, e) # << >>
<1>1. Len(es) \in Nat /\ DOMAIN es = 1 .. Len(es)
  BY LenProperties
<1> QED
  BY <1>1, AppendProperties

\* A delivered signal was the first, and the others move up.
LEMMA Delivered ==
    ASSUME NEW es \in Seq(Events), es # << >>
    PROVE  /\ Head(es) = es[1] /\ es[1] \in Events
           /\ Tail(es) \in Seq(Events)
           /\ Len(es) \in Nat \ {0}
           /\ DOMAIN es = 1 .. Len(es)
           /\ Len(Tail(es)) = Len(es) - 1
           /\ DOMAIN Tail(es) = 1 .. Len(es) - 1
           /\ \A i \in 1 .. Len(es) - 1 : Tail(es)[i] = es[i + 1]
           /\ Len(es) = 1 => Tail(es) = << >>
<1>1. Len(es) \in Nat /\ DOMAIN es = 1 .. Len(es)
  BY LenProperties
<1>2. Len(es) # 0
  BY <1>1, EmptySeq
<1>3. Tail(es) \in Seq(Events) /\ Head(es) \in Events /\ Head(es) = es[1]
  BY HeadTailProperties, <1>1, <1>2
<1>4. /\ Len(Tail(es)) = Len(es) - 1
      /\ \A i \in 1 .. Len(es) - 1 : Tail(es)[i] = es[i + 1]
  BY HeadTailProperties, <1>1, <1>2
<1>5. DOMAIN Tail(es) = 1 .. Len(es) - 1
  BY <1>3, <1>4, LenProperties
<1>6. Len(es) = 1 => Tail(es) = << >>
  <2>1. Tail(es) # << >> => Len(Tail(es)) \in Nat \ {0}
    BY <1>3, EmptySeq
  <2> QED
    BY <1>1, <1>4, <2>1
<1> QED
  BY <1>1, <1>2, <1>3, <1>4, <1>5, <1>6

\* The last signal stays the last.
LEMMA LastStays ==
    ASSUME NEW es \in Seq(Events), es # << >>, Len(es) # 1
    PROVE  Tail(es) # << >> /\ Tail(es)[Len(Tail(es))] = es[Len(es)]
<1>1. Len(Tail(es)) \in Nat \ {0} /\ Len(Tail(es)) + 1 = Len(es)
  BY Delivered
<1>2. Tail(es)[Len(Tail(es))] = es[Len(es)]
  BY <1>1, Delivered
<1> QED
  BY <1>1, <1>2, EmptySeq

-----------------------------------------------------------------------------
(* The invariant holds at first. *)

LEMMA InitInv == Init => IInv
<1> SUFFICES ASSUME Init
             PROVE  IInv
  OBVIOUS
<1> USE DEF Init, ThreadInit, StatusInit, NothingFound, NoJob
<1>1. events \in Seq(Events)
  BY EmptySeq
<1>2. ThreadInv
  <2>1. ThreadTypeOK
    BY <1>1 DEF ThreadTypeOK, AnyCard
  <2>2. Queue
    BY DEF Queue
  <2> QED
    BY <2>1, <2>2 DEF ThreadInv, WorkerInThread, SlotWaits, EndQueued, Begun
<1>3. UiBusyMatchesSearch
  BY DEF UiBusyMatchesSearch
<1>4. WindowInv
  BY DEF WindowInv, WindowTypeOK, JobInDialog, FoundOnCard, Patience,
         LostFilesAreOwn, Begun, AnyCard
<1>5. BarInv
  BY DEF BarInv, StatusTypeOK, TimerInv, BarFollowsScan, StatusTexts
<1> QED
  BY <1>2, <1>3, <1>4, <1>5 DEF IInv

-----------------------------------------------------------------------------
(* The search thread and its signals. *)

\* What a step can do to the search thread, its signals and the slot.
LEMMA ThreadSteps ==
    ASSUME [Next]_vars
    PROVE  \/ UNCHANGED <<threadVars, slot>>
           \/ DeleteDbs /\ UNCHANGED slot
           \/ ScanStarts
           \/ \E type \in {"started", "update"} :
                 Receive(type) /\ UNCHANGED <<thread, quit, home, wpc, wCard,
                    wAll, wDbsAlive, blocks, pos, filesFound, slot>>
           \/ \E type \in EndTypes : SearchOver(type)
           \/ slot \in EndTypes /\ DeleteThread /\ slot' = "none"
           \/ WorkerStep
<1> SUFFICES ASSUME Next, ~ UNCHANGED vars
             PROVE  \/ UNCHANGED <<threadVars, slot>>
                    \/ DeleteDbs /\ UNCHANGED slot
                    \/ ScanStarts
                    \/ \E type \in {"started", "update"} :
                          Receive(type) /\ UNCHANGED <<thread, quit, home, wpc,
                             wCard, wAll, wDbsAlive, blocks, pos, filesFound,
                             slot>>
                    \/ \E type \in EndTypes : SearchOver(type)
                    \/ slot \in EndTypes /\ DeleteThread /\ slot' = "none"
                    \/ WorkerStep
  BY DEF vars
<1>1. CASE User
  BY <1>1 DEF User, ActionOpen, OpenChosen, DialogCancelled, Drop, ActionClose,
              CloseWindow, ActionExit, ScanWithoutDbs, ScanAgain, ActionSave,
              PathChosen, Overwrite, OpenCard
<1>2. CASE Deliver
  BY <1>2 DEF Deliver, SearchStarted, SearchUpdate, EndTypes
<1>3. CASE Continue
  BY <1>3 DEF Continue, SearchFinished, SearchError, AskOverwrite, Export,
              FilesSaved, EndTypes
<1>4. CASE HideTimer \/ Crash \/ Terminated
  BY <1>4 DEF HideTimer, Crash, Terminated, vars
<1> QED
  BY <1>1, <1>2, <1>3, <1>4 DEF Next

\* They stay in step.
LEMMA ThreadStep ==
    ASSUME IInv, [Next]_vars
    PROVE  ThreadInv'
<1> USE DEF ThreadInv, ThreadTypeOK, WorkerInThread, SlotWaits, EndQueued,
            Begun
<1> ThreadInv
  BY DEF IInv
<1>1. CASE UNCHANGED <<threadVars, slot>>
  BY <1>1 DEF threadVars, Queue
<1>2. CASE DeleteDbs /\ UNCHANGED slot
  BY <1>2 DEF DeleteDbs, Queue
<1>3. CASE ScanStarts
  <2>1. card \in AnyCard
    BY DEF IInv, WindowInv, WindowTypeOK
  <2> QED
    BY <1>3, <2>1 DEF ScanStarts, SearchAsync, Queue
<1>4. ASSUME NEW type \in {"started", "update"}, Receive(type),
             UNCHANGED <<thread, quit, home, wpc, wCard, wAll, wDbsAlive,
                         blocks, pos, filesFound, slot>>
      PROVE  ThreadInv'
  <2>1. /\ events' = Tail(events)
        /\ events # << >>
        /\ events[1].type = type
    BY <1>4, Delivered DEF Receive
  <2>2. Len(events) = 1 => events[Len(events)].type \notin EndTypes
    BY <2>1 DEF EndTypes
  <2>3. events' \in Seq(Events)
    BY <2>1, Delivered
  <2>4. Queue'
    BY <1>4, <2>1, Delivered DEF Queue, EndTypes
  <2>5. EndQueued'
    <3> SUFFICES ASSUME Begun, slot = "none", wpc # "scan"
                 PROVE  events' # << >> /\ events'[Len(events')].type \in EndTypes
      BY <1>4
    <3>1. events[Len(events)].type \in EndTypes
      OBVIOUS
    <3>2. Len(events) # 1
      BY <2>2, <3>1, Zenon
    <3> QED
      BY <2>1, <3>1, <3>2, LastStays
  <2>6. SlotWaits'
    BY <1>4, <2>1
  <2> QED
    BY <1>4, <2>3, <2>4, <2>5, <2>6
<1>5. ASSUME NEW type \in EndTypes, SearchOver(type)
      PROVE  ThreadInv'
  <2> USE DEF SearchOver, AskThreadToStop
  <2>1. /\ events' = Tail(events)
        /\ events # << >>
        /\ events[1].type = type
    BY <1>5, Delivered DEF Receive
  <2>2. Len(events) = 1 /\ wpc # "scan" /\ Begun
    <3>1. 1 \in DOMAIN events
      BY <2>1, Delivered
    <3>2. events[1].type \in EndTypes
      BY <1>5, <2>1
    <3> QED
      BY <2>1, <3>1, <3>2 DEF Queue
  <2>3. events' = << >> /\ events' \in Seq(Events)
    BY <2>1, <2>2, Delivered
  <2>4. Queue'
    BY <2>3 DEF Queue
  <2> QED
    BY <1>5, <2>2, <2>3, <2>4 DEF EndTypes
<1>6. CASE slot \in EndTypes /\ DeleteThread /\ slot' = "none"
  BY <1>6 DEF DeleteThread, EndTypes, Queue
<1>7. CASE WorkerStep
  <2>1. ASSUME NEW n \in BlockCounts, WorkerBegin(n), UNCHANGED slot
        PROVE  ThreadInv'
    <3>1. n \in Nat
      BY <2>1, MaxBlocksAssumption DEF BlockCounts
    <3>2. events = << >>
      BY <2>1 DEF WorkerBegin, Queue
    <3>3. \E type \in {"error", "started"} :
             events' = <<[type |-> type, n |-> n]>> /\ (type = "error") = (n = 0)
      BY <2>1, <3>2 DEF WorkerBegin, Emit, Event
    <3>4. events' \in Seq(Events) /\ Len(events') = 1 /\ DOMAIN events' = {1}
      BY <3>1, <3>3 DEF Events, EventTypes
    <3>5. Queue'
      BY <2>1, <3>3, <3>4 DEF Queue, WorkerBegin, EndTypes
    <3>6. EndQueued'
      BY <2>1, <3>3, <3>4 DEF WorkerBegin, EndTypes
    <3> QED
      BY <2>1, <3>1, <3>4, <3>5, <3>6 DEF WorkerBegin, NothingFound, AnyCard
  <2>2. CASE WorkerBlock /\ UNCHANGED slot
    <3>1. Event("update", pos) \in Events
      BY DEF Event, Events, EventTypes
    <3>2. events' = Append(events, Event("update", pos))
      BY <2>2 DEF WorkerBlock, Emit
    <3>3. Queue'
      BY <2>2, <3>1, <3>2, Emitted DEF Queue, WorkerBlock, EndTypes, Event
    <3> QED
      BY <2>2, <3>1, <3>2, <3>3, Emitted DEF WorkerBlock
  <2>3. CASE WorkerEnd /\ UNCHANGED slot
    <3> DEFINE one == Event("update", blocks - 1)
               two == Event("finished", filesFound.n)
    <3>1. one \in Events /\ two \in Events
      BY <2>3 DEF Event, Events, EventTypes, WorkerEnd
    <3>2. events' = Append(Append(events, one), two)
      BY <2>3, <3>1 DEF WorkerEnd
    <3>3. one.type = "update" /\ two.type = "finished"
      BY DEF Event
    <3> HIDE DEF one, two
    <3>4. Queue'
      BY <2>3, <3>1, <3>2, <3>3, Emitted DEF Queue, WorkerEnd, EndTypes
    <3> QED
      BY <2>3, <3>1, <3>2, <3>3, <3>4, Emitted DEF WorkerEnd, EndTypes
  <2>4. CASE WorkerMove /\ UNCHANGED slot
    BY <2>4 DEF WorkerMove, Queue
  <2>5. CASE ThreadEnd /\ UNCHANGED slot
    BY <2>5 DEF ThreadEnd, Queue
  <2> QED
    BY <1>7, <2>1, <2>2, <2>3, <2>4, <2>5 DEF WorkerStep
<1> QED
  BY <1>1, <1>2, <1>3, <1>4, <1>5, <1>6, <1>7, ThreadSteps

-----------------------------------------------------------------------------
(* The counter of markUiBusy(). *)

\* The counter follows the search through every step.
LEMMA BusyStep ==
    ASSUME IInv, [Next]_vars
    PROVE  UiBusyMatchesSearch'
<1> DEFINE Waiting == \E i \in DOMAIN events : events[i].type = "started"
<1>0. /\ ThreadTypeOK /\ WorkerInThread /\ SlotWaits /\ Queue /\ EndQueued
      /\ UiBusyMatchesSearch
  BY DEF IInv, ThreadInv
<1>1. CASE UNCHANGED <<thread, blocks, events, busy>>
  BY <1>0, <1>1 DEF UiBusyMatchesSearch
<1>2. CASE ScanStarts
  BY <1>0, <1>2 DEF ScanStarts, SearchAsync, UiBusyMatchesSearch
<1>3. CASE SearchStarted
  <2>1. /\ events' = Tail(events)
        /\ events # << >>
        /\ events[1].type = "started"
        /\ DOMAIN events = 1 .. Len(events)
    BY <1>0, <1>3, Delivered DEF SearchStarted, Receive, ThreadTypeOK
  <2>2. 1 \in DOMAIN events
    BY <1>0, <2>1, Delivered DEF ThreadTypeOK
  <2>3. Begun /\ blocks # 0 /\ busy = 0
    BY <1>0, <2>1, <2>2 DEF Queue, UiBusyMatchesSearch
  <2>4. ~ Waiting'
    BY <1>0, <2>1, Delivered DEF Queue, ThreadTypeOK
  <2> QED
    BY <1>3, <2>3, <2>4
    DEF SearchStarted, MarkUiBusy, UiBusyMatchesSearch, Begun
<1>4. CASE SearchUpdate
  <2>1. /\ events' = Tail(events)
        /\ events # << >>
        /\ events[1].type = "update"
    BY <1>0, <1>4, Delivered DEF SearchUpdate, Receive, ThreadTypeOK
  <2>2. ~ Waiting /\ ~ Waiting'
    BY <1>0, <2>1, Delivered DEF Queue, ThreadTypeOK
  <2> QED
    BY <1>0, <1>4, <2>2 DEF SearchUpdate, UiBusyMatchesSearch
<1>5. ASSUME NEW type \in EndTypes, SearchOver(type)
      PROVE  UiBusyMatchesSearch'
  <2>1. /\ events' = Tail(events)
        /\ events # << >>
        /\ events[1].type \in EndTypes
        /\ DOMAIN events = 1 .. Len(events)
    BY <1>0, <1>5, Delivered DEF SearchOver, Receive, ThreadTypeOK
  <2>2. 1 \in DOMAIN events
    BY <1>0, <2>1, Delivered DEF ThreadTypeOK
  <2>3. Len(events) = 1
    BY <2>1, <2>2, <1>0 DEF Queue
  <2>4. ~ Waiting /\ ~ Waiting'
    BY <1>0, <2>1, <2>3, Delivered DEF ThreadTypeOK, EndTypes
  <2> QED
    BY <1>0, <1>5, <2>4
    DEF SearchOver, AskThreadToStop, UiBusyMatchesSearch
<1>6. CASE SearchFinished \/ SearchError
  <2>1. busy \in {0, 1}
    BY <1>0 DEF UiBusyMatchesSearch
  <2> QED
    BY <1>6, <2>1 DEF SearchFinished, SearchError, DeleteThread, MarkUiNotBusy,
                      UiBusyMatchesSearch
<1>7. CASE WorkerStep
  <2>1. busy' = busy
    BY <1>7 DEF WorkerStep
  <2>2. ASSUME NEW n \in BlockCounts, WorkerBegin(n)
        PROVE  UiBusyMatchesSearch'
    <3>1. events = << >> /\ busy = 0
      BY <1>0, <2>2 DEF WorkerBegin, Queue, Begun, UiBusyMatchesSearch
    <3>2. n # 0 => events' = <<[type |-> "started", n |-> n]>>
      BY <2>2, <3>1 DEF WorkerBegin, Emit, Event
    <3>3. n # 0 => Waiting'
      BY <3>2
    <3> QED
      BY <2>1, <2>2, <3>1, <3>3 DEF WorkerBegin, UiBusyMatchesSearch
  <2>3. CASE WorkerBlock
    <3>1. Event("update", pos) \in Events
      BY <1>0 DEF Event, Events, EventTypes, ThreadTypeOK
    <3>2. events' = Append(events, Event("update", pos))
      BY <2>3 DEF WorkerBlock, Emit
    <3>3. Waiting => Waiting'
      BY <1>0, <3>1, <3>2, Emitted DEF ThreadTypeOK
    <3>4. Waiting' => Waiting
      BY <1>0, <3>1, <3>2, Emitted DEF Event, ThreadTypeOK
    <3> QED
      BY <1>0, <2>1, <2>3, <3>3, <3>4 DEF WorkerBlock, UiBusyMatchesSearch
  <2>4. CASE WorkerEnd
    <3> DEFINE one == Event("update", blocks - 1)
               two == Event("finished", filesFound.n)
    <3>1. one \in Events /\ two \in Events
      BY <1>0, <2>4
      DEF Event, Events, EventTypes, WorkerEnd, ThreadTypeOK, WorkerInThread
    <3>2. events' = Append(Append(events, one), two)
      BY <1>0, <2>4, <3>1 DEF WorkerEnd, ThreadTypeOK
    <3>3. one.type = "update" /\ two.type = "finished"
      BY DEF Event
    <3> HIDE DEF one, two
    <3> DEFINE es == Append(events, one)
    <3>4. /\ es \in Seq(Events)
          /\ \A i \in DOMAIN es :
                es[i].type = "started" => i \in DOMAIN events /\ es[i] = events[i]
          /\ \A i \in DOMAIN events : i \in DOMAIN es /\ es[i] = events[i]
      BY <1>0, <3>1, <3>3, Emitted DEF ThreadTypeOK
    <3>5. Waiting => Waiting'
      <4> SUFFICES ASSUME NEW i \in DOMAIN events, events[i].type = "started"
                   PROVE  i \in DOMAIN events' /\ events'[i].type = "started"
        OBVIOUS
      <4> QED
        BY <3>1, <3>2, <3>4, Emitted
    <3>6. Waiting' => Waiting
      <4> SUFFICES ASSUME NEW i \in DOMAIN events', events'[i].type = "started"
                   PROVE  i \in DOMAIN events /\ events[i].type = "started"
        OBVIOUS
      <4> QED
        BY <3>1, <3>2, <3>3, <3>4, Emitted
    <3> QED
      BY <1>0, <2>1, <2>4, <3>5, <3>6 DEF WorkerEnd, UiBusyMatchesSearch
  <2>5. CASE WorkerMove
    BY <1>0, <2>1, <2>5
    DEF WorkerMove, UiBusyMatchesSearch, WorkerInThread, ThreadTypeOK
  <2>6. CASE ThreadEnd
    BY <1>0, <2>1, <2>6 DEF ThreadEnd, UiBusyMatchesSearch
  <2> QED
    BY <1>7, <2>2, <2>3, <2>4, <2>5, <2>6 DEF WorkerStep
<1>8. UNCHANGED vars => UNCHANGED <<thread, blocks, events, busy>>
  BY DEF vars, threadVars
<1>9. CASE User
  BY <1>1, <1>2, <1>9
  DEF User, ActionOpen, OpenChosen, DialogCancelled, Drop, ActionClose,
      CloseWindow, ActionExit, ScanWithoutDbs, ScanAgain, ActionSave,
      PathChosen, Overwrite, OpenCard, DeleteDbs, threadVars
<1>10. CASE Deliver
  BY <1>3, <1>4, <1>5, <1>10 DEF Deliver, EndTypes
<1>11. CASE Continue
  BY <1>1, <1>6, <1>11 DEF Continue, AskOverwrite, Export, FilesSaved, threadVars
<1>12. CASE HideTimer \/ Crash \/ Terminated
  BY <1>1, <1>8, <1>12 DEF HideTimer, Crash, Terminated, threadVars
<1> QED
  BY <1>1, <1>7, <1>8, <1>9, <1>10, <1>11, <1>12 DEF Next

-----------------------------------------------------------------------------
(* The card, the files of a save and the patient user. *)

\* A patient user clicks only when there is no search thread.
LEMMA PatientClicks ==
    ASSUME IInv, patient, CanClick \/ CanDrop \/ (Loop /\ dialog # "none")
    PROVE  thread = "none"
<1>1. /\ UiBusyMatchesSearch
      /\ Patience
  BY DEF IInv, WindowInv
<1>2. busy \in {0, 1}
  BY <1>1 DEF UiBusyMatchesSearch
<1> QED
  BY <1>1, <1>2 DEF CanClick, CanDrop, Patience

\* ... so nothing the worker uses is gone.
LEMMA PatientNotDangling ==
    ASSUME IInv, patient
    PROVE  ~ Dangling
BY DEF IInv, ThreadInv, ThreadTypeOK, WorkerInThread, WindowInv, Patience,
       Dangling, WorkerUses

LEMMA WindowStep ==
    ASSUME IInv, [Next]_vars
    PROVE  WindowInv'
<1> USE DEF WindowInv, WindowTypeOK, FoundOnCard, Patience, LostFilesAreOwn,
            Begun
<1>0. /\ ThreadTypeOK /\ WorkerInThread /\ SlotWaits
      /\ WindowInv
  BY DEF IInv, ThreadInv
<1>1. CASE UNCHANGED vars
  BY <1>0, <1>1 DEF vars, windowVars, threadVars, JobInDialog
<1>2. ASSUME OpenCard, UNCHANGED patient, patient => thread = "none",
             job = NoJob, dialog' = "none"
      PROVE  WindowInv'
  <2>1. card' \in AnyCard /\ kind' \in {"gcn", "full", "other"}
    BY <1>2 DEF OpenCard, AnyCard
  <2>2. JobInDialog'
    BY <1>2 DEF OpenCard, JobInDialog
  <2> QED
    BY <1>0, <1>2, <2>1, <2>2 DEF OpenCard, threadVars, AnyCard
<1>3. ASSUME card' = NoCard, kind' = "other", lost' = NoCard,
             CanClick, UNCHANGED <<threadVars, dialog, job, attached, patient>>,
             UNCHANGED outcome \/ DeleteWindow
      PROVE  WindowInv'
  <2>1. patient => thread = "none"
    BY <1>3, PatientClicks
  <2>2. JobInDialog'
    BY <1>0, <1>3 DEF CanClick, JobInDialog
  <2> QED
    BY <1>0, <1>3, <2>1, <2>2 DEF DeleteWindow, threadVars, AnyCard
<1>4. CASE User
  <2>1. CASE ActionOpen \/ ActionSave \/ DialogCancelled \/ PathChosen
             \/ Overwrite
    <3>1. patient => thread = "none"
      BY <2>1, PatientClicks DEF ActionOpen, ActionSave, DialogCancelled,
         PathChosen, Overwrite
    <3>2. UNCHANGED <<threadVars, card, kind, lost, outcome, attached, patient>>
      BY <2>1 DEF ActionOpen, ActionSave, DialogCancelled, PathChosen, Overwrite
    <3>3. /\ job' \in [card : AnyCard, files : Nat, left : Nat]
          /\ dialog' \in {"none", "open", "save", "export", "prompt"}
          /\ JobInDialog'
      <4> USE <1>0 DEF JobInDialog
      <4>1. CASE ActionOpen
        BY <4>1 DEF ActionOpen, CanClick
      <4>2. CASE ActionSave
        BY <4>2, MaxFilesAssumption DEF ActionSave
      <4>3. CASE DialogCancelled
        BY <4>3 DEF DialogCancelled, NoJob, AnyCard
      <4>4. CASE PathChosen
        BY <4>4 DEF PathChosen
      <4>5. CASE Overwrite
        BY <4>5 DEF Overwrite
      <4> QED
        BY <2>1, <4>1, <4>2, <4>3, <4>4, <4>5
    <3> QED
      BY <1>0, <3>1, <3>2, <3>3 DEF threadVars
  <2>2. CASE OpenChosen
    BY <1>0, <1>2, <2>2, PatientClicks DEF OpenChosen, JobInDialog, OpenCard
  <2>3. CASE Drop
    BY <1>0, <1>2, <2>3, PatientClicks
    DEF Drop, CanDrop, JobInDialog, OpenCard
  <2>4. CASE ActionClose \/ CloseWindow \/ ActionExit
    BY <1>3, <2>4 DEF ActionClose, CloseWindow, ActionExit, CloseCard
  <2>5. CASE ScanWithoutDbs
    <3>1. patient => thread = "none"
      BY <2>5, PatientClicks DEF ScanWithoutDbs
    <3> QED
      BY <1>0, <2>5, <3>1
      DEF ScanWithoutDbs, DeleteDbs, windowVars, JobInDialog
  <2>6. CASE ScanStarts
    <3>1. JobInDialog'
      BY <1>0, <2>6 DEF ScanStarts, JobInDialog
    <3> QED
      BY <1>0, <2>6, <3>1 DEF ScanStarts, SearchAsync, CanClick, AnyCard
  <2>7. CASE ScanAgain
    <3>1. ~ patient
      BY <2>7, PatientClicks DEF ScanAgain
    <3>2. JobInDialog'
      BY <1>0, <2>7 DEF ScanAgain, JobInDialog
    <3> QED
      BY <1>0, <2>7, <3>1, <3>2 DEF ScanAgain, DeleteDbs, AnyCard
  <2> QED
    BY <1>4, <2>1, <2>2, <2>3, <2>4, <2>5, <2>6, <2>7 DEF User
<1>5. CASE Deliver
  <2>1. UNCHANGED <<thread, wCard, wDbsAlive, filesFound, windowVars, outcome,
                    attached, patient>>
    BY <1>5 DEF Deliver, SearchStarted, SearchUpdate, SearchOver,
                AskThreadToStop
  <2> QED
    BY <1>0, <2>1 DEF windowVars, JobInDialog
<1>6. CASE Continue
  <2>1. CASE SearchFinished
    <3>1. Begun
      BY <1>0, <2>1 DEF SearchFinished, SlotWaits
    <3>2. filesFound.card \in AnyCard
      BY <1>0 DEF ThreadTypeOK
    <3>3. JobInDialog'
      BY <1>0, <2>1 DEF SearchFinished, JobInDialog
    <3> QED
      BY <1>0, <2>1, <3>1, <3>2, <3>3 DEF SearchFinished, DeleteThread
  <2>2. CASE SearchError
    BY <1>0, <2>2 DEF SearchError, DeleteThread, windowVars, JobInDialog
  <2>3. CASE AskOverwrite \/ Export
    <3>1. UNCHANGED <<threadVars, card, kind, lost, outcome, attached, patient>>
      BY <2>3 DEF AskOverwrite, Export
    <3>2. /\ job' \in [card : AnyCard, files : Nat, left : Nat]
          /\ dialog' \in {"none", "open", "save", "export", "prompt"}
          /\ dialog # "none"
          /\ JobInDialog'
      BY <1>0, <2>3 DEF AskOverwrite, Export, JobInDialog
    <3> QED
      BY <1>0, <3>1, <3>2 DEF threadVars
  <2>4. CASE FilesSaved
    <3>1. JobInDialog' /\ job' \in [card : AnyCard, files : Nat, left : Nat]
      BY <2>4 DEF FilesSaved, JobInDialog, NoJob, AnyCard
    <3> QED
      BY <1>0, <2>4, <3>1 DEF FilesSaved, threadVars
  <2> QED
    BY <1>6, <2>1, <2>2, <2>3, <2>4 DEF Continue
<1>7. CASE HideTimer
  BY <1>0, <1>7 DEF HideTimer, windowVars, threadVars, JobInDialog
<1>8. CASE WorkerStep
  <2>1. UNCHANGED <<windowVars, outcome, attached, patient>>
    BY <1>8 DEF WorkerStep
  <2>2. /\ thread # "none"
        /\ UNCHANGED <<wCard, wDbsAlive>>
        /\ FoundOnCard'
    BY <1>0, <1>8 DEF WorkerStep, WorkerBegin, WorkerBlock, WorkerEnd,
       WorkerMove, ThreadEnd, ThreadTypeOK, WorkerInThread, NothingFound
  <2> QED
    BY <1>0, <2>1, <2>2 DEF windowVars, JobInDialog
<1>9. CASE Crash
  <2>1. ~ patient
    BY <1>9, PatientNotDangling DEF Crash
  <2> QED
    BY <1>0, <1>9, <2>1 DEF Crash, windowVars, threadVars, JobInDialog
<1>10. CASE Terminated
  BY <1>1, <1>10 DEF Terminated
<1> QED
  BY <1>1, <1>4, <1>5, <1>6, <1>7, <1>8, <1>9, <1>10 DEF Next

-----------------------------------------------------------------------------
(* The status bar. *)

LEMMA BarStep ==
    ASSUME IInv, [Next]_vars
    PROVE  BarInv'
<1> USE DEF BarInv, StatusTypeOK, TimerInv, BarFollowsScan, StatusTexts
<1>0. /\ ThreadTypeOK /\ WorkerInThread /\ SlotWaits /\ Queue
      /\ UiBusyMatchesSearch /\ UiBusyMatchesSearch'
      /\ BarInv
      /\ attached \in BOOLEAN
      /\ busy \in {0, 1} /\ busy' \in {0, 1}
  BY BusyStep DEF IInv, ThreadInv, WindowInv, WindowTypeOK, UiBusyMatchesSearch
<1>1. CASE UNCHANGED <<statusVars, busy, attached, thread>>
  BY <1>0, <1>1 DEF statusVars
<1>2. ASSUME NEW text \in StatusTexts, SayAndHide(text),
             UNCHANGED <<busy, attached, thread>>
      PROVE  BarInv'
  BY <1>0, <1>2 DEF SayAndHide, UpdateStatusBar
<1>3. CASE User
  <2>1. CASE OpenChosen \/ Drop
    <3>1. UNCHANGED <<busy, attached, thread>>
      BY <2>1 DEF OpenChosen, Drop, OpenCard, threadVars
    <3>2. SayAndHide("loaded") \/ UNCHANGED statusVars
      BY <2>1 DEF OpenChosen, Drop, OpenCard
    <3> QED
      BY <1>1, <1>2, <3>1, <3>2
  <2>2. CASE ActionClose \/ ActionExit
    <3>1. UNCHANGED <<busy, attached, thread>>
      BY <2>2 DEF ActionClose, ActionExit, threadVars
    <3>2. SayAndHide("closed")
      BY <2>2 DEF ActionClose, ActionExit, CloseCard
    <3> QED
      BY <1>2, <3>1, <3>2
  <2>3. CASE ScanStarts
    <3>1. ~ scanning
      BY <1>0, <2>3 DEF ScanStarts, CanClick
    <3>2. UNCHANGED busy /\ attached' = TRUE
      BY <2>3 DEF ScanStarts
    <3>3. CASE attached
      <4>1. UNCHANGED statusVars
        BY <2>3, <3>3 DEF ScanStarts, StatusSetSearchThread
      <4> QED
        BY <1>0, <3>1, <3>2, <3>3, <4>1 DEF statusVars
    <3>4. CASE ~ attached
      <4>1. ~ hideTimer
        BY <1>0, <3>4
      <4>2. UpdateStatusBar(FALSE, message, current, 0, progressVisible)
            /\ UNCHANGED hideTimer
        BY <2>3, <3>4 DEF ScanStarts, StatusSetSearchThread
      <4> QED
        BY <1>0, <3>2, <4>1, <4>2 DEF UpdateStatusBar
    <3> QED
      BY <1>0, <3>3, <3>4
  <2>4. CASE ScanAgain
    <3>1. attached
      BY <1>0, <2>4 DEF ScanAgain
    <3>2. UNCHANGED <<statusVars, busy, attached, thread>>
      BY <2>4, <3>1 DEF ScanAgain, StatusSetSearchThread, DeleteDbs
    <3> QED
      BY <1>1, <3>2
  <2>5. CASE ActionOpen \/ DialogCancelled \/ CloseWindow \/ ScanWithoutDbs
             \/ ActionSave \/ PathChosen \/ Overwrite
    BY <1>1, <2>5 DEF ActionOpen, DialogCancelled, CloseWindow, ScanWithoutDbs,
       ActionSave, PathChosen, Overwrite, DeleteDbs, threadVars
  <2> QED
    BY <1>3, <2>1, <2>2, <2>3, <2>4, <2>5 DEF User
<1>4. ASSUME events # << >>
      PROVE  Head(events).n \in Nat /\ Begun
  BY <1>0, <1>4, Delivered DEF ThreadTypeOK, Events, Queue
<1>5. CASE SearchStarted
  <2>1. Head(events).n \in Nat /\ thread # "none"
    BY <1>4, <1>5 DEF SearchStarted, Receive, Begun
  <2>2. StatusStarted(Head(events).n) /\ UNCHANGED <<attached, thread>>
    BY <1>5 DEF SearchStarted
  <2>3. busy' > 0
    BY <1>0, <1>5 DEF SearchStarted, MarkUiBusy
  <2> QED
    BY <1>0, <2>1, <2>2, <2>3 DEF StatusStarted, UpdateStatusBar
<1>6. CASE SearchUpdate
  <2>1. Head(events).n \in Nat /\ Begun
    BY <1>4, <1>6 DEF SearchUpdate, Receive
  <2>2. StatusUpdate(Head(events).n) /\ UNCHANGED <<attached, thread, busy>>
    BY <1>6 DEF SearchUpdate
  <2>3. /\ events # << >>
        /\ events[1].type = "update"
        /\ DOMAIN events = 1 .. Len(events)
        /\ Len(events) \in Nat \ {0}
    BY <1>0, <1>6, Delivered DEF SearchUpdate, Receive, ThreadTypeOK
  <2>4. blocks # 0
    BY <1>0, <2>3 DEF Queue
  <2>5. busy # 0
    BY <1>0, <2>1, <2>3, <2>4 DEF Queue, UiBusyMatchesSearch, Begun
  <2>6. ~ hideTimer
    BY <1>0, <2>5
  <2> QED
    BY <1>0, <2>1, <2>2, <2>6 DEF StatusUpdate, UpdateStatusBar
<1>7. ASSUME NEW type \in EndTypes, SearchOver(type)
      PROVE  BarInv'
  BY <1>1, <1>7 DEF SearchOver, AskThreadToStop
<1>8. CASE Deliver
  BY <1>5, <1>6, <1>7, <1>8 DEF Deliver, EndTypes
<1>9. CASE SearchFinished
  <2>1. attached
    BY <1>0, <1>9 DEF SearchFinished, SlotWaits, Begun
  <2>2. StatusFinished /\ UNCHANGED attached /\ thread' = "none"
    BY <1>9 DEF SearchFinished, DeleteThread
  <2>3. busy' = 0
    BY <1>0, <2>2 DEF UiBusyMatchesSearch
  <2> QED
    BY <1>0, <2>1, <2>2, <2>3 DEF StatusFinished, UpdateStatusBar
<1>10. CASE SearchError
  <2>1. StatusError /\ UNCHANGED attached /\ thread' = "none"
    BY <1>10 DEF SearchError, DeleteThread
  <2>2. busy' = 0
    BY <1>0, <2>1 DEF UiBusyMatchesSearch
  <2> QED
    BY <1>0, <2>1, <2>2 DEF StatusError
<1>11. CASE Continue
  <2>1. CASE AskOverwrite \/ Export
    BY <1>1, <2>1 DEF AskOverwrite, Export, threadVars
  <2>2. CASE FilesSaved
    BY <1>2, <2>2 DEF FilesSaved, threadVars
  <2> QED
    BY <1>9, <1>10, <1>11, <2>1, <2>2 DEF Continue
<1>12. CASE HideTimer
  BY <1>0, <1>12 DEF HideTimer, StatusHide, UpdateStatusBar, threadVars
<1>13. CASE WorkerStep
  <2>1. UNCHANGED <<statusVars, busy, attached>>
    BY <1>13 DEF WorkerStep
  <2>2. thread # "none"
    BY <1>0, <1>13 DEF WorkerStep, WorkerBegin, WorkerBlock, WorkerEnd,
       WorkerMove, ThreadEnd, ThreadTypeOK, WorkerInThread
  <2> QED
    BY <1>0, <2>1, <2>2 DEF statusVars
<1>14. CASE Crash \/ Terminated \/ UNCHANGED vars
  BY <1>1, <1>14 DEF Crash, Terminated, vars, threadVars
<1> QED
  BY <1>3, <1>8, <1>11, <1>12, <1>13, <1>14 DEF Next

-----------------------------------------------------------------------------
(* The theorems. *)

\* What the threads, the window and the progress bar keep together, whatever the
\* user does and whenever the event loop gets to a signal.
THEOREM Invariance == Spec => []IInv
<1>1. IInv /\ [Next]_vars => IInv'
  BY ThreadStep, BusyStep, WindowStep, BarStep DEF IInv
<1> QED
  BY InitInv, <1>1, PTL DEF Spec

\* Every variable keeps its type, the queued signals among them.
THEOREM SessionTypes ==
    Spec => [](ThreadTypeOK /\ StatusTypeOK /\ WindowTypeOK)
<1>1. IInv => ThreadTypeOK /\ StatusTypeOK /\ WindowTypeOK
  BY DEF IInv, ThreadInv, BarInv, WindowInv
<1> QED
  BY <1>1, Invariance, PTL

\* GcnSearchThread hands the next search a worker that is back in the main
\* thread and a queue without signals of the last one.
THEOREM SearchesDoNotMix == Spec => []QuietBetweenSearches
<1>1. IInv => QuietBetweenSearches
  BY DEF IInv, ThreadInv, ThreadTypeOK, WorkerInThread, SlotWaits, Queue,
         Begun, QuietBetweenSearches
<1> QED
  BY <1>1, Invariance, PTL

\* markUiBusy() and markUiNotBusy() are balanced by the signals of a search,
\* however long the signals are queued.
THEOREM BusyIsBalanced == Spec => []UiBusyMatchesSearch
<1>1. IInv => UiBusyMatchesSearch
  BY DEF IInv
<1> QED
  BY <1>1, Invariance, PTL

\* saveFiles() never exports a file of a card that is gone.
THEOREM ExportsFromOpenCard == Spec => []JobCardAlive
<1>1. IInv => JobCardAlive
  BY DEF IInv, WindowInv, JobInDialog, JobCardAlive
<1> QED
  BY <1>1, Invariance, PTL

\* The progress bar belongs to the scan that is displayed, if there is one.
THEOREM BarIsOfThisScan == Spec => []BarFollowsScan
<1>1. IInv => BarFollowsScan
  BY DEF IInv, BarInv
<1> QED
  BY <1>1, Invariance, PTL

\* For a patient user the worker never uses a deleted card or database, and
\* no running QThread is deleted.
THEOREM WorkerIsSafe == Spec => []NothingDangles
<1>1. IInv => NothingDangles
  BY PatientNotDangling DEF IInv, WindowInv, Patience, NothingDangles
<1> QED
  BY <1>1, Invariance, PTL

\* For a patient user the lost files listed were found on the open card.
THEOREM LostFilesOfThisCard == Spec => []LostFilesAreOwn
<1>1. IInv => LostFilesAreOwn
  BY DEF IInv, WindowInv
<1> QED
  BY <1>1, Invariance, PTL

\* For a patient user the worker and an export never read one file at once.
THEOREM OneReaderAtATime == Spec => []NoSharedReads
<1>1. IInv => NoSharedReads
  BY DEF IInv, ThreadInv, ThreadTypeOK, WorkerInThread, WindowInv, Patience,
         WorkerUses, NoSharedReads
<1> QED
  BY <1>1, Invariance, PTL
=============================================================================
