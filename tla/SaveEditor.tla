------------------------------ MODULE SaveEditor ------------------------------
(***************************************************************************)
(* Save editors on an open card: SAEditor in an EditorWindow, opened from  *)
(* the file pane.  An editor window has no parent, so that neither a modal *)
(* dialog nor the busy state of the main window stops the user from using  *)
(* it.  A slot's value stands for all the forms show of that slot.         *)
(*                                                                         *)
(* Patient = TRUE is a user who leaves the editors alone during a search.  *)
(***************************************************************************)
EXTENDS CardIO

CONSTANTS Editors, Values, NoFile, Patient,
          MaxSaves      \* bound on the number of saves

ASSUME PatientAssumption == Patient \in BOOLEAN
ASSUME NoFileAssumption == NoFile \notin Files /\ NoFile \notin Editors
ASSUME ValuesAssumption == Values \subseteq Nat
ASSUME SlotsAssumption == BlockSize >= 5

VARIABLES
    file,           \* d->file of each editor
    alive,          \* the File object still exists
    slot, data,     \* currentSaveSlot (from 1), data_main
    form,           \* what the widgets and flag models show
    modified,       \* isModified(): the Save and Reload buttons are enabled
    task,           \* what the main thread reads or writes for an editor
    saves, outcome

editorVars == <<file, alive, slot, data, form, modified>>
vars == <<cardVars, editorVars, task, saves, outcome>>

\* A Dreamcast save file has three slots, a GameCube one has one.
Slots == IF console = "DC" THEN 1 .. 3 ELSE {1}
NoTask == [kind |-> "none", ed |-> NoFile, n |-> 0, sought |-> FALSE, buf |-> << >>]
Task(kind, e) == [kind |-> kind, ed |-> e, n |-> 1, sought |-> FALSE, buf |-> << >>]

\* The event loop has control: a slot runs to its end.
Loop == outcome = "alive" /\ task = NoTask
CanEdit == Loop /\ (Patient => worker = "none")

\* The save slots in the data of a file: a header comes first.
SlotsIn(d) == SubSeq(d, 2, Cardinality(Slots) + 1)

\* Seeded fault: the slots are written where the header is.
SlotsOverHeader(d, slots, junk) ==
    [i \in 1 .. Len(d) |-> IF i \in Slots THEN slots[i] ELSE d[i]]

\* ... and the data with other slots.  The checksum of a Dreamcast file is
\* computed from and stored behind the last slot: it reads past the end of
\* the data, and may be anything.
WithSlots(d, slots, junk) ==
    [i \in 1 .. Len(d) |-> CASE i - 1 \in Slots -> slots[i - 1]
                             [] i = 5 /\ console = "DC" -> junk
                             [] OTHER -> d[i]]

-----------------------------------------------------------------------------
(* Slots *)

\* Seeded fault: the slot that is left is not saved.
NotStored(e) == data[e]

\* saveCurrentSlot()
Stored(e) == [data[e] EXCEPT ![slot[e]] = form[e]]

\* Forms report that they were modified, and some also when they are only
\* filled in; flag lists never do.
MaybeModified(e) == {modified, [modified EXCEPT ![e] = TRUE]}

\* setCurrentSaveSlot(), from a toolbar button
SwitchSlot(e, s) ==
    /\ CanEdit /\ file[e] # NoFile /\ s \in DOMAIN data[e] \ {slot[e]}
    /\ data' = [data EXCEPT ![e] = Stored(e)]
    /\ form' = [form EXCEPT ![e] = data'[e][s]]
    /\ slot' = [slot EXCEPT ![e] = s]
    /\ modified' \in MaybeModified(e)
    /\ UNCHANGED <<cardVars, file, alive, task, saves, outcome>>

Edit(e) ==
    /\ CanEdit /\ file[e] # NoFile
    /\ \E v \in Values \ {form[e]} : form' = [form EXCEPT ![e] = v]
    /\ modified' \in MaybeModified(e)
    /\ UNCHANGED <<cardVars, file, alive, slot, data, task, saves, outcome>>

-----------------------------------------------------------------------------
(* Reading and writing the file *)

\* on_btnEdit_clicked(): the card is open, the main window not busy.  A save
\* of three slots does not fit into one block of a Dreamcast card.
OpenEditor(e, f) ==
    /\ Loop /\ isOpen /\ worker = "none" /\ file[e] = NoFile
    /\ f \in LostFiles => found
    /\ console = "DC" => Len(Chain[f]) > 1
    /\ file' = [file EXCEPT ![e] = f] /\ alive' = [alive EXCEPT ![e] = TRUE]
    /\ task' = Task("load", e)
    /\ UNCHANGED <<cardVars, slot, data, form, modified, saves, outcome>>

\* The window deletes itself and its editor.
CloseEditor(e) ==
    /\ Loop /\ file[e] # NoFile
    /\ file' = [file EXCEPT ![e] = NoFile] /\ alive' = [alive EXCEPT ![e] = FALSE]
    /\ slot' = [slot EXCEPT ![e] = 1] /\ data' = [data EXCEPT ![e] = << >>]
    /\ form' = [form EXCEPT ![e] = NoFile] /\ modified' = [modified EXCEPT ![e] = FALSE]
    /\ UNCHANGED <<cardVars, task, saves, outcome>>

\* Using a File object that was deleted with its card ends the process.
UseDeleted(e) ==
    /\ ~alive[e]
    /\ outcome' = "abort"
    /\ UNCHANGED <<cardVars, editorVars, task, saves>>

Reload(e) ==
    /\ CanEdit /\ file[e] # NoFile /\ modified[e]
    /\ \/ UseDeleted(e)
       \/ /\ alive[e]
          /\ task' = Task("reload", e)
          /\ UNCHANGED <<cardVars, editorVars, saves, outcome>>

\* The window keeps its buttons enabled after a save.
Save(e) ==
    /\ CanEdit /\ file[e] # NoFile /\ modified[e] /\ saves < MaxSaves
    /\ \/ UseDeleted(e)
       \/ /\ alive[e] /\ ~IsReadOnly(file[e])
          /\ data' = [data EXCEPT ![e] = Stored(e)]
          /\ task' = Task("save", e)
          /\ saves' = saves + 1
          /\ UNCHANGED <<cardVars, file, alive, slot, form, modified, outcome>>

TaskFile == file[task.ed]
LastBlock == task.n = Len(Chain[TaskFile])
NextBlock == [task EXCEPT !.n = @ + 1, !.sought = FALSE]

TaskSeek ==
    /\ outcome = "alive" /\ task # NoTask /\ ~task.sought
    /\ Seek(PhysBlock(TaskFile, task.n))
    /\ task' = [task EXCEPT !.sought = TRUE]
    /\ UNCHANGED <<disk, isOpen, errors, readOnly, chkAllowWrite, console, found,
                   worker, editorVars, saves, outcome>>

\* loadFileData() ignores read errors: what cannot be read stays uninitialized.
BlocksRead == IF CanRead THEN {ReadHere} ELSE [1 .. BlockSize -> Values]

\* load(): the new data is there before setCurrentSaveSlot(0) leaves the
\* current slot, and stores what its forms show.
Loaded(e, d) ==
    LET kept == IF slot[e] = 1 THEN SlotsIn(d)
                ELSE [SlotsIn(d) EXCEPT ![slot[e]] = form[e]]
    IN /\ data' = [data EXCEPT ![e] = kept]
       /\ slot' = [slot EXCEPT ![e] = 1]
       /\ form' = [form EXCEPT ![e] = kept[1]]

TaskRead ==
    /\ outcome = "alive" /\ task.kind \in {"load", "reload", "save"} /\ task.sought
    /\ \E block \in BlocksRead :
         LET read == task.buf \o block IN
         \/ /\ ~LastBlock
            /\ task' = [NextBlock EXCEPT !.buf = read]
            /\ UNCHANGED editorVars
         \/ /\ LastBlock /\ task.kind = "save"
            /\ \E junk \in Values :
                 task' = [Task("write", task.ed) EXCEPT
                            !.buf = WithSlots(read, data[task.ed], junk)]
            /\ UNCHANGED editorVars
         \/ /\ LastBlock /\ task.kind # "save"
            /\ Loaded(task.ed, read)
            /\ modified' \in IF task.kind = "load" THEN MaybeModified(task.ed)
                             ELSE {[modified EXCEPT ![task.ed] = FALSE]}
            /\ task' = NoTask
            /\ UNCHANGED <<file, alive>>
    /\ IF CanRead THEN Advance ELSE UNCHANGED pos
    /\ UNCHANGED <<disk, isOpen, errors, readOnly, chkAllowWrite, console, found,
                   worker, saves, outcome>>

\* The block File::write() writes for the n-th block of its data: always the
\* caller's pointer, which is not moved on.
BlockToWrite == SubSeq(task.buf, 1, BlockSize)

TaskWrite ==
    /\ outcome = "alive" /\ task.kind = "write" /\ task.sought
    /\ WriteHere(BlockToWrite)
    /\ task' = IF LastBlock THEN NoTask ELSE NextBlock
    /\ UNCHANGED <<isOpen, errors, readOnly, chkAllowWrite, console, found,
                   worker, editorVars, saves, outcome>>

-----------------------------------------------------------------------------
Init ==
    /\ CardInit
    /\ file = [e \in Editors |-> NoFile] /\ alive = [e \in Editors |-> FALSE]
    /\ slot = [e \in Editors |-> 1] /\ modified = [e \in Editors |-> FALSE]
    /\ data = [e \in Editors |-> << >>] /\ form = [e \in Editors |-> NoFile]
    /\ task = NoTask /\ saves = 0 /\ outcome = "alive"

\* Another table is read: the files in the list are deleted and made anew.
FilesRebuilt ==
    /\ isOpen /\ worker = "none" /\ console = "GCN"
    /\ found' = FALSE
    /\ alive' \in {a \in [Editors -> BOOLEAN] :
                     \A e \in Editors : a[e] => alive[e] /\ file[e] \in LostFiles}
    /\ UNCHANGED <<disk, pos, isOpen, errors, readOnly, chkAllowWrite, console, worker>>

\* The window's own actions; a closed card takes its File objects with it.
Window ==
    /\ Loop
    /\ \/ OpenCard /\ UNCHANGED alive
       \/ FilesRebuilt
       \/ CloseCard /\ alive' = [e \in Editors |-> FALSE]
       \/ (AllowWriteClicked \/ StartScan \/ SearchFinished) /\ UNCHANGED alive
    /\ UNCHANGED <<file, slot, data, form, modified, task, saves, outcome>>

Worker ==
    /\ outcome = "alive"
    /\ WorkerSeek \/ WorkerRead
    /\ UNCHANGED <<editorVars, task, saves, outcome>>

Terminated == outcome = "abort" /\ UNCHANGED vars

Next ==
    \/ Window \/ Worker \/ TaskSeek \/ TaskRead \/ TaskWrite \/ Terminated
    \/ \E e \in Editors :
         \/ \E f \in Files : OpenEditor(e, f)
         \/ \E s \in 1 .. 3 : SwitchSlot(e, s)
         \/ Edit(e) \/ Reload(e) \/ Save(e) \/ CloseEditor(e)

Spec == Init /\ [][Next]_vars
=============================================================================
