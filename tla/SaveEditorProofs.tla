--------------------------- MODULE SaveEditorProofs ---------------------------
(***************************************************************************)
(* Proofs about SaveEditor for a user who leaves the editors alone during  *)
(* a search (Patient): what a save writes, and what the slots of an editor *)
(* keep.  The invariant says that the position of the one QFile is where   *)
(* the task in progress has put it, and what the task has read so far.     *)
(***************************************************************************)
EXTENDS SaveEditorProps, SequenceTheorems, FiniteSetTheorems, TLAPS

\* A unit of a block, or what an editor shows before its file is loaded.
Unit == Nat \cup {NoFile}
Block == [1 .. BlockSize -> Unit]

TaskKinds == {"none", "load", "reload", "save", "write"}

TypeOK ==
    /\ disk \in [1 .. NumBlocks -> Block]
    /\ pos \in Nat \ {0}
    /\ isOpen \in BOOLEAN /\ errors \in BOOLEAN /\ readOnly \in BOOLEAN
    /\ console \in {"GCN", "DC"} /\ found \in BOOLEAN
    /\ worker \in {"none", "seek", "read", "done"}
    /\ file \in [Editors -> Files \cup {NoFile}]
    /\ alive \in [Editors -> BOOLEAN]
    /\ slot \in [Editors -> 1 .. 3]
    /\ data \in [Editors -> Seq(Unit)]
    /\ form \in [Editors -> Unit]
    /\ modified \in [Editors -> BOOLEAN]
    /\ task \in [kind : TaskKinds, ed : Editors \cup {NoFile}, n : Nat,
                 sought : BOOLEAN, buf : Seq(Unit)]
    /\ outcome \in {"alive", "abort"}

Loading(e) == task.kind = "load" /\ task.ed = e

\* An editor whose File object exists has the slots of its kind of card.
Editing ==
    \A e \in Editors :
        /\ file[e] = NoFile => slot[e] = 1
        /\ alive[e] =>
              /\ isOpen /\ file[e] \in Files
              /\ console = "DC" => Len(Chain[file[e]]) > 1
              /\ slot[e] \in Slots
              /\ Loading(e) => slot[e] = 1
              /\ ~ Loading(e) => DOMAIN data[e] = Slots

\* The file a task works on exists, and the position is where it was sought.
TaskInPlace ==
    /\ task.kind = "none" => task = NoTask
    /\ task # NoTask =>
          /\ Patient => worker = "none"
          /\ task.ed \in Editors /\ alive[task.ed]
          /\ task.n \in 1 .. Len(Chain[TaskFile])
          /\ Patient /\ task.sought => pos = Chain[TaskFile][task.n]

\* A save has stored the slot being edited and may write.
SaveAllowed ==
    task.kind \in {"save", "write"} =>
        /\ ~ readOnly /\ TaskFile \notin LostFiles
        /\ Held(task.ed) = data[task.ed]

\* What a task has read; what the save of a file of one block will write.
Buffered ==
    /\ task.kind \in {"load", "reload", "save"} =>
          IF task.n = 1 THEN task.buf = << >> ELSE Len(task.buf) >= BlockSize
    /\ task.kind = "write" =>
          /\ Len(task.buf) >= BlockSize
          /\ Patient /\ Len(Chain[TaskFile]) = 1 /\ Chain[TaskFile][1] <= NumBlocks =>
                \E junk \in Values :
                    task.buf = WithSlots(disk[Chain[TaskFile][1]], data[task.ed], junk)

IInv == TypeOK /\ Editing /\ TaskInPlace /\ SaveAllowed /\ Buffered

-----------------------------------------------------------------------------
(* Sequences of units, and the slots in them. *)

\* Changing a place of a sequence leaves its length alone.
LEMMA ExceptUnits ==
    ASSUME NEW q \in Seq(Unit), NEW i, NEW u \in Unit
    PROVE  /\ [q EXCEPT ![i] = u] \in Seq(Unit)
           /\ DOMAIN [q EXCEPT ![i] = u] = DOMAIN q
<1> DEFINE r == [q EXCEPT ![i] = u]
<1>1. Len(q) \in Nat /\ q \in [1 .. Len(q) -> Unit]
  BY LenProperties
<1>2. r \in [1 .. Len(q) -> Unit]
  BY <1>1
<1>3. r \in Seq(Unit)
  BY <1>1, <1>2, SeqDef
<1> QED
  BY <1>1, <1>2, <1>3

\* A function from 1 to n is a sequence of length n.
LEMMA FunctionIsSeq ==
    ASSUME NEW n \in Nat, NEW q \in [1 .. n -> Unit]
    PROVE  q \in Seq(Unit) /\ Len(q) = n
<1>1. q \in Seq(Unit)
  BY SeqDef
<1>2. DOMAIN q = 1 .. Len(q) /\ Len(q) \in Nat
  BY <1>1, LenProperties
<1>3. DOMAIN q = 1 .. n
  OBVIOUS
<1>4. Len(q) = n
  BY <1>2, <1>3
<1> QED
  BY <1>1, <1>4

LEMMA BlockIsSeq ==
    ASSUME NEW block \in Block
    PROVE  block \in Seq(Unit) /\ Len(block) = BlockSize
BY FunctionIsSeq, ImageAssumption DEF Block

\* There are as many slots as their highest number.
LEMMA SlotCount ==
    ASSUME console \in {"GCN", "DC"}
    PROVE  /\ Cardinality(Slots) \in {1, 3}
           /\ Slots = 1 .. Cardinality(Slots)
<1>1. Cardinality(1 .. 3) = 3
  <2>1. Cardinality(1 .. 3) = IF 1 > 3 THEN 0 ELSE 3 - 1 + 1
    BY FS_Interval, 1 \in Int, 3 \in Int
  <2> QED
    BY <2>1
<1>2. 1 .. 1 = {1} /\ Cardinality({1}) = 1
  BY FS_Singleton
<1> QED
  BY <1>1, <1>2 DEF Slots

\* The slots in the data of a file, which is no shorter than a block.
LEMMA SlotsOfData ==
    ASSUME console \in {"GCN", "DC"},
           NEW d \in Seq(Unit), Len(d) >= BlockSize
    PROVE  /\ SlotsIn(d) \in Seq(Unit)
           /\ DOMAIN SlotsIn(d) = Slots
           /\ \A s \in Slots : SlotsIn(d)[s] = d[s + 1]
<1> DEFINE n == Cardinality(Slots)
<1>1. n \in {1, 3} /\ Slots = 1 .. n
  BY SlotCount
<1>2. Len(d) \in Nat /\ d \in [1 .. Len(d) -> Unit]
  BY LenProperties
<1>3. BlockSize \in Nat /\ BlockSize >= 5
  BY ImageAssumption, SlotsAssumption
<1> HIDE DEF n
<1>4. \A i \in 2 .. n + 1 : d[i] \in Unit
  BY <1>1, <1>2, <1>3
<1>5. n + 1 \in Int /\ 2 \in Int /\ n = (n + 1) - 2 + 1 /\ 2 <= n + 1
  BY <1>1
<1>6. /\ SubSeq(d, 2, n + 1) \in Seq(Unit)
      /\ Len(SubSeq(d, 2, n + 1)) = n
      /\ \A i \in 1 .. n : SubSeq(d, 2, n + 1)[i] = d[2 + i - 1]
  BY <1>4, <1>5, SubSeqProperties
<1>7. SlotsIn(d) = SubSeq(d, 2, n + 1)
  BY DEF SlotsIn, n
<1>8. \A i \in 1 .. n : 2 + i - 1 = i + 1
  OBVIOUS
<1> QED
  BY <1>1, <1>6, <1>7, <1>8, LenProperties

\* The data with other slots has the same length.
LEMMA DataWithSlots ==
    ASSUME NEW d \in Seq(Unit), NEW slots \in Seq(Unit), NEW junk \in Unit,
           DOMAIN slots = Slots
    PROVE  /\ WithSlots(d, slots, junk) \in Seq(Unit)
           /\ Len(WithSlots(d, slots, junk)) = Len(d)
<1>1. Len(d) \in Nat /\ d \in [1 .. Len(d) -> Unit] /\ slots \in [Slots -> Unit]
  BY LenProperties
<1>2. WithSlots(d, slots, junk) \in [1 .. Len(d) -> Unit]
  BY <1>1 DEF WithSlots
<1> QED
  BY <1>1, <1>2, FunctionIsSeq

\* Storing a slot twice is storing it once.
LEMMA StoredIsHeld ==
    ASSUME NEW q \in Seq(Unit), NEW i, NEW u \in Unit
    PROVE  /\ [[q EXCEPT ![i] = u] EXCEPT ![i] = u] = [q EXCEPT ![i] = u]
           /\ \A s \in DOMAIN q :
                 LET r == [q EXCEPT ![i] = u] IN [r EXCEPT ![s] = r[s]] = r
<1> DEFINE r == [q EXCEPT ![i] = u]
<1>1. r = [j \in DOMAIN q |-> IF j = i THEN u ELSE q[j]]
  OBVIOUS
<1> HIDE DEF r
<1>2. [r EXCEPT ![i] = u] = r
  BY <1>1
<1>3. \A s \in DOMAIN q : [r EXCEPT ![s] = r[s]] = r
  BY <1>1
<1> QED
  BY <1>2, <1>3 DEF r

-----------------------------------------------------------------------------
(* The invariant holds at first. *)

LEMMA InitInv == Init => IInv
<1> SUFFICES ASSUME Init
             PROVE  IInv
  OBVIOUS
<1> USE DEF Init, CardInit, NoTask
<1>1. << >> \in Seq(Unit)
  BY EmptySeq
<1>2. disk \in [1 .. NumBlocks -> Block]
  <2>1. Image \in [1 .. NumBlocks -> [1 .. BlockSize -> Nat]]
    BY ImageAssumption, LenProperties DEF NumBlocks
  <2>2. [1 .. BlockSize -> Nat] \subseteq Block
    BY DEF Block, Unit
  <2> QED
    BY <2>1, <2>2
<1>3. TypeOK
  <2>1. task \in [kind : TaskKinds, ed : Editors \cup {NoFile}, n : Nat,
                  sought : BOOLEAN, buf : Seq(Unit)]
    BY <1>1 DEF TaskKinds
  <2>2. /\ data \in [Editors -> Seq(Unit)]
        /\ form \in [Editors -> Unit]
    BY <1>1 DEF Unit
  <2>3. /\ pos \in Nat \ {0} /\ slot \in [Editors -> 1 .. 3]
        /\ file \in [Editors -> Files \cup {NoFile}]
        /\ alive \in [Editors -> BOOLEAN] /\ modified \in [Editors -> BOOLEAN]
    OBVIOUS
  <2>4. /\ isOpen \in BOOLEAN /\ errors \in BOOLEAN /\ readOnly \in BOOLEAN
        /\ found \in BOOLEAN
    OBVIOUS
  <2>5. /\ console \in {"GCN", "DC"} /\ worker \in {"none", "seek", "read", "done"}
        /\ outcome \in {"alive", "abort"}
    OBVIOUS
  <2> QED
    BY <1>2, <2>1, <2>2, <2>3, <2>4, <2>5, Zenon DEF TypeOK
<1>4. Editing
  BY DEF Editing
<1>5. TaskInPlace /\ SaveAllowed /\ Buffered
  BY DEF TaskInPlace, SaveAllowed, Buffered
<1> QED
  BY <1>3, <1>4, <1>5 DEF IInv

-----------------------------------------------------------------------------
(* Types. *)

\* What is read of a file is a sequence of units, a block longer each time.
LEMMA ReadUnits ==
    ASSUME TypeOK, NEW block \in BlocksRead
    PROVE  /\ task.buf \o block \in Seq(Unit)
           /\ Len(task.buf \o block) = Len(task.buf) + BlockSize
           /\ Len(task.buf) \in Nat
           /\ Len(task.buf \o block) >= BlockSize
<1>1. block \in Block
  <2>1. CASE CanRead
    <3>1. pos \in 1 .. NumBlocks
      BY <2>1, ImageAssumption, LenProperties DEF CanRead, TypeOK, NumBlocks
    <3> QED
      BY <2>1, <3>1 DEF BlocksRead, ReadHere, TypeOK
  <2>2. CASE ~ CanRead
    BY <2>2, ValuesAssumption DEF BlocksRead, Block, Unit
  <2> QED
    BY <2>1, <2>2
<1>2. task.buf \in Seq(Unit)
  BY DEF TypeOK
<1>3. block \in Seq(Unit) /\ Len(block) = BlockSize /\ BlockSize \in Nat
  BY <1>1, BlockIsSeq, ImageAssumption
<1>4. Len(task.buf) \in Nat
  BY <1>2, LenProperties
<1>5. /\ task.buf \o block \in Seq(Unit)
      /\ Len(task.buf \o block) = Len(task.buf) + BlockSize
  BY <1>2, <1>3, ConcatProperties
<1> QED
  BY <1>3, <1>4, <1>5

\* The slots of the data just read, one of them as its form shows it.
LEMMA KeptSlots ==
    ASSUME TypeOK, NEW e \in Editors, NEW d \in Seq(Unit), Len(d) >= BlockSize,
           Loaded(e, d)
    PROVE  /\ data' \in [Editors -> Seq(Unit)]
           /\ slot' = [slot EXCEPT ![e] = 1]
           /\ slot' \in [Editors -> 1 .. 3]
           /\ form' \in [Editors -> Unit]
           /\ DOMAIN data'[e] = Slots
           /\ \A g \in Editors \ {e} : data'[g] = data[g]
<1> DEFINE kept == IF slot[e] = 1 THEN SlotsIn(d)
                   ELSE [SlotsIn(d) EXCEPT ![slot[e]] = form[e]]
<1>1. console \in {"GCN", "DC"} /\ form[e] \in Unit
  BY DEF TypeOK
<1>2. SlotsIn(d) \in Seq(Unit) /\ DOMAIN SlotsIn(d) = Slots
  BY <1>1, SlotsOfData
<1>3. kept \in Seq(Unit) /\ DOMAIN kept = Slots
  BY <1>1, <1>2, ExceptUnits
<1>4. kept[1] \in Unit
  <2>1. 1 \in DOMAIN kept
    BY <1>3, <1>1 DEF Slots
  <2> QED
    BY <1>3, <2>1, LenProperties, ElementOfSeq
<1>5. /\ data' = [data EXCEPT ![e] = kept]
      /\ slot' = [slot EXCEPT ![e] = 1]
      /\ form' = [form EXCEPT ![e] = kept[1]]
  BY DEF Loaded
<1>6. slot' \in [Editors -> 1 .. 3]
  <2>1. slot \in [Editors -> 1 .. 3] /\ 1 \in 1 .. 3
    BY DEF TypeOK
  <2> QED
    BY <1>5, <2>1, Zenon
<1> HIDE DEF kept
<1> QED
  BY <1>3, <1>4, <1>5, <1>6 DEF TypeOK

\* What a save makes of the data it has read.
LEMMA SlotsToWrite ==
    ASSUME TypeOK, NEW e \in Editors, DOMAIN data[e] = Slots,
           NEW d \in Seq(Unit), NEW junk \in Values
    PROVE  /\ WithSlots(d, data[e], junk) \in Seq(Unit)
           /\ Len(WithSlots(d, data[e], junk)) = Len(d)
<1>1. junk \in Unit /\ data[e] \in Seq(Unit)
  BY ValuesAssumption DEF Unit, TypeOK
<1> QED
  BY <1>1, DataWithSlots

LEMMA StoredUnits ==
    ASSUME TypeOK, NEW e \in Editors
    PROVE  /\ Stored(e) \in Seq(Unit)
           /\ DOMAIN Stored(e) = DOMAIN data[e]
BY ExceptUnits DEF TypeOK, Stored

\* The three ways on from a block that was read.
ReadOn(read) ==
    /\ ~ LastBlock
    /\ task' = [NextBlock EXCEPT !.buf = read]
    /\ UNCHANGED editorVars

ReadForSave(read) ==
    /\ LastBlock /\ task.kind = "save"
    /\ \E junk \in Values :
          task' = [Task("write", task.ed) EXCEPT
                     !.buf = WithSlots(read, data[task.ed], junk)]
    /\ UNCHANGED editorVars

ReadToShow(read) ==
    /\ LastBlock /\ task.kind # "save"
    /\ Loaded(task.ed, read)
    /\ \E m \in BOOLEAN : modified' \in {modified, [modified EXCEPT ![task.ed] = m]}
    /\ task' = NoTask
    /\ UNCHANGED <<file, alive>>

LEMMA ReadCases ==
    ASSUME TaskRead
    PROVE  \E block \in BlocksRead :
              \/ ReadOn(task.buf \o block)
              \/ ReadForSave(task.buf \o block)
              \/ ReadToShow(task.buf \o block)
BY DEF TaskRead, ReadOn, ReadForSave, ReadToShow, MaybeModified

LEMMA TypeStep ==
    ASSUME IInv, [Next]_vars
    PROVE  TypeOK'
<1> TypeOK /\ Editing /\ TaskInPlace
  BY DEF IInv
<1> DEFINE TaskType == [kind : TaskKinds, ed : Editors \cup {NoFile}, n : Nat,
                        sought : BOOLEAN, buf : Seq(Unit)]
<1>0. /\ NoTask \in TaskType
      /\ \A kind \in TaskKinds, e \in Editors : Task(kind, e) \in TaskType
  BY EmptySeq DEF NoTask, Task, TaskKinds
<1> task \in TaskType
  BY DEF TypeOK
<1>a. ASSUME NEW n \in Nat, NEW buf \in Seq(Unit)
      PROVE  /\ [task EXCEPT !.n = n, !.sought = FALSE] \in TaskType
             /\ [task EXCEPT !.n = n, !.sought = FALSE, !.buf = buf] \in TaskType
  OBVIOUS
<1>b. task.n + 1 \in Nat
  OBVIOUS
<1>1. CASE UNCHANGED vars
  BY <1>1 DEF vars, cardVars, editorVars, TypeOK
<1>2. CASE Window
  <2>1. UNCHANGED <<file, slot, data, form, modified, task, outcome>>
    BY <1>2 DEF Window
  <2>2. alive' \in [Editors -> BOOLEAN]
    BY <1>2 DEF Window, FilesRebuilt, TypeOK
  <2>3. /\ UNCHANGED disk /\ pos' \in {pos, 1}
        /\ isOpen' \in BOOLEAN /\ errors' \in BOOLEAN /\ readOnly' \in BOOLEAN
        /\ console' \in {"GCN", "DC"} /\ found' \in BOOLEAN
        /\ worker' \in {"none", "seek", "read", "done"}
    <3>1. CASE OpenCard
      BY <3>1 DEF OpenCard, TypeOK
    <3>2. CASE FilesRebuilt
      BY <3>2 DEF FilesRebuilt, TypeOK
    <3>3. CASE CloseCard
      BY <3>3 DEF CloseCard, TypeOK
    <3>4. CASE AllowWriteClicked
      <4>1. chkAllowWrite.checked \in BOOLEAN => readOnly' \in BOOLEAN
        BY <3>4 DEF AllowWriteClicked, TypeOK
      <4>2. readOnly' \in BOOLEAN
        BY <3>4 DEF AllowWriteClicked, TypeOK
      <4> QED
        BY <3>4, <4>2 DEF AllowWriteClicked, TypeOK
    <3>5. CASE StartScan \/ SearchFinished
      BY <3>5 DEF StartScan, SearchFinished, TypeOK
    <3> QED
      BY <1>2, <3>1, <3>2, <3>3, <3>4, <3>5 DEF Window
  <2> QED
    BY <2>1, <2>2, <2>3 DEF TypeOK
<1>3. CASE Worker
  <2>1. UNCHANGED <<disk, isOpen, errors, readOnly, console, found, editorVars,
                    task, outcome>>
    BY <1>3 DEF Worker, WorkerSeek, WorkerRead
  <2>2. worker' \in {"none", "seek", "read", "done"}
    BY <1>3 DEF Worker, WorkerSeek, WorkerRead
  <2>3. pos' \in Nat \ {0}
    <3>1. FreeBlocks \subseteq Nat \ {0}
      BY ImageAssumption, LenProperties DEF FreeBlocks, NumBlocks
    <3> QED
      BY <1>3, <3>1 DEF Worker, WorkerSeek, WorkerRead, Seek, Advance, TypeOK
  <2> QED
    BY <2>1, <2>2, <2>3 DEF TypeOK, editorVars
<1>4. CASE TaskSeek
  <2>1. UNCHANGED <<disk, isOpen, errors, readOnly, console, found, worker,
                    editorVars, outcome>>
    BY <1>4 DEF TaskSeek
  <2>2. task' \in TaskType
    BY <1>4 DEF TaskSeek, TypeOK
  <2>3. pos' \in Nat \ {0}
    <3>1. TaskFile \in Files /\ task.n \in 1 .. Len(Chain[TaskFile])
      BY <1>4 DEF TaskSeek, TaskInPlace, Editing, TaskFile
    <3>2. Chain[TaskFile][task.n] \in Nat \ {0}
      BY <3>1, ChainAssumption, ElementOfSeq
    <3> QED
      BY <1>4, <3>2 DEF TaskSeek, Seek, PhysBlock
  <2> QED
    BY <2>1, <2>2, <2>3 DEF TypeOK, editorVars
<1>5. CASE TaskRead
  <2>1. UNCHANGED <<disk, isOpen, errors, readOnly, console, found, worker,
                    file, alive, outcome>>
    BY <1>5 DEF TaskRead, editorVars
  <2>2. pos' \in Nat \ {0}
    BY <1>5 DEF TaskRead, Advance, TypeOK
  <2>3. PICK block \in BlocksRead : \/ ReadOn(task.buf \o block)
                                    \/ ReadForSave(task.buf \o block)
                                    \/ ReadToShow(task.buf \o block)
    BY <1>5, ReadCases
  <2>4. /\ task.ed \in Editors /\ alive[task.ed] /\ task.kind # "none"
    BY <1>5 DEF TaskRead, TaskInPlace, NoTask
  <2> DEFINE read == task.buf \o block
  <2>5. read \in Seq(Unit) /\ Len(read) >= BlockSize
    BY ReadUnits
  <2> HIDE DEF read
  <2>6. CASE ReadOn(read)
    <3>1. task' \in TaskType
      BY <1>a, <1>b, <2>5, <2>6 DEF ReadOn, NextBlock
    <3> QED
      BY <2>1, <2>2, <2>6, <3>1 DEF ReadOn, editorVars, TypeOK
  <2>7. CASE ReadForSave(read)
    <3>1. PICK junk \in Values :
             task' = [Task("write", task.ed) EXCEPT
                        !.buf = WithSlots(read, data[task.ed], junk)]
      BY <2>7 DEF ReadForSave
    <3>2. DOMAIN data[task.ed] = Slots
      BY <2>4, <2>7 DEF ReadForSave, Editing, Loading
    <3>3. WithSlots(read, data[task.ed], junk) \in Seq(Unit)
      BY <2>4, <2>5, <3>2, SlotsToWrite
    <3>4. task' \in TaskType
      BY <1>0, <2>4, <3>1, <3>3 DEF TaskKinds, Task
    <3> QED
      BY <2>1, <2>2, <2>7, <3>4 DEF ReadForSave, editorVars, TypeOK
  <2>8. CASE ReadToShow(read)
    <3>1. /\ data' \in [Editors -> Seq(Unit)]
          /\ slot' \in [Editors -> 1 .. 3]
          /\ form' \in [Editors -> Unit]
      BY <2>4, <2>5, <2>8, KeptSlots DEF ReadToShow
    <3>2. modified' \in [Editors -> BOOLEAN]
      BY <2>8 DEF ReadToShow, TypeOK
    <3>3. task' \in TaskType
      BY <1>0, <2>8 DEF ReadToShow
    <3> QED
      BY <2>1, <2>2, <3>1, <3>2, <3>3 DEF TypeOK
  <2> QED
    BY <2>3, <2>6, <2>7, <2>8 DEF read
<1>6. CASE TaskWrite
  <2>1. UNCHANGED <<isOpen, errors, readOnly, console, found, worker,
                    editorVars, outcome>>
    BY <1>6 DEF TaskWrite
  <2>2. task.kind = "write" /\ Len(task.buf) >= BlockSize
    BY <1>6 DEF TaskWrite, IInv, Buffered
  <2>3. BlockToWrite \in Block
    <3>1. task.buf \in Seq(Unit) /\ BlockSize \in Nat
      BY ImageAssumption DEF TypeOK
    <3>2. /\ Len(task.buf) \in Nat
          /\ \A i \in 1 .. BlockSize : task.buf[i] \in Unit
      BY <2>2, <3>1, LenProperties, ElementOfSeq
    <3>3. /\ SubSeq(task.buf, 1, BlockSize) \in Seq(Unit)
          /\ Len(SubSeq(task.buf, 1, BlockSize)) = BlockSize
      BY <3>1, <3>2, SubSeqProperties, SlotsAssumption
    <3> QED
      BY <3>3, LenProperties DEF BlockToWrite, Block
  <2>4. disk' \in [1 .. NumBlocks -> Block] /\ pos' \in Nat \ {0}
    BY <1>6, <2>3 DEF TaskWrite, WriteHere, Advance, TypeOK
  <2>5. task' \in TaskType
    BY <1>0, <1>6, <1>a, <1>b DEF TaskWrite, NextBlock
  <2> QED
    BY <2>1, <2>4, <2>5 DEF TypeOK, editorVars
<1>7. ASSUME NEW e \in Editors, NEW f \in Files, OpenEditor(e, f)
      PROVE  TypeOK'
  <2>1. task' \in TaskType
    BY <1>0, <1>7 DEF OpenEditor, TaskKinds
  <2> QED
    BY <1>7, <2>1 DEF OpenEditor, cardVars, TypeOK
<1>8. ASSUME NEW e \in Editors, NEW s \in 1 .. 3, SwitchSlot(e, s)
      PROVE  TypeOK'
  <2>1. Stored(e) \in Seq(Unit) /\ DOMAIN Stored(e) = DOMAIN data[e]
    BY StoredUnits
  <2>2. data' \in [Editors -> Seq(Unit)] /\ data'[e] = Stored(e)
    BY <1>8, <2>1 DEF SwitchSlot, TypeOK
  <2>3. data'[e][s] \in Unit
    BY <1>8, <2>1, <2>2, LenProperties, ElementOfSeq DEF SwitchSlot
  <2>4. form' \in [Editors -> Unit]
    BY <1>8, <2>3 DEF SwitchSlot, TypeOK
  <2> QED
    BY <1>8, <2>2, <2>4 DEF SwitchSlot, MaybeModified, cardVars, TypeOK
<1>9. ASSUME NEW e \in Editors, Edit(e)
      PROVE  TypeOK'
  <2>1. form' \in [Editors -> Unit]
    BY <1>9, ValuesAssumption DEF Edit, TypeOK, Unit
  <2> QED
    BY <1>9, <2>1 DEF Edit, MaybeModified, cardVars, TypeOK
<1>10. ASSUME NEW e \in Editors, Reload(e) \/ Save(e)
       PROVE  TypeOK'
  <2>1. CASE UseDeleted(e)
    BY <2>1 DEF UseDeleted, cardVars, editorVars, TypeOK
  <2>2. CASE ~ UseDeleted(e)
    <3>1. Stored(e) \in Seq(Unit)
      BY StoredUnits
    <3>2. data' \in [Editors -> Seq(Unit)]
      BY <1>10, <2>2, <3>1 DEF Reload, Save, editorVars, TypeOK
    <3>3. task' \in TaskType
      BY <1>0, <1>10, <2>2 DEF Reload, Save, TaskKinds
    <3> QED
      BY <1>10, <2>2, <3>2, <3>3 DEF Reload, Save, cardVars, editorVars, TypeOK
  <2> QED
    BY <2>1, <2>2
<1>11. ASSUME NEW e \in Editors, CloseEditor(e)
       PROVE  TypeOK'
  <2>1. << >> \in Seq(Unit)
    BY EmptySeq
  <2> QED
    BY <1>11, <2>1 DEF CloseEditor, cardVars, TypeOK, Unit
<1> QED
  BY <1>1, <1>2, <1>3, <1>4, <1>5, <1>6, <1>7, <1>8, <1>9, <1>10, <1>11
  DEF Next, Terminated

-----------------------------------------------------------------------------
(* Editors. *)

LEMMA EditingStep ==
    ASSUME IInv, [Next]_vars
    PROVE  Editing'
<1> USE DEF Editing, Loading, Slots
<1>0. TypeOK /\ Editing /\ TaskInPlace
  BY DEF IInv
<1> /\ file \in [Editors -> Files \cup {NoFile}] /\ alive \in [Editors -> BOOLEAN]
    /\ slot \in [Editors -> 1 .. 3] /\ data \in [Editors -> Seq(Unit)]
  BY <1>0 DEF TypeOK
<1>1. CASE UNCHANGED vars
  BY <1>0, <1>1 DEF vars, cardVars, editorVars
<1>2. CASE Window
  <2>1. UNCHANGED <<file, slot, data, task>>
    BY <1>2 DEF Window
  <2>2. CASE OpenCard /\ UNCHANGED alive
    BY <1>0, <2>1, <2>2 DEF OpenCard
  <2>3. CASE FilesRebuilt
    <3>1. \A e \in Editors : alive'[e] => alive[e]
      BY <2>3 DEF FilesRebuilt
    <3> QED
      BY <1>0, <2>1, <2>3, <3>1 DEF FilesRebuilt
  <2>4. CASE CloseCard /\ alive' = [e \in Editors |-> FALSE]
    BY <1>0, <2>1, <2>4
  <2>5. CASE (AllowWriteClicked \/ StartScan \/ SearchFinished) /\ UNCHANGED alive
    <3>1. UNCHANGED <<isOpen, console>>
      BY <2>5 DEF AllowWriteClicked, StartScan, SearchFinished
    <3> QED
      BY <1>0, <2>1, <2>5, <3>1
  <2> QED
    BY <1>2, <2>2, <2>3, <2>4, <2>5 DEF Window
<1>3. CASE Worker
  BY <1>0, <1>3 DEF Worker, WorkerSeek, WorkerRead, editorVars
<1>4. CASE TaskSeek
  <2>1. UNCHANGED <<isOpen, console, file, alive, slot, data>>
    BY <1>4 DEF TaskSeek, editorVars
  <2>2. task'.kind = task.kind /\ task'.ed = task.ed
    BY <1>0, <1>4 DEF TaskSeek, TypeOK
  <2> QED
    BY <1>0, <2>1, <2>2
<1>5. CASE TaskRead
  <2>1. UNCHANGED <<isOpen, console, file, alive>>
    BY <1>5 DEF TaskRead, editorVars
  <2>2. PICK block \in BlocksRead : \/ ReadOn(task.buf \o block)
                                    \/ ReadForSave(task.buf \o block)
                                    \/ ReadToShow(task.buf \o block)
    BY <1>5, ReadCases
  <2>3. CASE ReadOn(task.buf \o block)
    <3>1. task'.kind = task.kind /\ task'.ed = task.ed
      BY <1>0, <2>3 DEF ReadOn, NextBlock, TypeOK
    <3> QED
      BY <1>0, <2>1, <2>3, <3>1 DEF ReadOn, editorVars
  <2>4. CASE ReadForSave(task.buf \o block)
    <3>1. task'.kind = "write" /\ task.kind = "save"
      BY <2>4 DEF ReadForSave, Task
    <3> QED
      BY <1>0, <2>1, <2>4, <3>1 DEF ReadForSave, editorVars
  <2>5. CASE ReadToShow(task.buf \o block)
    <3>1. task.ed \in Editors
      BY <1>0, <1>5 DEF TaskRead, TaskInPlace, NoTask
    <3>2. /\ task.buf \o block \in Seq(Unit)
          /\ Len(task.buf \o block) >= BlockSize
      BY <1>0, ReadUnits
    <3>3. /\ slot' = [slot EXCEPT ![task.ed] = 1]
          /\ DOMAIN data'[task.ed] = Slots
          /\ \A g \in Editors \ {task.ed} : data'[g] = data[g]
      BY <1>0, <2>5, <3>1, <3>2, KeptSlots DEF ReadToShow
    <3>4. task'.kind = "none"
      BY <2>5 DEF ReadToShow, NoTask
    <3> QED
      BY <1>0, <2>1, <3>1, <3>3, <3>4
  <2> QED
    BY <2>2, <2>3, <2>4, <2>5
<1>6. CASE TaskWrite
  <2>1. UNCHANGED <<isOpen, console, file, alive, slot, data>>
    BY <1>6 DEF TaskWrite, editorVars
  <2>2. task.kind = "write" /\ task'.kind \in {"none", "write"}
    BY <1>0, <1>6 DEF TaskWrite, NextBlock, NoTask, TypeOK
  <2> QED
    BY <1>0, <2>1, <2>2
<1>7. ASSUME NEW e \in Editors, NEW f \in Files, OpenEditor(e, f)
      PROVE  Editing'
  <2>1. task.kind = "none" /\ task'.kind = "load" /\ task'.ed = e
    BY <1>7 DEF OpenEditor, Loop, NoTask, Task
  <2>2. slot[e] = 1
    BY <1>0, <1>7 DEF OpenEditor
  <2> QED
    BY <1>0, <1>7, <2>1, <2>2, NoFileAssumption DEF OpenEditor, cardVars
<1>8. ASSUME NEW e \in Editors, NEW s \in 1 .. 3, SwitchSlot(e, s)
      PROVE  Editing'
  <2>1. DOMAIN Stored(e) = DOMAIN data[e]
    BY <1>0, StoredUnits
  <2>2. task.kind = "none"
    BY <1>8 DEF SwitchSlot, CanEdit, Loop, NoTask
  <2> QED
    BY <1>0, <1>8, <2>1, <2>2 DEF SwitchSlot, cardVars
<1>9. ASSUME NEW e \in Editors, Edit(e)
      PROVE  Editing'
  BY <1>0, <1>9 DEF Edit, cardVars
<1>10. ASSUME NEW e \in Editors, Reload(e) \/ Save(e)
       PROVE  Editing'
  <2>1. task.kind = "none"
    BY <1>10 DEF Reload, Save, CanEdit, Loop, NoTask
  <2>2. CASE UseDeleted(e)
    BY <1>0, <2>2 DEF UseDeleted, cardVars, editorVars
  <2>3. CASE Reload(e) /\ ~ UseDeleted(e)
    BY <1>0, <2>1, <2>3 DEF Reload, Task, cardVars, editorVars
  <2>4. CASE Save(e) /\ ~ UseDeleted(e)
    <3>1. DOMAIN Stored(e) = DOMAIN data[e]
      BY <1>0, StoredUnits
    <3> QED
      BY <1>0, <2>1, <2>4, <3>1 DEF Save, Task, cardVars
  <2> QED
    BY <1>10, <2>2, <2>3, <2>4
<1>11. ASSUME NEW e \in Editors, CloseEditor(e)
       PROVE  Editing'
  BY <1>0, <1>11 DEF CloseEditor, cardVars
<1> QED
  BY <1>1, <1>2, <1>3, <1>4, <1>5, <1>6, <1>7, <1>8, <1>9, <1>10, <1>11
  DEF Next, Terminated

-----------------------------------------------------------------------------
(* Tasks. *)

TaskInv == TaskInPlace /\ SaveAllowed /\ Buffered

\* Nothing is known of a task when there is none.
LEMMA NoTaskInv ==
    ASSUME task' = NoTask
    PROVE  TaskInv'
BY DEF TaskInv, TaskInPlace, SaveAllowed, Buffered, NoTask

\* A step that leaves the task, its editor and its file alone.
LEMMA TaskFrame ==
    ASSUME TaskInv,
           UNCHANGED <<disk, console, readOnly, file, alive, slot, data, form, task>>,
           task = NoTask \/ UNCHANGED <<pos, worker>>
    PROVE  TaskInv'
BY DEF TaskInv, TaskInPlace, SaveAllowed, Buffered, TaskFile, Held, WithSlots,
       Slots, NoTask

\* A task begins at the first block of a file that has one.
LEMMA TaskBegins ==
    ASSUME TypeOK, NEW kind \in {"load", "reload", "save"}, NEW e \in Editors,
           task' = Task(kind, e), alive'[e], file'[e] \in Files,
           Patient => worker' = "none",
           kind = "save" => /\ ~ readOnly' /\ file'[e] \notin LostFiles
                            /\ Held(e)' = data'[e]
    PROVE  TaskInv'
<1>1. /\ task'.kind = kind /\ task'.ed = e /\ task'.n = 1 /\ task'.sought = FALSE
      /\ task'.buf = << >>
  BY DEF Task
<1>2. Len(Chain[file'[e]]) \in Nat \ {0}
  BY ChainAssumption, EmptySeq
<1>3. 1 \in 1 .. Len(Chain[file'[e]])
  BY <1>2
<1>4. TaskInPlace'
  BY <1>1, <1>3 DEF TaskInPlace, TaskFile
<1>5. SaveAllowed'
  BY <1>1 DEF SaveAllowed, TaskFile, Held
<1>6. Buffered'
  BY <1>1 DEF Buffered
<1> QED
  BY <1>4, <1>5, <1>6 DEF TaskInv

\* The block read is the one that was sought.
LEMMA ReadSought ==
    ASSUME TypeOK, TaskInPlace, task # NoTask, task.sought, Patient,
           Chain[TaskFile][task.n] <= NumBlocks, NEW block \in BlocksRead
    PROVE  block = disk[Chain[TaskFile][task.n]]
BY DEF TaskInPlace, BlocksRead, CanRead, ReadHere

LEMMA TaskReadStep ==
    ASSUME TypeOK, Editing, TaskInv, TaskRead
    PROVE  TaskInv'
<1>1. UNCHANGED <<disk, readOnly, console, worker, file, alive>>
  BY DEF TaskRead, editorVars
<1>2. /\ task # NoTask /\ task.sought
      /\ task.kind \in {"load", "reload", "save"}
  BY DEF TaskRead, NoTask
<1>3. /\ task.ed \in Editors /\ alive[task.ed] /\ TaskFile \in Files
      /\ task.n \in 1 .. Len(Chain[TaskFile])
      /\ Patient => worker = "none"
  BY <1>2 DEF TaskInv, TaskInPlace, Editing, TaskFile
<1>4. PICK block \in BlocksRead : \/ ReadOn(task.buf \o block)
                                  \/ ReadForSave(task.buf \o block)
                                  \/ ReadToShow(task.buf \o block)
  BY ReadCases
<1> DEFINE read == task.buf \o block
<1>5. read \in Seq(Unit) /\ Len(read) >= BlockSize
  BY ReadUnits
<1>6. Len(Chain[TaskFile]) \in Nat
  BY <1>3, ChainAssumption, LenProperties
<1>7. CASE ReadOn(read)
  <2> HIDE DEF read
  <2>1. /\ task'.kind = task.kind /\ task'.ed = task.ed /\ task'.n = task.n + 1
        /\ task'.sought = FALSE /\ task'.buf = read
        /\ UNCHANGED <<slot, data, form>>
    BY <1>7 DEF ReadOn, NextBlock, editorVars, TypeOK
  <2>2. task.n # Len(Chain[TaskFile])
    BY <1>7 DEF ReadOn, LastBlock
  <2>3. task.n + 1 \in 1 .. Len(Chain[TaskFile]) /\ task.n + 1 # 1
    BY <1>3, <1>6, <2>2
  <2>4. TaskInPlace'
    BY <1>1, <1>2, <1>3, <2>1, <2>3 DEF TaskInPlace, TaskFile
  <2>5. SaveAllowed'
    BY <1>1, <1>2, <2>1 DEF TaskInv, SaveAllowed, TaskFile, Held
  <2>6. Buffered'
    BY <1>2, <1>5, <2>1, <2>3 DEF Buffered
  <2> QED
    BY <2>4, <2>5, <2>6 DEF TaskInv
<1>8. CASE ReadForSave(read)
  <2> HIDE DEF read
  <2>1. PICK junk \in Values :
           task' = [Task("write", task.ed) EXCEPT
                      !.buf = WithSlots(read, data[task.ed], junk)]
    BY <1>8 DEF ReadForSave
  <2>2. /\ task'.kind = "write" /\ task'.ed = task.ed /\ task'.n = 1
        /\ task'.sought = FALSE
        /\ task'.buf = WithSlots(read, data[task.ed], junk)
        /\ task.kind = "save" /\ task.n = Len(Chain[TaskFile])
        /\ UNCHANGED <<slot, data, form>>
    BY <1>8, <2>1 DEF Task, ReadForSave, LastBlock, editorVars
  <2>3. TaskInPlace'
    <3>1. 1 \in 1 .. Len(Chain[TaskFile])
      BY <1>3, <1>6
    <3> QED
      BY <1>1, <1>3, <2>2, <3>1 DEF TaskInPlace, TaskFile
  <2>4. SaveAllowed'
    BY <1>1, <2>2 DEF TaskInv, SaveAllowed, TaskFile, Held
  <2>5. DOMAIN data[task.ed] = Slots
    BY <1>3, <2>2 DEF Editing, Loading
  <2>6. Len(task'.buf) >= BlockSize
    BY <1>3, <1>5, <2>2, <2>5, SlotsToWrite
  <2>7. ASSUME Patient, Len(Chain[TaskFile]) = 1, Chain[TaskFile][1] <= NumBlocks
        PROVE  read = disk[Chain[TaskFile][1]]
    <3>1. task.n = 1 /\ task.buf = << >>
      BY <2>2, <2>7 DEF TaskInv, Buffered
    <3>2. block = disk[Chain[TaskFile][1]]
      BY <1>2, <2>7, <3>1, ReadSought DEF TaskInv
    <3>3. Chain[TaskFile][1] \in Nat \ {0}
      BY <1>3, <3>1, ChainAssumption, ElementOfSeq
    <3>4. block \in Seq(Unit)
      <4>1. NumBlocks \in Nat
        BY ImageAssumption, LenProperties DEF NumBlocks
      <4>2. Chain[TaskFile][1] \in 1 .. NumBlocks
        BY <2>7, <3>3, <4>1
      <4> QED
        BY <3>2, <4>2, BlockIsSeq DEF TypeOK
    <3> QED
      BY <3>1, <3>2, <3>4, ConcatEmptySeq DEF read
  <2>8. Buffered'
    <3>1. ASSUME Patient, Len(Chain[TaskFile]) = 1, Chain[TaskFile][1] <= NumBlocks
          PROVE  task'.buf = WithSlots(disk[Chain[TaskFile][1]], data[task.ed], junk)
      BY <2>2, <2>7, <3>1
    <3>2. TaskFile' = TaskFile
      BY <1>1, <2>2 DEF TaskFile
    <3>3. ASSUME Patient, Len(Chain[TaskFile]) = 1, Chain[TaskFile][1] <= NumBlocks
          PROVE  task'.buf = WithSlots(disk[Chain[TaskFile][1]], data[task.ed], junk)'
      BY <1>1, <2>2, <3>1, <3>2, <3>3 DEF WithSlots, Slots
    <3> QED
      BY <2>2, <2>6, <3>2, <3>3 DEF Buffered
  <2> QED
    BY <2>3, <2>4, <2>8 DEF TaskInv
<1>9. CASE ReadToShow(read)
  BY <1>9, NoTaskInv DEF ReadToShow
<1> QED
  BY <1>4, <1>7, <1>8, <1>9

LEMMA TaskStep ==
    ASSUME IInv, [Next]_vars
    PROVE  TaskInv'
<1>0. TypeOK /\ Editing /\ TaskInPlace /\ SaveAllowed /\ Buffered /\ TaskInv
  BY DEF IInv, TaskInv
<1>1. CASE UNCHANGED vars
  BY <1>0, <1>1, TaskFrame DEF vars, cardVars, editorVars
<1>2. CASE Window
  BY <1>2, NoTaskInv DEF Window, Loop
<1>3. CASE Worker
  <2>1. UNCHANGED <<disk, isOpen, readOnly, console, file, alive, slot, data, form,
                    task>>
    BY <1>3 DEF Worker, WorkerSeek, WorkerRead, editorVars
  <2>2. worker # "none"
    BY <1>3 DEF Worker, WorkerSeek, WorkerRead
  <2>3. CASE task = NoTask
    BY <1>0, <2>1, <2>3, TaskFrame
  <2>4. CASE ~ Patient
    BY <1>0, <2>1, <2>4 DEF TaskInv, TaskInPlace, SaveAllowed, Buffered, TaskFile,
       Held
  <2> QED
    BY <1>0, <2>2, <2>3, <2>4 DEF TaskInPlace
<1>4. CASE TaskSeek
  <2>1. UNCHANGED <<disk, readOnly, console, worker, file, alive, slot, data, form>>
    BY <1>4 DEF TaskSeek, editorVars
  <2>2. /\ task # NoTask
        /\ task'.kind = task.kind /\ task'.ed = task.ed /\ task'.n = task.n
        /\ task'.buf = task.buf
        /\ pos' = Chain[TaskFile][task.n]
    BY <1>0, <1>4 DEF TaskSeek, TypeOK, Seek, PhysBlock
  <2>3. TaskInPlace'
    BY <1>0, <2>1, <2>2 DEF TaskInPlace, TaskFile
  <2>4. SaveAllowed'
    BY <1>0, <2>1, <2>2 DEF SaveAllowed, TaskFile, Held
  <2>5. Buffered'
    BY <1>0, <2>1, <2>2 DEF Buffered, TaskFile, WithSlots, Slots
  <2> QED
    BY <2>3, <2>4, <2>5 DEF TaskInv
<1>5. CASE TaskRead
  BY <1>0, <1>5, TaskReadStep
<1>6. CASE TaskWrite
  <2>1. CASE LastBlock
    BY <1>6, <2>1, NoTaskInv DEF TaskWrite
  <2>2. CASE ~ LastBlock
    <3>1. UNCHANGED <<readOnly, console, worker, file, alive, slot, data, form>>
      BY <1>6 DEF TaskWrite, editorVars
    <3>2. /\ task # NoTask /\ task.kind = "write"
          /\ task'.kind = task.kind /\ task'.ed = task.ed /\ task'.n = task.n + 1
          /\ task'.sought = FALSE /\ task'.buf = task.buf
      BY <1>0, <1>6, <2>2 DEF TaskWrite, TypeOK, NextBlock, NoTask
    <3>3. /\ task.ed \in Editors /\ alive[task.ed] /\ TaskFile \in Files
          /\ task.n \in 1 .. Len(Chain[TaskFile])
          /\ Patient => worker = "none"
      BY <1>0, <3>2 DEF TaskInPlace, Editing, TaskFile
    <3>4. Len(Chain[TaskFile]) \in Nat /\ task.n # Len(Chain[TaskFile])
      BY <2>2, <3>3, ChainAssumption, LenProperties DEF LastBlock
    <3>5. task.n + 1 \in 1 .. Len(Chain[TaskFile]) /\ Len(Chain[TaskFile]) # 1
      <4> DEFINE len == Len(Chain[TaskFile])
                 n == task.n
      <4>1. len \in Nat /\ n \in 1 .. len /\ n # len
        BY <3>3, <3>4
      <4> HIDE DEF len, n
      <4>2. n + 1 \in 1 .. len /\ len # 1
        BY <4>1
      <4> QED
        BY <4>2 DEF len, n
    <3>6. TaskInPlace'
      BY <3>1, <3>2, <3>3, <3>5 DEF TaskInPlace, TaskFile
    <3>7. SaveAllowed'
      BY <1>0, <3>1, <3>2 DEF SaveAllowed, TaskFile, Held
    <3>8. Buffered'
      BY <1>0, <3>1, <3>2, <3>5 DEF Buffered, TaskFile
    <3> QED
      BY <3>6, <3>7, <3>8 DEF TaskInv
  <2> QED
    BY <2>1, <2>2
<1>7. ASSUME NEW e \in Editors, NEW f \in Files, OpenEditor(e, f)
      PROVE  TaskInv'
  <2>1. alive'[e] /\ file'[e] = f /\ worker' = "none"
    BY <1>0, <1>7 DEF OpenEditor, TypeOK, cardVars
  <2> QED
    BY <1>0, <1>7, <2>1, TaskBegins DEF OpenEditor
<1>8. ASSUME NEW e \in Editors, NEW s \in 1 .. 3, SwitchSlot(e, s)
      PROVE  TaskInv'
  BY <1>8, NoTaskInv DEF SwitchSlot, CanEdit, Loop
<1>9. ASSUME NEW e \in Editors, Edit(e) \/ CloseEditor(e)
      PROVE  TaskInv'
  BY <1>9, NoTaskInv DEF Edit, CloseEditor, CanEdit, Loop
<1>10. ASSUME NEW e \in Editors, Reload(e)
       PROVE  TaskInv'
  <2>1. CASE UseDeleted(e)
    BY <1>10, <2>1, NoTaskInv DEF Reload, UseDeleted, CanEdit, Loop
  <2>2. CASE ~ UseDeleted(e)
    <3>1. /\ alive[e] /\ task' = Task("reload", e) /\ UNCHANGED <<file, alive, worker>>
          /\ Patient => worker = "none"
      BY <1>10, <2>2 DEF Reload, CanEdit, cardVars, editorVars
    <3> QED
      BY <1>0, <3>1, TaskBegins DEF Editing
  <2> QED
    BY <2>1, <2>2
<1>11. ASSUME NEW e \in Editors, Save(e)
       PROVE  TaskInv'
  <2>1. CASE UseDeleted(e)
    BY <1>11, <2>1, NoTaskInv DEF Save, UseDeleted, CanEdit, Loop
  <2>2. CASE ~ UseDeleted(e)
    <3>1. /\ alive[e] /\ task' = Task("save", e)
          /\ UNCHANGED <<file, alive, slot, form, worker, readOnly>>
          /\ Patient => worker = "none"
          /\ ~ readOnly /\ file[e] \notin LostFiles
          /\ data' = [data EXCEPT ![e] = Stored(e)]
      BY <1>11, <2>2 DEF Save, CanEdit, cardVars, IsReadOnly
    <3>2. Held(e)' = data'[e]
      <4>1. data[e] \in Seq(Unit) /\ form[e] \in Unit /\ data'[e] = Stored(e)
        BY <1>0, <3>1 DEF TypeOK
      <4> QED
        BY <3>1, <4>1, StoredIsHeld DEF Held, Stored
    <3> QED
      BY <1>0, <3>1, <3>2, TaskBegins DEF Editing
  <2> QED
    BY <2>1, <2>2
<1> QED
  BY <1>1, <1>2, <1>3, <1>4, <1>5, <1>6, <1>7, <1>8, <1>9, <1>10, <1>11
  DEF Next, Terminated

\* The code of an editor on its way through a file is where its task says, and
\* only a save that is allowed is on its way.
THEOREM Invariance == Spec => []IInv
<1>1. IInv /\ [Next]_vars => IInv'
  BY TypeStep, EditingStep, TaskStep DEF IInv, TaskInv
<1> QED
  BY InitInv, <1>1, PTL DEF Spec

-----------------------------------------------------------------------------
(* What a save writes. *)

\* A step that changes the card is a step of a save: it writes the block that
\* was sought for the file of the task.
LEMMA OnlyTasksWrite ==
    ASSUME IInv, Next, disk' # disk
    PROVE  /\ TaskWrite /\ task.kind = "write" /\ ~ readOnly
           /\ TaskFile \notin LostFiles
           /\ task.n \in DOMAIN Chain[TaskFile]
           /\ disk' = [disk EXCEPT ![pos] = BlockToWrite]
           /\ Patient => pos = Chain[TaskFile][task.n]
<1>1. TaskWrite
  BY DEF Next, Window, Worker, TaskSeek, TaskRead, Terminated, OpenEditor,
         SwitchSlot, Edit, Reload, Save, CloseEditor, UseDeleted, OpenCard,
         FilesRebuilt, CloseCard, AllowWriteClicked, StartScan, SearchFinished,
         WorkerSeek, WorkerRead, vars, cardVars
<1>2. task.kind = "write" /\ task.sought /\ task # NoTask
  BY <1>1 DEF TaskWrite, NoTask
<1>3. ~ readOnly /\ TaskFile \notin LostFiles
  BY <1>2 DEF IInv, SaveAllowed
<1>4. /\ task.n \in 1 .. Len(Chain[TaskFile])
      /\ TaskFile \in Files
      /\ Patient => pos = Chain[TaskFile][task.n]
  BY <1>2 DEF IInv, TaskInPlace, Editing, TaskFile
<1>5. task.n \in DOMAIN Chain[TaskFile]
  BY <1>4, ChainAssumption, LenProperties
<1>6. disk' = [disk EXCEPT ![pos] = BlockToWrite]
  BY <1>1 DEF TaskWrite, WriteHere
<1> QED
  BY <1>1, <1>2, <1>3, <1>4, <1>5, <1>6

\* A user who leaves the editors alone during a search writes only to blocks
\* of the file that is saved: no other code moves the QFile between the seek
\* and the transfer.  The card is writable then, and the file not a lost one.
THEOREM SavesStayInTheirFile ==
    ASSUME Patient
    PROVE  Spec => OnlySavedFileWritten
<1> DEFINE Written == \A b \in DOMAIN disk : disk'[b] # disk[b] =>
                         /\ task.kind = "write" /\ ~ readOnly
                         /\ TaskFile \notin LostFiles /\ b \in ToSet(Chain[TaskFile])
<1>1. ASSUME IInv, [Next]_vars
      PROVE  [Written]_vars
  <2>1. CASE disk' = disk
    BY <2>1
  <2>2. CASE Next /\ disk' # disk
    <3>1. /\ task.kind = "write" /\ ~ readOnly /\ TaskFile \notin LostFiles
          /\ task.n \in DOMAIN Chain[TaskFile]
          /\ disk' = [disk EXCEPT ![pos] = BlockToWrite]
          /\ pos = Chain[TaskFile][task.n]
      BY <1>1, <2>2, OnlyTasksWrite
    <3>2. pos \in ToSet(Chain[TaskFile])
      BY <3>1 DEF ToSet
    <3>3. ASSUME NEW b \in DOMAIN disk, disk'[b] # disk[b]
          PROVE  b = pos
      BY <3>1, <3>3
    <3> QED
      BY <3>1, <3>2, <3>3
  <2> QED
    BY <1>1, <2>1, <2>2 DEF vars, cardVars
<1> QED
  BY <1>1, Invariance, PTL DEF Spec, OnlySavedFileWritten

-----------------------------------------------------------------------------
(* What the slots of an editor keep. *)

\* setCurrentSaveSlot() stores what the forms of the old slot show before it
\* fills them in for the new one.
THEOREM NoEditIsLost == Spec => SwitchKeepsEdits
<1> DEFINE Kept == \A e \in Editors :
                      task = NoTask /\ slot'[e] # slot[e] /\ file'[e] # NoFile
                         => Held(e)' = Held(e)
<1>1. ASSUME IInv, [Next]_vars
      PROVE  [Kept]_vars
  <2>1. SUFFICES ASSUME NEW e \in Editors, Next, task = NoTask,
                        slot'[e] # slot[e], file'[e] # NoFile
                 PROVE  Held(e)' = Held(e)
    BY <1>1
  <2>2. /\ slot \in [Editors -> 1 .. 3] /\ file \in [Editors -> Files \cup {NoFile}]
        /\ data \in [Editors -> Seq(Unit)] /\ form \in [Editors -> Unit]
    BY <1>1 DEF IInv, TypeOK
  <2>3. PICK s \in 1 .. 3 : SwitchSlot(e, s)
    <3>1. \E g \in Editors : (\E s \in 1 .. 3 : SwitchSlot(g, s)) \/ CloseEditor(g)
      BY <2>1 DEF Next, Window, Worker, TaskSeek, TaskRead, TaskWrite, Terminated,
         OpenEditor, Edit, Reload, Save, UseDeleted, vars, editorVars, NoTask
    <3>2. PICK g \in Editors : (\E s \in 1 .. 3 : SwitchSlot(g, s)) \/ CloseEditor(g)
      BY <3>1
    <3>3. g = e
      BY <2>1, <2>2, <3>2 DEF SwitchSlot, CloseEditor
    <3>4. ~ CloseEditor(e)
      BY <2>1, <2>2 DEF CloseEditor
    <3> QED
      BY <3>2, <3>3, <3>4
  <2>4. /\ s \in DOMAIN data[e]
        /\ data'[e] = Stored(e)
        /\ slot'[e] = s
        /\ form'[e] = Stored(e)[s]
    BY <2>2, <2>3 DEF SwitchSlot
  <2>5. [Stored(e) EXCEPT ![s] = Stored(e)[s]] = Stored(e)
    BY <2>2, <2>4, StoredIsHeld DEF Stored
  <2> QED
    BY <2>4, <2>5 DEF Held, Stored
<1> QED
  BY <1>1, Invariance, PTL DEF Spec, SwitchKeepsEdits

-----------------------------------------------------------------------------
(* What the save of a file of one block leaves on the card. *)

\* Every file lies on the card: the image has the blocks of its chain.
OnCard == \A f \in Files : \A n \in DOMAIN Chain[f] : Chain[f][n] <= NumBlocks

LEMMA FlattenOne ==
    ASSUME NEW q, NEW seqs, seqs = <<q>>
    PROVE  FlattenSeq(seqs) = q
<1> DEFINE Def(g) == [i \in 1 .. Len(seqs) |->
                         IF i = 1 THEN seqs[i] ELSE g[i-1] \o seqs[i]]
           flat == CHOOSE g : g = Def(g)
<1>1. Len(seqs) = 1 /\ seqs[1] = q
  OBVIOUS
<1>2. 1 .. Len(seqs) = {1}
  BY <1>1
<1>3. \E g : g = Def(g)
  <2> DEFINE g == [i \in 1 .. Len(seqs) |-> seqs[i]]
  <2>1. g = Def(g)
    BY <1>1, <1>2
  <2> QED
    BY <2>1
<1>4. flat = Def(flat)
  BY <1>3
<1>5. flat[1] = q
  BY <1>1, <1>2, <1>4
<1> QED
  BY <1>1, <1>5 DEF FlattenSeq

LEMMA ContentOfOneBlock ==
    ASSUME NEW d, NEW f \in Files, Len(Chain[f]) = 1
    PROVE  ContentOn(d, f) = d[Chain[f][1]]
<1> DEFINE blocks == [n \in 1 .. Len(Chain[f]) |-> d[Chain[f][n]]]
<1>1. blocks = <<d[Chain[f][1]]>>
  OBVIOUS
<1> QED
  BY <1>1, FlattenOne DEF ContentOn

\* When a save has written the only block of its file, the block holds the
\* slot as the editor shows it, behind the header it had.
LEMMA OneBlockWritten ==
    ASSUME IInv, Patient, OnCard, Next, WriteEnds, Len(Chain[TaskFile]) = 1
    PROVE  /\ SlotsIn(ContentOn(disk', TaskFile)) = Held(task.ed)
           /\ ContentOn(disk', TaskFile)[1] = Content(TaskFile)[1]
<1> DEFINE b == Chain[TaskFile][1]
           e == task.ed
<1>1. TypeOK /\ Editing /\ TaskInPlace /\ SaveAllowed /\ Buffered
  BY DEF IInv
<1>2. task.kind = "write" /\ task' = NoTask /\ task # NoTask
  BY DEF WriteEnds, NoTask
<1>3. TaskWrite
  <2>1. ~ TaskSeek
    BY <1>1, <1>2 DEF TaskSeek, TypeOK, NoTask
  <2> QED
    BY <1>2, <2>1 DEF Next, Window, Worker, TaskRead, Terminated, OpenEditor,
       SwitchSlot, Edit, Reload, Save, CloseEditor, CanEdit, Loop, vars
<1>4. /\ e \in Editors /\ alive[e] /\ TaskFile \in Files
      /\ task.n \in 1 .. 1 /\ pos = Chain[TaskFile][task.n]
  BY <1>1, <1>2, <1>3 DEF TaskInPlace, TaskWrite, Editing, TaskFile
<1>5. task.n = 1 /\ pos = b
  BY <1>4
<1>6. b \in 1 .. NumBlocks
  <2>1. Chain[TaskFile] \in Seq(Nat \ {0}) /\ 1 \in DOMAIN Chain[TaskFile]
    BY <1>4, ChainAssumption, LenProperties
  <2>2. b \in Nat \ {0} /\ b <= NumBlocks
    BY <1>4, <2>1, ElementOfSeq DEF OnCard
  <2>3. NumBlocks \in Nat
    BY ImageAssumption, LenProperties DEF NumBlocks
  <2> QED
    BY <2>2, <2>3
<1>7. disk[b] \in Seq(Unit) /\ Len(disk[b]) = BlockSize
  BY <1>1, <1>6, BlockIsSeq DEF TypeOK
<1>8. console = "GCN" /\ Slots = {1} /\ DOMAIN data[e] = {1}
  <2>1. console \in {"GCN", "DC"}
    BY <1>1 DEF TypeOK
  <2>2. console # "DC"
    <3>1. Len(Chain[file[e]]) = 1
      BY DEF TaskFile
    <3>2. console = "DC" => Len(Chain[file[e]]) > 1
      BY <1>1, <1>4 DEF Editing
    <3> QED
      BY <3>1, <3>2
  <2> QED
    BY <1>1, <1>2, <1>4, <2>1, <2>2 DEF Editing, Slots, Loading
<1>9. PICK junk \in Values : task.buf = WithSlots(disk[b], data[e], junk)
  BY <1>1, <1>2, <1>6 DEF Buffered
<1>10. task.buf \in Seq(Unit) /\ Len(task.buf) = BlockSize
  BY <1>1, <1>4, <1>7, <1>8, <1>9, SlotsToWrite
<1>11. BlockToWrite = task.buf
  BY <1>10, SubSeqFull DEF BlockToWrite
<1>12. disk' = [disk EXCEPT ![b] = task.buf]
  BY <1>3, <1>5, <1>6, <1>11 DEF TaskWrite, WriteHere
<1>13. disk'[b] = task.buf
  BY <1>1, <1>6, <1>12 DEF TypeOK
<1>14. ContentOn(disk', TaskFile) = task.buf /\ Content(TaskFile) = disk[b]
  BY <1>4, <1>13, ContentOfOneBlock DEF Content
<1>15. /\ BlockSize \in Nat /\ BlockSize >= 5
       /\ task.buf[1] = disk[b][1]
       /\ task.buf[2] = data[e][1]
  <2>1. BlockSize \in Nat /\ BlockSize >= 5
    BY ImageAssumption, SlotsAssumption
  <2> DEFINE d == disk[b]
  <2>2. task.buf = [i \in 1 .. BlockSize |->
                      CASE i - 1 \in {1} -> data[e][i - 1]
                        [] i = 5 /\ console = "DC" -> junk
                        [] OTHER -> d[i]]
    BY <1>7, <1>8, <1>9 DEF WithSlots
  <2> HIDE DEF d, b, e
  <2>3. task.buf[1] = d[1] /\ task.buf[2] = data[e][1]
    BY <2>1, <2>2, <1>8
  <2> QED
    BY <2>1, <2>3 DEF d
<1>16. SlotsIn(task.buf) = data[e]
  <2>1. /\ SlotsIn(task.buf) \in Seq(Unit)
        /\ DOMAIN SlotsIn(task.buf) = {1}
        /\ SlotsIn(task.buf)[1] = task.buf[2]
    BY <1>8, <1>10, <1>15, SlotsOfData
  <2>2. data[e] \in Seq(Unit)
    BY <1>1, <1>4 DEF TypeOK
  <2>3. SlotsIn(task.buf) \in [{1} -> Unit] /\ data[e] \in [{1} -> Unit]
    BY <1>8, <2>1, <2>2, LenProperties
  <2> QED
    BY <1>15, <2>1, <2>3
<1> QED
  BY <1>1, <1>2, <1>14, <1>15, <1>16 DEF SaveAllowed

\* What a save of a file of one block leaves on the card is what the editor
\* holds, if the card has the block.
THEOREM OneBlockIsSaved ==
    ASSUME Patient, OnCard
    PROVE  Spec => OneBlockSaved
<1> DEFINE Done == WriteEnds /\ Len(Chain[TaskFile]) = 1 =>
                      /\ SlotsIn(ContentOn(disk', TaskFile)) = Held(task.ed)
                      /\ ContentOn(disk', TaskFile)[1] = Content(TaskFile)[1]
<1>1. ASSUME IInv, [Next]_vars
      PROVE  [Done]_vars
  BY <1>1, OneBlockWritten
<1> QED
  BY <1>1, Invariance, PTL DEF Spec, OneBlockSaved
=============================================================================
