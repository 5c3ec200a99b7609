------------------------------- MODULE GcnCard -------------------------------
(***************************************************************************)
(* GcnCard: an open memory card image with two directory tables and two    *)
(* block tables, the list of files read through the selected pair, the     *)
(* "lost" files a search appended to it, and the number of files that use  *)
(* each block.                                                             *)
(*                                                                         *)
(* A method announces every change of the list to its listeners before and *)
(* after it makes the change, by signals that run the listeners' slots     *)
(* synchronously.  The method in progress is the sequence of steps it      *)
(* still has to make (todo): a step is one signal or the code between two. *)
(***************************************************************************)
EXTENDS Integers, Sequences, FiniteSets, SequencesExt

CONSTANTS Images,       \* card images: see IsImage
          TotalPhys,    \* totalPhysBlocks
          FatSize,      \* NUM_ELEMENTS(mc_bat->fat)
          Objects,      \* addresses a File object may have
          MaxCount      \* greatest value of usedBlockMap, 255 in the code

FirstBlock == 5
UserBlocks == TotalPhys - FirstBlock
TableIdx == {0, 1}

\* A directory entry names a start block, a length and whether the icon is
\* animated; empty entries are left out.
IsImage(i) ==
    /\ i.header \in BOOLEAN
    /\ \A t \in TableIdx :
         /\ i.dats[t].valid \in BOOLEAN /\ i.dats[t].updated \in Nat
         /\ i.dats[t].entries \in
                Seq([block : Nat, length : Nat, animated : BOOLEAN])
         /\ i.bats[t].checksum \in BOOLEAN /\ i.bats[t].updated \in Nat
         /\ i.bats[t].freeblocks \in Nat
         /\ i.bats[t].fat \in [0 .. FatSize - 1 -> Nat]

ASSUME ImagesAssumption == \A i \in Images : IsImage(i)
ASSUME SizesAssumption == TotalPhys \in Nat /\ UserBlocks > 0
                          /\ FatSize \in Nat /\ FatSize >= TotalPhys
                          /\ MaxCount \in Nat /\ MaxCount > 0

None == 0               \* a null pointer
ASSUME ObjectsAssumption == IsFiniteSet(Objects) /\ None \notin Objects

VARIABLES
    image,              \* <<>> or <<the open image>>
    dat, bat,           \* index of mc_dat and mc_bat
    datActive, batActive,   \* dat_info.active, bat_info.active
    freeBlocks,
    heap,               \* the File objects that exist
    lstFiles,           \* addresses of the files of the card, in order
    usedBlockMap,
    todo                \* steps of the method in progress

cardVars == <<image, dat, bat, datActive, batActive, freeBlocks, heap,
              lstFiles, usedBlockMap, todo>>
tableVars == <<image, dat, bat, datActive, batActive, freeBlocks>>

IsOpen == image # << >>
Img == image[1]
Lost(f) == heap[f].lost
Animated(f) == heap[f].animated

-----------------------------------------------------------------------------
(* Tables. *)

\* Blocks the block table marks as free.
ActualFree(b) == Cardinality({i \in 0 .. UserBlocks - 1 : b.fat[i] = 0})
FreeblocksValid(b) == b.freeblocks <= UserBlocks /\ ActualFree(b) = b.freeblocks

DatValid(i, t) == i.dats[t].valid
BatValid(i, t) == i.bats[t].checksum /\ FreeblocksValid(i.bats[t])

\* checkTables() tries the table updated last.
Newer(tables) == IF tables[1].updated > tables[0].updated THEN 1 ELSE 0

\* Seeded fault: the fallback is taken without a look at its checksum.
FallbackUnchecked(tables, valid) ==
    LET t == Newer(tables) IN IF t \in valid THEN t ELSE 1 - t

\* ... and takes the other one if it is invalid, -1 if both are.
ActiveTable(tables, valid) ==
    LET t == Newer(tables) IN
    IF t \in valid THEN t ELSE IF 1 - t \in valid THEN 1 - t ELSE -1

ActiveDat(i) == ActiveTable(i.dats, {t \in TableIdx : DatValid(i, t)})
ActiveBat(i) == ActiveTable(i.bats, {t \in TableIdx : BatValid(i, t)})

\* Table 0 is read when both are invalid.
ReadTable(active) == IF active = -1 THEN 0 ELSE active

-----------------------------------------------------------------------------
(* GcnFile *)

InFat(b) == b >= FirstBlock /\ b < FatSize

\* Seeded fault: the length of the entry is believed.
ChainLengthUnclamped(e) == e.length

\* A length greater than the card is not believed.
ChainLength(e) == IF e.length > UserBlocks THEN UserBlocks ELSE e.length

\* The chain of a directory entry: cut at the first link that leaves the
\* table.  It may be a cycle.
Chain(e, b) ==
    LET link[n \in Nat \ {0}] ==
          IF n = 1 THEN e.block
          ELSE IF InFat(link[n - 1]) THEN b.fat[link[n - 1] - FirstBlock] ELSE 0
        limit == IF ChainLength(e) < 1 THEN 1 ELSE ChainLength(e)
        len == Cardinality({n \in 1 .. limit : \A m \in 1 .. n : InFat(link[m])})
    IN [n \in 1 .. len |-> link[n]]

\* The file objects loadGcnFileList() makes of the selected tables.
RegularFile(e, b) == [lost |-> FALSE, animated |-> e.animated, chain |-> Chain(e, b)]
LostFile(anim) == [lost |-> TRUE, animated |-> anim, chain |-> <<FirstBlock>>]
FilesOfTables(i, d, b) ==
    [n \in DOMAIN i.dats[d].entries |-> RegularFile(i.dats[d].entries[n], i.bats[b])]

\* n addresses no file object has.
Unused(n) == CHOOSE addrs \in [1 .. n -> Objects \ DOMAIN heap] : IsInjective(addrs)

\* The heap with these objects at these addresses; without these addresses.
WithObjects(addrs, objs) ==
    [f \in DOMAIN heap \cup ToSet(addrs) |->
        IF f \in DOMAIN heap THEN heap[f] ELSE objs[CHOOSE n \in DOMAIN addrs : addrs[n] = f]]
Without(addrs) == [f \in DOMAIN heap \ addrs |-> heap[f]]

-----------------------------------------------------------------------------
(* Used blocks *)

ResetMap == [b \in 0 .. TotalPhys - 1 |-> IF b < FirstBlock THEN 1 ELSE 0]

Saturated(n) == IF n > MaxCount THEN MaxCount ELSE n

\* The links at which the files' chains visit block b.
Visits(files, b) ==
    {v \in (DOMAIN files) \X (1 .. FatSize) :
        v[2] \in DOMAIN files[v[1]].chain /\ files[v[1]].chain[v[2]] = b}

\* loadGcnFileList() counts a block each time a chain visits it.
CountUses(map, files) ==
    [b \in DOMAIN map |->
        IF b < FirstBlock THEN map[b]
        ELSE Saturated(map[b] + Cardinality(Visits(files, b)))]

-----------------------------------------------------------------------------
(* The steps of the methods *)

Step(op) == [op |-> op]
AboutToBeRemoved(first, last) == [op |-> "aboutToBeRemoved", first |-> first, last |-> last]
AboutToBeInserted(first, last) == [op |-> "aboutToBeInserted", first |-> first, last |-> last]
Appended(objs) == [op |-> "append", objs |-> objs]
Removed(row) == [op |-> "remove", row |-> row]
LostFound(objs) == [op |-> "addLost", objs |-> objs]

\* loadGcnFileList(): clear the list, then read the tables.
LoadGcnFileList ==
    LET n == Len(lstFiles) IN
    (IF n > 0 THEN <<AboutToBeRemoved(0, n - 1)>> ELSE << >>)
    \o <<Step("deleteAll")>>
    \o (IF n > 0 THEN <<Step("removed")>> ELSE << >>)
    \o <<Step("load")>>

\* setActiveDatIdx() and setActiveBatIdx() compare idx with the active
\* directory table checkTables() found.
SetActiveDatIdx(idx) ==
    /\ IsOpen
    /\ dat' = idx
    /\ todo' = LoadGcnFileList
               \o (IF datActive # idx THEN <<[op |-> "datChanged", idx |-> idx]>> ELSE << >>)
    /\ UNCHANGED <<image, bat, datActive, batActive, freeBlocks, heap, lstFiles,
                   usedBlockMap>>

\* Seeded fault: the files of the old block table stay listed.
SetActiveBatIdxOnly(idx) ==
    /\ IsOpen
    /\ bat' = idx /\ todo' = << >>
    /\ UNCHANGED <<image, dat, datActive, batActive, freeBlocks, heap, lstFiles,
                   usedBlockMap>>

SetActiveBatIdx(idx) ==
    /\ IsOpen
    /\ bat' = idx
    /\ todo' = LoadGcnFileList
               \o (IF datActive # idx THEN <<[op |-> "batChanged", idx |-> idx]>> ELSE << >>)
    /\ UNCHANGED <<image, dat, datActive, batActive, freeBlocks, heap, lstFiles,
                   usedBlockMap>>

\* addLostFiles() and the end of loadGcnFileList(): a whole batch between one
\* pair of signals, behind the m rows the list has by then; nothing happens
\* when there is no file to add.
AddFiles(m, objs) ==
    IF objs = << >> THEN << >>
    ELSE <<AboutToBeInserted(m, m + Len(objs) - 1), Appended(objs), Step("inserted")>>

-----------------------------------------------------------------------------
(* The code between two signals *)

DeleteAll ==
    /\ heap' = Without(ToSet(lstFiles))
    /\ lstFiles' = << >>
    /\ todo' = Tail(todo)
    /\ UNCHANGED <<tableVars, usedBlockMap>>

\* Seeded fault: the chains of the earlier tables still count.
LoadKeepsMap ==
    LET objs == FilesOfTables(Img, dat, bat) IN
    /\ usedBlockMap' = CountUses(usedBlockMap, objs)
    /\ todo' = AddFiles(0, objs) \o <<Step("blockCount")>> \o Tail(todo)
    /\ UNCHANGED <<tableVars, heap, lstFiles>>

\* The block count is announced last, and it is the one of the table
\* checkTables() chose.
Load ==
    LET objs == FilesOfTables(Img, dat, bat) IN
    /\ usedBlockMap' = CountUses(ResetMap, objs)
    /\ todo' = AddFiles(0, objs) \o <<Step("blockCount")>> \o Tail(todo)
    /\ UNCHANGED <<tableVars, heap, lstFiles>>

AppendFiles ==
    LET objs == Head(todo).objs
        addrs == Unused(Len(objs))
    IN /\ heap' = WithObjects(addrs, objs)
       /\ lstFiles' = lstFiles \o addrs
       /\ todo' = Tail(todo)
       /\ UNCHANGED <<tableVars, usedBlockMap>>

\* A lost file leaves the list; the object stays until the card is deleted.
RemoveRow ==
    /\ lstFiles' = RemoveAt(lstFiles, Head(todo).row + 1)
    /\ todo' = Tail(todo)
    /\ UNCHANGED <<tableVars, heap, usedBlockMap>>

\* removeLostFiles(): one row after the other, from the end.
RemoveLostFiles ==
    LET rows == {r \in 0 .. Len(lstFiles) - 1 : Lost(lstFiles[r + 1])}
        last == CHOOSE r \in rows : \A q \in rows : q <= r
    IN /\ todo' = IF rows = {} THEN Tail(todo)
                  ELSE <<AboutToBeRemoved(last, last), Removed(last), Step("removed")>> \o todo
       /\ UNCHANGED <<tableVars, heap, lstFiles, usedBlockMap>>

\* addLostFiles() looks at the list when it is called.
AddLostFiles ==
    /\ todo' = AddFiles(Len(lstFiles), Head(todo).objs) \o Tail(todo)
    /\ UNCHANGED <<tableVars, heap, lstFiles, usedBlockMap>>

\* A signal changes nothing in the card.
Emitted ==
    /\ todo' = Tail(todo)
    /\ UNCHANGED <<tableVars, heap, lstFiles, usedBlockMap>>

\* open(): nobody listens yet.
OpenImage(i) ==
    LET d == ActiveDat(i)
        b == ActiveBat(i)
        objs == FilesOfTables(i, ReadTable(d), ReadTable(b))
        addrs == Unused(Len(objs))
    IN /\ image' = <<i>>
       /\ dat' = ReadTable(d) /\ datActive' = d
       /\ bat' = ReadTable(b) /\ batActive' = b
       /\ freeBlocks' = i.bats[ReadTable(b)].freeblocks
       /\ heap' = WithObjects(addrs, objs)
       /\ lstFiles' = addrs
       /\ usedBlockMap' = CountUses(ResetMap, objs)

\* delete: the file objects are children of the card.
DeleteCard ==
    /\ image' = << >> /\ dat' = 0 /\ bat' = 0
    /\ datActive' = -1 /\ batActive' = -1 /\ freeBlocks' = 0
    /\ heap' = << >> /\ lstFiles' = << >>
    /\ usedBlockMap' = ResetMap

CardInit ==
    /\ image = << >> /\ dat = 0 /\ bat = 0
    /\ datActive = -1 /\ batActive = -1 /\ freeBlocks = 0
    /\ heap = << >> /\ lstFiles = << >> /\ usedBlockMap = ResetMap
    /\ todo = << >>
=============================================================================
