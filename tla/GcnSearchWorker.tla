--------------------------- MODULE GcnSearchWorker ---------------------------
(***************************************************************************)
(* GcnSearchWorker::searchMemCard(): the scan over the candidate blocks    *)
(* and, for every hit, the two loops that rebuild the FAT chain of the     *)
(* lost file.  One action per loop iteration or branch.  Threads and       *)
(* signals are the subject of SearchSession.                               *)
(***************************************************************************)
EXTENDS Integers, Sequences, FiniteSets

CONSTANTS TotalPhysBlocks, UsedMax, HitLists, Regions,
          CardMaps          \* the maps Card::usedBlockMap() may return

\* Block numbers and file lengths are uint16_t.
U16Max == 65535
U16(n) == n % (U16Max + 1)

ASSUME BlocksAssumption == TotalPhysBlocks \in 6 .. U16Max
ASSUME UsedMaxAssumption == UsedMax \in Nat \ {0}
ASSUME RegionsAssumption == Regions \subseteq Nat \ {0}

ASSUME HitListsAssumption ==
    \A hits \in HitLists :
        /\ hits \in Seq([length : 0 .. U16Max, region : Regions])
        /\ hits # << >>

FirstBlock == 5
PhysBlocks == 0 .. (TotalPhysBlocks - 1)
UserBlocks == FirstBlock .. (TotalPhysBlocks - 1)

ASSUME CardMapsAssumption == CardMaps \subseteq [PhysBlocks -> 0 .. UsedMax]

NoFile == [block |-> 0, length |-> 0, region |-> 0, fatEntries |-> << >>]

VARIABLES
    pc,                 \* "idle", "list", "scan", "skip" or "naive"
    searchUsedBlocks, preferredRegion,      \* the worker's properties
    cardMap,            \* what card->usedBlockMap() returns
    usedBlockMap, blockSearchList,
    next,               \* i of the loop that fills blockSearchList
    currentSearchBlock, \* position in blockSearchList, from 1
    searchData,         \* the hit whose chain is being built
    blocksRemaining, block, wasWrapped,
    filesFoundList,     \* newest first (push_front)
    mapAtHit,           \* history: usedBlockMap when the hit was made
    skipLen,            \* history: chain length when the naive loop began
    claims              \* history: per found file, the blocks it marked in
                        \* the first loop, and its chain length then

settings == <<searchUsedBlocks, preferredRegion, cardMap>>
loop == <<blocksRemaining, block, wasWrapped>>
history == <<mapAtHit, skipLen, claims>>
vars == <<pc, settings, usedBlockMap, blockSearchList, next,
          currentSearchBlock, searchData, loop, filesFoundList, history>>

-----------------------------------------------------------------------------
\* Free blocks only, unless all blocks are to be searched.
IsCandidate(b) == searchUsedBlocks \/ usedBlockMap[b] = 0

\* Seeded fault: the preference is ignored.
PickFirst(hits) == hits[1]

\* The hit that is used: the first one of the preferred region, or the first.
PickEntry(hits) ==
    LET matching == {i \in DOMAIN hits : hits[i].region = preferredRegion}
    IN  IF Len(hits) = 1 \/ preferredRegion = 0 \/ matching = {}
        THEN hits[1]
        ELSE hits[CHOOSE i \in matching : \A j \in matching : i <= j]

\* A file without a length gets one block.
FileLength(entry) == IF entry.length = 0 THEN 1 ELSE entry.length

\* Seeded faults: the count overflows; nothing is counted.
BumpUnbounded(map, b) == [map EXCEPT ![b] = @ + 1]
BumpNothing(map, b) == map

\* Use counts are uint8_t and saturate.
Bump(map, b) == IF map[b] < UsedMax THEN [map EXCEPT ![b] = @ + 1] ELSE map

AppendBlock(data, b) == [data EXCEPT !.fatEntries = Append(@, b)]

\* The file being rebuilt has marked another block.
AddToClaim(list, b) == [list EXCEPT ![1].blocks = @ \cup {b}]

\* Seeded fault: the start block is not counted.
AllBlocks(length) == length

\* Blocks a file needs besides its start block.
BlocksAfterStart(length) == length - 1

\* Seeded fault: the first user block is missed.
WrapPastFirst == FirstBlock + 1

\* Where both loops go on behind the last block.
WrapTo == FirstBlock

\* Seeded fault: the loop runs past the block it began at.
NeverAtStart == FALSE

\* The first loop has come around.
AtStart == block = searchData.block

\* Seeded fault: wrapped blocks are marked like the others.
MarksAlways == TRUE

\* Whether the first loop marks the block it takes.
MarksBlock == ~wasWrapped

\* Seeded fault: push_back().
ToTheBack(list, file) == Append(list, file)

\* push_front().
ToTheFront(list, file) == <<file>> \o list

-----------------------------------------------------------------------------
Init ==
    /\ pc = "idle"
    /\ searchUsedBlocks = FALSE
    /\ preferredRegion = 0
    /\ cardMap \in CardMaps
    /\ usedBlockMap = cardMap
    /\ blockSearchList = << >> /\ next = 0
    /\ currentSearchBlock = 1
    /\ searchData = NoFile
    /\ blocksRemaining = 0 /\ block = 0 /\ wasWrapped = FALSE
    /\ filesFoundList = << >>
    /\ mapAtHit = cardMap /\ skipLen = 0 /\ claims = << >>

\* No card, or no database: searchError, -1.
SearchRefused ==
    /\ pc = "idle"
    /\ filesFoundList' = << >>
    /\ claims' = << >>
    /\ UNCHANGED <<pc, settings, usedBlockMap, blockSearchList, next, mapAtHit,
                   currentSearchBlock, searchData, loop, skipLen>>

\* The owner sets the properties while no search runs.
SetProperties ==
    /\ pc = "idle"
    /\ searchUsedBlocks' \in BOOLEAN
    /\ preferredRegion' \in Regions \cup {0}
    /\ UNCHANGED <<pc, cardMap, usedBlockMap, blockSearchList, next,
                   filesFoundList, currentSearchBlock, searchData, loop, history>>

SearchCalled ==
    /\ pc = "idle"
    /\ pc' = "list"
    /\ filesFoundList' = << >>
    /\ claims' = << >>
    /\ usedBlockMap' = IF searchUsedBlocks THEN [b \in PhysBlocks |-> 0]
                                           ELSE cardMap
    /\ blockSearchList' = << >>
    /\ next' = TotalPhysBlocks - 1
    /\ UNCHANGED <<settings, currentSearchBlock, searchData, loop, mapAtHit,
                   skipLen>>

\* From the highest block down.
ListBlock ==
    /\ pc = "list" /\ next >= FirstBlock
    /\ next' = next - 1
    /\ blockSearchList' = IF IsCandidate(next) THEN Append(blockSearchList, next)
                                               ELSE blockSearchList
    /\ UNCHANGED <<pc, settings, usedBlockMap, currentSearchBlock, searchData,
                   loop, filesFoundList, history>>

\* "No blocks to search": searchError, 0.
SearchNoBlocks ==
    /\ pc = "list" /\ next < FirstBlock /\ blockSearchList = << >>
    /\ pc' = "idle"
    /\ usedBlockMap' = cardMap /\ next' = 0
    /\ UNCHANGED <<settings, blockSearchList, currentSearchBlock, searchData,
                   loop, filesFoundList, history>>

SearchStarted ==
    /\ pc = "list" /\ next < FirstBlock /\ blockSearchList # << >>
    /\ pc' = "scan"
    /\ currentSearchBlock' = 1 /\ next' = 0
    /\ UNCHANGED <<settings, usedBlockMap, blockSearchList, searchData, loop,
                   filesFoundList, history>>

-----------------------------------------------------------------------------
Scanning == pc = "scan" /\ currentSearchBlock <= Len(blockSearchList)

\* readBlock() failed, or no database knows the block.
NoHit ==
    /\ Scanning
    /\ currentSearchBlock' = currentSearchBlock + 1
    /\ UNCHANGED <<pc, settings, usedBlockMap, blockSearchList, next, searchData,
                   loop, filesFoundList, history>>

Hit(hits) ==
    LET b     == blockSearchList[currentSearchBlock]
        entry == PickEntry(hits)
    IN  /\ Scanning
        /\ pc' = "skip"
        /\ searchData' = [block |-> b, length |-> FileLength(entry),
                          region |-> entry.region, fatEntries |-> <<b>>]
        /\ usedBlockMap' = Bump(usedBlockMap, b)
        /\ blocksRemaining' = BlocksAfterStart(FileLength(entry))
        /\ block' = U16(b + 1)
        /\ wasWrapped' = FALSE
        /\ mapAtHit' = usedBlockMap
        /\ claims' = <<[start |-> b, blocks |-> {b}, offered |-> hits]>> \o claims
        /\ skipLen' = 1
        /\ UNCHANGED <<settings, blockSearchList, next, currentSearchBlock,
                       filesFoundList>>

\* First loop: take the blocks nobody uses.
SkipWrap ==
    /\ pc = "skip" /\ blocksRemaining > 0 /\ block >= TotalPhysBlocks
    /\ block' = WrapTo
    /\ wasWrapped' = TRUE
    /\ UNCHANGED <<pc, settings, usedBlockMap, blockSearchList, next, searchData,
                   currentSearchBlock, blocksRemaining, filesFoundList, history>>

SkipVisit ==
    /\ pc = "skip" /\ blocksRemaining > 0
    /\ block < TotalPhysBlocks /\ ~AtStart
    /\ block' = U16(block + 1)
    /\ \/ /\ usedBlockMap[block] = 0
          /\ searchData' = AppendBlock(searchData, block)
          /\ skipLen' = skipLen + 1
          /\ blocksRemaining' = blocksRemaining - 1
          /\ IF MarksBlock
             THEN /\ usedBlockMap' = [usedBlockMap EXCEPT ![block] = @ + 1]
                  /\ claims' = AddToClaim(claims, block)
             ELSE UNCHANGED <<usedBlockMap, claims>>
       \/ /\ usedBlockMap[block] # 0
          /\ UNCHANGED <<usedBlockMap, searchData, blocksRemaining, skipLen, claims>>
    /\ UNCHANGED <<pc, settings, blockSearchList, next, currentSearchBlock, wasWrapped,
                   filesFoundList, mapAtHit>>

\* Done, or back at the start block: fall through to the second loop.
SkipEnd ==
    /\ pc = "skip"
    /\ \/ blocksRemaining = 0
       \/ block < TotalPhysBlocks /\ AtStart
    /\ pc' = "naive"
    /\ block' = U16(searchData.fatEntries[Len(searchData.fatEntries)] + 1)
    /\ wasWrapped' = FALSE
    /\ UNCHANGED <<settings, usedBlockMap, blockSearchList, next, searchData,
                   currentSearchBlock, blocksRemaining, filesFoundList, history>>

\* Second loop: take whatever follows, used or not.
NaiveWrap ==
    /\ pc = "naive" /\ blocksRemaining > 0 /\ block >= TotalPhysBlocks
    /\ block' = WrapTo
    /\ UNCHANGED <<pc, settings, usedBlockMap, blockSearchList, next, searchData, wasWrapped,
                   currentSearchBlock, blocksRemaining, filesFoundList, history>>

NaiveTake ==
    /\ pc = "naive" /\ blocksRemaining > 0 /\ block < TotalPhysBlocks
    /\ searchData' = AppendBlock(searchData, block)
    /\ usedBlockMap' = IF wasWrapped THEN usedBlockMap ELSE Bump(usedBlockMap, block)
    /\ block' = U16(block + 1)
    /\ blocksRemaining' = blocksRemaining - 1
    /\ UNCHANGED <<pc, settings, blockSearchList, next, currentSearchBlock, wasWrapped,
                   filesFoundList, history>>

LocalsOfHitDie ==
    /\ searchData' = NoFile
    /\ blocksRemaining' = 0 /\ block' = 0 /\ wasWrapped' = FALSE

PushFront ==
    /\ pc = "naive" /\ blocksRemaining = 0
    /\ pc' = "scan"
    /\ filesFoundList' = ToTheFront(filesFoundList, searchData)
    /\ currentSearchBlock' = currentSearchBlock + 1
    /\ LocalsOfHitDie
    /\ mapAtHit' = cardMap /\ skipLen' = 0
    /\ UNCHANGED <<settings, usedBlockMap, blockSearchList, next, claims>>

SearchFinished ==
    /\ pc = "scan" /\ currentSearchBlock > Len(blockSearchList)
    /\ pc' = "idle"
    /\ usedBlockMap' = cardMap
    /\ blockSearchList' = << >> /\ currentSearchBlock' = 1
    /\ UNCHANGED <<settings, next, searchData, loop, filesFoundList, history>>

Search ==
    \/ ListBlock \/ SearchNoBlocks \/ SearchStarted
    \/ NoHit \/ (\E hits \in HitLists : Hit(hits))
    \/ SkipWrap \/ SkipVisit \/ SkipEnd
    \/ NaiveWrap \/ NaiveTake \/ PushFront \/ SearchFinished

Next == SearchRefused \/ SetProperties \/ SearchCalled \/ Search

Spec == Init /\ [][Next]_vars

\* The search runs on its own thread and never waits for anybody.
FairSpec == Spec /\ WF_vars(Search)

-----------------------------------------------------------------------------
Chains(ok(_)) == \A i \in DOMAIN filesFoundList : ok(filesFoundList[i])

FileRecords == [block : UserBlocks, length : 1 .. U16Max, region : Regions,
                fatEntries : Seq(UserBlocks)]

ClaimRecords == [start : UserBlocks, blocks : SUBSET UserBlocks,
                 offered : HitLists]

\* The variables have their types; block never leaves uint16_t unnoticed.
TypeOK ==
    /\ pc \in {"idle", "list", "scan", "skip", "naive"}
    /\ searchUsedBlocks \in BOOLEAN
    /\ preferredRegion \in Regions \cup {0}
    /\ cardMap \in CardMaps
    /\ usedBlockMap \in [PhysBlocks -> 0 .. UsedMax]
    /\ blockSearchList \in Seq(UserBlocks)
    /\ next \in 0 .. (TotalPhysBlocks - 1)
    /\ currentSearchBlock \in Nat \ {0}
    /\ searchData \in FileRecords \cup {NoFile}
    /\ blocksRemaining \in 0 .. U16Max
    /\ block \in 0 .. TotalPhysBlocks
    /\ wasWrapped \in BOOLEAN
    /\ filesFoundList \in Seq(FileRecords)
    /\ skipLen \in Nat
    /\ claims \in Seq(ClaimRecords)

\* Every found file has a chain of exactly its length that begins with its
\* start block: what GcnFile and every later reader of the chain rely on.
ChainComplete ==
    Chains(LAMBDA f : Len(f.fatEntries) = f.length /\ f.fatEntries[1] = f.block)

\* Blocks taken by the first loop (and the start block) are not taken twice
\* by one file, and on a search of the free blocks none of them belongs to a
\* file of the directory.
FreeBlocksTakenOnce ==
    pc \in {"skip", "naive"} =>
        LET taken(i) == searchData.fatEntries[i]
        IN  /\ \A i, j \in 1 .. skipLen : taken(i) = taken(j) => i = j
            /\ ~searchUsedBlocks => \A i \in 1 .. skipLen : cardMap[taken(i)] = 0

\* Two found files never claim the same block: overlaps come only from the
\* wrapped part of the first loop and from the naive loop.
ClaimsDisjoint ==
    \A i, j \in DOMAIN claims :
        i # j => claims[i].blocks \cap claims[j].blocks = {}

\* The naive loop takes a used block only when no free block is left.
NaiveOnlyWhenFull ==
    pc = "naive" /\ blocksRemaining > 0 =>
        \A b \in UserBlocks :
            \/ usedBlockMap[b] # 0
            \/ \E i \in DOMAIN searchData.fatEntries : searchData.fatEntries[i] = b

\* The list is in ascending order of start block: one file per block.
StartsAscending ==
    \A i, j \in DOMAIN filesFoundList :
        i < j => filesFoundList[i].block < filesFoundList[j].block

\* A file of another region is reported only when the databases offered none
\* of the preferred region for its block.
RegionHonoured ==
    pc = "scan" /\ preferredRegion # 0 =>
        \A i \in DOMAIN filesFoundList :
            \/ filesFoundList[i].region = preferredRegion
            \/ \A k \in DOMAIN claims[i].offered :
                  claims[i].offered[k].region # preferredRegion

\* "Do NOT mark the wrapped blocks as used": a block the second loop takes
\* after its wraparound keeps its use count.
WrappedBlocksUnmarked ==
    [][NaiveTake /\ block <= searchData.fatEntries[skipLen]
        => UNCHANGED usedBlockMap]_vars

\* Every search comes to an end.
SearchTerminates == pc = "list" ~> pc = "idle"

-----------------------------------------------------------------------------
\* The loops together compute the chains of LostFileSearch.
Rebuilding == pc \in {"skip", "naive"}
Started == Rebuilding \/ pc = "scan"

LFS == INSTANCE LostFileSearch WITH
    searching  <- Started,
    candidates <- IF ~Started THEN << >>
                  ELSE SubSeq(blockSearchList, currentSearchBlock,
                              Len(blockSearchList)),
    used       <- IF ~Started THEN cardMap
                  ELSE IF Rebuilding THEN mapAtHit ELSE usedBlockMap,
    found      <- filesFoundList

ImplementsSearch == LFS!Init /\ [][LFS!Next]_(LFS!vars)
=============================================================================
