-------------------------- MODULE GcnSearchWorkerInv --------------------------
(***************************************************************************)
(* The inductive invariant behind the safety properties of GcnSearchWorker *)
(* (GcnSearchWorkerProofs proves that it is one).  Files are found from    *)
(* the highest candidate block to the lowest, a file marks only blocks at  *)
(* or above its start, and use counts never go down during a search: that  *)
(* is why no two files mark the same block.                                *)
(***************************************************************************)
EXTENDS GcnSearchWorker

fat == searchData.fatEntries

\* The candidates are in descending order, and free if they have to be.
ListInv ==
    /\ \A i, j \in DOMAIN blockSearchList :
          i < j => blockSearchList[i] > blockSearchList[j]
    /\ pc = "idle" => blockSearchList = << >>
    /\ pc = "list" => /\ \A i \in DOMAIN blockSearchList : blockSearchList[i] > next
                      /\ filesFoundList = << >> /\ claims = << >>
    /\ pc # "idle" /\ ~searchUsedBlocks =>
          /\ \A b \in PhysBlocks : usedBlockMap[b] >= cardMap[b]
          /\ \A i \in DOMAIN blockSearchList : cardMap[blockSearchList[i]] = 0
    /\ pc = "list" /\ ~searchUsedBlocks => usedBlockMap = cardMap

\* The file being rebuilt.
HitInv ==
    Rebuilding =>
        /\ searchData \in FileRecords
        /\ fat # << >> /\ fat[1] = searchData.block
        /\ Len(fat) + blocksRemaining = searchData.length
        /\ block \in FirstBlock .. TotalPhysBlocks
        /\ currentSearchBlock \in DOMAIN blockSearchList
        /\ searchData.block = blockSearchList[currentSearchBlock]
        /\ claims # << >> /\ claims[1].start = searchData.block
        /\ skipLen \in 1 .. Len(fat)
        /\ pc = "skip" => skipLen = Len(fat)

\* What the first loop has been over: from the start block up, then from the
\* first user block up.
Visited(b) ==
    IF wasWrapped THEN b >= searchData.block \/ b < block
                  ELSE b >= searchData.block /\ b < block

SkipInv ==
    pc = "skip" =>
        /\ IF wasWrapped THEN block <= searchData.block
                         ELSE block > searchData.block
        /\ \A i \in DOMAIN fat : Visited(fat[i])
        /\ \A b \in UserBlocks :
              Visited(b) => usedBlockMap[b] # 0 \/ \E i \in DOMAIN fat : fat[i] = b

\* Marked blocks lie at or above the start block and stay counted; starts lie
\* above all candidates that are still to come.
ClaimsInv ==
    /\ \A i \in DOMAIN claims : \A b \in claims[i].blocks : b >= claims[i].start
    /\ Started => \A i \in DOMAIN claims : \A b \in claims[i].blocks : usedBlockMap[b] > 0
    /\ pc = "scan" =>
          \A i \in DOMAIN claims : \A j \in DOMAIN blockSearchList :
              j >= currentSearchBlock => claims[i].start > blockSearchList[j]
    /\ Rebuilding =>
          \A i \in DOMAIN claims : \A j \in DOMAIN blockSearchList :
              j > currentSearchBlock => claims[i].start > blockSearchList[j]

FilesInv ==
    /\ pc = "scan" \/ Rebuilding =>
          \A i \in DOMAIN filesFoundList : \A j \in DOMAIN blockSearchList :
              j >= currentSearchBlock => filesFoundList[i].block > blockSearchList[j]

\* A file is of the preferred region unless nothing of that region was
\* offered; the claim of the file being rebuilt comes before those of the
\* files found.
RegionOK(file, claim) ==
    \/ file.region = preferredRegion
    \/ \A k \in DOMAIN claim.offered : claim.offered[k].region # preferredRegion

RegionInv ==
    /\ pc = "scan" =>
          /\ Len(claims) = Len(filesFoundList)
          /\ preferredRegion # 0 =>
                \A i \in DOMAIN filesFoundList : RegionOK(filesFoundList[i], claims[i])
    /\ Rebuilding =>
          /\ Len(claims) = Len(filesFoundList) + 1
          /\ preferredRegion # 0 =>
                /\ RegionOK(searchData, claims[1])
                /\ \A i \in DOMAIN filesFoundList :
                      RegionOK(filesFoundList[i], claims[i + 1])

\* All of it, and what it is for.
IndInv ==
    /\ TypeOK /\ ListInv /\ HitInv /\ SkipInv /\ ClaimsInv /\ FilesInv /\ RegionInv
    /\ ChainComplete /\ FreeBlocksTakenOnce /\ ClaimsDisjoint
    /\ NaiveOnlyWhenFull /\ StartsAscending
=============================================================================
