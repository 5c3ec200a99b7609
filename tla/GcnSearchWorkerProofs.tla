------------------------ MODULE GcnSearchWorkerProofs ------------------------
(***************************************************************************)
(* Proofs for GcnSearchWorker: IndInv is inductive, and the safety         *)
(* properties of the search follow from it for every card size up to       *)
(* 65535 blocks and every content of the databases.                        *)
(***************************************************************************)
EXTENDS GcnSearchWorkerInv, SequenceTheorems, WellFoundedInduction, TLAPS

\* uint16_t: below the limit nothing wraps.  The limit itself stays opaque.
LEMMA U16Fact ==
    /\ U16Max \in Nat
    /\ \A n \in Nat : n <= U16Max => U16(n) = n
  BY DEF U16Max, U16

\* What the helpers do to one file, one use count map and one list.
LEMMA AppendBlockFact ==
    ASSUME NEW r \in FileRecords, NEW b \in UserBlocks
    PROVE  /\ AppendBlock(r, b) \in FileRecords
           /\ AppendBlock(r, b).block = r.block
           /\ AppendBlock(r, b).length = r.length
           /\ AppendBlock(r, b).region = r.region
           /\ AppendBlock(r, b).fatEntries = Append(r.fatEntries, b)
  BY DEF AppendBlock, FileRecords

\* A use count never goes down and the counted block is in use.
LEMMA BumpFact ==
    ASSUME NEW map \in [PhysBlocks -> 0 .. UsedMax], NEW b \in PhysBlocks
    PROVE  /\ Bump(map, b) \in [PhysBlocks -> 0 .. UsedMax]
           /\ \A x \in PhysBlocks : Bump(map, b)[x] >= map[x]
           /\ Bump(map, b)[b] > 0
  BY UsedMaxAssumption DEF Bump

\* A non-empty sequence has a first element.
LEMMA FirstFact ==
    ASSUME NEW S, NEW s \in Seq(S), s # << >>
    PROVE  1 \in DOMAIN s /\ s[1] \in S
  BY EmptySeq

\* Only the newest claim changes.
LEMMA AddToClaimFact ==
    ASSUME NEW list \in Seq(ClaimRecords), list # << >>, NEW b \in UserBlocks
    PROVE  /\ AddToClaim(list, b) \in Seq(ClaimRecords)
           /\ Len(AddToClaim(list, b)) = Len(list)
           /\ AddToClaim(list, b)[1].start = list[1].start
           /\ AddToClaim(list, b)[1].offered = list[1].offered
           /\ AddToClaim(list, b)[1].blocks = list[1].blocks \cup {b}
           /\ \A i \in 2 .. Len(list) : AddToClaim(list, b)[i] = list[i]
<1> DEFINE claim == [list[1] EXCEPT !.blocks = @ \cup {b}]
<1>1. list[1] \in ClaimRecords /\ 1 \in DOMAIN list
  BY FirstFact
<1>2. /\ claim \in ClaimRecords
      /\ claim.start = list[1].start /\ claim.offered = list[1].offered
      /\ claim.blocks = list[1].blocks \cup {b}
  BY <1>1 DEF ClaimRecords
<1>3. AddToClaim(list, b) = [list EXCEPT ![1] = claim]
  BY <1>1 DEF AddToClaim, ClaimRecords
<1> HIDE DEF claim
<1> QED BY <1>1, <1>2, <1>3

\* A new element moves the others up by one.
LEMMA FrontFact ==
    ASSUME NEW S, NEW list \in Seq(S), NEW e \in S
    PROVE  /\ <<e>> \o list \in Seq(S)
           /\ Len(<<e>> \o list) = Len(list) + 1
           /\ (<<e>> \o list)[1] = e
           /\ \A i \in 2 .. Len(list) + 1 : (<<e>> \o list)[i] = list[i - 1]
  BY SMT

\* The card's map is a map of use counts.
LEMMA CardMapFact == cardMap \in CardMaps => cardMap \in [PhysBlocks -> 0 .. UsedMax]
  BY CardMapsAssumption

\* A non-empty set of numbers has a least element.
LEMMA LeastFact ==
    ASSUME NEW S \in SUBSET Nat, S # {}
    PROVE  \E m \in S : \A k \in S : m <= k
<1> DEFINE less == OpToRel(<, Nat)
<1>1. \A x, y \in Nat : <<y, x>> \in less <=> y < x
  BY DEF OpToRel
<1>2. \E x \in S : \A y \in S : ~ (<<y, x>> \in less)
  BY WFMin, NatLessThanWellFounded, Zenon
<1>3. PICK x \in S : \A y \in S : ~ (<<y, x>> \in less)
  BY <1>2
<1>4. ASSUME NEW y \in S PROVE ~ (y < x)
  BY <1>1, <1>3, Zenon
<1> QED BY <1>4

\* Some entry of a non-empty report is picked, of the preferred region if
\* there is one.
LEMMA PickFact ==
    ASSUME NEW hits \in HitLists
    PROVE  /\ PickEntry(hits) \in [length : 0 .. U16Max, region : Regions]
           /\ \/ preferredRegion = 0
              \/ PickEntry(hits).region = preferredRegion
              \/ \A k \in DOMAIN hits : hits[k].region # preferredRegion
<1> DEFINE Entries  == [length : 0 .. U16Max, region : Regions]
           matching == {i \in DOMAIN hits : hits[i].region = preferredRegion}
<1>1. hits \in Seq(Entries) /\ hits # << >>
  BY HitListsAssumption
<1>2. hits[1] \in Entries /\ 1 \in DOMAIN hits
  <2> HIDE DEF Entries
  <2> QED BY <1>1, FirstFact
<1>3. CASE Len(hits) = 1 \/ preferredRegion = 0 \/ matching = {}
  <2>1. PickEntry(hits) = hits[1]
    BY <1>3 DEF PickEntry
  <2>2. \/ preferredRegion = 0
        \/ hits[1].region = preferredRegion
        \/ \A k \in DOMAIN hits : hits[k].region # preferredRegion
    BY <1>1, <1>3
  <2> QED BY <1>2, <2>1, <2>2
<1>4. CASE ~(Len(hits) = 1 \/ preferredRegion = 0 \/ matching = {})
  <2> DEFINE first == CHOOSE i \in matching : \A j \in matching : i <= j
  <2>1. matching \in SUBSET Nat /\ matching # {}
    BY <1>1, <1>4
  <2>2. first \in matching
    <3> HIDE DEF matching
    <3>1. \E i \in matching : \A j \in matching : i <= j
      BY <2>1, LeastFact
    <3> QED BY <3>1
  <2>3. PickEntry(hits) = hits[first]
    BY <1>4 DEF PickEntry
  <2>4. hits[first] \in Entries
    <3> HIDE DEF first, Entries
    <3> QED BY <1>1, <2>2
  <2>5. hits[first].region = preferredRegion
    <3> HIDE DEF first
    <3> QED BY <2>2
  <2> QED BY <2>3, <2>4, <2>5
<1> QED BY <1>3, <1>4

\* Append adds one element behind the others.
LEMMA AppendFact ==
    ASSUME NEW S, NEW s \in Seq(S), NEW e \in S
    PROVE  /\ Append(s, e) \in Seq(S)
           /\ Len(Append(s, e)) = Len(s) + 1
           /\ Append(s, e)[Len(s) + 1] = e
           /\ \A i \in 1 .. Len(s) : Append(s, e)[i] = s[i]
  OBVIOUS

USE DEF FirstBlock, PhysBlocks, UserBlocks, Rebuilding, Started, settings, loop,
        history

-----------------------------------------------------------------------------
\* A refused search empties the list of found files and nothing else.
LEMMA SearchRefusedStep == ASSUME IndInv, SearchRefused PROVE IndInv'
<1> USE BlocksAssumption, UsedMaxAssumption, U16Fact, CardMapFact
       DEF IndInv, SearchRefused
<1>1. TypeOK'
  BY DEF TypeOK
<1>2. ListInv'
  BY DEF TypeOK, ListInv
<1>3. HitInv' /\ SkipInv' /\ NaiveOnlyWhenFull' /\ FreeBlocksTakenOnce'
  BY DEF TypeOK, ListInv, HitInv, SkipInv, Visited, NaiveOnlyWhenFull,
        FreeBlocksTakenOnce
<1>4. ClaimsInv' /\ ClaimsDisjoint'
  BY DEF TypeOK, HitInv, ClaimsInv, ClaimsDisjoint
<1>5. FilesInv' /\ StartsAscending' /\ ChainComplete'
  BY DEF TypeOK, HitInv, ListInv, FilesInv, StartsAscending, ChainComplete, Chains
<1>6. RegionInv'
  BY DEF TypeOK, ListInv, HitInv, RegionInv, RegionOK
<1> QED BY <1>1, <1>2, <1>3, <1>4, <1>5, <1>6

\* Properties change between searches only: nothing depends on them then.
LEMMA SetPropertiesStep == ASSUME IndInv, SetProperties PROVE IndInv'
<1> USE BlocksAssumption, UsedMaxAssumption, U16Fact, CardMapFact
       DEF IndInv, SetProperties
<1>1. TypeOK'
  BY DEF TypeOK
<1>2. ListInv'
  BY DEF TypeOK, ListInv
<1>3. HitInv' /\ SkipInv' /\ NaiveOnlyWhenFull' /\ FreeBlocksTakenOnce'
  BY DEF TypeOK, ListInv, HitInv, SkipInv, Visited, NaiveOnlyWhenFull,
        FreeBlocksTakenOnce
<1>4. ClaimsInv' /\ ClaimsDisjoint'
  BY DEF TypeOK, HitInv, ClaimsInv, ClaimsDisjoint
<1>5. FilesInv' /\ StartsAscending' /\ ChainComplete'
  BY DEF TypeOK, HitInv, ListInv, FilesInv, StartsAscending, ChainComplete, Chains
<1>6. RegionInv'
  BY DEF TypeOK, ListInv, HitInv, RegionInv, RegionOK
<1> QED BY <1>1, <1>2, <1>3, <1>4, <1>5, <1>6

\* The list is empty and no use count lies below the card's.
LEMMA SearchCalledStep == ASSUME IndInv, SearchCalled PROVE IndInv'
<1> USE BlocksAssumption, UsedMaxAssumption, U16Fact, CardMapFact
       DEF IndInv, SearchCalled
<1>1. TypeOK'
  BY DEF TypeOK
<1>2. ListInv'
  BY DEF TypeOK, ListInv
<1>3. HitInv' /\ SkipInv' /\ NaiveOnlyWhenFull' /\ FreeBlocksTakenOnce'
  BY DEF TypeOK, ListInv, HitInv, SkipInv, Visited, NaiveOnlyWhenFull,
        FreeBlocksTakenOnce
<1>4. ClaimsInv' /\ ClaimsDisjoint'
  BY DEF TypeOK, HitInv, ClaimsInv, ClaimsDisjoint
<1>5. FilesInv' /\ StartsAscending' /\ ChainComplete'
  BY DEF TypeOK, HitInv, ListInv, FilesInv, StartsAscending, ChainComplete, Chains
<1>6. RegionInv'
  BY DEF TypeOK, ListInv, HitInv, RegionInv, RegionOK
<1> QED BY <1>1, <1>2, <1>3, <1>4, <1>5, <1>6

\* The next candidate lies below all that are listed.
LEMMA ListBlockStep == ASSUME IndInv, ListBlock PROVE IndInv'
<1> USE BlocksAssumption DEF IndInv, ListBlock
<1>1. next \in UserBlocks /\ blockSearchList \in Seq(UserBlocks)
  BY DEF TypeOK
<1> DEFINE added == Append(blockSearchList, next)
<1>2. /\ added \in Seq(UserBlocks)
      /\ Len(added) = Len(blockSearchList) + 1
      /\ added[Len(blockSearchList) + 1] = next
      /\ \A i \in 1 .. Len(blockSearchList) : added[i] = blockSearchList[i]
  <2> HIDE DEF UserBlocks
  <2> QED BY <1>1, AppendFact
<1>3. blockSearchList' \in {added, blockSearchList}
  OBVIOUS
<1> HIDE DEF added
<1>4. TypeOK'
  <2>1. next' \in 0 .. TotalPhysBlocks - 1
    BY <1>1
  <2> HIDE DEF UserBlocks, ListBlock
  <2>2. blockSearchList' \in Seq(UserBlocks)
    BY <1>1, <1>2, <1>3
  <2> QED BY <2>1, <2>2 DEF TypeOK, ListBlock
<1>5. ListInv'
  <2>1. CASE IsCandidate(next)
    <3>1. blockSearchList' = added
      BY <2>1 DEF added
    <3>2. ~searchUsedBlocks => cardMap[next] = 0
      BY <2>1 DEF IsCandidate, ListInv
    <3>3. DOMAIN blockSearchList' = 1 .. Len(blockSearchList) + 1
      BY <1>1, <1>2, <3>1
    <3>4. \A i \in 1 .. Len(blockSearchList) : blockSearchList[i] > next
      BY <1>1 DEF ListInv
    <3>5. \A i, j \in DOMAIN blockSearchList' :
             i < j => blockSearchList'[i] > blockSearchList'[j]
      BY <1>1, <1>2, <3>1, <3>3, <3>4 DEF ListInv
    <3>6. \A i \in DOMAIN blockSearchList' : blockSearchList'[i] > next'
      BY <1>1, <1>2, <3>1, <3>3, <3>4
    <3>7. ~searchUsedBlocks =>
             \A i \in DOMAIN blockSearchList' : cardMap[blockSearchList'[i]] = 0
      BY <1>1, <1>2, <3>1, <3>2, <3>3 DEF ListInv
    <3> QED BY <3>5, <3>6, <3>7 DEF ListInv
  <2>2. CASE ~IsCandidate(next)
    BY <1>1, <2>2 DEF TypeOK, ListInv
  <2> QED BY <2>1, <2>2
<1>6. HitInv' /\ SkipInv' /\ NaiveOnlyWhenFull' /\ FreeBlocksTakenOnce'
  BY DEF HitInv, SkipInv, NaiveOnlyWhenFull, FreeBlocksTakenOnce
<1>7. ClaimsInv' /\ ClaimsDisjoint'
  BY DEF ListInv, ClaimsInv, ClaimsDisjoint
<1>8. FilesInv' /\ StartsAscending' /\ ChainComplete' /\ RegionInv'
  BY DEF FilesInv, StartsAscending, ChainComplete, Chains, RegionInv
<1> QED BY <1>4, <1>5, <1>6, <1>7, <1>8

\* Nothing was listed, nothing was found.
LEMMA SearchNoBlocksStep == ASSUME IndInv, SearchNoBlocks PROVE IndInv'
<1> USE BlocksAssumption, UsedMaxAssumption, U16Fact, CardMapFact
       DEF IndInv, SearchNoBlocks
<1>1. TypeOK'
  BY DEF TypeOK
<1>2. ListInv'
  BY DEF TypeOK, ListInv
<1>3. HitInv' /\ SkipInv' /\ NaiveOnlyWhenFull' /\ FreeBlocksTakenOnce'
  BY DEF TypeOK, ListInv, HitInv, SkipInv, Visited, NaiveOnlyWhenFull,
        FreeBlocksTakenOnce
<1>4. ClaimsInv' /\ ClaimsDisjoint'
  BY DEF TypeOK, HitInv, ClaimsInv, ClaimsDisjoint
<1>5. FilesInv' /\ StartsAscending' /\ ChainComplete'
  BY DEF TypeOK, HitInv, ListInv, FilesInv, StartsAscending, ChainComplete, Chains
<1>6. RegionInv'
  BY DEF TypeOK, ListInv, HitInv, RegionInv, RegionOK
<1> QED BY <1>1, <1>2, <1>3, <1>4, <1>5, <1>6

\* All candidates are still to come and no file is found.
LEMMA SearchStartedStep == ASSUME IndInv, SearchStarted PROVE IndInv'
<1> USE BlocksAssumption DEF IndInv, SearchStarted
<1>1. TypeOK'
  BY DEF TypeOK
<1>2. ListInv'
  BY DEF TypeOK, ListInv
<1>3. HitInv' /\ SkipInv' /\ NaiveOnlyWhenFull' /\ FreeBlocksTakenOnce'
  BY DEF HitInv, SkipInv, NaiveOnlyWhenFull, FreeBlocksTakenOnce
<1>4. claims' = << >> /\ filesFoundList' = << >>
  BY DEF ListInv
<1>5. ClaimsInv' /\ ClaimsDisjoint'
  BY <1>4 DEF ClaimsInv, ClaimsDisjoint
<1>6. FilesInv' /\ StartsAscending' /\ ChainComplete' /\ RegionInv'
  BY <1>4 DEF FilesInv, StartsAscending, ChainComplete, Chains, RegionInv
<1> QED BY <1>1, <1>2, <1>3, <1>5, <1>6

\* One candidate fewer is to come.
LEMMA NoHitStep == ASSUME IndInv, NoHit PROVE IndInv'
<1> USE BlocksAssumption DEF IndInv, NoHit, Scanning
<1>1. TypeOK'
  <2>1. currentSearchBlock' \in Nat \ {0}
    BY DEF TypeOK
  <2> QED BY <2>1 DEF TypeOK
<1>2. ListInv'
  BY DEF ListInv
<1>3. HitInv' /\ SkipInv' /\ NaiveOnlyWhenFull' /\ FreeBlocksTakenOnce'
  BY DEF HitInv, SkipInv, NaiveOnlyWhenFull, FreeBlocksTakenOnce
<1>4. ClaimsInv'
  BY DEF TypeOK, ClaimsInv
<1>5. FilesInv'
  BY DEF TypeOK, FilesInv
<1>6. ClaimsDisjoint' /\ StartsAscending' /\ ChainComplete' /\ RegionInv'
  BY DEF ClaimsDisjoint, StartsAscending, ChainComplete, Chains, RegionInv, RegionOK
<1> QED BY <1>1, <1>2, <1>3, <1>4, <1>5, <1>6

\* The start block lies below all the blocks other files have marked, so the
\* new claim is disjoint from theirs.
LEMMA HitStep == ASSUME IndInv, NEW hits \in HitLists, Hit(hits) PROVE IndInv'
<1> USE BlocksAssumption, UsedMaxAssumption DEF IndInv
<1> DEFINE b     == blockSearchList[currentSearchBlock]
           entry == PickEntry(hits)
           claim == [start |-> b, blocks |-> {b}, offered |-> hits]
<1>p. pc = "scan" /\ pc' = "skip"
  BY DEF Hit, Scanning
<1>l. /\ blockSearchList \in Seq(UserBlocks)
      /\ currentSearchBlock \in DOMAIN blockSearchList
      /\ b \in UserBlocks
  <2>1. blockSearchList \in Seq(UserBlocks) /\ currentSearchBlock \in Nat \ {0}
    BY DEF TypeOK
  <2>2. currentSearchBlock <= Len(blockSearchList)
    BY DEF Hit, Scanning
  <2> HIDE DEF UserBlocks
  <2> QED BY <2>1, <2>2
<1>e. entry \in [length : 0 .. U16Max, region : Regions]
  BY PickFact
<1>n. /\ FileLength(entry) \in 1 .. U16Max
      /\ BlocksAfterStart(FileLength(entry)) = FileLength(entry) - 1
  BY <1>e, U16Fact DEF FileLength, BlocksAfterStart
<1>1. /\ searchData' = [block |-> b, length |-> FileLength(entry),
                        region |-> entry.region, fatEntries |-> <<b>>]
      /\ blocksRemaining' = FileLength(entry) - 1
      /\ wasWrapped' = FALSE /\ skipLen' = 1
      /\ UNCHANGED <<searchUsedBlocks, preferredRegion, cardMap, blockSearchList,
                     next, currentSearchBlock, filesFoundList>>
  BY <1>n DEF Hit
<1>2. block' = b + 1
  BY <1>l, U16Fact DEF Hit
<1>3. /\ searchData' \in FileRecords
      /\ searchData'.block = b /\ searchData'.region = entry.region
      /\ searchData'.length = FileLength(entry)
      /\ fat' = <<b>>
  <2> HIDE DEF b, entry, UserBlocks
  <2> QED BY <1>l, <1>e, <1>n, <1>1 DEF FileRecords, fat
<1>4. Len(fat') = 1 /\ fat'[1] = b /\ DOMAIN fat' = {1}
  <2> HIDE DEF b
  <2> QED BY <1>3
<1>5. /\ usedBlockMap' \in [PhysBlocks -> 0 .. UsedMax]
      /\ \A x \in PhysBlocks : usedBlockMap'[x] >= usedBlockMap[x]
      /\ usedBlockMap'[b] > 0
  <2>1. usedBlockMap \in [PhysBlocks -> 0 .. UsedMax] /\ b \in PhysBlocks
    BY <1>l DEF TypeOK
  <2>2. usedBlockMap' = Bump(usedBlockMap, b)
    BY DEF Hit
  <2> HIDE DEF PhysBlocks, b
  <2> QED BY <2>1, <2>2, BumpFact
<1>6. /\ claims' \in Seq(ClaimRecords) /\ Len(claims') = Len(claims) + 1
      /\ claims'[1] = claim
      /\ \A i \in 2 .. Len(claims) + 1 : claims'[i] = claims[i - 1]
      /\ DOMAIN claims' = 1 .. Len(claims) + 1
      /\ claims \in Seq(ClaimRecords)
  <2>1. claim \in ClaimRecords /\ claims \in Seq(ClaimRecords)
    BY <1>l DEF ClaimRecords, TypeOK
  <2>2. claims' = <<claim>> \o claims
    BY DEF Hit
  <2> HIDE DEF claim, UserBlocks
  <2> QED BY <2>1, <2>2, FrontFact
<1>c. /\ claim.start = b /\ claim.blocks = {b} /\ claim.offered = hits
  OBVIOUS
<1>i. \A i \in 2 .. Len(claims) + 1 : i - 1 \in DOMAIN claims
  BY <1>6
<1> HIDE DEF claim, b, entry
<1>7. TypeOK'
  <2>1. searchData' \in FileRecords \cup {NoFile} /\ block' \in 0 .. TotalPhysBlocks
    BY <1>l, <1>2, <1>3
  <2>2. blocksRemaining' \in 0 .. U16Max
    BY <1>n, <1>1, U16Fact
  <2> QED BY <1>p, <1>1, <1>5, <1>6, <2>1, <2>2 DEF TypeOK
<1>8. ListInv'
  <2>1. cardMap \in [PhysBlocks -> 0 .. UsedMax] /\ usedBlockMap \in [PhysBlocks -> 0 .. UsedMax]
    BY CardMapFact DEF TypeOK
  <2>2. ~searchUsedBlocks => \A x \in PhysBlocks : usedBlockMap'[x] >= cardMap[x]
    BY <1>p, <1>5, <2>1 DEF ListInv
  <2> QED BY <1>p, <1>1, <2>2 DEF ListInv
<1>9. HitInv'
  <2>1. Len(fat') + blocksRemaining' = searchData'.length /\ fat' # << >>
    BY <1>n, <1>1, <1>3, <1>4
  <2>2. block' \in FirstBlock .. TotalPhysBlocks
    BY <1>l, <1>2
  <2>3. claims' # << >> /\ claims'[1].start = searchData'.block
    BY <1>3, <1>6, <1>c
  <2>4. searchData'.block = blockSearchList'[currentSearchBlock']
    BY <1>1, <1>3 DEF b
  <2> QED BY <1>p, <1>l, <1>1, <1>3, <1>4, <2>1, <2>2, <2>3, <2>4 DEF HitInv
<1>10. SkipInv'
  <2>1. \A x \in UserBlocks : Visited(x)' <=> x = b
    BY <1>l, <1>1, <1>2, <1>3 DEF Visited
  <2>2. (\A i \in DOMAIN fat : Visited(fat[i]))'
    BY <1>l, <1>1, <1>2, <1>3, <1>4 DEF Visited
  <2>3. block' > searchData'.block
    BY <1>l, <1>2, <1>3
  <2> QED BY <1>1, <1>4, <2>1, <2>2, <2>3 DEF SkipInv
<1>11. NaiveOnlyWhenFull'
  BY <1>p DEF NaiveOnlyWhenFull
<1>12. FreeBlocksTakenOnce'
  <2>1. ~searchUsedBlocks => cardMap[b] = 0
    BY <1>p, <1>l DEF ListInv, b
  <2> QED BY <1>1, <1>4, <2>1 DEF FreeBlocksTakenOnce, fat
<1>13. \A i \in DOMAIN claims : \A x \in claims[i].blocks :
          x \in PhysBlocks /\ x > b
  <2>1. \A i \in DOMAIN claims : claims[i] \in ClaimRecords
    BY <1>6
  <2>2. \A i \in DOMAIN claims : claims[i].start > b
    BY <1>p, <1>l DEF ClaimsInv, b, TypeOK
  <2>3. \A i \in DOMAIN claims : \A x \in claims[i].blocks : x >= claims[i].start
    BY DEF ClaimsInv
  <2> QED BY <1>l, <2>1, <2>2, <2>3 DEF ClaimRecords
<1>14. ClaimsInv'
  <2>1. ASSUME NEW i \in DOMAIN claims'
        PROVE  /\ \A x \in claims'[i].blocks : x >= claims'[i].start /\ usedBlockMap'[x] > 0
               /\ \A j \in DOMAIN blockSearchList :
                     j > currentSearchBlock => claims'[i].start > blockSearchList[j]
    <3>1. CASE i = 1
      <4>1. \A j \in DOMAIN blockSearchList : j > currentSearchBlock => b > blockSearchList[j]
        BY <1>l DEF ListInv, b
      <4> QED BY <1>l, <1>5, <1>6, <1>c, <3>1, <4>1
    <3>2. CASE i # 1
      <4>1. i - 1 \in DOMAIN claims /\ claims'[i] = claims[i - 1]
        BY <1>6, <2>1, <3>2
      <4>2. usedBlockMap \in [PhysBlocks -> 0 .. UsedMax]
        BY DEF TypeOK
      <4>3. ASSUME NEW x \in claims[i - 1].blocks
            PROVE  x >= claims[i - 1].start /\ usedBlockMap'[x] > 0
        <5>1. x >= claims[i - 1].start /\ usedBlockMap[x] > 0 /\ x \in PhysBlocks
          BY <1>p, <1>13, <4>1 DEF ClaimsInv
        <5> QED BY <1>5, <4>2, <5>1
      <4>4. \A j \in DOMAIN blockSearchList :
               j > currentSearchBlock => claims[i - 1].start > blockSearchList[j]
        BY <1>p, <1>l, <4>1 DEF ClaimsInv
      <4> QED BY <4>1, <4>3, <4>4
    <3> QED BY <3>1, <3>2
  <2> QED BY <1>p, <1>1, <2>1 DEF ClaimsInv
<1>15. ClaimsDisjoint'
  <2>1. ASSUME NEW i \in DOMAIN claims', NEW j \in DOMAIN claims', i # j,
               NEW x, x \in claims'[i].blocks, x \in claims'[j].blocks
        PROVE  FALSE
    <3>1. ASSUME NEW k \in DOMAIN claims', k # 1
          PROVE  /\ k - 1 \in DOMAIN claims /\ claims'[k] = claims[k - 1]
                 /\ b \notin claims'[k].blocks
      <4>1. k - 1 \in DOMAIN claims /\ claims'[k] = claims[k - 1]
        BY <1>6, <3>1
      <4> QED BY <1>l, <1>13, <4>1
    <3>2. CASE i = 1
      BY <1>6, <1>c, <2>1, <3>1, <3>2
    <3>3. CASE j = 1
      BY <1>6, <1>c, <2>1, <3>1, <3>3
    <3>4. CASE i # 1 /\ j # 1
      <4>1. i - 1 # j - 1
        BY <1>6, <2>1
      <4> QED BY <2>1, <3>1, <3>4, <4>1 DEF ClaimsDisjoint
    <3> QED BY <3>2, <3>3, <3>4
  <2> QED BY <2>1 DEF ClaimsDisjoint
<1>16. FilesInv' /\ StartsAscending' /\ ChainComplete'
  BY <1>p, <1>1 DEF FilesInv, StartsAscending, ChainComplete, Chains
<1>17. RegionInv'
  <2>1. Len(claims') = Len(filesFoundList') + 1
    BY <1>p, <1>1, <1>6 DEF RegionInv
  <2>2. preferredRegion # 0 => RegionOK(searchData, claims[1])'
    BY <1>1, <1>3, <1>6, <1>c, PickFact DEF RegionOK, entry
  <2>3. ASSUME preferredRegion # 0, NEW i \in DOMAIN filesFoundList
        PROVE  RegionOK(filesFoundList[i], claims[i + 1])'
    <3>1. i \in DOMAIN claims /\ claims'[i + 1] = claims[i]
      <4>1. Len(claims) = Len(filesFoundList) /\ filesFoundList \in Seq(FileRecords)
        BY <1>p DEF RegionInv, TypeOK
      <4>2. i \in 1 .. Len(claims)
        BY <4>1
      <4>3. (i + 1) - 1 = i /\ i + 1 \in 2 .. Len(claims) + 1
        BY <1>6, <4>2
      <4> QED BY <1>6, <4>2, <4>3
    <3>2. RegionOK(filesFoundList[i], claims[i])
      BY <1>p, <2>3 DEF RegionInv
    <3> QED BY <1>1, <3>1, <3>2 DEF RegionOK
  <2> QED BY <1>p, <1>1, <2>1, <2>2, <2>3 DEF RegionInv
<1> QED BY <1>7, <1>8, <1>9, <1>10, <1>11, <1>12, <1>14, <1>15, <1>16, <1>17

\* What was visited from the start block to the end stays visited.
LEMMA SkipWrapStep == ASSUME IndInv, SkipWrap PROVE IndInv'
<1> USE BlocksAssumption, U16Fact DEF IndInv, SkipWrap, WrapTo, fat, FileRecords
<1>1. TypeOK' /\ ListInv'
  BY DEF TypeOK, ListInv
<1>2. HitInv'
  BY DEF TypeOK, HitInv
<1>3. SkipInv'
  <2>1. /\ searchData.block \in UserBlocks
        /\ fat \in Seq(UserBlocks)
        /\ block = TotalPhysBlocks
    BY DEF TypeOK, HitInv
  <2>1a. ~wasWrapped
    BY <2>1 DEF SkipInv
  <2>2. \A b \in UserBlocks : Visited(b) <=> Visited(b)'
    BY <2>1, <2>1a DEF Visited
  <2>3. \A i \in DOMAIN fat : Visited(fat[i])'
    BY <2>1, <2>2 DEF SkipInv
  <2> QED BY <2>1, <2>2, <2>3 DEF SkipInv
<1>4. NaiveOnlyWhenFull' /\ FreeBlocksTakenOnce'
  BY DEF NaiveOnlyWhenFull, FreeBlocksTakenOnce
<1>5. ClaimsInv' /\ ClaimsDisjoint'
  BY DEF ClaimsInv, ClaimsDisjoint
<1>6. FilesInv' /\ StartsAscending' /\ ChainComplete' /\ RegionInv'
  BY DEF FilesInv, StartsAscending, ChainComplete, Chains, RegionInv, RegionOK
<1> QED BY <1>1, <1>2, <1>3, <1>4, <1>5, <1>6

\* The visited block is now used or taken; a taken one is free, so no other
\* file claims it and this one has not visited it.
LEMMA SkipVisitStep == ASSUME IndInv, SkipVisit PROVE IndInv'
<1> USE BlocksAssumption, UsedMaxAssumption DEF IndInv
<1>p. pc = "skip" /\ pc' = "skip"
  BY DEF SkipVisit
<1>d. searchData \in FileRecords
  BY <1>p DEF HitInv
<1>f. fat # << >> /\ fat \in Seq(UserBlocks)
  BY <1>p, <1>d DEF HitInv, fat, FileRecords
<1>s. searchData.block \in UserBlocks /\ fat[1] = searchData.block
  BY <1>p, <1>d DEF HitInv, FileRecords
<1>b. block \in UserBlocks /\ block # searchData.block
  BY <1>p DEF HitInv, SkipVisit, AtStart, TypeOK
<1>r. blocksRemaining \in 1 .. U16Max
  BY U16Fact DEF SkipVisit, TypeOK
<1>l. skipLen = Len(fat)
  BY <1>p DEF HitInv
<1>m. usedBlockMap \in [PhysBlocks -> 0 .. UsedMax]
  BY DEF TypeOK
<1>c. claims \in Seq(ClaimRecords) /\ claims # << >>
  <2>1. claims \in Seq(ClaimRecords)
    BY DEF TypeOK
  <2> QED BY <1>p, <2>1 DEF HitInv
<1>2. block' = block + 1
  BY <1>b, U16Fact DEF SkipVisit
<1>3. searchData'.block = searchData.block /\ wasWrapped' = wasWrapped
  BY <1>d, <1>b, AppendBlockFact DEF SkipVisit
<1>4. CASE usedBlockMap[block] # 0
  <2>1. UNCHANGED <<pc, searchUsedBlocks, preferredRegion, cardMap, usedBlockMap,
                    blockSearchList, next, currentSearchBlock, searchData,
                    blocksRemaining, wasWrapped, filesFoundList, mapAtHit, skipLen,
                    claims>>
    BY <1>4 DEF SkipVisit
  <2>2. TypeOK'
    BY <1>b, <1>2, <2>1 DEF TypeOK
  <2>3. ListInv' /\ HitInv'
    BY <1>b, <1>2, <2>1 DEF ListInv, HitInv, fat
  <2>4. SkipInv'
    <3>1. IF wasWrapped THEN block' <= searchData.block
                        ELSE block' > searchData.block
      BY <1>p, <1>b, <1>s, <1>2 DEF SkipInv
    <3>2. fat' = fat
      BY <2>1 DEF fat
    <3>3. (\A i \in DOMAIN fat : Visited(fat[i]))'
      BY <1>p, <1>f, <1>s, <1>b, <1>2, <1>3, <3>2 DEF SkipInv, Visited
    <3>4. ASSUME NEW b \in UserBlocks, Visited(b)'
          PROVE  usedBlockMap'[b] # 0 \/ \E i \in DOMAIN fat' : fat'[i] = b
      <4>1. b # block => Visited(b)
        BY <1>s, <1>b, <1>2, <1>3, <3>4 DEF Visited
      <4> QED BY <1>p, <1>4, <2>1, <3>2, <4>1 DEF SkipInv
    <3> QED BY <2>1, <3>1, <3>3, <3>4 DEF SkipInv
  <2>5. NaiveOnlyWhenFull' /\ FreeBlocksTakenOnce'
    BY <1>p, <2>1 DEF NaiveOnlyWhenFull, FreeBlocksTakenOnce
  <2>6. ClaimsInv' /\ ClaimsDisjoint'
    BY <2>1 DEF ClaimsInv, ClaimsDisjoint
  <2>7. FilesInv' /\ StartsAscending' /\ ChainComplete' /\ RegionInv'
    BY <2>1 DEF FilesInv, StartsAscending, ChainComplete, Chains, RegionInv, RegionOK
  <2> QED BY <2>2, <2>3, <2>4, <2>5, <2>6, <2>7
<1>5. CASE usedBlockMap[block] = 0
  <2>1. /\ searchData' = AppendBlock(searchData, block)
        /\ skipLen' = skipLen + 1 /\ blocksRemaining' = blocksRemaining - 1
        /\ UNCHANGED <<pc, searchUsedBlocks, preferredRegion, cardMap,
                       blockSearchList, next, currentSearchBlock, wasWrapped,
                       filesFoundList, mapAtHit>>
    BY <1>5 DEF SkipVisit
  <2>2. /\ searchData' \in FileRecords
        /\ searchData'.block = searchData.block
        /\ searchData'.length = searchData.length
        /\ searchData'.region = searchData.region
        /\ fat' = Append(fat, block)
    BY <1>d, <1>b, <2>1, AppendBlockFact DEF fat
  <2>3. /\ fat' \in Seq(UserBlocks) /\ Len(fat') = Len(fat) + 1
        /\ fat'[Len(fat) + 1] = block
        /\ \A i \in 1 .. Len(fat) : fat'[i] = fat[i]
        /\ DOMAIN fat' = 1 .. Len(fat) + 1
    <3> HIDE DEF UserBlocks
    <3> QED BY <1>f, <1>b, <2>2, AppendFact
  \* Marked or not, counts only grow, and only this block's.
  <2>4. /\ usedBlockMap' \in [PhysBlocks -> 0 .. UsedMax]
        /\ \A b \in PhysBlocks : usedBlockMap'[b] >= usedBlockMap[b]
    BY <1>m, <1>b, <1>5 DEF SkipVisit, MarksBlock
  <2>5. /\ claims' \in Seq(ClaimRecords) /\ Len(claims') = Len(claims)
        /\ claims'[1].start = claims[1].start
        /\ claims'[1].offered = claims[1].offered
        /\ \A i \in 2 .. Len(claims) : claims'[i] = claims[i]
        /\ \/ claims'[1].blocks = claims[1].blocks
           \/ /\ claims'[1].blocks = claims[1].blocks \cup {block}
              /\ ~wasWrapped /\ usedBlockMap'[block] > 0
    <3>1. CASE wasWrapped
      BY <1>c, <1>5, <3>1 DEF SkipVisit, MarksBlock
    <3>2. CASE ~wasWrapped
      <4>1. claims' = AddToClaim(claims, block) /\ usedBlockMap'[block] > 0
        BY <1>m, <1>b, <1>5, <3>2 DEF SkipVisit, MarksBlock
      <4> QED BY <1>c, <1>b, <3>2, <4>1, AddToClaimFact
    <3> QED BY <3>1, <3>2 DEF TypeOK
  <2>6. TypeOK'
    <3>1. searchData' \in FileRecords \cup {NoFile} /\ block' \in 0 .. TotalPhysBlocks
      BY <1>b, <1>2, <2>2
    <3>2. skipLen' \in Nat /\ blocksRemaining' \in 0 .. U16Max
      BY <1>r, <2>1, U16Fact DEF TypeOK
    <3> HIDE DEF FileRecords
    <3> QED BY <2>1, <2>4, <2>5, <3>1, <3>2 DEF TypeOK
  <2>7. ListInv'
    <3>1. cardMap \in [PhysBlocks -> 0 .. UsedMax]
      BY CardMapFact DEF TypeOK
    <3>2. ~searchUsedBlocks => \A b \in PhysBlocks : usedBlockMap'[b] >= cardMap[b]
      BY <1>p, <1>m, <2>4, <3>1 DEF ListInv
    <3> QED BY <1>p, <2>1, <3>2 DEF ListInv
  <2>8. HitInv'
    <3>1. fat'[1] = searchData'.block /\ fat' # << >>
      BY <1>f, <1>s, <2>2, <2>3
    <3>2. Len(fat') + blocksRemaining' = searchData'.length
      BY <1>p, <1>f, <1>r, <2>1, <2>2, <2>3 DEF HitInv
    <3>3. /\ block' \in FirstBlock .. TotalPhysBlocks
          /\ skipLen' = Len(fat') /\ skipLen' \in 1 .. Len(fat')
      BY <1>b, <1>f, <1>l, <1>2, <2>1, <2>3
    <3>4. claims' # << >> /\ claims'[1].start = searchData'.block
      BY <1>p, <1>c, <2>2, <2>5 DEF HitInv
    <3>5. /\ currentSearchBlock' \in DOMAIN blockSearchList'
          /\ searchData'.block = blockSearchList'[currentSearchBlock']
      BY <1>p, <2>1, <2>2 DEF HitInv
    <3> HIDE DEF FileRecords
    <3> QED BY <2>2, <3>1, <3>2, <3>3, <3>4, <3>5 DEF HitInv
  <2>9. SkipInv'
    <3>1. IF wasWrapped' THEN block' <= searchData'.block
                         ELSE block' > searchData'.block
      BY <1>p, <1>b, <1>s, <1>2, <2>1, <2>2 DEF SkipInv
    <3>2. (\A i \in DOMAIN fat : Visited(fat[i]))'
      <4>1. \A i \in 1 .. Len(fat) : fat[i] \in UserBlocks /\ Visited(fat[i])
        BY <1>p, <1>f DEF SkipInv
      <4>2. ASSUME NEW i \in 1 .. Len(fat) + 1
            PROVE  IF wasWrapped' THEN fat'[i] >= searchData'.block \/ fat'[i] < block'
                                  ELSE fat'[i] >= searchData'.block /\ fat'[i] < block'
        <5>1. CASE i = Len(fat) + 1
          <6>1. fat'[i] = block
            BY <2>3, <5>1
          <6> QED BY <1>p, <1>s, <1>b, <1>2, <1>3, <6>1 DEF SkipInv
        <5>2. CASE i \in 1 .. Len(fat)
          <6>1. \A b \in UserBlocks :
                   Visited(b) =>
                      IF wasWrapped' THEN b >= searchData'.block \/ b < block'
                                     ELSE b >= searchData'.block /\ b < block'
            BY <1>s, <1>b, <1>2, <1>3 DEF Visited
          <6> QED BY <2>3, <4>1, <5>2, <6>1
        <5> QED BY <1>f, <5>1, <5>2
      <4> QED BY <2>3, <4>2 DEF Visited
    <3>3. ASSUME NEW b \in UserBlocks, Visited(b)'
          PROVE  usedBlockMap'[b] # 0 \/ \E i \in DOMAIN fat' : fat'[i] = b
      <4>1. CASE b = block
        <5>1. Len(fat) + 1 \in DOMAIN fat'
          BY <1>f, <2>3
        <5> QED BY <2>3, <4>1, <5>1
      <4>2. CASE b # block
        <5>1. usedBlockMap[b] # 0 \/ \E i \in DOMAIN fat : fat[i] = b
          <6>1. Visited(b)
            BY <1>s, <1>b, <1>2, <1>3, <3>3, <4>2 DEF Visited
          <6> QED BY <1>p, <6>1 DEF SkipInv
        <5>2. usedBlockMap[b] # 0 => usedBlockMap'[b] # 0
          BY <1>m, <2>4
        <5>3. ASSUME NEW i \in DOMAIN fat PROVE i \in DOMAIN fat' /\ fat'[i] = fat[i]
          <6>1. i \in 1 .. Len(fat) /\ Len(fat) \in Nat
            BY <1>f, <5>3
          <6>2. i \in 1 .. Len(fat) + 1
            BY <6>1
          <6> QED BY <2>3, <6>1, <6>2, Zenon
        <5> QED BY <5>1, <5>2, <5>3
      <4> QED BY <4>1, <4>2
    <3> QED BY <2>1, <3>1, <3>2, <3>3 DEF SkipInv
  <2>10. NaiveOnlyWhenFull'
    BY <1>p DEF NaiveOnlyWhenFull
  <2>11. FreeBlocksTakenOnce'
    <3>1. \A i \in 1 .. Len(fat) : fat[i] # block
      BY <1>p, <1>f, <1>s, <1>b DEF SkipInv, Visited
    <3>2. ~searchUsedBlocks => cardMap[block] = 0
      <4>1. cardMap[block] \in 0 .. UsedMax
        BY <1>b, CardMapFact DEF TypeOK
      <4>2. ~searchUsedBlocks => usedBlockMap[block] >= cardMap[block]
        BY <1>p, <1>b DEF ListInv
      <4> QED BY <1>5, <4>1, <4>2
    <3>3. /\ \A i, j \in 1 .. skipLen : fat[i] = fat[j] => i = j
          /\ ~searchUsedBlocks => \A i \in 1 .. skipLen : cardMap[fat[i]] = 0
      BY <1>p DEF FreeBlocksTakenOnce, fat
    <3>4. \A i, j \in 1 .. Len(fat) + 1 : fat'[i] = fat'[j] => i = j
      BY <1>f, <1>l, <2>3, <3>1, <3>3
    <3>5. ~searchUsedBlocks => \A i \in 1 .. Len(fat) + 1 : cardMap[fat'[i]] = 0
      <4>1. ASSUME ~searchUsedBlocks, NEW i \in 1 .. Len(fat) + 1
            PROVE  cardMap[fat'[i]] = 0
        <5>1. CASE i = Len(fat) + 1
          BY <2>3, <3>2, <4>1, <5>1
        <5>2. CASE i \in 1 .. Len(fat)
          BY <1>l, <2>3, <3>3, <4>1, <5>2
        <5> QED BY <1>f, <5>1, <5>2
      <4> QED BY <4>1
    <3> QED BY <1>l, <2>1, <3>4, <3>5 DEF FreeBlocksTakenOnce, fat
  <2>12. ClaimsInv'
    <3>1. ~wasWrapped => block > claims[1].start
      BY <1>p DEF SkipInv, HitInv
    <3>2. DOMAIN claims' = DOMAIN claims /\ 1 \in DOMAIN claims
      BY <1>c, <2>5, FirstFact
    <3>3. \A i \in DOMAIN claims : claims[i] \in ClaimRecords
      BY <1>c
    <3>4. \A i \in DOMAIN claims :
             /\ claims'[i].start = claims[i].start
             /\ \/ claims'[i].blocks = claims[i].blocks
                \/ /\ i = 1 /\ claims'[i].blocks = claims[i].blocks \cup {block}
                   /\ ~wasWrapped /\ usedBlockMap'[block] > 0
      BY <1>c, <2>5
    <3>5. \A i \in DOMAIN claims' : \A b \in claims'[i].blocks : b >= claims'[i].start
      <4>1. ASSUME NEW i \in DOMAIN claims, NEW b \in claims'[i].blocks
            PROVE  b >= claims[i].start
        <5>1. CASE b \in claims[i].blocks
          BY <5>1 DEF ClaimsInv
        <5>2. CASE b \notin claims[i].blocks
          <6>1. i = 1 /\ b = block /\ ~wasWrapped
            BY <3>4, <4>1, <5>2
          <6>2. claims[1].start \in UserBlocks
            BY <3>2, <3>3 DEF ClaimRecords
          <6> QED BY <1>b, <3>1, <6>1, <6>2
        <5> QED BY <5>1, <5>2
      <4> QED BY <3>2, <3>4, <4>1
    <3>6. \A i \in DOMAIN claims' : \A b \in claims'[i].blocks : usedBlockMap'[b] > 0
      <4>1. ASSUME NEW i \in DOMAIN claims, NEW b \in claims[i].blocks
            PROVE  usedBlockMap'[b] > 0
        BY <1>p, <1>m, <2>4, <3>3, <4>1 DEF ClaimsInv, ClaimRecords
      <4> QED BY <3>2, <3>4, <4>1
    <3> QED BY <1>p, <2>1, <3>2, <3>4, <3>5, <3>6 DEF ClaimsInv
  <2>13. ClaimsDisjoint'
    <3>1. \A i \in DOMAIN claims : block \notin claims[i].blocks
      BY <1>p, <1>5 DEF ClaimsInv
    <3> QED BY <1>c, <2>5, <3>1 DEF ClaimsDisjoint
  <2>14. FilesInv' /\ StartsAscending' /\ ChainComplete'
    BY <1>p, <2>1 DEF FilesInv, StartsAscending, ChainComplete, Chains
  <2>15. RegionInv'
    <3>1. \A i \in DOMAIN claims : claims'[i].offered = claims[i].offered
      BY <1>c, <2>5
    <3>2. DOMAIN claims' = DOMAIN claims /\ 1 \in DOMAIN claims
      BY <1>c, <2>5, FirstFact
    <3>3. \A i \in DOMAIN filesFoundList : i + 1 \in DOMAIN claims
      BY <1>p, <1>c DEF RegionInv, TypeOK
    <3> QED BY <1>p, <2>1, <2>2, <2>5, <3>1, <3>2, <3>3 DEF RegionInv, RegionOK
  <2> QED BY <2>6, <2>7, <2>8, <2>9, <2>10, <2>11, <2>12, <2>13, <2>14, <2>15
<1> QED BY <1>m, <1>b, <1>4, <1>5

\* Either the chain is complete or every block has been visited: whatever is
\* not taken is in use.
LEMMA SkipEndStep == ASSUME IndInv, SkipEnd PROVE IndInv'
<1> USE BlocksAssumption DEF IndInv, SkipEnd, fat, FileRecords
<1>1. /\ searchData \in FileRecords /\ fat # << >>
      /\ searchData.block \in UserBlocks /\ fat \in Seq(UserBlocks)
      /\ block \in Nat /\ blocksRemaining \in Nat
      /\ TotalPhysBlocks <= U16Max
  BY U16Fact DEF TypeOK, HitInv
<1>2. fat[Len(fat)] \in UserBlocks
  BY <1>1, EmptySeq
<1>3. block' = fat[Len(fat)] + 1
  BY <1>1, <1>2, U16Fact
<1>4. TypeOK' /\ HitInv'
  <2>1. block' \in FirstBlock .. TotalPhysBlocks /\ block' \in 0 .. TotalPhysBlocks
    BY <1>2, <1>3
  <2> QED BY <2>1 DEF TypeOK, HitInv
<1>5. ListInv' /\ SkipInv'
  BY DEF ListInv, SkipInv
<1>6. NaiveOnlyWhenFull'
  <2>1. CASE blocksRemaining = 0
    BY <2>1 DEF NaiveOnlyWhenFull
  <2>2. CASE block < TotalPhysBlocks /\ AtStart
    <3>1. \A b \in UserBlocks : Visited(b)
      BY <1>1, <2>2 DEF AtStart, SkipInv, Visited
    <3> QED BY <3>1 DEF SkipInv, NaiveOnlyWhenFull
  <2> QED BY <2>1, <2>2
<1>7. FreeBlocksTakenOnce'
  BY DEF FreeBlocksTakenOnce
<1>8. ClaimsInv' /\ ClaimsDisjoint'
  BY DEF ClaimsInv, ClaimsDisjoint
<1>9. FilesInv' /\ StartsAscending' /\ ChainComplete' /\ RegionInv'
  BY DEF FilesInv, StartsAscending, ChainComplete, Chains, RegionInv, RegionOK
<1> QED BY <1>4, <1>5, <1>6, <1>7, <1>8, <1>9

\* Only the position changes.
LEMMA NaiveWrapStep == ASSUME IndInv, NaiveWrap PROVE IndInv'
<1> USE BlocksAssumption, UsedMaxAssumption, U16Fact, CardMapFact
       DEF IndInv, NaiveWrap, WrapTo, fat
<1>1. TypeOK'
  BY DEF TypeOK
<1>2. ListInv'
  BY DEF TypeOK, ListInv
<1>3. HitInv' /\ SkipInv' /\ NaiveOnlyWhenFull' /\ FreeBlocksTakenOnce'
  BY DEF TypeOK, ListInv, HitInv, SkipInv, Visited, NaiveOnlyWhenFull,
        FreeBlocksTakenOnce
<1>4. ClaimsInv' /\ ClaimsDisjoint'
  BY DEF TypeOK, HitInv, ClaimsInv, ClaimsDisjoint
<1>5. FilesInv' /\ StartsAscending' /\ ChainComplete'
  BY DEF TypeOK, HitInv, ListInv, FilesInv, StartsAscending, ChainComplete, Chains
<1>6. RegionInv'
  BY DEF TypeOK, ListInv, HitInv, RegionInv, RegionOK
<1> QED BY <1>1, <1>2, <1>3, <1>4, <1>5, <1>6

\* The chain grows by the block the loop stands on; claims stay as they are.
LEMMA NaiveTakeStep == ASSUME IndInv, NaiveTake PROVE IndInv'
<1> USE BlocksAssumption, UsedMaxAssumption DEF IndInv
<1>p. pc = "naive" /\ pc' = "naive"
  BY DEF NaiveTake
<1>d. searchData \in FileRecords
  BY <1>p DEF HitInv
<1>f. fat # << >> /\ fat \in Seq(UserBlocks)
  BY <1>p, <1>d DEF HitInv, fat, FileRecords
<1>b. block \in UserBlocks
  BY <1>p DEF HitInv, NaiveTake, TypeOK
<1>r. blocksRemaining \in 1 .. U16Max
  BY U16Fact DEF NaiveTake, TypeOK
<1>m. usedBlockMap \in [PhysBlocks -> 0 .. UsedMax]
  BY DEF TypeOK
<1>1. /\ searchData' = AppendBlock(searchData, block)
      /\ blocksRemaining' = blocksRemaining - 1
      /\ UNCHANGED <<pc, searchUsedBlocks, preferredRegion, cardMap, blockSearchList,
                     next, currentSearchBlock, wasWrapped, filesFoundList, mapAtHit,
                     skipLen, claims>>
  BY DEF NaiveTake
<1>2. block' = block + 1
  BY <1>b, U16Fact DEF NaiveTake
<1>3. /\ searchData' \in FileRecords
      /\ searchData'.block = searchData.block
      /\ searchData'.length = searchData.length
      /\ searchData'.region = searchData.region
      /\ fat' = Append(fat, block)
  BY <1>d, <1>b, <1>1, AppendBlockFact DEF fat
<1>4. /\ fat' \in Seq(UserBlocks) /\ Len(fat') = Len(fat) + 1
      /\ \A i \in 1 .. Len(fat) : fat'[i] = fat[i]
      /\ DOMAIN fat' = 1 .. Len(fat) + 1
      /\ fat'[Len(fat) + 1] = block
  <2> HIDE DEF UserBlocks
  <2> QED BY <1>f, <1>b, <1>3, AppendFact
<1>5. /\ usedBlockMap' \in [PhysBlocks -> 0 .. UsedMax]
      /\ \A b \in PhysBlocks : usedBlockMap'[b] >= usedBlockMap[b]
  <2>1. /\ Bump(usedBlockMap, block) \in [PhysBlocks -> 0 .. UsedMax]
        /\ \A b \in PhysBlocks : Bump(usedBlockMap, block)[b] >= usedBlockMap[b]
    <3>1. block \in PhysBlocks
      BY <1>b
    <3> HIDE DEF PhysBlocks
    <3> QED BY <1>m, <3>1, BumpFact
  <2>2. usedBlockMap' \in {usedBlockMap, Bump(usedBlockMap, block)}
    BY DEF NaiveTake
  <2>3. \A b \in PhysBlocks : usedBlockMap[b] >= usedBlockMap[b]
    BY <1>m
  <2> QED BY <1>m, <2>1, <2>2, <2>3
<1>6. TypeOK'
  <2>1. searchData' \in FileRecords \cup {NoFile} /\ block' \in 0 .. TotalPhysBlocks
    BY <1>b, <1>2, <1>3
  <2>2. blocksRemaining' \in 0 .. U16Max
    BY <1>r, <1>1, U16Fact
  <2> QED BY <1>1, <1>5, <2>1, <2>2 DEF TypeOK
<1>7. ListInv'
  <2>1. cardMap \in [PhysBlocks -> 0 .. UsedMax]
    BY CardMapFact DEF TypeOK
  <2>2. ~searchUsedBlocks => \A b \in PhysBlocks : usedBlockMap'[b] >= cardMap[b]
    BY <1>p, <1>m, <1>5, <2>1 DEF ListInv
  <2> QED BY <1>p, <1>1, <2>2 DEF ListInv
<1>8. HitInv'
  <2>1. fat'[1] = searchData'.block /\ fat' # << >>
    BY <1>p, <1>f, <1>3, <1>4 DEF HitInv
  <2>2. Len(fat') + blocksRemaining' = searchData'.length
    BY <1>p, <1>f, <1>r, <1>1, <1>3, <1>4 DEF HitInv
  <2>3. block' \in FirstBlock .. TotalPhysBlocks /\ skipLen' \in 1 .. Len(fat')
    BY <1>p, <1>b, <1>f, <1>1, <1>2, <1>4 DEF HitInv
  <2>4. /\ claims' # << >> /\ claims'[1].start = searchData'.block
        /\ currentSearchBlock' \in DOMAIN blockSearchList'
        /\ searchData'.block = blockSearchList'[currentSearchBlock']
    BY <1>p, <1>1, <1>3 DEF HitInv
  <2> QED BY <1>p, <1>1, <1>3, <2>1, <2>2, <2>3, <2>4 DEF HitInv
<1>9. SkipInv'
  BY <1>p DEF SkipInv
<1>10. FreeBlocksTakenOnce'
  <2>1. skipLen \in 1 .. Len(fat)
    BY <1>p DEF HitInv
  <2>2. \A i \in 1 .. skipLen : fat'[i] = fat[i]
    BY <1>f, <1>4, <2>1
  <2> QED BY <1>p, <1>1, <2>2 DEF FreeBlocksTakenOnce, fat
<1>11. NaiveOnlyWhenFull'
  <2>1. ASSUME NEW b \in UserBlocks
        PROVE  usedBlockMap'[b] # 0 \/ \E i \in DOMAIN fat' : fat'[i] = b
    <3>1. usedBlockMap[b] # 0 \/ \E i \in DOMAIN fat : fat[i] = b
      BY <1>p, <1>r DEF NaiveOnlyWhenFull, fat
    <3>2. usedBlockMap[b] # 0 => usedBlockMap'[b] # 0
      BY <1>m, <1>5
    <3>3. ASSUME NEW i \in DOMAIN fat PROVE i \in DOMAIN fat' /\ fat'[i] = fat[i]
      <4>1. i \in 1 .. Len(fat) /\ Len(fat) \in Nat
        BY <1>f, <3>3
      <4>2. i \in 1 .. Len(fat) + 1
        BY <4>1
      <4> QED BY <1>4, <4>1, <4>2, Zenon
    <3> QED BY <3>1, <3>2, <3>3
  <2> QED BY <2>1 DEF NaiveOnlyWhenFull, fat
<1>12. ClaimsInv'
  <2>1. \A i \in DOMAIN claims : \A b \in claims[i].blocks : b \in PhysBlocks
    <3>1. \A i \in DOMAIN claims : claims[i] \in ClaimRecords
      BY DEF TypeOK
    <3> QED BY <3>1 DEF ClaimRecords
  <2>2. \A i \in DOMAIN claims : \A b \in claims[i].blocks : usedBlockMap'[b] > 0
    BY <1>p, <1>m, <1>5, <2>1 DEF ClaimsInv
  <2> QED BY <1>p, <1>1, <2>2 DEF ClaimsInv
<1>13. ClaimsDisjoint' /\ FilesInv' /\ StartsAscending' /\ ChainComplete'
  BY <1>p, <1>1 DEF ClaimsDisjoint, FilesInv, StartsAscending, ChainComplete, Chains
<1>14. RegionInv'
  BY <1>p, <1>1, <1>3 DEF RegionInv, RegionOK
<1> QED BY <1>6, <1>7, <1>8, <1>9, <1>10, <1>11, <1>12, <1>13, <1>14

\* The file is complete and its start lies below those of the files found.
LEMMA PushFrontStep == ASSUME IndInv, PushFront PROVE IndInv'
<1> USE BlocksAssumption DEF IndInv
<1>p. pc = "naive" /\ pc' = "scan"
  BY DEF PushFront
<1>d. /\ searchData \in FileRecords
      /\ filesFoundList \in Seq(FileRecords)
      /\ filesFoundList' = <<searchData>> \o filesFoundList
  BY <1>p DEF HitInv, TypeOK, PushFront, ToTheFront
<1>l. /\ blockSearchList \in Seq(UserBlocks)
      /\ currentSearchBlock \in DOMAIN blockSearchList
      /\ searchData.block = blockSearchList[currentSearchBlock]
      /\ currentSearchBlock' = currentSearchBlock + 1
  BY <1>p DEF HitInv, TypeOK, PushFront
<1>1. UNCHANGED <<searchUsedBlocks, preferredRegion, cardMap, usedBlockMap,
                  blockSearchList, next, claims>>
  BY DEF PushFront
<1>2. /\ filesFoundList' \in Seq(FileRecords)
      /\ Len(filesFoundList') = Len(filesFoundList) + 1
      /\ filesFoundList'[1] = searchData
      /\ \A i \in 2 .. Len(filesFoundList) + 1 : filesFoundList'[i] = filesFoundList[i - 1]
      /\ DOMAIN filesFoundList' = 1 .. Len(filesFoundList) + 1
  <2> HIDE DEF UserBlocks
  <2> QED BY <1>d, FrontFact
<1>3. TypeOK'
  <2>1. currentSearchBlock' \in Nat \ {0}
    BY <1>l
  <2>2. /\ searchData' \in FileRecords \cup {NoFile} /\ skipLen' \in Nat
        /\ blocksRemaining' \in 0 .. U16Max /\ block' \in 0 .. TotalPhysBlocks
        /\ wasWrapped' \in BOOLEAN
    <3>1. searchData' = NoFile /\ skipLen' = 0
      BY Zenon DEF PushFront, LocalsOfHitDie
    <3>2. blocksRemaining' = 0 /\ block' = 0 /\ wasWrapped' = FALSE
      BY Zenon DEF PushFront, LocalsOfHitDie
    <3>3. 0 \in 0 .. U16Max /\ 0 \in 0 .. TotalPhysBlocks
      BY U16Fact
    <3> QED BY <3>1, <3>2, <3>3
  <2> QED BY <1>p, <1>1, <1>2, <2>1, <2>2 DEF TypeOK
<1>4. ListInv'
  BY <1>p, <1>1 DEF ListInv
<1>5. HitInv' /\ SkipInv' /\ NaiveOnlyWhenFull' /\ FreeBlocksTakenOnce'
  BY <1>p DEF HitInv, SkipInv, NaiveOnlyWhenFull, FreeBlocksTakenOnce
<1>6. ClaimsInv' /\ ClaimsDisjoint'
  BY <1>p, <1>l, <1>1 DEF ClaimsInv, ClaimsDisjoint
<1>7. FilesInv' /\ StartsAscending'
  <2>1. \A i \in DOMAIN filesFoundList : \A j \in DOMAIN blockSearchList :
           j >= currentSearchBlock => filesFoundList[i].block > blockSearchList[j]
    BY <1>p DEF FilesInv
  <2>2. \A j \in DOMAIN blockSearchList :
           j > currentSearchBlock => searchData.block > blockSearchList[j]
    BY <1>l DEF ListInv
  <2>3. ASSUME NEW i \in DOMAIN filesFoundList', NEW j \in DOMAIN blockSearchList,
               j >= currentSearchBlock'
        PROVE  filesFoundList'[i].block > blockSearchList[j]
    <3>1. CASE i = 1
      BY <1>l, <1>2, <2>2, <2>3, <3>1
    <3>2. CASE i # 1
      <4>1. i - 1 \in DOMAIN filesFoundList /\ filesFoundList'[i] = filesFoundList[i - 1]
        BY <1>d, <1>2, <3>2
      <4> QED BY <1>l, <2>1, <2>3, <4>1
    <3> QED BY <3>1, <3>2
  <2>4. ASSUME NEW i \in DOMAIN filesFoundList', NEW j \in DOMAIN filesFoundList', i < j
        PROVE  filesFoundList'[i].block < filesFoundList'[j].block
    <3>1. CASE i = 1
      BY <1>d, <1>l, <1>2, <2>1, <2>4, <3>1
    <3>2. CASE i # 1
      <4>1. /\ i - 1 \in DOMAIN filesFoundList /\ j - 1 \in DOMAIN filesFoundList
            /\ i - 1 < j - 1
            /\ filesFoundList'[i] = filesFoundList[i - 1]
            /\ filesFoundList'[j] = filesFoundList[j - 1]
        BY <1>d, <1>2, <2>4, <3>2
      <4> QED BY <4>1 DEF StartsAscending
    <3> QED BY <3>1, <3>2
  <2> QED BY <1>p, <1>1, <2>3, <2>4 DEF FilesInv, StartsAscending
<1>8. ChainComplete'
  <2>1. Len(searchData.fatEntries) = searchData.length
    <3>1. /\ Len(fat) + blocksRemaining = searchData.length /\ blocksRemaining = 0
          /\ searchData.length \in Nat
      BY <1>p, <1>d DEF HitInv, PushFront, FileRecords
    <3>2. fat \in Seq(UserBlocks)
      BY <1>d DEF fat, FileRecords
    <3> QED BY <3>1, <3>2 DEF fat
  <2>2. searchData.fatEntries[1] = searchData.block
    BY <1>p DEF HitInv, fat
  <2>3. ASSUME NEW i \in DOMAIN filesFoundList'
        PROVE  /\ Len(filesFoundList'[i].fatEntries) = filesFoundList'[i].length
               /\ filesFoundList'[i].fatEntries[1] = filesFoundList'[i].block
    <3>1. CASE i = 1
      BY <1>2, <2>1, <2>2, <3>1
    <3>2. CASE i # 1
      BY <1>d, <1>2, <3>2 DEF ChainComplete, Chains
    <3> QED BY <3>1, <3>2
  <2> QED BY <2>3 DEF ChainComplete, Chains
<1>9. RegionInv'
  <2>1. Len(claims') = Len(filesFoundList')
    BY <1>p, <1>1, <1>2 DEF RegionInv
  <2>2. ASSUME preferredRegion # 0, NEW i \in DOMAIN filesFoundList'
        PROVE  RegionOK(filesFoundList'[i], claims[i])
    <3>1. CASE i = 1
      BY <1>p, <1>2, <2>2, <3>1 DEF RegionInv
    <3>2. CASE i # 1
      <4>1. i - 1 \in DOMAIN filesFoundList /\ filesFoundList'[i] = filesFoundList[i - 1]
        BY <1>d, <1>2, <3>2
      <4>2. (i - 1) + 1 = i
        BY <1>2
      <4>3. RegionOK(filesFoundList[i - 1], claims[(i - 1) + 1])
        BY <1>p, <2>2, <4>1 DEF RegionInv
      <4> QED BY <4>1, <4>2, <4>3
    <3> QED BY <3>1, <3>2
  <2> QED BY <1>p, <1>1, <2>1, <2>2 DEF RegionInv, RegionOK
<1> QED BY <1>3, <1>4, <1>5, <1>6, <1>7, <1>8, <1>9

\* The result stays, the list of candidates goes.
LEMMA SearchFinishedStep == ASSUME IndInv, SearchFinished PROVE IndInv'
<1> USE BlocksAssumption, UsedMaxAssumption, U16Fact, CardMapFact
       DEF IndInv, SearchFinished
<1>1. TypeOK'
  BY DEF TypeOK
<1>2. ListInv'
  BY DEF TypeOK, ListInv
<1>3. HitInv' /\ SkipInv' /\ NaiveOnlyWhenFull' /\ FreeBlocksTakenOnce'
  BY DEF TypeOK, ListInv, HitInv, SkipInv, Visited, NaiveOnlyWhenFull,
        FreeBlocksTakenOnce
<1>4. ClaimsInv' /\ ClaimsDisjoint'
  BY DEF TypeOK, HitInv, ClaimsInv, ClaimsDisjoint
<1>5. FilesInv' /\ StartsAscending' /\ ChainComplete'
  BY DEF TypeOK, HitInv, ListInv, FilesInv, StartsAscending, ChainComplete, Chains
<1>6. RegionInv'
  BY DEF TypeOK, ListInv, HitInv, RegionInv, RegionOK
<1> QED BY <1>1, <1>2, <1>3, <1>4, <1>5, <1>6

\* Nothing happens.
LEMMA StutterStep == ASSUME IndInv, UNCHANGED vars PROVE IndInv'
  BY DEF vars, IndInv, TypeOK, ListInv, HitInv, fat, SkipInv, Visited, ClaimsInv, FilesInv,
         RegionInv, RegionOK, ChainComplete, Chains, FreeBlocksTakenOnce, ClaimsDisjoint,
         NaiveOnlyWhenFull, StartsAscending

\* Before the first search everything is empty.
LEMMA InitInv == ASSUME Init PROVE IndInv
<1> USE BlocksAssumption, UsedMaxAssumption, U16Fact DEF Init
<1>1. TypeOK
  <2>1. cardMap \in [PhysBlocks -> 0 .. UsedMax] /\ usedBlockMap = cardMap
    BY CardMapFact
  <2>2. 0 \in 0 .. U16Max /\ 0 \in 0 .. TotalPhysBlocks /\ 0 \in 0 .. (TotalPhysBlocks - 1)
    BY U16Fact
  <2>3. << >> \in Seq(UserBlocks) /\ << >> \in Seq(FileRecords) /\ << >> \in Seq(ClaimRecords)
    <3> HIDE DEF UserBlocks
    <3> QED BY EmptySeq
  <2>4. pc \in {"idle", "list", "scan", "skip", "naive"} /\ searchUsedBlocks \in BOOLEAN
        /\ preferredRegion \in Regions \cup {0} /\ cardMap \in CardMaps
    OBVIOUS
  <2>5. currentSearchBlock \in Nat \ {0} /\ wasWrapped \in BOOLEAN /\ skipLen \in Nat
    <3>1. currentSearchBlock = 1 /\ skipLen = 0
      BY Zenon
    <3>2. wasWrapped \in BOOLEAN
      BY Zenon
    <3> HIDE DEF Init
    <3> QED BY <3>1, <3>2
  <2>6. searchData \in FileRecords \cup {NoFile}
    OBVIOUS
  <2>7. /\ blockSearchList \in Seq(UserBlocks) /\ filesFoundList \in Seq(FileRecords)
        /\ claims \in Seq(ClaimRecords)
    BY <2>3, Zenon
  <2>8. next \in 0 .. (TotalPhysBlocks - 1) /\ blocksRemaining \in 0 .. U16Max
        /\ block \in 0 .. TotalPhysBlocks
    BY <2>2
  <2>9. usedBlockMap \in [PhysBlocks -> 0 .. UsedMax]
    BY <2>1
  <2> HIDE DEF Init, UserBlocks, PhysBlocks
  <2> QED BY <2>4, <2>5, <2>6, <2>7, <2>8, <2>9, Zenon DEF TypeOK
<1>2. ListInv /\ HitInv /\ SkipInv /\ NaiveOnlyWhenFull /\ FreeBlocksTakenOnce
  BY DEF ListInv, HitInv, SkipInv, NaiveOnlyWhenFull, FreeBlocksTakenOnce
<1>3. ClaimsInv /\ ClaimsDisjoint /\ FilesInv /\ StartsAscending /\ ChainComplete /\ RegionInv
  BY DEF ClaimsInv, ClaimsDisjoint, FilesInv, StartsAscending, ChainComplete, Chains, RegionInv
<1> QED BY <1>1, <1>2, <1>3 DEF IndInv

\* Every step keeps the invariant.
LEMMA NextInv == ASSUME IndInv, [Next]_vars PROVE IndInv'
<1>1. CASE \E hits \in HitLists : Hit(hits)
  BY <1>1, HitStep
<1>2. CASE UNCHANGED vars
  BY <1>2, StutterStep
<1>3. CASE SearchRefused
  BY <1>3, SearchRefusedStep
<1>4. CASE SetProperties
  BY <1>4, SetPropertiesStep
<1>5. CASE SearchCalled
  BY <1>5, SearchCalledStep
<1>6. CASE ListBlock
  BY <1>6, ListBlockStep
<1>7. CASE SearchNoBlocks
  BY <1>7, SearchNoBlocksStep
<1>8. CASE SearchStarted
  BY <1>8, SearchStartedStep
<1>9. CASE NoHit
  BY <1>9, NoHitStep
<1>10. CASE SkipWrap
  BY <1>10, SkipWrapStep
<1>11. CASE SkipVisit
  BY <1>11, SkipVisitStep
<1>12. CASE SkipEnd
  BY <1>12, SkipEndStep
<1>13. CASE NaiveWrap
  BY <1>13, NaiveWrapStep
<1>14. CASE NaiveTake
  BY <1>14, NaiveTakeStep
<1>15. CASE PushFront
  BY <1>15, PushFrontStep
<1>16. CASE SearchFinished
  BY <1>16, SearchFinishedStep
<1> QED
  BY <1>1, <1>2, <1>3, <1>4, <1>5, <1>6, <1>7, <1>8, <1>9, <1>10, <1>11, <1>12, <1>13,
     <1>14, <1>15, <1>16 DEF Next, Search

-----------------------------------------------------------------------------
\* IndInv is an invariant: the initial states satisfy it and every step of
\* searchMemCard() keeps it.
THEOREM Invariance == Spec => []IndInv
<1>1. Init => IndInv
  BY InitInv
<1>2. IndInv /\ [Next]_vars => IndInv'
  BY NextInv
<1> QED BY <1>1, <1>2, PTL DEF Spec

\* The variables keep their types: in particular no block number and no use
\* count ever wraps around.
THEOREM TypeCorrect == Spec => []TypeOK
<1>1. IndInv => TypeOK
  BY DEF IndInv
<1> QED BY <1>1, Invariance, PTL

\* Every found file has a chain of its length that begins at its start block,
\* whatever the card's map and the databases are.
THEOREM ChainsAreComplete == Spec => []ChainComplete
<1>1. IndInv => ChainComplete
  BY DEF IndInv
<1> QED BY <1>1, Invariance, PTL

\* The first loop never takes a block twice, and none of a file in the
\* directory when only free blocks are searched.
THEOREM FreeBlocksAreTakenOnce == Spec => []FreeBlocksTakenOnce
<1>1. IndInv => FreeBlocksTakenOnce
  BY DEF IndInv
<1> QED BY <1>1, Invariance, PTL

\* The blocks two found files mark in the first loop are disjoint.
THEOREM ClaimsAreDisjoint == Spec => []ClaimsDisjoint
<1>1. IndInv => ClaimsDisjoint
  BY DEF IndInv
<1> QED BY <1>1, Invariance, PTL

\* The second loop has blocks to take only on a card that is full.
THEOREM NaiveIsLastResort == Spec => []NaiveOnlyWhenFull
<1>1. IndInv => NaiveOnlyWhenFull
  BY DEF IndInv
<1> QED BY <1>1, Invariance, PTL

\* Lost files come in ascending order of their start blocks, one per block.
THEOREM StartsAreAscending == Spec => []StartsAscending
<1>1. IndInv => StartsAscending
  BY DEF IndInv
<1> QED BY <1>1, Invariance, PTL

\* A file of another region is reported only when the preferred region was
\* not on offer.
THEOREM RegionIsHonoured == Spec => []RegionHonoured
<1>1. IndInv => RegionHonoured
  <2> SUFFICES ASSUME IndInv, pc = "scan", preferredRegion # 0,
                      NEW i \in DOMAIN filesFoundList
               PROVE  RegionOK(filesFoundList[i], claims[i])
    BY DEF RegionHonoured, RegionOK
  <2> QED BY DEF IndInv, RegionInv
<1> QED BY <1>1, Invariance, PTL
=============================================================================
