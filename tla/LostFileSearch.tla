--------------------------- MODULE LostFileSearch ---------------------------
(***************************************************************************)
(* What a search for lost files promises, one step per physical block.     *)
(*                                                                         *)
(* A GameCube card image has TotalPhysBlocks blocks; the first five hold   *)
(* the header and the tables.  A search walks over candidate blocks from   *)
(* the highest to the lowest.  A block the databases recognise becomes a   *)
(* lost file, and the search has to invent the FAT chain that deletion     *)
(* destroyed.  Here the chain and the new use counts are given in closed   *)
(* form; GcnSearchWorker computes both with the loops of the code, and is  *)
(* shown to implement this module.                                         *)
(***************************************************************************)
EXTENDS Integers, Sequences, FiniteSets

CONSTANTS
    TotalPhysBlocks,    \* Card::totalPhysBlocks() of the image
    UsedMax,            \* where a use count saturates (255 in the code)
    HitLists            \* what the databases may report for one block

(***************************************************************************)
(* GcnSearchWorker states what is assumed of these constants.  An entry of *)
(* a hit list has the block count of its directory entry (0 when the XML   *)
(* has none) and the region character of its game code; region 0 is "no    *)
(* preference" and never a region of an entry.                             *)
(***************************************************************************)
FirstBlock == 5
PhysBlocks == 0 .. (TotalPhysBlocks - 1)
UserBlocks == FirstBlock .. (TotalPhysBlocks - 1)
NumUser == TotalPhysBlocks - FirstBlock

VARIABLES
    searching,      \* a search is running
    preferredRegion,
    candidates,     \* the blocks still to be looked at, highest first
    used,           \* use count per physical block
    found           \* the lost files, the last one found at the front

vars == <<searching, preferredRegion, candidates, used, found>>

-----------------------------------------------------------------------------
\* The i-th user block after b, cyclically (i = 0 is b itself).
After(b, i) == FirstBlock + ((b - FirstBlock + i) % NumUser)

\* How far behind b the blocks lie that nobody uses.
FreeOffsets(map, b) == {i \in 1 .. (NumUser - 1) : map[After(b, i)] = 0}

\* The k-th smallest number of S.
Kth(S, k) == CHOOSE i \in S : Cardinality({j \in S : j <= i}) = k

\* These blocks in the order the search meets them.
FreeOthers(map, b) ==
    LET S == FreeOffsets(map, b)
    IN  [k \in 1 .. Cardinality(S) |-> After(b, Kth(S, k))]

\* How many blocks of a file of `length` blocks come from free blocks.
Taken(map, b, length) ==
    LET free == Len(FreeOthers(map, b))
    IN  IF length - 1 <= free THEN length - 1 ELSE free

\* The start block and the free blocks after it.
FreePart(map, b, length) ==
    <<b>> \o SubSeq(FreeOthers(map, b), 1, Taken(map, b, length))

\* When the card has too few free blocks: simply what follows.
ForcedPart(map, b, length) ==
    LET part == FreePart(map, b, length)
    IN  [i \in 1 .. (length - Len(part)) |-> After(part[Len(part)], i)]

Chain(map, b, length) == FreePart(map, b, length) \o ForcedPart(map, b, length)

\* Free blocks behind the wraparound stay unmarked: a real file may own them.
Marked(map, b, length) ==
    LET part   == FreePart(map, b, length)
        forced == ForcedPart(map, b, length)
        claims(x) == IF \E i \in DOMAIN part : part[i] = x /\ x >= b THEN 1 ELSE 0
        hits(x)   == Cardinality({i \in DOMAIN forced : forced[i] = x})
        capped(n) == IF n < UsedMax THEN n ELSE UsedMax
    IN  [x \in DOMAIN map |-> capped(map[x] + claims(x) + hits(x))]

\* An entry that the region preference allows, given all entries reported.
Acceptable(hits, region, i) ==
    \/ /\ hits[i].region = region
       /\ \A j \in 1 .. (i - 1) : hits[j].region # region
    \/ /\ i = 1
       /\ \A j \in DOMAIN hits : hits[j].region # region

LengthOf(entry) == IF entry.length = 0 THEN 1 ELSE entry.length

LostFile(map, b, entry) ==
    [block |-> b, length |-> LengthOf(entry), region |-> entry.region,
     fatEntries |-> Chain(map, b, LengthOf(entry))]

-----------------------------------------------------------------------------
Maps == [PhysBlocks -> 0 .. UsedMax]

Init ==
    /\ searching = FALSE
    /\ preferredRegion \in Nat
    /\ candidates = << >>
    /\ used \in Maps
    /\ found = << >>

\* A search that does not start leaves no result behind.
Refuse ==
    /\ ~searching
    /\ found' = << >>
    /\ UNCHANGED <<searching, preferredRegion, candidates, used>>

\* The caller chooses a preferred region.
Configure ==
    /\ ~searching
    /\ preferredRegion' \in Nat
    /\ UNCHANGED <<searching, candidates, used, found>>

Start ==
    /\ ~searching
    /\ searching' = TRUE
    /\ preferredRegion' = preferredRegion
    /\ used' \in Maps
    /\ candidates' # << >>
    /\ \A i, j \in DOMAIN candidates' : i < j => candidates'[i] > candidates'[j]
    /\ \A i \in DOMAIN candidates' : candidates'[i] \in UserBlocks
    /\ found' = << >>

\* Unreadable, or not in any database.
Pass ==
    /\ searching
    /\ candidates # << >>
    /\ candidates' = Tail(candidates)
    /\ UNCHANGED <<searching, preferredRegion, used, found>>

Recover ==
    /\ searching
    /\ candidates # << >>
    /\ \E hits \in HitLists : \E i \in DOMAIN hits :
        LET b == Head(candidates)
        IN  /\ Acceptable(hits, preferredRegion, i)
            /\ found' = <<LostFile(used, b, hits[i])>> \o found
            /\ used' = Marked(used, b, LengthOf(hits[i]))
    /\ candidates' = Tail(candidates)
    /\ UNCHANGED <<searching, preferredRegion>>

Finish ==
    /\ searching
    /\ candidates = << >>
    /\ searching' = FALSE
    /\ used' \in Maps
    /\ UNCHANGED <<preferredRegion, candidates, found>>

Next == Refuse \/ Configure \/ Start \/ Pass \/ Recover \/ Finish

Spec == Init /\ [][Next]_vars
=============================================================================
