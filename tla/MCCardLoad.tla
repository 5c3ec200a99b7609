----------------------------- MODULE MCCardLoad -----------------------------
(* CardLoad for TLC.  GameCube cards of 8 or 16 blocks and images around    *)
(* these sizes, with good and bad headers, tables and sectors; VMUs of 8    *)
(* blocks, root block 7, FAT in 6, directory in 5 and 4, and images a block *)
(* longer or shorter, with chains that end, cycle or leave the user blocks. *)
EXTENDS CardLoad

NoRoot == [magic |-> FALSE, fatAddr |-> 0, fatSize |-> 0, dirAddr |-> 0,
           dirSize |-> 0, userBlocks |-> 0]

Dat(t, stored) == [stored |-> stored, updated |-> t]
Bat(t, stored, free) ==
    [stored |-> stored, updated |-> t, freeblocks |-> free,
     fat |-> [b \in 0..(FatSize - 1) |-> IF b < 2 THEN 0 ELSE 1]]
DatSet(t) == {Dat(t, Computed), Dat(t, 2)}
BatSet(t) == {Bat(t, Computed, 2), Bat(t, 2, 2), Bat(t, Computed, 3)}
Pairs(S(_)) == {[t \in {0, 1} |-> IF t = 0 THEN a ELSE b] : a \in S(0), b \in S(1)}

GcnImages ==
    [units : {0, 1, 4, 7, 8, 10, 14, 16, 24, 32, 36}, header : BOOLEAN,
     bad : {{}, {0}, {1}, {2}, {3}, {4}},
     dats : Pairs(DatSet), bats : Pairs(BatSet),
     root : {NoRoot}, fat : {[b \in 0..7 |-> 0]}, entries : {{}}]

\* Blocks 0 to 3 end, cycle, leave for the directory and are free.
Fats == {[b \in 0..7 |-> CASE b = 0 -> 1 [] b = 1 -> LastInFile [] b = 2 -> 3
                           [] b = 3 -> 2 [] OTHER -> Unallocated],
         [b \in 0..7 |-> CASE b = 0 -> 3 [] b = 3 -> 5 [] b = 1 -> 1
                           [] OTHER -> Unallocated]}
Entry(block, address, size) == [block |-> block, address |-> address, size |-> size]
VmuImages ==
    [units : {14, 15, 16, 17, 18}, header : {FALSE},
     bad : {{}, {4}, {6}, {7}},
     dats : {[t \in {0, 1} |-> Dat(t, 2)]}, bats : {[t \in {0, 1} |-> Bat(t, 2, 0)]},
     root : [magic : BOOLEAN, fatAddr : {6, 9}, fatSize : {1, 2}, dirAddr : {5, 0, 8},
             dirSize : {2, 3}, userBlocks : {0, 4, 9}],
     fat : Fats,
     entries : {{Entry(5, 0, 2), Entry(5, 2, 20), Entry(4, 1, 9), Entry(1, 6, 3)}}]

MCImages == GcnImages \cup VmuImages
=============================================================================
