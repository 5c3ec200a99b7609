---------------------------- MODULE MCCardBrowser ----------------------------
(* Images of a card with four user blocks.  Their block tables have a cyclic *)
(* chain, two files that share a block and a link out of the card; tables   *)
(* are valid or not, and newer or older, in the ways that matter.           *)
EXTENDS CardBrowserProps

Entry(b, l, a) == [block |-> b, length |-> l, animated |-> a]

Loop == [n \in 0 .. FatSize - 1 |->
            CASE n = 0 -> 6 [] n = 1 -> 5 [] n = 2 -> 9 [] n = 3 -> 65535 [] OTHER -> 0]
Line == [n \in 0 .. FatSize - 1 |->
            CASE n = 0 -> 6 [] n = 1 -> 7 [] n = 2 -> 65535 [] OTHER -> 0]

Dats(v0, u0, v1, u1) ==
    [t \in TableIdx |->
        IF t = 0 THEN [valid |-> v0, updated |-> u0,
                       entries |-> <<Entry(5, 9, TRUE), Entry(6, 2, FALSE)>>]
        ELSE [valid |-> v1, updated |-> u1, entries |-> <<Entry(7, 2, FALSE)>>]]
Bats(v0, u0, v1, u1) ==
    [t \in TableIdx |->
        IF t = 0 THEN [checksum |-> v0, updated |-> u0, freeblocks |-> 0, fat |-> Loop]
        ELSE [checksum |-> v1, updated |-> u1, freeblocks |-> 1, fat |-> Line]]

MCImages == {
    [header |-> TRUE,  dats |-> Dats(TRUE, 1, TRUE, 2),   bats |-> Bats(TRUE, 1, TRUE, 2)],
    [header |-> FALSE, dats |-> Dats(TRUE, 1, FALSE, 2),  bats |-> Bats(TRUE, 2, FALSE, 1)],
    [header |-> TRUE,  dats |-> Dats(FALSE, 1, FALSE, 2), bats |-> Bats(FALSE, 1, FALSE, 2)]}
MCObjects == 1 .. 5
=============================================================================
