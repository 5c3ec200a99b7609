-------------------------- MODULE MCGcnSearchWorker --------------------------
(* GcnSearchWorker on a card of four user blocks. *)
EXTENDS GcnSearchWorkerInv

CONSTANTS E, U      \* two regions, numbers in the .cfg

\* Lengths from none recorded to more blocks than the card has, and a block
\* that two databases know: the region decides.
MCHitLists ==
    { <<[length |-> 3, region |-> E]>>, <<[length |-> 5, region |-> E]>>,
      <<[length |-> 0, region |-> E], [length |-> 2, region |-> U]>> }

\* The first five blocks are always used; the user blocks may be free, used
\* once, or at the saturated count.
MCCardMaps ==
    { m \in [PhysBlocks -> 0 .. UsedMax] : \A b \in 0 .. 4 : m[b] = 1 }
=============================================================================
