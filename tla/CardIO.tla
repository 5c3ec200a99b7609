-------------------------------- MODULE CardIO --------------------------------
(***************************************************************************)
(* An open card image and its one QFile: blocks are read and written by a  *)
(* seek and a transfer, by the main thread for an editor and by the worker *)
(* thread of a search, with nothing to keep the two apart.  A block is a   *)
(* sequence of BlockSize units.  The bits of QFile that are not its        *)
(* position are left out: of the outcomes of the data race only those of a *)
(* shared position remain.                                                 *)
(***************************************************************************)
EXTENDS Integers, SequencesExt

CONSTANTS Image,        \* contents of the blocks when the card is opened
          BlockSize,
          Files, Chain, \* the chain of blocks of each file
          LostFiles     \* the files a search has found

NumBlocks == Len(Image)
ASSUME ImageAssumption == BlockSize \in Nat /\ Image \in Seq([1 .. BlockSize -> Nat])
ASSUME ChainAssumption ==
    \A f \in Files : /\ Chain[f] \in Seq(Nat \ {0}) /\ Chain[f] # << >>
                     /\ IsInjective(Chain[f])
                     /\ \A g \in Files \ {f} : ToSet(Chain[f]) \cap ToSet(Chain[g]) = {}
ASSUME LostAssumption == LostFiles \subseteq Files

VARIABLES
    disk,           \* the image file, a sequence of blocks from 1
    pos,            \* the position of the QFile, in blocks
    isOpen, errors, readOnly,       \* d->file, d->errors # 0, d->readOnly
    chkAllowWrite,  \* [enabled, checked]: the window's box
    console,        \* "GCN" or "DC": which of the two kinds of card this is
    found,          \* the card has its lost files
    worker          \* a search of the free blocks: "none", "seek", "read", "done"

cardVars == <<disk, pos, isOpen, errors, readOnly, chkAllowWrite, console, found, worker>>

\* Lost files do not mark their blocks as used.
FreeBlocks == (1 .. NumBlocks) \ UNION {ToSet(Chain[f]) : f \in Files \ LostFiles}

-----------------------------------------------------------------------------
(* Blocks *)

\* Seeded fault: the blocks of a file follow each other.
PhysBlockContiguous(f, n) == Chain[f][1] + n - 1

\* fileBlockAddrToPhysBlockAddr()
PhysBlock(f, n) == Chain[f][n]

IsReadOnly(f) == f \in LostFiles \/ ~isOpen \/ readOnly

Seek(b) == pos' = b

\* Both transfers take place where the position is by now.  Past the end
\* nothing is read, and a write makes the file longer.
CanRead == pos <= NumBlocks
ReadHere == disk[pos]
Advance == pos' = pos + 1

WriteHere(block) ==
    /\ disk' = IF pos <= NumBlocks THEN [disk EXCEPT ![pos] = block] ELSE disk
    /\ Advance

-----------------------------------------------------------------------------
(* The window's side *)

CardInit ==
    /\ disk = Image /\ pos = 1
    /\ isOpen = FALSE /\ errors = FALSE /\ readOnly = TRUE
    /\ chkAllowWrite = [enabled |-> FALSE, checked |-> FALSE]
    /\ console = "GCN" /\ found = FALSE /\ worker = "none"

\* A card is opened read-only; the box can be used if the card has no errors.
OpenCard ==
    /\ ~isOpen
    /\ isOpen' = TRUE /\ errors' \in BOOLEAN /\ readOnly' = TRUE
    /\ pos' = 1
    /\ chkAllowWrite' = [enabled |-> ~errors', checked |-> FALSE]
    /\ console' \in {"GCN", "DC"} /\ found' = FALSE
    /\ UNCHANGED <<disk, worker>>

CloseCard ==
    /\ isOpen /\ worker = "none"
    /\ isOpen' = FALSE /\ readOnly' = TRUE
    /\ chkAllowWrite' = [enabled |-> FALSE, checked |-> FALSE]
    /\ UNCHANGED <<disk, pos, errors, console, found, worker>>

\* The box is taken back when the mode could not be changed.
BoxAfter(checked, ok) ==
    IF ok THEN [chkAllowWrite EXCEPT !.checked = checked]
    ELSE [enabled |-> FALSE, checked |-> ~checked]

\* setReadOnly() swaps in a new QFile, if the image can be opened in the other
\* mode; whether it does anything, and whether it succeeds.
ModeChanges(ro, opened) == readOnly # ro /\ ~errors /\ opened
SetReadOnlyOk(ro, opened) == readOnly = ro \/ ModeChanges(ro, opened)

\* chkAllowWrite_clicked()
AllowWriteClicked ==
    /\ isOpen /\ chkAllowWrite.enabled /\ worker = "none"
    /\ LET checked == ~chkAllowWrite.checked IN
       \E opened \in BOOLEAN :
         /\ readOnly' = IF ModeChanges(~checked, opened) THEN ~checked ELSE readOnly
         /\ pos' = IF ModeChanges(~checked, opened) THEN 1 ELSE pos
         /\ chkAllowWrite' = BoxAfter(checked, SetReadOnlyOk(~checked, opened))
    /\ UNCHANGED <<disk, isOpen, errors, console, found, worker>>

-----------------------------------------------------------------------------
(* A search *)

\* Only a GameCube card is searched.  Its lost files leave the list of files,
\* but their File objects live on.
StartScan ==
    /\ isOpen /\ worker = "none" /\ console = "GCN"
    /\ found' = FALSE
    /\ worker' = "seek"
    /\ UNCHANGED <<disk, pos, isOpen, errors, readOnly, chkAllowWrite, console>>

WorkerSeek ==
    /\ worker = "seek"
    /\ \E b \in FreeBlocks : Seek(b)
    /\ worker' = "read"
    /\ UNCHANGED <<disk, isOpen, errors, readOnly, chkAllowWrite, console, found>>

WorkerRead ==
    /\ worker = "read"
    /\ IF CanRead THEN Advance ELSE UNCHANGED pos
    /\ worker' \in {"seek", "done"}
    /\ UNCHANGED <<disk, isOpen, errors, readOnly, chkAllowWrite, console, found>>

\* searchThread_searchFinished_slot(), and the window is no longer busy
SearchFinished ==
    /\ worker = "done"
    /\ found' = TRUE
    /\ worker' = "none"
    /\ UNCHANGED <<disk, pos, isOpen, errors, readOnly, chkAllowWrite, console>>
=============================================================================
