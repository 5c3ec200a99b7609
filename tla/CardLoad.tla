------------------------------ MODULE CardLoad ------------------------------
(***************************************************************************)
(* Opening an image as a GameCube card, a VMU or a .gci file: the sizes    *)
(* Card computes and flags, the blocks each loader reads in turn, what it  *)
(* puts in place of those it cannot read, and what the window then allows. *)
(* GcnCard begins with the tables this leaves.  A block is BlockUnits      *)
(* units and the head of a card or of a .gci file one unit; checksums are  *)
(* numbers that agree or do not.                                           *)
(***************************************************************************)
EXTENDS Integers, FiniteSets, Sequences

CONSTANTS
    Images,             \* what the files on the disk hold
    BlockUnits,         \* blockSize
    GcnMin, GcnMax,     \* 64 and 2048 blocks
    FatSize,            \* NUM_ELEMENTS(mc_bat->fat)
    VmuBlocks,          \* 256, also NUM_ELEMENTS(mc_fat.fat)
    VmuDirLen           \* 13

ASSUME CardLoadAssumption ==
    /\ BlockUnits \in Nat \ {0} /\ FatSize \in Nat
    /\ GcnMin \in Nat \ {0} /\ GcnMax \in Nat /\ GcnMin <= GcnMax
    /\ GcnMax - 5 <= FatSize
    /\ VmuBlocks \in Nat \ {0} /\ VmuDirLen \in Nat

ASSUME ImagesAssumption ==
    \A i \in Images :
        /\ i.units \in Nat
        /\ \A t \in {0, 1} : i.bats[t].freeblocks \in Nat
                            /\ DOMAIN i.bats[t].fat = 0..(FatSize - 1)
        /\ i.root.userBlocks \in Nat
        /\ i.fat \in [0..(VmuBlocks - 1) -> Nat]
        /\ \A e \in i.entries : e.address \in Nat /\ e.size \in Nat

VARIABLES
    img, type, phase,   \* the file, how it is opened and how far that got
    errors, filesize, totalPhys, totalUser, freeBlocks,
    dat, bat,           \* mc_dat_int, mc_bat_int
    datSum, batSum,     \* mc_dat_chk_actual, mc_bat_chk_actual
    datValid, batValid, \* the bits of dat_info.valid and bat_info.valid
    active,             \* <<dat_info.active, bat_info.active>>
    files,              \* a VMU's, with their chains
    overrun,            \* history: a free-block count left its table
    chkAllowWrite       \* the box is enabled

sizeVars == <<errors, filesize, totalPhys, totalUser, freeBlocks>>
tableVars == <<dat, bat, datSum, batSum, datValid, batValid, active>>
vars == <<img, type, phase, sizeVars, tableVars, files, overrun, chkAllowWrite>>

TableIdx == {0, 1}
RootBlock == VmuBlocks - 1
LastInFile == 65530     \* VMU_FAT_BLOCK_LAST_IN_FILE, 0xFFFA
Unallocated == 65532    \* VMU_FAT_BLOCK_UNALLOCATED, 0xFFFC
Impossible == 43605     \* 0xAA55 twice: "can never appear in a valid table"
Computed == 1           \* what AddInvDual16() makes of a table

\* What is read when a block cannot be: 0xFF in a directory table, 0 in a
\* block table.
FilledDat == [stored |-> Impossible, updated |-> 65535]
Zeroed == [stored |-> 0, updated |-> 0, freeblocks |-> 0,
           fat |-> [b \in 0..(FatSize - 1) |-> 0]]

\* Seeded fault: the zeros of a block table keep their checksum, also 0.
FilledBatSumless == Zeroed

FilledBat == [Zeroed EXCEPT !.stored = Impossible]

\* What new GcnCardPrivate and VmuCardPrivate objects hold.
Cleared ==
    /\ dat' = [t \in TableIdx |-> [stored |-> 0, updated |-> 0]]
    /\ bat' = [t \in TableIdx |-> Zeroed]
    /\ datSum' = [t \in TableIdx |-> 0] /\ batSum' = [t \in TableIdx |-> 0]
    /\ datValid' = {} /\ batValid' = {} /\ active' = <<-1, -1>>
    /\ files' = {} /\ overrun' = FALSE /\ chkAllowWrite' = FALSE

Init ==
    /\ img \in Images /\ type = "none" /\ phase = "closed"
    /\ errors = {} /\ filesize = 0 /\ totalPhys = 0 /\ totalUser = 0 /\ freeBlocks = 0
    /\ dat = [t \in TableIdx |-> [stored |-> 0, updated |-> 0]]
    /\ bat = [t \in TableIdx |-> Zeroed]
    /\ datSum = [t \in TableIdx |-> 0] /\ batSum = [t \in TableIdx |-> 0]
    /\ datValid = {} /\ batValid = {} /\ active = <<-1, -1>>
    /\ files = {} /\ overrun = FALSE /\ chkAllowWrite = FALSE

PowerOf2[k \in Nat] == IF k = 0 THEN 1 ELSE 2 * PowerOf2[k - 1]
IsPow2(n) == \E k \in 0..n : n = PowerOf2[k]

\* The constructor asserts it.
ASSUME BlockSizeAssumption == IsPow2(BlockUnits)

InFile(units) == units <= img.units
Readable(b) == InFile((b + 1) * BlockUnits) /\ b \notin img.bad
HeadReadable == InFile(1) /\ 0 \notin img.bad

-----------------------------------------------------------------------------
(* The window and Card *)

MinBlocks(ty) == CASE ty = "GCN" -> GcnMin [] ty = "VMS" -> VmuBlocks [] OTHER -> 1
MaxBlocks(ty) == CASE ty = "GCN" -> GcnMax [] ty = "VMS" -> VmuBlocks [] OTHER -> GcnMax - 5
HeaderUnits(ty) == IF ty = "GCI" THEN 1 ELSE 0

\* checkCardType(), and GCN when it does not know.
CheckCardType(i) ==
    IF /\ i.units = VmuBlocks * BlockUnits /\ i.root.magic /\ RootBlock \notin i.bad
      THEN "VMS"
    ELSE IF i.units >= BlockUnits + 1 /\ i.units % BlockUnits = 1
            /\ i.units <= (GcnMax - 5) * BlockUnits + 1
      THEN "GCI"
    ELSE "GCN"

\* A filter of the file dialog says how to open the file; the one for .gci
\* files says VMS.  A dropped file is looked at.
TypesOf(i) == {"GCN", "VMS", CheckCardType(i)}

\* The number of blocks of a file, -1 when it is shorter than its header: the
\* unsigned difference wraps and the quotient is cut to an int.
Blocks(units, header) ==
    IF units < header THEN -1 ELSE (units - header) \div BlockUnits

SizeErrors(ty, blocks, size) ==
    (IF blocks < MinBlocks(ty) THEN {"SZ_TOO_SMALL"} ELSE {})
    \cup (IF blocks > MaxBlocks(ty) THEN {"SZ_TOO_BIG"} ELSE {})
    \cup (IF IsPow2(size) THEN {} ELSE {"SZ_NON_POW2"})

\* CardPrivate::open() on a new object.  A GCN card's open() goes on with the
\* number of its user blocks.
Open(ty) ==
    /\ phase = "closed"
    /\ type' = ty /\ phase' = "head"
    /\ totalPhys' = Blocks(img.units, HeaderUnits(ty))
    /\ filesize' = IF totalPhys' > MaxBlocks(ty) THEN MaxBlocks(ty) * BlockUnits
                   ELSE img.units
    /\ errors' = SizeErrors(ty, totalPhys', filesize')
    /\ totalUser' = IF ty = "GCN" /\ totalPhys' > 5 THEN totalPhys' - 5 ELSE 0
    /\ freeBlocks' = 0
    /\ Cleared
    /\ UNCHANGED img

\* The loader is done: the card is shown.  Cards that can be made writable
\* may be written when they have no errors (in a debug build; never in others).
Shown(errs) ==
    /\ phase' = "shown"
    /\ errors' = errs
    /\ chkAllowWrite' = (errs = {} /\ type # "GCI")

NoCardOpen ==
    /\ type' = "none" /\ phase' = "closed"
    /\ UNCHANGED img
    /\ errors' = {} /\ filesize' = 0 /\ totalPhys' = 0 /\ totalUser' = 0 /\ freeBlocks' = 0
    /\ Cleared

\* closeCard().  Every opening makes a new card object, so that another file
\* is another behaviour.
Close == phase = "shown" /\ NoCardOpen

\* A program that crashed is started again, and nothing was stored.
Restart == phase = "crashed" /\ NoCardOpen

-----------------------------------------------------------------------------
(* GcnCardPrivate::loadSysInfo() *)

\* The indexes of the table loadSysInfo() counts; those past its end hold
\* anything.
Zeros(fat, n) == Cardinality({b \in DOMAIN fat : b < n /\ fat[b] = 0})
Counts(fat, n) ==
    {Zeros(fat, n) + k : k \in 0..(IF n > FatSize THEN n - FatSize ELSE 0)}

\* An unreadable header leaves all tables filled and none valid.
GcnShortHeader ==
    /\ ~ HeadReadable
    /\ errors' = errors \cup {"SHORT_READ"}
    /\ dat' = [t \in TableIdx |-> FilledDat] /\ bat' = [t \in TableIdx |-> FilledBat]
    /\ phase' = "check"
    /\ UNCHANGED <<datSum, batSum, datValid, batValid>>

GcnHeader ==
    /\ HeadReadable
    /\ errors' = errors \cup (IF img.header THEN {} ELSE {"INVALID_HEADER"})
    /\ phase' = "tables0"
    /\ UNCHANGED <<dat, bat, datSum, batSum, datValid, batValid>>

LoadGcnHeader ==
    /\ phase = "head" /\ type = "GCN"
    /\ GcnShortHeader \/ GcnHeader
    /\ UNCHANGED <<img, type, filesize, totalPhys, totalUser, freeBlocks, active,
                   files, overrun, chkAllowWrite>>

\* Seeded fault: a short directory table is not an error of the card.
TableErrorsBatOnly(t) == IF Readable(3 + t) THEN {} ELSE {"SHORT_READ"}

TableErrors(t) == IF Readable(1 + t) /\ Readable(3 + t) THEN {} ELSE {"SHORT_READ"}

\* The directory table and the block table of index t, in blocks 1 + t and
\* 3 + t.  The computed checksum of a table that could not be read stays.
LoadTables(t) ==
    /\ phase = (IF t = 0 THEN "tables0" ELSE "tables1")
    /\ phase' = (IF t = 0 THEN "tables1" ELSE "check")
    /\ LET d == IF Readable(1 + t) THEN img.dats[t] ELSE FilledDat
           b == IF Readable(3 + t) THEN img.bats[t] ELSE FilledBat
           sums == IF Readable(3 + t) THEN Computed ELSE batSum[t]
       IN  /\ dat' = [dat EXCEPT ![t] = d]
           /\ datSum' = IF Readable(1 + t) THEN [datSum EXCEPT ![t] = Computed] ELSE datSum
           /\ datValid' = datValid \cup {i \in {t} : d.stored = datSum'[t]}
           /\ bat' = [bat EXCEPT ![t] = b]
           /\ batSum' = [batSum EXCEPT ![t] = sums]
           /\ \E free \in Counts(b.fat, totalUser) :
                  batValid' = batValid \cup
                      {i \in {t} : /\ b.stored = sums
                                   /\ b.freeblocks <= totalUser
                                   /\ b.freeblocks = free}
           /\ overrun' = (overrun \/ (b.freeblocks <= totalUser /\ totalUser > FatSize))
    /\ errors' = errors \cup TableErrors(t)
    /\ UNCHANGED <<img, type, filesize, totalPhys, totalUser, freeBlocks, active,
                   files, chkAllowWrite>>

\* The table updated last if it is valid, or else the other, or else none.
Choice(newer, valid) ==
    IF newer \in valid THEN newer
    ELSE IF 1 - newer \in valid THEN 1 - newer ELSE -1
Newer(tables) == IF tables[1].updated > tables[0].updated THEN 1 ELSE 0

\* checkTables(), loadGcnFileList() (module GcnCard), and the check for
\* garbage of a card with errors.
CheckTables ==
    /\ phase = "check"
    /\ active' = <<Choice(Newer(dat), datValid), Choice(Newer(bat), batValid)>>
    /\ freeBlocks' = bat[IF active'[2] = -1 THEN 0 ELSE active'[2]].freeblocks
    /\ LET errs == errors \cup (IF active'[1] = -1 THEN {"INVALID_DATS"} ELSE {})
                          \cup (IF active'[2] = -1 THEN {"INVALID_BATS"} ELSE {})
       IN  \/ Shown(errs)
           \/ errs # {} /\ Shown(errs \cup {"HEADER_GARBAGE"})
    /\ UNCHANGED <<img, type, filesize, totalPhys, totalUser, dat, bat, datSum,
                   batSum, datValid, batValid, files, overrun>>

-----------------------------------------------------------------------------
(* VmuCardPrivate *)

VmuRest == <<img, type, filesize, totalPhys, dat, bat, datSum, batSum>>

\* The tables of a card that keeps none are "valid".
FakeTables == datValid' = {0} /\ batValid' = {0}

\* An error code of loadSysInfo(), which nobody looks at: no error is flagged.
VmuFails == Shown(errors) /\ files' = {}

\* The root block: its magic, then the FAT it names, of one block and below
\* it, and from that the counts.
VmuRootOk == Readable(RootBlock) /\ img.root.magic
VmuFatOk ==
    /\ img.root.fatSize = 1 /\ img.root.fatAddr < RootBlock
    /\ Readable(img.root.fatAddr)

LoadVmuFat ==
    /\ phase = "head" /\ type = "VMS"
    /\ active' = <<0, 0>> /\ FakeTables
    /\ IF VmuRootOk /\ VmuFatOk
         THEN /\ totalUser' = IF img.root.userBlocks > totalPhys THEN totalPhys
                              ELSE img.root.userBlocks
              /\ \E more \in 0..(IF totalUser' > VmuBlocks THEN totalUser' - VmuBlocks ELSE 0) :
                     freeBlocks' = more + Cardinality(
                         {b \in DOMAIN img.fat : b < totalUser' /\ img.fat[b] = Unallocated})
              /\ overrun' = (totalUser' > VmuBlocks)
              /\ phase' = "dir"
              /\ UNCHANGED <<files, errors, chkAllowWrite>>
         ELSE VmuFails /\ UNCHANGED <<totalUser, freeBlocks, overrun>>
    /\ UNCHANGED VmuRest

\* Seeded fault: the size in the directory is taken as it is.
SizeUnclamped(e) == e.size

SizeOf(e) == IF e.size > totalUser THEN totalUser ELSE e.size

\* VmuFilePrivate: from the first block along the FAT, as long as the blocks
\* are the user's and not more of them than the directory says.
VmuChain(e) ==
    LET link[n \in Nat \ {0}] ==
            IF n = 1 THEN e.address ELSE img.fat[link[n - 1] % VmuBlocks]
        limit == IF SizeOf(e) < 1 THEN 1 ELSE SizeOf(e)
        ok(b) == b < totalUser /\ b # LastInFile
        len == Cardinality({n \in 1..limit : \A m \in 1..n : ok(link[m])})
    IN  [n \in 1..len |-> link[n]]

\* loadDir() reads downwards.  A seek below 0 fails, and the read goes on
\* behind the block before.
DirBlocks ==
    LET block(n) == img.root.dirAddr - n
    IN  {IF block(n) >= 0 THEN block(n) ELSE n - img.root.dirAddr
            : n \in 0..(VmuDirLen - 1)}
DirOk ==
    /\ img.root.dirSize = VmuDirLen /\ img.root.dirAddr < RootBlock
    /\ \A b \in DirBlocks : Readable(b)
VmuEntries == {e \in img.entries : e.block \in DirBlocks}

\* VmuFilePrivate drops the entry when the card has no user blocks.
KeepsNoEntry == totalUser = 0

\* The constructor of VmuFile then reads the type of the file through the
\* null pointer, before any card is shown.
VmuCrash ==
    /\ phase' = "crashed"
    /\ UNCHANGED <<errors, files, chkAllowWrite>>

\* loadDir() and loadFileList(); the counts stay when the directory fails.
LoadVmuDir ==
    /\ phase = "dir"
    /\ \/ ~ DirOk /\ VmuFails
       \/ DirOk /\ VmuEntries # {} /\ KeepsNoEntry /\ VmuCrash
       \/ /\ DirOk /\ (VmuEntries = {} \/ ~ KeepsNoEntry)
          /\ files' = {[entry |-> e, chain |-> VmuChain(e)] : e \in VmuEntries}
          /\ Shown(errors)
    /\ UNCHANGED <<VmuRest, datValid, batValid, active, totalUser, freeBlocks, overrun>>

-----------------------------------------------------------------------------
(* GciCardPrivate::open() *)

LoadGci ==
    /\ phase = "head" /\ type = "GCI"
    /\ IF HeadReadable
         THEN /\ totalUser' = totalPhys /\ FakeTables
              /\ Shown(errors \ {"SZ_NON_POW2"})
         ELSE /\ Shown((errors \cup {"SHORT_READ"}) \ {"SZ_NON_POW2"})
              /\ UNCHANGED <<totalUser, datValid, batValid>>
    /\ UNCHANGED <<img, type, filesize, totalPhys, freeBlocks, dat, bat, datSum,
                   batSum, active, files, overrun>>

Next ==
    \/ \E ty \in TypesOf(img) : Open(ty)
    \/ LoadGcnHeader \/ (\E t \in TableIdx : LoadTables(t)) \/ CheckTables
    \/ LoadVmuFat \/ LoadVmuDir
    \/ LoadGci
    \/ Close \/ Restart

Spec == Init /\ [][Next]_vars

-----------------------------------------------------------------------------
\* Of a GameCube card that is shown, a directory or block table is in use only
\* if the file has it whole, with its checksum (and, for a block table, with
\* as many free blocks as it says), and none is only if there is none such:
\* what stands for an unreadable table never passes for one.
GoodDat(t) == HeadReadable /\ Readable(1 + t) /\ img.dats[t].stored = Computed
GoodBat(t) ==
    /\ HeadReadable /\ Readable(3 + t) /\ img.bats[t].stored = Computed
    /\ img.bats[t].freeblocks = Zeros(img.bats[t].fat, totalUser)
SelectedTablesWereRead ==
    (phase = "shown" /\ type = "GCN" /\ totalUser <= FatSize) =>
        /\ IF active[1] = -1 THEN \A t \in TableIdx : ~ GoodDat(t)
           ELSE GoodDat(active[1]) /\ dat[active[1]] = img.dats[active[1]]
        /\ IF active[2] = -1 THEN \A t \in TableIdx : ~ GoodBat(t)
           ELSE GoodBat(active[2]) /\ freeBlocks = img.bats[active[2]].freeblocks

\* A card the user may make writable has a legal size; a GameCube card
\* moreover has a correct header, all its five system blocks could be read,
\* and a directory and a block table are valid.
OfferedCardsAreRead ==
    chkAllowWrite =>
        /\ type # "GCI"
        /\ totalPhys \in MinBlocks(type)..MaxBlocks(type)
        /\ type = "GCN" =>
               /\ img.header /\ HeadReadable
               /\ \A b \in 1..4 : Readable(b)
               /\ active[1] # -1 /\ active[2] # -1

\* Such a card is moreover an image of whole blocks: what the check for a
\* power of two is there for.
OfferedCardsAreWhole ==
    /\ OfferedCardsAreRead
    /\ chkAllowWrite => img.units = totalPhys * BlockUnits

\* The block a chain c of the file e goes on with, and the chain itself: it
\* follows the FAT over user blocks from the address in the directory, is no
\* longer than its entry and the card allow, and ends sooner only where the
\* FAT leads to no further block.
NextInChain(c, e) ==
    IF Len(c) = 0 THEN e.address ELSE img.fat[c[Len(c)] % VmuBlocks]
ChainOf(c, e) ==
    /\ Len(c) <= totalUser /\ (Len(c) > 1 => Len(c) <= e.size)
    /\ \A n \in 1..Len(c) :
           /\ c[n] < totalUser
           /\ c[n] = IF n = 1 THEN e.address ELSE img.fat[c[n - 1] % VmuBlocks]
    /\ (Len(c) < e.size /\ Len(c) < totalUser) =>
           (NextInChain(c, e) >= totalUser \/ NextInChain(c, e) = LastInFile)

\* However corrupt a VMU is, the chains of its files are those of the FAT and
\* stay on the user blocks.  Loading crashes for one kind of image only, a VMU
\* whose root block leaves the user no blocks while the directory has files;
\* no card without user blocks lists a file, and a free-block count leaves its
\* table only for an image flagged as too big, which is not offered for writing.
FilesStayOnCard ==
    /\ \A f \in files : ChainOf(f.chain, f.entry) /\ totalUser > 0
    /\ phase = "crashed" =>
           type = "VMS" /\ img.root.userBlocks = 0 /\ VmuEntries # {}
    /\ type # "GCN" => freeBlocks <= totalUser
    /\ overrun => "SZ_TOO_BIG" \in errors /\ ~ chkAllowWrite
=============================================================================
