----------------------------- MODULE FlagPages -----------------------------
(***************************************************************************)
(* The flags of a save file in an editor: BitFlags or ByteFlags, the model *)
(* that gives them a row each, the PageFilterModel that shows the rows of  *)
(* one page, the tab bar of BitFlagsView, and the conversion from and to   *)
(* the bytes of the save slot.  The three views of the Sonic Adventure     *)
(* editor: event flags in pages, NPC flags on one page, and missions, a    *)
(* row of check boxes per byte.                                            *)
(***************************************************************************)
EXTENDS Integers

CONSTANTS
    ByteBits,       \* 8: bits of a byte
    NumBytes,       \* bytes of the save slot that hold flags
    PageSize        \* 64: of a new view and of SAEventFlags

ASSUME FlagsAssumption ==
    /\ ByteBits \in Nat \ {0} /\ NumBytes \in Nat \ {0}
    /\ PageSize \in Nat \ {0}

VARIABLES
    kind,           \* the flags the view shows, "none" before it has a model
    pageSize, pages,\* PageFilterModel: pageSize and what is computed from it
    tab, tabs,      \* tabBar: the current tab and how many there are
    flags,          \* the rows' values, a check box per column
    image,          \* the flag bytes of the save slot, lowest bit first
    wanted,         \* history: what the user sees and has checked
    saved           \* history: nothing was checked since loading or saving

flagVars == <<kind, pageSize, pages, tab, tabs, flags, image, wanted, saved>>

Kinds == {"events", "npc", "missions"}
Bytes == 0..(NumBytes - 1)
Bits == 0..(ByteBits - 1)
Images == [Bytes -> [Bits -> BOOLEAN]]
NumRows(k) == IF k = "missions" THEN NumBytes ELSE NumBytes * ByteBits
Rows(k) == 0..(NumRows(k) - 1)
Columns(k) == IF k = "missions" THEN Bits ELSE {0}
PageSizeOf(k) == IF k = "events" THEN PageSize ELSE 0

Least(a, b) == IF a < b THEN a ELSE b

\* Seeded fault: rows left over after the last full page get no page.
PageCountRoundedDown(size, rows) == IF size > 0 THEN rows \div size ELSE 1

PageCount(size, rows) ==
    IF size > 0 THEN rows \div size + (IF rows % size > 0 THEN 1 ELSE 0) ELSE 1

\* calcPageOffsets() for a source with rows.
CalcPageOffsets(size, page, rows) ==
    LET count == PageCount(size, rows)
        current == Least(page, count - 1)
    IN  [current |-> current, count |-> count,
         start |-> Least(size * current, rows - 1),
         end |-> IF size > 0 THEN Least(size * current + size, rows) - 1
                 ELSE rows - 1]

\* BitFlags::allFlags(): each flag is shifted into its byte from the top, so
\* that m flags end up in its m highest bits.
ShiftedIn(fl, b) ==
    LET m == Least(ByteBits, NumRows("events") - b * ByteBits)
    IN  [k \in Bits |-> k >= ByteBits - m /\ fl[b * ByteBits + k - (ByteBits - m)][0]]

AllFlags(k, fl) ==
    IF k = "missions" THEN fl ELSE [b \in Bytes |-> ShiftedIn(fl, b)]

\* setAllFlags(): bits from the lowest on, or a copy of the bytes.
SetAllFlags(k, img) ==
    IF k = "missions" THEN img
    ELSE [r \in Rows(k) |-> [c \in {0} |-> img[r \div ByteBits][r % ByteBits]]]

\* What the bytes mean: flag i is bit i % 8 of byte i / 8.
Meaning(k, img) ==
    [r \in Rows(k) |->
        [c \in Columns(k) |-> IF k = "missions" THEN img[r][c]
                              ELSE img[r \div ByteBits][r % ByteBits]]]

FlagsInit ==
    /\ kind = "none"
    /\ pageSize = PageSize
    /\ pages = [current |-> 0, count |-> 0, start |-> 0, end |-> 0]
    /\ tab = 0 /\ tabs = 0
    /\ flags = <<>> /\ image = <<>> /\ wanted = <<>> /\ saved = TRUE

\* setBitFlagsModel(): the source, its page size, one tab per page.  SAEditor
\* does this once per view, before updateDisplay() loads the first slot.
SetFlagsModel(k, img) ==
    /\ kind = "none"
    /\ kind' = k
    /\ pageSize' = PageSizeOf(k)
    /\ LET first == CalcPageOffsets(pageSize, pages.current, NumRows(k))
       IN  pages' = IF PageSizeOf(k) = pageSize THEN first
                    ELSE CalcPageOffsets(PageSizeOf(k), first.current, NumRows(k))
    /\ tabs' = pages'.count
    /\ image' = img
    /\ flags' = SetAllFlags(k, img)
    /\ wanted' = Meaning(k, img)
    /\ saved' = TRUE
    /\ UNCHANGED tab

\* Seeded fault: the offsets are left as they are.
TurnsThePageOnly(page) == pages' = [pages EXCEPT !.current = page]

\* setCurrentPage(), connected to the tab bar's currentChanged().
SetCurrentPage(page) ==
    IF page = pages.current \/ page \notin 0..(pages.count - 1)
      THEN UNCHANGED pages
      ELSE pages' = CalcPageOffsets(pageSize, page, NumRows(kind))

SelectTab(t) ==
    /\ kind # "none" /\ t # tab
    /\ tab' = t
    /\ SetCurrentPage(t)
    /\ UNCHANGED <<kind, pageSize, tabs, flags, image, wanted, saved>>

\* A click on a check box: the proxy maps its row to one of the source.
CheckFlag(row, column) ==
    /\ kind # "none"
    /\ row <= pages.end - pages.start
    /\ LET r == pages.start + row
       IN  flags' = [flags EXCEPT ![r][column] = ~ @]
    /\ LET r == PageSizeOf(kind) * tab + row
       IN  wanted' = [wanted EXCEPT ![r][column] = ~ @]
    /\ saved' = FALSE
    /\ UNCHANGED <<kind, pageSize, pages, tab, tabs, image>>

\* saveCurrentSlot(), and with another slot's bytes updateDisplay().
SaveSlot ==
    /\ kind # "none"
    /\ image' = AllFlags(kind, flags)
    /\ saved' = TRUE
    /\ UNCHANGED <<kind, pageSize, pages, tab, tabs, flags, wanted>>

LoadSlot(img) ==
    /\ kind # "none" /\ saved
    /\ image' = img
    /\ flags' = SetAllFlags(kind, img)
    /\ wanted' = Meaning(kind, img)
    /\ saved' = TRUE
    /\ UNCHANGED <<kind, pageSize, pages, tab, tabs>>

FlagsNext ==
    \/ \E k \in Kinds, img \in Images : SetFlagsModel(k, img)
    \/ \E t \in 0..(tabs - 1) : SelectTab(t)
    \/ kind # "none" /\ \E row \in Rows(kind), c \in Columns(kind) : CheckFlag(row, c)
    \/ SaveSlot
    \/ \E img \in Images : LoadSlot(img)

FlagsSpec == FlagsInit /\ [][FlagsNext]_flagVars

-----------------------------------------------------------------------------
\* A tab shows the rows of its page, no others, and every row has a tab.
TabsPartitionRows ==
    kind # "none" =>
        /\ tab = pages.current /\ tabs = pages.count
        /\ LET pageOf(r) == IF pageSize = 0 THEN 0 ELSE r \div pageSize
           IN  \A r \in Rows(kind) :
                   /\ (r \in pages.start..pages.end) <=> (pageOf(r) = tab)
                   /\ pageOf(r) < tabs

\* The flag a click changes is the one shown in that row, on whatever page,
\* and a save slot written back holds exactly what was checked: every other
\* bit comes back as it was loaded.
SavesWhatWasChecked ==
    kind # "none" =>
        /\ flags = wanted
        /\ saved => Meaning(kind, image) = wanted
=============================================================================
