# A TLA+ verification of mcrecover

mcrecover (GCN MemCard Recover) is a Qt program that opens an image of a
GameCube memory card, lists the files on it, searches the free blocks for
files that were deleted ("lost files"), rebuilds their block chains and
exports them; it also has editors for the save files of one game.  This
directory holds TLA+ models of its core and of the stateful parts of its
interface, the TLC configurations that check them, and TLAPS proofs of every
safety property the runs check, and that the search implements its abstract
specification.

`PROJECT.json` is the index: the runs and what each one shows, the source
lines every definition stands for, the hazards of the code and the properties
that look at them.  Source paths below are relative to `src/src/`.

To repeat the checks, in this directory:

    tlc -workers 2 -config MCGcnSearchWorker_chains.cfg MCGcnSearchWorker
    tlapm GcnSearchWorkerProofs.tla

and likewise for the other runs, the six other `...Proofs` modules and
`GcnSearchRefinement`.

## 1. The system

### Components

| Component | Source | State | Operations | Talks to |
|---|---|---|---|---|
| Lost-file search | `mcrecover/db/GcnSearchWorker` | databases, preferred region, "search used blocks", the list of files found; in a search: the local use map, the candidate list, the chain in the making | `setDatabases`, `setPreferredRegion`, `setSearchUsedBlocks`, `searchMemCard`, `searchMemCard_threaded` | reads the card; emits `searchStarted/Update/Finished/Error` |
| Search thread | `mcrecover/db/GcnSearchThread` | the databases, the worker, the `QThread` | `loadGcnMcFileDbs`, `searchMemCard`, `searchMemCard_async`, the three slots that stop the thread | moves the worker between threads; queued signals; deletes the thread |
| Status bar | `mcrecover/widgets/StatusBarManager` | scanning flag, counters, message, progress bar, a one-shot timer that hides it | slots for opened, closed, saved, started, update, finished, cancelled, error | the search thread's signals, the taskbar button |
| Main window | `mcrecover/windows/McRecoverWindow` | current card, busy counter, selection | open, drop, close, scan, save, exit; slots on the search | everything |
| GameCube card | `libmemcard/GcnCard`, `libmemcard/Card` | two directory tables, two block tables, the selected and the "active" ones, file list, used-block map, errors | open, pick a table, add and remove lost files, read and write blocks, format | emits begin/end signals for its files |
| File | `libmemcard/File`, `GcnFile` | entry, chain, lost flag, icons | construct from an entry or from a search hit, export, read, write | block I/O of the card |
| Card model | `libmemcard/MemCardModel` | cached file count, pending range, animation helpers by file pointer, timer, pause counter | `setCard`, eight slots, `pauseAnimation`, `resumeAnimation` | views, by the Qt begin/end protocol |
| Panes | `mcrecover/widgets/CardView`, `TableSelect`, `FileView` | pointers to the card or the file, labels, table buttons, a timer | `setCard`, `setFile`, slots | the card |
| Image types | `libmemcard/VmuCard`, `VmuFile`, `GciCard` | root block, FAT, directory | load | as for the GameCube card |
| Checksums | `libgctools/Checksum` | none | pure functions | the files' checksum display |
| Icon animation | `libmemcard/IconAnimHelper` | frame, delay, direction | `setFile`, `tick` | model and file pane |
| File databases | `mcrecover/db/GcnMcFileDb`, `GcnCheckFiles` | definitions by address of the comment | `load`, `checkBlock` | the search |
| Substitution | `mcrecover/VarReplace` | none | `Exec` | the databases |
| Configuration | `mcrecover/config/ConfigStore` | settings, registered slots, a mutex | `set`, `validate`, `notifyAll`, `registerChangeNotification` | window, menus |
| Messages | `mcrecover/widgets/MessageWidget(Stack)` | animation, timeout, visible messages | show, dismiss | window |
| Save editors | `libsaveedit` | edited file, slot, modified flag, flag tables and pages | switch slot, save, reload, page | the File |
| Taskbar button | `mcrecover/TaskbarButtonManager` | D-Bus or COM interface, progress | `setWindow`, `setProgress...` | status bar |
| Flag models | `libsaveedit/models` | page offsets, tabs, flags by row | page, click, load, save | the editors |
| Images, run-time libraries, sekrit, application shell, dialogs, item views | `libgctools`, `mcrecover` | see `PROJECT.json` | conversions, painting, start-up | |

### How they interact

A scan is the long path through the system.  The window loads the databases
and gives card and settings to the search thread; the thread object moves the
worker to a new `QThread`, whose `started` signal enters
`searchMemCard_threaded()`.  The worker reads blocks of the card (through the
card's one `QFile`), asks the databases what each free block might be the
start of, rebuilds a chain per hit, and emits signals.  These are queued: the
main thread's event loop delivers them when it gets to them.  At the end the
worker moves itself back to the main thread; the slot for the end of the search quits,
waits for and deletes the thread, and only then does the window take over the
list of files found.  Meanwhile the window is "busy": its menus and its
central widget are disabled, the window itself is not.

Between scans everything is one thread, but not one step: a call such as
`setActiveDatIdx()` emits some five signals with direct connections, and each
of them runs code of the model, of its views, of the file pane, in the middle
of the card's own method.

### What is hard

* the chain of a lost file is a guess: two loops over a ring of blocks with a
  shared use map, 16-bit counters and a wraparound;
* two threads share the card and the databases by pointer, without a lock;
  disabling widgets is the only protection, and it begins only when a queued
  signal arrives;
* raw pointers to `Card` and `File` live in widgets, in jobs that span nested event
  loops, and as keys of a hash table, while files are deleted and re-created
  and addresses are reused;
* the Qt model/view protocol must be exact at each signal;
* timers (progress bar, animation, message timeout) race with the next event;
* the settings notify each other through slots that run with a non-recursive
  mutex locked;
* a card is loaded block by block, and each block may fail: what stands for it
  must never pass for data;
* what is read from an image is arbitrary: cyclic chains, links off the card,
  tables with bad checksums.

`PROJECT.json` lists 40 such hazards at the lines where they bite, with
the properties that cover them or, where none does, the reason.

### What makes each component correct

* **Search**: each file has exactly as many blocks as its entry says; blocks in the free part of the
  chain are free and taken once; no two files claim the same free block;
  used blocks are taken only when free ones run out; the preferred region is
  honoured; the list is in ascending order; the search ends.
* **Search thread and window**: the worker never touches a deleted card or
  database; two searches never mix; results are listed under the card they were
  found on; the window is disabled exactly during a search and comes back;
  nothing aborts.
* **Status bar**: it shows the scan that runs, is full at its end, and its
  progress bar goes away.
* **Card**: it opens with the best valid tables; its list and its use counts
  are those of the tables selected last.
* **Model and panes**: row counts agree with the card at every signal, there
  is a helper for exactly the animated files, no pane keeps a deleted file.
* **Loading**: a table in use is one the file has, whole and valid; a card
  offered for writing is a whole image; the files of a VMU stay on the card
  however corrupt it is, and only one kind of corrupt VMU ends the program.
* **Messages**: every message goes, for a reason, and only a timeout is reported
  as one; **settings**:
  the menus show what the program uses, and start-up ends; **flags**: what is
  shown, checked and saved is the same flag; **icons**: an animation plays its
  script.
* **Editors and block I/O**: only a save writes, and only to the blocks of the
  file that is saved; what is saved is what the editor shows; switching slots
  loses nothing; a reload shows the file.

## 2. The models

| Module | Models | How |
|---|---|---|
| `GcnSearchWorker` | `searchMemCard()` | one action per loop iteration or branch; `pc` names the loop |
| `LostFileSearch` | what that search promises | one action per candidate block; the chain in closed form |
| `GcnSearchWorkerInv` | | the inductive invariant, in named parts |
| `GcnSearchWorkerProofs` | | theorems and proofs |
| `GcnSearchRefinement` | | proof that the search implements `LostFileSearch` |
| `SearchThread` | `GcnSearchThread` and the worker's side of a search | one program counter per thread, a queue of signals |
| `StatusBar` | `StatusBarManager` | one operator per slot; `updateStatusBar()` is part of each |
| `SearchSession` | the window around them | composes the two by EXTENDS; user, event loop, worker |
| `SearchSessionProps`, `SearchSessionProofs` | | properties; theorems and proofs |
| `GcnCard` | `GcnCard`, `Card`, the chains of `GcnFile` | methods as sequences of steps, signals among them |
| `MemCardModel` | the card model, and its views' side of the protocol | one operator per slot |
| `CardWidgets` | `CardView`, `TableSelect`, `FileView` | one operator per slot |
| `CardBrowser` | the window between two searches | composes the three; one action per event and per signal |
| `CardBrowserProps`, `CardBrowserProofs` | | properties; theorems and proofs |
| `CardIO` | the `QFile` under `Card`, `setReadOnly`, the box "Allow Writing" | a seek and a transfer are two actions |
| `SaveEditor` | `EditorWindow`, `SAEditor`, `File::write`, `loadFileData` | extends `CardIO`; one action per toolbar button, and per seek and transfer |
| `SaveEditorProps`, `SaveEditorProofs` | | properties; theorems and proofs |
| `CardLoad` | opening an image: `Card::open`, the loaders of `GcnCard`, `VmuCard`, `VmuFile`, `GciCard`, the type the window picks | one action per block or table read |
| `CardLoadProofs` | | theorems and proofs |
| `MessageStack`, `MessageStackProofs` | `MessageWidget`, `MessageWidgetStack` | one action per event; the timeline of a widget is its direction |
| `Settings` | `ConfigStore`, the registered settings, `LanguageMenu` | one action per slot notified, choice of a menu, start and end of the process |
| `FlagPages` | `BitFlags`, `ByteFlags`, `PageFilterModel`, `BitFlagsView` | one action per click; conversions as functions |
| `IconAnim` | `IconAnimHelper` | one action per tick or change of file |
| `Interface`, `InterfaceProofs` | these four | a behaviour of any single one; theorems about three of them |
| `MC...` | | instances for TLC |

Operators commented "Seeded fault" are not used by any specification: each is
a plausible bug that a run must find when it takes the place of the definition
next to it, which shows that the property looks at that code.

### The search (`GcnSearchWorker`)

`usedBlockMap`, `blockSearchList`, `currentSearchBlock`, `blocksRemaining`,
`block`, `wasWrapped` and `filesFoundList` are the code's variables; `next`
and `pc` say where its loops are.  What `checkBlock()` returns is data the
search does not look into but for length and region: it is any member of
`HitLists`, at any block.  `SearchRefused` and `SearchNoBlocks` are the early
returns, `ListBlock` fills the candidate list from the last block down,
`NoHit` and `Hit` are the outer loop, `SkipVisit`, `SkipWrap` and `SkipEnd`
the loop that takes free blocks, `NaiveTake` and `NaiveWrap` the loop that
takes any block.  Three history variables (`mapAtHit`, `skipLen`, `claims`)
record what the properties compare with; no guard reads them.

`LostFileSearch` knows no loops.  `FreeOffsets` are the distances at which free
blocks lie behind the start block, around the card; the chain is the start
block and the blocks at the smallest of them (`Kth`), as many as the file needs
and the card has, and then whatever follows the last one, around the card as
often as it takes.  `Marked` is the new map.
`ImplementsSearch` is the refinement.

### The session (`SearchThread`, `StatusBar`, `SearchSession`)

The thread is "none", "starting", "running", "exec" (its event loop), "ended".  `home` is the thread the worker object
belongs to.  A slot that waits for the thread (`slot # "none"`) blocks the
main event loop, and so does an export; a modal dialog does not, but it
disables the window.  `Dangling` is
a use of a deleted object: the model goes on in any way, or `Crash`es.  Two
data abstractions: a search finds nothing or something (which card
it is from is kept), and databases are alive or deleted.

`patient` distinguishes two users, and every behaviour is of one of them.  A
click on Scan starts the thread at once, but the window is disabled only when
`searchStarted` has travelled through the queue, and a drop of a file is never
disabled.  A patient user waits for the first and does not do the second.
`NothingDangles`, `LostFilesAreOwn` and `NoSharedReads` need a patient user;
everything else holds for a hasty one too.

### The card browser (`GcnCard`, `MemCardModel`, `CardWidgets`, `CardBrowser`)

A method that emits signals is a sequence of steps in `todo`: code up to the
next signal, the signal, code after it.  An event can be handled when `todo`
is empty, as in the real, single-threaded event loop, and every state in between is one that
a slot may see.  `heap` holds the `File` objects; an address that was freed may be
used again, so that a pointer kept too long would point to another file.
`rows` and `change` are a view's record of the begin/end protocol.  Images are
constants: two directory tables, two block tables, valid or not: what
`CardLoad` finds out about them is given here.

Not every abstraction is visible: the modal file dialog is left out here (it is in
`SearchSession`), a file's icons are one Boolean (animated), and `QItemSelectionModel`'s choice
of the next current row is any that Qt may make (external).

### Editors and block I/O (`CardIO`, `SaveEditor`)

`disk` is the image, `pos` the position of the one `QFile` that the main
thread and the worker share.  What the main thread does for an editor is a
`task`, block by block: read all blocks into `buf`, then, for a save, put the
slots into the data and write it.  No event is handled meanwhile (`Loop`), but
the worker runs on.  `slot`, `data` and `form` are `currentSaveSlot`, the
slots in memory, and what the one set of forms shows: `Stored` is
`saveCurrentSlot()`.  `alive` tells whether the `File` of an editor still
exists: it does not survive its card or a switch of tables.

The bytes of a slot are one value, a block is five units: a header, up to three
slots, and a checksum, which for the Dreamcast is computed past the end of the
data (`SAEditor.cpp:633`: `src` was moved on) and may be anything.
`SAEditor::save()` is the only caller of `File::write()`, always
with address 0 and all blocks of the file, so the branches for a part of a
block are left out.  Errors of reading and writing a block are ignored by the code and
not produced here; a switch of mode may fail.

`Patient` is FALSE where the user may work in an editor during a scan: an
editor is a window of its own and stays enabled.

### Loading (`CardLoad`)

`phase` is how far the loader is: the head (or root) of the card, the tables
of index 0 and of index 1, the choice; a VMU's directory.  `errors` is the
set of flags `Card` collects, and `chkAllowWrite` what the window makes of
them in a debug build (a release build never enables the box).  Sizes are in units, `BlockUnits` of them a block, so that an image may
end inside a block, and the header of a `.gci` file is one unit.  Checksums
are numbers; what `AddInvDual16()` makes of a table is 1, and a table that
carries another number is corrupt.  The filling of an unreadable table, and
the checksum it must never agree with, are as in the code.

Counts past the end of the block table are any number that memory may make of
them (`Counts`, `overrun`): an image over the maximum is flagged, but its
number of blocks is not cut.  The loader of a VMU returns error codes
that nobody looks at (`VmuFails`).  A VMU whose root gives it no user blocks but
whose directory has entries ends the program (`VmuCrash`, phase "crashed"):
`VmuFilePrivate` drops the entry of such a card (`VmuFile.cpp:162`), and the
constructor reads the file type through the null pointer (`:527`).  What
follows is the user's (`Restart`).  `TypesOf` has the filter for `.gci` files
that opens a VMU, as the code has it.

### The interface (`Interface`)

The four parts have no variable in common and none calls another, so that a
product of them would only multiply states: `part` says whose behaviour this
is, and the others stand still.

* `MessageStack`: a widget unfolds ("forward"), stands ("stopped") and folds up
  ("backward"); `hideAnimated()` turns a running timeline around.  `bound`
  is the connection to `destroyed()` of the card.  The window shows only
  messages without a timeout; the timers are modelled for the interface's
  other callers.  `why` is a history variable.  A window that comes back from being
  minimized shows its widgets again, and `showEvent()` clears their `timeout`
  flag (`RestoreWindow`), so that a timeout may be reported as another dismissal.
* `Settings`: `notifyAll()` is a step per slot, with `locked` held; a nested
  `set()` of another value makes the process hang, which is a `phase` of its
  own.  The file may be edited between two starts, and the process killed.
* `FlagPages`: the rows of the source, the page the proxy shows, the tab, and
  the bytes of the slot; `wanted` follows what the user sees and clicks.
* `IconAnim`: `place` is the position in the script of the animation, a
  history variable; frames without an image are in the table all the same.

## 3. What the runs check

| Run | Instance | Properties | Shows |
|---|---|---|---|
| `search` | 9 blocks (4 of the user), all 81 use maps over {0,1,2}, three hit lists: length 3, length 5 (longer than the card), and a pair of lengths 0 and 2 from two regions | `TypeOK ChainComplete FreeBlocksTakenOnce ClaimsDisjoint NaiveOnlyWhenFull StartsAscending RegionHonoured`, refinement `ImplementsSearch`, liveness `SearchTerminates` | the loops compute exactly the closed-form chains, and end |
| `search_wrap` | the same card | `WrappedBlocksUnmarked` | violated: see findings |
| `session` | 3 card objects, one block to search, both users | `QuietBetweenSearches UiBusyMatchesSearch JobCardAlive BarFollowsScan NothingDangles LostFilesAreOwn NoSharedReads`, liveness `SearchEnds UiComesBack BarGoesAway` | what holds for every user, and that disabling the window suffices for a patient one |
| `card_files` | three images with cyclic and crossing chains and bad checksums, up to two lost files, five addresses | `TypeOK UsedBlocksCounted ListFollowsTables OpenedWithBestTables RowsInStep HelpersMatchFiles NoDanglingFile AnimationFollowsPause` | card, model and panes agree at every signal |
| `card_load` | GameCube cards of 8 to 16 blocks and a VMU of 8, image sizes at and around every limit, an unreadable block at each place, all pairs of good and bad tables, corrupt roots, chains and directories | `SelectedTablesWereRead OfferedCardsAreWhole FilesStayOnCard` | no failure of a read is lost on the way to the table in use or to the box "Allow Writing"; each chain of a VMU follows its FAT over user blocks, and falls short of its size only where the FAT leaves them or there are no more; no count of free blocks exceeds the user blocks of a VMU; an image over the maximum is flagged and not offered for writing |
| `interface` | 3 messages; a build without APNG and one translation; 3 bytes of 2 flags in pages of 4; up to 4 icons | `MenusShowSettings TabsPartitionRows SavesWhatWasChecked IconFollowsScript`, action property `MessagesLeaveForAReason`, liveness `DismissedMessagesGo NotificationEnds` | the four automata |
| `messages_destroy` | as above | action property `ClosesOnDestroy` | violated: see findings |
| `settings_language` | as above | `UnknownLanguageFallsBack` | violated: see findings |
| `editor_files` | five blocks; files of one block, of two blocks with a gap, and a lost one; GameCube (one slot) and Dreamcast (three); two saves | action properties `OnlySavedFileWritten SwitchKeepsEdits OneBlockSaved` | what the editors guarantee, while they are left alone during a scan |
| `editor_write`, `editor_reload`, `editor_race` | the same, one save | `SavedFileIsEdited`; `ReloadShowsFile`; `ListedFilesIntact` | violated: see findings |

Without `patient =>` the three properties of a patient user are violated: the
assumption is needed.

### Why the bounds are enough

* *Search.*  Four user blocks give a start block with free blocks above it, below
  it, both and neither; lengths 0 to 5 give chains that need the wraparound, that
  exhaust the free blocks, and that go round the card more than once.
  `UsedMax = 2` has the three cases of a saturating counter: free, used,
  saturated.  The theorems remove these bounds but for `SearchTerminates`.
* *Session.*  A card that was deleted, the one in use and one more cover each
  relation between `card`, `wCard` and `job.card`.  One block per
  search has all the signals; more only repeat `searchUpdate`.  `MaxFiles = 2`
  tells one file from several.
* *Browser.*  Two directory entries and two lost files give removal of
  a range, of the last row, of all rows, and an insertion at a position other than
  0.  Five addresses make reuse after a deletion possible at once.  The images
  cover both-valid, fallback and none-valid for both kinds of table;
  `FatSize = 10` leaves an entry of the FAT array beyond the card.
* *Editors.*  A file of one block and one of two tell a first block from a later
  one; the gap between the latter tells its chain from a range.  Two values tell
  an edit from what was there, two saves a first from a later one.  A second
  editor would add a lost update between two editors of one file, which the
  source leaves to the user.
* *Loading.*  The real limits (64 and 2048 blocks, 256 for a VMU) are scaled to
  8, 16 and 8; every comparison with them has images below, at and above.  Two
  units to a block give images that end inside one.  `FatSize = 12` is above
  `GcnMax - 5 = 11`, and an image of 18 blocks is beyond it.  The chains of a VMU end,
  cycle, and leave the user blocks; its directory starts where a seek would go
  below block 0, and beyond the card; and one VMU has files but no user block.
  The theorems remove the bounds.
* *Interface.*  Three messages are one of each kind at a time.  The file names an
  installed language, none, and an unknown one.  Six flags in pages of four
  leave a last page that is not full.  Four icons have a bouncing animation with
  inner frames; two delays tell a wait from none.
* No symmetry is used.

### Fairness

`FairSpec` of the search is weak fairness of its one thread: it is a loop
without waiting.  In the session, `WF` of `Continue` and `WorkerStep` says that
the operating system runs both threads.  `SF` of `Deliver` and `HideTimer` says that an
event that is queued, or a timer that is due, is handled although its handling is
disabled again and again by slots that block the loop for a time: Qt's event
loop is first-in first-out.  Nothing is assumed of the user: a dialog may stay
open forever, and the event loop runs inside it.

`MessageFairness` is weak fairness of the timers and timelines of each
message, which Qt's event loop runs as long as it runs at all.
`SettingsFairness` is weak fairness of the steps of `notifyAll()`, a loop on
the main thread that nothing interrupts; that a program hangs is not excluded
by it, and neither is a user who kills it.

### Findings

1. `GcnSearchWorker.cpp:431`: the second loop never sets `wasWrapped`, so the
   blocks it takes after its wraparound are marked used, against the comment
   at 429-430.
2. `MessageWidget.cpp:425`: a message ignores the destruction of its card while
   it unfolds, for half a second, and stays, with nothing left that would close
   it but its button; `MessageWidget.cpp:315` documents that it closes.
3. `File.cpp:547`: every whole block of a file is written with the contents of
   its first block.  Saving a file of more than one block destroys it.
4. `SAEditor.cpp:214`: a reload from another slot than the first keeps the
   discarded edits of that slot, and forgets that they are edits.
5. `Card.cpp:653`: a save during a scan can overwrite another listed file.
6. `ConfigStore.cpp:324`: a configuration file that names a language that is
   not installed hangs the program at start-up: the slot sets the fallback
   while `notifyAll()` holds the mutex.

Disagreements without a run of their own:

* `GcnSearchWorker.cpp:245` empties the list of found files before a search is
  refused, although `GcnSearchThread.cpp:167` calls it the list of the last
  successful search.
* A scan of a full card ends in `searchError`, which shows nothing, although
  `McRecoverWindow.cpp:1532` says that it is indicated as cancelled.
* `FilePrivate::readBlocks()` reads the first blocks of a file whatever first
  block it is given (`File.cpp:137`); `GcnFile.cpp:407` and `:498` rely on it.
* `CardView.cpp:90`: a valid free-block count hides the icon of a corrupted
  header instead of its own, against the comment at `:86`.
* The filter for `.gci` files opens the file as a VMU
  (`McRecoverWindow.cpp:1451`), and the setting for vertical PNGs checks the
  menu action of horizontal ones (`:1807`).
* `GcnCard::setActiveDatIdx()` (`GcnCard.cpp:861`) and `setActiveBatIdx()` load the
  other table but never store its index, so that `activeDatIdx()` keeps the one
  chosen when the card was opened, against the comment at `Card.cpp:500`.
* A VMU with files but without user blocks crashes the program
  (`VmuFile.cpp:162`, `:527`; see *Loading*).
* `VmuCard::open()` never returns the `nullptr` its comment promises on error
  (`VmuCard.cpp:531`).
* `VmuCard::open()` ignores the error code of its loader and flags nothing, so
  that a VMU without a root block is offered for writing; after an unreadable
  directory the block counts stay (`VmuCard.cpp:312`).
* `Card.cpp:136` says "Only read up to maxBlocks.", but the number of blocks
  of a larger image stays as it is, and the counts of free blocks run past
  their tables (`GcnCard.cpp:531`, `VmuCard.cpp:367`), where what they count is
  not defined.  `SelectedTablesWereRead` excepts exactly these images;
  `FilesStayOnCard` shows that they are flagged and not offered for writing.
* `openCard()` has no message for a short read.

Three hazards need an impatient user: a drop during a scan deletes the card under the worker; a
second click on Scan before the window is disabled deletes its databases; a
closed card leaves its editors with deleted files, whose next save or reload uses them
(`UseDeleted`).  For the first two the properties of the patient user document
the condition under which they do not occur.

## 4. What is proved

`GcnSearchWorkerProofs` holds for every number of blocks from 6 to 65535,
every saturation limit, every set of regions, of hit lists and of use maps that satisfies
the assumptions of `GcnSearchWorker`:

* `BlocksAssumption`: the card has at least one user block, and block numbers fit a
  `uint16_t`, the type the code gives them;
* `UsedMaxAssumption`: the counter can hold 1;
* `RegionsAssumption`: no region is 0, the value for "no preference";
* `HitListsAssumption`: a hit list is a non-empty sequence of lengths in 16
  bits and regions; `checkBlock()` returning nothing is the action `NoHit`;
* `CardMapsAssumption`: a use map has an entry per block within the limit.

| Theorem | States |
|---|---|
| `Invariance` | `Spec => []IndInv` |
| `TypeCorrect` | `Spec => []TypeOK`: in particular no counter leaves its width |
| `ChainsAreComplete` | `Spec => []ChainComplete` |
| and the five named in `PROJECT.json` | the other safety invariants of run `search` |
| `GcnSearchRefinement!Refinement` | `Spec => ImplementsSearch` |

**The argument.**  That two files never claim the same block is not inductive:
it depends on the order of the search.  Candidates are listed in descending
order (`ListInv`), so files are found from the highest start block down
(`FilesInv`, which is also why the list is ascending), and a file marks, in
the first loop, only blocks at or above its own start (`ClaimsInv`: after the
wraparound that loop takes blocks without marking them).  Use counts never go
down during a search, so a block some file has claimed is not free when a
later file's loop reaches it.  `HitInv` and `SkipInv` describe the chain in the
making: what the loop has visited (`Visited`) is used or in the chain, hence
no free block is left when the loop gives up, which is `NaiveOnlyWhenFull`.
`RegionInv` lines up the files found with what was offered for them.
`IndInv` is the conjunction of these with the properties, and was checked by TLC before
it was proved.  The proof has one lemma per action.

`GcnSearchRefinement` proves, for the same parameters, that the two loops
build what `LostFileSearch` says in closed form: a step of the code is a step
of `LostFileSearch` or leaves its variables alone.  `SearchRefused` and `SearchCalled` map
to `Refuse`, `SetProperties` to `Configure`, `SearchStarted` to `Start`,
`NoHit` to `Pass`, `PushFront` to `Recover`, `SearchFinished` to `Finish`; the
steps of the loops stutter.  So `PushFront` must find the finished chain, which takes
an invariant of its own, `RefInv`, next to `IndInv`:

* `RebuildInv`: the chain so far is a prefix of the closed form; each use count is
  the count at the hit, plus what the part of the chain built so far adds
  (`ClaimCount`, `ForcedCount`), capped at the limit;
* `FreeInv`, in the loop that takes free blocks: it has taken exactly the free blocks
  at distances below the current one;
* `ForcedInv`, in the loop that takes any block: the next block is the one that follows
  the last one around the card.

`AroundFact` and `AfterFact` do the arithmetic of going around the card, `KthFact`
and `OthersFact` that of the k-th smallest element of a finite set, `ChainFact` and
`MarkedFact` put the two parts of a chain and of a map together.  `RefInv` was checked
by TLC first.

The other proof modules:

| Theorem | States | Assumes |
|---|---|---|
| `SearchSessionProofs`: eight | the types, and the seven safety properties of run `session` (`SearchesDoNotMix`, `BusyIsBalanced`, `ExportsFromOpenCard`, `BarIsOfThisScan`, `WorkerIsSafe`, `LostFilesOfThisCard`, `OneReaderAtATime`) | "no card" is not a card; at least one block to search and one file to find |
| `CardBrowserProofs`: eight | the eight invariants of run `card_files` | images of the declared shape, at least one user block, a finite set of addresses |
| `SaveEditorProofs!NoEditIsLost` | `Spec => SwitchKeepsEdits` | blocks hold numbers, chains are non-empty, a block has room for the slots |
| `SaveEditorProofs!SavesStayInTheirFile` | `Spec => OnlySavedFileWritten` | `Patient`: no editor is used during a scan |
| `SaveEditorProofs!OneBlockIsSaved` | `Spec => OneBlockSaved` | `Patient`, and `OnCard`: the image has the blocks of its files |
| `CardLoadProofs!SelectedTables` | `Spec => []SelectedTablesWereRead` | a legal range of sizes, a block table with an entry for each user block of the largest card, and (`ImagesAssumption`) tables of that size in the image |
| `CardLoadProofs!OfferedCards` | `Spec => []OfferedCardsAreWhole` | the same, and a block size that is a power of two |
| `CardLoadProofs!ChainsOnCard` | `Spec => []FilesStayOnCard` | the same |
| `MessageStackProofs!MessagesSound`, `MessagesLeave` | `MessageSpec => [](MessageTypeOK /\ MessagesConsistent)`, `MessageSpec => MessagesLeaveForAReason` | at least one message |
| `InterfaceProofs!MenusFollowSettings` | `SettingsSpec => []MenusShowSettings` | `SettingsAssumption`, of which the argument needs nothing: it holds for any sets of languages and formats |
| `InterfaceProofs!PagesPartition`, `SavesAreChecked` | `FlagsSpec => []TabsPartitionRows`, `FlagsSpec => []SavesWhatWasChecked` | at least one flag to a byte, to a page, and in all |
| `InterfaceProofs!IconAnimation` | `IconSpec => []IconFollowsScript` | at least two icons, positive delays |
| `InterfaceProofs!InterfaceShows` | these four, for `Interface` | all of the above |

*Session.*  `ThreadInv` is what the two threads owe each other: where the worker is
follows from how far its thread is (`WorkerInThread`), a slot of the window waits only
for a thread whose search is over (`SlotWaits`), and the queue (`Queue`, `EndQueued`) holds the
signals of one search, the start first and the end, once, last.  From the queue follows
`UiBusyMatchesSearch`: what is pending makes up for what the window has not heard.
`WindowInv` adds the cards: the card of an export is the open one as long as its
dialog is up (`JobInDialog`), what was found is of the card that was searched
(`FoundOnCard`), and, for a patient user, that card is still the window's (`Patience`).
`BarInv` relates the status bar to the scan and to its timer.  The hypothesis on the user is
in the properties, not in the theorems: each behaviour has its `patient`.

*Browser.*  A method is interrupted by the slots of each signal, so the invariant has to say
what holds between any two of its steps: `Place` is a disjunction with one predicate for
each place in each method, and says which of the card, the model, and the
panes has already heard of the change.  `HeapInv`, `CardInv`, `ViewInv` and `TimerInv` hold
everywhere.  The use counts are a bijection: the visits of the files of the
selected tables and those of the files listed are paired one to one, each table
entry with the file made of it, and an increment that saturates counts the visits
up to the limit.  The proof showed that `ActiveTable` had been modelled with a
`CASE` whose arms overlapped, which leaves the choice open where the code makes one; it is
an IF now.

*Editors.*  `IInv` says where a task is in its file (`TaskInPlace`: the blocks
transferred so far, and the position after a seek, which for a patient user only
the main thread moves), that a save began on a writable card (`SaveAllowed`), and
what the buffer holds (`Buffered`).  The three theorems are about single
steps, and follow from it.  Without `Patient` the first and the third are false: a slot of
the worker's moves the position between a seek and a write, which is finding `editor_race`.

*Loading.*  That the tables in use are good at the end says nothing about
the phases before.  `TablesInv` therefore says of each index that its tables
are `Fresh` or `Judged`: not looked at, with no checksum computed, or valid
exactly if the file has them.  The heart is `LoadedDat` and `LoadedBat`: the number
stored in the filling (0xAA55 twice) is neither 0, which is what the
computed checksum still is, nor what a read table gives; and a count of zeros in
a table is at most the number of entries looked at (`ZerosBounded`), so that the test of the
count against the user blocks refuses no good table.  `ErrorsInv` says what
is known as long as each error is not flagged, and that later steps only add
errors (`MoreErrors`).  That a size is a whole number of blocks follows from two
sizes being powers of two, of which the smaller divides the larger.  `BlocksInv` says
how many blocks there are whatever is flagged: a root block that was read means
that there is at least one (`RootHasBlocks`), so that the program crashes only
for a root that gives no user blocks.  `StayInv` says that the files listed are
walks along the FAT, each within the user blocks, and `ChainIsGood` that one that ends early
ends before a block that is not the user's.  `TooManyTold` shows that no image
over the maximum goes unflagged.  Facts about recursive functions that
would be proved by induction are proved from the least counterexample instead,
since the smallest element of a set of numbers needs no operator parameter.

*Messages.*  A widget is `Sound` when its timer runs only while it stands,
it folds up exactly if it has a reason, and its flag is set only for a timeout;
one lemma per handler keeps a widget sound, and the card's end
leaves none bound, so that it does not matter which card comes next.

*Settings.*  During `notifyAll()` the property holds of the keys already
visited (`KeyShown`), and the language must still be the system default while
its slot is to come: otherwise a stored language that is not installed could
pass for one that is shown.

*Flags.*  `PagesInv` says that the page shown is the one of the tab, computed for the rows
there are; that the pages cover the rows is then division with remainder, which the
provers do not know and the lemmas on quotients supply.  `FlagsInv` ties the rows, what was
checked and, after a save, the bytes together.

*Icons.*  The next frame depends on the direction, which `IconFollowsScript`
does not mention: `Course` relates direction and place.  `LastFrame` shows
that the test for the end of the table, a frame of delay 0 or the eighth one, is right for
every file.

**Model-checked only.**  The liveness properties `SearchTerminates`,
`SearchEnds`, `UiComesBack`, `BarGoesAway`, `DismissedMessagesGo` and
`NotificationEnds`: liveness under fairness is beyond the prover.  Every other
property of a passing run is stated by a theorem.  What runs are expected to violate is
false, and the counterexample is all there is to show.

## 5. Plan

In order; each step leaves the project complete in itself.

1. Theorems: what still holds of the editors during a scan, when their user is not
   patient; the messages and the settings as abstract specifications of their own.
2. `Checksums`, `VarReplace`: pure algorithms over bounded inputs, against
   reference definitions.
3. `TaskbarButton`, `DynLib`: as further parts of `Interface`.

Bounds of the planned runs: strings of up to five symbols of an
alphabet of five, data of up to four bytes.

## 6. Not modelled, and why

* Image conversion, painting, translations, start-up, timestamps, text
  encodings and the vendored libraries: no state that a property would be about,
  or third-party code.
* XML parsing and the regular expressions of the databases: what they match is
  a parameter of the search, so the results hold whatever they match.
* Formatting a new card: the window ignores the dialog's result (a TODO in the source).
* The cancellation of a search: `searchCancelled` is connected, but nothing in
  the code emits it.
* Reads of a changed image: nothing re-reads the tables of an open card.
* Failing writes, `exportToFile`, and the branches of `File::write()` for a
  part of a block, which have no caller.
* The conversions of the editor forms.
* The unregistered settings, the legacy keys and the search for the directory
  of the configuration file.
* The file headers, icons and descriptions of a VMU; formatting one is a stub
  in the source.

*Coverage.*  Of the roughly 107,000 lines of implementation in the
repository, some 76,000 are the vendored copies of libpng, zlib and giflib
under `src/extlib`, and are not this program.  Of its own 30,600 lines the
larger part is user interface that keeps no state (generated forms, painting,
dialogs, translations, the About text), pixel conversions, headers and license
texts.  The map covers about 5,200 lines: those of the components listed above
as modelled or partly modelled.  A share of 30 % of the repository could only
be reached by modelling its libraries.
