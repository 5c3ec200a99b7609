---------------------------- MODULE SearchThread ----------------------------
(***************************************************************************)
(* GcnSearchThread and the thread side of GcnSearchWorker: a worker object *)
(* that is moved to a fresh QThread for each search and moves itself back. *)
(* Its signals reach the main thread as queued events.  What the search    *)
(* does with a block is the subject of GcnSearchWorker.                    *)
(***************************************************************************)
EXTENDS Naturals, Sequences

CONSTANTS Cards, NoCard,
          MaxBlocks     \* bound on the number of blocks one search visits

ASSUME CardsAssumption == NoCard \notin Cards
ASSUME MaxBlocksAssumption == MaxBlocks \in Nat \ {0}

VARIABLES
    thread,         \* the QThread: "none" (null pointer), "starting",
                    \* "running" (in the slot), "exec" (event loop), "ended"
    quit,           \* QThread::quit() was called
    home,           \* the worker's thread affinity: "main" or "worker"
    wpc,            \* inside searchMemCard(): "idle", "begin", "scan", "move"
    wCard,          \* the Card pointer given to the worker
    wAll,           \* searchUsedBlocks
    wDbsAlive,      \* the database pointers given to the worker are valid
    blocks, pos,    \* blocks to search, blocks searched
    filesFound,     \* the worker's filesFoundList: its card, its size
    events          \* queued signals on their way to the main thread

threadVars == <<thread, quit, home, wpc, wCard, wAll, wDbsAlive, blocks, pos,
                filesFound, events>>

NothingFound == [card |-> NoCard, n |-> 0]

Event(type, n) == [type |-> type, n |-> n]

Emit(type, n) == events' = Append(events, Event(type, n))

ThreadInit ==
    /\ thread = "none" /\ quit = FALSE /\ home = "main" /\ wpc = "idle"
    /\ wCard = NoCard /\ wAll = FALSE /\ wDbsAlive = FALSE
    /\ blocks = 0 /\ pos = 0
    /\ filesFound = NothingFound
    /\ events = << >>

-----------------------------------------------------------------------------
\* Main thread: searchMemCard_async() with databases loaded.
SearchAsync(card, all) ==
    /\ thread = "none"
    /\ thread' = "starting"
    /\ home' = "worker"
    /\ wpc' = "begin"
    /\ wCard' = card /\ wAll' = all /\ wDbsAlive' = TRUE
    /\ UNCHANGED <<quit, blocks, pos, filesFound, events>>

\* Main thread: loadGcnMcFileDbs() deletes the databases, used or not.
DeleteDbs ==
    /\ wDbsAlive' = FALSE
    /\ UNCHANGED <<thread, quit, home, wpc, wCard, wAll, blocks, pos,
                   filesFound, events>>

\* Seeded fault: wait() without quit().
WaitOnly ==
    UNCHANGED <<quit, thread, home, wpc, wCard, wAll, wDbsAlive, blocks, pos,
                filesFound>>

\* Main thread: quit(), then wait() until the thread has ended.
AskThreadToStop ==
    /\ quit' = TRUE
    /\ UNCHANGED <<thread, home, wpc, wCard, wAll, wDbsAlive, blocks, pos,
                   filesFound>>

\* Seeded fault: the thread object is deleted without waiting for the thread.
DeleteWithoutWait ==
    /\ thread' = "none"
    /\ quit' = FALSE
    /\ UNCHANGED <<home, wpc, wCard, wAll, wDbsAlive, blocks, pos, filesFound,
                   events>>

DeleteThread ==
    /\ thread = "ended"
    /\ thread' = "none"
    /\ quit' = FALSE
    /\ UNCHANGED <<home, wpc, wCard, wAll, wDbsAlive, blocks, pos, filesFound,
                   events>>

-----------------------------------------------------------------------------
\* Worker thread: started() runs searchMemCard_threaded().
WorkerBegin(n) ==
    /\ thread = "starting"
    /\ thread' = "running"
    /\ filesFound' = NothingFound
    /\ blocks' = n /\ pos' = 0
    /\ IF n = 0
       THEN Emit("error", 0) /\ wpc' = "move"
       ELSE Emit("started", n) /\ wpc' = "scan"
    /\ UNCHANGED <<quit, home, wCard, wAll, wDbsAlive>>

\* searchUpdate, then the block is read and looked up.
WorkerBlock ==
    /\ wpc = "scan" /\ pos < blocks
    /\ Emit("update", pos)
    /\ pos' = pos + 1
    /\ filesFound' \in {filesFound, [card |-> wCard, n |-> 1]}
    /\ UNCHANGED <<thread, quit, home, wpc, wCard, wAll, wDbsAlive, blocks>>

WorkerEnd ==
    /\ wpc = "scan" /\ pos = blocks
    /\ wpc' = "move"
    /\ events' = events \o <<Event("update", blocks - 1),
                             Event("finished", filesFound.n)>>
    /\ UNCHANGED <<thread, quit, home, wCard, wAll, wDbsAlive, blocks, pos,
                   filesFound>>

\* moveToThread(origThread); the slot returns and the event loop begins.
WorkerMove ==
    /\ wpc = "move"
    /\ wpc' = "idle"
    /\ home' = "main"
    /\ thread' = "exec"
    /\ UNCHANGED <<quit, wCard, wAll, wDbsAlive, blocks, pos, filesFound,
                   events>>

ThreadEnd ==
    /\ thread = "exec" /\ quit
    /\ thread' = "ended"
    /\ UNCHANGED <<quit, home, wpc, wCard, wAll, wDbsAlive, blocks, pos,
                   filesFound, events>>
=============================================================================
