-------------------------- MODULE TileCacheWorker --------------------------
(***************************************************************************)
(* QGCCacheWorker, the thread that owns the tile database, and QGCMapEngine,*)
(* the object of the application thread that feeds it.  Two processes: the *)
(* application thread (mainPc), which enqueues tasks and handles the       *)
(* worker's queued signals, and the worker thread (workerPc), which is     *)
(* started by the first task, serves the queue, ends after five idle       *)
(* seconds and is started again by a later task.  What the tasks do to the *)
(* tables is the business of module TileDatabase; here a task is only what *)
(* it does to the connection, to _valid and to the size of the cache.      *)
(***************************************************************************)
EXTENDS Naturals, Sequences, Functions

CONSTANTS Task,         \* the task objects alive at the same time
          NoTask,       \* not a task
          KindOf,       \* the kind of each task
          MaxEvents     \* bound on the signals queued for the application thread

\* taskInit, taskCacheTile, taskPruneCache, taskReset, taskImport with
\* replace(), and every task whose handler starts with _testTask
TaskKind == {"init", "save", "prune", "reset", "replace", "other"}

ASSUME TaskAssumption == NoTask \notin Task
ASSUME KindAssumption == KindOf \in [Task -> TaskKind]
ASSUME BoundAssumption == MaxEvents \in Nat \ {0}

VARIABLES
    queue,      \* _taskQueue
    freed,      \* the tasks deleted by stop() and still in _taskQueue
    current,    \* the task the worker is running
    pending,    \* the task enqueueTask is about to append
    mainPc,     \* where the application thread is
    workerPc,   \* where run() is; "off" is "not isRunning()"
    valid,      \* _valid
    failed,     \* _failed
    db,         \* _db: null, a connection that failed to open, an open one
    over,       \* the default set holds more than the disk cache limit
    prunning,   \* QGCMapEngine::m_prunning
    events,     \* signals of the worker queued for the application thread
    prunes,     \* prunes completed, modulo 2: tells stale totals from fresh
    lostPrune,  \* a prune task ended without its pruned() signal
    touched     \* run() has used a deleted task

dbVars == <<valid, failed, db>>
engineVars == <<prunning, lostPrune>>
vars == <<queue, freed, current, pending, mainPc, workerPc, dbVars, over,
          engineVars, events, prunes, touched>>

Queued == Range(queue)
Busy == Queued \cup {current, pending}

\* run() holds _taskQueueMutex at its loop head and when the wait returns
MutexHeld == workerPc \in {"head", "woken"}

\* The places of run() after the connection is set up and before it is closed
Serving == {"head", "run", "post", "totals", "wait", "woken"}

Event == [kind : {"totals", "pruned"}, over : BOOLEAN, gen : {0, 1}]

Totals(o) == [kind |-> "totals", over |-> o, gen |-> prunes]
Pruned    == [kind |-> "pruned", over |-> FALSE, gen |-> prunes]

\* A signal to the application thread is queued.  Once the engine is being
\* destroyed nobody handles it any more.
PostOvertaking(e) == <<e>> \o events        \* mutant: delivered before the others
Posted(e) == Append(events, e)

Emit(e) ==
    IF mainPc = "gone"
    THEN UNCHANGED events
    ELSE /\ Len(events) < MaxEvents
         /\ events' = Posted(e)

Init ==
    /\ queue = <<>> /\ freed = {} /\ current = NoTask /\ pending = NoTask
    /\ mainPc = "start" /\ workerPc = "off"
    /\ valid = FALSE /\ failed = FALSE /\ db = "null"
    /\ over \in BOOLEAN
    /\ prunning = FALSE /\ lostPrune = FALSE
    /\ events = <<>> /\ prunes = 0 /\ touched = FALSE

-----------------------------------------------------------------------------
(* The application thread *)

AcceptsAny == TRUE                          \* mutant: the check of _valid dropped
Accepts == valid

\* enqueueTask up to the append: the task is refused when the database is not
\* valid (the refusal changes nothing here), _valid being read without the mutex
Request(t) ==
    /\ mainPc = "idle"
    /\ Accepts
    /\ t \in Task \ Busy
    /\ KindOf[t] \notin {"init", "prune"}
    /\ pending' = t
    /\ mainPc' = "push"
    /\ UNCHANGED <<queue, freed, current, workerPc, dbVars, over, engineVars,
                   events, prunes, touched>>

\* QGCMapEngine::init, once per process: the only taskInit there is
InitEngine ==
    /\ mainPc = "start"
    /\ \E t \in Task : KindOf[t] = "init" /\ pending' = t
    /\ mainPc' = "push"
    /\ UNCHANGED <<queue, freed, current, workerPc, dbVars, over, engineVars,
                   events, prunes, touched>>

Prepended == <<pending>> \o queue           \* mutant: the task goes to the front
Enqueued == Append(queue, pending)

\* enqueueTask, under the mutex
Push ==
    /\ mainPc = "push"
    /\ ~MutexHeld
    /\ queue' = Enqueued
    /\ pending' = NoTask
    /\ mainPc' = "kick"
    /\ UNCHANGED <<freed, current, workerPc, dbVars, over, engineVars, events,
                   prunes, touched>>

StartOnce ==                                \* mutant: a finished thread is not started again
    IF workerPc = "off" /\ ~valid THEN "boot" ELSE workerPc
WakeOrStart == IF workerPc = "off" THEN "boot" ELSE workerPc

\* enqueueTask, after the mutex: wakeAll if the thread runs (the wait returns
\* by itself in any case), start() otherwise
Kick ==
    /\ mainPc = "kick"
    /\ workerPc' = WakeOrStart
    /\ mainPc' = "idle"
    /\ UNCHANGED <<queue, freed, current, pending, dbVars, over, engineVars,
                   events, prunes, touched>>

WantsPrune == ~prunning /\ Head(events).over

\* QGCMapEngine::_updateTotals: asks for a prune unless one is outstanding.
\* A prune refused by enqueueTask never signals pruned().
HandleTotals ==
    /\ mainPc = "idle"
    /\ events # <<>> /\ Head(events).kind = "totals"
    /\ events' = Tail(events)
    /\ IF ~WantsPrune
       THEN UNCHANGED <<engineVars, pending, mainPc>>
       ELSE /\ prunning' = TRUE
            /\ IF Accepts
               THEN /\ \E t \in Task \ Busy : KindOf[t] = "prune" /\ pending' = t
                    /\ mainPc' = "push"
                    /\ UNCHANGED lostPrune
               ELSE /\ lostPrune' = TRUE
                    /\ UNCHANGED <<pending, mainPc>>
    /\ UNCHANGED <<queue, freed, current, workerPc, dbVars, over, prunes, touched>>

StillPrunning == prunning                   \* mutant: m_prunning is not reset
AfterPruned == FALSE

\* QGCMapEngine::_pruned
HandlePruned ==
    /\ mainPc = "idle"
    /\ events # <<>> /\ Head(events).kind = "pruned"
    /\ events' = Tail(events)
    /\ prunning' = AfterPruned
    /\ UNCHANGED <<queue, freed, current, pending, mainPc, workerPc, dbVars,
                   over, lostPrune, prunes, touched>>

\* ~QGCMapEngine: stop() deletes the queued tasks and leaves them in the queue;
\* wait() then blocks the application thread until run() returns
Stop ==
    /\ mainPc = "idle"
    /\ ~MutexHeld
    /\ freed' = Queued
    /\ mainPc' = "gone"
    /\ events' = <<>>
    /\ UNCHANGED <<queue, current, pending, workerPc, dbVars, over, engineVars,
                   prunes, touched>>

App == InitEngine \/ Push \/ Kick \/ HandleTotals \/ HandlePruned \/ Stop
       \/ \E t \in Task : Request(t)

-----------------------------------------------------------------------------
(* The worker thread *)

\* _init: opens, creates the tables and closes again; ok is the outcome
InitDB(ok) ==
    /\ valid' = ok
    /\ failed' = ~ok
    /\ db' = "null"

\* _connectDB
ConnectDB(ok) ==
    /\ valid' = ok
    /\ db' = IF ok THEN "open" ELSE "closed"
    /\ UNCHANGED failed

\* The start of run(): _init unless done or failed before
Boot ==
    /\ workerPc = "boot"
    /\ IF ~valid /\ ~failed
       THEN \E ok \in BOOLEAN :
              /\ InitDB(ok)
              /\ workerPc' = IF ok THEN "connect" ELSE "finish"
       ELSE UNCHANGED dbVars /\ workerPc' = "connect"
    /\ UNCHANGED <<queue, freed, current, pending, mainPc, over, engineVars,
                   events, prunes, touched>>

Connect ==
    /\ workerPc = "connect"
    /\ IF valid THEN \E ok \in BOOLEAN : ConnectDB(ok) ELSE UNCHANGED dbVars
    /\ workerPc' = "head"
    /\ UNCHANGED <<queue, freed, current, pending, mainPc, over, engineVars,
                   events, prunes, touched>>

\* The loop head with a task in the queue.  A task deleted by stop() may crash
\* the thread, or its memory is still intact and it is run all the same.
Dequeue ==
    /\ workerPc = "head"
    /\ queue # <<>>
    /\ current' = Head(queue)
    /\ queue' = Tail(queue)
    /\ freed' = freed \ {Head(queue)}
    /\ touched' = (touched \/ Head(queue) \in freed)
    /\ \/ workerPc' = "run"
       \/ Head(queue) \in freed /\ workerPc' = "crashed"
    /\ UNCHANGED <<pending, mainPc, dbVars, over, engineVars, events, prunes>>

\* The loop head with an empty queue: wait() for five seconds
Idle ==
    /\ workerPc = "head"
    /\ queue = <<>>
    /\ workerPc' = "wait"
    /\ UNCHANGED <<queue, freed, current, pending, mainPc, dbVars, over,
                   engineVars, events, prunes, touched>>

\* wait() returns, because of a wakeAll or after five seconds
WaitReturns ==
    /\ workerPc = "wait"
    /\ workerPc' = "woken"
    /\ UNCHANGED <<queue, freed, current, pending, mainPc, dbVars, over,
                   engineVars, events, prunes, touched>>

NeverBreaks == "head"                       \* mutant: the loop has no break
LoopOrBreak == IF queue = <<>> THEN "exit" ELSE "head"

\* The queue decides whether the loop goes on
Woken ==
    /\ workerPc = "woken"
    /\ workerPc' = LoopOrBreak
    /\ UNCHANGED <<queue, freed, current, pending, mainPc, dbVars, over,
                   engineVars, events, prunes, touched>>

\* _disconnectDB, after the mutex was released
Disconnect ==
    /\ workerPc = "exit"
    /\ db' = "null"
    /\ workerPc' = "finish"
    /\ UNCHANGED <<queue, freed, current, pending, mainPc, valid, failed, over,
                   engineVars, events, prunes, touched>>

\* run() has returned and QThread clears its running state
ThreadFinished ==
    /\ workerPc = "finish"
    /\ workerPc' = "off"
    /\ UNCHANGED <<queue, freed, current, pending, mainPc, dbVars, over,
                   engineVars, events, prunes, touched>>

\* _runTask on a task of the given kind
Runs(kind) == workerPc = "run" /\ KindOf[current] = kind

RunInit ==
    /\ Runs("init")
    /\ workerPc' = "post"
    /\ UNCHANGED <<dbVars, over, lostPrune, events, prunes>>

\* _saveTile: without a valid database it logs _db->lastError(), through a null
\* pointer when there is no connection object
RunSave ==
    /\ Runs("save")
    /\ IF valid
       THEN over' \in {over, TRUE} /\ workerPc' = "post"
       ELSE /\ workerPc' = IF db = "null" THEN "crashed" ELSE "post"
            /\ UNCHANGED over
    /\ UNCHANGED <<dbVars, lostPrune, events, prunes>>

\* _pruneCache: at most 128 tiles, so the cache may still be too large; an
\* invalid database or a failing query returns without pruned()
RunPrune ==
    /\ Runs("prune")
    /\ workerPc' = "post"
    /\ \/ /\ valid
          /\ over' \in {over, FALSE}
          /\ prunes' = 1 - prunes
          /\ Emit(Pruned)
          /\ UNCHANGED lostPrune
       \/ /\ lostPrune' = TRUE
          /\ UNCHANGED <<over, prunes, events>>
    /\ UNCHANGED dbVars

\* _resetCacheDatabase: drops and creates the tables on the open connection
RunReset ==
    /\ Runs("reset")
    /\ workerPc' = "post"
    /\ IF valid
       THEN over' = FALSE /\ valid' \in BOOLEAN
       ELSE UNCHANGED <<over, valid>>
    /\ UNCHANGED <<failed, db, lostPrune, events, prunes>>

LeftClosed(ok) == valid' = TRUE /\ db' = "null"     \* mutant: no _connectDB after _init
Reconnect(ok) == valid' = ok /\ db' = IF ok THEN "open" ELSE "closed"

\* _importSets replacing the file: closes, copies, _init, opens again
RunReplace ==
    /\ Runs("replace")
    /\ workerPc' = "post"
    /\ \/ ~valid /\ UNCHANGED <<dbVars, over>>
       \/ valid /\ InitDB(FALSE) /\ over' \in BOOLEAN
       \/ /\ valid
          /\ over' \in BOOLEAN
          /\ failed' = FALSE
          /\ \E ok \in BOOLEAN : Reconnect(ok)
    /\ UNCHANGED <<lostPrune, events, prunes>>

\* Every other handler: _testTask first; those that delete or list the tile
\* sets call _updateTotals themselves
RunOther ==
    /\ Runs("other")
    /\ workerPc' = "post"
    /\ IF valid
       THEN \/ UNCHANGED <<over, events>>
            \/ \E o \in BOOLEAN : over' = o /\ Emit(Totals(o))
       ELSE UNCHANGED <<over, events>>
    /\ UNCHANGED <<dbVars, lostPrune, prunes>>

Run ==
    /\ RunInit \/ RunSave \/ RunPrune \/ RunReset \/ RunReplace \/ RunOther
    /\ UNCHANGED <<queue, freed, current, pending, mainPc, prunning, touched>>

HoldsOn == current                          \* mutant: the task is run and kept
Released == NoTask

\* After _runTask, under the mutex: deleteLater, then the totals when the queue
\* is empty or the update timer has expired (any time)
Post ==
    /\ workerPc = "post"
    /\ current' = Released
    /\ IF valid
       THEN workerPc' \in {"totals"} \cup (IF queue = <<>> THEN {} ELSE {"head"})
       ELSE workerPc' = "head"
    /\ UNCHANGED <<queue, freed, pending, mainPc, dbVars, over, engineVars,
                   events, prunes, touched>>

\* _updateTotals, with the mutex released
UpdateTotals ==
    /\ workerPc = "totals"
    /\ workerPc' = "head"
    /\ Emit(Totals(over))
    /\ UNCHANGED <<queue, freed, current, pending, mainPc, dbVars, over,
                   engineVars, prunes, touched>>

Worker == Boot \/ Connect \/ Dequeue \/ Idle \/ WaitReturns \/ Woken
          \/ Disconnect \/ ThreadFinished \/ Run \/ Post \/ UpdateTotals

\* The process has crashed, or has ended in good order
Terminated ==
    /\ \/ workerPc = "crashed"
       \/ mainPc = "gone" /\ workerPc = "off"
    /\ UNCHANGED vars

\* A crash of the worker ends the process
Next == \/ workerPc # "crashed" /\ App
        \/ workerPc # "crashed" /\ Worker
        \/ Terminated

\* The two threads are scheduled.  The application thread handles the signals
\* queued for it even if tasks are requested all the time, since its event loop
\* takes events in the order they were posted: strong fairness.  Nothing obliges
\* anybody to request a task or to end the application.
Fairness ==
    /\ WF_vars(workerPc # "crashed" /\ Worker)
    /\ WF_vars(workerPc # "crashed" /\ (Push \/ Kick))
    /\ SF_vars(workerPc # "crashed" /\ (HandleTotals \/ HandlePruned))

Spec == Init /\ [][Next]_vars /\ Fairness

-----------------------------------------------------------------------------
(* Properties *)

\* A task is in one place only: about to be appended, once in the queue, or run;
\* and it is held exactly where run() and enqueueTask hold it.
OnePlace ==
    /\ queue \in Seq(Task)
    /\ IsInjective(queue)
    /\ freed \subseteq Queued
    /\ current \in (Task \ Queued) \cup {NoTask}
    /\ current # NoTask <=> workerPc \in {"run", "post", "crashed"}
    /\ pending \in (Task \ (Queued \cup {current})) \cup {NoTask}
    /\ pending # NoTask <=> mainPc = "push"
    /\ mainPc = "start" => queue = <<>> /\ workerPc = "off"

\* The type invariant: every variable has its type, every task its one place.
TypeOK ==
    /\ OnePlace
    /\ mainPc \in {"start", "idle", "push", "kick", "gone"}
    /\ workerPc \in Serving \cup {"off", "boot", "connect", "exit", "finish", "crashed"}
    /\ valid \in BOOLEAN /\ failed \in BOOLEAN
    /\ db \in {"null", "closed", "open"}
    /\ over \in BOOLEAN
    /\ prunning \in BOOLEAN /\ lostPrune \in BOOLEAN
    /\ events \in Seq(Event)
    /\ prunes \in {0, 1}
    /\ touched \in BOOLEAN

\* While the worker serves tasks and _valid is set, the connection is open:
\* whatever a task did before (replacing the file, resetting the tables), a
\* handler that passed _testTask has a database to talk to.
OpenWhileServing == workerPc \in Serving /\ valid => db = "open"

\* The worker dies only of a task deleted by stop(), or after an initialisation
\* failed: then the connection object is gone, and a tile that was waiting to be
\* saved is logged through it (_saveTile).  A failing _connectDB or a failing
\* reset never leads there.
CrashNeedsFailedInit == workerPc = "crashed" => failed \/ touched

\* The prune tasks not yet run, and the pruned() signals not yet handled
PrunesDue == {t \in Queued \cup {pending} : t # NoTask /\ KindOf[t] = "prune"}
             \cup (IF Runs("prune") THEN {current} ELSE {})
PrunedSignals == {i \in DOMAIN events : events[i].kind = "pruned"}

\* m_prunning is exact: it is set while one prune task, or the signal that ends
\* it, is on its way between the two threads, there is never a second one, and
\* only a prune that ended without its signal leaves the flag set for nothing.
PruneGuard ==
    mainPc # "gone" =>
      /\ \A p, q \in PrunesDue : p = q
      /\ \A i, j \in PrunedSignals : i = j
      /\ PrunesDue = {} \/ PrunedSignals = {}
      /\ PrunesDue # {} \/ PrunedSignals # {} => prunning
      /\ prunning => PrunesDue # {} \/ PrunedSignals # {} \/ lostPrune

\* Totals measured before a prune are never taken for the size after it: when
\* m_prunning is clear, every totals signal still on its way to the engine was
\* measured after the last prune, so the amount to prune is never counted twice.
FreshTotals ==
    ~prunning => \A i \in DOMAIN events : events[i].kind = "totals" => events[i].gen = prunes

PruneExact == PruneGuard /\ FreshTotals

\* A worker that has ended without a valid database is lost for good: the test
\* of _valid in enqueueTask refuses the very task that would start run(), whose
\* first lines would open the database again.
Outage == ~valid /\ workerPc = "off" /\ mainPc \in {"idle", "gone"}
OutageIsFinal == [][Outage => Outage']_vars

\* The worker implements the promised service: in order, one at a time, once.
Service == INSTANCE TaskService WITH waiting <- queue, serving <- {current} \ {NoTask}
ServesTasks == Service!Spec

\* A task in the queue when enqueueTask comes to its test of isRunning() is run,
\* unless run() has by then left its loop and the thread is not yet seen as
\* finished: in that window wakeAll wakes nobody and the task is left until a
\* later task starts the thread again.
AcceptedIsRun ==
    \A t \in Task :
        t \in Queued /\ mainPc = "kick" /\ valid /\ workerPc \notin {"exit", "finish"}
        ~> current = t \/ workerPc = "crashed"

\* The destructor of the engine returns: stop() and wait() end in a finished
\* thread, whatever run() was doing and whatever is in the queue.
ShutdownCompletes == mainPc = "gone" ~> workerPc \in {"off", "crashed"}

\* A cache measured too large again and again is pruned again and again, as long
\* as no prune has ended without its signal.
PruneKeepsUp ==
    []<><<UpdateTotals /\ over>>_vars => []<><<RunPrune>>_vars \/ <>lostPrune
=============================================================================
