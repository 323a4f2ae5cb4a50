# VKGroundControl: a verification project

VKGroundControl is a ground control station for drones, a fork of QGroundControl
written in C++ with Qt and a QML user interface. This directory holds TLA+ models
of its parts, the TLC configurations that check them on small instances and
proofs checked by TLAPS. It stands beside the code: every definition that models
code is listed in `PROJECT.json` ("map") with the source lines it stands for.
Source paths below are relative to the repository's `src/`.

    tlc -workers 2 -config WorkerLife.cfg MCTileCacheWorker     one run
    tlapm TileCacheWorkerProofs.tla                             its proofs

Contents: [1 The system](#1-the-system), [2 The modules](#2-the-modules),
[3 The runs](#3-the-runs), [4 Fairness](#4-fairness), [5 The proofs](#5-the-proofs),
[6 What the models show about the code](#6-what-the-models-show-about-the-code),
[7 Not modelled](#7-not-modelled), [8 Plan](#8-plan).

## 1 The system

The repository has no tests. What the code promises is said by its comments,
by the names of things and by how the parts use each other.

The program is a set of long-lived objects on Qt's main thread, which talk to each
other by signals, and a handful of worker threads behind them. Signals within a
thread are direct calls: the receiver's code runs in the middle of the sender's.
Signals between threads are queued in the receiver's event loop, in order.

### Offline maps (`QtLocationPlugin`)

| Part | State | Operations | Talks to |
|---|---|---|---|
| **Map engine** `QGCMapEngine` | `m_prunning` | `init`, `addTask`, `_updateTotals`, `_pruned`, destructor | owns the worker; gets `updateTotals` and `pruned` as queued signals |
| **Tile cache worker** `QGCCacheWorker` | the task queue and its mutex and wait condition, `_valid`, `_failed`, `_db`, `_defaultSet` | `enqueueTask`, `stop` (any thread), `run` and one handler per kind of task (worker thread) | tasks come from everywhere; results go back as signals of the task objects |
| **Tile database** (SQLite) | `Tiles`, `TileSets`, `SetTiles`, `TilesDownload` | the SQL statements of the handlers | written only by the worker |
| **Tile set** `QGCCachedTileSet` | tiles to download, replies in flight, `_noMoreTiles`, `_batchRequested`, `_cancelPending`, `_downloading`, counters | `createDownloadTask`, `resumeDownloadTask`, `cancelDownloadTask`, `_tileListFetched`, `_prepareDownload`, `_networkReplyFinished`, `_networkReplyError`, `_doneWithDownload` | tasks to the worker, lists back; network requests |
| **Manager** `QGCMapEngineManager` | the list of sets shown, import and export progress | load, create, delete, rename, select, import, export | tasks to the worker; used by QML |
| **Tile fetching** `QGeoTiledMapReplyQGC`, `QGeoTileFetcherQGC`, `QGeoFileTileCacheQGC` | one request | cache first, then network | QtLocation, worker |
| **Providers** | — | URLs, projection of coordinates to tiles, hashes | pure |

What is hard here: two threads with an idle timeout that ends and restarts one of
them; `_valid` read without the mutex; a protocol of queued signals around
`m_prunning`; handlers that are several SQL statements without a transaction, in
a process that may be killed (and on Android is killed); row ids that are given out
again; downloads whose answers come in any order against cancel and resume.

What makes it correct: tasks are served once and in order; a task that was accepted
is run; a handler that passed the test of `_valid` has a database; at most one prune
is under way and none is computed from stale totals; a tile set has all its tiles or
knows what is still to be downloaded, whatever else was pruned, deleted, reset or
interrupted; no tile of another set is deleted; a download neither loses a tile nor
asks for it twice, and ends.

### Terrain heights (`Terrain`)

| Part | State | Operations | Talks to |
|---|---|---|---|
| **Batch manager** `TerrainAtCoordinateBatchManager` | waiting and sent requests, `_state`, a timer | `addQuery`, `_sendNextBatch`, `_coordinateHeights`, `_batchFailed`, `_queryObjectDestroyed` | query objects of owners; the tile manager |
| **Path queries** `TerrainPathQuery`, `TerrainPolyPathQuery` | path, current segment, heights so far | `requestData`, `_terrainDataReceived` | the tile manager; owners |
| **Tile manager** `TerrainTileManager` | known tiles, one download, queue of requests | `addCoordinateQuery`, `addPathQuery`, `_terrainDone`, `_tileFailed` | tile fetching; queries |
| **Elevation tiles** | parsed bytes | parse, interpolate | pure |

What is hard: all of it runs on one thread, but an answer is a direct signal, so an
owner may ask again, or delete queries, in the middle of a loop over the very queue
its question is put in. What makes it correct: each query is answered, once, with
the heights of its own coordinates; nothing that was deleted is signalled; a queue
that is not empty has something that will serve it.

### Gimbal (`Gimbal`)

`GimbalController` lives in a worker thread and is called by the main thread: the setting of
the type, the commands of the user and the constructor's first connection run there. It
holds `m_linkClient` (TCP, UDP or serial), `m_protocol`, `m_currentType` and `m_connected`, without a
lock. A link client is deleted by a deferred event; a TCP client connects, fails, and on its
deletion closes its socket, which is a failure too.

What is hard: a test and a use of the same member on one thread with a change by the other
between them; the end of an old link arriving when the new one is in use; a signal that is
emitted before it is connected. Correct: the link and protocol in use are those of the type set
last, a gimbal gets bytes of its own protocol only, no client is leaked or deleted in use.

### Video (`VideoManager`)

`VideoManager` (main thread) starts, stops and restarts a `GstVideoReceiver` by its flags;
the receiver works through a queue of tasks on its own thread, GStreamer links the source
and reports ends and errors from threads of its own, and what the receiver reports is queued for
the main thread. State: the URI, `started`, streaming, decoding, recording, and the pipeline with
its branches.

What is hard: settings that change in the middle of an asynchronous start; a URI written by one
thread and read by the other; a flag each of two threads sets before it reads the other's; a
start that fails half way; a stop that waits for the end of a recording. Correct: the flags say what
the pipeline does, a changed source is in the end the one shown, video comes back after
errors, a recording is finished before it is let go, the worker ends.

### MQTT reporting (`Mqtt`, `qtmqtt`)

`VKMqttClient` reports the vehicles while it is connected and carries out the commands of a
control station. Under it are `QMqttClient` and `QMqttConnection`, which are in the repository: the
connection's states, the pings, packets that arrive in pieces, packet identifiers,
subscriptions. All on the main thread; the broker and the network are what is concurrent.

What is hard: connections that end at any point, in the middle of a packet too; a peer that goes
silent; answers in any order; identifiers that wrap around. Correct: reports exactly while
connected; client and broker agree about what was said; what was acknowledged was carried out.

### USB serial on Android (`android/.../QGCUsbSerialManager.java`)

A receiver of broadcasts, native code and one thread per open port share a list of
drivers and a map from devices to their manager and native pointer. Each collection is safe for
threads; sequences of calls on them are not. Correct: the map leads from an open device to its
manager and its native object; a closed device is quiet; the end of a device is told.

### The rest

| Part | State | Hard behaviours | Correct when |
|---|---|---|---|
| **Facts, settings** (`FactSystem`, `Settings`) | values with limits, units, deferred signals | few: main thread only | limits are kept; a deferred change is signalled |
| **File downloads** (`Utilities/FileSystem`) | one request, redirects, disk cache | network then cache fallback | one completion per download |
| **RunGuard, start** | shared memory lock | a second process; a crashed one | one process at a time |
| **QML support, utilities, UI, SDK** | mostly data, layout, or closed/third-party code | | |

`PROJECT.json` lists every component with its status, and under "hazards" every
place where something can go wrong that a test would hardly reach, with the
properties that watch it.

## 2 The modules

    TaskService            what the worker promises (abstract)
       ^ refinement, TileCacheWorker!Service
    TileCacheWorker        QGCMapEngine + QGCCacheWorker: two threads
       ^ EXTENDS           TileCacheWorkerProofs (TLAPS), MCTileCacheWorker
    TileDatabase           the four tables and the handlers' SQL
       ^ EXTENDS           TileDatabaseProofs (TLAPS), MCTileDatabase
    TileSetManager         QGCMapEngineManager: the list, export, import, rename
       ^ EXTENDS           TileSetProofs (TLAPS), MCTileSetManager
    TileSetDownload        one QGCCachedTileSet against the worker's rows
       ^ EXTENDS           TileSetProofs (TLAPS), MCTileSetDownload
    TerrainBatch           TerrainAtCoordinateBatchManager and its queries
       ^ EXTENDS           TerrainTilesProofs (TLAPS), MCTerrainBatch
    TerrainTiles           TerrainTileManager with the path queries
       ^ EXTENDS           TerrainTilesProofs (TLAPS), MCTerrainTiles
    GimbalLink             GimbalController and its link clients
       ^ EXTENDS           GimbalLinkProofs (TLAPS), MCGimbalLink
    VideoStream            VideoManager with a GstVideoReceiver and its pipeline
       ^ EXTENDS           VideoStreamProofs (TLAPS), MCVideoStream
    MqttReporting          VKMqttClient on QMqttClient and QMqttConnection
       ^ EXTENDS           MqttReportingProofs (TLAPS), MCMqttReporting
    UsbSerial              QGCUsbSerialManager
       ^ EXTENDS           UsbSerialProofs (TLAPS), MCUsbSerial

The models meet at interfaces that TLC and the proofs justify: `TileDatabase`,
`TileSetManager` and `TileSetDownload` treat a task as one action, which is `TaskService` (one
at a time, in order), and `TileCacheWorker` is shown to implement `TaskService`. `TileSetManager`
keeps of the tables of `TileDatabase` what imports and exports read: which tiles there are and
which set lists them. `TerrainBatch` takes for its environment a tile manager that answers every
request once; when `TerrainTiles` does not do that (`lost`, `missed`) is in its properties.

### TileCacheWorker

Two processes. `mainPc` is where the application thread is: `start` (before
`init`), `idle` (event loop), `push` (in `enqueueTask`, past the test of `_valid`,
before the append), `kick` (after the mutex, before the test of `isRunning()`), `gone`
(after `stop()`). `workerPc` is where `run()` is: `off` (not running), `boot` and
`connect` (`_init`, `_connectDB`), `head` (loop head, mutex held), `run` (in a handler),
`post` (after it), `totals` (in `_updateTotals`), `wait` and `woken` (the five-second
wait), `exit` (loop left, mutex released), `finish` (returned, `isRunning()` still
true), `crashed`.

| Action | Code |
|---|---|
| `Request`, `Push`, `Kick` | `enqueueTask` in its three parts: `_valid` unlocked, append locked, `isRunning()` unlocked |
| `InitEngine` | `QGCMapEngine::init`, the only `taskInit` |
| `HandleTotals`, `HandlePruned` | `_updateTotals`, `_pruned` of the engine |
| `Stop` | `~QGCMapEngine`: `stop()` deletes the queued tasks but leaves them in the queue; then `wait()` |
| `Boot`, `Connect`, `Dequeue`, `Idle`, `WaitReturns`, `Woken`, `Post`, `UpdateTotals`, `Disconnect`, `ThreadFinished` | `run()` from top to bottom |
| `RunInit`, `RunSave`, `RunPrune`, `RunReset`, `RunReplace`, `RunOther` | `_runTask` by kind; `other` is every handler that starts with `_testTask` and leaves the connection alone |

Every opening and creation of the database may succeed or fail. A freed task that is
dequeued crashes the process or is run: both are outcomes of a use after free. The
size of the cache is one bit, "above the limit".

### TileDatabase

The tables are functions and sets (`tiles`, `sets`, `rows`, `downloads`) over small
ids. A new row gets the largest id in use plus one, since the keys are plain
`INTEGER PRIMARY KEY`s; so the id of a deleted last row is used again. `SetTiles` has
no unique key: `rows` counts, saturating at two, which is exact because the only
statement that looks at a count asks whether it is one. A handler that runs several
statements outside a transaction takes `done`, the number of statements executed
before the process is killed; in `GetTileDownloadList` it is the set `marked` of the
rows updated by then. `RecordDownload` is the pair of tasks that records a
tile, cut between any two statements, or the second task alone when persistence is switched
off (`Enqueued`). `cached` is `_defaultSet`. `excused` is a history
variable: the tiles the code lets go of a set, each for a reason visible in the
action that adds it. `torn` marks the tables after a reset that was cut short.
`Without` and `With` are the deletion and the insertion of a row.

| Action | Handler |
|---|---|
| `Browse` | `_saveTile` into the default set |
| `CreateTileSet` | `_createTileSet` |
| `GetTileDownloadList`, `RecordDownload`, `FailDownload`, `ResumeDownload` | `_getTileDownloadList`; `_saveTile` + `_updateTileDownloadState`; `StateError`; `StatePending` for `*` |
| `PruneCache`, `DeleteTileSet`, `ResetCacheDatabase` | of the same names |
| `ReplaceDatabase` | `_importSets` that replaces the file, by what is in it then |
| `UpdateTotals` | the caching of `_defaultSet` |
| `Kill`, `DropFlight` | the end of the process; the end of the replies of a deleted set |

### TileSetDownload

One object of the application thread with all its flags and counters, the requests
in flight, the `tileListFetched` signals on their way, and the worker's queue as far as
this set's tasks go. Tiles are numbered in the order `SELECT` returns them. A save and
its state update are enqueued together and are one task; a row that is gone says that the tile was
recorded, and whether its image was stored as well is a question to `TileDatabase`. The handlers share
`_prepareDownload`, `createDownloadTask` and `_doneWithDownload`: these are operators that
take the values the handler has so far, in the order of the code, and fix the next
state. `InOrder` arranges a set of tiles as `SELECT` does. The user cancels
and resumes when the button for it is there (`OfflineMapEditor.qml`).

Of the worker's life the module keeps what a download notices: `valid` (`_valid`) and `stranded` (the thread
has ended, or is about to, with tasks in its queue). `unheard` is a history variable: a list was asked for
that never comes.

| Action | Code |
|---|---|
| `TileListFetched` | `_tileListFetched` |
| `ReplyFinished`, `ReplyError`, `ReplyDropped` | `_networkReplyFinished`; `_networkReplyError`; the early returns of the first |
| `CancelDownloadTask`, `ResumeDownloadTask` | of the same names |
| `RunTask` | one round of `run()`: `Execute` is the handler of the task, `Fails` its early return after `_testTask` |
| `Outage` | `_valid` becomes false: `_connectDB` or `_createDB` fails after a restart, a reset or an import |
| `Wake` | another task of the application starts the thread |

`Accept` is what `enqueueTask` makes of a task, `Strands` how late the task may be for it.

### TerrainBatch

The module shares a proofs module with `TerrainTiles`, so what both have carries `batch` in its name here.
`batchLoop` is the position in the loop over `_sentRequests` that answers a batch: between
two of its steps owners may call `AddQuery` and `Destroy`, because the answer is a
direct signal into their code. A coordinate is named by its request, so the heights a
query gets say whose they are. `object` is a query's life (`live`, `deleting`
after `deleteLater`, `freed`), `watched` whether its `destroyed()` is still connected.
The `deleteLater` is carried out only in the event loop. `Taken` is how many requests a batch
dequeues, `Rest` what the queue is then: what is left of it, and behind that the same again
without as many more. `doubled` is a history variable: that second part was once not empty.
`got` notes of each request its first `MaxAnswers` answers.

### TerrainTiles

`loop` is the loop in `_terrainDone` (from the end of the queue) or `_tileFailed` (over
iterators, then `clear()`); `calling` is the query whose `addPathQuery` is the next call
of the code now running, `slot` whether an owner's code is running inside the loop.
`ReceiveSegment` and `ReceiveFailure` are `_terrainDataReceived`; a request whose tiles are all there
gets either (`Receive`), since a tile may have no height for a coordinate. A reply ends with a tile,
with bytes that are no tile, or with an error, or has ended inside its constructor
before `finished()` was connected (`missed`). `lost` and `again` are history variables.

### TileSetManager

The worker's queue, its signals and the application thread's list are three sequences of small
records; the set objects are numbered by their creation, so that a deleted one is known
when it is read. Names are pairs of what the user wrote and the number the code puts behind it.
A query for the sets of a table gives the default one first and then the others by their ids (`Rows`). The
initial state, action, specification and invariant carry the prefix `Manager`, because the module of
the proofs extends `TileSetDownload` as well.

| Action | Code |
|---|---|
| `LoadTileSets`, `StartDownload`, `DeleteTileSet`, `RenameTileSet`, `ExportSets`, `ImportSets`, `ResetAction` | the methods of the same names; a set deleted is only marked until the worker has answered |
| `HandleNewObject` | `_tileSetFetched` and `_tileSetSaved`: an object is appended to the list |
| `HandleDeleted`, `HandleReset`, `HandleCompleted` | `_tileSetDeleted`, `_resetCompleted`, `_actionCompleted`, which goes by what was asked for last |
| `FetchTileSets`, `CreateTileSet`, `SaveTile`, `RunDelete`, `RunRename`, `RunReset` | the worker's handlers, each one action as far as this list sees them |
| `BeginExport`, `ExportSet` | `_exportSets`, one set object at a time: the application thread runs between two of them |
| `ImportMerge`, `ImportReplace` | `_importSets` with its two modes; `MergeSet` is one set of the file |

### GimbalLink

`mainPc` is where the main thread is: in the constructor (`protocol`, `emit`, `mark`), idle, or in
a command past its test of the members (`build`). `events` is the worker's event queue with changes
of the type, the first link, commands and deferred deletions; `connect` is a worker that has put
the new client in place and not yet its protocol. Every client that was ever made keeps its
place in `clients`, with its socket. `sent` is the last that reached a link: the protocol of the
bytes, the type of the gimbal, and whether the type was being changed when they were built.
`UdpLinkKept` is a property of steps: it says which event of the worker may take a UDP link away.

### VideoStream

The main thread and the worker are connected by `tasks` and `signals`. `RestartVideo`,
`StartVideo`, `StopVideo`, `ChangeSource` and the recording and server actions are the
manager's; `HandleSignal` is what it does with the receiver's reports. `RunStart` and
`StartPlaying` are a start: everything until the change of state, which takes time and may fail,
and what follows. `RunStop` with `BeginStop`, `Drained` and `Teardown` is a stop, which waits
for the end of a recording. The pipeline's threads are `NewSourcePad` and `SourceLinked` (the
two halves of `_onNewSourcePad`), `Frame`, `BusError`, `SourceEnds` and `BranchEnds`. `elements`
is `freed` when the tee and valves still point to what a failed start has freed. `leftOver` is a
history variable: a pipeline ended while ends of its streams were queued, and one of them is
still to be handled. `Watchdog`, ends and errors all come to the receiver's `stop`, from which the manager starts again.

### MqttReporting

The client is one record `c` and every handler an operator that maps it to the next one,
composed as the code composes its calls (`setState` runs the slots of `VKMqttClient`). Packets
to the client come in two pieces, header and body. The broker is external: it keeps a clean session,
delivers commands (the retained ones also before the answer to a subscription), and
acknowledges. `silent` is a peer that has gone without TCP noticing. `Library` are calls of the
interface of `QMqttClient` that `VKMqttClient` does not make: publications at QoS 1 and 2, and
subscriptions and their removal. `c.subId` is the identifier under which the active subscription
was asked for: each `QMqttSubscription` is an object of its own, and the answer to an earlier
one's packet does not settle it. `repeated` is a history variable: an unsubscription was asked for
while one was under way.

### UsbSerial

`receiver` is where the receiver of broadcasts is: idle, past its look into the map (`add`),
before or behind the scan for devices. `call` is where native code is in `open` or `close`: each look
into `deviceResourcesMap` is a step, since the receiver runs in between. `io` is the state of
the manager made for a client, whose thread ends by itself or with an error. `lost` says why
the map no longer leads to a client. A device is one stay at the port.

## 3 The runs

Each takes between a few seconds and two minutes with two workers. An invariant called `Inv` (`BatchInv`,
`ManagerInv`) is the type invariant of its module together with the named parts given here; `PruneExact` has two parts,
too.

| Run | Distinct states | What it shows |
|---|---|---|
| `worker_life` | 120k | save, replacing import, reset and prune, with the start, idle end and restart of the thread and every outcome of opening the database: `OpenWhileServing`, `OutageIsFinal`, `AcceptedIsRun`, `ShutdownCompletes`, and that the worker implements `TaskService` (`ServesTasks`) |
| `worker_prune` | 46k | the protocol around `m_prunning`, with two prune objects: `PruneExact` (`PruneGuard`: at most one prune under way; `FreshTotals`: none from totals of before), `PruneKeepsUp` |
| `database` | 303k | one tile shared by up to three user-made sets, or two tiles in two sets; persistence on or off; process killed between any two statements: `SetsComplete`, `KeepsTiles`, and in `Inv` that downloads belong to sets |
| `set_manager` | 621k | loads, new sets, deletion, renaming and reset with export and import in four mixes: `ListIsDatabase`, `ImportKeeps`, and in `ManagerInv` `FileIsPartition` (each tile of a file is found by an import) and `ExportReadsLiving` |
| `set_download` | 176k | up to three tiles in batches of two with two requests at a time, with a worker that may lose its database or leave tasks in its queue: `CompleteIsTaken`, `EveryTileTried`, `Ends`, and in `Inv` that each tile is in one place |
| `batch` | 195k | four requests of up to two coordinates by owners that ask again, or three of up to three by owners that delete queries while batches fail: `OwnHeights`, `EveryQueryAnswered`, and in `BatchInv` `AnsweredOnce`, `QueueIsServed`, `NoDangling` |
| `terrain_tiles` | 115k | three path queries, re-entrant loops: `OwnPath`, `EveryPathAnswered`, and in `Inv` that the queue has a download and each request is in it once |
| `gimbal_link` | 626k | three changes of the type, two commands, failures of TCP links: `OwnProtocol`, `UdpLinkKept`, `TypeIsFollowed`, and in `Inv` `ConnectedHasLink`, `OneLiveClient` |
| `video_stream` | 225k | changes of the source, faults, recordings and streams to the server in five mixes: `ShowsSource`, `RecordingIsFinished`, `VideoReturns`, `WorkerEnds`, and in `Inv` `StartedIsPipeline`, `SinkHasDecoder`, `FreedOnlyByFailedStart` |
| `mqtt_reporting` | 494k | starts, stops, lost connections, a silent peer, commands, publications and unsubscriptions in five mixes: `ReportsWhileConnected`, `AckedIsFlown`, `NewIdIsUnused`, `DeadPeerIsNoticed`, and in `Inv` `BrokerIsUnderstood`, `SubscriptionAgrees`, `SentIsReceived` |
| `usb_serial` | 228k | one device opened step by step while broadcasts of it and of another are handled, or by one native object after another: `ToldOfEnd`, and in `Inv` `MapIsDevices`, `MapLeadsToClient`, `ClosedIsQuiet` |
| `database_prune_sets` | | a violation of `PruneSparesSets`: see section 6 |

Each passing property has a mutant in `PROJECT.json`: a plausible bug put into one
definition, under which TLC finds the property violated with the same
configuration. The mutated forms stand in the modules before the definition they
would replace, marked `mutant`; nothing else uses them.

### Bounds, and why they are enough

Several modules take a *set* of budgets, scenes or limits as a constant, of which a behaviour has
one: what the user, the network or the faults may do how often. One run then covers several small
mixes in place of one large one, and each mix has the two or three things whose
meeting is in question.

- `MaxEvents` (worker): signals queued for the application thread. Two let totals
  and `pruned()` be in flight together; the run about pruning has three, so that totals
  from before and after a prune surround its signal. When the queue is full, the
  worker waits: an emission is delayed, none is dropped. The life-cycle
  and pruning instances are kept apart: one instance with both has most of a million
  states and shows nothing new, since pruning does not touch the connection.
- Task objects (worker): each may be used again when it is free, so five of them
  stand for any number of tasks, at most five at a time.
- `Limits` (database): one tile and four set ids (the default set and
  three user-made sets: one deleted, one with its reused id, one that shares its
  tile), or two tiles and two set ids. Both together have millions of states; the two
  limits separate the reuse of set ids from the reuse of tile ids. `Batch` 1: lists
  of several tiles are the subject of `set_download`.
- `MaxSets` 3, `Budgets` (set manager): the default set and two others, of which the second may
  be made by an import or have the elevation of the first. The mixes: loads with deletions and a
  rename; an export against a deletion and a rename; an export imported into a database that has
  grown; an export and import around a reset.
- `NumTiles` 3, `Batch` 2, `Concurrent` 2, `LowWater` 2 (download): the initial states
  have zero to three tiles to fetch, so the last list is empty at once, empty after a
  full one, or short; requests are below and at the limit, with tiles waiting behind it.
  The code's values (256 tiles, a handful of requests) differ by size only.
  `MaxResumes` 1: one resume over a running, cancelled or ended download.
- `Owners`, `Full`, `MaxAsked`, `MaxAnswers` (batches): four requests by owners that ask again from
  inside an answer, or three by owners that delete queries while batches fail; a batch is full
  above two coordinates. Requests of three coordinates fill a batch by themselves, so that two may
  be left behind it and be doubled (section 6); with the other owners that does not happen, and
  what the properties say without it is checked. `MaxAnswers` 2 tells a second answer from one.
- Terrain tiles: two tiles, a path of two one-tile segments and one of a segment
  across both, three clients, four requests: one tile missing or both, requests
  behind, before and inside the loop.
- `MaxChanges` 3, `MaxCommands` 2 (gimbal): two TCP types, of which one speaks DYT, and two UDP
  types, so that a UDP link can replace another. Three changes let a link be replaced, its successor be disconnected by its end, and a
  third link follow; two commands are one built before and one after a change.
- `Budgets` (video): three changes of the source; one change with two faults; a recording or
  a stream to the server with a fault; both branches together. Two sources besides none. An end of stream that is left over from an
  earlier pipeline needs more of each (`leftOver` in `RecordingIsFinished`): it was found by the
  proof, not by these mixes.
- `MaxId` 3, `Cap` 2 (MQTT): packet identifiers wrap around after three, so that one still in use
  is met; two packets each way may be under way. The mixes: three starts with a stop and a silent
  peer; two connections with two commands; the library's calls with a command, four of them in one
  connection, or three over two connections. Three calls with a command are what it takes to
  repeat an unsubscription, subscribe between the two answers and get a command after them
  (section 6); four let several subscriptions follow each other.
- `Scenes` (USB): one device wanted and another beside it, or one device and two native objects
  after each other. A device comes and goes once: one that returns is a new device to Android.

Symmetry is used in the runs of `TileDatabase` and `TileSetManager`, over hashes; none of their
properties is about liveness.

`CHECK_DEADLOCK FALSE` stands where a system may really stop: a gimbal controller or a native
object that is gone, a video receiver that has ended, and the modules whose budgets are used up
with nothing left to do.

## 4 Fairness

- `TileCacheWorker`: both threads are scheduled (weak fairness of the worker and of
  the code in `enqueueTask`). Handling of queued signals is *strongly* fair: Qt's event
  loop takes events in the order they were posted, so requests by the user, which
  come through the same event loop, cannot put them off for ever although they
  disable them again and again. Nothing obliges anybody to make a request or to end
  the application. Every handler returns: there is no step "handler hangs".
- `TileSetDownload`: the worker runs the tasks in its queue while it is not stranded. A task that is enqueued while
  the thread ends, which `AcceptedIsRun` of the worker excludes, may strand it, until another task starts the
  thread. Nothing obliges anybody to enqueue one: `Wake` has no fairness, and
  `EveryTileTried` and `Ends` have `[]<>~stranded` as a premise instead. Signals are delivered, and every request
  ends because it has a transfer timeout of
  ten seconds (`src/QtLocationPlugin/QGeoTileFetcherQGC.cpp:118`). The user is under no
  obligation.
- `TerrainBatch`: the timer fires, the tile manager answers, loops go on, deferred
  deletions are carried out. Owners are under no obligation.
- `TerrainTiles`: code that was entered goes on, and a connected reply finishes (same
  timeout).
- `GimbalLink`: the worker handles its events, the constructor goes on, and a command that has
  passed its test is built. The user and the network are under no obligation.
- `VideoStream`: both threads handle what is queued, and a link that was begun in
  `_onNewSourcePad` is completed. A stop that waits for the end of a recording gets an end or an
  error: `Drained` is a step of the worker, which assumes that GStreamer answers. Frames, faults
  and the watchdog are under no obligation, unless they are what the worker waits for.
- `MqttReporting`: packets that have arrived are read, the ping timer fires, the broker reads
  what reaches it, and a transport that is opening is connected or fails. Nothing else: a
  broker may never answer and a peer may fall silent.
- `UsbSerial`: the receiver and native code that were entered go on, and a thread whose device is
  gone fails in its read. Devices and clients are under no obligation.
- `TileDatabase` and `TileSetManager` have no liveness and no fairness.

## 5 The proofs

Thirty-one theorems in eight modules, each for every value of the constants that the ASSUMEs of
the module allow. No proof uses the fairness of a `Spec` that has it, and none rests on another
assumption: what an argument needs of its constants is named in the model, TLC
evaluates it on the run's instance, and each inductive invariant was checked by TLC on the run's
instance before it was proved.

`TileCacheWorkerProofs`, for any set of tasks with any kinds and any `MaxEvents > 0`:

| Theorem | Statement | Argument |
|---|---|---|
| `TypeCorrect` | `Spec => []TypeOK` | `TypeOK` is inductive as it stands, because it contains `OnePlace`: the queue has no duplicates, and a task is pending, queued or run, never two of these. `AppType`, `RunType` and `WorkerType` are the three parts of a step; `AppendDistinct` and `TailDistinct` are the facts about queues without duplicates |
| `ConnectionSafe` | `[]OpenWhileServing /\ []CrashNeedsFailedInit` | the two are not inductive: a save crashes on a null connection, so one has to know how `run()` can serve without a connection object. `ConnectionInv` adds that this is only so when `_failed` is set, which `_init` does and nothing but a later `_init` undoes |
| `OutageForever` | `OutageIsFinal` | when the worker is off, `_valid` is clear and nothing is half-enqueued, no action of either thread that could change one of these is enabled |
| `ImplementsTaskService` | `Spec => ServesTasks` | step simulation with `waiting <- queue` and `serving <- {current} \ {NoTask}`: `Push` is `Accept`, `Dequeue` is `Serve`, `Post` is `Finish`, everything else stutters. `TypeOK` is needed: only because an accepted task is in neither place does `Push` map to `Accept` |
| `PruneIsExact` | `Spec => []PruneExact` | `PruneGuard` counts prunes in the queue, in the handler and as signals on their way: at most one in all. It is not inductive by itself: the handler of `pruned()` clears the flag, and the next totals may ask for a prune. `PruneInv` adds `StaleHasPruned`: totals from before a prune have its `pruned()` behind them, so they are handled while the flag is still set; and that only the end of the application deletes tasks and drops signals |

`TileDatabaseProofs`, for any finite set of hashes and any `Limits` and `Batch`
(`IsFiniteSet(Hash)`, because the tiles of an imported file are numbered from one):

| Theorem | Statement | Argument |
|---|---|---|
| `TablesAreSound` | `Spec => []Inv` | `IInv` is `TypeOK` in its parts (one for each table), `DownloadsOwned` and `Defaults # {}`: the tables always have a default set, without which the next tile would be saved for none. That the keys stay typed needs facts about `Max`, which is a CHOOSE: `MaxOfIds`, `NewIDIsNew` |
| `SetsStayComplete` | `Spec => []SetsComplete` | `SetsComplete` is inductive with `IInv`. A new row never takes the id of one that is there (`NewIDIsNew`), an insertion keeps what was listed (`RowsAdded`), and a set loses rows, tiles or downloads only to its own deletion or in a step that adds what it loses to `excused`: the five ways listed in section 6 |
| `SharedTilesStay` | `Spec => KeepsTiles` | a property of steps, from `IInv`. Besides a reset and a replacing import, only `PruneCache` and `DeleteTileSet` take tiles, and they take those that one set alone lists (`UniqueIsUnlisted`): the default set, as long as the cached id is that of one, which is where `Defaults # {}` is needed, or the set deleted |

`TileSetProofs`, for any number of tiles, batch size, number of requests at a time, low water
mark and number of resumes:

| Theorem | Statement | Argument |
|---|---|---|
| `NoTileIsLost` | `Spec => []Inv` | that each tile being downloaded is in one place (`InPlace`) is not inductive: a resume that sets all rows back to pending while tiles are on their way would put them in two. `RetryAlone` says that nothing of the set is under way between a resume and the update of its rows, if the resume did not overtake the requests of before; for that the ended download must have had no list on its way, which is `OneList` (the flag `_batchRequested` is the number of lists asked for or coming) |
| `CompleteSetIsHandedOut` | `Spec => [](valid => CompleteIsTaken)` | a set becomes complete in two ways. At the end of a download: `ShortIsLast`, nothing is pending when a list was shorter than a batch, so `_noMoreTiles` is true of the database. By its counters: `savedCount` reaches `totalCount`, which is the number of tiles (`TotalIsAll`), so by `SavedIsRecorded` no row is pending; then no list with a tile in it is on its way either (`CompleteIsLast`) |
| `SavedTilesAreCounted` | `Spec => [](Sound => SavedIsRecorded)` | the count of saved tiles the user sees is the cardinality of the set of tiles whose record is made or is in the worker's queue. It needs `InPlace`: a tile is recorded once |

All but the types is suspended after a resume that overtakes requests in flight (`overtaken`) and
after the database is lost (`Sound`); tasks that are stranded are only late. `CompleteIsTaken` also holds without
a database, as TLC finds: a list that fails is never answered. That part is not proved. The lemmas of the module count in sequences (`CountIn` of an `Append`, a
`Tail`, a concatenation, a flattened sequence of lists) and cut a list at the number of requests
that are free, so that the proof of a handler adds up the places of one tile.

The same module, about `TileSetManager`, for any hashes, any names, any number of sets and any
budgets (`ManagerAssumption`: names are sequences of strings, there is an id for the default set):

| Theorem | Statement | Argument |
|---|---|---|
| `ExportsReadLivingSets` | `ManagerSpec => []ManagerInv` | `LocalTypes` is inductive alone: the types of everything on its way, the UNIQUE names and that a tile is listed for sets that exist or for id 1 (`Base`), and `FileIsPartition`. `ReadsLiving` is what one has to know of the queue: the objects an export reads, or will read when its turn comes, are there, and no deletion of their sets stands ahead of the export in the queue or is announced by a signal. A deletion asked for later comes to stand behind the export; one asked for before is what `doomed` notes |
| `TheListIsTheDatabase` | `ManagerSpec => []ListIsDatabase` | `ListFollows`: unless `muddled`, at most one exchange is under way (`OneExchange`), and the list is in one of three conditions. `Suspended`: a reset or an import will load it again. `FetchWaits`: it is empty and its task is in the queue. `Tracking`: it shows each set once, and for every set the signals that are on their way lead from what the list shows to what the database has (`Follows`). The lemmas `FollowsAdded`, `FollowsRemoved`, `FollowsPassed` and `FollowsHandled` say what one more or one less signal makes of that |
| `ImportsKeepWhatWasThere` | `ManagerSpec => ImportKeeps` | set by set: `MergeKeeps` says that one set of the file leaves the tables `Grown` by its tiles; it needs a name that is free (`FreeNameIs`), and among one more numbers than there are sets one is, by the pigeonhole principle (`Unused`). `MergedSteps` and `MergedKeeps` carry that over all sets of the file, from the least place at which it would fail; by `FileIsPartition` the sets have all tiles of the file among them |

`TerrainTilesProofs`, for any query objects, tiles and non-empty paths:

| Theorem | Statement | Argument |
|---|---|---|
| `QueueIsWhatIsWaitedFor` | `Spec => []Inv` | what makes it inductive is what holds inside the loops, while owners call back into the queue: `Served` (what `_terrainDone` has passed by was answered or has started a download, so that what is left of the queue has one) and `Requests` (the requests that are still to be answered, from the loop's position in `_tileFailed` on, are those of the waiting queries, one each, about their current segment; `Underway` for the one whose call is being made) |
| `HeightsAreOfThePath` | `Spec => []OwnPath` | `Heights`: a query that waits for its n-th segment has the first n-1 of its own path. It needs `Requests`: the answer that arrives is about the current segment |

The same module, about `TerrainBatch`, for any query objects, any size of a batch, any bounds and any
owners (`BatchAssumption` is the types of these):

| Theorem | Statement | Argument |
|---|---|---|
| `QueriesAreServed` | `BatchSpec => []BatchInv` | `BatchIInv` is `Loops`, which always holds (types, the coordinates of a batch, `Position`, that a request knows who made it, and `QueueIsServed`), and `Orderly`, which holds until requests are doubled: requests are sent and wait in the order of their numbers, each once (`Ordered`), what waits or is still to come in the loop has no answer (`Unanswered`), and its query lives and is watched unless it was asked twice (`Watching`). The first gives `AnsweredOnce`, the last `NoDangling` |
| `HeightsAreOfTheQuery` | `BatchSpec => OwnHeights` | `Position`: unless a query was passed over, the loop's index in the heights is the sum of the counts before the request it is at; `PiecesSent` says which coordinates stand there |

That last fact is one of induction: the coordinates of a batch are those of its requests joined one
after the other, by a fold. It is proved without the library's induction theorems, from the least
place at which the sequence of joins would differ (`LeastOf`, which rests on the well-founded order
of the numbers): `JoinedSteps` and `JoinedStay` say how the joins grow, `PieceInFlat` where a piece
is in the whole.

`UsbSerialProofs`, for any devices, clients and scenes (`ScenesAssumption` is the type of `Scenes`):

| Theorem | Statement | Argument |
|---|---|---|
| `OneOwner` | `Spec => []IInv` | the places that say whose a device is (the call under way, the open port, the manager in the map, the client's own state) agree: `CallIsOfClient`, `PortIsOfClient`, `ManagerIsOfPort`; and a broadcast of an end is true (`EndsAreTrue`). Any broadcast may come between the steps of a call, so `Reached` says for every position of the call what the map holds by then |
| `MapAndCloseAreSafe` | `Spec => [](MapLeadsToClient /\ ClosedIsQuiet)` | from `OneOwner`: a held client has passed every step of its call, so only a broadcast can have changed the map since, and that is noted in `lost` |
| `MapIsTheDevices` | `Spec => []Inv` | adds that the receiver ends with the devices that are there. `MInv`: what the receiver works on has come (`HaveCome`); what it keeps of a device that is gone, a broadcast still on its way will take out (`EndsAreToldOf`); a device that is there and not in the map was closed, or its broadcast or a scan under way will find it (`WillBeFound`); and since it is asked for once with its driver and once with its broadcast, at most twice (`AskedTwice`) |

`GimbalLinkProofs`, for any gimbal types and any bounds:

| Theorem | Statement | Argument |
|---|---|---|
| `BytesAreOwn` | `Spec => []OwnProtocol` | `OwnProtocol` speaks of the last bytes sent only. `IInv` says why they were right: protocol and link in use are of the current type and go together (`InUse`); bytes built while no change of the type was queued stand ahead of every later change in the queue (`SendsAreAhead`), so the type is still theirs when they are sent; and the link that the constructor asks for, on the other thread, is the first event if it is one at all (`LinkIsFirst`, `NewController`) |
| `OneLinkOfTheType` | `Spec => []Inv` | `Inv` speaks of a worker at rest; its cause is in the queue. `Deletions`: the deletions that wait are, once each, those of all clients that are not deleted but the link, which is the client made last. `Follows`: the last change that waits is to the type that is set. `Sockets` and `Members`: which sockets a client of each type can have, and that `m_connected` goes with a link that works when no change waits |
| `UdpLinkIsKept` | `Spec => UdpLinkKept` | from `Deletions`: a client whose end arrives is older than the link, and a UDP client has no end to tell. This is where a first form of the property was found to be false (section 6) |

The lemmas `Appended`, `Handled`, `ClientMade` and `SocketChanged` of that module are the facts
about queues and clients which its steps share.

`VideoStreamProofs`, for any sources and budgets:

| Theorem | Statement | Argument |
|---|---|---|
| `ThreadsAgree` | `Spec => []Inv` | `Told`: with the signals that wait for it handled, the manager will take the receiver to be started exactly when there is a pipeline that is not just starting. `Built`: what uses a pipeline has one, and freed elements come only from a start that failed. `DecodersOfSink`: one decoder for the sink that was given when there was a stream and one for the stream that came when there was a sink, whichever came first |
| `SourceIsShown` | `Spec => []ShowsSource` | `Stale`: a pipeline that does not play what is set has a stop in the queue or under way, unless the source was switched off or changed during a start |
| `RecordingsAreFinished` | `Spec => RecordingIsFinished` | `Branches`: a branch has an end of stream only while it is being removed. `Ends`: the ends that are queued, which carry no name of their branch, are those of branches of this pipeline, one each, unless one is left over |

`MqttReportingProofs`, for any finite set of vehicles, any commands and messages, any number of
identifiers but none, any `Cap` and any budgets:

| Theorem | Statement | Argument |
|---|---|---|
| `BrokerAndClientAgree` | `Spec => []Inv` | `IInv`, below |
| `ReportsFollowTheConnection` | `Spec => []ReportsWhileConnected` | from `Phases` |
| `AcknowledgedIsCarriedOut` | `Spec => []AckedIsFlown` | from `Hearing` |
| `IdentifiersAreUnused` | `Spec => NewIdIsUnused` | each step is shown to keep `IInv` and to take no identifier that waits for an answer (`Fresh`); `IdentifierFound` says that the search of `unusedPacketIdentifier` ends on a free one if there is one |

The invariant of `MqttReportingProofs` is the protocol itself. `Phases`: client, connection, transport,
broker and what is under way are together in one of five phases (`Shut`, `Opening`, `Shaking`,
`Talking`, and `Hushed` after a DISCONNECT that could not be written). `Understood`: a header that
was read is that of the packet whose body comes next. `Exchanges`: requests under way and answers
that come back have identifiers of their own, for which the client waits (`Flight`, for each of the
three kinds of exchange). `Subscriptions`: the answer to the packet of the active subscription comes
after those of earlier ones. `Receipts`: what an answer stands for, the broker has got. `Hearing`: a
message that comes finds the subscription active, because the broker stops sending before it answers
an unsubscription. `Pinging`: no more answers to pings come than are counted, so that the
count never falls below zero. What they say of packets under way is suspended while the peer
is silent: then nothing is read any more. Most lemmas say what one handler makes of the client's
record (`Connects`, `Subscribes`, `Settles`, `SaysGoodbye`, ...) or what a queue with one packet
more or less has at which place (`AppendedAt`, `TailAt`, `FlightAdds`, `FlightTakes`), so that the
proof of a step does not look into either.

Only model-checked:

- Liveness (`AcceptedIsRun`, `ShutdownCompletes`, `PruneKeepsUp`, `ToldOfEnd`, `TypeIsFollowed`,
  `VideoReturns`, `WorkerEnds`, `DeadPeerIsNoticed`, `EveryPathAnswered`, `EveryQueryAnswered`,
  `EveryTileTried`, `Ends`), which rests on fairness and ENABLED and is out of the prover's reach.
- That requests which a full batch leaves behind are answered at all when they are doubled: that is
  liveness again.

## 6 What the models show about the code

### A disagreement with a comment

`database_prune_sets`: `_pruneCache` says it selects "tiles in default set only"
(`QGCTileCacheWorker.cpp:565`). The id of the default set is cached in `_defaultSet`,
which a replacing import does not reset. After importing a file that was exported
without the default set, id 1 is a user's set, and the prune deletes its tiles.
`KeepsTiles` shows that this is the only way: as long as the cached id is right,
no step takes a tile from a set other than the one it deletes.

### Behaviours that the properties describe as they are

The passing properties say what is promised besides these: each excludes the cause named in its
comment and holds of everything else.

Tile cache worker and database:

- A task enqueued between the end of the worker's loop and the end of its thread is left
  in the queue until another task starts the thread (`AcceptedIsRun` excludes `exit` and
  `finish`).
- A worker whose database became invalid and that then ended is never started again
  (`OutageIsFinal`): the test that refuses tasks also refuses the one that would
  reopen it.
- A tile that waits to be saved when a replacing import has failed is logged through a
  null connection (`CrashNeedsFailedInit`).
- A prune that is refused or fails leaves `m_prunning` set: nothing is pruned any more
  (`PruneGuard`, `PruneKeepsUp` with `lostPrune`).
- `_saveTile` says of a failing INSERT that the tile is a second copy of one just saved
  (`QGCTileCacheWorker.cpp:256-258`). It also fails when browsing has cached the tile after
  the set was created: the set's download row goes, and the set never gets its row in
  `SetTiles`. A tile another set is downloading is left out of a new set in the same way.
- With persistence switched off (`disableAllPersistence`) a download saves nothing and records every tile as
  complete: `QGeoFileTileCacheQGC.cpp:109` looks at the setting, `QGCCachedTileSet.cpp:240-241` does not. The set
  ends as complete and has no tiles.
- These three, a prune that takes a set for the default one, and a process killed inside a creation, a deletion
  or a reset are the five ways in which a set loses a tile (`excused` in `SetsComplete`).

Tile set manager:

- Two requests for the list before the first is answered show its sets twice, and the end of an
  export that was overtaken by an import is taken for the end of the import (`muddled`).
- An export that is asked for while a set is being deleted reads its object after it was freed
  (`doomed` in `ExportReadsLiving`). A deletion asked for after the export is safe, because the
  worker's queue is in order.
- A replacing import of a file without a default set leaves id 1, which the worker remembers as the
  default one, to a set of the user. Once that is deleted, a merging import of a default set lists its
  tiles for a set that does not exist (excluded by `1 \in DOMAIN tables.sets` in `ImportKeeps`).
- The export and import of the manager have no caller in the QML of this repository.

Tile set download:

- A download "ends", and a set calls itself complete, when there is nothing more to ask
  for, with requests in flight; after an exact multiple of the batch size even with tiles
  not yet asked for. They are still fetched (`EveryTileTried`), but the user sees the
  download as over (`CompleteIsTaken`).
- A resume that overtakes requests in flight asks for their tiles again (`overtaken`).
- An image that is empty or unknown is thrown away without going on to the next tile;
  with the last requests in flight the download stands still (`dropped`).
- A list that `enqueueTask` refuses, or that fails in `_testTask`, is never answered, and `_batchRequested` stays
  set: the set says it is downloading for good, and a cancel, which is looked at when the next batch is
  wanted, has no effect (`unheard` in `Ends`). A list that is stranded in the queue waits for the next task.

Terrain:

- The loop of `_coordinateHeights` passes over a destroyed query without moving past its heights
  (`TerrainQuery.cc:171`): every later query of the batch is given the heights of somebody
  else's coordinates (excused in `OwnHeights`).
- Behind a full batch, what is left of the queue is appended to it once more, without as many
  requests as the batch took (`TerrainQuery.cc:99`; the batch has already been dequeued there). If
  more is left than was taken, requests are sent and answered again, after their queries may have
  deleted themselves (`doubled` in `NoDangling` and `AnsweredOnce`). With requests that fill a batch
  alone and three of them waiting, two are left and become three: the queue does not get shorter,
  the last request is answered again and again, and with four or more the queue grows.
- Requests made from inside a failure's signal are cleared unanswered, or move memory
  under the loop's iterators (`lost`, `Crash`); a reply that ends inside its constructor
  leaves the tile manager waiting for ever (`missed`); bytes that are no tile are asked
  for again at once and for ever; a path query asked again after a success starts with
  the old path's segments (`again`).

Gimbal:

- The constructor's `initLink` is lost when the worker thread has not started yet: the controller
  says it is connected and has no link until the type is changed (`ConnectedHasLink` with
  `changes > 0`).
- `onLinkFailed` does not ask which client failed: the end of a TCP client that was replaced
  disconnects its successor, and nothing connects again. The successor need not be the next one:
  with changes of the type that come quickly, the deletion of a TCP client may still be ahead in the
  queue when a UDP link two changes later is in place, and takes that one away (`UdpLinkKept`).
- A command may find its protocol gone between test and use (`crashed`), and one that is given
  while the type is being changed may reach the new gimbal in the old protocol (`changing` in
  `OwnProtocol`).

Video:

- A source that is switched off leaves its pipeline running, because `stop()` returns at once
  for an empty URI; a stop during a start does nothing, and a second start during a
  start is refused and not made up for (`overlapped` in `ShowsSource`).
- A start that fails late leaves pointers to freed elements, which a later task may use
  (`FreedOnlyByFailedStart`).
- The ends of the recording and of the stream to the server come as the same message, and one that
  is still queued when its pipeline is torn down is taken for an end of the next pipeline's: either
  may end a recording that goes on (`RecordingIsFinished`, `leftOver`).

MQTT:

- A DISCONNECT that cannot be written leaves client and connection disagreeing
  (`ReportsWhileConnected`, third part); a connection that is never acknowledged is waited
  for without a limit; `stop` while connecting does nothing.
- An empty host deletes the client's own transport and keeps the pointer (`undefined`
  transports in `TypeOK`).
- Publications that wait for an acknowledgement when a connection is lost are neither sent again
  nor given up; their identifiers stay in use (`NewIdIsUnused` holds nevertheless).
- An unsubscription that is asked for again while one is under way is answered twice. If a new
  subscription is made between the two answers, the second removes it from the client
  (`qmqttconnection.cpp:1556-1562` looks for the topic, not for the packet): commands the broker
  still sends are acknowledged and not carried out (`repeated` in `AckedIsFlown`).
  `VKMqttClient` itself never unsubscribes.
- A command whose kind is no number is carried out as a take-off (`CommandType`).

USB:

- A permission that is handled after the device was opened replaces its resources, and with them
  the way to its manager and native object (`lost = "replaced"`); a scan for another
  device removes a stale entry without telling its client (`lost = "stale"`).
- A failed open leaves its port open. A closed device is not found again until it was plugged out
  and in (`ClosedOnce`).
- `cleanup` unregisters the receiver, and a second `initialize` in the same process returns early:
  nothing is heard from then on (`registered`).
- An entry may go between two looks of one call into the map, which then ends with an exception;
  the thread that reads is told to end on a close and not waited for.

## 7 Not modelled

- In the modelled components: wording, logging, progress reports; sums of sizes; errors
  of single SQL statements (each statement succeeds, or the process is killed before
  it); a `_createDB` that fails for the file of an export; names of sets beyond the numbers the
  code can put behind them; the migration `_deleteBingNoTileTiles`; deletion of path queries by
  owners; the geometry of paths; clean-up of old recordings, image grabs and the second
  receiver for thermal video; MQTT 5 properties, wills and authentication, which the program does
  not use; the setting `streamEnabled`, which is taken to be on (`hasVideo` is then that a source is
  configured); what the destructor of the video receiver does to a worker that takes longer than the two
  seconds it waits for it (`GstVideoReceiver.cc:1708`); reading, writing and control lines of serial ports, which look up the port
  and pass the call on.
- The components with status `not_modelled` in `PROJECT.json`. Those worth a model are in
  the plan. The others: projection and interpolation (floating point), framework glue, the sink
  elements that draw GStreamer's frames, the user interface (QML layout and bindings), the closed
  vehicle SDK, the native side of the serial ports, wrappers around the operating system.

## 8 Plan

Written, in this order: `TaskService`, `TileCacheWorker`, `TileCacheWorkerProofs`,
`TileDatabase`, `TileSetDownload`, `TerrainBatch`, `TerrainTiles`, `GimbalLink`, `VideoStream`,
`MqttReporting`, `TileSetManager`, `UsbSerial`, `UsbSerialProofs`, `GimbalLinkProofs`,
`TileDatabaseProofs`, `TerrainTilesProofs`, `VideoStreamProofs`, `MqttReportingProofs`,
`TileSetProofs`, first about `TileSetDownload` and then about `TileSetManager`, and in
`TerrainTilesProofs` the part about `TerrainBatch`.

Left, modules:

| Module | Models | Questions |
|---|---|---|
| `TileReply` | `QGeoTiledMapReplyQGC`: cache, network, abort | finishes once, is the environment of `TerrainTiles` |
| `FileDownload` | `QGCFileDownload`, `QGCCachedFileDownload` | one completion per download |
| `TileRange`, `DytFrame` | arithmetic on tile ranges; frames and checksums of the gimbal | against reference definitions over bounded inputs |
| later | deferred signals of fact groups, `RunGuard` | |

Every safety property of every passing run is the statement of a theorem, `CompleteIsTaken` while the worker has its
database. What further proofs can add
comes with the modules above.
