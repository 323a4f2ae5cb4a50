--------------------------- MODULE TileSetDownload ---------------------------
(***************************************************************************)
(* One QGCCachedTileSet downloading its tiles: the application thread's    *)
(* object with its flags, the requests it has in flight, and the part of   *)
(* the worker that reads and writes the set's rows of TilesDownload.  The  *)
(* object asks for lists of tiles in batches, keeps a few requests in      *)
(* flight and is driven by their answers; the user cancels and resumes.    *)
(* The worker may lose its database, after which it refuses tasks without  *)
(* the object's knowledge, and may leave a task in its queue until the     *)
(* next one comes.                                                         *)
(*                                                                         *)
(* Tiles are numbered in the order of their rows, the order in which       *)
(* SELECT returns them.  The rows say which tiles are recorded as done;    *)
(* whether an image was saved with the record is TileDatabase's.           *)
(***************************************************************************)
EXTENDS Naturals, Sequences, Functions, FiniteSetsExt, SequencesExt

CONSTANTS NumTiles,     \* the tiles of the set
          Batch,        \* kTileBatchSize
          Concurrent,   \* QGeoTileFetcherQGC::concurrentDownloads
          LowWater,     \* concurrentDownloads * 10: below it the next batch is asked for
          MaxResumes    \* bound on the times the user resumes

ASSUME DownloadAssumption ==
    /\ NumTiles \in Nat \ {0} /\ Batch \in Nat \ {0} /\ Concurrent \in Nat \ {0}
    /\ LowWater \in Nat \ {0} /\ MaxResumes \in Nat

Tile == 1..NumTiles

VARIABLES
    row,            \* TilesDownload: "pending", "downloading", "error", "none"
    queue,          \* the worker's queue, this set's tasks of it
    valid,          \* _valid of the worker
    stranded,       \* the worker's thread has ended with tasks in its queue
    lists,          \* tileListFetched signals on their way
    inFlight,       \* tile -> number of network requests
    todo,           \* _tilesToDownload
    replies,        \* the keys of _replies
    downloading, cancelPending, noMoreTiles, batchRequested,
    errorCount, savedCount, totalCount,
    resumes,        \* how often the user has resumed
    overtaken,      \* a resume found requests or tiles of the download before it
    dropped,        \* tiles whose answer _networkReplyFinished threw away
    unheard         \* a list was asked for that will never come

worker == <<valid, stranded>>
net == <<inFlight, todo, replies>>
flags == <<downloading, cancelPending, noMoreTiles, batchRequested>>
counts == <<errorCount, savedCount, totalCount>>
history == <<resumes, overtaken, dropped>>
vars == <<row, queue, worker, lists, net, flags, counts, history, unheard>>

List == [type |-> "list"]
Retry == [type |-> "retry"]
Record(t) == [type |-> "record", tile |-> t]
Error(t) == [type |-> "error", tile |-> t]

\* QGCCachedTileSet::complete
Complete == totalCount <= savedCount

-----------------------------------------------------------------------------
(* The worker's queue *)

\* enqueueTask: without a database every task is refused, and no caller looks
Accept(tasks, task) == IF valid THEN Append(tasks, task) ELSE tasks

\* A worker with nothing to do ends its thread, and a task that comes between its
\* last look at the queue and the end wakes nobody.  The next task starts the
\* thread, or is late as well.
Strands ==
    stranded' \in IF queue' # queue /\ (queue = <<>> \/ stranded) THEN BOOLEAN
                                                               ELSE {stranded}

\* Another task of the application, for the display of the map say, starts the thread
Wake ==
    /\ valid /\ stranded
    /\ stranded' = FALSE
    /\ UNCHANGED <<row, queue, valid, lists, net, flags, counts, history, unheard>>

\* A reset or an import fails in _createDB, or the database cannot be opened when the
\* thread starts again: _valid stays FALSE
Outage ==
    /\ valid /\ ~stranded
    /\ valid' = FALSE
    /\ UNCHANGED <<row, queue, stranded, lists, net, flags, counts, history, unheard>>

-----------------------------------------------------------------------------
(* The steps the handlers share.  Each takes the values the handler has so   *)
(* far and fixes the next ones of the flags, errorCount, totalCount, queue   *)

\* createDownloadTask, with the tasks already enqueued; _batchRequested is set
\* whether or not the list was accepted
CreateDownloadTask(cancel, tasks, errors, batch) ==
    /\ cancelPending' = cancel
    /\ IF cancel
       THEN /\ downloading' = FALSE
            /\ queue' = tasks /\ batchRequested' = batch /\ errorCount' = errors
            /\ UNCHANGED <<noMoreTiles, unheard>>
       ELSE /\ downloading' = TRUE
            /\ queue' = Accept(tasks, List) /\ batchRequested' = TRUE
            /\ unheard' = (unheard \/ ~valid)
            /\ errorCount' = IF downloading THEN errors ELSE 0
            /\ noMoreTiles' = (downloading /\ noMoreTiles)

\* _doneWithDownload
DoneWithDownload(tasks, errors, saved, batch, noMore) ==
    /\ downloading' = FALSE
    /\ totalCount' = IF errors = 0 THEN saved ELSE totalCount
    /\ queue' = tasks /\ batchRequested' = batch /\ errorCount' = errors
    /\ noMoreTiles' = noMore
    /\ UNCHANGED <<cancelPending, unheard>>

\* Nothing but what the handler did itself
GoOn(tasks, errors, batch, noMore) ==
    /\ queue' = tasks /\ batchRequested' = batch /\ errorCount' = errors
    /\ noMoreTiles' = noMore
    /\ UNCHANGED <<downloading, cancelPending, unheard>>

\* The tiles the loop of _prepareDownload requests
Requests(tiles, keys) ==
    IF Cardinality(keys) >= Concurrent THEN <<>>
    ELSE SubSeq(tiles, 1, Min({Len(tiles), Concurrent - Cardinality(keys)}))

WantsBatch(rest, batch, noMore) == ~batch /\ ~noMore /\ Len(rest) < LowWater

CountIn(tiles, t) == Cardinality({i \in DOMAIN tiles : tiles[i] = t})

\* _prepareDownload, of the tiles to download and the requests left by the handler
PrepareDownload(tasks, errors, saved, tiles, keys, flying, batch, noMore) ==
    LET now == Requests(tiles, keys)
        rest == SubSeq(tiles, Len(now) + 1, Len(tiles))
    IN  /\ todo' = rest
        /\ replies' = keys \cup ToSet(now)
        /\ inFlight' = [t \in Tile |-> flying[t] + CountIn(now, t)]
        /\ \/ /\ tiles = <<>> /\ noMore
              /\ DoneWithDownload(tasks, errors, saved, batch, noMore)
           \/ /\ IF tiles = <<>> THEN ~noMore /\ ~batch
                                 ELSE now # <<>> /\ WantsBatch(rest, batch, noMore)
              /\ CreateDownloadTask(cancelPending, tasks, errors, batch)
              /\ UNCHANGED totalCount
           \/ /\ IF tiles = <<>> THEN ~noMore /\ batch
                                 ELSE now = <<>> \/ ~WantsBatch(rest, batch, noMore)
              /\ GoOn(tasks, errors, batch, noMore)
              /\ UNCHANGED totalCount

-----------------------------------------------------------------------------
\* _createTileSet has listed the tiles that are not in the cache, and _tileSetSaved
\* has called createDownloadTask
Init ==
    /\ \E missing \in 0..NumTiles :
         /\ row = [t \in Tile |-> IF t <= missing THEN "pending" ELSE "none"]
         /\ savedCount = NumTiles - missing
    /\ queue = <<List>> /\ lists = <<>>
    /\ valid = TRUE /\ stranded = FALSE /\ unheard = FALSE
    /\ inFlight = [t \in Tile |-> 0] /\ todo = <<>> /\ replies = {}
    /\ downloading = TRUE /\ cancelPending = FALSE
    /\ noMoreTiles = FALSE /\ batchRequested = TRUE
    /\ errorCount = 0 /\ totalCount = NumTiles
    /\ resumes = 0 /\ overtaken = FALSE /\ dropped = {}

Pending == {t \in Tile : row[t] = "pending"}
SetRows(ts, st) == [t \in Tile |-> IF t \in ts /\ row[t] # "none" THEN st ELSE row[t]]

\* The first Batch pending tiles in the order of their rows
Fetched == {t \in Pending : Cardinality({u \in Pending : u < t}) < Batch}

\* The rows as SELECT returns them
InOrder(ts) ==
    {s \in [1..Cardinality(ts) -> ts] : \A i, j \in DOMAIN s : i < j => s[i] < s[j]}

\* _getTileDownloadList marks the tiles it hands out
Taken == SetRows({}, "downloading")     \* mutant: they stay pending
Marked == SetRows(Fetched, "downloading")

\* _getTileDownloadList and _updateTileDownloadState, for all rows or for one
Execute(task) ==
    \/ /\ task.type = "list"
       /\ \E tiles \in InOrder(Fetched) : lists' = Append(lists, tiles)
       /\ row' = Marked
       /\ UNCHANGED dropped
    \/ /\ task.type = "retry"
       /\ row' = SetRows(Tile, "pending")
       /\ dropped' = {}
       /\ UNCHANGED lists
    \/ /\ task.type = "record"
       /\ row' = [row EXCEPT ![task.tile] = "none"]
       /\ UNCHANGED <<lists, dropped>>
    \/ /\ task.type = "error"
       /\ row' = SetRows({task.tile}, "error")
       /\ UNCHANGED <<lists, dropped>>

\* _testTask without a database: an error that no slot of the set receives
Fails(task) ==
    /\ unheard' = (unheard \/ task = List)
    /\ UNCHANGED <<row, lists, dropped>>

\* The worker runs the first task of the queue
RunTask ==
    /\ queue # <<>> /\ ~stranded
    /\ queue' = Tail(queue)
    /\ \/ valid /\ Execute(Head(queue)) /\ UNCHANGED unheard
       \/ ~valid /\ Fails(Head(queue))
    /\ UNCHANGED <<worker, net, flags, counts, resumes, overtaken>>

\* _tileListFetched
ShortOrFull(tiles) == Len(tiles) <= Batch   \* mutant
IsShort(tiles) == Len(tiles) < Batch
StillRequested == batchRequested            \* mutant: the flag is not reset
BatchAnswered == FALSE
TileListFetched ==
    /\ lists # <<>>
    /\ lists' = Tail(lists)
    /\ LET tiles == Head(lists)
           noMore == noMoreTiles \/ IsShort(tiles)
       IN  IF tiles = <<>>
           THEN /\ DoneWithDownload(queue, errorCount, savedCount, BatchAnswered, noMore)
                /\ UNCHANGED net
           ELSE PrepareDownload(queue, errorCount, savedCount, todo \o tiles, replies,
                                inFlight, BatchAnswered, noMore)
    /\ Strands
    /\ UNCHANGED <<row, valid, savedCount, history>>

Kept(t) == replies                          \* mutant: the reply stays in _replies
Without(t) == replies \ {t}
Land(t) == [inFlight EXCEPT ![t] = @ - 1]

\* _networkReplyFinished for an image of a known format, recorded as complete whether
\* or not cacheTile has enqueued its save
ReplyFinished(t) ==
    /\ inFlight[t] > 0
    /\ savedCount' = savedCount + 1
    /\ PrepareDownload(Accept(queue, Record(t)), errorCount, savedCount + 1, todo,
                       Without(t), Land(t), batchRequested, noMoreTiles)
    /\ Strands
    /\ UNCHANGED <<row, valid, lists, history>>

\* _networkReplyError, then _networkReplyFinished, which returns
ReplyError(t) ==
    /\ inFlight[t] > 0
    /\ PrepareDownload(Accept(queue, Error(t)), errorCount + 1, savedCount, todo,
                       Without(t), Land(t), batchRequested, noMoreTiles)
    /\ Strands
    /\ UNCHANGED <<row, valid, lists, savedCount, history>>

\* _networkReplyFinished for an empty image, one that cannot be serialized or one of
\* no known format: an early return
ReplyDropped(t) ==
    /\ inFlight[t] > 0
    /\ inFlight' = Land(t)
    /\ replies' = Without(t)
    /\ dropped' = dropped \cup {t}
    /\ UNCHANGED <<row, queue, worker, lists, todo, flags, counts, resumes, overtaken, unheard>>

\* cancelDownloadTask, from the button that is there while downloading
CancelDownloadTask ==
    /\ downloading /\ ~Complete
    /\ cancelPending' = TRUE
    /\ UNCHANGED <<row, queue, worker, lists, net, downloading, noMoreTiles, batchRequested,
                   counts, history, unheard>>

Still == queue = <<>> /\ lists = <<>> /\ \A t \in Tile : inFlight[t] = 0

\* resumeDownloadTask, from the button that is there when not downloading
ResumeDownloadTask ==
    /\ ~downloading /\ ~Complete
    /\ resumes < MaxResumes
    /\ resumes' = resumes + 1
    /\ overtaken' = (overtaken \/ ~(Still /\ todo = <<>>))
    /\ CreateDownloadTask(FALSE, Accept(queue, Retry), errorCount, batchRequested)
    /\ Strands
    /\ UNCHANGED <<row, valid, lists, net, savedCount, totalCount, dropped>>

\* Nothing is left to happen until the user does something
Idle == Still /\ UNCHANGED vars

Next ==
    \/ RunTask
    \/ TileListFetched
    \/ \E t \in Tile : ReplyFinished(t)
    \/ \E t \in Tile : ReplyError(t)
    \/ \E t \in Tile : ReplyDropped(t)
    \/ CancelDownloadTask
    \/ ResumeDownloadTask
    \/ Wake
    \/ Outage
    \/ Idle

\* The worker runs the tasks that are not stranded, queued signals are delivered, and
\* every request ends: it has a transfer timeout.  Nothing wakes a stranded worker.
Answered == \E t \in Tile : ReplyFinished(t) \/ ReplyError(t) \/ ReplyDropped(t)
Spec == Init /\ [][Next]_vars /\ WF_vars(RunTask) /\ WF_vars(TileListFetched)
             /\ WF_vars(Answered)

-----------------------------------------------------------------------------
(* Properties *)

Task == {List, Retry} \cup {Record(t) : t \in Tile} \cup {Error(t) : t \in Tile}

\* The type invariant; _replies has the requests in flight, each hash once.
TypeOK ==
    /\ row \in [Tile -> {"pending", "downloading", "error", "none"}]
    /\ dropped \subseteq Tile
    /\ ToSet(queue) \subseteq Task
    /\ \A i \in DOMAIN lists : ToSet(lists[i]) \subseteq Tile
    /\ inFlight \in [Tile -> Nat] /\ ToSet(todo) \subseteq Tile
    /\ replies \subseteq {t \in Tile : inFlight[t] > 0}
    /\ {downloading, cancelPending, noMoreTiles, batchRequested, overtaken} \subseteq BOOLEAN
    /\ {valid, stranded, unheard} \subseteq BOOLEAN
    /\ errorCount \in Nat /\ savedCount \in Nat /\ totalCount \in Nat
    /\ resumes \in 0..MaxResumes

\* The places where a tile that is being downloaded can be
Places(t) == CountIn(FlattenSeq(lists), t) + CountIn(todo, t) + inFlight[t]
             + CountIn(queue, Record(t)) + CountIn(queue, Error(t))

\* While the worker has its database, a tile that TilesDownload says is being
\* downloaded is in one place between the worker and its own recording, unless its
\* answer was thrown away, and no other tile is in any: nothing is requested twice and
\* nothing is lost.  (A resume that overtakes the requests of the cancelled download
\* does request tiles twice.)
Sound == valid /\ ~overtaken
OnePlace ==
    Sound => \A t \in Tile :
        Places(t) = IF row[t] = "downloading" /\ t \notin dropped THEN 1 ELSE 0

Inv == TypeOK /\ OnePlace

\* A set is shown as complete, which takes the button to resume from the user, only
\* when the worker has handed out every tile.  (Not: when every tile is recorded, nor
\* even asked for.  _prepareDownload and _tileListFetched end the download when
\* there is nothing more to fetch, with requests in flight and, after an empty list,
\* tiles in _tilesToDownload; the total is then what has been saved so far.)
CompleteIsTaken ==
    Complete /\ ~overtaken => Pending = {} /\ \A i \in DOMAIN lists : lists[i] = <<>>

\* If the worker is not left stranded for good, every tile is recorded as done or as
\* failed in the end, also those that were still to be asked for when the download
\* "ended", unless the user cancels, an answer is thrown away or the database is lost.
EveryTileTried ==
    []<>~stranded =>
        \A t \in Tile : row[t] \in {"pending", "downloading"} ~>
            (row[t] \in {"error", "none"} \/ cancelPending \/ dropped # {} \/ ~valid)

\* If the worker is not left stranded for good, a download ends, whatever requests fail
\* and whatever the user does, in all but two cases: an answer was thrown away, after
\* which the handler does not go on to the next tile, and the database was lost before
\* the last list, which then never comes.
Ends == []<>~stranded => (downloading ~> (~downloading \/ dropped # {} \/ unheard))
=============================================================================
