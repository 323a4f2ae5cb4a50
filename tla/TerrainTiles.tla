---------------------------- MODULE TerrainTiles ----------------------------
(***************************************************************************)
(* TerrainTileManager, which keeps the elevation tiles and downloads one   *)
(* at a time, with the TerrainPolyPathQuery objects that use it: such a    *)
(* query asks for the segments of a path one after the other, each when    *)
(* the one before is answered.  Everything runs on the main thread, but    *)
(* the answers are direct signals: while the manager goes through its      *)
(* queue, a query asks for its next segment, and its owner may ask for     *)
(* new paths, in the middle of the loop.                                   *)
(*                                                                         *)
(* A segment is the sequence of tiles its coordinates lie in.  A query at  *)
(* coordinates is a path of one segment.  The network and the tile cache   *)
(* (QGeoTiledMapReplyQGC) are the environment: a tile, bytes that are no   *)
(* valid tile, or an error.                                                *)
(***************************************************************************)
EXTENDS Naturals, Sequences, Functions, SequencesExt, FiniteSets

CONSTANTS Client,       \* the query objects
          NoClient,     \* not one of them
          Tile,         \* the elevation tiles
          Paths,        \* the paths that are asked for: sequences of segments
          MaxRequests,  \* bound on the paths asked for
          MayMiss       \* the cache is out of order and there is no network

ASSUME TilesAssumption ==
    /\ NoClient \notin Client
    /\ MaxRequests \in Nat /\ MayMiss \in BOOLEAN
    /\ \A p \in Paths : p \in Seq(Seq(Tile)) /\ p # <<>>

VARIABLES
    tiles,      \* _tiles
    state,      \* _state: "Idle" or "Downloading"
    replies,    \* the tiles whose reply is connected and has not finished
    queue,      \* _requestQueue
    loop,       \* the loop over the queue: its kind and its position
    calling,    \* the query about to call addPathQuery
    slot,       \* the owner of a query is being signalled
    path,       \* query -> _rgCoords
    curIndex,   \* query -> _curIndex, from 1
    infos,      \* query -> _rgPathHeightInfo, as the segments it is about
    status,     \* query -> "idle", "waiting", "done", "failed"
    asked,      \* the paths asked for so far
    again,      \* the queries asked again after they had succeeded
    lost,       \* the queries whose request was cleared from the queue unanswered
    missed      \* a reply finished before it was connected

manager == <<tiles, state, replies, missed>>
client == <<path, curIndex, infos, status>>
history == <<asked, again, lost>>
vars == <<manager, queue, loop, calling, slot, client, history>>

NoLoop == [kind |-> "none", at |-> 0, last |-> 0]

Init ==
    /\ tiles = {} /\ state = "Idle" /\ replies = {} /\ missed = FALSE
    /\ queue = <<>> /\ loop = NoLoop /\ calling = NoClient /\ slot = FALSE
    /\ path = [c \in Client |-> <<>>] /\ curIndex = [c \in Client |-> 1]
    /\ infos = [c \in Client |-> <<>>] /\ status = [c \in Client |-> "idle"]
    /\ asked = 0 /\ again = {} /\ lost = {}

InEventLoop == loop = NoLoop /\ calling = NoClient

-----------------------------------------------------------------------------
Cached(segment) == ToSet(segment) \subseteq tiles

FirstMissing(segment) == SelectInSeq(segment, LAMBDA t : t \notin tiles)

\* getAltitudesForCoordinates of coordinates that are not all in known tiles: the
\* download of the first missing tile unless one is running.  The constructor of the
\* reply may finish it on the spot, before finished() is connected.
Download(segment) ==
    IF state = "Downloading"
    THEN UNCHANGED manager
    ELSE /\ state' = "Downloading"
         /\ \/ /\ replies' = replies \cup {segment[FirstMissing(segment)]}
               /\ UNCHANGED missed
            \/ MayMiss /\ missed' = TRUE /\ UNCHANGED replies
         /\ UNCHANGED tiles

KeptInfos(c) == infos[c]                      \* mutant: a failure keeps the list
FailedInfos(c) == <<>>

\* TerrainPolyPathQuery::_terrainDataReceived of a failure: the owner is signalled,
\* in the middle of a loop if there is one
ReceiveFailure(c) ==
    /\ infos' = [infos EXCEPT ![c] = FailedInfos(c)]
    /\ status' = [status EXCEPT ![c] = "failed"]
    /\ again' = again \ {c}
    /\ slot' = (loop # NoLoop) /\ calling' = NoClient
    /\ UNCHANGED <<path, curIndex>>

\* ... of the heights of a segment: the next segment, or the owner is signalled
ReceiveSegment(c, segment) ==
    /\ infos' = [infos EXCEPT ![c] = Append(@, segment)]
    /\ curIndex' = [curIndex EXCEPT ![c] = @ + 1]
    /\ IF curIndex[c] >= Len(path[c])
       THEN /\ status' = [status EXCEPT ![c] = "done"]
            /\ slot' = (loop # NoLoop) /\ calling' = NoClient
       ELSE calling' = c /\ UNCHANGED <<status, slot>>
    /\ UNCHANGED <<path, again>>

\* The tiles of a segment are all there: its heights, or a failure if a tile has no
\* height for one of the coordinates
Receive(c, segment) == ReceiveSegment(c, segment) \/ ReceiveFailure(c)

\* TerrainPolyPathQuery::requestData, by an owner from the event loop or from inside
\* a signal; a query is not asked again while it is waiting
RequestData(c, p) ==
    /\ calling = NoClient
    /\ loop = NoLoop \/ slot
    /\ status[c] # "waiting"
    /\ asked < MaxRequests
    /\ asked' = asked + 1
    /\ again' = IF status[c] = "done" THEN again \cup {c} ELSE again
    /\ path' = [path EXCEPT ![c] = p]
    /\ curIndex' = [curIndex EXCEPT ![c] = 1]
    /\ status' = [status EXCEPT ![c] = "waiting"]
    /\ calling' = c
    /\ UNCHANGED <<manager, queue, loop, slot, infos, lost>>

\* addPathQuery: answered on the spot, or queued
AddPathQuery ==
    /\ calling # NoClient
    /\ LET segment == path[calling][curIndex[calling]] IN
       IF Cached(segment)
       THEN Receive(calling, segment) /\ UNCHANGED <<manager, queue>>
       ELSE /\ queue' = Append(queue, [client |-> calling, segment |-> segment])
            /\ Download(segment)
            /\ calling' = NoClient
            /\ UNCHANGED <<slot, client, again>>
    /\ UNCHANGED <<loop, asked, lost>>

\* getAltitudesForCoordinates by itself: it may start a download nobody waits for
GetAltitudes(segment) ==
    /\ InEventLoop
    /\ ~Cached(segment) /\ state = "Idle"
    /\ Download(segment)
    /\ UNCHANGED <<queue, loop, calling, slot, client, history>>

StillDownloading == state                     \* mutant: _state is not reset
AfterReply == "Idle"

\* _terrainDone, up to its loop over the queue or that of _tileFailed
TerrainDone(t, answer) ==
    /\ InEventLoop
    /\ t \in replies
    /\ replies' = replies \ {t}
    /\ state' = AfterReply
    /\ tiles' = IF answer = "tile" THEN tiles \cup {t} ELSE tiles
    /\ loop' = IF answer = "error"
               THEN [kind |-> "fail", at |-> 1, last |-> Len(queue)]
               ELSE [kind |-> "answer", at |-> Len(queue), last |-> Len(queue)]
    /\ UNCHANGED <<missed, queue, calling, slot, client, history>>

InLoop(kind) == loop.kind = kind /\ calling = NoClient

\* _terrainDone goes through the queue from its end: a request whose tiles are all
\* there is signalled (and leaves the queue when the signal returns, until when the
\* queue only grows at its end), another starts the next download
AnswerRequest ==
    /\ InLoop("answer") /\ loop.at > 0
    /\ loop' = [loop EXCEPT !.at = @ - 1]
    /\ LET r == queue[loop.at] IN
       IF Cached(r.segment)
       THEN /\ queue' = RemoveAt(queue, loop.at)
            /\ Receive(r.client, r.segment)
            /\ UNCHANGED manager
       ELSE /\ Download(r.segment)
            /\ slot' = FALSE
            /\ UNCHANGED <<queue, calling, client, again>>
    /\ UNCHANGED <<asked, lost>>

\* _tileFailed fails every request that was there when its loop began
FailRequest ==
    /\ InLoop("fail") /\ loop.at <= loop.last
    /\ loop' = [loop EXCEPT !.at = @ + 1]
    /\ ReceiveFailure(queue[loop.at].client)
    /\ UNCHANGED <<manager, queue, asked, lost>>

\* The queue has grown under the iterators of that loop: they may be into memory
\* that is gone
Crash ==
    /\ InLoop("fail") /\ loop.at <= loop.last
    /\ Len(queue) > loop.last
    /\ loop' = [loop EXCEPT !.kind = "crashed"]
    /\ UNCHANGED <<manager, queue, calling, slot, client, history>>

\* The end of the loops; _tileFailed clears the queue
StillQueued == queue                          \* mutant: it does not
AnswerEnd ==
    /\ InLoop("answer") /\ loop.at = 0
    /\ loop' = NoLoop /\ slot' = FALSE
    /\ UNCHANGED <<manager, queue, calling, client, history>>
QueueAfterFailure == <<>>
FailEnd ==
    /\ InLoop("fail") /\ loop.at > loop.last
    /\ loop' = NoLoop /\ slot' = FALSE
    /\ queue' = QueueAfterFailure
    /\ lost' = lost \cup {queue[i].client : i \in (loop.last + 1)..Len(queue)}
    /\ UNCHANGED <<manager, calling, client, asked, again>>

Answer == {"tile", "invalid", "error"}

\* Nothing is left to do but what owners do
Rests == \/ InEventLoop /\ replies = {} /\ UNCHANGED vars
         \/ loop.kind = "crashed" /\ UNCHANGED vars

Next ==
    \/ \E c \in Client, p \in Paths : RequestData(c, p)
    \/ AddPathQuery
    \/ \E p \in Paths : GetAltitudes(p[1])
    \/ \E t \in Tile, a \in Answer : TerrainDone(t, a)
    \/ AnswerRequest \/ AnswerEnd
    \/ FailRequest \/ FailEnd \/ Crash
    \/ Rests

\* The code of a call goes on, and a reply finishes: its request has a timeout
Spec == Init /\ [][Next]_vars
        /\ WF_vars(AddPathQuery)
        /\ WF_vars(AnswerRequest \/ AnswerEnd \/ FailRequest \/ FailEnd)
        /\ WF_vars(\E t \in Tile, a \in Answer : TerrainDone(t, a))

-----------------------------------------------------------------------------
(* Properties *)

Segments == UNION {ToSet(p) : p \in Paths}

\* The type invariant; at most one tile is downloaded at a time.
TypeOK ==
    /\ tiles \subseteq Tile /\ replies \subseteq Tile
    /\ state \in {"Idle", "Downloading"} /\ missed \in BOOLEAN /\ slot \in BOOLEAN
    /\ state = "Idle" => replies = {}
    /\ \A t, u \in replies : t = u
    /\ ToSet(queue) \subseteq [client : Client, segment : Segments]
    /\ loop.kind \in {"none", "answer", "fail", "crashed"} /\ loop.at \in Nat
    /\ loop.last <= Len(queue) \/ loop.kind = "answer"
    /\ calling \in Client \cup {NoClient}
    /\ \A c \in Client : path[c] \in Paths \cup {<<>>} /\ ToSet(infos[c]) \subseteq Segments
    /\ curIndex \in [Client -> Nat \ {0}]
    /\ status \in [Client -> {"idle", "waiting", "done", "failed"}]
    /\ asked \in 0..MaxRequests /\ again \subseteq Client /\ lost \subseteq Client

\* Whatever the owners did inside their signals, a queue that is not empty has a
\* download that will go through it again.
QueueHasDownload == InEventLoop /\ queue # <<>> => state = "Downloading"

\* Each waiting query has exactly one request in the queue, the one for its current
\* segment, unless _tileFailed cleared it unanswered, and no other query has any.
EachQueuedOnce ==
    InEventLoop => \A c \in Client \ lost :
        LET own == {i \in DOMAIN queue : queue[i].client = c} IN
        /\ Cardinality(own) = (IF status[c] = "waiting" THEN 1 ELSE 0)
        /\ \A i \in own : queue[i].segment = path[c][curIndex[c]]

\* Between two events the queue is exactly what is waited for, and it will be served.
Inv == TypeOK /\ QueueHasDownload /\ EachQueuedOnce

\* A path query that succeeds has the heights of each segment of its path, in order,
\* whatever failed before (but see the list that is not cleared after a success).
OwnPath == \A c \in Client \ again : status[c] = "done" => infos[c] = path[c]

\* Each path query is answered, unless _tileFailed cleared it from the queue, the end
\* of a download was missed, or bytes that are no tile come again and again.
EveryPathAnswered ==
    \/ \A c \in Client :
         status[c] = "waiting"
             ~> (status[c] # "waiting" \/ c \in lost \/ missed \/ loop.kind = "crashed")
    \/ []<><<\E t \in Tile : TerrainDone(t, "invalid")>>_vars
=============================================================================
