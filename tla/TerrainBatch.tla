---------------------------- MODULE TerrainBatch ----------------------------
(***************************************************************************)
(* TerrainAtCoordinateBatchManager: queries for the heights at lists of    *)
(* coordinates are collected for half a second, sent as one request and    *)
(* answered from the one list of heights that comes back.  Query objects   *)
(* delete themselves after their answer, or are deleted by their owners at *)
(* any time.  Everything runs on the main thread, but the answers are      *)
(* delivered by direct signals: the code of a query's owner runs between   *)
(* two steps of the loop over _sentRequests and may ask again or delete    *)
(* queries.                                                                *)
(*                                                                         *)
(* The tile manager behind _terrainQuery is the environment: it answers    *)
(* every request once, with heights or with a failure.  A coordinate is    *)
(* named by the request it belongs to, and so is its height.               *)
(***************************************************************************)
EXTENDS Naturals, Sequences, Functions, SequencesExt, FiniteSets

CONSTANTS Query,        \* the query objects
          AutoDelete,   \* those created with autoDelete
          Full,         \* a batch with more coordinates than this is full (50)
          MaxAsked,     \* bound on the requests made
          MaxAnswers,   \* bound on the answers that are noted of a request
          Owners        \* what owners of queries do, of which a behaviour has one:
                        \* how often they ask, for how many coordinates at most,
                        \* whether they delete queries, whether they ask twice with
                        \* one, and whether batches fail

ASSUME BatchAssumption ==
    /\ AutoDelete \subseteq Query /\ Full \in Nat
    /\ MaxAsked \in Nat /\ MaxAnswers \in Nat
    /\ Owners \subseteq [requests : 0..MaxAsked, coords : Nat, destroy : BOOLEAN,
                         reask : BOOLEAN, fail : BOOLEAN]

VARIABLES
    requestQueue,   \* _requestQueue
    sentRequests,   \* _sentRequests
    batchState,     \* _state: "Idle" or "Downloading"
    timer,          \* _batchTimer is active
    coords,         \* the coordinates of the request in flight, then the heights
    batchLoop,      \* the answering loop: 0, or the index of the next sent request
    success,        \* what the loop answers
    currentIndex,   \* the loop's position in the heights
    object,         \* query -> "live", "deleting" (deleteLater), "freed"
    watched,        \* query -> its destroyed() signal is connected
    askers,         \* the query object of each request made, in order
    got,            \* request -> the answers it received, the first MaxAnswers
    dangling,       \* a freed query was signalled
    doubled,        \* requests left behind a full batch were appended again
    owner           \* what the owners of this behaviour do

batch == <<sentRequests, batchState, coords, batchLoop, success, currentIndex>>
batchVars == <<requestQueue, batch, timer, object, watched, askers, got, dangling,
          doubled, owner>>

BatchRequest == 1..MaxAsked
Failed == <<>>

BatchInit ==
    /\ owner \in Owners
    /\ requestQueue = <<>> /\ sentRequests = <<>> /\ batchState = "Idle" /\ timer = FALSE
    /\ coords = <<>> /\ batchLoop = 0 /\ success = FALSE /\ currentIndex = 0
    /\ object = [q \in Query |-> "live"] /\ watched = [q \in Query |-> FALSE]
    /\ askers = <<>> /\ got = [r \in BatchRequest |-> <<>>]
    /\ dangling = FALSE /\ doubled = FALSE

OutOfBatchLoop == batchLoop = 0

\* requestData, addQuery
AddQuery(q, count) ==
    /\ object[q] = "live" /\ Len(askers) < owner.requests
    /\ owner.reask \/ q \notin ToSet(askers)
    /\ askers' = Append(askers, q)
    /\ requestQueue' = Append(requestQueue,
                             [query |-> q, id |-> Len(askers'), count |-> count])
    /\ watched' = [watched EXCEPT ![q] = TRUE]
    /\ timer' = TRUE
    /\ UNCHANGED <<batch, object, got, dangling, doubled>>

Coords(requests) == FlattenSeq([i \in DOMAIN requests |->
                        [k \in 1..requests[i].count |-> requests[i].id]])

\* With its first n requests the batch is full, or it has all that wait
Fills(n) == n = Len(requestQueue) \/ Len(Coords(SubSeq(requestQueue, 1, n))) > Full

\* How many requests are dequeued for a batch: up to the first that fills it
Taken == CHOOSE n \in 1..Len(requestQueue) : Fills(n) /\ \A k \in 1..(n - 1) : ~Fills(k)

\* What is left of the queue: the rest, and after it the rest without its first n
RestAll(n) == requestQueue               \* mutant: nothing is taken from the queue
Left(n) == SubSeq(requestQueue, n + 1, Len(requestQueue))
Rest(n) == Left(n) \o SubSeq(Left(n), n + 1, Len(Left(n)))

Sent(r) == [query |-> r.query, id |-> r.id, count |-> r.count, destroyed |-> FALSE]

\* _sendNextBatch
SendNextBatch ==
    /\ timer /\ OutOfBatchLoop
    /\ IF batchState # "Idle"
       THEN timer' = TRUE /\ UNCHANGED <<requestQueue, batch, doubled>>
       ELSE /\ timer' = FALSE
            /\ IF requestQueue = <<>>
               THEN UNCHANGED <<requestQueue, batch, doubled>>
               ELSE LET now == SubSeq(requestQueue, 1, Taken) IN
                    /\ sentRequests' = [i \in DOMAIN now |-> Sent(now[i])]
                    /\ coords' = Coords(now)
                    /\ requestQueue' = Rest(Taken)
                    /\ doubled' = (doubled \/ Len(Left(Taken)) > Taken)
                    /\ batchState' = "Downloading"
                    /\ UNCHANGED <<batchLoop, success, currentIndex>>
    /\ UNCHANGED <<object, watched, askers, got, dangling>>

\* _coordinateHeights: the answer of the tile manager, up to the loop
CoordinateHeights ==
    /\ batchState = "Downloading" /\ OutOfBatchLoop
    /\ batchState' = "Idle"
    /\ success' \in {TRUE} \cup (IF owner.fail THEN {FALSE} ELSE {})
    /\ batchLoop' = 1 /\ currentIndex' = 0
    /\ UNCHANGED <<requestQueue, sentRequests, coords, timer, object, watched, askers, got,
                   dangling, doubled>>

FirstHeights(s) == SubSeq(coords, 1, s.count)    \* mutant: always from the start
BatchHeights(s) == SubSeq(coords, currentIndex + 1, currentIndex + s.count)

\* The loop in _coordinateHeights or _batchFailed comes to a query that is there:
\* it is signalled, and is deleted later if it said so
SignalTerrainData ==
    /\ batchLoop \in DOMAIN sentRequests
    /\ LET s == sentRequests[batchLoop] IN
       /\ ~s.destroyed
       /\ watched' = [watched EXCEPT ![s.query] = FALSE]
       /\ dangling' = (dangling \/ object[s.query] = "freed")
       /\ got' = IF Len(got[s.id]) < MaxAnswers
                 THEN [got EXCEPT ![s.id] =
                         Append(@, IF success THEN BatchHeights(s) ELSE Failed)]
                 ELSE got
       /\ object' = IF s.query \in AutoDelete /\ object[s.query] = "live"
                    THEN [object EXCEPT ![s.query] = "deleting"] ELSE object
       /\ currentIndex' = currentIndex + s.count
    /\ batchLoop' = batchLoop + 1
    /\ UNCHANGED <<requestQueue, sentRequests, batchState, coords, success, timer, askers,
                   doubled>>

\* ... to a query that has been destroyed: it is passed over
SkipDestroyed ==
    /\ batchLoop \in DOMAIN sentRequests
    /\ sentRequests[batchLoop].destroyed
    /\ batchLoop' = batchLoop + 1
    /\ UNCHANGED <<requestQueue, sentRequests, batchState, coords, success, currentIndex, timer,
                   object, watched, askers, got, dangling, doubled>>

NeverDue == FALSE                        \* mutant: the timer is not started
NextBatchDue == success /\ requestQueue # <<>>

\* ... to the end: only a batch that succeeded starts the timer for the next
EndOfBatch ==
    /\ batchLoop = Len(sentRequests) + 1
    /\ batchLoop' = 0
    /\ sentRequests' = <<>> /\ coords' = <<>> /\ currentIndex' = 0
    /\ timer' = (timer \/ NextBatchDue)
    /\ UNCHANGED <<requestQueue, batchState, success, object, watched, askers, got,
                   dangling, doubled>>

\* The requests at some places of the queue, in order
InOrder(places) ==
    {at \in [1..Cardinality(places) -> places] : \A i, j \in DOMAIN at : i < j => at[i] < at[j]}
RequestsAt(places) == {[i \in DOMAIN at |-> requestQueue[at[i]]] : at \in InOrder(places)}

Zombie(s, q) == IF s.query = q THEN [s EXCEPT !.destroyed = TRUE] ELSE s

\* ~QObject, and _queryObjectDestroyed while it is connected
QueryObjectDestroyed(q) ==
    /\ object' = [object EXCEPT ![q] = "freed"]
    /\ IF watched[q]
       THEN /\ requestQueue' \in
                  RequestsAt({i \in DOMAIN requestQueue : requestQueue[i].query # q})
            /\ sentRequests' = [i \in DOMAIN sentRequests |-> Zombie(sentRequests[i], q)]
       ELSE UNCHANGED <<requestQueue, sentRequests>>
    /\ watched' = [watched EXCEPT ![q] = FALSE]
    /\ UNCHANGED <<batchState, coords, batchLoop, success, currentIndex, timer, askers, got,
                   dangling, doubled>>

\* A deleteLater is carried out by the event loop
Delete(q) == object[q] = "deleting" /\ OutOfBatchLoop /\ QueryObjectDestroyed(q)

\* An owner deletes a query it has not been answered by: never one whose own signal
\* is being emitted
Destroy(q) == owner.destroy /\ object[q] = "live" /\ QueryObjectDestroyed(q)

\* Nothing is left to do but what owners do
BatchRests == ~timer /\ batchState = "Idle" /\ OutOfBatchLoop
         /\ (\A q \in Query : object[q] # "deleting")
         /\ UNCHANGED batchVars

Step ==
    \/ \E q \in Query, count \in 1..owner.coords : AddQuery(q, count)
    \/ SendNextBatch
    \/ CoordinateHeights
    \/ SignalTerrainData
    \/ SkipDestroyed
    \/ EndOfBatch
    \/ \E q \in Query : Delete(q)
    \/ \E q \in Query : Destroy(q)
    \/ BatchRests

BatchNext == UNCHANGED owner /\ Step

Loop == SignalTerrainData \/ SkipDestroyed \/ EndOfBatch
BatchSpec == BatchInit /\ [][BatchNext]_batchVars
        /\ WF_batchVars(UNCHANGED owner /\ SendNextBatch)
        /\ WF_batchVars(UNCHANGED owner /\ CoordinateHeights)
        /\ WF_batchVars(UNCHANGED owner /\ Loop)
        /\ \A q \in Query : WF_batchVars(UNCHANGED owner /\ Delete(q))

-----------------------------------------------------------------------------
(* Properties *)

Queued == [query : Query, id : BatchRequest, count : 1..owner.coords]

\* The type invariant; while a batch is with the tile manager or being answered,
\* coords are the coordinates of the sent requests.
BatchTypeOK ==
    /\ ToSet(requestQueue) \subseteq Queued
    /\ \A i \in DOMAIN sentRequests :
         sentRequests[i] \in [query : Query, id : BatchRequest, count : 1..owner.coords,
                              destroyed : BOOLEAN]
    /\ batchState \in {"Idle", "Downloading"} /\ timer \in BOOLEAN /\ success \in BOOLEAN
    /\ coords = Coords(sentRequests)
    /\ batchLoop \in 0..(Len(sentRequests) + 1) /\ currentIndex \in 0..Len(coords)
    /\ object \in [Query -> {"live", "deleting", "freed"}] /\ watched \in [Query -> BOOLEAN]
    /\ askers \in Seq(Query) /\ Len(askers) <= owner.requests /\ dangling \in BOOLEAN
    /\ doubled \in BOOLEAN

\* "terrain query for a list of lon,lat coordinates": the heights a query receives are
\* those of its own coordinates, unless a query before it in the batch was destroyed
\* while the batch was in flight: its heights are then not passed over.
Answered(r) == got'[r] # got[r] /\ success
OwnHeights ==
    [][\A r \in BatchRequest :
          Answered(r) /\ (\A i \in 1..(batchLoop - 1) : ~sentRequests[i].destroyed)
              => ToSet(Last(got'[r])) = {r}]_batchVars

\* A batch that failed leaves the rest of the queue without a timer: until somebody
\* asks again nothing is sent.
Stalled == ~success /\ ~timer /\ batchState = "Idle" /\ OutOfBatchLoop

\* "When the query is done, the terrainData() signal is emitted": every request is
\* answered, unless its query object is destroyed or the queue stalls.
EveryQueryAnswered ==
    \A r \in BatchRequest : r \in DOMAIN askers
        ~> (Stalled \/ got[r] # <<>> \/ (r \in DOMAIN askers /\ object[askers[r]] = "freed"))

\* "object will delete itself after it signals results": there is no result to signal
\* after that, so no query is signalled when it is gone, unless owners ask twice with
\* one query object, whose first answer ends the watch on it, or requests that were
\* left behind a full batch have been doubled: then one answer is as good as two.
AsksTwice == ~IsInjective(askers)
NoDangling == dangling => AsksTwice \/ doubled

\* No query is answered twice, unless more was left behind a full batch than was in it.
AnsweredOnce == ~doubled => \A r \in BatchRequest : Len(got[r]) <= 1

\* A batch that succeeded leaves no request waiting without a timer or a batch whose
\* end starts it, also when owners ask and delete in between.
QueueIsServed ==
    requestQueue # <<>> /\ success => timer \/ batchState = "Downloading" \/ batchLoop > 0

\* The bookkeeping of the queue: its coordinates, who is still to be served, and by
\* what, and that nobody who is gone is signalled.
BatchInv == BatchTypeOK /\ AnsweredOnce /\ QueueIsServed /\ NoDangling
=============================================================================
