------------------------- MODULE TerrainTilesProofs -------------------------
(***************************************************************************)
(* Proofs about TerrainTiles, for all query objects, tiles and paths, and  *)
(* about TerrainBatch, for all query objects and owners.                   *)
(***************************************************************************)
EXTENDS TerrainTiles, TerrainBatch, SequenceTheorems, FiniteSetTheorems,
        WellFoundedInduction, TLAPS

-----------------------------------------------------------------------------
(* Sequences, segments and paths *)

\* What is left of a queue when an element is taken out of its middle.
LEMMA RemoveAtProperties ==
    ASSUME NEW S, NEW q \in Seq(S), NEW i \in 1..Len(q)
    PROVE  /\ RemoveAt(q, i) \in Seq(S)
           /\ Len(RemoveAt(q, i)) = Len(q) - 1
           /\ \A j \in 1..(Len(q) - 1) : RemoveAt(q, i)[j] = IF j < i THEN q[j] ELSE q[j + 1]
<1> DEFINE a == SubSeq(q, 1, i - 1)
           b == SubSeq(q, i + 1, Len(q))
<1>1. Len(q) \in Nat /\ \A j \in 1..Len(q) : q[j] \in S
  BY LenProperties, ElementOfSeq
<1>2. /\ a \in Seq(S) /\ Len(a) = i - 1
      /\ \A j \in 1..(i - 1) : a[j] = q[j]
  <2>1. \A j \in 1..(i - 1) : q[j] \in S
    BY <1>1
  <2>2. 1 \in Int /\ i - 1 \in Int
    BY <1>1
  <2>3. /\ a \in Seq(S)
        /\ Len(a) = IF 1 <= i - 1 THEN i - 1 - 1 + 1 ELSE 0
        /\ \A j \in 1..(i - 1 - 1 + 1) : a[j] = q[1 + j - 1]
    BY <2>1, <2>2, SubSeqProperties
  <2> HIDE DEF a
  <2> QED  BY <1>1, <2>3
<1>3. /\ b \in Seq(S) /\ Len(b) = Len(q) - i
      /\ \A j \in 1..(Len(q) - i) : b[j] = q[i + j]
  <2>1. \A j \in (i + 1)..Len(q) : q[j] \in S
    BY <1>1
  <2>2. i + 1 \in Int /\ Len(q) \in Int
    BY <1>1
  <2>3. /\ b \in Seq(S)
        /\ Len(b) = IF i + 1 <= Len(q) THEN Len(q) - (i + 1) + 1 ELSE 0
        /\ \A j \in 1..(Len(q) - (i + 1) + 1) : b[j] = q[(i + 1) + j - 1]
    BY <2>1, <2>2, SubSeqProperties
  <2> HIDE DEF b
  <2> QED  BY <1>1, <2>3
<1> HIDE DEF a, b
<1>4. /\ a \o b \in Seq(S) /\ Len(a \o b) = Len(a) + Len(b)
      /\ \A j \in 1..(Len(a) + Len(b)) :
            (a \o b)[j] = IF j <= Len(a) THEN a[j] ELSE b[j - Len(a)]
  BY <1>2, <1>3, ConcatProperties
<1>5. RemoveAt(q, i) = a \o b
  BY DEF RemoveAt, a, b
<1>6. ASSUME NEW j \in 1..(Len(q) - 1)
      PROVE  (a \o b)[j] = IF j < i THEN q[j] ELSE q[j + 1]
  <2>1. CASE j < i
    BY <1>1, <1>2, <1>3, <1>4, <2>1
  <2>2. CASE ~(j < i)
    <3>1. j - (i - 1) \in 1..(Len(q) - i) /\ i + (j - (i - 1)) = j + 1
      BY <1>1, <2>2
    <3>2. (a \o b)[j] = b[j - (i - 1)]
      BY <1>1, <1>2, <1>3, <1>4, <2>2
    <3>3. b[j - (i - 1)] = q[i + (j - (i - 1))]
      BY <1>3, <3>1
    <3>4. (a \o b)[j] = q[j + 1]
      BY Zenon, <3>1, <3>2, <3>3
    <3> QED  BY <2>2, <3>4
  <2> QED  BY <2>1, <2>2
<1> QED  BY <1>1, <1>2, <1>3, <1>4, <1>5, <1>6

\* The elements a path is made of are segments, and a segment is made of tiles.
LEMMA SegmentsOfPaths ==
    /\ \A p \in Paths : /\ p \in Seq(Seq(Tile)) /\ Len(p) \in Nat \ {0}
                        /\ \A i \in 1..Len(p) : p[i] \in Segments
    /\ \A s \in Segments : s \in Seq(Tile)
<1>1. ASSUME NEW p \in Paths
      PROVE  /\ p \in Seq(Seq(Tile)) /\ Len(p) \in Nat \ {0} /\ DOMAIN p = 1..Len(p)
             /\ \A i \in 1..Len(p) : p[i] \in Seq(Tile)
  BY TilesAssumption, LenProperties, ElementOfSeq, EmptySeq
<1>2. ASSUME NEW p \in Paths, NEW i \in 1..Len(p) PROVE p[i] \in Segments
  BY <1>1 DEF Segments, ToSet
<1>3. ASSUME NEW s \in Segments PROVE s \in Seq(Tile)
  BY <1>1 DEF Segments, ToSet
<1> QED  BY <1>1, <1>2, <1>3

\* The download of a segment that is not cached is that of one of its tiles.
LEMMA MissingTile ==
    ASSUME NEW segment \in Seq(Tile), ~Cached(segment)
    PROVE  segment[FirstMissing(segment)] \in Tile
<1> DEFINE I == {i \in 1..Len(segment) : segment[i] \notin tiles}
           R == OpToRel(<, Nat)
<1>1. /\ Len(segment) \in Nat /\ DOMAIN segment = 1..Len(segment)
      /\ \A i \in 1..Len(segment) : segment[i] \in Tile
  BY LenProperties, ElementOfSeq
<1>2. I # {} /\ I \subseteq Nat
  BY <1>1 DEF Cached, ToSet
<1>3. FirstMissing(segment) = Min(I)
  BY <1>2 DEF FirstMissing, SelectInSeq
<1>4. \A x, y \in Nat : x < y => <<x, y>> \in R
  BY DEF OpToRel
<1>5. IsWellFoundedOn(R, Nat)
  BY NatLessThanWellFounded
<1> HIDE DEF R, I
<1>6. PICK m \in I : \A y \in I : <<y, m>> \notin R
  BY <1>2, <1>5, WFMin
<1>7. ASSUME NEW y \in I PROVE m <= y
  <2>1. y \in Nat /\ m \in Nat
    BY <1>2
  <2>2. ~(y < m)
    BY <1>4, <1>6, <2>1
  <2> QED  BY <2>1, <2>2
<1>8. Min(I) \in I
  BY <1>7 DEF Min
<1> QED  BY <1>1, <1>3, <1>8 DEF I

-----------------------------------------------------------------------------
(* The inductive invariant *)

Request == [client : Client, segment : Segments]
ManagerTyped ==
    /\ tiles \subseteq Tile /\ replies \subseteq Tile
    /\ state \in {"Idle", "Downloading"} /\ missed \in BOOLEAN
    /\ state = "Idle" => replies = {}
    /\ \A t, u \in replies : t = u
ClientTyped ==
    /\ path \in [Client -> Paths \cup {<<>>}]
    /\ curIndex \in [Client -> Nat \ {0}]
    /\ infos \in [Client -> Seq(Segments)]
    /\ status \in [Client -> {"idle", "waiting", "done", "failed"}]
RestTyped ==
    /\ slot \in BOOLEAN
    /\ asked \in 0..MaxRequests /\ again \subseteq Client /\ lost \subseteq Client

\* Where a loop is: the one of _tileFailed goes up, over what was there when it began
LoopTyped ==
    /\ loop.kind \in {"none", "answer", "fail", "crashed"}
    /\ loop.at \in Nat /\ loop.last \in Nat
    /\ loop.kind = "none" => loop = NoLoop
    /\ loop.kind = "answer" => loop.at <= Len(queue)
    /\ loop.kind \in {"fail", "crashed"} =>
          loop.at \in 1..(loop.last + 1) /\ loop.last <= Len(queue)

\* What the loop of _terrainDone has passed by was answered or started a download
Served ==
    /\ loop.kind = "none" /\ queue # <<>> => state = "Downloading"
    /\ loop.kind = "answer" /\ state = "Idle" => Len(queue) = loop.at

\* The requests that are still to be answered: all, but for those the loop of
\* _tileFailed has failed and not removed yet
First == IF loop.kind \in {"fail", "crashed"} THEN loop.at ELSE 1
Live == First..Len(queue)
Asks(c) == status[c] = "waiting" /\ c # calling

OneEach == \A i, j \in Live : queue[i].client = queue[j].client => i = j
Current ==
    \A i \in Live : LET c == queue[i].client IN
        Asks(c) /\ queue[i].segment = path[c][curIndex[c]]
NoneMissing == \A c \in Client \ lost : Asks(c) => \E i \in Live : queue[i].client = c
OnPath(c) == path[c] \in Paths /\ curIndex[c] \in 1..Len(path[c])
Underway ==
    /\ calling \in Client \cup {NoClient}
    /\ calling # NoClient => status[calling] = "waiting"
    /\ \A c \in Client : status[c] = "waiting" => OnPath(c)

\* What a query has collected
Collected(c) ==
    /\ Len(infos[c]) = curIndex[c] - 1
    /\ \A i \in 1..(curIndex[c] - 1) : infos[c][i] = path[c][i]
Heights ==
    \A c \in Client \ again :
        /\ status[c] = "waiting" => Collected(c)
        /\ status[c] = "done" => infos[c] = path[c]
        /\ status[c] \in {"idle", "failed"} => infos[c] = <<>>

QueueTyped == queue \in Seq(Request)
Requests == QueueTyped /\ OneEach /\ Current /\ NoneMissing /\ Underway
IInv == ManagerTyped /\ ClientTyped /\ RestTyped /\ LoopTyped /\ Served /\ Requests /\ Heights

-----------------------------------------------------------------------------
(* What the helpers keep of it *)

\* A query that waits is about a segment of one of the paths.
LEMMA CurrentSegment ==
    ASSUME NEW c \in Client, OnPath(c)
    PROVE  path[c][curIndex[c]] \in Segments /\ path[c][curIndex[c]] \in Seq(Tile)
  BY SegmentsOfPaths DEF OnPath

\* A call that finds a tile missing leaves the manager downloading.
LEMMA Downloaded ==
    ASSUME ManagerTyped, NEW segment \in Seq(Tile), ~Cached(segment), Download(segment)
    PROVE  ManagerTyped' /\ state' = "Downloading" /\ tiles' = tiles
<1>1. CASE state = "Downloading"
  BY <1>1 DEF Download, ManagerTyped, manager
<1>2. CASE state # "Downloading"
  <2>1. replies = {} /\ state = "Idle"
    BY <1>2 DEF ManagerTyped
  <2>2. segment[FirstMissing(segment)] \in Tile
    BY MissingTile
  <2>3. /\ state' = "Downloading" /\ tiles' = tiles
        /\ \/ replies' = replies \cup {segment[FirstMissing(segment)]} /\ missed' = missed
           \/ missed' = TRUE /\ replies' = replies
    BY <1>2 DEF Download
  <2> QED  BY <2>1, <2>2, <2>3 DEF ManagerTyped
<1> QED  BY <1>1, <1>2

\* A segment that is answered is the next of its path; the query goes on to the one
\* after it, or is done and has its whole path.
LEMMA SegmentReceived ==
    ASSUME ClientTyped, RestTyped, Heights, NEW c \in Client, status[c] = "waiting", OnPath(c),
           ReceiveSegment(c, path[c][curIndex[c]])
    PROVE  /\ ClientTyped' /\ slot' \in BOOLEAN /\ again' = again /\ path' = path /\ Heights'
           /\ \A d \in Client \ {c} : status'[d] = status[d] /\ curIndex'[d] = curIndex[d]
           /\ \/ calling' = c /\ status'[c] = "waiting" /\ OnPath(c)'
              \/ calling' = NoClient /\ status'[c] = "done"
<1>1. PICK segment : segment = path[c][curIndex[c]]
  OBVIOUS
<1>2. /\ infos' = [infos EXCEPT ![c] = Append(@, segment)]
      /\ curIndex' = [curIndex EXCEPT ![c] = @ + 1]
      /\ path' = path /\ again' = again
      /\ \/ /\ curIndex[c] >= Len(path[c]) /\ status' = [status EXCEPT ![c] = "done"]
            /\ slot' = (loop # NoLoop) /\ calling' = NoClient
         \/ /\ ~(curIndex[c] >= Len(path[c])) /\ status' = status /\ slot' = slot
            /\ calling' = c
  BY <1>1 DEF ReceiveSegment
<1>3. /\ segment \in Segments /\ path[c] \in Paths /\ curIndex[c] \in Nat \ {0}
      /\ Len(path[c]) \in Nat /\ curIndex[c] <= Len(path[c]) /\ infos[c] \in Seq(Segments)
      /\ path[c] \in Seq(Segments)
  <2>1. path[c] \in Paths /\ curIndex[c] \in Nat \ {0} /\ infos[c] \in Seq(Segments)
        /\ curIndex[c] \in 1..Len(path[c])
    BY DEF OnPath, ClientTyped
  <2>2. path[c] \in Seq(Segments)
    <3>1. /\ path[c] \in Seq(Seq(Tile)) /\ Len(path[c]) \in Nat
          /\ \A i \in 1..Len(path[c]) : path[c][i] \in Segments
      BY <2>1, SegmentsOfPaths
    <3>2. path[c] \in [1..Len(path[c]) -> Seq(Tile)]
      BY <3>1, LenProperties
    <3>3. path[c] \in [1..Len(path[c]) -> Segments]
      BY <3>1, <3>2
    <3>4. \A n \in Nat : [1..n -> Segments] \subseteq Seq(Segments)
      BY SeqDef
    <3> QED  BY <3>1, <3>3, <3>4
  <2> QED  BY <1>1, <2>1, <2>2, CurrentSegment, LenProperties
<1>4. /\ infos'[c] = Append(infos[c], segment) /\ infos'[c] \in Seq(Segments)
      /\ Len(infos'[c]) = Len(infos[c]) + 1 /\ Len(infos[c]) \in Nat
      /\ \A i \in 1..Len(infos[c]) : infos'[c][i] = infos[c][i]
      /\ infos'[c][Len(infos[c]) + 1] = segment
  <2>1. infos'[c] = Append(infos[c], segment)
    BY <1>2 DEF ClientTyped
  <2> QED  BY <1>3, <2>1, AppendProperties, LenProperties
<1>5. /\ curIndex'[c] = curIndex[c] + 1
      /\ \A d \in Client \ {c} : /\ status'[d] = status[d] /\ curIndex'[d] = curIndex[d]
                                 /\ infos'[d] = infos[d]
  BY <1>2 DEF ClientTyped
<1>6. ClientTyped' /\ slot' \in BOOLEAN
  <2>1. infos' \in [Client -> Seq(Segments)]
    BY <1>2, <1>3, <1>4 DEF ClientTyped
  <2>2. curIndex' \in [Client -> Nat \ {0}]
    BY <1>2, <1>3 DEF ClientTyped
  <2>3. status' \in [Client -> {"idle", "waiting", "done", "failed"}] /\ slot' \in BOOLEAN
    BY <1>2 DEF ClientTyped, RestTyped
  <2> QED  BY <1>2, <2>1, <2>2, <2>3 DEF ClientTyped
<1>7. \/ calling' = c /\ status'[c] = "waiting" /\ OnPath(c)'
      \/ calling' = NoClient /\ status'[c] = "done"
  BY <1>2, <1>3, <1>5 DEF ClientTyped, OnPath
<1>8. ASSUME c \notin again, Collected(c)
      PROVE  Collected(c)' /\ (status'[c] = "done" => infos'[c] = path'[c])
  <2>1. Len(infos[c]) = curIndex[c] - 1 /\ \A i \in 1..Len(infos[c]) : infos[c][i] = path[c][i]
    BY <1>3, <1>8 DEF Collected
  <2>2. Len(infos'[c]) = curIndex[c] /\ \A i \in 1..curIndex[c] : infos'[c][i] = path[c][i]
    BY <1>1, <1>3, <1>4, <2>1
  <2>3. Collected(c)'
    BY <1>2, <1>3, <1>5, <2>2 DEF Collected
  <2>4. ASSUME status'[c] = "done" PROVE infos'[c] = path'[c]
    <3>1. curIndex[c] = Len(path[c])
      BY <1>2, <1>3, <2>4
    <3> QED  BY <1>2, <1>3, <1>4, <2>2, <3>1, SeqEqual
  <2> QED  BY <2>3, <2>4
<1>9. Heights'
  <2> SUFFICES ASSUME NEW d \in Client \ again
               PROVE  /\ status'[d] = "waiting" => Collected(d)'
                      /\ status'[d] = "done" => infos'[d] = path'[d]
                      /\ status'[d] \in {"idle", "failed"} => infos'[d] = <<>>
    BY <1>2 DEF Heights
  <2>1. CASE d = c
    BY <1>7, <1>8, <2>1 DEF Heights
  <2>2. CASE d # c
    BY <1>2, <1>5, <2>2 DEF Heights, Collected
  <2> QED  BY <2>1, <2>2
<1> QED  BY <1>2, <1>5, <1>6, <1>7, <1>9

-----------------------------------------------------------------------------
(* Every action keeps it *)

\* Nothing is asked for.
LEMMA InitIsSafe == Init => IInv
<1> SUFFICES ASSUME Init PROVE IInv
  OBVIOUS
<1> USE DEF Init
<1>1. ManagerTyped
  BY DEF ManagerTyped
<1>0. RestTyped
  <2>1. 0 \in 0..MaxRequests
    BY TilesAssumption
  <2> QED  BY <2>1 DEF RestTyped
<1>2. ClientTyped
  BY EmptySeq DEF ClientTyped
<1>3. LoopTyped
  BY DEF LoopTyped, NoLoop
<1>4. Served
  BY DEF Served, NoLoop
<1>5. Len(queue) = 0 /\ queue \in Seq(Request) /\ Live = {}
  BY EmptySeq DEF Live, First, NoLoop
<1>6. Requests
  BY <1>5 DEF Requests, QueueTyped, OneEach, Current, NoneMissing, Underway, Asks
<1>7. Heights
  BY DEF Heights
<1> QED  BY <1>0, <1>1, <1>2, <1>3, <1>4, <1>6, <1>7 DEF IInv

\* A failure ends what the query waits for.
LEMMA FailureReceived ==
    ASSUME ClientTyped, RestTyped, Heights, NEW c \in Client, ReceiveFailure(c)
    PROVE  /\ ClientTyped' /\ slot' \in BOOLEAN /\ again' \subseteq again /\ path' = path
           /\ Heights'
           /\ \A d \in Client \ {c} : status'[d] = status[d] /\ curIndex'[d] = curIndex[d]
           /\ calling' = NoClient /\ status'[c] = "failed"
<1>1. /\ infos' = [infos EXCEPT ![c] = <<>>] /\ status' = [status EXCEPT ![c] = "failed"]
      /\ again' = again \ {c} /\ path' = path /\ curIndex' = curIndex
      /\ slot' \in BOOLEAN /\ calling' = NoClient
  BY DEF ReceiveFailure, FailedInfos
<1>2. /\ infos'[c] = <<>> /\ status'[c] = "failed"
      /\ \A d \in Client \ {c} : infos'[d] = infos[d] /\ status'[d] = status[d]
  BY <1>1 DEF ClientTyped
<1>3. ClientTyped'
  <2>1. <<>> \in Seq(Segments)
    BY EmptySeq
  <2> QED  BY <1>1, <2>1 DEF ClientTyped
<1>4. Heights'
  <2> SUFFICES ASSUME NEW d \in Client \ again'
               PROVE  /\ status'[d] = "waiting" => Collected(d)'
                      /\ status'[d] = "done" => infos'[d] = path'[d]
                      /\ status'[d] \in {"idle", "failed"} => infos'[d] = <<>>
    BY DEF Heights
  <2>1. CASE d = c
    BY <1>2, <2>1
  <2>2. CASE d # c
    BY <1>1, <1>2, <2>2 DEF Heights, Collected
  <2> QED  BY <2>1, <2>2
<1> QED  BY <1>1, <1>2, <1>3, <1>4

\* The answer to a request whose tiles are all there, whichever it is.
LEMMA AnswerReceived ==
    ASSUME ClientTyped, RestTyped, Heights, NEW c \in Client, status[c] = "waiting", OnPath(c),
           Receive(c, path[c][curIndex[c]])
    PROVE  /\ ClientTyped' /\ slot' \in BOOLEAN /\ again' \subseteq again /\ path' = path
           /\ Heights'
           /\ \A d \in Client \ {c} : status'[d] = status[d] /\ curIndex'[d] = curIndex[d]
           /\ \/ calling' = c /\ status'[c] = "waiting" /\ OnPath(c)'
              \/ calling' = NoClient /\ status'[c] \in {"done", "failed"}
<1>1. CASE ReceiveSegment(c, path[c][curIndex[c]])
  BY <1>1, SegmentReceived
<1>2. CASE ReceiveFailure(c)
  BY <1>2, FailureReceived
<1> QED  BY <1>1, <1>2 DEF Receive

\* The requests to be answered are requests in the queue.
LEMMA LiveRequests ==
    ASSUME LoopTyped, QueueTyped, NEW i \in Live
    PROVE  i \in 1..Len(queue) /\ queue[i] \in Request /\ queue[i].client \in Client
<1>1. i \in 1..Len(queue)
  BY LenProperties DEF QueueTyped, Live, First, LoopTyped
<1>2. queue[i] \in Request
  BY <1>1, ElementOfSeq DEF QueueTyped
<1> QED  BY <1>1, <1>2 DEF Request

\* A query is asked only when nothing of it is in the queue.
LEMMA RequestDataKeeps ==
    ASSUME IInv, NEW c \in Client, NEW p \in Paths, RequestData(c, p)
    PROVE  IInv'
<1>1. /\ calling = NoClient /\ status[c] # "waiting" /\ asked < MaxRequests
      /\ asked' = asked + 1
      /\ again' = (IF status[c] = "done" THEN again \cup {c} ELSE again)
      /\ path' = [path EXCEPT ![c] = p] /\ curIndex' = [curIndex EXCEPT ![c] = 1]
      /\ status' = [status EXCEPT ![c] = "waiting"] /\ calling' = c
      /\ UNCHANGED <<tiles, state, replies, missed, queue, loop, slot, infos, lost>>
  BY DEF RequestData, manager
<1>2. /\ path'[c] = p /\ curIndex'[c] = 1 /\ status'[c] = "waiting"
      /\ \A d \in Client \ {c} : /\ path'[d] = path[d] /\ curIndex'[d] = curIndex[d]
                                 /\ status'[d] = status[d]
      /\ Len(p) \in Nat \ {0}
  BY <1>1, SegmentsOfPaths DEF IInv, ClientTyped
<1>3. ManagerTyped' /\ LoopTyped' /\ Served' /\ QueueTyped'
  BY <1>1 DEF IInv, ManagerTyped, LoopTyped, Served, Requests, QueueTyped
<1>4. ClientTyped' /\ RestTyped'
  <2>1. asked' \in 0..MaxRequests
    BY <1>1, TilesAssumption DEF IInv, RestTyped
  <2> QED  BY <1>1, <2>1 DEF IInv, ClientTyped, RestTyped
<1>5. Live' = Live
  BY <1>1 DEF Live, First
<1>6. ASSUME NEW d \in Client \ {c} PROVE Asks(d)' <=> Asks(d)
  BY <1>1, <1>2, TilesAssumption DEF Asks
<1>7. \A i \in Live : queue[i].client \in Client \ {c}
  BY <1>1, LiveRequests DEF IInv, Requests, Current, Asks
<1>8. OneEach'
  BY <1>1, <1>5 DEF IInv, Requests, OneEach
<1>9. Current'
  BY <1>1, <1>2, <1>5, <1>6, <1>7 DEF IInv, Requests, Current
<1>10. NoneMissing'
  BY <1>1, <1>5, <1>6 DEF IInv, Requests, NoneMissing, Asks
<1>11. Underway'
  BY <1>1, <1>2 DEF IInv, Requests, Underway, OnPath
<1>12. Heights'
  <2>1. ASSUME c \notin again' PROVE Collected(c)'
    <3>1. infos'[c] = <<>>
      BY <1>1, <2>1 DEF IInv, Heights, ClientTyped
    <3> QED  BY <1>2, <3>1 DEF Collected
  <2>2. ASSUME NEW d \in Client \ {c}, d \notin again'
        PROVE  /\ status'[d] = "waiting" => Collected(d)'
               /\ status'[d] = "done" => infos'[d] = path'[d]
               /\ status'[d] \in {"idle", "failed"} => infos'[d] = <<>>
    BY <1>1, <1>2, <2>2 DEF IInv, Heights, Collected
  <2> QED  BY <1>2, <2>1, <2>2 DEF Heights
<1> QED  BY <1>3, <1>4, <1>8, <1>9, <1>10, <1>11, <1>12 DEF IInv, Requests

\* When the query that calls, or one whose request is no longer there, is answered, the
\* requests of the others are what they were.
LEMMA OthersAsk ==
    ASSUME Underway, NEW c \in Client, calling \in {c, NoClient},
           calling' \in {c, NoClient},
           \A d \in Client \ {c} : status'[d] = status[d]
    PROVE  \A d \in Client \ {c} : Asks(d)' <=> Asks(d)
  BY TilesAssumption DEF Asks

\* A call answers its query, or puts its request at the end of the queue and sees to
\* a download.
LEMMA AddPathQueryKeeps == ASSUME IInv, AddPathQuery PROVE IInv'
<1>1. PICK c : c = calling
  OBVIOUS
<1>2. /\ c \in Client /\ calling # NoClient /\ status[c] = "waiting" /\ OnPath(c)
      /\ c # NoClient
  BY <1>1, TilesAssumption DEF AddPathQuery, IInv, Requests, Underway
<1>3. PICK segment : segment = path[c][curIndex[c]]
  OBVIOUS
<1>4. segment \in Segments /\ segment \in Seq(Tile)
  BY <1>2, <1>3, CurrentSegment
<1>5. UNCHANGED <<loop, asked, lost>>
  BY DEF AddPathQuery
<1>6. \A i \in Live : queue[i].client \in Client \ {c}
  BY <1>1, LiveRequests DEF IInv, Requests, Current, Asks
<1>7. CASE Cached(segment)
  <2>1. Receive(c, path[c][curIndex[c]])
    BY <1>1, <1>3, <1>7 DEF AddPathQuery
  <2>2. UNCHANGED <<tiles, state, replies, missed, queue>>
    BY <1>1, <1>3, <1>7 DEF AddPathQuery, manager
  <2>3. /\ ClientTyped' /\ slot' \in BOOLEAN /\ again' \subseteq again /\ path' = path
        /\ Heights'
        /\ \A d \in Client \ {c} : status'[d] = status[d] /\ curIndex'[d] = curIndex[d]
        /\ \/ calling' = c /\ status'[c] = "waiting" /\ OnPath(c)'
           \/ calling' = NoClient /\ status'[c] \in {"done", "failed"}
    BY <1>2, <2>1, AnswerReceived DEF IInv
  <2>4. \A d \in Client \ {c} : Asks(d)' <=> Asks(d)
    BY <1>1, <1>2, <2>3, OthersAsk DEF IInv, Requests
  <2>5. ~Asks(c)'
    BY <2>3 DEF Asks
  <2>6. Live' = Live
    BY <1>5, <2>2 DEF Live, First
  <2>7. ManagerTyped' /\ RestTyped' /\ LoopTyped' /\ Served' /\ QueueTyped'
    BY <1>5, <2>2, <2>3 DEF IInv, ManagerTyped, RestTyped, LoopTyped, Served, Requests, QueueTyped
  <2>8. OneEach'
    BY <2>2, <2>6 DEF IInv, Requests, OneEach
  <2>9. Current'
    BY <1>6, <2>2, <2>3, <2>4, <2>6 DEF IInv, Requests, Current
  <2>10. NoneMissing'
    BY <1>5, <2>2, <2>4, <2>5, <2>6 DEF IInv, Requests, NoneMissing
  <2>11. Underway'
    BY <1>2, <2>3, TilesAssumption DEF IInv, Requests, Underway, OnPath
  <2> QED  BY <2>3, <2>7, <2>8, <2>9, <2>10, <2>11 DEF IInv, Requests
<1>8. CASE ~Cached(segment)
  <2>1. /\ queue' = Append(queue, [client |-> c, segment |-> segment])
        /\ Download(segment) /\ calling' = NoClient
        /\ UNCHANGED <<slot, path, curIndex, infos, status, again>>
    BY <1>1, <1>3, <1>8 DEF AddPathQuery, client
  <2>2. ManagerTyped' /\ state' = "Downloading" /\ tiles' = tiles
    BY <1>4, <1>8, <2>1, Downloaded DEF IInv
  <2>3. /\ queue' \in Seq(Request) /\ Len(queue') = Len(queue) + 1 /\ Len(queue) \in Nat
        /\ \A i \in 1..Len(queue) : queue'[i] = queue[i]
        /\ queue'[Len(queue) + 1] = [client |-> c, segment |-> segment]
    <3>1. [client |-> c, segment |-> segment] \in Request /\ queue \in Seq(Request)
      BY <1>2, <1>4 DEF Request, IInv, Requests, QueueTyped
    <3> QED  BY <2>1, <3>1, AppendProperties, LenProperties
  <2>4. ClientTyped' /\ RestTyped' /\ QueueTyped'
    BY <1>5, <2>1, <2>3 DEF IInv, ClientTyped, RestTyped, QueueTyped
  <2>5. LoopTyped'
    BY <1>5, <2>3 DEF IInv, LoopTyped
  <2>6. Served'
    BY <2>2 DEF Served
  <2>7. Live' = Live \cup {Len(queue) + 1} /\ \A i \in Live : i \in 1..Len(queue)
    <3>1. First' = First /\ First \in 1..(Len(queue) + 1)
      BY <1>5, <2>3 DEF First, IInv, LoopTyped
    <3> QED  BY <2>3, <3>1, LiveRequests DEF Live, IInv, Requests
  <2>8. \A d \in Client \ {c} : Asks(d)' <=> Asks(d)
    BY <1>1, <1>2, <2>1, OthersAsk DEF IInv, Requests
  <2>9. Asks(c)'
    BY <1>2, <2>1 DEF Asks
  <2>10. OneEach'
    BY <1>6, <2>3, <2>7 DEF IInv, Requests, OneEach
  <2>11. Current'
    BY <1>3, <1>6, <2>1, <2>3, <2>7, <2>8, <2>9 DEF IInv, Requests, Current
  <2>12. NoneMissing'
    BY <1>5, <2>3, <2>7, <2>8 DEF IInv, Requests, NoneMissing
  <2>13. Underway'
    BY <2>1 DEF IInv, Requests, Underway, OnPath
  <2>14. Heights'
    BY <2>1 DEF IInv, Heights, Collected
  <2> QED  BY <2>2, <2>3, <2>4, <2>5, <2>6, <2>10, <2>11, <2>12, <2>13, <2>14 DEF IInv, Requests
<1> QED  BY <1>7, <1>8

\* What changes neither queue nor queries keeps the requests.
LEMMA RequestsKept ==
    ASSUME Requests, UNCHANGED <<queue, calling, path, curIndex, status, lost>>,
           First' = First
    PROVE  Requests'
<1>1. Live' = Live
  BY DEF Live
<1> QED  BY <1>1 DEF Requests, QueueTyped, OneEach, Current, NoneMissing, Underway, OnPath, Asks

\* A call of its own leaves the queue as it is.
LEMMA GetAltitudesKeeps == ASSUME IInv, NEW p \in Paths, GetAltitudes(p[1]) PROVE IInv'
<1>1. /\ ~Cached(p[1]) /\ Download(p[1])
      /\ UNCHANGED <<queue, loop, calling, slot, path, curIndex, infos, status,
                     asked, again, lost>>
  BY DEF GetAltitudes, client, history
<1>2. p[1] \in Seq(Tile)
  <2>1. 1 \in 1..Len(p)
    BY SegmentsOfPaths
  <2> QED  BY <2>1, SegmentsOfPaths
<1>3. ManagerTyped' /\ state' = "Downloading"
  BY <1>1, <1>2, Downloaded DEF IInv
<1>4. Requests'
  BY <1>1, RequestsKept DEF IInv, First
<1> QED  BY <1>1, <1>3, <1>4
         DEF IInv, ClientTyped, RestTyped, LoopTyped, Served, Heights, Collected

\* The end of a download: the loop it starts has the whole queue before it.
LEMMA TerrainDoneKeeps ==
    ASSUME IInv, NEW t \in Tile, NEW answer \in Answer, TerrainDone(t, answer)
    PROVE  IInv'
<1>1. /\ loop = NoLoop /\ t \in replies /\ replies' = replies \ {t} /\ state' = "Idle"
      /\ tiles' = (IF answer = "tile" THEN tiles \cup {t} ELSE tiles)
      /\ loop' = IF answer = "error"
                 THEN [kind |-> "fail", at |-> 1, last |-> Len(queue)]
                 ELSE [kind |-> "answer", at |-> Len(queue), last |-> Len(queue)]
      /\ UNCHANGED <<missed, queue, calling, slot, path, curIndex, infos, status,
                     asked, again, lost>>
  BY DEF TerrainDone, InEventLoop, AfterReply, client, history
<1>2. ManagerTyped'
  BY <1>1 DEF IInv, ManagerTyped
<1>3. Len(queue) \in Nat
  BY LenProperties DEF IInv, Requests, QueueTyped
<1>4. LoopTyped' /\ Served' /\ First' = First
  <2>1. CASE answer = "error"
    BY <1>1, <1>3, <2>1 DEF LoopTyped, Served, First, NoLoop
  <2>2. CASE answer # "error"
    BY <1>1, <1>3, <2>2 DEF LoopTyped, Served, First, NoLoop
  <2> QED  BY <2>1, <2>2
<1>5. Requests'
  BY <1>1, <1>4, RequestsKept DEF IInv
<1> QED  BY <1>1, <1>2, <1>4, <1>5 DEF IInv, ClientTyped, RestTyped, Heights, Collected

\* The loop of _terrainDone answers a request, or starts a download for it.
LEMMA AnswerRequestKeeps == ASSUME IInv, AnswerRequest PROVE IInv'
<1>1. PICK k, r : k = loop.at /\ r = queue[k]
  OBVIOUS
<1>2. /\ loop.kind = "answer" /\ calling = NoClient /\ k > 0
      /\ loop' = [loop EXCEPT !.at = k - 1]
      /\ UNCHANGED <<asked, lost>>
  BY <1>1 DEF AnswerRequest, InLoop
<1>3. /\ Len(queue) \in Nat /\ k \in Nat /\ k \in 1..Len(queue) /\ Live = 1..Len(queue)
      /\ queue \in Seq(Request)
  BY <1>1, <1>2, LenProperties DEF IInv, Requests, QueueTyped, LoopTyped, Live, First
<1>4. PICK c : c = r.client
  OBVIOUS
<1>5. /\ c \in Client /\ status[c] = "waiting" /\ OnPath(c) /\ c # NoClient
      /\ r.segment = path[c][curIndex[c]]
  BY <1>1, <1>3, <1>4, LiveRequests, TilesAssumption DEF IInv, Requests, Current, Asks, Underway
<1>6. PICK segment : segment = path[c][curIndex[c]]
  OBVIOUS
<1>7. segment \in Segments /\ segment \in Seq(Tile)
  BY <1>5, <1>6, CurrentSegment
<1>8. /\ loop'.kind = "answer" /\ loop'.at = k - 1 /\ loop'.last = loop.last
      /\ First' = 1
  <2>1. loop'.kind = "answer" /\ loop'.at = k - 1 /\ loop'.last = loop.last
    BY <1>1, <1>2 DEF IInv, LoopTyped
  <2> QED  BY <2>1 DEF First
<1>9. CASE Cached(segment)
  <2>1. /\ queue' = RemoveAt(queue, k)
        /\ Receive(c, path[c][curIndex[c]])
        /\ UNCHANGED <<tiles, state, replies, missed>>
    BY <1>1, <1>4, <1>5, <1>6, <1>9 DEF AnswerRequest, manager
  <2>2. /\ ClientTyped' /\ slot' \in BOOLEAN /\ again' \subseteq again /\ path' = path
        /\ Heights'
        /\ \A d \in Client \ {c} : status'[d] = status[d] /\ curIndex'[d] = curIndex[d]
        /\ \/ calling' = c /\ status'[c] = "waiting" /\ OnPath(c)'
           \/ calling' = NoClient /\ status'[c] \in {"done", "failed"}
    BY <1>5, <2>1, AnswerReceived DEF IInv
  <2>3. /\ queue' \in Seq(Request) /\ Len(queue') = Len(queue) - 1
        /\ \A j \in 1..(Len(queue) - 1) : queue'[j] = IF j < k THEN queue[j] ELSE queue[j + 1]
    BY <1>3, <2>1, RemoveAtProperties
  <2>4. Live' = 1..(Len(queue) - 1)
    BY <1>8, <2>3 DEF Live
  <2>5. \A j \in Live' : \E i \in Live : i # k /\ queue'[j] = queue[i] /\ i = (IF j < k THEN j ELSE j + 1)
    BY <1>3, <2>3, <2>4
  <2>6. \A j \in Live' : queue'[j].client \in Client \ {c}
    BY <1>1, <1>3, <1>4, <2>5, LiveRequests DEF IInv, Requests, OneEach
  <2>7. \A d \in Client \ {c} : Asks(d)' <=> Asks(d)
    BY <1>2, <1>5, <2>2, OthersAsk DEF IInv, Requests
  <2>8. ~Asks(c)'
    BY <2>2 DEF Asks
  <2>9. ManagerTyped' /\ RestTyped' /\ QueueTyped'
    BY <1>2, <2>1, <2>2, <2>3 DEF IInv, ManagerTyped, RestTyped, QueueTyped
  <2>10. LoopTyped' /\ Served'
    BY <1>1, <1>2, <1>3, <1>8, <2>1, <2>3 DEF IInv, LoopTyped, Served
  <2>11. OneEach'
    <3> SUFFICES ASSUME NEW i \in Live', NEW j \in Live', queue'[i].client = queue'[j].client
                 PROVE  i = j
      BY DEF OneEach
    <3>1. PICK m \in Live : queue'[i] = queue[m] /\ m = (IF i < k THEN i ELSE i + 1)
      BY <2>5
    <3>2. PICK n \in Live : queue'[j] = queue[n] /\ n = (IF j < k THEN j ELSE j + 1)
      BY <2>5
    <3>3. m = n
      BY <3>1, <3>2 DEF IInv, Requests, OneEach
    <3>4. i \in Nat /\ j \in Nat
      BY <1>3, <2>4
    <3> QED  BY <1>3, <3>1, <3>2, <3>3, <3>4
  <2>12. Current'
    <3>1. ASSUME NEW j \in Live', NEW d, d = queue'[j].client
          PROVE  Asks(d)' /\ queue'[j].segment = path'[d][curIndex'[d]]
      <4>1. PICK i \in Live : queue'[j] = queue[i]
        BY <2>5
      <4>2. d \in Client \ {c} /\ Asks(d) /\ queue[i].segment = path[d][curIndex[d]]
        BY <2>6, <3>1, <4>1 DEF IInv, Requests, Current
      <4> QED  BY <2>2, <2>7, <4>1, <4>2
    <3> QED  BY <3>1 DEF Current
  <2>13. NoneMissing'
    <3> SUFFICES ASSUME NEW d \in Client \ lost, Asks(d)'
                 PROVE  \E j \in Live' : queue'[j].client = d
      BY <1>2 DEF NoneMissing
    <3>1. d # c /\ Asks(d)
      BY <2>7, <2>8
    <3>2. PICK i \in Live : queue[i].client = d
      BY <3>1 DEF IInv, Requests, NoneMissing
    <3>3. i # k
      BY <1>1, <1>4, <3>1, <3>2
    <3>4. CASE i < k
      BY <1>3, <2>3, <2>4, <3>2, <3>4
    <3>5. CASE ~(i < k)
      <4>1. /\ i - 1 \in 1..(Len(queue) - 1) /\ ~(i - 1 < k) /\ (i - 1) + 1 = i
        BY <1>3, <3>2, <3>3, <3>5
      <4> QED  BY <2>3, <2>4, <3>2, <4>1
    <3> QED  BY <3>4, <3>5
  <2>14. Underway'
    BY <1>5, <2>2, TilesAssumption DEF IInv, Requests, Underway, OnPath
  <2> QED  BY <2>2, <2>9, <2>10, <2>11, <2>12, <2>13, <2>14 DEF IInv, Requests
<1>10. CASE ~Cached(segment)
  <2>1. /\ Download(segment) /\ slot' = FALSE
        /\ UNCHANGED <<queue, calling, path, curIndex, infos, status, again>>
    BY <1>1, <1>4, <1>5, <1>6, <1>10 DEF AnswerRequest, client
  <2>2. ManagerTyped' /\ state' = "Downloading"
    BY <1>7, <1>10, <2>1, Downloaded DEF IInv
  <2>3. Requests'
    <3>1. First' = First
      BY <1>2, <1>8 DEF First
    <3> QED  BY <1>2, <2>1, <3>1, RequestsKept DEF IInv
  <2>4. LoopTyped' /\ Served'
    BY <1>1, <1>2, <1>3, <1>8, <2>1, <2>2 DEF IInv, LoopTyped, Served
  <2> QED  BY <1>2, <2>1, <2>2, <2>3, <2>4 DEF IInv, ClientTyped, RestTyped, Heights, Collected
<1> QED  BY <1>9, <1>10

\* Its end.
LEMMA AnswerEndKeeps == ASSUME IInv, AnswerEnd PROVE IInv'
<1>1. /\ loop.kind = "answer" /\ loop.at = 0 /\ loop' = NoLoop /\ slot' = FALSE
      /\ UNCHANGED <<tiles, state, replies, missed, queue, calling, path, curIndex, infos,
                     status, asked, again, lost>>
  BY DEF AnswerEnd, InLoop, manager, client, history
<1>2. LoopTyped' /\ Served'
  <2>1. Len(queue) = 0 => queue = <<>>
    BY EmptySeq DEF IInv, Requests, QueueTyped
  <2>2. LoopTyped'
    BY <1>1 DEF LoopTyped, NoLoop
  <2>3. state # "Downloading" => queue = <<>>
    BY <1>1, <2>1 DEF IInv, Served, ManagerTyped
  <2> QED  BY <1>1, <2>2, <2>3 DEF Served, NoLoop
<1>3. Requests'
  <2>1. First' = First
    BY <1>1 DEF First, NoLoop
  <2> QED  BY <1>1, <2>1, RequestsKept DEF IInv
<1>4. ManagerTyped' /\ RestTyped'
  BY <1>1 DEF IInv, ManagerTyped, RestTyped
<1>5. ClientTyped'
  BY <1>1 DEF IInv, ClientTyped
<1>6. Heights'
  BY <1>1 DEF IInv, Heights, Collected
<1> QED  BY <1>2, <1>3, <1>4, <1>5, <1>6 DEF IInv

\* The loop of _tileFailed fails the query of the next request.
LEMMA FailRequestKeeps == ASSUME IInv, FailRequest PROVE IInv'
<1>1. PICK k, c : k = loop.at /\ c = queue[k].client
  OBVIOUS
<1>2. /\ loop.kind = "fail" /\ calling = NoClient /\ k <= loop.last
      /\ loop' = [loop EXCEPT !.at = k + 1]
      /\ ReceiveFailure(c)
      /\ UNCHANGED <<tiles, state, replies, missed, queue, asked, lost>>
  BY <1>1 DEF FailRequest, InLoop, manager
<1>3. /\ Len(queue) \in Nat /\ k \in Nat \ {0} /\ k \in Live /\ Live = k..Len(queue)
      /\ k <= Len(queue) /\ loop.last \in Nat /\ loop.last <= Len(queue)
  BY <1>1, <1>2, LenProperties DEF IInv, Requests, QueueTyped, LoopTyped, Live, First
<1>4. c \in Client
  BY <1>1, <1>3, LiveRequests DEF IInv, Requests
<1>5. /\ ClientTyped' /\ slot' \in BOOLEAN /\ again' \subseteq again /\ path' = path
      /\ Heights'
      /\ \A d \in Client \ {c} : status'[d] = status[d] /\ curIndex'[d] = curIndex[d]
      /\ calling' = NoClient /\ status'[c] = "failed"
  BY <1>2, <1>4, FailureReceived DEF IInv
<1>6. /\ loop'.kind = "fail" /\ loop'.at = k + 1 /\ loop'.last = loop.last
      /\ Live' = (k + 1)..Len(queue)
  <2>1. loop'.kind = "fail" /\ loop'.at = k + 1 /\ loop'.last = loop.last
    BY <1>1, <1>2 DEF IInv, LoopTyped
  <2> QED  BY <1>2, <2>1 DEF Live, First
<1>7. Live' = Live \ {k}
  BY <1>3, <1>6
<1>8. \A j \in Live' : queue[j].client \in Client \ {c}
  BY <1>1, <1>3, <1>7, LiveRequests DEF IInv, Requests, OneEach
<1>9. \A d \in Client \ {c} : Asks(d)' <=> Asks(d)
  BY <1>2, <1>5, TilesAssumption DEF Asks, IInv, Requests, Underway
<1>10. ManagerTyped' /\ RestTyped' /\ QueueTyped'
  BY <1>2, <1>5 DEF IInv, ManagerTyped, RestTyped, Requests, QueueTyped
<1>11. LoopTyped' /\ Served'
  BY <1>2, <1>3, <1>6 DEF LoopTyped, Served
<1>12. OneEach'
  BY <1>2, <1>7 DEF IInv, Requests, OneEach
<1>13. Current'
  BY <1>2, <1>5, <1>7, <1>8, <1>9 DEF IInv, Requests, Current
<1>14. NoneMissing'
  <2> SUFFICES ASSUME NEW d \in Client \ lost, Asks(d)'
               PROVE  \E j \in Live' : queue[j].client = d
    BY <1>2 DEF NoneMissing
  <2>1. d # c
    BY <1>5 DEF Asks
  <2>2. PICK i \in Live : queue[i].client = d
    BY <1>9, <2>1 DEF IInv, Requests, NoneMissing
  <2> QED  BY <1>1, <1>7, <2>1, <2>2
<1>15. Underway'
  BY <1>2, <1>5 DEF IInv, Requests, Underway, OnPath
<1> QED  BY <1>5, <1>10, <1>11, <1>12, <1>13, <1>14, <1>15 DEF IInv, Requests

\* Its end: the queue is cleared, and who was asked for in the meantime is lost.
LEMMA FailEndKeeps == ASSUME IInv, FailEnd PROVE IInv'
<1>1. /\ loop.kind = "fail" /\ loop.at > loop.last /\ loop' = NoLoop /\ slot' = FALSE
      /\ queue' = <<>> /\ calling = NoClient
      /\ lost' = lost \cup {queue[i].client : i \in (loop.last + 1)..Len(queue)}
      /\ UNCHANGED <<tiles, state, replies, missed, calling, path, curIndex, infos,
                     status, asked, again>>
  BY DEF FailEnd, InLoop, QueueAfterFailure, manager, client
<1>2. Live = (loop.last + 1)..Len(queue)
  BY <1>1 DEF IInv, LoopTyped, Live, First
<1>3. /\ queue' \in Seq(Request) /\ Len(queue') = 0 /\ Live' = {}
  BY <1>1, EmptySeq DEF Live, First, NoLoop
<1>4. RestTyped'
  <2>1. {queue[i].client : i \in Live} \subseteq Client
    BY LiveRequests DEF IInv, Requests
  <2> QED  BY <1>1, <1>2, <2>1 DEF IInv, RestTyped
<1>5. LoopTyped' /\ Served'
  BY <1>1 DEF LoopTyped, Served, NoLoop
<1>6. NoneMissing'
  <2> SUFFICES ASSUME NEW c \in Client \ lost', Asks(c) PROVE FALSE
    BY <1>1 DEF NoneMissing, Asks
  <2> QED  BY <1>1, <1>2 DEF IInv, Requests, NoneMissing
<1>7. OneEach' /\ Current'
  BY <1>3 DEF OneEach, Current
<1>8. Underway'
  BY <1>1 DEF IInv, Requests, Underway, OnPath
<1> QED  BY <1>1, <1>3, <1>4, <1>5, <1>6, <1>7, <1>8
         DEF IInv, Requests, QueueTyped, ManagerTyped, ClientTyped, Heights, Collected

\* After a crash nothing is different but the loop.
LEMMA CrashKeeps == ASSUME IInv, Crash PROVE IInv'
<1>1. /\ loop.kind = "fail" /\ loop' = [loop EXCEPT !.kind = "crashed"]
      /\ UNCHANGED <<tiles, state, replies, missed, queue, calling, slot, path, curIndex,
                     infos, status, asked, again, lost>>
  BY DEF Crash, InLoop, manager, client, history
<1>2. loop'.kind = "crashed" /\ loop'.at = loop.at /\ loop'.last = loop.last
  BY <1>1 DEF IInv, LoopTyped
<1>3. LoopTyped' /\ Served' /\ First' = First
  BY <1>1, <1>2 DEF IInv, LoopTyped, Served, First
<1>4. Requests'
  BY <1>1, <1>3, RequestsKept DEF IInv
<1> QED  BY <1>1, <1>3, <1>4 DEF IInv, ManagerTyped, ClientTyped, RestTyped, Heights, Collected

\* Every step keeps the invariant.
LEMMA NextIsSafe == ASSUME IInv, [Next]_vars PROVE IInv'
<1>1. CASE UNCHANGED vars
  <2>1. /\ UNCHANGED <<tiles, state, replies, missed, queue, loop, calling, slot, path,
                       curIndex, infos, status, asked, again, lost>>
    BY <1>1 DEF vars, manager, client, history
  <2>2. Requests'
    BY <2>1, RequestsKept DEF IInv, First
  <2> QED  BY <2>1, <2>2 DEF IInv, ManagerTyped, ClientTyped, RestTyped, LoopTyped, Served,
                             Heights, Collected
<1>2. CASE \E c \in Client, p \in Paths : RequestData(c, p)
  BY <1>2, RequestDataKeeps
<1>3. CASE AddPathQuery
  BY <1>3, AddPathQueryKeeps
<1>4. CASE \E p \in Paths : GetAltitudes(p[1])
  BY <1>4, GetAltitudesKeeps
<1>5. CASE \E t \in Tile, a \in Answer : TerrainDone(t, a)
  BY <1>5, TerrainDoneKeeps
<1>6. CASE AnswerRequest
  BY <1>6, AnswerRequestKeeps
<1>7. CASE AnswerEnd
  BY <1>7, AnswerEndKeeps
<1>8. CASE FailRequest
  BY <1>8, FailRequestKeeps
<1>9. CASE FailEnd
  BY <1>9, FailEndKeeps
<1>10. CASE Crash
  BY <1>10, CrashKeeps
<1> QED  BY <1>1, <1>2, <1>3, <1>4, <1>5, <1>6, <1>7, <1>8, <1>9, <1>10 DEF Next, Rests

-----------------------------------------------------------------------------
(* What follows from it *)

\* The parts imply the type invariant.
LEMMA Typed == ASSUME IInv PROVE TypeOK
<1>1. /\ DOMAIN queue = 1..Len(queue) /\ Len(queue) \in Nat
      /\ \A i \in 1..Len(queue) : queue[i] \in Request
  BY LenProperties, ElementOfSeq DEF IInv, Requests, QueueTyped
<1>2. ToSet(queue) \subseteq [client : Client, segment : Segments]
  BY <1>1 DEF ToSet, Request
<1>3. \A c \in Client : ToSet(infos[c]) \subseteq Segments
  <2> TAKE c \in Client
  <2>1. infos[c] \in Seq(Segments)
    BY DEF IInv, ClientTyped
  <2> QED  BY <2>1, LenProperties, ElementOfSeq DEF ToSet
<1>4. /\ loop.kind \in {"none", "answer", "fail", "crashed"} /\ loop.at \in Nat
      /\ loop.last <= Len(queue) \/ loop.kind = "answer"
  BY <1>1 DEF IInv, LoopTyped, NoLoop
<1>5. calling \in Client \cup {NoClient} /\ \A c \in Client : path[c] \in Paths \cup {<<>>}
  BY DEF IInv, Requests, Underway, ClientTyped
<1> QED  BY <1>2, <1>3, <1>4, <1>5 DEF IInv, TypeOK, ManagerTyped, ClientTyped, RestTyped

\* Between two events, what is to be answered is the whole queue.
LEMMA OneRequestEach == ASSUME IInv PROVE EachQueuedOnce
<1> SUFFICES ASSUME InEventLoop, NEW c \in Client \ lost, NEW own,
                    own = {i \in DOMAIN queue : queue[i].client = c}
             PROVE  /\ Cardinality(own) = (IF status[c] = "waiting" THEN 1 ELSE 0)
                    /\ \A i \in own : queue[i].segment = path[c][curIndex[c]]
  BY Zenon DEF EachQueuedOnce
<1>1. Live = DOMAIN queue /\ c # calling
  BY LenProperties, TilesAssumption
     DEF IInv, Requests, QueueTyped, InEventLoop, Live, First, NoLoop
<1>2. \A i \in own : status[c] = "waiting" /\ queue[i].segment = path[c][curIndex[c]]
  BY <1>1 DEF IInv, Requests, Current, Asks
<1>3. CASE status[c] = "waiting"
  <2>1. PICK i \in Live : queue[i].client = c
    BY <1>1, <1>3 DEF IInv, Requests, NoneMissing, Asks
  <2>2. own = {i}
    BY <1>1, <2>1 DEF IInv, Requests, OneEach
  <2> QED  BY <1>2, <1>3, <2>2, FS_Singleton
<1>4. CASE status[c] # "waiting"
  BY <1>2, <1>4, FS_EmptySet
<1> QED  BY <1>3, <1>4

-----------------------------------------------------------------------------
(* Theorems *)

\* Whatever the owners ask for inside their signals, between two events each query that
\* waits has exactly one request in the queue, the one for its current segment (unless
\* _tileFailed cleared it), and a queue that is not empty has a download that will go
\* through it again.
THEOREM QueueIsWhatIsWaitedFor == Spec => []Inv
<1>1. Init => IInv
  BY InitIsSafe
<1>2. IInv /\ [Next]_vars => IInv'
  BY NextIsSafe
<1>3. IInv => Inv
  <2> SUFFICES ASSUME IInv PROVE Inv
    OBVIOUS
  <2>1. QueueHasDownload
    BY DEF IInv, Served, QueueHasDownload, InEventLoop, NoLoop
  <2> QED  BY <2>1, Typed, OneRequestEach DEF Inv
<1> QED  BY <1>1, <1>2, <1>3, PTL DEF Spec

\* A query that succeeds has the heights of its own path, all of them, in order.
THEOREM HeightsAreOfThePath == Spec => []OwnPath
<1>1. Init => IInv
  BY InitIsSafe
<1>2. IInv /\ [Next]_vars => IInv'
  BY NextIsSafe
<1>3. IInv => OwnPath
  BY DEF IInv, Heights, OwnPath
<1> QED  BY <1>1, <1>2, <1>3, PTL DEF Spec

-----------------------------------------------------------------------------
(* The batch manager *)

\* Sequences that are joined by FlattenSeq: the first ones joined, for each number of them
Joined(pieces) ==
    CHOOSE f : f = [i \in 1..Len(pieces) |-> IF i = 1 THEN pieces[i] ELSE f[i - 1] \o pieces[i]]
Upto(pieces, i) == IF i = 0 THEN 0 ELSE Len(Joined(pieces)[i])

\* The least of a set of natural numbers is one of them.
LEMMA LeastOf ==
    ASSUME NEW N \in SUBSET Nat, N # {}
    PROVE  \E x \in N : \A y \in N : x <= y
<1>1. IsWellFoundedOn(OpToRel(<, Nat), Nat)
  BY NatLessThanWellFounded
<1>2. PICK x \in N : \A y \in N : ~ (<<y, x>> \in OpToRel(<, Nat))
  BY <1>1, WFMin
<1>3. OpToRel(<, Nat) = {ss \in Nat \X Nat : ss[1] < ss[2]}
  BY DEF OpToRel
<1>4. ASSUME NEW y \in N, y < x PROVE FALSE
  <2>1. <<y, x>> \in {ss \in Nat \X Nat : ss[1] < ss[2]}
    BY <1>4
  <2> QED BY <1>2, <1>3, <2>1
<1> QED BY <1>4

\* The first ones joined are as their definition says.
LEMMA JoinedSteps ==
    ASSUME NEW S, NEW p \in Seq(Seq(S))
    PROVE  \A i \in 1..Len(p) : Joined(p)[i] = IF i = 1 THEN p[i] ELSE Joined(p)[i - 1] \o p[i]
<1> DEFINE n == Len(p)
           Def(f, m) == \A i \in 1..m : f[i] = IF i = 1 THEN p[i] ELSE f[i - 1] \o p[i]
           Bad == {m \in 0..n : ~ \E f : Def(f, m)}
<1>1. n \in Nat
  BY LenProperties
<1>2. Bad = {}
  <2>1. SUFFICES ASSUME Bad # {} PROVE FALSE
    OBVIOUS
  <2>2. Bad \subseteq Nat
    BY <1>1
  <2> HIDE DEF Bad
  <2>3. PICK m \in Bad : \A k \in Bad : m <= k
    BY <2>1, <2>2, LeastOf
  <2>4. m \in 0..n /\ ~ \E f : Def(f, m)
    BY <2>3 DEF Bad
  <2>5. m # 0
    BY <2>4
  <2>6. m - 1 \in 0..n /\ m \in Nat /\ m - 1 \notin Bad
    BY <1>1, <2>3, <2>4, <2>5
  <2>7. PICK f : Def(f, m - 1)
    BY <2>6 DEF Bad
  <2> DEFINE g == [i \in 1..m |-> IF i < m THEN f[i]
                                  ELSE IF m = 1 THEN p[m] ELSE f[m - 1] \o p[m]]
  <2>8. ASSUME NEW i \in 1..m PROVE g[i] = IF i = 1 THEN p[i] ELSE g[i - 1] \o p[i]
    <3>1. CASE i < m
      <4>1. i \in 1..(m - 1) /\ (i # 1 => i - 1 \in 1..m /\ i - 1 < m)
        BY <2>6, <3>1
      <4>2. g[i] = f[i] /\ (i # 1 => g[i - 1] = f[i - 1])
        BY <3>1, <4>1
      <4> QED BY <2>7, <4>1, <4>2
    <3>2. CASE i = m
      <4>1. i # 1 => i - 1 \in 1..m /\ i - 1 < m
        BY <2>6, <3>2
      <4> QED BY <2>6, <3>2, <4>1
    <3> QED BY <2>6, <3>1, <3>2
  <2>9. Def(g, m)
    BY <2>8
  <2> QED BY <2>4, <2>9
<1>3. PICK f : Def(f, n)
  <2> HIDE DEF Def
  <2>1. n \in 0..n
    BY <1>1
  <2> QED BY <1>2, <2>1
<1> DEFINE Eq(h) == h = [i \in 1..Len(p) |-> IF i = 1 THEN p[i] ELSE h[i - 1] \o p[i]]
           g == [i \in 1..n |-> f[i]]
<1>4. Eq(g)
  <2>1. \A i \in 1..n : i # 1 => i - 1 \in 1..n
    BY <1>1
  <2>2. \A i \in 1..n : g[i] = IF i = 1 THEN p[i] ELSE g[i - 1] \o p[i]
    BY <1>3, <2>1
  <2> QED BY <2>2
<1>5. Eq(CHOOSE h : Eq(h))
  BY <1>4, Zenon
<1>6. Joined(p) = CHOOSE h : Eq(h)
  BY DEF Joined
<1>7. Joined(p) = [i \in 1..Len(p) |-> IF i = 1 THEN p[i] ELSE Joined(p)[i - 1] \o p[i]]
  BY <1>5, <1>6, Zenon
<1> QED BY <1>7

\* They are sequences, each longer by the piece that was added.
LEMMA JoinedAreSeqs ==
    ASSUME NEW S, NEW p \in Seq(Seq(S))
    PROVE  \A i \in 1..Len(p) :
              /\ Joined(p)[i] \in Seq(S) /\ p[i] \in Seq(S)
              /\ Upto(p, i) = Upto(p, i - 1) + Len(p[i])
              /\ Upto(p, i) \in Nat /\ Upto(p, i - 1) \in Nat
<1> DEFINE J == Joined(p)
           Bad == {i \in 1..Len(p) : J[i] \notin Seq(S)}
<1>1. /\ Len(p) \in Nat /\ \A i \in 1..Len(p) : p[i] \in Seq(S)
  BY LenProperties, ElementOfSeq
<1>2. \A i \in 1..Len(p) : J[i] = IF i = 1 THEN p[i] ELSE J[i - 1] \o p[i]
  BY JoinedSteps
<1> HIDE DEF J
<1>3. Bad = {}
  <2>1. SUFFICES ASSUME Bad # {} PROVE FALSE
    OBVIOUS
  <2>2. Bad \subseteq Nat
    BY <1>1
  <2> HIDE DEF Bad
  <2>3. PICK m \in Bad : \A k \in Bad : m <= k
    BY <2>1, <2>2, LeastOf
  <2>4. m \in 1..Len(p) /\ J[m] \notin Seq(S)
    BY <2>3 DEF Bad
  <2>5. m # 1
    BY <1>1, <1>2, <2>4
  <2>6. m - 1 \in 1..Len(p) /\ m - 1 \notin Bad
    BY <1>1, <2>3, <2>4, <2>5
  <2>7. J[m - 1] \in Seq(S) /\ p[m] \in Seq(S)
    BY <1>1, <2>4, <2>6 DEF Bad
  <2>8. J[m] = J[m - 1] \o p[m]
    BY <1>2, <2>4, <2>5
  <2> QED BY <2>4, <2>7, <2>8, ConcatProperties
<1>4. ASSUME NEW i \in 1..Len(p)
      PROVE  /\ J[i] \in Seq(S) /\ p[i] \in Seq(S)
             /\ Upto(p, i) = Upto(p, i - 1) + Len(p[i])
             /\ Upto(p, i) \in Nat /\ Upto(p, i - 1) \in Nat
  <2>1. J[i] \in Seq(S) /\ p[i] \in Seq(S)
    BY <1>1, <1>3
  <2>2. Len(J[i]) \in Nat /\ Len(p[i]) \in Nat
    BY <2>1, LenProperties
  <2>3. CASE i = 1
    BY <1>2, <2>2, <2>3 DEF Upto, J
  <2>4. CASE i # 1
    <3>1. i - 1 \in 1..Len(p) /\ i - 1 # 0 /\ i # 0
      BY <1>1, <2>4
    <3>2. J[i - 1] \in Seq(S)
      BY <1>3, <3>1
    <3>3. J[i] = J[i - 1] \o p[i]
      BY <1>2, <2>4
    <3>4. Len(J[i - 1] \o p[i]) = Len(J[i - 1]) + Len(p[i]) /\ Len(J[i - 1]) \in Nat
      BY <2>1, <3>2, ConcatProperties, LenProperties
    <3> QED BY <2>1, <2>2, <3>1, <3>3, <3>4 DEF Upto, J
  <2> QED BY <2>3, <2>4
<1> QED BY <1>4 DEF J

\* What has been joined stays where it is.
LEMMA JoinedStay ==
    ASSUME NEW S, NEW p \in Seq(Seq(S)), NEW i \in 1..Len(p)
    PROVE  \A j \in i..Len(p) :
              /\ Upto(p, i) <= Upto(p, j)
              /\ \A k \in 1..Upto(p, i) : Joined(p)[j][k] = Joined(p)[i][k]
<1> DEFINE J == Joined(p)
           Good(j) == /\ Upto(p, i) <= Upto(p, j)
                      /\ \A k \in 1..Upto(p, i) : J[j][k] = J[i][k]
           Bad == {j \in i..Len(p) : ~Good(j)}
<1>1. Len(p) \in Nat
  BY LenProperties
<1>2. \A j \in 1..Len(p) : J[j] = IF j = 1 THEN p[j] ELSE J[j - 1] \o p[j]
  BY JoinedSteps
<1>3. \A j \in 1..Len(p) :
          /\ J[j] \in Seq(S) /\ p[j] \in Seq(S)
          /\ Upto(p, j) = Upto(p, j - 1) + Len(p[j])
          /\ Upto(p, j) \in Nat /\ Upto(p, j - 1) \in Nat
  BY JoinedAreSeqs
<1> HIDE DEF J
<1>4. Bad = {}
  <2>1. SUFFICES ASSUME Bad # {} PROVE FALSE
    OBVIOUS
  <2>2. Bad \subseteq Nat
    BY <1>1
  <2> HIDE DEF Bad
  <2>3. PICK m \in Bad : \A k \in Bad : m <= k
    BY <2>1, <2>2, LeastOf
  <2>4. m \in i..Len(p) /\ ~Good(m)
    BY <2>3 DEF Bad
  <2>5. m # i
    BY <1>3, <2>4
  <2>6. m \in 1..Len(p) /\ m # 1 /\ m - 1 \in 1..Len(p) /\ m - 1 \in i..Len(p) /\ m - 1 \notin Bad
    BY <1>1, <2>3, <2>4, <2>5
  <2>7. Good(m - 1)
    BY <2>6 DEF Bad
  <2> HIDE DEF Good
  <2>8. J[m] = J[m - 1] \o p[m] /\ J[m - 1] \in Seq(S) /\ p[m] \in Seq(S)
    BY <1>2, <1>3, <2>6
  <2>9. Upto(p, m - 1) = Len(J[m - 1]) /\ Upto(p, m - 1) \in Nat
    BY <1>3, <2>6 DEF Upto, J
  <2>10. /\ Len(p[m]) \in Nat /\ Upto(p, m) = Upto(p, m - 1) + Len(p[m])
         /\ \A k \in 1..Len(J[m - 1]) : J[m][k] = J[m - 1][k]
    <3>1. Len(p[m]) \in Nat /\ Len(J[m - 1]) \in Nat
      BY <2>8, LenProperties
    <3>2. \A k \in 1..Len(J[m - 1]) + Len(p[m]) :
              (J[m - 1] \o p[m])[k] = IF k <= Len(J[m - 1]) THEN J[m - 1][k]
                                      ELSE p[m][k - Len(J[m - 1])]
      BY <2>8, ConcatProperties
    <3>3. \A k \in 1..Len(J[m - 1]) :
             k \in 1..Len(J[m - 1]) + Len(p[m]) /\ k <= Len(J[m - 1])
      <4>1. \A x, y \in Nat : \A k \in 1..x : k \in 1..x + y /\ k <= x
        OBVIOUS
      <4> QED BY <3>1, <4>1
    <3>4. \A k \in 1..Len(J[m - 1]) : J[m][k] = J[m - 1][k]
      BY <2>8, <3>2, <3>3
    <3> QED BY <1>3, <2>6, <3>1, <3>4
  <2>11. Upto(p, i) \in Nat /\ Upto(p, i) <= Upto(p, m - 1)
    BY <1>3, <2>7 DEF Good
  <2>12. Upto(p, i) <= Upto(p, m)
    BY <2>9, <2>10, <2>11
  <2>13. ASSUME NEW k \in 1..Upto(p, i) PROVE J[m][k] = J[i][k]
    <3>1. k \in 1..Len(J[m - 1])
      BY <2>9, <2>11
    <3>2. J[m][k] = J[m - 1][k] /\ J[m - 1][k] = J[i][k]
      BY <2>7, <2>10, <3>1 DEF Good
    <3> QED BY <3>2
  <2>14. Good(m)
    BY <2>12, <2>13 DEF Good
  <2> QED BY <2>4, <2>14
<1> QED BY <1>4 DEF J

\* Where a piece is in the whole.
LEMMA PieceInFlat ==
    ASSUME NEW S, NEW p \in Seq(Seq(S))
    PROVE  /\ FlattenSeq(p) \in Seq(S)
           /\ \A i \in 1..Len(p) :
                /\ Upto(p, i - 1) \in Nat /\ Len(p[i]) \in Nat
                /\ Upto(p, i) = Upto(p, i - 1) + Len(p[i])
                /\ Upto(p, i) <= Len(FlattenSeq(p))
                /\ \A k \in 1..Len(p[i]) :
                      FlattenSeq(p)[Upto(p, i - 1) + k] = p[i][k]
<1> DEFINE J == Joined(p)
           n == Len(p)
           F == FlattenSeq(p)
<1>1. n \in Nat
  BY LenProperties
<1>2. \A j \in 1..n : J[j] = IF j = 1 THEN p[j] ELSE J[j - 1] \o p[j]
  BY JoinedSteps
<1>3. \A j \in 1..n :
          /\ J[j] \in Seq(S) /\ p[j] \in Seq(S)
          /\ Upto(p, j) = Upto(p, j - 1) + Len(p[j])
          /\ Upto(p, j) \in Nat /\ Upto(p, j - 1) \in Nat
  BY JoinedAreSeqs
<1>4. F = IF n = 0 THEN p ELSE J[n]
  BY DEF FlattenSeq, Joined
<1>5. \A i \in 1..n : \A j \in i..n :
          /\ Upto(p, i) <= Upto(p, j)
          /\ \A k \in 1..Upto(p, i) : J[j][k] = J[i][k]
  BY JoinedStay
<1> HIDE DEF J, n, F
<1>6. F \in Seq(S)
  <2>1. CASE n = 0
    BY <1>4, <2>1, EmptySeq DEF n
  <2>2. CASE n # 0
    BY <1>1, <1>3, <1>4, <2>2
  <2> QED BY <2>1, <2>2
<1>7. ASSUME NEW i \in 1..n
      PROVE  /\ Upto(p, i - 1) \in Nat /\ Len(p[i]) \in Nat
             /\ Upto(p, i) = Upto(p, i - 1) + Len(p[i])
             /\ Upto(p, i) <= Len(F)
             /\ \A k \in 1..Len(p[i]) : F[Upto(p, i - 1) + k] = p[i][k]
  <2>1. n # 0 /\ n \in i..n /\ F = J[n] /\ n \in 1..n
    BY <1>1, <1>4
  <2>2. Upto(p, n) = Len(F) /\ Upto(p, i) = Len(J[i])
    BY <1>1, <2>1 DEF Upto, J
  <2>3. /\ Upto(p, i) <= Len(F) /\ \A k \in 1..Upto(p, i) : F[k] = J[i][k]
    BY <1>5, <2>1, <2>2
  <2>4. /\ Len(p[i]) \in Nat /\ Upto(p, i - 1) \in Nat
        /\ Upto(p, i) = Upto(p, i - 1) + Len(p[i])
    BY <1>3, LenProperties
  <2>5. ASSUME NEW k \in 1..Len(p[i]) PROVE F[Upto(p, i - 1) + k] = p[i][k]
    <3>1. Upto(p, i - 1) + k \in 1..Upto(p, i)
      BY <2>4
    <3>2. CASE i = 1
      <4>1. Upto(p, i - 1) = 0 /\ J[i] = p[i] /\ 0 + k = k
        BY <1>2, <3>2 DEF Upto
      <4> QED BY <2>3, <3>1, <4>1
    <3>3. CASE i # 1
      <4>1. /\ i - 1 \in 1..n /\ i - 1 # 0 /\ J[i] = J[i - 1] \o p[i]
            /\ J[i - 1] \in Seq(S) /\ p[i] \in Seq(S)
        <5>1. i - 1 \in 1..n /\ i - 1 # 0
          BY <1>1, <3>3
        <5>2. J[i] = J[i - 1] \o p[i]
          BY <1>2, <3>3
        <5>3. J[i - 1] \in Seq(S) /\ p[i] \in Seq(S)
          BY <1>3, <5>1
        <5> QED BY <5>1, <5>2, <5>3
      <4>2. Upto(p, i - 1) = Len(J[i - 1])
        BY <4>1 DEF Upto, J
      <4> DEFINE a == J[i - 1]
                 b == p[i]
      <4>3. a \in Seq(S) /\ b \in Seq(S)
        BY <4>1
      <4>4. J[i] = a \o b /\ Len(a) = Upto(p, i - 1) /\ k \in 1..Len(b)
        BY <4>1, <4>2
      <4>5. Len(a) \in Nat
        BY <2>4, <4>4
      <4> HIDE DEF a, b
      <4>6. (a \o b)[Len(a) + k] = b[k]
        <5>1. Len(b) \in Nat
          BY <4>3, LenProperties
        <5>2. /\ Len(a) + k \in 1..Len(a) + Len(b) /\ ~ (Len(a) + k <= Len(a))
              /\ Len(a) + k - Len(a) = k
          BY <4>4, <4>5, <5>1
        <5> QED BY <4>3, <5>2, ConcatProperties
      <4> QED BY <2>3, <3>1, <4>4, <4>6 DEF b
    <3> QED BY <3>2, <3>3
  <2> QED BY <2>3, <2>4, <2>5
<1> QED BY <1>6, <1>7 DEF n, F
\* A sequence is one of whatever has its elements.
LEMMA SeqOfElements ==
    ASSUME NEW S, NEW T, NEW s \in Seq(S), \A i \in 1..Len(s) : s[i] \in T
    PROVE  s \in Seq(T)
BY LenProperties

-----------------------------------------------------------------------------
(* The inductive invariant of the batch manager *)

WaitingRequest == [query : Query, id : 1..Len(askers), count : 1..owner.coords]
SentRequest ==
    [query : Query, id : 1..Len(askers), count : 1..owner.coords, destroyed : BOOLEAN]

BatchTyped ==
    /\ owner \in Owners
    /\ requestQueue \in Seq(WaitingRequest) /\ sentRequests \in Seq(SentRequest)
    /\ batchState \in {"Idle", "Downloading"}
    /\ timer \in BOOLEAN /\ success \in BOOLEAN /\ dangling \in BOOLEAN /\ doubled \in BOOLEAN
    /\ coords = Coords(sentRequests)
    /\ batchLoop \in 0..(Len(sentRequests) + 1) /\ currentIndex \in Nat
    /\ object \in [Query -> {"live", "deleting", "freed"}] /\ watched \in [Query -> BOOLEAN]
    /\ askers \in Seq(Query) /\ Len(askers) <= owner.requests
    /\ got \in [BatchRequest -> Seq(Seq(Nat))]

\* What a list of requests asks for, request by request
Pieces(requests) ==
    [i \in DOMAIN requests |-> [k \in 1..requests[i].count |-> requests[i].id]]

\* The loop's position in the heights is that of its next request, unless a request
\* before it was passed over
Position ==
    /\ batchLoop = 0 =>
         /\ currentIndex = 0
         /\ batchState = "Idle" => sentRequests = <<>>
    /\ batchLoop > 0 =>
         /\ batchState = "Idle"
         /\ currentIndex <= Upto(Pieces(sentRequests), batchLoop - 1)
         /\ (\A i \in 1..(batchLoop - 1) : ~sentRequests[i].destroyed) =>
               currentIndex = Upto(Pieces(sentRequests), batchLoop - 1)

\* A request knows the query that made it
AskedBy ==
    /\ \A j \in 1..Len(requestQueue) : requestQueue[j].query = askers[requestQueue[j].id]
    /\ \A i \in 1..Len(sentRequests) : sentRequests[i].query = askers[sentRequests[i].id]

\* Requests are sent and wait in the order in which they were made, each once
Ordered ==
    /\ \A i, j \in 1..Len(requestQueue) : i < j => requestQueue[i].id < requestQueue[j].id
    /\ \A i, j \in 1..Len(sentRequests) : i < j => sentRequests[i].id < sentRequests[j].id
    /\ \A i \in 1..Len(sentRequests), j \in 1..Len(requestQueue) :
         sentRequests[i].id < requestQueue[j].id

\* What waits, and what the loop has yet to come to, has not been answered
Unanswered ==
    /\ \A j \in 1..Len(requestQueue) : got[requestQueue[j].id] = <<>>
    /\ \A i \in 1..Len(sentRequests) : i >= batchLoop => got[sentRequests[i].id] = <<>>
    /\ \A r \in BatchRequest : r > Len(askers) => got[r] = <<>>

\* The queries it is from are there, and are watched
Watching ==
    /\ \A j \in 1..Len(requestQueue) :
         watched[requestQueue[j].query] /\ object[requestQueue[j].query] = "live"
    /\ \A i \in 1..Len(sentRequests) : i >= batchLoop /\ ~sentRequests[i].destroyed =>
         watched[sentRequests[i].query] /\ object[sentRequests[i].query] = "live"

Loops == BatchTyped /\ Position /\ AskedBy /\ QueueIsServed
Orderly == /\ Ordered /\ Unanswered /\ AnsweredOnce
           /\ AsksTwice \/ (Watching /\ ~dangling)
BatchIInv == Loops /\ (~doubled => Orderly)

\* What the types say of numbers.
LEMMA OwnersAreBounded ==
    ASSUME BatchTyped
    PROVE  /\ owner.requests \in Nat /\ owner.requests <= MaxAsked /\ owner.coords \in Nat
           /\ owner.fail \in BOOLEAN /\ MaxAsked \in Nat /\ MaxAnswers \in Nat /\ Full \in Nat
           /\ Len(askers) \in Nat /\ Len(requestQueue) \in Nat /\ Len(sentRequests) \in Nat
           /\ 1..Len(askers) \subseteq BatchRequest /\ BatchRequest \subseteq Nat
           /\ \A i \in 1..Len(requestQueue) : requestQueue[i] \in WaitingRequest
           /\ \A i \in 1..Len(sentRequests) : sentRequests[i] \in SentRequest
<1>1. /\ MaxAsked \in Nat /\ MaxAnswers \in Nat /\ Full \in Nat
      /\ Owners \subseteq [requests : 0..MaxAsked, coords : Nat, destroy : BOOLEAN,
                           reask : BOOLEAN, fail : BOOLEAN]
  BY BatchAssumption
<1>2. owner.requests \in 0..MaxAsked /\ owner.coords \in Nat /\ owner.fail \in BOOLEAN
  BY <1>1 DEF BatchTyped
<1>3. Len(askers) \in Nat /\ Len(requestQueue) \in Nat /\ Len(sentRequests) \in Nat
  BY LenProperties DEF BatchTyped
<1>4. Len(askers) <= owner.requests
  BY DEF BatchTyped
<1>5. /\ \A i \in 1..Len(requestQueue) : requestQueue[i] \in WaitingRequest
      /\ \A i \in 1..Len(sentRequests) : sentRequests[i] \in SentRequest
  BY ElementOfSeq DEF BatchTyped
<1> QED BY <1>1, <1>2, <1>3, <1>4, <1>5 DEF BatchRequest

\* The pieces of a list of requests, and what they make together.
LEMMA PiecesOf ==
    ASSUME NEW S, NEW r \in Seq(S), \A i \in 1..Len(r) : r[i].id \in Nat /\ r[i].count \in Nat
    PROVE  /\ Pieces(r) \in Seq(Seq(Nat)) /\ Len(Pieces(r)) = Len(r)
           /\ Coords(r) = FlattenSeq(Pieces(r)) /\ Coords(r) \in Seq(Nat)
           /\ \A i \in 1..Len(r) :
                /\ Pieces(r)[i] \in Seq(Nat) /\ Len(Pieces(r)[i]) = r[i].count
                /\ \A k \in 1..r[i].count : Pieces(r)[i][k] = r[i].id
<1>1. Len(r) \in Nat /\ DOMAIN r = 1..Len(r)
  BY LenProperties
<1>2. ASSUME NEW i \in 1..Len(r)
      PROVE  /\ Pieces(r)[i] \in Seq(Nat) /\ Len(Pieces(r)[i]) = r[i].count
             /\ \A k \in 1..r[i].count : Pieces(r)[i][k] = r[i].id
  <2>1. Pieces(r)[i] = [k \in 1..r[i].count |-> r[i].id]
    BY <1>1 DEF Pieces
  <2>2. r[i].id \in Nat /\ r[i].count \in Nat
    OBVIOUS
  <2> QED BY <2>1, <2>2
<1>3. Pieces(r) \in Seq(Seq(Nat)) /\ Len(Pieces(r)) = Len(r)
  <2>1. Pieces(r) = [i \in 1..Len(r) |-> Pieces(r)[i]]
    BY <1>1 DEF Pieces
  <2> QED BY <1>1, <1>2, <2>1
<1>4. Coords(r) = FlattenSeq(Pieces(r))
  BY DEF Coords, Pieces
<1>5. FlattenSeq(Pieces(r)) \in Seq(Nat)
  BY <1>3, PieceInFlat
<1> QED BY <1>2, <1>3, <1>4, <1>5

\* Requests for the same make the same pieces.
LEMMA SamePieces ==
    ASSUME NEW S, NEW T, NEW r \in Seq(S), NEW s \in Seq(T), Len(r) = Len(s),
           \A i \in 1..Len(r) : r[i].id = s[i].id /\ r[i].count = s[i].count
    PROVE  Pieces(r) = Pieces(s) /\ Coords(r) = Coords(s)
<1>1. DOMAIN r = 1..Len(r) /\ DOMAIN s = 1..Len(r)
  BY LenProperties
<1>2. Pieces(r) = Pieces(s)
  BY <1>1 DEF Pieces
<1>3. Coords(r) = FlattenSeq(Pieces(r)) /\ Coords(s) = FlattenSeq(Pieces(s))
  BY DEF Coords, Pieces
<1> QED BY <1>2, <1>3

\* The pieces of what was sent: where the heights of the loop's request are.
LEMMA PiecesSent ==
    ASSUME BatchTyped
    PROVE  /\ coords \in Seq(Nat) /\ Len(coords) \in Nat
           /\ \A i \in 1..Len(sentRequests) :
                /\ Upto(Pieces(sentRequests), i - 1) \in Nat
                /\ sentRequests[i].count \in Nat \ {0} /\ sentRequests[i].id \in Nat
                /\ Upto(Pieces(sentRequests), i)
                     = Upto(Pieces(sentRequests), i - 1) + sentRequests[i].count
                /\ Upto(Pieces(sentRequests), i) <= Len(coords)
                /\ \A k \in 1..sentRequests[i].count :
                      coords[Upto(Pieces(sentRequests), i - 1) + k] = sentRequests[i].id
<1> DEFINE P == Pieces(sentRequests)
           n == Len(sentRequests)
<1>1. /\ n \in Nat /\ owner.coords \in Nat /\ Len(askers) \in Nat
      /\ \A i \in 1..n : sentRequests[i] \in SentRequest
  BY OwnersAreBounded
<1>2. \A i \in 1..n : sentRequests[i].count \in Nat \ {0} /\ sentRequests[i].id \in Nat
  BY <1>1 DEF SentRequest
<1>3. sentRequests \in Seq(SentRequest) /\ coords = Coords(sentRequests)
  BY DEF BatchTyped
<1>4. /\ P \in Seq(Seq(Nat)) /\ Len(P) = n
      /\ coords = FlattenSeq(P)
      /\ \A i \in 1..n :
           /\ Len(P[i]) = sentRequests[i].count
           /\ \A k \in 1..sentRequests[i].count : P[i][k] = sentRequests[i].id
  BY <1>2, <1>3, PiecesOf
<1> HIDE DEF P
<1>5. /\ FlattenSeq(P) \in Seq(Nat)
      /\ \A i \in 1..Len(P) :
           /\ Upto(P, i - 1) \in Nat
           /\ Upto(P, i) = Upto(P, i - 1) + Len(P[i])
           /\ Upto(P, i) <= Len(FlattenSeq(P))
           /\ \A k \in 1..Len(P[i]) : FlattenSeq(P)[Upto(P, i - 1) + k] = P[i][k]
  <2>1. P \in Seq(Seq(Nat))
    BY <1>4
  <2> QED BY ONLY <2>1, PieceInFlat
<1>6. coords \in Seq(Nat) /\ Len(coords) \in Nat
  BY <1>4, <1>5, LenProperties
<1>7. ASSUME NEW i \in 1..n
      PROVE  /\ Upto(P, i - 1) \in Nat
             /\ Upto(P, i) = Upto(P, i - 1) + sentRequests[i].count
             /\ Upto(P, i) <= Len(coords)
             /\ \A k \in 1..sentRequests[i].count :
                   coords[Upto(P, i - 1) + k] = sentRequests[i].id
  BY <1>4, <1>5
<1> QED BY <1>2, <1>6, <1>7 DEF P

-----------------------------------------------------------------------------
(* Every step keeps it *)

\* At first nothing waits.
LEMMA BatchBegins == ASSUME BatchInit PROVE BatchIInv
<1>1. /\ requestQueue = <<>> /\ sentRequests = <<>> /\ askers = <<>> /\ coords = <<>>
      /\ batchLoop = 0 /\ currentIndex = 0 /\ batchState = "Idle" /\ owner \in Owners
      /\ dangling = FALSE /\ doubled = FALSE /\ got = [r \in BatchRequest |-> <<>>]
      /\ timer = FALSE /\ success = FALSE
      /\ object = [q \in Query |-> "live"] /\ watched = [q \in Query |-> FALSE]
  BY DEF BatchInit
<1>2. Len(requestQueue) = 0 /\ Len(sentRequests) = 0 /\ Len(askers) = 0
  BY <1>1
<1>3. Coords(<<>>) = <<>>
  <2>1. Pieces(<<>>) = <<>>
    BY DEF Pieces
  <2>2. FlattenSeq(<<>>) = <<>>
    BY EmptySeq DEF FlattenSeq
  <2>3. Coords(<<>>) = FlattenSeq(Pieces(<<>>))
    BY DEF Coords, Pieces
  <2> QED BY <2>1, <2>2, <2>3
<1>4. BatchTyped
  <2>1. owner.requests \in Nat
    BY <1>1, BatchAssumption
  <2>2. got \in [BatchRequest -> Seq(Seq(Nat))]
    BY <1>1
  <2>3. coords = Coords(sentRequests)
    BY <1>1, <1>3
  <2>4. /\ requestQueue \in Seq(WaitingRequest) /\ sentRequests \in Seq(SentRequest)
        /\ askers \in Seq(Query)
    BY <1>1, EmptySeq
  <2>5. Len(askers) <= owner.requests /\ batchLoop \in 0..Len(sentRequests) + 1
    BY <1>1, <1>2, <2>1
  <2> QED BY <1>1, <2>2, <2>3, <2>4, <2>5 DEF BatchTyped
<1>5. Position /\ AskedBy /\ QueueIsServed
  BY <1>1, <1>2 DEF Position, AskedBy, QueueIsServed
<1>6. Ordered /\ Unanswered /\ Watching
  BY <1>1, <1>2 DEF Ordered, Unanswered, Watching
<1>7. AnsweredOnce
  BY <1>1 DEF AnsweredOnce
<1> QED BY <1>1, <1>4, <1>5, <1>6, <1>7 DEF BatchIInv, Loops, Orderly

\* A new request is the last of the queue, with a number of its own.
LEMMA AddQueryKeeps ==
    ASSUME BatchIInv, UNCHANGED owner,
           NEW q \in Query, NEW count \in 1..owner.coords, AddQuery(q, count)
    PROVE  BatchIInv'
<1> DEFINE n == Len(askers)
           new == [query |-> q, id |-> n + 1, count |-> count]
<1>1. Loops /\ BatchTyped /\ Position /\ AskedBy
  BY DEF BatchIInv, Loops
<1>2. /\ owner.requests \in Nat /\ owner.requests <= MaxAsked /\ owner.coords \in Nat
      /\ MaxAsked \in Nat /\ n \in Nat /\ Len(requestQueue) \in Nat /\ Len(sentRequests) \in Nat
      /\ \A i \in 1..Len(requestQueue) : requestQueue[i] \in WaitingRequest
      /\ \A i \in 1..Len(sentRequests) : sentRequests[i] \in SentRequest
  BY <1>1, OwnersAreBounded
<1>3. /\ object[q] = "live" /\ n < owner.requests
      /\ askers' = Append(askers, q)
      /\ requestQueue' = Append(requestQueue, [query |-> q, id |-> Len(askers'), count |-> count])
      /\ watched' = [watched EXCEPT ![q] = TRUE] /\ timer' = TRUE
      /\ sentRequests' = sentRequests /\ batchState' = batchState /\ coords' = coords
      /\ batchLoop' = batchLoop /\ success' = success /\ currentIndex' = currentIndex
      /\ object' = object /\ got' = got /\ dangling' = dangling /\ doubled' = doubled
      /\ owner' = owner
  BY DEF AddQuery, batch
<1>4. /\ askers \in Seq(Query) /\ requestQueue \in Seq(WaitingRequest)
      /\ sentRequests \in Seq(SentRequest) /\ watched \in [Query -> BOOLEAN]
      /\ object \in [Query -> {"live", "deleting", "freed"}]
  BY <1>1 DEF BatchTyped
<1>5. /\ askers' \in Seq(Query) /\ Len(askers') = n + 1 /\ askers'[n + 1] = q
      /\ \A i \in 1..n : askers'[i] = askers[i]
  BY <1>3, <1>4, AppendProperties
<1>6. requestQueue' = Append(requestQueue, new)
  BY <1>3, <1>5
<1>7. /\ Len(requestQueue') = Len(requestQueue) + 1 /\ requestQueue'[Len(requestQueue) + 1] = new
      /\ \A i \in 1..Len(requestQueue) : requestQueue'[i] = requestQueue[i]
  BY <1>4, <1>6, AppendProperties
<1>8. WaitingRequest \subseteq WaitingRequest' /\ SentRequest \subseteq SentRequest'
      /\ new \in WaitingRequest'
  BY <1>2, <1>3, <1>5 DEF WaitingRequest, SentRequest
<1>9. requestQueue' \in Seq(WaitingRequest') /\ sentRequests' \in Seq(SentRequest')
  <2>1. requestQueue \in Seq(WaitingRequest')
    <3>1. \A i \in 1..Len(requestQueue) : requestQueue[i] \in WaitingRequest'
      BY <1>2, <1>8
    <3> QED BY <1>4, <3>1, SeqOfElements
  <2>2. sentRequests' \in Seq(SentRequest')
    <3>1. \A i \in 1..Len(sentRequests) : sentRequests[i] \in SentRequest'
      BY <1>2, <1>8
    <3>2. sentRequests \in Seq(SentRequest')
      BY <1>4, <3>1, SeqOfElements
    <3> QED BY <1>3, <3>2
  <2> QED BY <1>6, <1>8, <2>1, <2>2, AppendProperties
<1> HIDE DEF n
<1>10. BatchTyped'
  <2>1. coords' = Coords(sentRequests)'
    BY <1>1, <1>3 DEF BatchTyped, Coords
  <2>2. got' \in [BatchRequest' -> Seq(Seq(Nat))]
    BY <1>1, <1>3 DEF BatchTyped, BatchRequest
  <2>3. askers' \in Seq(Query) /\ Len(askers') <= owner'.requests
    BY <1>2, <1>3, <1>5
  <2>4. /\ owner' \in Owners /\ batchState' \in {"Idle", "Downloading"}
        /\ timer' \in BOOLEAN /\ success' \in BOOLEAN /\ dangling' \in BOOLEAN
        /\ doubled' \in BOOLEAN /\ currentIndex' \in Nat
        /\ batchLoop' \in 0..(Len(sentRequests') + 1)
        /\ object' \in [Query -> {"live", "deleting", "freed"}]
        /\ watched' \in [Query -> BOOLEAN]
    BY <1>1, <1>3 DEF BatchTyped
  <2> QED BY <1>9, <2>1, <2>2, <2>3, <2>4 DEF BatchTyped
<1>11. Position'
  BY <1>1, <1>3 DEF Position, Pieces
<1>12. AskedBy'
  <2>1. ASSUME NEW j \in 1..Len(requestQueue')
        PROVE  requestQueue'[j].query = askers'[requestQueue'[j].id]
    <3>1. CASE j \in 1..Len(requestQueue)
      <4>1. requestQueue[j].id \in 1..n /\ requestQueue[j].query = askers[requestQueue[j].id]
        BY <1>1, <1>2, <3>1 DEF AskedBy, WaitingRequest, n
      <4> QED BY <1>5, <1>7, <3>1, <4>1
    <3>2. CASE j = Len(requestQueue) + 1
      BY <1>5, <1>7, <3>2
    <3> QED BY <1>2, <1>7, <3>1, <3>2
  <2>2. ASSUME NEW i \in 1..Len(sentRequests')
        PROVE  sentRequests'[i].query = askers'[sentRequests'[i].id]
    <3>1. sentRequests[i].id \in 1..n /\ sentRequests[i].query = askers[sentRequests[i].id]
      BY <1>1, <1>2, <1>3 DEF AskedBy, SentRequest, n
    <3> QED BY <1>3, <1>5, <3>1
  <2> QED BY <2>1, <2>2 DEF AskedBy
<1>13. QueueIsServed'
  BY <1>3 DEF QueueIsServed
<1>14. ASSUME ~doubled' PROVE Orderly'
  <2>1. Orderly
    BY <1>3, <1>14 DEF BatchIInv
  <2>2. /\ \A i \in 1..Len(requestQueue) : requestQueue[i].id \in 1..n
        /\ \A i \in 1..Len(sentRequests) : sentRequests[i].id \in 1..n
    BY <1>2 DEF WaitingRequest, SentRequest, n
  <2>3. Ordered'
    <3>1. ASSUME NEW i \in 1..Len(requestQueue'), NEW j \in 1..Len(requestQueue'), i < j
          PROVE  requestQueue'[i].id < requestQueue'[j].id
      <4>1. i \in 1..Len(requestQueue) /\ requestQueue'[i] = requestQueue[i]
        BY <1>2, <1>7, <3>1
      <4>2. CASE j \in 1..Len(requestQueue)
        BY <1>7, <2>1, <3>1, <4>1, <4>2 DEF Orderly, Ordered
      <4>3. CASE j = Len(requestQueue) + 1
        BY <1>2, <1>7, <2>2, <4>1, <4>3
      <4> QED BY <1>2, <1>7, <4>2, <4>3
    <3>2. ASSUME NEW i \in 1..Len(sentRequests'), NEW j \in 1..Len(requestQueue')
          PROVE  sentRequests'[i].id < requestQueue'[j].id
      <4>1. CASE j \in 1..Len(requestQueue)
        BY <1>3, <1>7, <2>1, <4>1 DEF Orderly, Ordered
      <4>2. CASE j = Len(requestQueue) + 1
        BY <1>2, <1>3, <1>7, <2>2, <4>2
      <4> QED BY <1>2, <1>7, <4>1, <4>2
    <3>3. \A i, j \in 1..Len(sentRequests') : i < j => sentRequests'[i].id < sentRequests'[j].id
      BY <1>3, <2>1 DEF Orderly, Ordered
    <3> QED BY <3>1, <3>2, <3>3 DEF Ordered
  <2>4. Unanswered'
    <3>1. ASSUME NEW j \in 1..Len(requestQueue') PROVE got'[requestQueue'[j].id] = <<>>
      <4>1. CASE j \in 1..Len(requestQueue)
        BY <1>3, <1>7, <2>1, <4>1 DEF Orderly, Unanswered
      <4>2. CASE j = Len(requestQueue) + 1
        <5>1. n + 1 \in BatchRequest /\ n + 1 > n
          BY <1>2, <1>3 DEF BatchRequest
        <5> QED BY <1>3, <1>7, <2>1, <4>2, <5>1 DEF Orderly, Unanswered, n
      <4> QED BY <1>2, <1>7, <4>1, <4>2
    <3>2. \A i \in 1..Len(sentRequests') :
              i >= batchLoop' => got'[sentRequests'[i].id] = <<>>
      BY <1>3, <2>1 DEF Orderly, Unanswered
    <3>3. ASSUME NEW r \in BatchRequest, r > Len(askers') PROVE got'[r] = <<>>
      <4>1. r \in Nat /\ r > n
        BY <1>2, <1>5, <3>3 DEF BatchRequest
      <4> QED BY <1>3, <2>1, <4>1 DEF Orderly, Unanswered, n
    <3> QED BY <3>1, <3>2, <3>3 DEF Unanswered, BatchRequest
  <2>5. AnsweredOnce'
    BY <1>3, <2>1 DEF Orderly, AnsweredOnce, BatchRequest
  <2>6. ASSUME ~AsksTwice' PROVE Watching' /\ ~dangling'
    <3>1. ~AsksTwice
      <4>1. DOMAIN askers' = 1..n + 1 /\ DOMAIN askers = 1..n
        BY <1>4, <1>5, LenProperties DEF n
      <4>2. \A a, b \in 1..n + 1 : askers'[a] = askers'[b] => a = b
        BY <2>6, <4>1 DEF AsksTwice, IsInjective
      <4>3. \A a, b \in 1..n : askers[a] = askers[b] => a = b
        <5> SUFFICES ASSUME NEW a \in 1..n, NEW b \in 1..n, askers[a] = askers[b] PROVE a = b
          OBVIOUS
        <5>1. askers'[a] = askers'[b]
          BY <1>5
        <5>2. a \in 1..n + 1 /\ b \in 1..n + 1
          BY <1>2 DEF n
        <5> QED BY <4>2, <5>1, <5>2
      <4> QED BY <4>1, <4>3 DEF AsksTwice, IsInjective
    <3>2. Watching /\ ~dangling
      BY <2>1, <3>1 DEF Orderly
    <3>3. \A p \in Query : watched[p] => watched'[p]
      BY <1>3, <1>4
    <3>4. ASSUME NEW j \in 1..Len(requestQueue')
          PROVE  watched'[requestQueue'[j].query] /\ object'[requestQueue'[j].query] = "live"
      <4>1. CASE j \in 1..Len(requestQueue)
        BY <1>2, <1>3, <1>7, <3>2, <3>3, <4>1 DEF Watching, WaitingRequest
      <4>2. CASE j = Len(requestQueue) + 1
        BY <1>3, <1>4, <1>7, <4>2
      <4> QED BY <1>2, <1>7, <4>1, <4>2
    <3>5. ASSUME NEW i \in 1..Len(sentRequests'), i >= batchLoop', ~sentRequests'[i].destroyed
          PROVE  watched'[sentRequests'[i].query] /\ object'[sentRequests'[i].query] = "live"
      BY <1>2, <1>3, <3>2, <3>3, <3>5 DEF Watching, SentRequest
    <3> QED BY <1>3, <3>2, <3>4, <3>5 DEF Watching
  <2> QED BY <2>3, <2>4, <2>5, <2>6 DEF Orderly
<1> QED BY <1>10, <1>11, <1>12, <1>13, <1>14 DEF BatchIInv, Loops

\* The number of requests dequeued is one of those there are.
LEMMA SomeAreTaken ==
    ASSUME BatchTyped, requestQueue # <<>>
    PROVE  Taken \in 1..Len(requestQueue)
<1> DEFINE n == Len(requestQueue)
           Filling == {k \in 1..n : Fills(k)}
<1>1. n \in Nat
  BY OwnersAreBounded
<1>2. n \in 1..n
  <2>1. n # 0
    BY EmptySeq DEF BatchTyped
  <2> QED BY <1>1, <2>1
<1>3. n \in Filling
  BY <1>2 DEF Fills
<1>4. Filling \subseteq Nat
  BY <1>1
<1> HIDE DEF Filling
<1>5. PICK t \in Filling : \A k \in Filling : t <= k
  BY <1>3, <1>4, LeastOf
<1>6. t \in 1..n /\ Fills(t)
  BY <1>5 DEF Filling
<1>7. ASSUME NEW k \in 1..(t - 1) PROVE ~Fills(k)
  <2>1. k \in 1..n /\ ~ (t <= k)
    BY <1>1, <1>6
  <2> QED BY <1>5, <2>1 DEF Filling
<1>8. \E m \in 1..n : Fills(m) /\ \A k \in 1..(m - 1) : ~Fills(k)
  BY <1>6, <1>7
<1> QED BY <1>8 DEF Taken

\* What a batch takes of the queue and leaves of it.
LEMMA BatchTakes ==
    ASSUME NEW S, requestQueue \in Seq(S), NEW t \in 1..Len(requestQueue)
    PROVE  /\ Len(requestQueue) \in Nat
           /\ SubSeq(requestQueue, 1, t) \in Seq(S) /\ Len(SubSeq(requestQueue, 1, t)) = t
           /\ \A i \in 1..t : SubSeq(requestQueue, 1, t)[i] = requestQueue[i]
           /\ Rest(t) \in Seq(S)
           /\ \A j \in 1..Len(Rest(t)) :
                \E i \in 1..Len(requestQueue) : Rest(t)[j] = requestQueue[i]
           /\ Len(Left(t)) <= t =>
                /\ Len(Rest(t)) = Len(requestQueue) - t
                /\ \A j \in 1..Len(Rest(t)) : Rest(t)[j] = requestQueue[t + j]
<1> DEFINE n == Len(requestQueue)
           now == SubSeq(requestQueue, 1, t)
           a == SubSeq(requestQueue, t + 1, n)
           m == Len(a)
           b == SubSeq(a, t + 1, m)
<1>1. n \in Nat /\ \A i \in 1..n : requestQueue[i] \in S
  BY LenProperties, ElementOfSeq
<1>2. t \in Nat /\ 1 <= t /\ t <= n
  BY <1>1
<1>3. now \in Seq(S) /\ Len(now) = t /\ \A i \in 1..t : now[i] = requestQueue[i]
  <2>1. \A i \in 1..t : requestQueue[i] \in S
    BY <1>1, <1>2
  <2>2. /\ SubSeq(requestQueue, 1, t) \in Seq(S)
        /\ Len(SubSeq(requestQueue, 1, t)) = IF 1 <= t THEN t - 1 + 1 ELSE 0
        /\ \A i \in 1..(t - 1 + 1) : SubSeq(requestQueue, 1, t)[i] = requestQueue[1 + i - 1]
    BY <1>2, <2>1, SubSeqProperties
  <2> HIDE DEF now
  <2>3. t - 1 + 1 = t /\ \A i \in 1..t : 1 + i - 1 = i
    BY <1>2
  <2> QED BY <1>2, <2>2, <2>3 DEF now
<1>4. a \in Seq(S) /\ m = n - t /\ \A j \in 1..m : a[j] = requestQueue[t + j]
  <2>1. \A i \in t + 1..n : requestQueue[i] \in S
    BY <1>1, <1>2
  <2>2. /\ a \in Seq(S)
        /\ Len(a) = IF t + 1 <= n THEN n - (t + 1) + 1 ELSE 0
        /\ \A i \in 1..(n - (t + 1) + 1) : a[i] = requestQueue[t + 1 + i - 1]
    BY <1>1, <1>2, <2>1, SubSeqProperties
  <2> HIDE DEF a
  <2>3. /\ (IF t + 1 <= n THEN n - (t + 1) + 1 ELSE 0) = n - t
        /\ n - (t + 1) + 1 = n - t
        /\ \A j \in 1..n - t : t + 1 + j - 1 = t + j
    BY <1>1, <1>2
  <2> QED BY <2>2, <2>3
<1>5. /\ b \in Seq(S) /\ Len(b) \in Nat
      /\ \A j \in 1..Len(b) : t + j \in 1..m /\ b[j] = a[t + j]
      /\ m <= t => Len(b) = 0
  <2>1. m \in Nat /\ \A i \in 1..m : a[i] \in S
    BY <1>4, LenProperties, ElementOfSeq
  <2> HIDE DEF a
  <2>2. \A i \in t + 1..m : a[i] \in S
    BY <1>2, <2>1
  <2>3. /\ b \in Seq(S)
        /\ Len(b) = IF t + 1 <= m THEN m - (t + 1) + 1 ELSE 0
        /\ \A i \in 1..(m - (t + 1) + 1) : b[i] = a[t + 1 + i - 1]
    BY <1>2, <2>1, <2>2, SubSeqProperties
  <2> HIDE DEF b, m
  <2>4. Len(b) \in Nat /\ (m <= t => Len(b) = 0)
    BY <1>2, <2>1, <2>3
  <2>5. ASSUME NEW j \in 1..Len(b) PROVE t + j \in 1..m /\ b[j] = a[t + j]
    <3>1. j \in 1..(m - (t + 1) + 1) /\ t + 1 + j - 1 = t + j /\ t + j \in 1..m
      BY <1>2, <2>1, <2>3
    <3> QED BY <2>3, <3>1
  <2> QED BY <2>3, <2>4, <2>5
<1>6. Left(t) = a /\ Rest(t) = a \o b
  BY DEF Left, Rest
<1>7. m \in Nat
  BY <1>4, LenProperties
<1> HIDE DEF a, b, m, n, now
<1>8. /\ a \o b \in Seq(S) /\ Len(a \o b) = m + Len(b)
      /\ \A j \in 1..m + Len(b) : (a \o b)[j] = IF j <= m THEN a[j] ELSE b[j - m]
  BY <1>4, <1>5, ConcatProperties DEF m
<1>9. ASSUME NEW j \in 1..m + Len(b) PROVE \E i \in 1..n : (a \o b)[j] = requestQueue[i]
  <2>1. CASE j <= m
    <3>1. j \in 1..m /\ t + j \in 1..n
      BY <1>1, <1>2, <1>4, <1>5, <1>7, <2>1
    <3> QED BY <1>4, <1>8, <2>1, <3>1
  <2>2. CASE ~ (j <= m)
    <3>1. j - m \in 1..Len(b)
      BY <1>5, <1>7, <2>2
    <3>2. t + (j - m) \in 1..m /\ b[j - m] = a[t + (j - m)]
      BY <1>5, <3>1
    <3>3. t + (t + (j - m)) \in 1..n
      <4>1. \A x \in 1..m : t + x \in 1..n
        BY <1>1, <1>2, <1>4, <1>7
      <4> QED BY <3>2, <4>1
    <3>4. (a \o b)[j] = b[j - m]
      BY <1>8, <2>2
    <3>5. a[t + (j - m)] = requestQueue[t + (t + (j - m))]
      BY <1>4, <3>2
    <3>6. (a \o b)[j] = requestQueue[t + (t + (j - m))]
      BY <3>2, <3>4, <3>5
    <3> QED BY <3>3, <3>6
  <2> QED BY <2>1, <2>2
<1>10. ASSUME m <= t
       PROVE  /\ Len(a \o b) = n - t
              /\ \A j \in 1..Len(a \o b) : (a \o b)[j] = requestQueue[t + j]
  <2>1. Len(b) = 0 /\ m + Len(b) = m /\ \A j \in 1..m : j <= m
    BY <1>5, <1>7, <1>10
  <2> QED BY <1>4, <1>8, <2>1
<1>11. /\ Rest(t) \in Seq(S)
       /\ \A j \in 1..Len(Rest(t)) : \E i \in 1..n : Rest(t)[j] = requestQueue[i]
  BY <1>6, <1>8, <1>9
<1>12. Len(Left(t)) <= t =>
         /\ Len(Rest(t)) = n - t
         /\ \A j \in 1..Len(Rest(t)) : Rest(t)[j] = requestQueue[t + j]
  BY <1>6, <1>10 DEF m
<1> QED BY <1>1, <1>3, <1>11, <1>12 DEF n, now

\* The requests of a batch are sent in their order, and the rest waits as it did.
LEMMA SendNextBatchKeeps ==
    ASSUME BatchIInv, UNCHANGED owner, SendNextBatch
    PROVE  BatchIInv'
<1>1. Loops /\ BatchTyped /\ Position /\ AskedBy
  BY DEF BatchIInv, Loops
<1>2. /\ timer /\ batchLoop = 0 /\ batchLoop' = batchLoop /\ success' = success
      /\ currentIndex' = currentIndex /\ object' = object /\ watched' = watched
      /\ askers' = askers /\ got' = got /\ dangling' = dangling /\ owner' = owner
  BY DEF SendNextBatch, batch, OutOfBatchLoop
<1>3. CASE batchState # "Idle" \/ requestQueue = <<>>
  <2>1. /\ requestQueue' = requestQueue /\ sentRequests' = sentRequests /\ batchState' = batchState
        /\ coords' = coords /\ doubled' = doubled
    BY <1>3 DEF SendNextBatch, batch
  <2>2. timer' \in BOOLEAN /\ (batchState # "Idle" \/ requestQueue' = <<>>)
    BY <1>3, <2>1 DEF SendNextBatch
  <2>3. batchState # "Idle" => batchState = "Downloading"
    BY <1>1 DEF BatchTyped
  <2>4. BatchTyped'
    BY <1>1, <1>2, <2>1, <2>2
       DEF BatchTyped, WaitingRequest, SentRequest, BatchRequest, Coords
  <2>5. Position' /\ AskedBy'
    BY <1>1, <1>2, <2>1 DEF Position, AskedBy, Pieces
  <2>6. QueueIsServed'
    BY <2>1, <2>2, <2>3 DEF QueueIsServed
  <2>7. Orderly => Orderly'
    BY <1>2, <2>1 DEF Orderly, Ordered, Unanswered, Watching, AnsweredOnce,
                      AsksTwice, IsInjective, BatchRequest
  <2> QED BY <2>1, <2>4, <2>5, <2>6, <2>7 DEF BatchIInv, Loops
<1>4. CASE batchState = "Idle" /\ requestQueue # <<>>
  <2> DEFINE t == Taken
             n == Len(requestQueue)
             now == SubSeq(requestQueue, 1, t)
             sent == [i \in DOMAIN now |-> Sent(now[i])]
             rest == Rest(t)
  <2>1. /\ sentRequests' = sent /\ coords' = Coords(now) /\ requestQueue' = rest
        /\ batchState' = "Downloading" /\ timer' = FALSE
        /\ doubled' = (doubled \/ Len(Left(t)) > t)
    BY <1>4 DEF SendNextBatch
  <2>2. t \in 1..n
    BY <1>1, <1>4, SomeAreTaken
  <2> HIDE DEF t, n
  <2>3. requestQueue \in Seq(WaitingRequest) /\ sentRequests = <<>>
    BY <1>1, <1>2, <1>4 DEF BatchTyped, Position
  <2>4. /\ n \in Nat /\ now \in Seq(WaitingRequest) /\ Len(now) = t
        /\ \A i \in 1..t : now[i] = requestQueue[i]
        /\ rest \in Seq(WaitingRequest)
        /\ \A j \in 1..Len(rest) : \E i \in 1..n : rest[j] = requestQueue[i]
        /\ Len(Left(t)) <= t =>
             /\ Len(rest) = n - t
             /\ \A j \in 1..Len(rest) : rest[j] = requestQueue[t + j]
    BY <2>2, <2>3, BatchTakes DEF n
  <2>5. /\ \A i \in 1..n : requestQueue[i] \in WaitingRequest
        /\ owner.coords \in Nat /\ Len(askers) \in Nat
    BY <1>1, OwnersAreBounded DEF n
  <2>6. t \in Nat /\ \A i \in 1..t : i \in 1..n
    BY <2>2, <2>4
  <2> HIDE DEF now, rest
  <2>7. DOMAIN now = 1..t
    BY <2>4, LenProperties
  <2>8. /\ sent \in Seq(SentRequest) /\ Len(sent) = t
        /\ \A i \in 1..t : /\ sent[i].id = requestQueue[i].id /\ sent[i].count = requestQueue[i].count
                           /\ sent[i].query = requestQueue[i].query
    <3>1. ASSUME NEW i \in 1..t
          PROVE  /\ sent[i] \in SentRequest /\ sent[i].id = requestQueue[i].id
                 /\ sent[i].count = requestQueue[i].count /\ sent[i].query = requestQueue[i].query
      <4>1. requestQueue[i] \in WaitingRequest /\ sent[i] = Sent(requestQueue[i])
        BY <2>4, <2>5, <2>6, <2>7
      <4> HIDE DEF sent
      <4> QED BY <4>1 DEF WaitingRequest, SentRequest, Sent
    <3>2. sent = [i \in 1..t |-> sent[i]]
      BY <2>7
    <3> HIDE DEF sent
    <3>3. \A i \in 1..t : sent[i] \in SentRequest
      BY <3>1
    <3>4. sent \in Seq(SentRequest) /\ Len(sent) = t
      BY <2>6, <3>2, <3>3
    <3> QED BY <3>1, <3>4
  <2> HIDE DEF sent
  <2>9. Coords(sent) = Coords(now)
    <3>1. \A i \in 1..Len(sent) : sent[i].id = now[i].id /\ sent[i].count = now[i].count
      BY <2>4, <2>8
    <3> QED BY <2>4, <2>8, <3>1, SamePieces, SMTT(30)
  <2>10. BatchTyped'
    <3>1. coords' = Coords(sentRequests)'
      BY <2>1, <2>9 DEF Coords
    <3>2. requestQueue' \in Seq(WaitingRequest') /\ sentRequests' \in Seq(SentRequest')
      BY <1>2, <2>1, <2>4, <2>8 DEF WaitingRequest, SentRequest
    <3>3. batchLoop' \in 0..(Len(sentRequests') + 1)
      BY <1>2, <2>1, <2>6, <2>8
    <3>4. doubled' \in BOOLEAN
      BY <1>1, <2>1 DEF BatchTyped
    <3> QED BY <1>1, <1>2, <2>1, <3>1, <3>2, <3>3, <3>4 DEF BatchTyped, BatchRequest
  <2>11. Position'
    BY <1>1, <1>2, <2>1 DEF Position
  <2>12. AskedBy'
    <3>1. ASSUME NEW j \in 1..Len(rest) PROVE rest[j].query = askers[rest[j].id]
      <4>1. PICK i \in 1..n : rest[j] = requestQueue[i]
        BY <2>4
      <4> QED BY <1>1, <4>1 DEF AskedBy, n
    <3>2. ASSUME NEW i \in 1..Len(sent) PROVE sent[i].query = askers[sent[i].id]
      BY <1>1, <2>6, <2>8 DEF AskedBy, n
    <3> QED BY <1>2, <2>1, <3>1, <3>2 DEF AskedBy
  <2>13. QueueIsServed'
    BY <2>1 DEF QueueIsServed
  <2>14. ASSUME ~doubled' PROVE Orderly'
    <3>1. Orderly /\ ~doubled /\ ~ (Len(Left(t)) > t)
      BY <2>1, <2>14 DEF BatchIInv
    <3>2. Len(Left(t)) <= t
      <4>1. Len(Left(t)) \in Nat
        BY <2>3, <2>4, <2>5, <2>6, SubSeqProperties, LenProperties DEF Left, n
      <4> QED BY <2>6, <3>1, <4>1
    <3>3. Len(rest) = n - t /\ \A j \in 1..Len(rest) : rest[j] = requestQueue[t + j]
      BY <2>4, <3>2
    <3>4. \A j \in 1..Len(rest) : t + j \in 1..n
      BY <2>2, <2>4, <3>3
    <3>5. /\ \A i, j \in 1..n : i < j => requestQueue[i].id < requestQueue[j].id
          /\ \A j \in 1..n : got[requestQueue[j].id] = <<>>
      BY <3>1 DEF Orderly, Ordered, Unanswered, n
    <3>6. Ordered'
      <4>1. ASSUME NEW i \in 1..Len(rest), NEW j \in 1..Len(rest), i < j
            PROVE  rest[i].id < rest[j].id
        <5>1. t + i \in 1..n /\ t + j \in 1..n /\ t + i < t + j
          BY <2>4, <2>6, <3>3, <3>4, <4>1
        <5> QED BY <3>3, <3>5, <5>1
      <4>2. ASSUME NEW i \in 1..Len(sent), NEW j \in 1..Len(sent), i < j
            PROVE  sent[i].id < sent[j].id
        BY <2>6, <2>8, <3>5, <4>2
      <4>3. ASSUME NEW i \in 1..Len(sent), NEW j \in 1..Len(rest)
            PROVE  sent[i].id < rest[j].id
        <5>1. i \in 1..n /\ t + j \in 1..n /\ i < t + j
          BY <2>4, <2>6, <2>8, <3>3, <3>4
        <5> QED BY <2>8, <3>3, <3>5, <5>1
      <4> QED BY <2>1, <4>1, <4>2, <4>3 DEF Ordered
    <3>7. Unanswered'
      <4>1. ASSUME NEW j \in 1..Len(rest) PROVE got[rest[j].id] = <<>>
        BY <3>3, <3>4, <3>5
      <4>2. ASSUME NEW i \in 1..Len(sent) PROVE got[sent[i].id] = <<>>
        BY <2>6, <2>8, <3>5
      <4>3. \A r \in BatchRequest : r > Len(askers) => got[r] = <<>>
        BY <3>1 DEF Orderly, Unanswered
      <4> QED BY <1>2, <2>1, <4>1, <4>2, <4>3 DEF Unanswered, BatchRequest
    <3>8. AnsweredOnce'
      BY <1>2, <3>1 DEF Orderly, AnsweredOnce, BatchRequest
    <3>9. ASSUME ~AsksTwice' PROVE Watching' /\ ~dangling'
      <4>1. Watching /\ ~dangling
        BY <1>2, <3>1, <3>9 DEF Orderly, AsksTwice, IsInjective
      <4>2. \A i \in 1..n : watched[requestQueue[i].query] /\ object[requestQueue[i].query] = "live"
        BY <4>1 DEF Watching, n
      <4>3. \A j \in 1..Len(rest) : watched[rest[j].query] /\ object[rest[j].query] = "live"
        BY <3>3, <3>4, <4>2
      <4>4. \A i \in 1..Len(sent) : watched[sent[i].query] /\ object[sent[i].query] = "live"
        BY <2>6, <2>8, <4>2
      <4> QED BY <1>2, <2>1, <4>1, <4>3, <4>4 DEF Watching
    <3> QED BY <3>6, <3>7, <3>8, <3>9 DEF Orderly
  <2> QED BY <2>10, <2>11, <2>12, <2>13, <2>14 DEF BatchIInv, Loops
<1> QED BY <1>3, <1>4

\* An answer of the tile manager puts the loop before the first request.
LEMMA CoordinateHeightsKeeps ==
    ASSUME BatchIInv, UNCHANGED owner, CoordinateHeights
    PROVE  BatchIInv'
<1>1. Loops /\ BatchTyped /\ Position /\ AskedBy
  BY DEF BatchIInv, Loops
<1>2. /\ batchLoop = 0 /\ batchState' = "Idle" /\ batchLoop' = 1 /\ currentIndex' = 0
      /\ success' \in {TRUE} \cup (IF owner.fail THEN {FALSE} ELSE {})
      /\ requestQueue' = requestQueue /\ sentRequests' = sentRequests /\ coords' = coords
      /\ timer' = timer /\ object' = object /\ watched' = watched /\ askers' = askers
      /\ got' = got /\ dangling' = dangling /\ doubled' = doubled /\ owner' = owner
  BY DEF CoordinateHeights, OutOfBatchLoop
<1>3. Len(sentRequests) \in Nat
  BY <1>1, OwnersAreBounded
<1>4. BatchTyped'
  <2>1. success' \in BOOLEAN
    BY <1>2
  <2>2. batchLoop' \in 0..(Len(sentRequests') + 1) /\ currentIndex' \in Nat
    BY <1>2, <1>3
  <2> QED BY <1>1, <1>2, <2>1, <2>2
       DEF BatchTyped, WaitingRequest, SentRequest, BatchRequest, Coords
<1>5. Position'
  <2>1. Upto(Pieces(sentRequests'), batchLoop' - 1) = 0
    BY <1>2 DEF Upto
  <2> QED BY <1>2, <2>1 DEF Position, Pieces, Upto
<1>6. AskedBy' /\ QueueIsServed'
  BY <1>1, <1>2 DEF AskedBy, QueueIsServed
<1>7. Orderly => Orderly'
  <2> HAVE Orderly
  <2>1. Unanswered' /\ Ordered'
    BY <1>2, <1>3 DEF Orderly, Unanswered, Ordered, BatchRequest
  <2>2. AnsweredOnce'
    BY <1>2 DEF Orderly, AnsweredOnce, BatchRequest
  <2>3. Watching => Watching'
    BY <1>2, <1>3 DEF Watching
  <2>4. AsksTwice' <=> AsksTwice
    BY <1>2 DEF AsksTwice, IsInjective
  <2> QED BY <1>2, <2>1, <2>2, <2>3, <2>4 DEF Orderly
<1> QED BY <1>2, <1>4, <1>5, <1>6, <1>7 DEF BatchIInv, Loops

\* A query that is signalled gets its heights; others wait as before.
LEMMA SignalKeeps ==
    ASSUME BatchIInv, UNCHANGED owner, SignalTerrainData
    PROVE  BatchIInv'
<1> DEFINE s == sentRequests[batchLoop]
           new == IF success THEN BatchHeights(s) ELSE Failed
           P == Pieces(sentRequests)
<1>1. Loops /\ BatchTyped /\ Position /\ AskedBy
  BY DEF BatchIInv, Loops
<1>2. /\ batchLoop \in DOMAIN sentRequests /\ ~s.destroyed /\ batchLoop' = batchLoop + 1
      /\ watched' = [watched EXCEPT ![s.query] = FALSE]
      /\ dangling' = (dangling \/ object[s.query] = "freed")
      /\ got' = IF Len(got[s.id]) < MaxAnswers THEN [got EXCEPT ![s.id] = Append(@, new)] ELSE got
      /\ object' = IF s.query \in AutoDelete /\ object[s.query] = "live"
                   THEN [object EXCEPT ![s.query] = "deleting"] ELSE object
      /\ currentIndex' = currentIndex + s.count
      /\ requestQueue' = requestQueue /\ sentRequests' = sentRequests /\ batchState' = batchState
      /\ coords' = coords /\ success' = success /\ timer' = timer /\ askers' = askers
      /\ doubled' = doubled /\ owner' = owner
  BY DEF SignalTerrainData
<1>3. /\ Len(sentRequests) \in Nat /\ Len(requestQueue) \in Nat /\ Len(askers) \in Nat
      /\ \A i \in 1..Len(sentRequests) : sentRequests[i] \in SentRequest
      /\ \A i \in 1..Len(requestQueue) : requestQueue[i] \in WaitingRequest
      /\ 1..Len(askers) \subseteq BatchRequest /\ BatchRequest \subseteq Nat
      /\ owner.coords \in Nat /\ MaxAnswers \in Nat
  BY <1>1, OwnersAreBounded
<1>4. batchLoop \in 1..Len(sentRequests)
  BY <1>1, <1>2, LenProperties DEF BatchTyped
<1>5. /\ s.query \in Query /\ s.id \in 1..Len(askers) /\ s.id \in BatchRequest
      /\ s.count \in Nat
  BY <1>3, <1>4 DEF SentRequest
<1>6. /\ coords \in Seq(Nat) /\ Len(coords) \in Nat /\ Upto(P, batchLoop - 1) \in Nat
      /\ Upto(P, batchLoop) = Upto(P, batchLoop - 1) + s.count
      /\ Upto(P, batchLoop) <= Len(coords)
  BY <1>1, <1>4, PiecesSent
<1>7. /\ currentIndex \in Nat /\ currentIndex <= Upto(P, batchLoop - 1)
      /\ (\A i \in 1..(batchLoop - 1) : ~sentRequests[i].destroyed) =>
            currentIndex = Upto(P, batchLoop - 1)
      /\ batchState = "Idle"
  BY <1>1, <1>4 DEF BatchTyped, Position
<1>8. new \in Seq(Nat)
  <2>1. \A i \in currentIndex + 1..currentIndex + s.count : coords[i] \in Nat
    <3>1. \A i \in 1..Len(coords) : coords[i] \in Nat
      BY <1>6, ElementOfSeq
    <3>2. \A c, l, u, k \in Nat : c <= u /\ u + k <= l => \A i \in c + 1..c + k : i \in 1..l
      OBVIOUS
    <3>3. /\ currentIndex \in Nat /\ Len(coords) \in Nat /\ s.count \in Nat
          /\ Upto(P, batchLoop - 1) \in Nat
      BY <1>5, <1>6, <1>7
    <3>4. /\ currentIndex <= Upto(P, batchLoop - 1)
          /\ Upto(P, batchLoop - 1) + s.count <= Len(coords)
      BY <1>6, <1>7
    <3>5. \A i \in currentIndex + 1..currentIndex + s.count : i \in 1..Len(coords)
      BY ONLY <3>2, <3>3, <3>4
    <3> QED BY <3>1, <3>5
  <2>2. SubSeq(coords, currentIndex + 1, currentIndex + s.count) \in Seq(Nat)
    BY <1>5, <1>7, <2>1, SubSeqProperties
  <2>3. Failed \in Seq(Nat)
    BY EmptySeq DEF Failed
  <2> QED BY <2>2, <2>3 DEF BatchHeights
<1> HIDE DEF s, new, P
<1>9. BatchTyped'
  <2>1. watched' \in [Query -> BOOLEAN]
    BY <1>1, <1>2 DEF BatchTyped
  <2>2. object' \in [Query -> {"live", "deleting", "freed"}]
    BY <1>1, <1>2 DEF BatchTyped
  <2>3. got' \in [BatchRequest -> Seq(Seq(Nat))]
    <3>1. got \in [BatchRequest -> Seq(Seq(Nat))]
      BY <1>1 DEF BatchTyped
    <3>2. Append(got[s.id], new) \in Seq(Seq(Nat))
      BY <1>5, <1>8, <3>1, AppendProperties
    <3>3. [got EXCEPT ![s.id] = Append(got[s.id], new)] \in [BatchRequest -> Seq(Seq(Nat))]
      BY <3>1, <3>2
    <3>4. got' = [got EXCEPT ![s.id] = Append(got[s.id], new)] \/ got' = got
      BY <1>2
    <3> QED BY <3>1, <3>3, <3>4
  <2>4. batchLoop' \in 0..(Len(sentRequests') + 1) /\ currentIndex' \in Nat
    <3>1. batchLoop + 1 \in 0..(Len(sentRequests) + 1)
      BY <1>3, <1>4
    <3>2. currentIndex + s.count \in Nat
      BY <1>5, <1>7
    <3> QED BY <1>2, <3>1, <3>2
  <2>5. dangling' \in BOOLEAN
    BY <1>1, <1>2 DEF BatchTyped
  <2>6. /\ requestQueue' \in Seq(WaitingRequest') /\ sentRequests' \in Seq(SentRequest')
        /\ coords' = Coords(sentRequests)'
    BY <1>1, <1>2 DEF BatchTyped, WaitingRequest, SentRequest, Coords
  <2>7. got' \in [BatchRequest' -> Seq(Seq(Nat))]
    BY <2>3 DEF BatchRequest
  <2>8. /\ owner' \in Owners /\ askers' \in Seq(Query) /\ Len(askers') <= owner'.requests
        /\ batchState' \in {"Idle", "Downloading"} /\ timer' \in BOOLEAN
        /\ success' \in BOOLEAN /\ doubled' \in BOOLEAN
    BY <1>1, <1>2 DEF BatchTyped
  <2> QED BY <2>1, <2>2, <2>4, <2>5, <2>6, <2>7, <2>8 DEF BatchTyped
<1>10. Position'
  <2>1. batchLoop' > 0 /\ batchLoop' # 0 /\ batchLoop' - 1 = batchLoop
    BY <1>2, <1>3, <1>4
  <2>2. currentIndex' <= Upto(P, batchLoop)
    BY <1>2, <1>5, <1>6, <1>7
  <2>3. ASSUME \A i \in 1..batchLoop : ~sentRequests[i].destroyed
        PROVE  currentIndex' = Upto(P, batchLoop)
    <3>1. \A i \in 1..(batchLoop - 1) : ~sentRequests[i].destroyed
      BY <1>3, <1>4, <2>3
    <3> QED BY <1>2, <1>6, <1>7, <3>1
  <2>4. P' = P
    BY <1>2 DEF P, Pieces
  <2>5. Upto(P, batchLoop)' = Upto(P, batchLoop')
    BY <2>4 DEF Upto
  <2>6. Upto(Pieces(sentRequests), batchLoop - 1)' = Upto(P, batchLoop)
    BY <1>2, <2>1 DEF P, Pieces, Upto
  <2> QED BY <1>2, <1>7, <2>1, <2>2, <2>3, <2>6 DEF Position
<1>11. AskedBy'
  BY <1>1, <1>2 DEF AskedBy
<1>12. QueueIsServed'
  BY <1>2, <1>3, <1>4 DEF QueueIsServed
<1>13. ASSUME ~doubled' PROVE Orderly'
  <2>1. Orderly
    BY <1>2, <1>13 DEF BatchIInv
  <2>2. got[s.id] = <<>>
    BY <1>3, <1>4, <2>1 DEF Orderly, Unanswered, s
  <2>3. \A r \in BatchRequest : r # s.id => got'[r] = got[r]
    BY <1>1, <1>2 DEF BatchTyped
  <2>4. /\ \A j \in 1..Len(requestQueue) :
             requestQueue[j].id # s.id /\ requestQueue[j].id \in BatchRequest
        /\ \A i \in 1..Len(sentRequests) : i >= batchLoop + 1 =>
             sentRequests[i].id # s.id /\ sentRequests[i].id \in BatchRequest
    <3>1. ASSUME NEW j \in 1..Len(requestQueue)
          PROVE  requestQueue[j].id # s.id /\ requestQueue[j].id \in BatchRequest
      <4>1. s.id < requestQueue[j].id /\ requestQueue[j].id \in 1..Len(askers)
        BY <1>3, <1>4, <2>1 DEF Orderly, Ordered, WaitingRequest, s
      <4> QED BY <1>3, <1>5, <4>1
    <3>2. ASSUME NEW i \in 1..Len(sentRequests), i >= batchLoop + 1
          PROVE  sentRequests[i].id # s.id /\ sentRequests[i].id \in BatchRequest
      <4>1. batchLoop < i
        BY <1>3, <1>4, <3>2
      <4>2. s.id < sentRequests[i].id
        BY <1>4, <2>1, <4>1 DEF Orderly, Ordered, s
      <4>3. sentRequests[i].id \in 1..Len(askers)
        BY <1>3 DEF SentRequest
      <4> QED BY <1>3, <1>5, <4>2, <4>3
    <3> QED BY <3>1, <3>2
  <2>5. Ordered'
    BY <1>2, <2>1 DEF Orderly, Ordered
  <2>6. Unanswered'
    <3>1. \A j \in 1..Len(requestQueue) : got'[requestQueue[j].id] = <<>>
      BY <2>1, <2>3, <2>4 DEF Orderly, Unanswered
    <3>2. ASSUME NEW i \in 1..Len(sentRequests), i >= batchLoop + 1
          PROVE  got'[sentRequests[i].id] = <<>>
      <4>1. i >= batchLoop
        BY <1>3, <1>4, <3>2
      <4> QED BY <2>1, <2>3, <2>4, <3>2, <4>1 DEF Orderly, Unanswered
    <3>3. ASSUME NEW r \in BatchRequest, r > Len(askers) PROVE got'[r] = <<>>
      <4>1. r # s.id
        BY <1>3, <1>5, <3>3
      <4> QED BY <2>1, <2>3, <3>3, <4>1 DEF Orderly, Unanswered
    <3> QED BY <1>2, <3>1, <3>2, <3>3 DEF Unanswered, BatchRequest
  <2>7. AnsweredOnce'
    <3>1. \A r \in BatchRequest : Len(got[r]) <= 1
      BY <1>2, <1>13, <2>1 DEF Orderly, AnsweredOnce
    <3>2. Len(Append(<<>>, new)) = 1
      OBVIOUS
    <3>3. got'[s.id] = Append(<<>>, new) \/ got'[s.id] = <<>>
      BY <1>1, <1>2, <1>5, <2>2 DEF BatchTyped
    <3>4. ASSUME NEW r \in BatchRequest PROVE Len(got'[r]) <= 1
      <4>1. Len(<<>>) = 0
        OBVIOUS
      <4>2. CASE r = s.id
        <5>1. Len(got'[s.id]) = 1 \/ Len(got'[s.id]) = 0
          BY <3>2, <3>3, <4>1, Zenon
        <5>2. Len(got'[r]) = 1 \/ Len(got'[r]) = 0
          BY <4>2, <5>1, Zenon
        <5>3. \A x : x = 1 \/ x = 0 => x <= 1
          OBVIOUS
        <5> QED BY <5>2, <5>3, Zenon
      <4>3. CASE r # s.id
        BY <2>3, <3>1, <4>3
      <4> QED BY <4>2, <4>3
    <3> QED BY <3>4 DEF AnsweredOnce, BatchRequest
  <2>8. ASSUME ~AsksTwice' PROVE Watching' /\ ~dangling'
    <3>1. ~AsksTwice
      BY <1>2, <2>8 DEF AsksTwice, IsInjective
    <3>2. Watching /\ ~dangling
      BY <2>1, <3>1 DEF Orderly
    <3>3. \A a, b \in 1..Len(askers) : askers[a] = askers[b] => a = b
      <4>1. DOMAIN askers = 1..Len(askers)
        BY <1>1, LenProperties DEF BatchTyped
      <4> QED BY <3>1, <4>1 DEF AsksTwice, IsInjective
    <3>4. s.query = askers[s.id]
      BY <1>1, <1>4 DEF AskedBy, s
    <3>5. ASSUME NEW p \in Query, p # s.query PROVE watched'[p] = watched[p] /\ object'[p] = object[p]
      BY <1>1, <1>2, <3>5 DEF BatchTyped
    <3>6. ASSUME NEW j \in 1..Len(requestQueue)
          PROVE  watched'[requestQueue[j].query] /\ object'[requestQueue[j].query] = "live"
      <4>1. /\ requestQueue[j].query \in Query /\ requestQueue[j].id \in 1..Len(askers)
            /\ requestQueue[j].query = askers[requestQueue[j].id]
        BY <1>1, <1>3 DEF WaitingRequest, AskedBy
      <4>2. requestQueue[j].query # s.query
        BY <1>5, <2>4, <3>3, <3>4, <4>1
      <4> QED BY <3>2, <3>5, <4>1, <4>2 DEF Watching
    <3>7. ASSUME NEW i \in 1..Len(sentRequests), i >= batchLoop + 1, ~sentRequests[i].destroyed
          PROVE  watched'[sentRequests[i].query] /\ object'[sentRequests[i].query] = "live"
      <4>1. /\ sentRequests[i].query \in Query /\ sentRequests[i].id \in 1..Len(askers)
            /\ sentRequests[i].query = askers[sentRequests[i].id]
        BY <1>1, <1>3 DEF SentRequest, AskedBy
      <4>2. sentRequests[i].query # s.query
        BY <1>5, <2>4, <3>3, <3>4, <3>7, <4>1
      <4>3. i >= batchLoop
        BY <1>3, <1>4, <3>7
      <4> QED BY <3>2, <3>5, <3>7, <4>1, <4>2, <4>3 DEF Watching
    <3>8. ~dangling'
      <4>1. object[s.query] = "live"
        BY <1>2, <1>3, <1>4, <3>2, SMTT(30) DEF Watching, s
      <4> QED BY <1>2, <3>2, <4>1
    <3> QED BY <1>2, <3>6, <3>7, <3>8 DEF Watching
  <2> QED BY <2>5, <2>6, <2>7, <2>8 DEF Orderly
<1> QED BY <1>9, <1>10, <1>11, <1>12, <1>13 DEF BatchIInv, Loops

\* A request whose query is gone is passed over, and the position in the heights is not.
LEMMA SkipKeeps ==
    ASSUME BatchIInv, UNCHANGED owner, SkipDestroyed
    PROVE  BatchIInv'
<1> DEFINE P == Pieces(sentRequests)
<1>1. Loops /\ BatchTyped /\ Position /\ AskedBy
  BY DEF BatchIInv, Loops
<1>2. /\ batchLoop \in DOMAIN sentRequests /\ sentRequests[batchLoop].destroyed
      /\ batchLoop' = batchLoop + 1 /\ currentIndex' = currentIndex
      /\ requestQueue' = requestQueue /\ sentRequests' = sentRequests /\ batchState' = batchState
      /\ coords' = coords /\ success' = success /\ timer' = timer /\ askers' = askers
      /\ object' = object /\ watched' = watched /\ got' = got /\ dangling' = dangling
      /\ doubled' = doubled /\ owner' = owner
  BY DEF SkipDestroyed
<1>3. Len(sentRequests) \in Nat
  BY <1>1, OwnersAreBounded
<1>4. batchLoop \in 1..Len(sentRequests)
  BY <1>1, <1>2, LenProperties DEF BatchTyped
<1>5. /\ Upto(P, batchLoop - 1) \in Nat /\ sentRequests[batchLoop].count \in Nat
      /\ Upto(P, batchLoop) = Upto(P, batchLoop - 1) + sentRequests[batchLoop].count
  BY <1>1, <1>4, PiecesSent
<1>6. /\ currentIndex \in Nat /\ currentIndex <= Upto(P, batchLoop - 1) /\ batchState = "Idle"
  BY <1>1, <1>4 DEF BatchTyped, Position
<1> HIDE DEF P
<1>7. BatchTyped'
  <2>1. batchLoop' \in 0..(Len(sentRequests') + 1)
    BY <1>2, <1>3, <1>4
  <2> QED BY <1>1, <1>2, <2>1
       DEF BatchTyped, WaitingRequest, SentRequest, BatchRequest, Coords
<1>8. Position'
  <2>1. batchLoop' > 0 /\ batchLoop' # 0 /\ batchLoop' - 1 = batchLoop
    BY <1>2, <1>3, <1>4
  <2>2. currentIndex' <= Upto(P, batchLoop)
    BY <1>2, <1>5, <1>6
  <2>3. ~ \A i \in 1..batchLoop : ~sentRequests[i].destroyed
    BY <1>2, <1>4
  <2>4. Upto(Pieces(sentRequests), batchLoop - 1)' = Upto(P, batchLoop)
    BY <1>2, <2>1 DEF P, Pieces, Upto
  <2> QED BY <1>2, <1>6, <2>1, <2>2, <2>3, <2>4 DEF Position
<1>9. AskedBy' /\ QueueIsServed'
  BY <1>1, <1>2, <1>4 DEF AskedBy, QueueIsServed
<1>10. Orderly => Orderly'
  <2> HAVE Orderly
  <2>1. \A i \in 1..Len(sentRequests) : i >= batchLoop + 1 => i >= batchLoop
    BY <1>3, <1>4
  <2>2. Unanswered' /\ Ordered'
    BY <1>2, <2>1 DEF Orderly, Unanswered, Ordered, BatchRequest
  <2>3. AnsweredOnce'
    BY <1>2 DEF Orderly, AnsweredOnce, BatchRequest
  <2>4. Watching => Watching'
    BY <1>2, <2>1 DEF Watching
  <2>5. AsksTwice' <=> AsksTwice
    BY <1>2 DEF AsksTwice, IsInjective
  <2> QED BY <1>2, <2>2, <2>3, <2>4, <2>5 DEF Orderly
<1> QED BY <1>2, <1>7, <1>8, <1>9, <1>10 DEF BatchIInv, Loops

\* The end of the loop leaves nothing sent.
LEMMA EndOfBatchKeeps ==
    ASSUME BatchIInv, UNCHANGED owner, EndOfBatch
    PROVE  BatchIInv'
<1>1. Loops /\ BatchTyped /\ Position /\ AskedBy
  BY DEF BatchIInv, Loops
<1>2. /\ batchLoop = Len(sentRequests) + 1 /\ batchLoop' = 0
      /\ sentRequests' = <<>> /\ coords' = <<>> /\ currentIndex' = 0
      /\ timer' = (timer \/ (success /\ requestQueue # <<>>))
      /\ requestQueue' = requestQueue /\ batchState' = batchState /\ success' = success
      /\ askers' = askers /\ object' = object /\ watched' = watched /\ got' = got
      /\ dangling' = dangling /\ doubled' = doubled /\ owner' = owner
  BY DEF EndOfBatch, NextBatchDue
<1>3. Len(<<>>) = 0 /\ <<>> \in Seq(SentRequest')
  BY EmptySeq
<1>4. coords' = Coords(sentRequests)'
  <2>1. Pieces(<<>>) = <<>>
    BY DEF Pieces
  <2>2. FlattenSeq(<<>>) = <<>>
    BY EmptySeq DEF FlattenSeq
  <2>3. Coords(<<>>) = FlattenSeq(Pieces(<<>>))
    BY DEF Coords, Pieces
  <2>4. Coords(sentRequests)' = Coords(<<>>)
    BY <1>2 DEF Coords
  <2> QED BY <1>2, <2>1, <2>2, <2>3, <2>4
<1>5. BatchTyped'
  <2>1. timer' \in BOOLEAN
    BY <1>1, <1>2 DEF BatchTyped
  <2>2. batchLoop' \in 0..(Len(sentRequests') + 1) /\ currentIndex' \in Nat
    BY <1>2, <1>3
  <2>3. requestQueue' \in Seq(WaitingRequest')
    BY <1>1, <1>2 DEF BatchTyped, WaitingRequest
  <2>4. sentRequests' \in Seq(SentRequest')
    BY <1>2, <1>3
  <2> QED BY <1>1, <1>2, <1>4, <2>1, <2>2, <2>3, <2>4 DEF BatchTyped, BatchRequest
<1>6. Position' /\ AskedBy'
  BY <1>1, <1>2, <1>3 DEF Position, AskedBy
<1>7. QueueIsServed'
  BY <1>2 DEF QueueIsServed
<1>8. Orderly => Orderly'
  <2> HAVE Orderly
  <2>1. Unanswered' /\ Ordered'
    BY <1>2, <1>3 DEF Orderly, Unanswered, Ordered, BatchRequest
  <2>2. AnsweredOnce'
    BY <1>2 DEF Orderly, AnsweredOnce, BatchRequest
  <2>3. Watching => Watching'
    BY <1>2, <1>3 DEF Watching
  <2>4. AsksTwice' <=> AsksTwice
    BY <1>2 DEF AsksTwice, IsInjective
  <2> QED BY <1>2, <2>1, <2>2, <2>3, <2>4 DEF Orderly
<1> QED BY <1>2, <1>5, <1>6, <1>7, <1>8 DEF BatchIInv, Loops

\* The requests of a list are those at some places of the queue, in the queue's order
TakenFrom(requests, places) ==
    \E at : /\ \A i \in 1..Len(requests) :
                  at[i] \in places /\ requests[i] = requestQueue[at[i]]
            /\ \A i, j \in 1..Len(requests) : i < j => at[i] < at[j]

\* The requests at some places of the queue are in the order of the queue.
LEMMA RequestsAtPlaces ==
    ASSUME NEW S, requestQueue \in Seq(S), NEW places \in SUBSET (1..Len(requestQueue)),
           NEW r \in RequestsAt(places)
    PROVE  r \in Seq(S) /\ TakenFrom(r, places)
<1>1. Len(requestQueue) \in Nat /\ \A i \in 1..Len(requestQueue) : requestQueue[i] \in S
  BY LenProperties, ElementOfSeq
<1>2. PICK at \in InOrder(places) : r = [i \in DOMAIN at |-> requestQueue[at[i]]]
  BY DEF RequestsAt
<1> DEFINE n == Cardinality(places)
<1>3. n \in Nat
  <2>1. IsFiniteSet(1..Len(requestQueue))
    BY <1>1, FS_Interval
  <2> QED BY <2>1, FS_Subset, FS_CardinalityType
<1>4. /\ at \in [1..n -> places] /\ \A i, j \in 1..n : i < j => at[i] < at[j]
  <2> HIDE DEF n
  <2>1. /\ at \in [1..n -> places]
        /\ \A i, j \in DOMAIN at : i < j => at[i] < at[j]
    BY <1>2 DEF InOrder, n
  <2>2. DOMAIN at = 1..n
    BY <2>1
  <2> QED BY <2>1, <2>2, Zenon
<1> HIDE DEF n
<1>5. r = [i \in 1..n |-> requestQueue[at[i]]] /\ \A i \in 1..n : at[i] \in places
  BY <1>2, <1>4
<1>6. \A i \in 1..n : requestQueue[at[i]] \in S
  BY <1>1, <1>5
<1>7. r \in Seq(S) /\ Len(r) = n /\ \A i \in 1..n : r[i] = requestQueue[at[i]]
  BY <1>3, <1>5, <1>6
<1> QED BY <1>4, <1>5, <1>7 DEF TakenFrom

\* The end of a query object takes its requests out of the queue and marks those sent.
LEMMA DestroyedKeeps ==
    ASSUME BatchIInv, UNCHANGED owner,
           NEW q \in Query, QueryObjectDestroyed(q)
    PROVE  BatchIInv'
<1> DEFINE n == Len(requestQueue)
           m == Len(sentRequests)
<1>1. Loops /\ BatchTyped /\ Position /\ AskedBy
  BY DEF BatchIInv, Loops
<1>2. /\ object' = [object EXCEPT ![q] = "freed"] /\ watched' = [watched EXCEPT ![q] = FALSE]
      /\ batchState' = batchState /\ coords' = coords /\ batchLoop' = batchLoop
      /\ success' = success /\ currentIndex' = currentIndex /\ timer' = timer
      /\ askers' = askers /\ got' = got /\ dangling' = dangling /\ doubled' = doubled
      /\ owner' = owner
  BY DEF QueryObjectDestroyed
<1>3. /\ n \in Nat /\ m \in Nat /\ Len(askers) \in Nat
      /\ \A i \in 1..n : requestQueue[i] \in WaitingRequest
      /\ \A i \in 1..m : sentRequests[i] \in SentRequest
  BY <1>1, OwnersAreBounded
<1>4. /\ requestQueue \in Seq(WaitingRequest) /\ sentRequests \in Seq(SentRequest)
      /\ DOMAIN requestQueue = 1..n /\ DOMAIN sentRequests = 1..m
  BY <1>1, LenProperties DEF BatchTyped
<1>5. /\ requestQueue' \in Seq(WaitingRequest)
      /\ \E at : /\ \A i \in 1..Len(requestQueue') :
                       /\ at[i] \in 1..n /\ requestQueue'[i] = requestQueue[at[i]]
                       /\ watched[q] => requestQueue'[i].query # q
                 /\ \A i, j \in 1..Len(requestQueue') : i < j => at[i] < at[j]
  <2>1. CASE watched[q]
    <3> DEFINE places == {i \in DOMAIN requestQueue : requestQueue[i].query # q}
    <3>1. requestQueue' \in RequestsAt(places)
      BY <2>1 DEF QueryObjectDestroyed
    <3>2. places \in SUBSET (1..n) /\ \A i \in places : requestQueue[i].query # q
      BY <1>4
    <3> HIDE DEF places
    <3>3. requestQueue' \in Seq(WaitingRequest) /\ TakenFrom(requestQueue', places)
      <4>1. requestQueue \in Seq(WaitingRequest) /\ places \in SUBSET (1..Len(requestQueue))
        BY <1>4, <3>2
      <4> QED BY ONLY <3>1, <4>1, RequestsAtPlaces
    <3>4. PICK at : /\ \A i \in 1..Len(requestQueue') :
                           at[i] \in places /\ requestQueue'[i] = requestQueue[at[i]]
                    /\ \A i, j \in 1..Len(requestQueue') : i < j => at[i] < at[j]
      BY <3>3 DEF TakenFrom
    <3>5. \A i \in 1..Len(requestQueue') :
              /\ at[i] \in 1..n /\ requestQueue'[i] = requestQueue[at[i]]
              /\ requestQueue'[i].query # q
      BY <3>2, <3>4
    <3> QED BY <3>3, <3>4, <3>5
  <2>2. CASE ~watched[q]
    <3> DEFINE at == [i \in 1..n |-> i]
    <3>1. requestQueue' = requestQueue
      BY <2>2 DEF QueryObjectDestroyed
    <3>2. /\ \A i \in 1..Len(requestQueue') :
               /\ at[i] \in 1..n /\ requestQueue'[i] = requestQueue[at[i]]
               /\ watched[q] => requestQueue'[i].query # q
          /\ \A i, j \in 1..Len(requestQueue') : i < j => at[i] < at[j]
      BY <2>2, <3>1
    <3> HIDE DEF at
    <3> QED BY <1>4, <3>1, <3>2
  <2> QED BY <2>1, <2>2
<1>6. PICK at : /\ \A i \in 1..Len(requestQueue') :
                      /\ at[i] \in 1..n /\ requestQueue'[i] = requestQueue[at[i]]
                      /\ watched[q] => requestQueue'[i].query # q
                /\ \A i, j \in 1..Len(requestQueue') : i < j => at[i] < at[j]
  BY <1>5
<1>7. /\ sentRequests' \in Seq(SentRequest) /\ Len(sentRequests') = m
      /\ \A i \in 1..m :
           /\ sentRequests'[i].id = sentRequests[i].id
           /\ sentRequests'[i].count = sentRequests[i].count
           /\ sentRequests'[i].query = sentRequests[i].query
           /\ ~sentRequests'[i].destroyed => ~sentRequests[i].destroyed
           /\ ~sentRequests'[i].destroyed /\ watched[q] => sentRequests[i].query # q
  <2>1. CASE watched[q]
    <3> DEFINE sent == [i \in 1..m |-> Zombie(sentRequests[i], q)]
    <3>1. sentRequests' = sent
      BY <1>4, <2>1 DEF QueryObjectDestroyed
    <3>2. ASSUME NEW i \in 1..m
          PROVE  /\ sent[i] \in SentRequest
                 /\ sent[i].id = sentRequests[i].id /\ sent[i].count = sentRequests[i].count
                 /\ sent[i].query = sentRequests[i].query
                 /\ ~sent[i].destroyed => ~sentRequests[i].destroyed /\ sentRequests[i].query # q
      <4>1. sentRequests[i] \in SentRequest /\ sent[i] = Zombie(sentRequests[i], q)
        BY <1>3
      <4> HIDE DEF sent
      <4>2. CASE sentRequests[i].query = q
        <5>1. sent[i] = [sentRequests[i] EXCEPT !.destroyed = TRUE]
          BY <4>1, <4>2 DEF Zombie
        <5> QED BY <4>1, <5>1 DEF SentRequest
      <4>3. CASE sentRequests[i].query # q
        BY <4>1, <4>3 DEF Zombie
      <4> QED BY <4>2, <4>3
    <3>3. \A i \in 1..m : sent[i] \in SentRequest
      BY <3>2
    <3>4. sent \in Seq(SentRequest) /\ Len(sent) = m
      <4>1. sent = [i \in 1..m |-> sent[i]]
        OBVIOUS
      <4> HIDE DEF sent
      <4> QED BY <1>3, <3>3, <4>1
    <3> HIDE DEF sent
    <3> QED BY <3>1, <3>2, <3>4
  <2>2. CASE ~watched[q]
    <3>1. sentRequests' = sentRequests
      BY <2>2 DEF QueryObjectDestroyed
    <3> QED BY <1>4, <2>2, <3>1
  <2> QED BY <2>1, <2>2
<1>8. Pieces(sentRequests)' = Pieces(sentRequests) /\ Coords(sentRequests)' = Coords(sentRequests)
  <2>1. Pieces(sentRequests') = Pieces(sentRequests) /\ Coords(sentRequests') = Coords(sentRequests)
    BY <1>4, <1>7, SamePieces
  <2> QED BY <2>1 DEF Pieces, Coords
<1>9. BatchTyped'
  <2>1. watched' \in [Query -> BOOLEAN] /\ object' \in [Query -> {"live", "deleting", "freed"}]
    BY <1>1, <1>2 DEF BatchTyped
  <2>2. requestQueue' \in Seq(WaitingRequest') /\ sentRequests' \in Seq(SentRequest')
    BY <1>2, <1>5, <1>7 DEF WaitingRequest, SentRequest
  <2>3. coords' = Coords(sentRequests)'
    BY <1>1, <1>2, <1>8 DEF BatchTyped
  <2>4. batchLoop' \in 0..(Len(sentRequests') + 1)
    BY <1>1, <1>2, <1>7 DEF BatchTyped
  <2> QED BY <1>1, <1>2, <2>1, <2>2, <2>3, <2>4 DEF BatchTyped, BatchRequest
<1>10. Position'
  <2>1. batchLoop = 0 /\ batchState = "Idle" => sentRequests' = <<>>
    <3>1. ASSUME batchLoop = 0, batchState = "Idle" PROVE sentRequests' = <<>>
      <4>1. m = 0
        BY <1>1, <3>1 DEF Position
      <4> QED BY <1>7, <4>1, EmptySeq
    <3> QED BY <3>1
  <2>2. ASSUME batchLoop > 0, \A i \in 1..(batchLoop - 1) : ~sentRequests'[i].destroyed
        PROVE  \A i \in 1..(batchLoop - 1) : ~sentRequests[i].destroyed
    <3>1. \A i \in 1..(batchLoop - 1) : i \in 1..m
      BY <1>1, <1>3 DEF BatchTyped
    <3> QED BY <1>7, <2>2, <3>1
  <2>3. Upto(Pieces(sentRequests), batchLoop - 1)' = Upto(Pieces(sentRequests), batchLoop - 1)
    BY <1>2, <1>8 DEF Upto
  <2>4. batchLoop > 0 =>
          /\ batchState = "Idle"
          /\ currentIndex <= Upto(Pieces(sentRequests), batchLoop - 1)
          /\ (\A i \in 1..(batchLoop - 1) : ~sentRequests'[i].destroyed) =>
                currentIndex = Upto(Pieces(sentRequests), batchLoop - 1)
    BY <1>1, <2>2 DEF Position
  <2>5. batchLoop = 0 => currentIndex = 0
    BY <1>1 DEF Position
  <2> QED BY <1>2, <2>1, <2>3, <2>4, <2>5 DEF Position
<1>11. AskedBy'
  <2>1. \A j \in 1..Len(requestQueue') : requestQueue'[j].query = askers[requestQueue'[j].id]
    BY <1>1, <1>6 DEF AskedBy
  <2>2. \A i \in 1..Len(sentRequests') : sentRequests'[i].query = askers[sentRequests'[i].id]
    BY <1>1, <1>7 DEF AskedBy
  <2> QED BY <1>2, <2>1, <2>2 DEF AskedBy
<1>12. QueueIsServed'
  <2>1. requestQueue = <<>> => requestQueue' = <<>>
    <3>1. ASSUME requestQueue = <<>> PROVE requestQueue' = <<>>
      <4>1. n = 0
        BY <3>1
      <4>2. Len(requestQueue') \in Nat /\ ~ (1 \in 1..Len(requestQueue'))
        BY <1>5, <1>6, <4>1, LenProperties
      <4>3. Len(requestQueue') = 0
        BY <4>2
      <4> QED BY <1>5, <4>3, EmptySeq
    <3> QED BY <3>1
  <2> QED BY <1>1, <1>2, <2>1 DEF Loops, QueueIsServed
<1>13. ASSUME ~doubled' PROVE Orderly'
  <2>1. Orderly
    BY <1>2, <1>13 DEF BatchIInv
  <2>2. Ordered'
    <3>1. ASSUME NEW i \in 1..Len(requestQueue'), NEW j \in 1..Len(requestQueue'), i < j
          PROVE  requestQueue'[i].id < requestQueue'[j].id
      BY <1>6, <2>1, <3>1 DEF Orderly, Ordered
    <3>2. ASSUME NEW i \in 1..m, NEW j \in 1..m, i < j
          PROVE  sentRequests'[i].id < sentRequests'[j].id
      BY <1>7, <2>1, <3>2 DEF Orderly, Ordered
    <3>3. ASSUME NEW i \in 1..m, NEW j \in 1..Len(requestQueue')
          PROVE  sentRequests'[i].id < requestQueue'[j].id
      BY <1>6, <1>7, <2>1 DEF Orderly, Ordered
    <3> QED BY <1>7, <3>1, <3>2, <3>3 DEF Ordered
  <2>3. Unanswered'
    <3>1. \A j \in 1..Len(requestQueue') : got[requestQueue'[j].id] = <<>>
      BY <1>6, <2>1 DEF Orderly, Unanswered
    <3>2. \A i \in 1..m : i >= batchLoop => got[sentRequests'[i].id] = <<>>
      BY <1>7, <2>1 DEF Orderly, Unanswered
    <3>3. \A r \in BatchRequest : r > Len(askers) => got[r] = <<>>
      BY <2>1 DEF Orderly, Unanswered
    <3> QED BY <1>2, <1>7, <3>1, <3>2, <3>3 DEF Unanswered, BatchRequest
  <2>4. AnsweredOnce'
    BY <1>2, <2>1 DEF Orderly, AnsweredOnce, BatchRequest
  <2>5. ASSUME ~AsksTwice' PROVE Watching' /\ ~dangling'
    <3>1. Watching /\ ~dangling
      BY <1>2, <2>1, <2>5 DEF Orderly, AsksTwice, IsInjective
    <3>2. \A p \in Query : p # q => watched'[p] = watched[p] /\ object'[p] = object[p]
      BY <1>1, <1>2 DEF BatchTyped
    <3>3. ASSUME NEW j \in 1..Len(requestQueue')
          PROVE  watched'[requestQueue'[j].query] /\ object'[requestQueue'[j].query] = "live"
      <4>1. /\ requestQueue'[j].query \in Query /\ watched[requestQueue'[j].query]
            /\ object[requestQueue'[j].query] = "live"
        BY <1>3, <1>6, <3>1 DEF Watching, WaitingRequest
      <4>2. requestQueue'[j].query # q
        BY <1>6, <4>1
      <4> QED BY <3>2, <4>1, <4>2
    <3>4. ASSUME NEW i \in 1..m, i >= batchLoop, ~sentRequests'[i].destroyed
          PROVE  watched'[sentRequests'[i].query] /\ object'[sentRequests'[i].query] = "live"
      <4>1. /\ sentRequests[i].query \in Query /\ watched[sentRequests[i].query]
            /\ object[sentRequests[i].query] = "live"
        BY <1>3, <1>7, <3>1, <3>4 DEF Watching, SentRequest
      <4>2. sentRequests[i].query # q
        BY <1>7, <3>4, <4>1
      <4> QED BY <1>7, <3>2, <4>1, <4>2
    <3> QED BY <1>2, <1>7, <3>1, <3>3, <3>4 DEF Watching
  <2> QED BY <2>2, <2>3, <2>4, <2>5 DEF Orderly
<1> QED BY <1>9, <1>10, <1>11, <1>12, <1>13 DEF BatchIInv, Loops

\* When nothing moves, nothing changes.
LEMMA BatchStill ==
    ASSUME BatchIInv, UNCHANGED batchVars
    PROVE  BatchIInv'
<1>1. /\ requestQueue' = requestQueue /\ sentRequests' = sentRequests /\ batchState' = batchState
      /\ coords' = coords /\ batchLoop' = batchLoop /\ success' = success
      /\ currentIndex' = currentIndex /\ timer' = timer /\ object' = object
      /\ watched' = watched /\ askers' = askers /\ got' = got /\ dangling' = dangling
      /\ doubled' = doubled /\ owner' = owner
  BY DEF batchVars, batch
<1>2. BatchTyped => BatchTyped'
  BY <1>1 DEF BatchTyped, WaitingRequest, SentRequest, BatchRequest, Coords
<1>3. (Position => Position') /\ (AskedBy => AskedBy')
  BY <1>1 DEF Position, AskedBy, Pieces
<1>4. QueueIsServed => QueueIsServed'
  BY <1>1 DEF QueueIsServed
<1>5. Orderly => Orderly'
  BY <1>1 DEF Orderly, Ordered, Unanswered, Watching, AnsweredOnce,
              AsksTwice, IsInjective, BatchRequest
<1> QED BY <1>1, <1>2, <1>3, <1>4, <1>5 DEF BatchIInv, Loops

\* Each step of the batch manager, of queries and of their owners keeps the invariant.
LEMMA BatchSteps ==
    ASSUME BatchIInv, [BatchNext]_batchVars
    PROVE  BatchIInv'
<1>1. CASE UNCHANGED batchVars
  BY <1>1, BatchStill
<1>2. CASE BatchNext
  <2>1. UNCHANGED owner /\ Step
    BY <1>2 DEF BatchNext
  <2>2. ASSUME NEW q \in Query, NEW count \in 1..owner.coords, AddQuery(q, count)
        PROVE  BatchIInv'
    BY <2>1, <2>2, AddQueryKeeps
  <2>3. ASSUME SendNextBatch PROVE BatchIInv'
    BY <2>1, <2>3, SendNextBatchKeeps
  <2>4. ASSUME CoordinateHeights PROVE BatchIInv'
    BY <2>1, <2>4, CoordinateHeightsKeeps
  <2>5. ASSUME SignalTerrainData PROVE BatchIInv'
    BY <2>1, <2>5, SignalKeeps
  <2>6. ASSUME SkipDestroyed PROVE BatchIInv'
    BY <2>1, <2>6, SkipKeeps
  <2>7. ASSUME EndOfBatch PROVE BatchIInv'
    BY <2>1, <2>7, EndOfBatchKeeps
  <2>8. ASSUME NEW q \in Query, Delete(q) \/ Destroy(q) PROVE BatchIInv'
    <3>1. QueryObjectDestroyed(q)
      BY <2>8 DEF Delete, Destroy
    <3> QED BY <2>1, <3>1, DestroyedKeeps
  <2>9. ASSUME BatchRests PROVE BatchIInv'
    <3>1. UNCHANGED batchVars
      BY <2>9 DEF BatchRests
    <3> QED BY <3>1, BatchStill
  <2> QED BY <2>1, <2>2, <2>3, <2>4, <2>5, <2>6, <2>7, <2>8, <2>9 DEF Step
<1> QED BY <1>1, <1>2

\* The invariant holds in every behaviour of the batch manager.
LEMMA BatchIsSafe == BatchSpec => []BatchIInv
<1>1. BatchInit => BatchIInv
  BY BatchBegins
<1>2. BatchIInv /\ [BatchNext]_batchVars => BatchIInv'
  BY BatchSteps
<1> QED BY <1>1, <1>2, PTL DEF BatchSpec

\* Requests are kept, and served by a timer, a batch or the loop, in a queue whose types
\* hold; none is answered twice and no query that is gone is signalled, unless a batch
\* left more behind than it took or an owner asked twice with one query: for any owners,
\* any size of batches and every order of requests, answers, failures and deletions.
THEOREM QueriesAreServed == BatchSpec => []BatchInv
<1>1. ASSUME BatchIInv PROVE BatchInv
  <2>1. BatchTyped /\ Position /\ QueueIsServed
    BY <1>1 DEF BatchIInv, Loops
  <2>2. /\ owner.requests \in Nat /\ owner.requests <= MaxAsked /\ MaxAsked \in Nat
        /\ Len(askers) \in Nat /\ Len(sentRequests) \in Nat /\ Len(requestQueue) \in Nat
        /\ 1..Len(askers) \subseteq BatchRequest
        /\ \A i \in 1..Len(requestQueue) : requestQueue[i] \in WaitingRequest
        /\ \A i \in 1..Len(sentRequests) : sentRequests[i] \in SentRequest
    BY <2>1, OwnersAreBounded
  <2>3. DOMAIN requestQueue = 1..Len(requestQueue) /\ DOMAIN sentRequests = 1..Len(sentRequests)
    BY <2>1, LenProperties DEF BatchTyped
  <2>4. ToSet(requestQueue) \subseteq Queued
    BY <2>2, <2>3 DEF ToSet, Queued, WaitingRequest
  <2>5. \A i \in DOMAIN sentRequests :
          sentRequests[i] \in [query : Query, id : BatchRequest, count : 1..owner.coords,
                               destroyed : BOOLEAN]
    BY <2>2, <2>3 DEF SentRequest
  <2>6. currentIndex \in 0..Len(coords)
    <3>1. Len(coords) \in Nat
      BY <2>1, PiecesSent
    <3>2. CASE batchLoop = 0 \/ batchLoop = 1
      BY <2>1, <3>1, <3>2 DEF Position, BatchTyped, Upto
    <3>3. CASE batchLoop > 1
      <4>1. batchLoop - 1 \in 1..Len(sentRequests)
        BY <2>1, <2>2, <3>3 DEF BatchTyped
      <4>2. Upto(Pieces(sentRequests), batchLoop - 1) <= Len(coords)
        BY <2>1, <4>1, PiecesSent
      <4>3. Upto(Pieces(sentRequests), batchLoop - 1) \in Nat
        <5>1. /\ Upto(Pieces(sentRequests), batchLoop - 1 - 1) \in Nat
              /\ sentRequests[batchLoop - 1].count \in Nat
              /\ Upto(Pieces(sentRequests), batchLoop - 1)
                   = Upto(Pieces(sentRequests), batchLoop - 1 - 1) + sentRequests[batchLoop - 1].count
          BY <2>1, <4>1, PiecesSent
        <5> QED BY <5>1
      <4>4. currentIndex \in Nat /\ currentIndex <= Upto(Pieces(sentRequests), batchLoop - 1)
        BY <2>1, <2>2, <3>3 DEF BatchTyped, Position
      <4> QED BY <3>1, <4>2, <4>3, <4>4
    <3> QED BY <2>1, <3>2, <3>3 DEF BatchTyped
  <2>7. BatchTypeOK
    BY <2>1, <2>4, <2>5, <2>6 DEF BatchTyped, BatchTypeOK
  <2>8. AnsweredOnce /\ NoDangling
    <3>1. ~doubled => AnsweredOnce /\ (AsksTwice \/ ~dangling)
      BY <1>1 DEF BatchIInv, Orderly
    <3> QED BY <2>1, <3>1 DEF AnsweredOnce, NoDangling
  <2> QED BY <2>1, <2>7, <2>8 DEF BatchInv
<1>2. BatchIInv => BatchInv
  BY <1>1
<1> QED BY <1>2, BatchIsSafe, PTL

\* The heights a query receives are those of its own coordinates, wherever in a batch its
\* request is, unless a query before it was destroyed while the batch was in flight.
THEOREM HeightsAreOfTheQuery == BatchSpec => OwnHeights
<1> DEFINE Own == \A r \in BatchRequest :
              Answered(r) /\ (\A i \in 1..(batchLoop - 1) : ~sentRequests[i].destroyed)
                  => ToSet(Last(got'[r])) = {r}
<1>1. ASSUME BatchIInv, BatchNext, NEW r \in BatchRequest, got'[r] # got[r], success,
             \A i \in 1..(batchLoop - 1) : ~sentRequests[i].destroyed
      PROVE  ToSet(Last(got'[r])) = {r}
  <2> DEFINE s == sentRequests[batchLoop]
             P == Pieces(sentRequests)
             new == BatchHeights(s)
  <2>1. BatchTyped /\ Position
    BY <1>1 DEF BatchIInv, Loops
  <2>2. SignalTerrainData
    <3>1. ASSUME got' = got PROVE FALSE
      BY <1>1, <3>1
    <3>2. UNCHANGED batchVars => got' = got
      BY DEF batchVars
    <3> QED BY <1>1, <3>1, <3>2
         DEF BatchNext, Step, AddQuery, SendNextBatch,
             CoordinateHeights, SkipDestroyed, EndOfBatch, Delete,
             Destroy, QueryObjectDestroyed, BatchRests
  <2>3. /\ batchLoop \in DOMAIN sentRequests
        /\ got' = IF Len(got[s.id]) < MaxAnswers THEN [got EXCEPT ![s.id] = Append(@, new)] ELSE got
    BY <1>1, <2>2 DEF SignalTerrainData
  <2>4. batchLoop \in 1..Len(sentRequests) /\ Len(sentRequests) \in Nat
    BY <2>1, <2>3, LenProperties DEF BatchTyped
  <2>5. /\ coords \in Seq(Nat) /\ Len(coords) \in Nat /\ Upto(P, batchLoop - 1) \in Nat
        /\ s.count \in Nat \ {0} /\ s.id \in Nat
        /\ Upto(P, batchLoop) = Upto(P, batchLoop - 1) + s.count
        /\ Upto(P, batchLoop) <= Len(coords)
        /\ \A k \in 1..s.count : coords[Upto(P, batchLoop - 1) + k] = s.id
    BY <2>1, <2>4, PiecesSent
  <2>6. currentIndex = Upto(P, batchLoop - 1)
    BY <1>1, <2>1, <2>4 DEF Position
  <2> HIDE DEF s, P
  <2>7. new \in Seq(Nat) /\ Len(new) = s.count /\ \A k \in 1..s.count : new[k] = s.id
    <3> DEFINE c == currentIndex
    <3>1. c \in Nat /\ c + s.count <= Len(coords) /\ \A k \in 1..s.count : coords[c + k] = s.id
      BY <2>5, <2>6
    <3> HIDE DEF c
    <3>2. \A i \in c + 1..c + s.count : coords[i] \in Nat
      <4>1. \A i \in 1..Len(coords) : coords[i] \in Nat
        BY <2>5, ElementOfSeq
      <4>2. \A i \in c + 1..c + s.count : i \in 1..Len(coords)
        BY <2>5, <3>1
      <4> QED BY <4>1, <4>2
    <3>3. /\ SubSeq(coords, c + 1, c + s.count) \in Seq(Nat)
          /\ Len(SubSeq(coords, c + 1, c + s.count))
               = IF c + 1 <= c + s.count THEN c + s.count - (c + 1) + 1 ELSE 0
          /\ \A i \in 1..(c + s.count - (c + 1) + 1) :
                SubSeq(coords, c + 1, c + s.count)[i] = coords[c + 1 + i - 1]
      <4>1. c \in Int /\ s.count \in Int
        BY <2>5, <3>1
      <4> QED BY <3>2, <4>1, SubSeqProperties
    <3>4. /\ c + 1 <= c + s.count /\ c + s.count - (c + 1) + 1 = s.count
          /\ \A i \in 1..s.count : c + 1 + i - 1 = c + i
      BY <2>5, <3>1
    <3>5. new = SubSeq(coords, c + 1, c + s.count)
      BY DEF BatchHeights, c
    <3> HIDE DEF new
    <3> QED BY <3>1, <3>3, <3>4, <3>5
  <2> HIDE DEF new
  <2>8. got \in [BatchRequest -> Seq(Seq(Nat))]
    BY <2>1 DEF BatchTyped
  <2>9. r = s.id /\ got'[r] = Append(got[r], new)
    BY <1>1, <2>3, <2>8
  <2>10. Last(got'[r]) = new
    <3>1. got[r] \in Seq(Seq(Nat))
      BY <2>8
    <3>2. Len(Append(got[r], new)) = Len(got[r]) + 1 /\ Append(got[r], new)[Len(got[r]) + 1] = new
      BY <2>7, <3>1, AppendProperties
    <3> QED BY <2>9, <3>2 DEF Last
  <2>11. ToSet(new) = {s.id}
    <3>1. DOMAIN new = 1..s.count /\ 1 \in 1..s.count
      BY <2>5, <2>7, LenProperties
    <3> QED BY <2>7, <3>1 DEF ToSet
  <2> QED BY <2>9, <2>10, <2>11
<1>2. BatchIInv /\ [BatchNext]_batchVars => [Own]_(batchVars)
  BY <1>1 DEF Answered
<1> QED BY <1>2, BatchIsSafe, PTL DEF BatchSpec, OwnHeights
=============================================================================
