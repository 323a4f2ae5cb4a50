---------------------------- MODULE TileDatabase ----------------------------
(***************************************************************************)
(* The four tables of the tile database and what the handlers of           *)
(* QGCCacheWorker do to them.  The worker is the only writer and runs one  *)
(* task at a time, so a task is one action; a handler that is several SQL  *)
(* statements outside a transaction takes the number of them that are      *)
(* executed before the process is killed.  The application is there with   *)
(* what it has in hand: tiles it has been given to download and answers    *)
(* that have not reached the database yet.                                 *)
(*                                                                         *)
(* Rowids: both primary keys are plain INTEGER PRIMARY KEY columns, so a   *)
(* new row gets one more than the largest id in use, and the id of a       *)
(* deleted last row is given out again.                                    *)
(***************************************************************************)
EXTENDS Naturals, Sequences, Functions, FiniteSetsExt

CONSTANTS Hash,         \* the hashes of the map tiles
          Limits,       \* bounds, of which a behaviour has one: on the tile ids and
                        \* the set ids given out, and on the hashes
          Batch,        \* kTileBatchSize, the LIMIT of a download list
          MayCrash      \* the process may be killed

ASSUME BoundAssumption ==
    /\ Limits \subseteq [tiles : Nat \ {0}, sets : Nat \ {0}, hashes : SUBSET Hash]
    /\ Batch \in Nat \ {0} /\ MayCrash \in BOOLEAN /\ IsFiniteSet(Hash)

VARIABLES
    tiles,      \* table Tiles: tileID -> hash
    sets,       \* table TileSets: setID -> defaultSet and the covered tiles
    rows,       \* table SetTiles: how often it has tileID, setID (nothing is unique)
    downloads,  \* table TilesDownload: hash (UNIQUE) -> setID and state
    cached,     \* _defaultSet, 0 for UINT64_MAX
    flights,    \* tiles the application downloads for a set, or is about to record
    excused,    \* <<h, s>>: set s asked for tile h and the code let it go
    torn,       \* a reset was cut short and the tables are what it left
    limit       \* the bounds of this behaviour

vars == <<limit, tiles, sets, rows, downloads, cached, flights, excused, torn>>

TileIDs == 1..limit.tiles
SetIDs == 1..limit.sets

NewID(table) == IF DOMAIN table = {} THEN 1 ELSE Max(DOMAIN table) + 1
Without(f, ids) == Restrict(f, DOMAIN f \ ids)
With(f, id, row) == [i \in DOMAIN f \cup {id} |-> IF i = id THEN row ELSE f[i]]

Listed(t, s) == rows[<<t, s>>] > 0

\* The ids of the tiles with a hash: _findTile, and the UNIQUE of Tiles.hash
TileOf(h) == {t \in DOMAIN tiles : tiles[t] = h}
HasTile(h, s) == \E t \in TileOf(h) : Listed(t, s)
UserSets == {s \in DOMAIN sets : ~sets[s].isDefault}
Defaults == DOMAIN sets \ UserSets

\* _getDefaultTileSet: the cached id, else the one in the table
DefaultSet == IF cached # 0 THEN cached ELSE Min(Defaults)

\* SetTiles A JOIN SetTiles B ON A.tileID = B.tileID WHERE B.setID = s
\* GROUP BY A.tileID HAVING COUNT(A.tileID) = 1
UniqueTo(s) ==
    {t \in DOMAIN tiles : rows[<<t, s>>] = 1 /\ \A u \in SetIDs \ {s} : ~Listed(t, u)}
AllOf(s) == {t \in DOMAIN tiles : Listed(t, s)}      \* mutant: the HAVING dropped

\* INSERT INTO SetTiles and DELETE ... WHERE setID = s.  Two rows and more are the
\* same to every statement, so the count stops at two.
AddRows(ts, s) == [p \in DOMAIN rows |-> IF p[1] \in ts /\ p[2] = s
                                         THEN Min({rows[p] + 1, 2}) ELSE rows[p]]
NoRowsOf(s) == [p \in DOMAIN rows |-> IF p[2] = s THEN 0 ELSE rows[p]]

\* A new database: _createDB on no tables
DefaultSetRow == [isDefault |-> TRUE, area |-> {}]
UserSetRow(area) == [isDefault |-> FALSE, area |-> area]
DefaultOnly == [s \in {1} |-> DefaultSetRow]
Empty == <<>>
NoRows == [p \in TileIDs \X SetIDs |-> 0]

Init ==
    /\ limit \in Limits
    /\ tiles = Empty /\ sets = DefaultOnly /\ rows = NoRows /\ downloads = Empty
    /\ cached = 0 /\ flights = {} /\ excused = {} /\ torn = FALSE

-----------------------------------------------------------------------------
(* Saving a tile *)

\* The tile is not the set's own, and its save is ignored or never enqueued
Ignored(h, s) == IF s \in UserSets /\ ~HasTile(h, s) THEN {<<h, s>>} ELSE {}

\* _saveTile: INSERT INTO Tiles fails when the hash is there and the handler
\* returns; otherwise INSERT INTO SetTiles, unless the process is killed first
SaveTile(h, s, whole) ==
    IF TileOf(h) # {}
    THEN /\ excused' = excused \cup Ignored(h, s)
         /\ UNCHANGED <<tiles, rows>>
    ELSE LET t == NewID(tiles) IN
         /\ t <= limit.tiles
         /\ tiles' = With(tiles, t, h)
         /\ rows' = IF whole THEN AddRows({t}, s) ELSE rows
         /\ UNCHANGED excused

\* The end of the process inside a handler or between two tasks: the downloads
\* of the application are gone and _defaultSet has its initial value
Restart ==
    /\ MayCrash
    /\ flights' = {}
    /\ cached' = 0

\* A tile that was displayed and is cached in the default set
Browse(h) ==
    \E whole \in BOOLEAN :
        /\ SaveTile(h, DefaultSet, whole)
        /\ IF whole
           THEN /\ cached' = IF TileOf(h) = {} THEN DefaultSet ELSE cached
                /\ UNCHANGED flights
           ELSE Restart
        /\ UNCHANGED <<sets, downloads, torn>>

\* _updateTotals, after any task: caches the id of the default set
UpdateTotals ==
    /\ cached' = DefaultSet
    /\ UNCHANGED <<tiles, sets, rows, downloads, flights, excused, torn>>

-----------------------------------------------------------------------------
(* Creating a set and downloading its tiles *)

\* _createTileSet: the row in TileSets is written at once; then, in a transaction,
\* tiles in the database are listed for the set and the others enter
\* TilesDownload with INSERT OR IGNORE
CreateTileSet(area, whole) ==
    LET s == NewID(sets)
        have == {t \in DOMAIN tiles : whole /\ tiles[t] \in area}
        miss == {h \in area : whole /\ TileOf(h) = {}}
    IN  /\ s <= limit.sets
        /\ sets' = With(sets, s, UserSetRow(area))
        /\ rows' = AddRows(have, s)
        /\ downloads' = [h \in DOMAIN downloads \cup miss |->
                            IF h \in DOMAIN downloads THEN downloads[h]
                            ELSE [set |-> s, state |-> "pending"]]
        /\ excused' = excused \cup
              ((IF whole THEN miss \cap DOMAIN downloads ELSE area) \X {s})
        /\ IF whole THEN UNCHANGED <<cached, flights>> ELSE Restart
        /\ UNCHANGED <<tiles, torn>>

Pending(s) == {h \in DOMAIN downloads : downloads[h] = [set |-> s, state |-> "pending"]}
InState(hs, st) == [h \in DOMAIN downloads |->
                      IF h \in hs THEN [downloads[h] EXCEPT !.state = st] ELSE downloads[h]]

\* _getTileDownloadList: at most Batch pending tiles are marked as downloading, each
\* by a statement of its own; when all are, the application starts to download them
GetTileDownloadList(s) ==
    \E hs \in SUBSET Pending(s) : \E marked \in SUBSET hs :
        /\ hs # {} /\ Cardinality(hs) = Min({Batch, Cardinality(Pending(s))})
        /\ downloads' = InState(marked, "downloading")
        /\ IF marked = hs
           THEN /\ flights' = flights \cup {[hash |-> h, set |-> s] : h \in hs}
                /\ UNCHANGED cached
           ELSE Restart
        /\ UNCHANGED <<tiles, sets, rows, excused, torn>>

\* A download row of set f.set, as the WHERE clauses find it
RowOf(f) == {h \in DOMAIN downloads : h = f.hash /\ downloads[h].set = f.set}

StateThenTile == <<"state", "tile">>        \* mutant: the state is updated first
TileThenState == <<"tile", "state">>

\* The tasks that _networkReplyFinished enqueues: cacheTile leaves the save out when
\* the user has switched persistence off, the update to StateComplete is always there
Enqueued(persistent) == IF persistent THEN TileThenState ELSE <<"state">>

\* Nothing comes between the two in the queue, but the process may end before,
\* between or inside them: done tells what the database has seen
RecordDownload(f) ==
    \E persistent, whole \in BOOLEAN : \E n \in 1..Len(Enqueued(persistent)) :
        LET done == {Enqueued(persistent)[i] : i \in 1..n} IN
        /\ whole \/ "tile" \in done
        /\ IF "tile" \in done THEN SaveTile(f.hash, f.set, whole)
           ELSE /\ excused' = IF persistent THEN excused
                              ELSE excused \cup Ignored(f.hash, f.set)
                /\ UNCHANGED <<tiles, rows>>
        /\ IF whole /\ "state" \in done
           THEN downloads' = Without(downloads, RowOf(f))
           ELSE UNCHANGED downloads
        /\ IF whole /\ n = Len(Enqueued(persistent))
           THEN flights' = flights \ {f} /\ UNCHANGED cached
           ELSE Restart
        /\ UNCHANGED <<sets, torn>>

\* _networkReplyError: _updateTileDownloadState with StateError
FailDownload(f) ==
    /\ downloads' = InState(RowOf(f), "error")
    /\ flights' = flights \ {f}
    /\ UNCHANGED <<tiles, sets, rows, cached, excused, torn>>

\* resumeDownloadTask: _updateTileDownloadState with StatePending and "*"
ResumeDownload(s) ==
    /\ s \in UserSets
    /\ downloads' = InState({h \in DOMAIN downloads : downloads[h].set = s}, "pending")
    /\ UNCHANGED <<tiles, sets, rows, cached, flights, excused, torn>>

-----------------------------------------------------------------------------
(* Pruning, deleting, resetting, replacing *)

PrunableAll == AllOf(DefaultSet)            \* mutant: any tile of the default set
Prunable == UniqueTo(DefaultSet)

\* _pruneCache: the oldest tiles that only the default set lists, at least one if
\* there is any; their SetTiles rows stay
PruneCache ==
    \E ts \in SUBSET Prunable :
        /\ ts = {} => Prunable = {}
        /\ tiles' = Without(tiles, ts)
        /\ excused' = excused \cup ({tiles[t] : t \in ts} \X (UserSets \cap {DefaultSet}))
        /\ cached' = DefaultSet
        /\ UNCHANGED <<sets, rows, downloads, flights, torn>>

\* The statements of _deleteTileSet, in order
SetsFirst == <<"TileSets", "Tiles", "TilesDownload", "SetTiles">>    \* mutant
DeleteSteps == <<"Tiles", "TilesDownload", "TileSets", "SetTiles">>

DoomedAll(s) == AllOf(s)                    \* mutant: tiles of other sets go too
Doomed(s) == UniqueTo(s)

\* _deleteTileSet, cut short after done statements
DeleteTileSet(s, done) ==
    LET did == {DeleteSteps[i] : i \in 1..done}
        keep(table, f, ids) == IF table \in did THEN Without(f, ids) ELSE f
    IN  /\ s \in UserSets
        /\ tiles' = keep("Tiles", tiles, Doomed(s))
        /\ downloads' = keep("TilesDownload", downloads,
                             {h \in DOMAIN downloads : downloads[h].set = s})
        /\ sets' = keep("TileSets", sets, {s})
        /\ rows' = IF "SetTiles" \in did THEN NoRowsOf(s) ELSE rows
        /\ excused' = IF "TileSets" \in did THEN {e \in excused : e[2] # s}
                      ELSE excused \cup (sets[s].area \X {s})
        /\ IF done = 4 THEN cached' = DefaultSet /\ UNCHANGED flights ELSE Restart
        /\ UNCHANGED torn

\* The network replies of a deleted set object are deleted with it
DropFlight(f) ==
    /\ f.set \notin DOMAIN sets
    /\ flights' = flights \ {f}
    /\ UNCHANGED <<tiles, sets, rows, downloads, cached, excused, torn>>

\* _resetCacheDatabase: four DROP TABLE, then _createDB; _defaultSet is kept.  A
\* reset cut short is completed by the _createDB of the next start.
ResetCacheDatabase(done) ==
    /\ tiles' = Empty
    /\ sets' = IF done >= 2 THEN DefaultOnly ELSE sets
    /\ rows' = IF done >= 3 THEN NoRows ELSE rows
    /\ downloads' = IF done = 4 THEN Empty ELSE downloads
    /\ excused' = IF done >= 2 THEN {} ELSE UNION {sets[s].area \X {s} : s \in UserSets}
    /\ torn' = (done < 4)
    /\ IF done = 4 THEN UNCHANGED <<cached, flights>> ELSE Restart

\* _importSets replacing the file by one that _exportSets wrote for one set that
\* covers the tiles of area: the default set came first, or was not exported and
\* is created by _createDB behind the others
ReplaceDatabase(area, withDefault) ==
    LET user == IF withDefault THEN 2 ELSE 1
        ids  == 1..Cardinality(area)
    IN  /\ limit.sets >= 2 /\ Cardinality(area) <= limit.tiles
        /\ tiles' \in Bijection(ids, area)
        /\ sets' = [s \in 1..2 |-> IF s = user THEN UserSetRow(area) ELSE DefaultSetRow]
        /\ rows' = [p \in DOMAIN rows |-> IF p \in ids \X {user} THEN 1 ELSE 0]
        /\ downloads' = Empty
        /\ excused' = {}
        /\ torn' = FALSE
        /\ UNCHANGED <<cached, flights>>

\* The process is killed between two tasks
Kill == Restart /\ UNCHANGED <<tiles, sets, rows, downloads, excused, torn>>

Step ==
    \/ \E h \in limit.hashes : Browse(h)
    \/ \E area \in SUBSET limit.hashes \ {{}}, whole \in BOOLEAN : CreateTileSet(area, whole)
    \/ \E s \in UserSets : GetTileDownloadList(s)
    \/ \E f \in flights : RecordDownload(f)
    \/ \E f \in flights : FailDownload(f)
    \/ \E s \in UserSets : ResumeDownload(s)
    \/ PruneCache
    \/ \E s \in UserSets, done \in 1..4 : DeleteTileSet(s, done)
    \/ \E f \in flights : DropFlight(f)
    \/ \E done \in 1..4 : ResetCacheDatabase(done)
    \/ \E area \in SUBSET limit.hashes \ {{}}, d \in BOOLEAN : ReplaceDatabase(area, d)
    \/ UpdateTotals
    \/ Kill

Next == UNCHANGED limit /\ Step

Spec == Init /\ [][Next]_vars

-----------------------------------------------------------------------------
(* Properties *)

State == {"pending", "downloading", "error"}

\* The type invariant; the two UNIQUE columns are the injectivity of tiles and
\* the function downloads.
TypeOK ==
    /\ DOMAIN tiles \subseteq TileIDs /\ Range(tiles) \subseteq Hash /\ IsInjective(tiles)
    /\ DOMAIN sets \subseteq SetIDs
    /\ \A s \in DOMAIN sets : sets[s] \in [isDefault : BOOLEAN, area : SUBSET Hash]
    /\ rows \in [TileIDs \X SetIDs -> 0..2]
    /\ DOMAIN downloads \subseteq Hash
    /\ Range(downloads) \subseteq [set : SetIDs, state : State]
    /\ cached \in 0..limit.sets
    /\ flights \subseteq [hash : Hash, set : SetIDs]
    /\ excused \subseteq Hash \X UserSets
    /\ torn \in BOOLEAN /\ limit \in Limits

\* A tile a set covers is listed for it, or is to be downloaded for it, or was let
\* go in one of the five ways the code has: another set was downloading it when
\* the set was created, its save was ignored because browsing had cached the tile
\* in the meantime, its save was not even enqueued because persistence was off
\* when the answer came, a prune took it for a tile of the default set, or the
\* process was killed inside a creation, a deletion or a reset.  No other
\* interleaving of downloads, retries, deletions, resets and restarts loses a tile
\* of a set.
SetsComplete ==
    \A s \in UserSets : \A h \in sets[s].area :
        \/ HasTile(h, s)
        \/ h \in DOMAIN downloads /\ downloads[h].set = s
        \/ <<h, s>> \in excused

\* A download belongs to a set that exists, so that a set given the id of a
\* deleted one inherits nothing to download and blocks no other set's tile: true
\* for every place a deletion can be cut short, though not for a reset.
DownloadsOwned ==
    ~torn => \A h \in DOMAIN downloads : downloads[h].set \in UserSets

Inv == TypeOK /\ DownloadsOwned

\* No step takes a tile from a user-made set other than the one it deletes, as
\* long as _defaultSet is the default set of the table (and the tables are not
\* dropped or replaced): tiles shared with a deleted set or with the default set
\* stay, whatever rows earlier deletions and prunes have left behind.
CachedIsDefault == cached = 0 \/ cached \in Defaults
NewTables ==
    \/ \E done \in 1..4 : ResetCacheDatabase(done)
    \/ \E area \in SUBSET limit.hashes \ {{}}, d \in BOOLEAN : ReplaceDatabase(area, d)
Deletes(s) == \E done \in 1..4 : DeleteTileSet(s, done)
KeepsTiles ==
    [][CachedIsDefault =>
         \A s \in UserSets : \A t \in DOMAIN tiles : Listed(t, s) =>
            (t \in DOMAIN tiles' /\ tiles'[t] = tiles[t]) \/ Deletes(s) \/ NewTables]_vars

\* "Select tiles in default set only": a prune takes no tile of a user-made set.
PruneSparesSets ==
    [][PruneCache => \A s \in UserSets : \A t \in DOMAIN tiles :
                        Listed(t, s) => t \in DOMAIN tiles']_vars
=============================================================================
