--------------------------- MODULE TileSetManager ---------------------------
(***************************************************************************)
(* QGCMapEngineManager, the object behind the page of offline maps, and    *)
(* the tasks it gives the worker of the tile cache: the list of sets, new  *)
(* sets, deletion, renaming, reset, export to a file and import from one.  *)
(*                                                                         *)
(* Requests go to the worker through one FIFO queue of tasks, and its      *)
(* answers come back as signals that the application thread handles one at *)
(* a time, so both are always a little out of date.  An export is more     *)
(* than that: it reads the set objects of the list from the worker thread, *)
(* one after the other, while the application thread may change or delete  *)
(* them.                                                                   *)
(*                                                                         *)
(* The database is a set of tiles, the table of sets and which tiles are   *)
(* listed for which set; TileDatabase has what happens to it below that.   *)
(* _defaultSet is 1 from the first task on: the id of the default set of   *)
(* the database the program has created.                                   *)
(***************************************************************************)
EXTENDS Integers, Sequences, SequencesExt, FiniteSetsExt, Functions

CONSTANTS Hash,         \* the hashes of the map tiles
          Names,        \* names a user gives to sets
          MaxSets,      \* bound on the ids of sets
          Budgets       \* how often the user does what, of which a behaviour has one

ASSUME ManagerAssumption ==
    /\ Names \subseteq Seq(STRING) /\ MaxSets \in Nat \ {0}

\* A name: what the user wrote and the numbers the code has put behind it
DefaultName == <<"Default Tile Set">>

VARIABLES
    tables,     \* the database
    file,       \* the file that is exported to and imported from
    objects,    \* the set objects that are alive and can be reached
    list,       \* _tileSets
    tasks,      \* tasks for the worker
    exporting,  \* the set objects the worker has still to export
    signals,    \* signals of tasks for the application thread
    action,     \* _importAction
    crashed,    \* a deleted set object was read
    doomed,     \* the export was asked for with a set that was being deleted
    muddled,    \* the list was asked for while answers for it were on their way
    budget      \* what is left to the user

manager == <<objects, list, action, doomed, muddled, budget>>
managerVars == <<tables, file, tasks, exporting, signals, crashed, manager>>

Empty == [tiles |-> {}, sets |-> <<>>, listed |-> {}]
NewID(d) == IF DOMAIN d.sets = {} THEN 1 ELSE Max(DOMAIN d.sets) + 1
InUse(d) == {d.sets[s].name : s \in DOMAIN d.sets}
Insert(d, name, isDefault) ==
    LET id == NewID(d)
    IN  [d EXCEPT !.sets = [s \in DOMAIN d.sets \cup {id} |->
            IF s = id THEN [name |-> name, isDefault |-> isDefault] ELSE d.sets[s]]]
\* _createDB: a default set unless a set has its name
WithDefault(d) == IF DefaultName \in InUse(d) THEN d ELSE Insert(d, DefaultName, TRUE)

\* The tiles of set s that no other set lists
UniqueTo(d, s) ==
    {h \in d.tiles : {p \in d.listed : p[1] = h} = {<<h, s>>}}

ManagerInit ==
    /\ tables = WithDefault(Empty) /\ file = Empty
    /\ objects = <<>> /\ list = <<>> /\ tasks = <<>> /\ exporting = <<>> /\ signals = <<>>
    /\ action = "none" /\ crashed = FALSE /\ doomed = FALSE /\ muddled = TRUE
    /\ budget \in Budgets

Spend(what) == budget[what] > 0 /\ budget' = [budget EXCEPT ![what] = @ - 1]

-----------------------------------------------------------------------------
(* The application thread *)

\* What is on its way, with the signals there are
Coming(kinds, sigs) == \/ \E i \in DOMAIN tasks : tasks[i].kind \in kinds
                       \/ \E i \in DOMAIN sigs : sigs[i].kind \in kinds
Exchanging(sigs) == exporting # <<>> \/ Coming({"import", "export", "completed"}, sigs)
Muddles(sigs) == Exchanging(sigs) \/ Coming({"fetch", "create", "fetched", "saved"}, sigs)

\* The objects an export will read or is reading
Pointed(q, e) ==
    ToSet(e) \cup UNION {ToSet(q[i].sets) : i \in {j \in DOMAIN q : q[j].kind = "export"}}

Prepended(q, task) == <<task>> \o q           \* mutant: the newest task first
Enqueued(q, task) == Append(q, task)

Reload(sigs) ==                               \* mutant: the list is not emptied
    /\ UNCHANGED <<list, objects>>
    /\ tasks' = Enqueued(tasks, [kind |-> "fetch"])
    /\ muddled' = Muddles(sigs)

\* loadTileSets, while the given signals are coming: the list is emptied now and filled
\* by the signals of a task; the objects that were in it stay
Load(sigs) ==
    /\ list' = <<>>
    /\ objects' = Restrict(objects, DOMAIN objects \cap Pointed(tasks, exporting))
    /\ tasks' = Enqueued(tasks, [kind |-> "fetch"])
    /\ muddled' = Muddles(sigs)

LoadTileSets ==
    /\ Spend("loads") /\ Load(signals)
    /\ UNCHANGED <<tables, file, exporting, signals, action, crashed, doomed>>

Object(i) == objects[list[i]]
FindName(name) == \E i \in DOMAIN list : Object(i).name = name

\* startDownload, for a name the page has looked up; with elevation there is a
\* second set, whose name nobody looks up, also when the map itself is of no size and
\* gets no set
StartDownload(name, map, elevation) ==
    /\ Spend("creates") /\ ~FindName(name)
    /\ tasks' = (tasks \o IF map THEN <<[kind |-> "create", name |-> name]>> ELSE <<>>)
                 \o IF elevation THEN <<[kind |-> "create", name |-> Append(name, 0)]>>
                                 ELSE <<>>
    /\ UNCHANGED <<tables, file, objects, list, exporting, signals, action, crashed, doomed,
                   muddled>>

Deleting(objs) == [o \in DOMAIN objects |->
                     IF o \in objs THEN [objects[o] EXCEPT !.deleting = TRUE] ELSE objects[o]]

\* deleteTileSet: the default set stands for the whole database
DeleteTileSet(i) ==
    /\ Spend("deletes") /\ ~Object(i).deleting
    /\ IF Object(i).isDefault
       THEN /\ objects' = Deleting(ToSet(list))
            /\ tasks' = Enqueued(tasks, [kind |-> "reset"])
       ELSE /\ objects' = Deleting({list[i]})
            /\ tasks' = Enqueued(tasks, [kind |-> "delete", id |-> Object(i).id])
    /\ UNCHANGED <<tables, file, list, exporting, signals, action, crashed, doomed, muddled>>

\* renameTileSet: a number is put behind a name the list has
Numbered(name, k) == Append(name, -k)
NewName(name) ==
    IF ~FindName(name) THEN name
    ELSE Numbered(name, Min({k \in 1..(Len(list) + 1) : ~FindName(Numbered(name, k))}))
RenameTileSet(i, name) ==
    /\ Spend("renames") /\ ~Object(i).isDefault /\ name # Object(i).name
    /\ objects' = [objects EXCEPT ![list[i]].name = NewName(name)]
    /\ tasks' = Enqueued(tasks, [kind |-> "rename", id |-> Object(i).id, name |-> NewName(name)])
    /\ UNCHANGED <<tables, file, list, exporting, signals, action, crashed, doomed, muddled>>

\* The selected objects, in the order of the list
Nth(places, k) == CHOOSE i \in places : Cardinality({j \in places : j <= i}) = k
Chosen(selected) ==
    LET places == {i \in DOMAIN list : list[i] \in selected}
    IN  [k \in 1..Cardinality(places) |-> list[Nth(places, k)]]

\* exportSets: the task has pointers to the selected objects
BeingDeleted(id) ==
    \/ \E i \in DOMAIN tasks : tasks[i].kind = "delete" /\ tasks[i].id = id
    \/ \E i \in DOMAIN signals : signals[i].kind = "deleted" /\ signals[i].id = id
ExportSets(selected) ==
    /\ Spend("exports") /\ selected # {}
    /\ action' = "exporting"
    /\ tasks' = Enqueued(tasks, [kind |-> "export", sets |-> Chosen(selected)])
    /\ doomed' = (doomed \/ \E o \in selected : BeingDeleted(objects[o].id))
    /\ muddled' = (muddled \/ Exchanging(signals))
    /\ UNCHANGED <<tables, file, objects, list, exporting, signals, crashed>>

\* importSets, of the file the export writes
ImportSets(replace) ==
    /\ Spend("imports")
    /\ action' = "importing"
    /\ tasks' = Enqueued(tasks, [kind |-> "import", replace |-> replace])
    /\ muddled' = (muddled \/ Exchanging(signals))
    /\ UNCHANGED <<tables, file, objects, list, exporting, signals, crashed, doomed>>

\* importSets and exportSets without a path, exportSets without a selection,
\* resetAction
ResetAction ==
    /\ action \notin {"none", "done"} /\ Spend("resets")
    /\ action' = "none"
    /\ muddled' = (muddled \/ Exchanging(signals))
    /\ UNCHANGED <<tables, file, objects, list, tasks, exporting, signals, crashed, doomed>>

Signalled(kind) == signals # <<>> /\ Head(signals).kind = kind /\ signals' = Tail(signals)

\* _tileSetFetched and _tileSetSaved: the new object of a set is appended.  The
\* download that _tileSetSaved starts is TileSetDownload; here it is SaveTile.
HandleNewObject ==
    /\ Signalled("fetched") \/ Signalled("saved")
    /\ LET used == DOMAIN objects \cup ToSet(list) \cup Pointed(tasks, exporting)
           o == Min(1..(Cardinality(used) + 1) \ used)
           set == Head(signals).set
       IN  /\ list' = Append(list, o)
           /\ objects' = [p \in DOMAIN objects \cup {o} |-> IF p = o THEN set ELSE objects[p]]
    /\ UNCHANGED <<tables, file, tasks, exporting, action, crashed, doomed, muddled, budget>>

\* _tileSetDeleted: the first object with the id is removed and deleted
HandleDeleted ==
    /\ Signalled("deleted")
    /\ LET found == {i \in DOMAIN list : Object(i).id = Head(signals).id}
       IN  IF found = {} THEN UNCHANGED <<objects, list>>
           ELSE /\ list' = RemoveAt(list, Min(found))
                /\ objects' = Restrict(objects, DOMAIN objects \ {list[Min(found)]})
    /\ UNCHANGED <<tables, file, tasks, exporting, action, crashed, doomed, muddled, budget>>

\* _resetCompleted
HandleReset ==
    /\ Signalled("reset") /\ Load(Tail(signals))
    /\ UNCHANGED <<tables, file, exporting, action, crashed, doomed, budget>>

\* _actionCompleted: only what was asked for last counts
HandleCompleted ==
    /\ Signalled("completed")
    /\ action' = "done"
    /\ IF action = "importing" THEN Load(Tail(signals))
       ELSE UNCHANGED <<objects, list, tasks, muddled>>
    /\ UNCHANGED <<tables, file, exporting, crashed, doomed, budget>>

-----------------------------------------------------------------------------
(* The worker thread *)

Dequeue(kind) == exporting = <<>> /\ tasks # <<>> /\ Head(tasks).kind = kind /\ tasks' = Tail(tasks)
Emit(kind) == signals' = Append(signals, [kind |-> kind])

SetObject(d, s) == [id |-> s, name |-> d.sets[s].name, isDefault |-> d.sets[s].isDefault,
                    deleting |-> FALSE]

\* The rows of a table of sets: the default sets first, the others by id instead of by
\* name, which makes no difference to what is shown or imported
Before(sets, s, t) ==
    IF sets[s].isDefault = sets[t].isDefault THEN s < t ELSE sets[s].isDefault
Rows(sets) ==
    {ids \in [1..Cardinality(DOMAIN sets) -> DOMAIN sets] :
        \A i, j \in DOMAIN ids : i < j => Before(sets, ids[i], ids[j])}

\* _getTileSets
FetchTileSets ==
    /\ Dequeue("fetch")
    /\ \E ids \in Rows(tables.sets) :
         signals' = signals \o [i \in DOMAIN ids |->
                                  [kind |-> "fetched", set |-> SetObject(tables, ids[i])]]
    /\ UNCHANGED <<tables, file, exporting, crashed, manager>>

\* _createTileSet: the name is UNIQUE; tiles of its area that are there are listed
CreateTileSet ==
    /\ Dequeue("create")
    /\ IF Head(tasks).name \in InUse(tables)
       THEN UNCHANGED <<tables, signals>>
       ELSE LET id == NewID(tables)
                d == Insert(tables, Head(tasks).name, FALSE)
            IN  /\ id <= MaxSets
                /\ \E tiles \in SUBSET d.tiles :
                     tables' = [d EXCEPT !.listed = @ \cup (tiles \X {id})]
                /\ signals' = Append(signals, [kind |-> "saved", set |-> SetObject(d, id)])
    /\ UNCHANGED <<file, exporting, crashed, manager>>

\* _saveTile, of a tile that was displayed or downloaded for a set
SaveTile(h, s) ==
    /\ exporting = <<>> /\ h \notin tables.tiles /\ Spend("saves")
    /\ tables' = [tables EXCEPT !.tiles = @ \cup {h}, !.listed = @ \cup {<<h, s>>}]
    /\ UNCHANGED <<file, tasks, exporting, signals, crashed, objects, list, action, doomed,
                   muddled>>

\* _deleteTileSet of an id
Deleted(d, s) == [tiles  |-> d.tiles \ UniqueTo(d, s),
                  sets   |-> Restrict(d.sets, DOMAIN d.sets \ {s}),
                  listed |-> {p \in d.listed : p[2] # s}]
RunDelete ==
    /\ Dequeue("delete")
    /\ tables' = Deleted(tables, Head(tasks).id)
    /\ signals' = Append(signals, [kind |-> "deleted", id |-> Head(tasks).id])
    /\ UNCHANGED <<file, exporting, crashed, manager>>

\* _renameTileSet: nothing when the name is in use
RunRename ==
    /\ Dequeue("rename")
    /\ LET s == Head(tasks).id
       IN  tables' = IF Head(tasks).name \in InUse(tables) \/ s \notin DOMAIN tables.sets
                     THEN tables ELSE [tables EXCEPT !.sets[s].name = Head(tasks).name]
    /\ UNCHANGED <<file, exporting, signals, crashed, manager>>

RunReset ==
    /\ Dequeue("reset")
    /\ tables' = WithDefault(Empty)
    /\ Emit("reset")
    /\ UNCHANGED <<file, exporting, crashed, manager>>

\* _importSets of one set of the file into d: a new set with a name of its own, which
\* is deleted again when the database already has all its tiles
FreeName(d, name) ==
    IF name \notin InUse(d) THEN name
    ELSE LET numbers == 1..(Cardinality(DOMAIN d.sets) + 1)
         IN  Append(name, Min({k \in numbers : Append(name, k) \notin InUse(d)}))
FoundTiles(s) == UniqueTo(file, s)
DropsAny(saved, isDefault) == saved = {}     \* mutant: the default set, too
DropsSet(saved, isDefault) == saved = {} /\ ~isDefault
MergeSet(d, s) ==
    LET isDefault == file.sets[s].isDefault
        into == IF isDefault THEN d ELSE Insert(d, FreeName(d, file.sets[s].name), FALSE)
        id == IF isDefault THEN 1 ELSE NewID(d)
        saved == FoundTiles(s) \ d.tiles
    IN  IF DropsSet(saved, isDefault) THEN Deleted(into, id)
        ELSE [into EXCEPT !.tiles = @ \cup saved, !.listed = @ \cup (saved \X {id})]

\* ... of all of them, one after the other
Merged(ids) ==
    LET d[i \in 0..Len(ids)] == IF i = 0 THEN tables ELSE MergeSet(d[i - 1], ids[i])
    IN  d[Len(ids)]
ImportMerge ==
    /\ Dequeue("import") /\ ~Head(tasks).replace
    /\ IF file.tiles = {} THEN tables' = tables
       ELSE \E ids \in Rows(file.sets) : tables' = Merged(ids)
    /\ DOMAIN tables'.sets \subseteq 1..MaxSets
    /\ Emit("completed")
    /\ UNCHANGED <<file, exporting, crashed, manager>>

\* ... in place of the database: the file is copied and its tables completed
ImportReplace ==
    /\ Dequeue("import") /\ Head(tasks).replace
    /\ tables' = WithDefault(file)
    /\ DOMAIN tables'.sets \subseteq 1..MaxSets
    /\ Emit("completed")
    /\ UNCHANGED <<file, exporting, crashed, manager>>

\* _exportSets up to the loop: the file is new
BeginExport ==
    /\ Dequeue("export")
    /\ file' = Empty /\ exporting' = Head(tasks).sets
    /\ UNCHANGED <<tables, signals, crashed, manager>>

\* One set: what its object says, the rows of its id, and of the tiles those the file
\* does not have.  A name the file has ends the export.
Exported(o) ==
    LET id == NewID(file)
        f == Insert(file, o.name, o.isDefault)
        new == {h \in tables.tiles : <<h, o.id>> \in tables.listed} \ file.tiles
    IN  [f EXCEPT !.tiles = @ \cup new, !.listed = @ \cup (new \X {id})]
ExportSet ==
    /\ exporting # <<>>
    /\ IF Head(exporting) \notin DOMAIN objects
       THEN crashed' = TRUE /\ UNCHANGED <<file, exporting, signals>>
       ELSE LET o == objects[Head(exporting)]
                taken == o.name \in InUse(file)
            IN  /\ file' = IF taken THEN file ELSE Exported(o)
                /\ exporting' = IF taken THEN <<>> ELSE Tail(exporting)
                /\ IF exporting' = <<>> THEN Emit("completed") ELSE UNCHANGED signals
                /\ UNCHANGED crashed
    /\ UNCHANGED <<tables, tasks, manager>>

-----------------------------------------------------------------------------
Step ==
    \/ LoadTileSets
    \/ \E name \in Names, map, elevation \in BOOLEAN : StartDownload(name, map, elevation)
    \/ \E i \in DOMAIN list : DeleteTileSet(i)
    \/ \E i \in DOMAIN list, name \in Names : RenameTileSet(i, name)
    \/ \E selected \in SUBSET ToSet(list) : ExportSets(selected)
    \/ \E replace \in BOOLEAN : ImportSets(replace)
    \/ ResetAction
    \/ HandleNewObject \/ HandleDeleted \/ HandleReset \/ HandleCompleted
    \/ FetchTileSets \/ CreateTileSet \/ RunDelete \/ RunRename \/ RunReset
    \/ \E h \in Hash, s \in DOMAIN tables.sets : SaveTile(h, s)
    \/ ImportMerge \/ ImportReplace \/ BeginExport \/ ExportSet

ManagerNext == ~crashed /\ Step

ManagerSpec == ManagerInit /\ [][ManagerNext]_managerVars

-----------------------------------------------------------------------------
(* Properties *)

Database(d, ids) ==
    /\ d.tiles \subseteq Hash /\ DOMAIN d.sets \subseteq ids /\ d.listed \subseteq Hash \X ids
    /\ \A s, t \in DOMAIN d.sets : d.sets[s].name = d.sets[t].name => s = t

\* Each tile of an exported file is listed for exactly one of its sets, so that an
\* import finds it among the tiles that are unique to a set.
FileIsPartition ==
    \A h \in file.tiles : \E s \in DOMAIN file.sets : h \in UniqueTo(file, s)

\* An export reads a deleted object only if that set was already being deleted when
\* the export was asked for: a deletion asked for later stays behind it in the queue.
ExportReadsLiving == crashed => doomed

\* The type invariant of the database and the file, with their UNIQUE names, what an
\* export leaves in the file, and what it reads.
ManagerInv ==
    /\ Database(tables, 1..MaxSets) /\ Database(file, Nat \ {0}) /\ FileIsPartition
    /\ \A i \in DOMAIN list : list[i] \in DOMAIN objects
    /\ action \in {"none", "importing", "exporting", "done"}
    /\ ExportReadsLiving

\* When nothing is on its way the list shows the sets of the database, each once,
\* unless it was asked for while answers of earlier requests were still coming, or an
\* import was overtaken by another request to import or to export.
Quiet == tasks = <<>> /\ exporting = <<>> /\ signals = <<>>
Shown == {Object(i).id : i \in DOMAIN list}
ListIsDatabase ==
    Quiet /\ ~muddled /\ ~crashed => Shown = DOMAIN tables.sets /\ Len(list) = Cardinality(Shown)

\* A merging import takes every tile of the file, each for a set that exists, and
\* takes nothing from the sets that were there, as long as the set the worker remembers
\* as the default one exists.
ImportKeeps ==
    [][ImportMerge /\ 1 \in DOMAIN tables.sets =>
         /\ tables.tiles \cup file.tiles \subseteq tables'.tiles
         /\ tables.listed \subseteq tables'.listed
         /\ \A s \in DOMAIN tables.sets :
              s \in DOMAIN tables'.sets /\ tables'.sets[s] = tables.sets[s]
         /\ \A h \in file.tiles \ tables.tiles :
              \E s \in DOMAIN tables'.sets : <<h, s>> \in tables'.listed]_managerVars
=============================================================================
