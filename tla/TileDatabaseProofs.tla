------------------------- MODULE TileDatabaseProofs -------------------------
(***************************************************************************)
(* Proofs about TileDatabase, for every set of hashes and all bounds.      *)
(***************************************************************************)
EXTENDS TileDatabase, FiniteSetTheorems, SequenceTheorems, WellFoundedInduction, TLAPS

-----------------------------------------------------------------------------
(* Ids *)

\* The ids in use have a largest: Max is a CHOOSE, which alone promises nothing.
LEMMA MaxOfIds ==
    ASSUME NEW n \in Nat, NEW S, S \subseteq 1..n, S # {}
    PROVE  Max(S) \in S /\ \A y \in S : y <= Max(S)
<1> DEFINE T == {n - x : x \in S}
           R == OpToRel(<, Nat)
<1>1. T \subseteq Nat /\ T # {}
  <2>1. \A x \in S : n - x \in Nat
    OBVIOUS
  <2> QED  BY <2>1
<1>2. \A x, y \in Nat : x < y => <<x, y>> \in R
  BY DEF OpToRel
<1>3. IsWellFoundedOn(R, Nat)
  BY NatLessThanWellFounded
<1> HIDE DEF R
<1>4. PICK m \in T : \A y \in T : <<y, m>> \notin R
  BY <1>1, <1>3, WFMin
<1>5. PICK x \in S : m = n - x
  OBVIOUS
<1>6. ASSUME NEW y \in S PROVE x >= y
  <2>1. ~(n - y < m)
    BY <1>1, <1>2, <1>4
  <2> QED  BY <1>5, <2>1
<1> QED  BY <1>6 DEF Max

\* And a smallest.
LEMMA MinOfIds ==
    ASSUME NEW n \in Nat, NEW S, S \subseteq 1..n, S # {}
    PROVE  Min(S) \in S /\ \A y \in S : Min(S) <= y
<1> DEFINE R == OpToRel(<, Nat)
<1>1. \A x, y \in Nat : x < y => <<x, y>> \in R
  BY DEF OpToRel
<1>2. IsWellFoundedOn(R, Nat)
  BY NatLessThanWellFounded
<1> HIDE DEF R
<1>3. PICK m \in S : \A y \in S : <<y, m>> \notin R
  <2>1. S \subseteq Nat
    OBVIOUS
  <2> QED  BY <1>2, <2>1, WFMin
<1>4. ASSUME NEW y \in S PROVE m <= y
  <2>1. y \in Nat /\ m \in Nat
    OBVIOUS
  <2>2. <<y, m>> \notin R
    BY <1>3
  <2>3. ~(y < m)
    BY <1>1, <2>1, <2>2
  <2> QED  BY <2>1, <2>3
<1> QED  BY <1>4 DEF Min

\* A new row never takes the id of a row that is there.
LEMMA NewIDIsNew ==
    ASSUME NEW n \in Nat, NEW table, DOMAIN table \subseteq 1..n
    PROVE  NewID(table) \in Nat \ {0} /\ NewID(table) \notin DOMAIN table
<1>1. CASE DOMAIN table = {}
  BY <1>1 DEF NewID
<1>2. CASE DOMAIN table # {}
  <2>1. /\ Max(DOMAIN table) \in 1..n
        /\ \A y \in DOMAIN table : y \in 1..n /\ y <= Max(DOMAIN table)
    BY <1>2, MaxOfIds
  <2>2. NewID(table) = Max(DOMAIN table) + 1
    BY <1>2 DEF NewID
  <2> QED  BY <2>1, <2>2
<1> QED  BY <1>1, <1>2

\* The bounds of a behaviour are numbers, and its hashes are hashes.
LEMMA LimitsTyped ==
    ASSUME limit \in Limits
    PROVE  /\ limit.tiles \in Nat \ {0} /\ limit.sets \in Nat \ {0}
           /\ limit.hashes \subseteq Hash
           /\ 1 \in TileIDs /\ 1 \in SetIDs
  BY BoundAssumption DEF TileIDs, SetIDs

-----------------------------------------------------------------------------
(* Rows of SetTiles *)

RowsTyped == rows \in [TileIDs \X SetIDs -> 0..2]

\* The count of a row saturates at two and is never zero after an insertion.
LEMMA CountsUp == ASSUME NEW n \in 0..2 PROVE Min({n + 1, 2}) \in 1..2
<1>1. /\ {n + 1, 2} \subseteq 1..3 /\ {n + 1, 2} # {}
      /\ 3 \in Nat
  OBVIOUS
<1>2. Min({n + 1, 2}) \in {n + 1, 2} /\ Min({n + 1, 2}) <= 2
  BY <1>1, MinOfIds
<1> QED  BY <1>2

\* An insertion lists what it should, and what was listed stays so.
LEMMA RowsAdded ==
    ASSUME RowsTyped, NEW ts, NEW s
    PROVE  /\ AddRows(ts, s) \in [TileIDs \X SetIDs -> 0..2]
           /\ \A t \in TileIDs, u \in SetIDs :
                 /\ t \in ts /\ u = s => AddRows(ts, s)[<<t, u>>] > 0
                 /\ rows[<<t, u>>] > 0 => AddRows(ts, s)[<<t, u>>] > 0
<1>1. /\ DOMAIN rows = TileIDs \X SetIDs
      /\ \A p \in TileIDs \X SetIDs : rows[p] \in 0..2 /\ Min({rows[p] + 1, 2}) \in 1..2
  BY CountsUp DEF RowsTyped
<1>2. \A p \in TileIDs \X SetIDs :
         AddRows(ts, s)[p] = IF p[1] \in ts /\ p[2] = s THEN Min({rows[p] + 1, 2}) ELSE rows[p]
  BY <1>1 DEF AddRows
<1>3. AddRows(ts, s) \in [TileIDs \X SetIDs -> 0..2]
  <2>1. \A p \in DOMAIN rows :
           (IF p[1] \in ts /\ p[2] = s THEN Min({rows[p] + 1, 2}) ELSE rows[p]) \in 0..2
    BY <1>1
  <2> QED  BY <1>1, <2>1 DEF AddRows
<1>4. ASSUME NEW t \in TileIDs, NEW u \in SetIDs
      PROVE  /\ t \in ts /\ u = s => AddRows(ts, s)[<<t, u>>] > 0
             /\ rows[<<t, u>>] > 0 => AddRows(ts, s)[<<t, u>>] > 0
  <2>1. <<t, u>> \in TileIDs \X SetIDs /\ <<t, u>>[1] = t /\ <<t, u>>[2] = u
    OBVIOUS
  <2> DEFINE p == <<t, u>>
  <2>2. p \in TileIDs \X SetIDs /\ p[1] = t /\ p[2] = u
    BY <2>1
  <2> HIDE DEF p
  <2>3. /\ AddRows(ts, s)[p] = IF t \in ts /\ u = s THEN Min({rows[p] + 1, 2}) ELSE rows[p]
        /\ rows[p] \in 0..2 /\ Min({rows[p] + 1, 2}) \in 1..2
    BY <1>1, <1>2, <2>2
  <2>4. /\ t \in ts /\ u = s => AddRows(ts, s)[p] > 0
        /\ rows[p] > 0 => AddRows(ts, s)[p] > 0
    BY <2>3
  <2> QED  BY <2>4 DEF p
<1> QED  BY <1>3, <1>4

\* A deletion takes the rows of the set, and no others.
LEMMA RowsRemoved ==
    ASSUME RowsTyped, NEW s
    PROVE  /\ NoRowsOf(s) \in [TileIDs \X SetIDs -> 0..2]
           /\ \A t \in TileIDs, u \in SetIDs \ {s} : NoRowsOf(s)[<<t, u>>] = rows[<<t, u>>]
<1>1. DOMAIN rows = TileIDs \X SetIDs /\ \A p \in TileIDs \X SetIDs : rows[p] \in 0..2
  BY DEF RowsTyped
<1>2. NoRowsOf(s) \in [TileIDs \X SetIDs -> 0..2]
  BY <1>1 DEF NoRowsOf
<1>3. ASSUME NEW t \in TileIDs, NEW u \in SetIDs \ {s}
      PROVE  NoRowsOf(s)[<<t, u>>] = rows[<<t, u>>]
  <2>1. <<t, u>> \in TileIDs \X SetIDs /\ <<t, u>>[2] = u
    OBVIOUS
  <2> QED  BY <1>1, <2>1 DEF NoRowsOf
<1> QED  BY <1>2, <1>3

-----------------------------------------------------------------------------
(* The inductive invariant, and what the helpers keep of it *)

TilesTyped == DOMAIN tiles \subseteq TileIDs /\ Range(tiles) \subseteq Hash /\ IsInjective(tiles)
SetsTyped ==
    /\ DOMAIN sets \subseteq SetIDs
    /\ \A s \in DOMAIN sets : sets[s] \in [isDefault : BOOLEAN, area : SUBSET Hash]
Download == [set : SetIDs, state : State]
DownloadsTyped ==
    DOMAIN downloads \subseteq Hash /\ \A h \in DOMAIN downloads : downloads[h] \in Download
OthersTyped ==
    /\ cached \in 0..limit.sets
    /\ flights \subseteq [hash : Hash, set : SetIDs]
    /\ excused \subseteq Hash \X UserSets
    /\ torn \in BOOLEAN /\ limit \in Limits

\* Inv alone is not inductive: the default set a tile is saved in must exist
IInv ==
    /\ TilesTyped /\ SetsTyped /\ RowsTyped /\ DownloadsTyped /\ OthersTyped
    /\ DownloadsOwned
    /\ Defaults # {}

\* The parts are the type invariant.
LEMMA IInvSuffices == IInv => Inv
  BY DEF IInv, Inv, TypeOK, TilesTyped, SetsTyped, RowsTyped, DownloadsTyped, OthersTyped,
         Download, Range

\* What is left of a table.
LEMMA WithoutRows ==
    ASSUME NEW f, NEW ids
    PROVE  /\ DOMAIN Without(f, ids) = DOMAIN f \ ids
           /\ \A i \in DOMAIN f \ ids : Without(f, ids)[i] = f[i]
  BY DEF Without, Restrict

\* A table of nothing.
LEMMA EmptyTable == DOMAIN Empty = {}
  BY EmptySeq DEF Empty

\* The set a tile is saved in when it is displayed is an id, and it is the id of a
\* default set unless the cached one has become wrong.
LEMMA DefaultSetExists ==
    ASSUME IInv
    PROVE  DefaultSet \in SetIDs /\ (CachedIsDefault => DefaultSet \in Defaults)
<1>1. /\ limit.sets \in Nat /\ Defaults # {} /\ Defaults \subseteq 1..limit.sets
      /\ cached \in 0..limit.sets
  BY LimitsTyped DEF IInv, SetsTyped, OthersTyped, Defaults, SetIDs
<1>2. Min(Defaults) \in Defaults
  BY <1>1, MinOfIds
<1>3. CASE cached = 0
  BY <1>1, <1>2, <1>3 DEF DefaultSet, SetIDs
<1>4. CASE cached # 0
  BY <1>1, <1>4 DEF DefaultSet, CachedIsDefault, SetIDs
<1> QED  BY <1>3, <1>4

\* A new user-made set leaves the others and the default sets as they are.
LEMMA SetAdded ==
    ASSUME SetsTyped, UNCHANGED limit, NEW s \in SetIDs, s \notin DOMAIN sets,
           NEW area \in SUBSET Hash, sets' = With(sets, s, UserSetRow(area))
    PROVE  /\ SetsTyped'
           /\ UserSets' = UserSets \cup {s} /\ Defaults' = Defaults
           /\ sets'[s].area = area /\ \A u \in UserSets : sets'[u] = sets[u]
<1>1. /\ DOMAIN sets' = DOMAIN sets \cup {s}
      /\ sets'[s] = UserSetRow(area) /\ \A u \in DOMAIN sets : sets'[u] = sets[u]
      /\ UserSetRow(area) \in [isDefault : BOOLEAN, area : SUBSET Hash]
      /\ ~UserSetRow(area).isDefault /\ UserSetRow(area).area = area
  BY DEF With, UserSetRow
<1>2. SetsTyped'
  BY <1>1 DEF SetsTyped, SetIDs
<1>3. UserSets' = UserSets \cup {s}
  BY <1>1 DEF UserSets
<1>4. Defaults' = Defaults
  BY <1>1, <1>3 DEF Defaults
<1> QED  BY <1>1, <1>2, <1>3, <1>4 DEF UserSets

\* So does a deleted one.
LEMMA SetDeleted ==
    ASSUME SetsTyped, UNCHANGED limit, NEW s \in UserSets, sets' = Without(sets, {s})
    PROVE  /\ SetsTyped'
           /\ UserSets' = UserSets \ {s} /\ Defaults' = Defaults
           /\ \A u \in UserSets \ {s} : sets'[u] = sets[u]
<1>1. DOMAIN sets' = DOMAIN sets \ {s} /\ \A u \in DOMAIN sets \ {s} : sets'[u] = sets[u]
  BY WithoutRows
<1>2. SetsTyped'
  BY <1>1 DEF SetsTyped, SetIDs
<1>3. UserSets' = UserSets \ {s}
  BY <1>1 DEF UserSets
<1>4. Defaults' = Defaults
  BY <1>1, <1>3 DEF Defaults, UserSets
<1> QED  BY <1>1, <1>2, <1>3, <1>4 DEF UserSets

\* A change of state leaves a download with its set.
LEMMA StateChanged ==
    ASSUME DownloadsTyped, UNCHANGED limit, NEW hs, NEW st \in State,
           downloads' = InState(hs, st)
    PROVE  /\ DownloadsTyped' /\ DOMAIN downloads' = DOMAIN downloads
           /\ \A h \in DOMAIN downloads : downloads'[h].set = downloads[h].set
<1>1. /\ DOMAIN downloads' = DOMAIN downloads
      /\ \A h \in DOMAIN downloads :
            downloads'[h] = IF h \in hs THEN [downloads[h] EXCEPT !.state = st]
                            ELSE downloads[h]
  BY DEF InState
<1>2. \A h \in DOMAIN downloads :
         downloads'[h] \in Download /\ downloads'[h].set = downloads[h].set
  BY <1>1 DEF DownloadsTyped, Download
<1> QED  BY <1>1, <1>2 DEF DownloadsTyped, Download, SetIDs

\* Downloads that leave the table are typed still.
LEMMA DownloadsRemoved ==
    ASSUME DownloadsTyped, UNCHANGED limit, NEW hs, downloads' = Without(downloads, hs)
    PROVE  DownloadsTyped'
<1>1. /\ DOMAIN downloads' = DOMAIN downloads \ hs
      /\ \A h \in DOMAIN downloads \ hs : downloads'[h] = downloads[h]
  BY WithoutRows
<1> QED  BY <1>1 DEF DownloadsTyped, Download, SetIDs

\* Tiles that leave the table leave it injective.
LEMMA TilesRemoved ==
    ASSUME TilesTyped, UNCHANGED limit, NEW ts, tiles' = Without(tiles, ts)
    PROVE  TilesTyped'
<1>1. /\ DOMAIN tiles' = DOMAIN tiles \ ts
      /\ \A t \in DOMAIN tiles \ ts : tiles'[t] = tiles[t]
  BY WithoutRows
<1> QED  BY <1>1 DEF TilesTyped, TileIDs, Range, IsInjective

\* Saving a tile takes no tile and no row away, and if it is not cut short the set
\* has the tile, or the save was ignored.
Grown ==
    /\ \A t \in DOMAIN tiles : t \in DOMAIN tiles' /\ tiles'[t] = tiles[t]
    /\ \A t \in TileIDs, u \in SetIDs : Listed(t, u) => Listed(t, u)'
LEMMA TileSaved ==
    ASSUME IInv, UNCHANGED <<limit, sets>>, NEW h \in Hash, NEW s \in SetIDs,
           NEW whole \in BOOLEAN, SaveTile(h, s, whole)
    PROVE  /\ TilesTyped' /\ RowsTyped'
           /\ excused' \subseteq Hash \X UserSets /\ excused \subseteq excused'
           /\ Grown
           /\ whole /\ s \in UserSets => HasTile(h, s)' \/ <<h, s>> \in excused'
<1> USE DEF IInv
<1>1. CASE TileOf(h) # {}
  <2>1. UNCHANGED <<tiles, rows>> /\ excused' = excused \cup Ignored(h, s)
    BY <1>1 DEF SaveTile
  <2>2. excused' \subseteq Hash \X UserSets
    BY <2>1 DEF OthersTyped, Ignored
  <2>3. whole /\ s \in UserSets => HasTile(h, s)' \/ <<h, s>> \in excused'
    BY <2>1 DEF Ignored, HasTile, TileOf, Listed
  <2>4. TilesTyped' /\ RowsTyped'
    BY <2>1 DEF TilesTyped, RowsTyped, TileIDs, SetIDs
  <2> QED  BY <2>1, <2>2, <2>3, <2>4 DEF Grown, Listed
<1>2. CASE TileOf(h) = {}
  <2>0. PICK t : t = NewID(tiles)
    OBVIOUS
  <2>1. /\ t <= limit.tiles /\ tiles' = With(tiles, t, h)
        /\ rows' = (IF whole THEN AddRows({t}, s) ELSE rows) /\ excused' = excused
    BY <1>2, <2>0 DEF SaveTile
  <2>2. t \in TileIDs /\ t \notin DOMAIN tiles
    <3>1. limit.tiles \in Nat /\ DOMAIN tiles \subseteq 1..limit.tiles
      BY LimitsTyped DEF TilesTyped, OthersTyped, TileIDs
    <3>2. t \in Nat \ {0} /\ t \notin DOMAIN tiles
      BY <2>0, <3>1, NewIDIsNew
    <3> QED  BY <2>1, <3>1, <3>2 DEF TileIDs
  <2>3. /\ DOMAIN tiles' = DOMAIN tiles \cup {t} /\ tiles'[t] = h
        /\ \A u \in DOMAIN tiles : tiles'[u] = tiles[u]
    BY <2>1, <2>2 DEF With
  <2>4. TilesTyped'
    BY <1>2, <2>2, <2>3 DEF TilesTyped, TileIDs, TileOf, Range, IsInjective
  <2>5. /\ rows' \in [TileIDs \X SetIDs -> 0..2]
        /\ whole => Listed(t, s)'
        /\ \A v \in TileIDs, u \in SetIDs : Listed(v, u) => Listed(v, u)'
    <3>1. /\ AddRows({t}, s) \in [TileIDs \X SetIDs -> 0..2]
          /\ \A v \in TileIDs, u \in SetIDs :
                /\ v \in {t} /\ u = s => AddRows({t}, s)[<<v, u>>] > 0
                /\ rows[<<v, u>>] > 0 => AddRows({t}, s)[<<v, u>>] > 0
      BY RowsAdded
    <3>2. CASE whole
      <4>1. rows' = AddRows({t}, s)
        BY <2>1, <3>2
      <4>2. /\ rows' \in [TileIDs \X SetIDs -> 0..2]
            /\ \A v \in TileIDs, u \in SetIDs : rows[<<v, u>>] > 0 => rows'[<<v, u>>] > 0
        BY <3>1, <4>1
      <4>3. rows'[<<t, s>>] > 0
        BY <2>2, <3>1, <4>1
      <4> QED  BY <4>2, <4>3 DEF Listed
    <3>3. CASE ~whole
      BY <2>1, <3>3 DEF RowsTyped, Listed
    <3> QED  BY <3>2, <3>3
  <2>6. whole => HasTile(h, s)'
    BY <2>3, <2>5 DEF HasTile, TileOf
  <2>7. RowsTyped'
    BY <2>5 DEF RowsTyped, TileIDs, SetIDs
  <2>8. Grown
    BY <2>3, <2>5 DEF Grown
  <2> QED  BY <2>1, <2>4, <2>6, <2>7, <2>8 DEF OthersTyped
<1> QED  BY <1>1, <1>2

-----------------------------------------------------------------------------
(* Every action keeps the inductive invariant and every tile a set asked for *)

\* A set has, will get or was refused the tile.
Cared(h, s) ==
    \/ HasTile(h, s)
    \/ h \in DOMAIN downloads /\ downloads[h].set = s
    \/ <<h, s>> \in excused

\* A tile that neither leaves Tiles nor its rows stays with its sets.
LEMMA GrownKeeps ==
    ASSUME TilesTyped, Grown, NEW h, NEW s \in SetIDs, HasTile(h, s)
    PROVE  HasTile(h, s)'
  BY DEF HasTile, TileOf, Grown, TilesTyped

\* SetsComplete for one tile of one set.
LEMMA SetsCared ==
    ASSUME SetsComplete, NEW s \in UserSets, NEW h \in sets[s].area
    PROVE  Cared(h, s)
  BY DEF SetsComplete, Cared

\* Nothing is asked for in a new database.
LEMMA InitIsSafe == Init => IInv /\ SetsComplete
<1> SUFFICES ASSUME Init PROVE IInv /\ SetsComplete
  OBVIOUS
<1>0. /\ limit \in Limits /\ sets = DefaultOnly /\ rows = NoRows
      /\ DOMAIN tiles = {} /\ DOMAIN downloads = {}
      /\ cached = 0 /\ flights = {} /\ excused = {} /\ torn = FALSE
  BY EmptyTable DEF Init
<1>1. 1 \in SetIDs /\ limit \in Limits /\ limit.sets \in Nat
  BY <1>0, LimitsTyped
<1>2. /\ DOMAIN sets = {1} /\ sets[1] = [isDefault |-> TRUE, area |-> {}]
      /\ UserSets = {} /\ Defaults = {1}
  BY <1>0 DEF DefaultOnly, DefaultSetRow, UserSets, Defaults
<1>3. TilesTyped /\ DownloadsTyped /\ DownloadsOwned
  <2>1. TilesTyped
    BY <1>0 DEF TilesTyped, Range, IsInjective
  <2>2. DownloadsTyped
    BY <1>0 DEF DownloadsTyped
  <2>3. DownloadsOwned
    BY <1>0 DEF DownloadsOwned
  <2> QED  BY <2>1, <2>2, <2>3
<1>4. SetsTyped
  <2>1. [isDefault |-> TRUE, area |-> {}] \in [isDefault : BOOLEAN, area : SUBSET Hash]
    OBVIOUS
  <2> QED  BY <1>1, <1>2, <2>1 DEF SetsTyped
<1>5. RowsTyped
  <2>1. 0 \in 0..2
    OBVIOUS
  <2> QED  BY <1>0, <2>1, Zenon DEF RowsTyped, NoRows
<1>6. OthersTyped
  <2>1. cached \in 0..limit.sets
    BY <1>0, <1>1
  <2>2. flights \subseteq [hash : Hash, set : SetIDs] /\ excused \subseteq Hash \X UserSets
    BY <1>0
  <2> QED  BY <1>0, <2>1, <2>2 DEF OthersTyped
<1> QED  BY <1>2, <1>3, <1>4, <1>5, <1>6 DEF IInv, SetsComplete

\* A displayed tile goes to an existing set.
LEMMA BrowseKeeps ==
    ASSUME IInv, UNCHANGED limit, NEW h \in limit.hashes, Browse(h)
    PROVE  IInv' /\ (SetsComplete => SetsComplete')
<1>1. PICK whole \in BOOLEAN :
        /\ SaveTile(h, DefaultSet, whole)
        /\ IF whole
           THEN /\ cached' = IF TileOf(h) = {} THEN DefaultSet ELSE cached
                /\ UNCHANGED flights
           ELSE Restart
  BY DEF Browse
<1>2. UNCHANGED <<sets, downloads, torn>>
  BY DEF Browse
<1>3. DefaultSet \in SetIDs /\ h \in Hash /\ limit.sets \in Nat
  BY DefaultSetExists, LimitsTyped DEF IInv, OthersTyped
<1>4. /\ TilesTyped' /\ RowsTyped' /\ Grown
      /\ excused' \subseteq Hash \X UserSets /\ excused \subseteq excused'
  BY <1>1, <1>2, <1>3, TileSaved
<1>5. cached' \in 0..limit.sets /\ flights' \subseteq [hash : Hash, set : SetIDs]
  <2>1. CASE whole
    BY <1>1, <1>3, <2>1 DEF IInv, OthersTyped, SetIDs
  <2>2. CASE ~whole
    BY <1>1, <1>3, <2>2 DEF Restart
  <2> QED  BY <2>1, <2>2
<1>6. IInv'
  BY <1>2, <1>4, <1>5
     DEF IInv, SetsTyped, DownloadsTyped, Download, DownloadsOwned, OthersTyped, SetIDs,
         UserSets, Defaults
<1>7. ASSUME SetsComplete PROVE SetsComplete'
  <2> SUFFICES ASSUME NEW s \in UserSets, NEW g \in sets[s].area PROVE Cared(g, s)'
    BY <1>2 DEF SetsComplete, Cared, UserSets
  <2>1. Cared(g, s) /\ s \in SetIDs /\ TilesTyped
    BY <1>7, SetsCared DEF IInv, SetsTyped, UserSets
  <2> QED  BY <1>2, <1>4, <2>1, GrownKeeps DEF Cared
<1> QED  BY <1>6, <1>7

\* The id of the default set is an id.
LEMMA UpdateTotalsKeeps ==
    ASSUME IInv, UNCHANGED limit, UpdateTotals
    PROVE  IInv' /\ (SetsComplete => SetsComplete')
<1>1. DefaultSet \in SetIDs /\ limit.sets \in Nat
  BY DefaultSetExists, LimitsTyped DEF IInv, OthersTyped
<1>2. cached' \in 0..limit.sets
  BY <1>1 DEF UpdateTotals, SetIDs
<1>3. IInv'
  BY <1>2 DEF UpdateTotals, IInv, TilesTyped, SetsTyped, RowsTyped, DownloadsTyped, Download,
              DownloadsOwned, OthersTyped, TileIDs, SetIDs, UserSets, Defaults
<1>4. SetsComplete => SetsComplete'
  BY DEF UpdateTotals, SetsComplete, UserSets, HasTile, TileOf, Listed
<1> QED  BY <1>3, <1>4

\* A new set has each tile of its area, or downloads it, or another set does.
LEMMA CreateTileSetKeeps ==
    ASSUME IInv, UNCHANGED limit, NEW area \in SUBSET limit.hashes, NEW whole \in BOOLEAN,
           CreateTileSet(area, whole)
    PROVE  IInv' /\ (SetsComplete => SetsComplete')
<1>1. PICK s, have, miss :
        /\ s = NewID(sets) /\ s <= limit.sets
        /\ have = {t \in DOMAIN tiles : whole /\ tiles[t] \in area}
        /\ miss = {h \in area : whole /\ TileOf(h) = {}}
        /\ sets' = With(sets, s, UserSetRow(area))
        /\ rows' = AddRows(have, s)
        /\ downloads' = [h \in DOMAIN downloads \cup miss |->
                            IF h \in DOMAIN downloads THEN downloads[h]
                            ELSE [set |-> s, state |-> "pending"]]
        /\ excused' = excused \cup
              ((IF whole THEN miss \cap DOMAIN downloads ELSE area) \X {s})
        /\ IF whole THEN UNCHANGED <<cached, flights>> ELSE Restart
  BY DEF CreateTileSet
<1>2. UNCHANGED <<tiles, torn>>
  BY DEF CreateTileSet
<1>3. s \in SetIDs /\ s \notin DOMAIN sets /\ area \in SUBSET Hash /\ limit.sets \in Nat
  <2>1. limit.sets \in Nat /\ DOMAIN sets \subseteq 1..limit.sets /\ area \in SUBSET Hash
    BY LimitsTyped DEF IInv, SetsTyped, OthersTyped, SetIDs
  <2>2. s \in Nat \ {0} /\ s \notin DOMAIN sets
    BY <1>1, <2>1, NewIDIsNew
  <2> QED  BY <1>1, <2>1, <2>2 DEF SetIDs
<1>4. /\ SetsTyped' /\ UserSets' = UserSets \cup {s} /\ Defaults' = Defaults
      /\ sets'[s].area = area /\ \A u \in UserSets : sets'[u] = sets[u]
  BY <1>1, <1>3, SetAdded DEF IInv
<1>5. /\ rows' \in [TileIDs \X SetIDs -> 0..2]
      /\ \A t \in TileIDs, u \in SetIDs :
            /\ t \in have /\ u = s => Listed(t, u)'
            /\ Listed(t, u) => Listed(t, u)'
  BY <1>1, RowsAdded DEF IInv, Listed
<1>6. /\ DOMAIN downloads' = DOMAIN downloads \cup miss
      /\ \A h \in DOMAIN downloads : downloads'[h] = downloads[h]
      /\ \A h \in miss \ DOMAIN downloads : downloads'[h] = [set |-> s, state |-> "pending"]
  BY <1>1
<1>7. DownloadsTyped' /\ DownloadsOwned'
  <2>1. miss \subseteq Hash /\ [set |-> s, state |-> "pending"] \in Download
    BY <1>1, <1>3 DEF Download, State
  <2>2. \A h \in DOMAIN downloads' : downloads'[h] \in Download
    BY <1>6, <2>1 DEF IInv, DownloadsTyped
  <2>3. DownloadsTyped'
    BY <1>6, <2>1, <2>2 DEF IInv, DownloadsTyped, Download, SetIDs
  <2>4. DownloadsOwned'
    BY <1>2, <1>4, <1>6 DEF IInv, DownloadsOwned
  <2> QED  BY <2>3, <2>4
<1>8. OthersTyped'
  <2>1. excused' \subseteq Hash \X UserSets'
    BY <1>1, <1>3, <1>4 DEF IInv, OthersTyped, DownloadsTyped
  <2>2. cached' \in 0..limit.sets /\ flights' \subseteq [hash : Hash, set : SetIDs]
    BY <1>1, <1>3 DEF IInv, OthersTyped, Restart
  <2> QED  BY <1>2, <2>1, <2>2 DEF IInv, OthersTyped, SetIDs
<1>9. IInv'
  BY <1>2, <1>4, <1>5, <1>7, <1>8 DEF IInv, TilesTyped, RowsTyped, TileIDs, SetIDs
<1>10. ASSUME SetsComplete PROVE SetsComplete'
  <2>1. ASSUME NEW u \in UserSets, NEW h \in sets[u].area PROVE Cared(h, u)'
    <3>1. Cared(h, u) /\ u \in SetIDs /\ TilesTyped
      BY <1>10, SetsCared DEF IInv, SetsTyped, UserSets
    <3>2. Grown
      BY <1>2, <1>5 DEF Grown
    <3> QED  BY <1>1, <1>6, <3>1, <3>2, GrownKeeps DEF Cared
  <2>2. ASSUME NEW h \in area PROVE Cared(h, s)'
    <3>1. CASE ~whole
      BY <1>1, <3>1 DEF Cared
    <3>2. CASE whole /\ TileOf(h) # {}
      <4>1. PICK t \in DOMAIN tiles : tiles[t] = h
        BY <3>2 DEF TileOf
      <4>2. t \in have /\ t \in TileIDs
        BY <1>1, <3>2, <4>1 DEF IInv, TilesTyped
      <4> QED  BY <1>2, <1>3, <1>5, <4>1, <4>2 DEF Cared, HasTile, TileOf
    <3>3. CASE whole /\ TileOf(h) = {}
      <4>1. h \in miss
        BY <1>1, <3>3
      <4>2. CASE h \in DOMAIN downloads
        BY <1>1, <3>3, <4>1, <4>2 DEF Cared
      <4>3. CASE h \notin DOMAIN downloads
        BY <1>6, <4>1, <4>3 DEF Cared
      <4> QED  BY <4>2, <4>3
    <3> QED  BY <3>1, <3>2, <3>3
  <2> QED  BY <1>4, <2>1, <2>2 DEF SetsComplete, Cared
<1> QED  BY <1>9, <1>10

\* The tiles given to the application are still downloads of their set.
LEMMA GetTileDownloadListKeeps ==
    ASSUME IInv, UNCHANGED limit, NEW s \in UserSets, GetTileDownloadList(s)
    PROVE  IInv' /\ (SetsComplete => SetsComplete')
<1>1. PICK hs \in SUBSET Pending(s) : \E marked \in SUBSET hs :
        /\ downloads' = InState(marked, "downloading")
        /\ IF marked = hs
           THEN /\ flights' = flights \cup {[hash |-> h, set |-> s] : h \in hs}
                /\ UNCHANGED cached
           ELSE Restart
  BY Zenon DEF GetTileDownloadList
<1>m. PICK marked \in SUBSET hs :
        /\ downloads' = InState(marked, "downloading")
        /\ IF marked = hs
           THEN /\ flights' = flights \cup {[hash |-> h, set |-> s] : h \in hs}
                /\ UNCHANGED cached
           ELSE Restart
  BY <1>1
<1>2. UNCHANGED <<tiles, sets, rows, excused, torn>>
  BY DEF GetTileDownloadList
<1>3. /\ DownloadsTyped' /\ DOMAIN downloads' = DOMAIN downloads
      /\ \A h \in DOMAIN downloads : downloads'[h].set = downloads[h].set
  BY <1>m, StateChanged DEF IInv, State
<1>4. flights' \subseteq [hash : Hash, set : SetIDs] /\ cached' \in 0..limit.sets
  <2>1. hs \subseteq Hash /\ s \in SetIDs
    BY DEF IInv, DownloadsTyped, Pending, SetsTyped, UserSets
  <2>2. CASE marked = hs
    BY <1>m, <2>1, <2>2 DEF IInv, OthersTyped
  <2>3. CASE marked # hs
    BY <1>m, <2>3, LimitsTyped DEF Restart, IInv, OthersTyped
  <2> QED  BY <2>2, <2>3
<1>5. IInv'
  BY <1>2, <1>3, <1>4 DEF IInv, TilesTyped, SetsTyped, RowsTyped, DownloadsOwned, OthersTyped,
                          TileIDs, SetIDs, UserSets, Defaults
<1>6. SetsComplete => SetsComplete'
  BY <1>2, <1>3 DEF SetsComplete, UserSets, HasTile, TileOf, Listed
<1> QED  BY <1>5, <1>6

\* A download leaves the table only after its tile was saved for the set, or the save
\* was ignored or left out: that order is what keeps a set complete when the process
\* ends between.
LEMMA RecordDownloadKeeps ==
    ASSUME IInv, UNCHANGED limit, NEW f \in flights, RecordDownload(f)
    PROVE  IInv' /\ (SetsComplete => SetsComplete')
<1>a. PICK persistent \in BOOLEAN, whole \in BOOLEAN :
        \E n \in 1..Len(Enqueued(persistent)) :
          LET done == {Enqueued(persistent)[i] : i \in 1..n} IN
          /\ whole \/ "tile" \in done
          /\ IF "tile" \in done THEN SaveTile(f.hash, f.set, whole)
             ELSE /\ excused' = IF persistent THEN excused
                                ELSE excused \cup Ignored(f.hash, f.set)
                  /\ UNCHANGED <<tiles, rows>>
          /\ IF whole /\ "state" \in done
             THEN downloads' = Without(downloads, RowOf(f))
             ELSE UNCHANGED downloads
          /\ IF whole /\ n = Len(Enqueued(persistent))
             THEN flights' = flights \ {f} /\ UNCHANGED cached
             ELSE Restart
  BY ZenonT(60) DEF RecordDownload
<1>b. PICK n \in 1..Len(Enqueued(persistent)) :
        LET done == {Enqueued(persistent)[i] : i \in 1..n} IN
        /\ whole \/ "tile" \in done
        /\ IF "tile" \in done THEN SaveTile(f.hash, f.set, whole)
           ELSE /\ excused' = IF persistent THEN excused
                              ELSE excused \cup Ignored(f.hash, f.set)
                /\ UNCHANGED <<tiles, rows>>
        /\ IF whole /\ "state" \in done
           THEN downloads' = Without(downloads, RowOf(f))
           ELSE UNCHANGED downloads
        /\ IF whole /\ n = Len(Enqueued(persistent))
           THEN flights' = flights \ {f} /\ UNCHANGED cached
           ELSE Restart
  BY <1>a
<1> DEFINE done == {Enqueued(persistent)[i] : i \in 1..n}
           last == n = Len(Enqueued(persistent))
\* The save comes first, if there is one.
<1>1. /\ "tile" \in done <=> persistent
      /\ IF persistent THEN SaveTile(f.hash, f.set, whole)
         ELSE /\ excused' = excused \cup Ignored(f.hash, f.set)
              /\ UNCHANGED <<tiles, rows>>
              /\ whole
      /\ IF whole /\ "state" \in done
         THEN downloads' = Without(downloads, RowOf(f))
         ELSE UNCHANGED downloads
      /\ IF whole /\ last
         THEN flights' = flights \ {f} /\ UNCHANGED cached
         ELSE Restart
  <2>1. CASE persistent
    <3>1. Enqueued(persistent)[1] = "tile" /\ 1 \in 1..n
      BY <2>1 DEF Enqueued, TileThenState
    <3>2. "tile" \in done
      BY <3>1
    <3> QED  BY <1>b, <2>1, <3>2
  <2>2. CASE ~persistent
    <3>1. Enqueued(persistent) = <<"state">>
      BY <2>2 DEF Enqueued
    <3>2. \A i \in 1..n : Enqueued(persistent)[i] # "tile"
      BY <3>1
    <3>3. "tile" \notin done
      BY <3>2
    <3> QED  BY <1>b, <2>2, <3>3
  <2> QED  BY <2>1, <2>2
<1>2. UNCHANGED <<sets, torn>>
  BY DEF RecordDownload
<1>3. f.hash \in Hash /\ f.set \in SetIDs /\ limit.sets \in Nat
  BY LimitsTyped DEF IInv, OthersTyped
<1>4. /\ TilesTyped' /\ RowsTyped' /\ Grown
      /\ excused' \subseteq Hash \X UserSets /\ excused \subseteq excused'
      /\ whole /\ f.set \in UserSets => HasTile(f.hash, f.set)' \/ <<f.hash, f.set>> \in excused'
  <2>1. CASE persistent
    BY <1>1, <1>2, <1>3, <2>1, TileSaved
  <2>2. CASE ~persistent
    <3>1. UNCHANGED <<tiles, rows>> /\ excused' = excused \cup Ignored(f.hash, f.set)
      BY <1>1, <2>2
    <3>2. excused' \subseteq Hash \X UserSets
      BY <1>3, <3>1 DEF IInv, OthersTyped, Ignored
    <3>3. f.set \in UserSets => HasTile(f.hash, f.set)' \/ <<f.hash, f.set>> \in excused'
      BY <3>1 DEF Ignored, HasTile, TileOf, Listed
    <3>4. TilesTyped' /\ RowsTyped'
      BY <3>1 DEF IInv, TilesTyped, RowsTyped, TileIDs, SetIDs
    <3> QED  BY <3>1, <3>2, <3>3, <3>4 DEF Grown, Listed
  <2> QED  BY <2>1, <2>2
<1> HIDE DEF done, last
<1>5. /\ DownloadsTyped'
      /\ DOMAIN downloads' \subseteq DOMAIN downloads
      /\ \A h \in DOMAIN downloads' : downloads'[h] = downloads[h]
      /\ \A h \in DOMAIN downloads \ DOMAIN downloads' :
            whole /\ h = f.hash /\ downloads[h].set = f.set
  <2>1. CASE whole /\ "state" \in done
    <3>1. downloads' = Without(downloads, RowOf(f))
      BY <1>1, <2>1
    <3>2. DownloadsTyped'
      BY <3>1, DownloadsRemoved DEF IInv
    <3>3. /\ DOMAIN downloads' = DOMAIN downloads \ RowOf(f)
          /\ \A h \in DOMAIN downloads \ RowOf(f) : downloads'[h] = downloads[h]
      BY <3>1, WithoutRows
    <3> QED  BY <2>1, <3>2, <3>3 DEF RowOf
  <2>2. CASE ~(whole /\ "state" \in done)
    BY <1>1, <2>2 DEF IInv, DownloadsTyped, Download, SetIDs
  <2> QED  BY <2>1, <2>2
<1>6. cached' \in 0..limit.sets /\ flights' \subseteq [hash : Hash, set : SetIDs]
  <2>1. CASE whole /\ last
    BY <1>1, <2>1 DEF IInv, OthersTyped
  <2>2. CASE ~(whole /\ last)
    BY <1>1, <1>3, <2>2 DEF Restart
  <2> QED  BY <2>1, <2>2
<1>7. IInv'
  BY <1>2, <1>4, <1>5, <1>6
     DEF IInv, SetsTyped, DownloadsOwned, OthersTyped, SetIDs, UserSets, Defaults
<1>8. ASSUME SetsComplete PROVE SetsComplete'
  <2> SUFFICES ASSUME NEW s \in UserSets, NEW h \in sets[s].area PROVE Cared(h, s)'
    BY <1>2 DEF SetsComplete, Cared, UserSets
  <2>1. Cared(h, s) /\ s \in SetIDs /\ TilesTyped
    BY <1>8, SetsCared DEF IInv, SetsTyped, UserSets
  <2>2. CASE HasTile(h, s) \/ <<h, s>> \in excused
    BY <1>4, <2>1, <2>2, GrownKeeps DEF Cared
  <2>3. CASE h \in DOMAIN downloads /\ downloads[h].set = s
    <3>1. CASE h \in DOMAIN downloads'
      BY <1>5, <2>3, <3>1 DEF Cared
    <3>2. CASE h \notin DOMAIN downloads'
      <4>1. whole /\ h = f.hash /\ s = f.set
        BY <1>5, <2>3, <3>2
      <4> QED  BY <1>4, <4>1 DEF Cared
    <3> QED  BY <3>1, <3>2
  <2> QED  BY <2>1, <2>2, <2>3 DEF Cared
<1> QED  BY <1>7, <1>8

\* A download that failed is a download still.
LEMMA FailDownloadKeeps ==
    ASSUME IInv, UNCHANGED limit, NEW f \in flights, FailDownload(f)
    PROVE  IInv' /\ (SetsComplete => SetsComplete')
<1>1. /\ DownloadsTyped' /\ DOMAIN downloads' = DOMAIN downloads
      /\ \A h \in DOMAIN downloads : downloads'[h].set = downloads[h].set
  BY StateChanged DEF IInv, State, FailDownload
<1>2. UNCHANGED <<tiles, sets, rows, cached, excused, torn>> /\ flights' \subseteq flights
  BY DEF FailDownload
<1>3. IInv'
  BY <1>1, <1>2 DEF IInv, TilesTyped, SetsTyped, RowsTyped, DownloadsOwned, OthersTyped,
                    TileIDs, SetIDs, UserSets, Defaults
<1>4. SetsComplete => SetsComplete'
  BY <1>1, <1>2 DEF SetsComplete, UserSets, HasTile, TileOf, Listed
<1> QED  BY <1>3, <1>4

\* So is one that is tried again.
LEMMA ResumeDownloadKeeps ==
    ASSUME IInv, UNCHANGED limit, NEW s \in UserSets, ResumeDownload(s)
    PROVE  IInv' /\ (SetsComplete => SetsComplete')
<1>1. /\ DownloadsTyped' /\ DOMAIN downloads' = DOMAIN downloads
      /\ \A h \in DOMAIN downloads : downloads'[h].set = downloads[h].set
  BY StateChanged DEF IInv, State, ResumeDownload
<1>2. UNCHANGED <<tiles, sets, rows, cached, flights, excused, torn>>
  BY DEF ResumeDownload
<1>3. IInv'
  BY <1>1, <1>2 DEF IInv, TilesTyped, SetsTyped, RowsTyped, DownloadsOwned, OthersTyped,
                    TileIDs, SetIDs, UserSets, Defaults
<1>4. SetsComplete => SetsComplete'
  BY <1>1, <1>2 DEF SetsComplete, UserSets, HasTile, TileOf, Listed
<1> QED  BY <1>3, <1>4

\* A tile that is unique to one set is listed for no other.
LEMMA UniqueIsUnlisted ==
    ASSUME NEW u \in SetIDs, NEW s, s # u, NEW t, Listed(t, u)
    PROVE  t \notin UniqueTo(s)
  BY DEF UniqueTo

\* A prune takes tiles of the default set only, or excuses the set it took for it.
LEMMA PruneCacheKeeps ==
    ASSUME IInv, UNCHANGED limit, PruneCache
    PROVE  IInv' /\ (SetsComplete => SetsComplete')
<1>1. PICK ts \in SUBSET UniqueTo(DefaultSet) :
        /\ tiles' = Without(tiles, ts)
        /\ excused' = excused \cup ({tiles[t] : t \in ts} \X (UserSets \cap {DefaultSet}))
  BY DEF PruneCache, Prunable
<1>2. UNCHANGED <<sets, rows, downloads, flights, torn>> /\ cached' = DefaultSet
  BY DEF PruneCache
<1>3. DefaultSet \in SetIDs /\ limit.sets \in Nat
  BY DefaultSetExists, LimitsTyped DEF IInv, OthersTyped
<1>4. TilesTyped'
  BY <1>1, TilesRemoved DEF IInv
<1>5. OthersTyped'
  <2>1. \A t \in ts : tiles[t] \in Hash
    BY DEF UniqueTo, IInv, TilesTyped, Range
  <2>2. excused' \subseteq Hash \X UserSets
    BY <1>1, <2>1 DEF IInv, OthersTyped
  <2>3. cached' \in 0..limit.sets
    BY <1>2, <1>3 DEF SetIDs
  <2> QED  BY <1>2, <2>2, <2>3 DEF IInv, OthersTyped, SetIDs, UserSets
<1>6. IInv'
  BY <1>2, <1>4, <1>5 DEF IInv, SetsTyped, RowsTyped, DownloadsTyped, Download,
                          DownloadsOwned, TileIDs, SetIDs, UserSets, Defaults
<1>7. ASSUME SetsComplete PROVE SetsComplete'
  <2> SUFFICES ASSUME NEW s \in UserSets, NEW h \in sets[s].area PROVE Cared(h, s)'
    BY <1>2 DEF SetsComplete, Cared, UserSets
  <2>1. Cared(h, s) /\ s \in SetIDs
    BY <1>7, SetsCared DEF IInv, SetsTyped, UserSets
  <2>2. CASE HasTile(h, s)
    <3>1. PICK t \in DOMAIN tiles : tiles[t] = h /\ Listed(t, s)
      BY <2>2 DEF HasTile, TileOf
    <3>2. CASE t \notin ts
      <4>1. t \in DOMAIN tiles' /\ tiles'[t] = h
        <5>1. /\ DOMAIN tiles' = DOMAIN tiles \ ts
              /\ \A u \in DOMAIN tiles \ ts : tiles'[u] = tiles[u]
          BY <1>1, WithoutRows
        <5> QED  BY <3>1, <3>2, <5>1
      <4>2. Listed(t, s)'
        BY <1>2, <3>1 DEF Listed
      <4> QED  BY <4>1, <4>2 DEF Cared, HasTile, TileOf
    <3>3. CASE t \in ts
      <4>1. s = DefaultSet
        BY <2>1, <3>1, <3>3, UniqueIsUnlisted
      <4> QED  BY <1>1, <3>1, <3>3, <4>1 DEF Cared
    <3> QED  BY <3>2, <3>3
  <2> QED  BY <1>1, <1>2, <2>1, <2>2 DEF Cared
<1> QED  BY <1>6, <1>7

\* What has been executed when done statements of a deletion have: each of them is
\* after the ones before it, and the set goes after its downloads and before its rows.
LEMMA DeleteOrder ==
    ASSUME NEW done \in 1..4, NEW did, did = {DeleteSteps[i] : i \in 1..done}
    PROVE  /\ "Tiles" \in did
           /\ "TilesDownload" \in did <=> done >= 2
           /\ "TileSets" \in did <=> done >= 3
           /\ "SetTiles" \in did <=> done = 4
<1>1. /\ DeleteSteps[1] = "Tiles" /\ DeleteSteps[2] = "TilesDownload"
      /\ DeleteSteps[3] = "TileSets" /\ DeleteSteps[4] = "SetTiles"
  BY DEF DeleteSteps
<1>2. CASE done = 1
  <2>1. 1..done = {1}
    BY <1>2
  <2> QED  BY <1>1, <1>2, <2>1
<1>3. CASE done = 2
  <2>1. 1..done = {1, 2}
    BY <1>3
  <2> QED  BY <1>1, <1>3, <2>1
<1>4. CASE done = 3
  <2>1. 1..done = {1, 2, 3}
    BY <1>4
  <2> QED  BY <1>1, <1>4, <2>1
<1>5. CASE done = 4
  <2>1. 1..done = {1, 2, 3, 4}
    BY <1>5
  <2> QED  BY <1>1, <1>5, <2>1
<1> QED  BY <1>2, <1>3, <1>4, <1>5

\* A deletion, wherever it is cut short, takes nothing of another set.
LEMMA DeleteTileSetKeeps ==
    ASSUME IInv, UNCHANGED limit, NEW s \in UserSets, NEW done \in 1..4,
           DeleteTileSet(s, done)
    PROVE  IInv' /\ (SetsComplete => SetsComplete')
<1> DEFINE doomed == {h \in DOMAIN downloads : downloads[h].set = s}
<1>1. /\ tiles' = Without(tiles, UniqueTo(s))
      /\ downloads' = IF done >= 2 THEN Without(downloads, doomed) ELSE downloads
      /\ sets' = IF done >= 3 THEN Without(sets, {s}) ELSE sets
      /\ rows' = IF done = 4 THEN NoRowsOf(s) ELSE rows
      /\ excused' = IF done >= 3 THEN {e \in excused : e[2] # s}
                    ELSE excused \cup (sets[s].area \X {s})
      /\ IF done = 4 THEN cached' = DefaultSet /\ UNCHANGED flights ELSE Restart
      /\ UNCHANGED torn
  <2>1. PICK did : did = {DeleteSteps[i] : i \in 1..done}
    OBVIOUS
  <2>2. /\ "Tiles" \in did
        /\ "TilesDownload" \in did <=> done >= 2
        /\ "TileSets" \in did <=> done >= 3
        /\ "SetTiles" \in did <=> done = 4
    BY <2>1, DeleteOrder
  <2>3. /\ tiles' = (IF "Tiles" \in did THEN Without(tiles, UniqueTo(s)) ELSE tiles)
        /\ downloads' = IF "TilesDownload" \in did THEN Without(downloads, doomed)
                        ELSE downloads
        /\ sets' = IF "TileSets" \in did THEN Without(sets, {s}) ELSE sets
        /\ rows' = IF "SetTiles" \in did THEN NoRowsOf(s) ELSE rows
        /\ excused' = IF "TileSets" \in did THEN {e \in excused : e[2] # s}
                      ELSE excused \cup (sets[s].area \X {s})
        /\ IF done = 4 THEN cached' = DefaultSet /\ UNCHANGED flights ELSE Restart
        /\ UNCHANGED torn
    BY <2>1 DEF DeleteTileSet, Doomed
  <2> QED  BY <2>2, <2>3
<1>2. s \in SetIDs /\ DefaultSet \in SetIDs /\ limit.sets \in Nat
  BY DefaultSetExists, LimitsTyped DEF IInv, OthersTyped, SetsTyped, UserSets
<1>3. /\ DOMAIN tiles' = DOMAIN tiles \ UniqueTo(s)
      /\ \A t \in DOMAIN tiles \ UniqueTo(s) : tiles'[t] = tiles[t]
      /\ TilesTyped'
  <2>1. tiles' = Without(tiles, UniqueTo(s)) /\ TilesTyped
    BY <1>1 DEF IInv
  <2>2. TilesTyped'
    BY <2>1, TilesRemoved
  <2> QED  BY <2>1, <2>2, WithoutRows
<1>4. /\ SetsTyped' /\ Defaults' = Defaults
      /\ UserSets' = (IF done >= 3 THEN UserSets \ {s} ELSE UserSets)
      /\ \A u \in UserSets' : sets'[u] = sets[u]
  <2>1. CASE done >= 3
    BY <1>1, <2>1, SetDeleted DEF IInv
  <2>2. CASE ~(done >= 3)
    BY <1>1, <2>2 DEF IInv, SetsTyped, SetIDs, Defaults, UserSets
  <2> QED  BY <2>1, <2>2
<1>5. /\ RowsTyped'
      /\ \A t \in TileIDs, u \in SetIDs \ {s} : Listed(t, u) => Listed(t, u)'
      /\ done < 4 => rows' = rows
  <2>1. CASE done = 4
    <3>1. /\ NoRowsOf(s) \in [TileIDs \X SetIDs -> 0..2]
          /\ \A t \in TileIDs, u \in SetIDs \ {s} : NoRowsOf(s)[<<t, u>>] = rows[<<t, u>>]
      BY RowsRemoved DEF IInv
    <3>2. rows' = NoRowsOf(s)
      BY <1>1, <2>1
    <3> QED  BY <2>1, <3>1, <3>2 DEF RowsTyped, Listed, TileIDs, SetIDs
  <2>2. CASE done # 4
    BY <1>1, <2>2 DEF IInv, RowsTyped, Listed, TileIDs, SetIDs
  <2> QED  BY <2>1, <2>2
<1>6. /\ DownloadsTyped'
      /\ \A h \in DOMAIN downloads :
            downloads[h].set # s => h \in DOMAIN downloads' /\ downloads'[h] = downloads[h]
      /\ \A h \in DOMAIN downloads' :
            /\ h \in DOMAIN downloads /\ downloads'[h] = downloads[h]
            /\ done >= 2 => downloads[h].set # s
  <2>1. CASE done >= 2
    <3>1. /\ DOMAIN downloads' = DOMAIN downloads \ doomed
          /\ \A h \in DOMAIN downloads \ doomed : downloads'[h] = downloads[h]
          /\ DownloadsTyped'
      <4>1. downloads' = Without(downloads, doomed) /\ DownloadsTyped
        BY <1>1, <2>1 DEF IInv
      <4>2. DownloadsTyped'
        BY <4>1, DownloadsRemoved
      <4>3. /\ DOMAIN Without(downloads, doomed) = DOMAIN downloads \ doomed
            /\ \A h \in DOMAIN downloads \ doomed : Without(downloads, doomed)[h] = downloads[h]
        BY ONLY WithoutRows
      <4> QED  BY <4>1, <4>2, <4>3
    <3> QED  BY <2>1, <3>1
  <2>2. CASE ~(done >= 2)
    <3>1. UNCHANGED downloads /\ DownloadsTyped
      BY <1>1, <2>2 DEF IInv
    <3> QED  BY <2>2, <3>1 DEF DownloadsTyped, Download, SetIDs
  <2> QED  BY <2>1, <2>2
<1>7. DownloadsOwned'
  BY <1>1, <1>4, <1>6 DEF IInv, DownloadsOwned
<1>8. OthersTyped'
  <2>1. excused' \subseteq Hash \X UserSets'
    <3>1. CASE done >= 3
      BY <1>1, <1>4, <3>1 DEF IInv, OthersTyped
    <3>2. CASE ~(done >= 3)
      BY <1>1, <1>4, <3>2 DEF IInv, OthersTyped, SetsTyped, UserSets
    <3> QED  BY <3>1, <3>2
  <2>2. cached' \in 0..limit.sets /\ flights' \subseteq [hash : Hash, set : SetIDs]
    BY <1>1, <1>2 DEF IInv, OthersTyped, Restart, SetIDs
  <2> QED  BY <1>1, <2>1, <2>2 DEF IInv, OthersTyped, SetIDs
<1>9. IInv'
  BY <1>3, <1>4, <1>5, <1>6, <1>7, <1>8 DEF IInv
<1>10. ASSUME SetsComplete PROVE SetsComplete'
  <2>1. ASSUME NEW u \in UserSets, NEW h \in sets[u].area, u # s PROVE Cared(h, u)'
    <3>1. Cared(h, u) /\ u \in SetIDs
      BY <1>10, SetsCared DEF IInv, SetsTyped, UserSets
    <3>2. ASSUME HasTile(h, u) PROVE HasTile(h, u)'
      <4>1. PICK t \in DOMAIN tiles : tiles[t] = h /\ Listed(t, u)
        BY <3>2 DEF HasTile, TileOf
      <4>2. t \in TileIDs /\ t \notin UniqueTo(s)
        BY <2>1, <3>1, <4>1, UniqueIsUnlisted DEF IInv, TilesTyped
      <4> QED  BY <1>3, <1>5, <2>1, <3>1, <4>1, <4>2 DEF HasTile, TileOf
    <3>3. <<h, u>> \in excused => <<h, u>> \in excused'
      BY <1>1, <2>1
    <3> QED  BY <1>6, <2>1, <3>1, <3>2, <3>3 DEF Cared
  <2>2. ASSUME NEW h \in sets[s].area, done < 3 PROVE Cared(h, s)'
    BY <1>1, <2>2 DEF Cared
  <2> SUFFICES ASSUME NEW u \in UserSets', NEW h \in sets'[u].area PROVE Cared(h, u)'
    BY DEF SetsComplete, Cared
  <2>3. u \in UserSets /\ h \in sets[u].area /\ (u = s => done < 3)
    BY <1>4
  <2> QED  BY <2>1, <2>2, <2>3
<1> QED  BY <1>9, <1>10

\* A reply that is deleted changes nothing in the database.
LEMMA DropFlightKeeps ==
    ASSUME IInv, UNCHANGED limit, NEW f \in flights, DropFlight(f)
    PROVE  IInv' /\ (SetsComplete => SetsComplete')
<1>1. UNCHANGED <<tiles, sets, rows, downloads, cached, excused, torn>>
  BY DEF DropFlight
<1>2. flights' \subseteq flights
  BY DEF DropFlight
<1>3. IInv'
  BY <1>1, <1>2 DEF IInv, TilesTyped, SetsTyped, RowsTyped, DownloadsTyped, Download,
                    DownloadsOwned, OthersTyped, TileIDs, SetIDs, UserSets, Defaults
<1>4. SetsComplete => SetsComplete'
  BY <1>1 DEF SetsComplete, UserSets, HasTile, TileOf, Listed
<1> QED  BY <1>3, <1>4

\* Nor does the end of the process.
LEMMA KillKeeps ==
    ASSUME IInv, UNCHANGED limit, Kill
    PROVE  IInv' /\ (SetsComplete => SetsComplete')
<1>1. UNCHANGED <<tiles, sets, rows, downloads, excused, torn>> /\ flights' = {} /\ cached' = 0
  BY DEF Kill, Restart
<1>2. 0 \in 0..limit.sets
  BY LimitsTyped DEF IInv, OthersTyped
<1>3. IInv'
  BY <1>1, <1>2 DEF IInv, TilesTyped, SetsTyped, RowsTyped, DownloadsTyped, Download,
                    DownloadsOwned, OthersTyped, TileIDs, SetIDs, UserSets, Defaults
<1>4. SetsComplete => SetsComplete'
  BY <1>1 DEF SetsComplete, UserSets, HasTile, TileOf, Listed
<1> QED  BY <1>3, <1>4

\* A table with nothing but the default set.
LEMMA OnlyDefault ==
    ASSUME limit \in Limits, UNCHANGED limit, sets' = DefaultOnly
    PROVE  SetsTyped' /\ UserSets' = {} /\ Defaults' = {1}
<1>1. 1 \in SetIDs
  BY LimitsTyped
<1>2. [isDefault |-> TRUE, area |-> {}] \in [isDefault : BOOLEAN, area : SUBSET Hash]
  OBVIOUS
<1>3. DOMAIN sets' = {1} /\ sets'[1] = [isDefault |-> TRUE, area |-> {}]
  BY DEF DefaultOnly, DefaultSetRow
<1> QED  BY <1>1, <1>2, <1>3 DEF SetsTyped, UserSets, Defaults, SetIDs

\* A reset excuses every set it has not dropped yet.
LEMMA ResetCacheDatabaseKeeps ==
    ASSUME IInv, UNCHANGED limit, NEW done \in 1..4, ResetCacheDatabase(done)
    PROVE  IInv' /\ (SetsComplete => SetsComplete')
<1>1. /\ DOMAIN tiles' = {}
      /\ sets' = IF done >= 2 THEN DefaultOnly ELSE sets
      /\ rows' = IF done >= 3 THEN NoRows ELSE rows
      /\ IF done = 4 THEN DOMAIN downloads' = {} ELSE UNCHANGED downloads
      /\ excused' = IF done >= 2 THEN {} ELSE UNION {sets[s].area \X {s} : s \in UserSets}
      /\ torn' = (done < 4)
      /\ IF done = 4 THEN UNCHANGED <<cached, flights>> ELSE Restart
  BY EmptyTable DEF ResetCacheDatabase
<1>2. limit' \in Limits /\ limit.sets \in Nat
  BY LimitsTyped DEF IInv, OthersTyped
<1>3. /\ SetsTyped' /\ Defaults' # {}
      /\ done >= 2 => UserSets' = {}
      /\ done < 2 => UserSets' = UserSets /\ sets' = sets
  <2>1. CASE done >= 2
    <3>1. limit \in Limits /\ sets' = DefaultOnly
      BY <1>1, <1>2, <2>1
    <3>2. SetsTyped' /\ UserSets' = {} /\ Defaults' = {1}
      BY <3>1, OnlyDefault
    <3> QED  BY <2>1, <3>2
  <2>2. CASE done < 2
    BY <1>1, <2>2 DEF IInv, SetsTyped, SetIDs, UserSets, Defaults
  <2> QED  BY <2>1, <2>2
<1>4. RowsTyped'
  <2>1. 0 \in 0..2
    OBVIOUS
  <2>2. NoRows \in [TileIDs \X SetIDs -> 0..2]
    BY <2>1, Zenon DEF NoRows
  <2> QED  BY <1>1, <2>2 DEF IInv, RowsTyped, TileIDs, SetIDs
<1>5. DownloadsTyped' /\ DownloadsOwned'
  <2>1. CASE done = 4
    BY <1>1, <2>1 DEF DownloadsTyped, DownloadsOwned
  <2>2. CASE done # 4
    <3>1. done < 4
      BY <2>2
    <3>2. torn'
      BY <1>1, <3>1, Zenon
    <3> QED  BY <1>1, <2>2, <3>2 DEF IInv, DownloadsTyped, Download, DownloadsOwned, SetIDs
  <2> QED  BY <2>1, <2>2
<1>6. OthersTyped'
  <2>1. excused' \subseteq Hash \X UserSets'
    <3>1. CASE done >= 2
      BY <1>1, <3>1
    <3>2. CASE done < 2
      <4>1. excused' = UNION {sets[s].area \X {s} : s \in UserSets} /\ UserSets' = UserSets
        BY <1>1, <1>3, <3>2
      <4>2. \A s \in UserSets : sets[s].area \subseteq Hash
        BY DEF IInv, SetsTyped, UserSets
      <4> QED  BY <4>1, <4>2
    <3> QED  BY <3>1, <3>2
  <2>2. cached' \in 0..limit.sets /\ flights' \subseteq [hash : Hash, set : SetIDs]
    BY <1>1, <1>2 DEF IInv, OthersTyped, Restart
  <2> QED  BY <1>1, <1>2, <2>1, <2>2 DEF OthersTyped, SetIDs
<1>7. TilesTyped'
  BY <1>1 DEF TilesTyped, Range, IsInjective
<1>8. SetsComplete'
  BY <1>1, <1>3 DEF SetsComplete
<1> QED  BY <1>3, <1>4, <1>5, <1>6, <1>7, <1>8 DEF IInv

\* The set of an imported database has all its tiles.
LEMMA ReplaceDatabaseKeeps ==
    ASSUME IInv, UNCHANGED limit, NEW area \in SUBSET limit.hashes, NEW d \in BOOLEAN,
           ReplaceDatabase(area, d)
    PROVE  IInv' /\ SetsComplete'
<1>1. PICK user, ids :
        /\ user = IF d THEN 2 ELSE 1
        /\ ids = 1..Cardinality(area)
        /\ limit.sets >= 2 /\ Cardinality(area) <= limit.tiles
        /\ tiles' \in Bijection(ids, area)
        /\ sets' = [s \in 1..2 |-> IF s = user THEN UserSetRow(area) ELSE DefaultSetRow]
        /\ rows' = [p \in DOMAIN rows |-> IF p \in ids \X {user} THEN 1 ELSE 0]
        /\ DOMAIN downloads' = {} /\ excused' = {} /\ torn' = FALSE
  BY EmptyTable DEF ReplaceDatabase
<1>2. UNCHANGED <<cached, flights>>
  BY DEF ReplaceDatabase
<1>3. /\ area \in SUBSET Hash /\ limit.sets \in Nat /\ limit.tiles \in Nat
      /\ limit \in Limits
  BY LimitsTyped DEF IInv, OthersTyped
<1>4. user \in SetIDs /\ user \in 1..2 /\ 1..2 \subseteq SetIDs /\ ids \subseteq TileIDs
  <2>1. Cardinality(area) \in Nat
    BY <1>3, FS_Subset, FS_CardinalityType, BoundAssumption
  <2> QED  BY <1>1, <1>3, <2>1 DEF SetIDs, TileIDs
<1>5. /\ UserSetRow(area) \in [isDefault : BOOLEAN, area : SUBSET Hash]
      /\ DefaultSetRow \in [isDefault : BOOLEAN, area : SUBSET Hash]
      /\ DefaultSetRow.isDefault /\ ~UserSetRow(area).isDefault
      /\ UserSetRow(area).area = area
  BY <1>3 DEF UserSetRow, DefaultSetRow
<1>6. SetsTyped' /\ UserSets' = {user} /\ Defaults' # {} /\ sets'[user].area = area
  <2>1. /\ DOMAIN sets' = 1..2 /\ sets'[user] = UserSetRow(area)
        /\ \A s \in 1..2 : s # user => sets'[s] = DefaultSetRow
    BY <1>1, <1>4
  <2>2. SetsTyped'
    BY <1>4, <1>5, <2>1 DEF SetsTyped, SetIDs
  <2>3. UserSets' = {user}
    BY <1>4, <1>5, <2>1 DEF UserSets
  <2>4. Defaults' # {}
    <3>1. PICK s \in 1..2 : s # user
      BY <1>4
    <3> QED  BY <2>1, <2>3, <3>1 DEF Defaults
  <2> QED  BY <1>5, <2>1, <2>2, <2>3, <2>4
<1>7. /\ tiles' \in [ids -> area] /\ IsInjective(tiles')
      /\ \A h \in area : \E t \in ids : tiles'[t] = h
  BY <1>1 DEF Bijection, Injection, Surjection
<1>8. TilesTyped'
  BY <1>3, <1>4, <1>7 DEF TilesTyped, Range, TileIDs
<1>9. RowsTyped' /\ \A t \in ids : Listed(t, user)'
  <2>1. DOMAIN rows = TileIDs \X SetIDs
    BY DEF IInv, RowsTyped
  <2>2. RowsTyped'
    BY <1>1, <2>1 DEF RowsTyped, TileIDs, SetIDs
  <2>3. ASSUME NEW t \in ids PROVE rows'[<<t, user>>] = 1
    <3>1. <<t, user>> \in TileIDs \X SetIDs /\ <<t, user>> \in ids \X {user}
      BY <1>4
    <3> QED  BY <1>1, <2>1, <3>1
  <2> QED  BY <2>2, <2>3 DEF Listed
<1>10. DownloadsTyped' /\ DownloadsOwned'
  BY <1>1 DEF DownloadsTyped, DownloadsOwned
<1>11. OthersTyped'
  BY <1>1, <1>2 DEF IInv, OthersTyped, SetIDs
<1>12. SetsComplete'
  BY <1>6, <1>7, <1>9 DEF SetsComplete, HasTile, TileOf
<1> QED  BY <1>6, <1>8, <1>9, <1>10, <1>11, <1>12 DEF IInv

\* Every step does.
LEMMA NextIsSafe ==
    ASSUME IInv, [Next]_vars
    PROVE  IInv' /\ (SetsComplete => SetsComplete')
<1>1. CASE UNCHANGED vars
  BY <1>1 DEF vars, IInv, TilesTyped, SetsTyped, RowsTyped, DownloadsTyped, Download,
              DownloadsOwned, OthersTyped, TileIDs, SetIDs, UserSets, Defaults,
              SetsComplete, HasTile, TileOf, Listed
<1>2. CASE Next
  <2> UNCHANGED limit /\ Step
    BY <1>2 DEF Next
  <2>1. CASE \E h \in limit.hashes : Browse(h)
    BY <2>1, BrowseKeeps
  <2>2. CASE \E area \in SUBSET limit.hashes \ {{}}, whole \in BOOLEAN :
                CreateTileSet(area, whole)
    BY <2>2, CreateTileSetKeeps
  <2>3. CASE \E s \in UserSets : GetTileDownloadList(s)
    BY <2>3, GetTileDownloadListKeeps
  <2>4. CASE \E f \in flights : RecordDownload(f)
    BY <2>4, RecordDownloadKeeps
  <2>5. CASE \E f \in flights : FailDownload(f)
    BY <2>5, FailDownloadKeeps
  <2>6. CASE \E s \in UserSets : ResumeDownload(s)
    BY <2>6, ResumeDownloadKeeps
  <2>7. CASE PruneCache
    BY <2>7, PruneCacheKeeps
  <2>8. CASE \E s \in UserSets, done \in 1..4 : DeleteTileSet(s, done)
    BY <2>8, DeleteTileSetKeeps
  <2>9. CASE \E f \in flights : DropFlight(f)
    BY <2>9, DropFlightKeeps
  <2>10. CASE \E done \in 1..4 : ResetCacheDatabase(done)
    BY <2>10, ResetCacheDatabaseKeeps
  <2>11. CASE \E area \in SUBSET limit.hashes \ {{}}, d \in BOOLEAN : ReplaceDatabase(area, d)
    BY <2>11, ReplaceDatabaseKeeps
  <2>12. CASE UpdateTotals
    BY <2>12, UpdateTotalsKeeps
  <2>13. CASE Kill
    BY <2>13, KillKeeps
  <2> QED  BY <2>1, <2>2, <2>3, <2>4, <2>5, <2>6, <2>7, <2>8, <2>9, <2>10, <2>11, <2>12, <2>13
           DEF Step
<1> QED  BY <1>1, <1>2

-----------------------------------------------------------------------------
(* Theorems *)

\* Whatever sets are created, downloaded, deleted, replaced or reset, and wherever the
\* process is killed, the tables are typed, their UNIQUE columns hold, and a download
\* belongs to a user-made set that exists.
THEOREM TablesAreSound == Spec => []Inv
<1>1. Init => IInv
  BY InitIsSafe
<1>2. IInv /\ [Next]_vars => IInv'
  BY NextIsSafe
<1>3. IInv => Inv
  BY IInvSuffices
<1> QED  BY <1>1, <1>2, <1>3, PTL DEF Spec

\* No interleaving of downloads, retries, deletions, resets and crashes loses a tile a
\* set asked for, but for the five ways in which the code lets one go.
THEOREM SetsStayComplete == Spec => []SetsComplete
<1>1. Init => IInv /\ SetsComplete
  BY InitIsSafe
<1>2. IInv /\ SetsComplete /\ [Next]_vars => IInv' /\ SetsComplete'
  BY NextIsSafe
<1> QED  BY <1>1, <1>2, PTL DEF Spec

\* A step that neither drops nor replaces the tables, taken while the cached id is that
\* of a default set, keeps each tile listed for a set it does not delete.
Kept ==
    CachedIsDefault =>
       \A s \in UserSets : \A t \in DOMAIN tiles : Listed(t, s) =>
          (t \in DOMAIN tiles' /\ tiles'[t] = tiles[t]) \/ Deletes(s) \/ NewTables
LEMMA StepKeepsTiles == ASSUME IInv, Next PROVE Kept
<1> SUFFICES ASSUME CachedIsDefault, ~NewTables, NEW s \in UserSets, NEW t \in DOMAIN tiles,
                    Listed(t, s), ~Deletes(s)
             PROVE  t \in DOMAIN tiles' /\ tiles'[t] = tiles[t]
  BY Zenon DEF Kept
<1>1. UNCHANGED limit /\ Step /\ s \in SetIDs
  BY DEF Next, IInv, SetsTyped, UserSets
<1>2. DefaultSet \in SetIDs /\ s # DefaultSet
  BY DefaultSetExists DEF Defaults
<1>3. ASSUME NEW u, u # s, tiles' = Without(tiles, UniqueTo(u))
      PROVE  t \in DOMAIN tiles' /\ tiles'[t] = tiles[t]
  <2>1. t \in DOMAIN tiles \ UniqueTo(u)
    BY <1>1, <1>3, UniqueIsUnlisted
  <2>2. /\ DOMAIN tiles' = DOMAIN tiles \ UniqueTo(u)
        /\ \A v \in DOMAIN tiles \ UniqueTo(u) : tiles'[v] = tiles[v]
    BY <1>3, WithoutRows
  <2> QED  BY <2>1, <2>2
<1>4. ASSUME NEW h \in Hash, NEW u \in SetIDs, NEW whole \in BOOLEAN, UNCHANGED sets,
             SaveTile(h, u, whole)
      PROVE  t \in DOMAIN tiles' /\ tiles'[t] = tiles[t]
  BY <1>1, <1>4, TileSaved DEF Grown
<1>5. CASE \E h \in limit.hashes : Browse(h)
  BY <1>2, <1>4, <1>5, LimitsTyped DEF Browse, IInv, OthersTyped
<1>6. CASE \E f \in flights : RecordDownload(f)
  <2>1. PICK f \in flights : RecordDownload(f)
    BY <1>6
  <2>2. f.hash \in Hash /\ f.set \in SetIDs
    BY DEF IInv, OthersTyped
  <2>3. PICK whole \in BOOLEAN : SaveTile(f.hash, f.set, whole) \/ UNCHANGED tiles
    BY <2>1, Zenon DEF RecordDownload
  <2>4. UNCHANGED sets
    BY <2>1 DEF RecordDownload
  <2> QED  BY <1>4, <2>2, <2>3, <2>4
<1>7. CASE PruneCache
  <2>1. PICK ts \in SUBSET UniqueTo(DefaultSet) : tiles' = Without(tiles, ts)
    BY <1>7 DEF PruneCache, Prunable
  <2>2. t \notin ts
    BY <1>1, <1>2, UniqueIsUnlisted
  <2>3. /\ DOMAIN tiles' = DOMAIN tiles \ ts
        /\ \A v \in DOMAIN tiles \ ts : tiles'[v] = tiles[v]
    BY <2>1, WithoutRows
  <2> QED  BY <2>2, <2>3
<1>8. CASE \E u \in UserSets, done \in 1..4 : DeleteTileSet(u, done)
  <2>1. PICK u \in UserSets, done \in 1..4 : DeleteTileSet(u, done)
    BY <1>8
  <2>2. u # s
    BY <2>1 DEF Deletes
  <2>3. tiles' = Without(tiles, UniqueTo(u)) \/ UNCHANGED tiles
    BY <2>1, Zenon DEF DeleteTileSet, Doomed
  <2> QED  BY <1>3, <2>2, <2>3
<1>9. CASE UNCHANGED tiles
  BY <1>9
<1>10. CASE NewTables
  BY <1>10
<1> QED  BY <1>1, <1>5, <1>6, <1>7, <1>8, <1>9, <1>10
         DEF Step, NewTables, CreateTileSet, GetTileDownloadList, FailDownload, ResumeDownload,
             DropFlight, UpdateTotals, Kill

\* Tiles shared with a deleted set or with the default set stay.
THEOREM SharedTilesStay == Spec => KeepsTiles
<1>1. Init => IInv
  BY InitIsSafe
<1>2. IInv /\ [Next]_vars => IInv'
  BY NextIsSafe
<1>3. IInv /\ [Next]_vars => [Kept]_vars
  BY StepKeepsTiles
<1>4. KeepsTiles <=> [][Kept]_vars
  BY DEF KeepsTiles, Kept
<1> QED  BY <1>1, <1>2, <1>3, <1>4, PTL DEF Spec
=============================================================================
